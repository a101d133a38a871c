----------------------------- MODULE AddressSpace -----------------------------
(***************************************************************************)
(* An address space that is being filled: a byte that was not there        *)
(* appears as 0, and a 0 becomes the byte the executable has for that      *)
(* address, once.  Nothing that is in place is ever moved or overwritten.  *)
(***************************************************************************)
CONSTANTS Addresses, Absent

VARIABLES
  space,                 \* what the task finds at each address
  final                  \* what it is to find there

Init == space = [a \in Addresses |-> Absent]

Fill(a) ==
  \/ space'[a] = space[a]
  \/ space[a] = Absent /\ space'[a] = 0
  \/ space[a] = 0 /\ space'[a] = final[a]

Next == (\A a \in Addresses : Fill(a)) /\ UNCHANGED final

Spec == Init /\ [][Next]_<<space, final>>
=============================================================================
