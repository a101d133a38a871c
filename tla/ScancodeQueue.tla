--------------------------- MODULE ScancodeQueue ---------------------------
(***************************************************************************)
(* What the keyboard driver promises: a first-in first-out queue of at     *)
(* most Capacity scancodes between the interrupt and the reader.  A code   *)
(* that arrives is queued, or lost if and only if the queue is full; a     *)
(* poll takes the oldest code, or Empty if and only if there is none.      *)
(*                                                                         *)
(* ScancodeBuffer and Interrupts implement this module.                    *)
(***************************************************************************)
EXTENDS Integers, Sequences

CONSTANTS Codes,       \* the scancodes
          Capacity,    \* how many can wait
          Empty        \* what a poll of the empty queue yields

VARIABLES queue,       \* the codes that wait, oldest first
          lost,        \* whether the latest code to arrive was lost
          got          \* what the latest poll yielded

qvars == <<queue, lost, got>>

Init ==
  /\ queue = << >>
  /\ lost = FALSE
  /\ got = Empty

Arrive(c) ==
  /\ queue' = IF Len(queue) < Capacity THEN Append(queue, c) ELSE queue
  /\ lost' = (Len(queue) >= Capacity)
  /\ UNCHANGED got

Take ==
  /\ queue # << >>
  /\ got' = Head(queue)
  /\ queue' = Tail(queue)
  /\ UNCHANGED lost

FindEmpty ==
  /\ queue = << >>
  /\ got' = Empty
  /\ UNCHANGED <<queue, lost>>

Next == (\E c \in Codes : Arrive(c)) \/ Take \/ FindEmpty

Spec == Init /\ [][Next]_qvars
=============================================================================
