----------------------------- MODULE SystemCalls -----------------------------
(***************************************************************************)
(* What a program in user mode sees of the kernel: it is started once,     *)
(* calls functions of the user library, and raises exceptions.             *)
(***************************************************************************)
CONSTANTS
  Registers,             \* those a function preserves
  FramePointer,          \* the one of them an exception costs
  Implemented,           \* the interrupt numbers of the calls the kernel has
  Numbers,               \* those of all calls
  ThreadId

VARIABLES
  phase,                 \* "boot", in the program ("app"), in a "call", or "down"
  kept,                  \* the registers as the program last saw them
  number,                \* of the call it is in
  result                 \* of the last call, or anything

vars == <<phase, kept, number, result>>

Init == phase = "boot"

Start ==
  /\ phase = "boot" /\ phase' = "app"
  /\ UNCHANGED number

Call ==
  /\ phase = "app" /\ phase' = "call"
  /\ number' \in Numbers
  /\ UNCHANGED kept

(* A call leaves the registers alone; if the kernel has it, it answers     *)
(* with the thread's id.                                                   *)
Return ==
  /\ phase = "call" /\ phase' = "app"
  /\ number \in Implemented => result' = ThreadId
  /\ UNCHANGED kept

(* An exception is reported and the program goes on without its frame      *)
(* pointer.                                                                *)
Exception ==
  /\ phase = "app" /\ phase' = "app"
  /\ \A r \in Registers \ {FramePointer} : kept'[r] = kept[r]
  /\ UNCHANGED <<number, result>>

(* The program, or a call the kernel does not have, ends the machine.      *)
Stop ==
  /\ phase = "app" \/ (phase = "call" /\ number \notin Implemented)
  /\ phase' = "down"

Next == Start \/ Call \/ Return \/ Exception \/ Stop
Spec == Init /\ [][Next]_vars
=============================================================================
