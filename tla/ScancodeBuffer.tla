--------------------------- MODULE ScancodeBuffer ---------------------------
(***************************************************************************)
(* The keyboard driver, kern/keyboard.c: a circular buffer that the        *)
(* keyboard interrupt fills and readchar empties, with no lock between     *)
(* them.  The kernel has one processor, so the interrupt handler is one    *)
(* step; readchar may be interrupted between any two of its accesses to    *)
(* the buffer, so those are steps of their own.  (Interrupts opens the     *)
(* handler up too, for there it can itself be interrupted.)                *)
(***************************************************************************)
EXTENDS Integers, Sequences

CONSTANTS
  SCANCODE_BUFFER_SIZE,   \* 1024 in the code, a power of two
  Scancodes,              \* the bytes the controller may deliver
  Chars                   \* the characters process_scancode may yield

ASSUME ScancodeBufferAssumption ==
  /\ SCANCODE_BUFFER_SIZE \in Nat
  /\ SCANCODE_BUFFER_SIZE > 1
  /\ Scancodes \subseteq 0 .. 255
  /\ Chars \subseteq Nat

VARIABLES
  scancode_buffer,        \* the slots
  scancode_buffer_begin,  \* the oldest code, written by readchar
  scancode_buffer_end,    \* the next free slot, written by the interrupt
  lost,                   \* history: the latest interrupt dropped its code
  pc,                     \* where readchar is
  taken,                  \* keyb_remove_scancode's local sc
  sc,                     \* readchar's local sc
  ret                     \* what readchar last returned

handlerVars == <<scancode_buffer, scancode_buffer_end, lost>>
readerVars == <<scancode_buffer_begin, pc, taken, sc, ret>>
vars == <<scancode_buffer, scancode_buffer_begin, scancode_buffer_end, lost,
          pc, taken, sc, ret>>

Slots == 0 .. SCANCODE_BUFFER_SIZE - 1
Bytes == 0 .. 255

(* Mutant: the mask is forgotten.                                          *)
MutantNextlocUnmasked(x) == x + 1

(* (x + 1) & SCANCODE_BUFFER_SIZE_MASK, the size being a power of two.     *)
SCANCODE_BUFFER_NEXTLOC(x) == (x + 1) % SCANCODE_BUFFER_SIZE

(* Mutant: the buffer counts as full one code too early.                   *)
MutantIsFullEarly ==
  \/ SCANCODE_BUFFER_NEXTLOC(scancode_buffer_end) = scancode_buffer_begin
  \/ SCANCODE_BUFFER_NEXTLOC(SCANCODE_BUFFER_NEXTLOC(scancode_buffer_end))
       = scancode_buffer_begin

SCANCODE_BUFFER_ISFULL ==
  SCANCODE_BUFFER_NEXTLOC(scancode_buffer_end) = scancode_buffer_begin

SCANCODE_BUFFER_ISEMPTY == scancode_buffer_begin = scancode_buffer_end

(* keyb_add_scancode's parameter is a char, which is signed, and the slot  *)
(* an unsigned char: a byte above 127 goes through a negative number.      *)
AsChar(b) == IF b < 128 THEN b ELSE b - 256
AsUnsignedChar(c) == c % 256

(* kh_type, the answer of the external process_scancode: whether there is  *)
(* data, whether the key was pressed or released, and its character.       *)
KeyEvents == [data : BOOLEAN, make : BOOLEAN, char : Chars]

Init ==
  /\ scancode_buffer = [i \in Slots |-> 0]
  /\ scancode_buffer_begin = 0
  /\ scancode_buffer_end = 0
  /\ lost = FALSE
  /\ pc = "idle"
  /\ taken = -1
  /\ sc = -1
  /\ ret = -1

-----------------------------------------------------------------------------
(* The interrupt.                                                          *)

(* Mutant: when the buffer is full the oldest code makes way.              *)
MutantAddDropsOldest(c) ==
  /\ scancode_buffer' = [scancode_buffer EXCEPT ![scancode_buffer_end] = AsUnsignedChar(c)]
  /\ scancode_buffer_end' = SCANCODE_BUFFER_NEXTLOC(scancode_buffer_end)
  /\ lost' = SCANCODE_BUFFER_ISFULL
  /\ scancode_buffer_begin' = IF SCANCODE_BUFFER_ISFULL
                                THEN SCANCODE_BUFFER_NEXTLOC(scancode_buffer_begin)
                                ELSE scancode_buffer_begin

keyb_add_scancode(c) ==
  /\ UNCHANGED scancode_buffer_begin
  /\ lost' = SCANCODE_BUFFER_ISFULL
  /\ IF SCANCODE_BUFFER_ISFULL
       THEN UNCHANGED <<scancode_buffer, scancode_buffer_end>>
       ELSE /\ scancode_buffer' =
                 [scancode_buffer EXCEPT ![scancode_buffer_end] = AsUnsignedChar(c)]
            /\ scancode_buffer_end' = SCANCODE_BUFFER_NEXTLOC(scancode_buffer_end)

(* keyboard_interrupt_handler: inb yields byte b.                          *)
keyboard_interrupt_handler(b) ==
  /\ keyb_add_scancode(AsChar(b))
  /\ UNCHANGED <<pc, taken, sc, ret>>

-----------------------------------------------------------------------------
(* readchar, from one access to the buffer to the next.                    *)

(* keyb_remove_scancode's test; if it fails, readchar returns at once.     *)
keyb_remove_test ==
  /\ pc = "idle"
  /\ IF SCANCODE_BUFFER_ISEMPTY
       THEN sc' = -1 /\ ret' = -1 /\ UNCHANGED pc
       ELSE pc' = "load" /\ UNCHANGED <<sc, ret>>
  /\ UNCHANGED <<handlerVars, scancode_buffer_begin, taken>>

keyb_remove_load ==
  /\ pc = "load"
  /\ taken' = scancode_buffer[scancode_buffer_begin]
  /\ pc' = "advance"
  /\ UNCHANGED <<handlerVars, scancode_buffer_begin, sc, ret>>

(* Mutant: the code is returned and begin stays where it was.              *)
MutantRemoveStays ==
  /\ pc = "advance"
  /\ sc' = taken
  /\ pc' = "process"
  /\ UNCHANGED <<handlerVars, scancode_buffer_begin, taken, ret>>

keyb_remove_advance ==
  /\ pc = "advance"
  /\ scancode_buffer_begin' = SCANCODE_BUFFER_NEXTLOC(scancode_buffer_begin)
  /\ sc' = taken
  /\ pc' = "process"
  /\ UNCHANGED <<handlerVars, taken, ret>>

(* The rest of readchar: only the press of a key with data is a character. *)
readchar_process(event) ==
  /\ pc = "process"
  /\ ret' = IF event.data /\ event.make THEN event.char ELSE -1
  /\ pc' = "idle"
  /\ UNCHANGED <<handlerVars, scancode_buffer_begin, taken, sc>>

keyboard_interrupt == \E b \in Scancodes : keyboard_interrupt_handler(b)

readchar ==
  \/ keyb_remove_test
  \/ keyb_remove_load
  \/ keyb_remove_advance
  \/ \E event \in KeyEvents : readchar_process(event)

Next == keyboard_interrupt \/ readchar

Spec == Init /\ [][Next]_vars

(* A caller that polls the keyboard for ever.                              *)
FairSpec == Spec /\ WF_vars(readchar)

-----------------------------------------------------------------------------
TypeOK ==
  /\ scancode_buffer \in [Slots -> Bytes]
  /\ scancode_buffer_begin \in Slots
  /\ scancode_buffer_end \in Slots
  /\ lost \in BOOLEAN
  /\ pc \in {"idle", "load", "advance", "process"}
  /\ taken \in Bytes \cup {-1}
  /\ sc \in Bytes \cup {-1}
  /\ ret \in Chars \cup {-1}

(* Between its test and its update of begin, keyb_remove_scancode works on *)
(* values that an interrupt may have changed since.  Yet the buffer it     *)
(* found non-empty still is, and the code it loaded is still the oldest.   *)
RemovalNotStale ==
  /\ pc \in {"load", "advance"} => ~SCANCODE_BUFFER_ISEMPTY
  /\ pc = "advance" => taken = scancode_buffer[scancode_buffer_begin]

(* The code at the front of the buffer is taken in the end, however many   *)
(* interrupts arrive meanwhile.                                            *)
OldestTaken ==
  \A b \in Slots :
     scancode_buffer_begin = b /\ ~SCANCODE_BUFFER_ISEMPTY
        ~> scancode_buffer_begin # b

(* How many codes wait, and what they are, oldest first.                   *)
Waiting ==
  IF scancode_buffer_begin <= scancode_buffer_end
    THEN scancode_buffer_end - scancode_buffer_begin
    ELSE scancode_buffer_end - scancode_buffer_begin + SCANCODE_BUFFER_SIZE

SlotOf(i) ==
  IF scancode_buffer_begin + i - 1 < SCANCODE_BUFFER_SIZE
    THEN scancode_buffer_begin + i - 1
    ELSE scancode_buffer_begin + i - 1 - SCANCODE_BUFFER_SIZE

Contents == [i \in 1 .. Waiting |-> scancode_buffer[SlotOf(i)]]

(* The circular buffer is a queue of SCANCODE_BUFFER_SIZE - 1 codes: no    *)
(* code is reordered, duplicated or altered (not even 0xff, whose char is  *)
(* -1), none is lost while there is room, and keyb_remove_scancode says    *)
(* "empty" only when it is.                                                *)
Queue == INSTANCE ScancodeQueue
           WITH queue <- Contents, got <- sc, Codes <- Scancodes,
                Capacity <- SCANCODE_BUFFER_SIZE - 1, Empty <- -1
ImplementsScancodeQueue == Queue!Spec

-----------------------------------------------------------------------------
(* What a comment says.                                                    *)

(* kernel.h:36: readchar returns "-1 if the keyboard buffer is currently   *)
(* empty", that is, -1 tells that the removal found the buffer empty.      *)
MinusOneMeansEmpty == pc = "idle" /\ ret = -1 => sc = -1
=============================================================================
