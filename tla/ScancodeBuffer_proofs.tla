------------------------ MODULE ScancodeBuffer_proofs ------------------------
(***************************************************************************)
(* Proofs about ScancodeBuffer, for every size of the buffer: the values   *)
(* readchar works on are never stale, and the circular buffer is a queue.  *)
(* The step lemmas are about how many codes wait (Waiting) and where they  *)
(* are (SlotOf); the refinement follows from them.                         *)
(***************************************************************************)
EXTENDS ScancodeBuffer, TLAPS

(* The inductive invariant.                                                *)
IInv == TypeOK /\ RemovalNotStale

-----------------------------------------------------------------------------
(* SCANCODE_BUFFER_NEXTLOC, without the remainder.                         *)
LEMMA Nextloc ==
  ASSUME NEW x \in Slots
  PROVE  SCANCODE_BUFFER_NEXTLOC(x)
           = IF x = SCANCODE_BUFFER_SIZE - 1 THEN 0 ELSE x + 1
  <1>1. CASE x = SCANCODE_BUFFER_SIZE - 1
    BY <1>1, ScancodeBufferAssumption DEF SCANCODE_BUFFER_NEXTLOC, Slots
  <1>2. CASE x # SCANCODE_BUFFER_SIZE - 1
    BY <1>2, ScancodeBufferAssumption DEF SCANCODE_BUFFER_NEXTLOC, Slots
  <1> QED
    BY <1>1, <1>2

LEMMA NextlocSlot ==
  ASSUME NEW x \in Slots
  PROVE  SCANCODE_BUFFER_NEXTLOC(x) \in Slots
  BY Nextloc, ScancodeBufferAssumption DEF Slots

(* The way of a byte through a signed char and back.                       *)
LEMMA ByteSurvives ==
  ASSUME NEW b \in Bytes
  PROVE  AsUnsignedChar(AsChar(b)) = b
  BY DEF Bytes, AsChar, AsUnsignedChar

-----------------------------------------------------------------------------
LEMMA InitIInv == Init => IInv
  <1> SUFFICES ASSUME Init PROVE IInv
    OBVIOUS
  <1>1. 0 \in Slots /\ 0 \in Bytes
    BY ScancodeBufferAssumption DEF Slots, Bytes
  <1>2. lost \in BOOLEAN
    BY DEF Init
  <1> QED
    BY <1>1, <1>2 DEF Init, IInv, TypeOK, RemovalNotStale

(* An interrupt fills a free slot, which is not the one readchar is at.    *)
LEMMA InterruptIInv ==
  ASSUME IInv, NEW b \in Scancodes, keyboard_interrupt_handler(b)
  PROVE  IInv'
  <1>1. AsUnsignedChar(AsChar(b)) \in Bytes
    BY ByteSurvives, ScancodeBufferAssumption DEF Bytes
  <1>2. SCANCODE_BUFFER_NEXTLOC(scancode_buffer_end) \in Slots
    BY NextlocSlot DEF IInv, TypeOK
  <1>3. lost' \in BOOLEAN
    BY Zenon DEF keyboard_interrupt_handler, keyb_add_scancode, SCANCODE_BUFFER_ISFULL
  <1>4. TypeOK'
    BY <1>1, <1>2, <1>3 DEF IInv, TypeOK, keyboard_interrupt_handler, keyb_add_scancode
  <1>5. RemovalNotStale'
    BY <1>4 DEF IInv, TypeOK, RemovalNotStale, keyboard_interrupt_handler,
                keyb_add_scancode, SCANCODE_BUFFER_ISFULL, SCANCODE_BUFFER_ISEMPTY
  <1> QED
    BY <1>4, <1>5 DEF IInv

LEMMA ReadcharIInv ==
  ASSUME IInv, readchar
  PROVE  IInv'
  <1> USE DEF IInv, handlerVars
  <1>1. CASE keyb_remove_test
    BY <1>1 DEF keyb_remove_test, TypeOK, RemovalNotStale, SCANCODE_BUFFER_ISEMPTY
  <1>2. CASE keyb_remove_load
    BY <1>2 DEF keyb_remove_load, TypeOK, RemovalNotStale, SCANCODE_BUFFER_ISEMPTY
  <1>3. CASE keyb_remove_advance
    <2>1. SCANCODE_BUFFER_NEXTLOC(scancode_buffer_begin) \in Slots
      BY NextlocSlot DEF TypeOK
    <2> QED
      BY <1>3, <2>1 DEF keyb_remove_advance, TypeOK, RemovalNotStale, SCANCODE_BUFFER_ISEMPTY
  <1>4. ASSUME NEW event \in KeyEvents, readchar_process(event)
        PROVE  IInv'
    <2>1. event.char \in Chars
      BY DEF KeyEvents
    <2>2. ret' \in Chars \cup {-1}
      BY <1>4, <2>1 DEF readchar_process
    <2> QED
      BY <1>4, <2>2 DEF readchar_process, TypeOK, RemovalNotStale, SCANCODE_BUFFER_ISEMPTY
  <1> QED
    BY <1>1, <1>2, <1>3, <1>4 DEF readchar

LEMMA NextIInv == IInv /\ [Next]_vars => IInv'
  <1> SUFFICES ASSUME IInv, [Next]_vars PROVE IInv'
    OBVIOUS
  <1>1. CASE keyboard_interrupt
    BY <1>1, InterruptIInv DEF keyboard_interrupt
  <1>2. CASE readchar
    BY <1>2, ReadcharIInv
  <1>3. CASE UNCHANGED vars
    BY <1>3 DEF vars, IInv, TypeOK, RemovalNotStale, SCANCODE_BUFFER_ISEMPTY
  <1> QED
    BY <1>1, <1>2, <1>3 DEF Next

THEOREM Invariance == Spec => []IInv
  BY InitIInv, NextIInv, PTL DEF Spec

(* Every variable keeps the range its C type and its use give it: the two  *)
(* indices stay inside the buffer, every slot holds a byte.                *)
THEOREM TypeCorrect == Spec => []TypeOK
  BY Invariance, PTL DEF IInv

(* keyb_remove_scancode never acts on a stale test or a stale code.        *)
THEOREM NeverStale == Spec => []RemovalNotStale
  BY Invariance, PTL DEF IInv

-----------------------------------------------------------------------------
(* The refinement: where the codes are that wait, and how many.            *)

BufferOK ==
  /\ scancode_buffer \in [Slots -> Bytes]
  /\ scancode_buffer_begin \in Slots /\ scancode_buffer_end \in Slots

LEMMA WaitingBounds ==
  ASSUME BufferOK
  PROVE  /\ Waiting \in 0 .. SCANCODE_BUFFER_SIZE - 1
         /\ Waiting = 0 <=> SCANCODE_BUFFER_ISEMPTY
         /\ Waiting = SCANCODE_BUFFER_SIZE - 1 <=> SCANCODE_BUFFER_ISFULL
  <1>1. /\ scancode_buffer_begin \in 0 .. SCANCODE_BUFFER_SIZE - 1
        /\ scancode_buffer_end \in 0 .. SCANCODE_BUFFER_SIZE - 1
    BY DEF BufferOK, Slots
  <1>2. SCANCODE_BUFFER_NEXTLOC(scancode_buffer_end)
          = IF scancode_buffer_end = SCANCODE_BUFFER_SIZE - 1
              THEN 0 ELSE scancode_buffer_end + 1
    BY Nextloc DEF BufferOK
  <1> QED
    BY <1>1, <1>2, ScancodeBufferAssumption
    DEF Waiting, SCANCODE_BUFFER_ISEMPTY, SCANCODE_BUFFER_ISFULL

LEMMA SlotOfSlot ==
  ASSUME BufferOK, NEW i \in 1 .. SCANCODE_BUFFER_SIZE
  PROVE  SlotOf(i) \in Slots
  BY ScancodeBufferAssumption DEF BufferOK, Slots, SlotOf

(* The free slot is not one where a code waits, and is the next one to     *)
(* hold a code.                                                            *)
LEMMA FreeSlot ==
  ASSUME BufferOK
  PROVE  /\ \A i \in 1 .. Waiting : SlotOf(i) # scancode_buffer_end
         /\ SlotOf(Waiting + 1) = scancode_buffer_end
  <1>1. /\ scancode_buffer_begin \in 0 .. SCANCODE_BUFFER_SIZE - 1
        /\ scancode_buffer_end \in 0 .. SCANCODE_BUFFER_SIZE - 1
    BY DEF BufferOK, Slots
  <1> QED
    BY <1>1, ScancodeBufferAssumption DEF Waiting, SlotOf

ContentsIsSeq ==
  /\ Contents \in Seq(Bytes)
  /\ Len(Contents) = Waiting
  /\ \A i \in 1 .. Waiting : Contents[i] = scancode_buffer[SlotOf(i)]

LEMMA ContentsSeq == BufferOK => ContentsIsSeq
  <1> SUFFICES ASSUME BufferOK PROVE ContentsIsSeq
    OBVIOUS
  <1>1. Waiting \in Nat /\ Waiting <= SCANCODE_BUFFER_SIZE - 1
    BY WaitingBounds, ScancodeBufferAssumption
  <1>2. \A i \in 1 .. Waiting : scancode_buffer[SlotOf(i)] \in Bytes
    <2> SUFFICES ASSUME NEW i \in 1 .. Waiting
                 PROVE  scancode_buffer[SlotOf(i)] \in Bytes
      OBVIOUS
    <2>1. i \in 1 .. SCANCODE_BUFFER_SIZE
      BY <1>1, ScancodeBufferAssumption
    <2> QED
      BY <2>1, SlotOfSlot DEF BufferOK
  <1>3. Contents = [i \in 1 .. Waiting |-> scancode_buffer[SlotOf(i)]]
    BY DEF Contents
  <1> QED
    BY <1>1, <1>2, <1>3 DEF ContentsIsSeq

(* Two sequences with the same length and the same elements are one.       *)
LEMMA SeqEqual ==
  ASSUME NEW S, NEW s \in Seq(S), NEW t \in Seq(S), Len(s) = Len(t),
         \A i \in 1 .. Len(s) : s[i] = t[i]
  PROVE  s = t
  OBVIOUS

-----------------------------------------------------------------------------
(* Where there is room, a byte in the free slot joins the codes that wait  *)
(* when the end of the buffer moves behind it.                             *)
LEMMA EndAppends ==
  ASSUME BufferOK, BufferOK', ~SCANCODE_BUFFER_ISFULL, NEW b \in Bytes,
         scancode_buffer' = [scancode_buffer EXCEPT ![scancode_buffer_end] = b],
         scancode_buffer_end' = SCANCODE_BUFFER_NEXTLOC(scancode_buffer_end),
         scancode_buffer_begin' = scancode_buffer_begin
  PROVE  Contents' = Append(Contents, b)
  <1>2. scancode_buffer_end' = IF scancode_buffer_end = SCANCODE_BUFFER_SIZE - 1
                                 THEN 0 ELSE scancode_buffer_end + 1
    BY Nextloc DEF BufferOK
  <1>3. Waiting \in Nat /\ Waiting < SCANCODE_BUFFER_SIZE - 1
    BY WaitingBounds, ScancodeBufferAssumption
  <1>4. Waiting' = Waiting + 1
    BY <1>2, <1>3, ScancodeBufferAssumption DEF BufferOK, Slots, Waiting
  <1>5. \A i : SlotOf(i)' = SlotOf(i)
    BY <1>2 DEF SlotOf
  <1>6. ContentsIsSeq /\ ContentsIsSeq'
    BY ContentsSeq, PTL
  <1>7. \A i \in 1 .. Waiting + 1 : Contents'[i] = scancode_buffer'[SlotOf(i)]
    BY <1>4, <1>5, <1>6 DEF ContentsIsSeq
  <1>8. /\ Append(Contents, b) \in Seq(Bytes)
        /\ Len(Append(Contents, b)) = Waiting + 1
        /\ Append(Contents, b)[Waiting + 1] = b
        /\ \A i \in 1 .. Waiting : Append(Contents, b)[i] = Contents[i]
    BY <1>3, <1>6 DEF ContentsIsSeq
  <1>9. ASSUME NEW i \in 1 .. Waiting + 1
        PROVE  Contents'[i] = Append(Contents, b)[i]
    <2>1. CASE i = Waiting + 1
      BY <1>2, <1>7, <1>8, <2>1, FreeSlot DEF BufferOK
    <2>2. CASE i \in 1 .. Waiting
      <3>1. SlotOf(i) # scancode_buffer_end /\ SlotOf(i) \in Slots
        BY <1>3, <2>2, FreeSlot, SlotOfSlot, ScancodeBufferAssumption
      <3>2. Contents[i] = scancode_buffer[SlotOf(i)]
        BY <1>6, <2>2 DEF ContentsIsSeq
      <3> QED
        BY <1>2, <1>7, <1>8, <2>2, <3>1, <3>2 DEF BufferOK
    <2>3. i = Waiting + 1 \/ i \in 1 .. Waiting
      BY <1>3
    <2> QED
      BY <2>1, <2>2, <2>3
  <1>10. Contents' \in Seq(Bytes) /\ Len(Contents') = Waiting + 1
    BY <1>4, <1>6 DEF ContentsIsSeq
  <1> QED
    BY <1>8, <1>9, <1>10, SeqEqual

(* A write into the free slot is not seen: no code waits there.            *)
LEMMA FreeSlotUnseen ==
  ASSUME BufferOK, UNCHANGED <<scancode_buffer_begin, scancode_buffer_end>>, NEW b,
         scancode_buffer' = [scancode_buffer EXCEPT ![scancode_buffer_end] = b]
  PROVE  Contents' = Contents
  <1>1. Waiting' = Waiting /\ \A i : SlotOf(i)' = SlotOf(i)
    BY DEF Waiting, SlotOf
  <1>2. ASSUME NEW i \in 1 .. Waiting
        PROVE  scancode_buffer'[SlotOf(i)] = scancode_buffer[SlotOf(i)]
    <2>1. Waiting \in Nat /\ Waiting <= SCANCODE_BUFFER_SIZE - 1
      BY WaitingBounds, ScancodeBufferAssumption
    <2>2. SlotOf(i) # scancode_buffer_end /\ SlotOf(i) \in Slots
      BY <2>1, FreeSlot, SlotOfSlot, ScancodeBufferAssumption
    <2> QED
      BY <2>2 DEF BufferOK
  <1> QED
    BY <1>1, <1>2 DEF Contents

(* A removal takes the first of the codes that wait.                       *)
LEMMA RemoveTakesHead ==
  ASSUME BufferOK, BufferOK', ~SCANCODE_BUFFER_ISEMPTY,
         UNCHANGED <<scancode_buffer, scancode_buffer_end>>,
         scancode_buffer_begin' = SCANCODE_BUFFER_NEXTLOC(scancode_buffer_begin)
  PROVE  /\ Contents # << >>
         /\ Head(Contents) = scancode_buffer[scancode_buffer_begin]
         /\ Contents' = Tail(Contents)
  <1>1. /\ scancode_buffer' = scancode_buffer
        /\ scancode_buffer_end' = scancode_buffer_end
        /\ scancode_buffer_begin' = IF scancode_buffer_begin = SCANCODE_BUFFER_SIZE - 1
                                      THEN 0 ELSE scancode_buffer_begin + 1
    BY Nextloc DEF BufferOK
  <1>2. Waiting \in Nat \ {0} /\ Waiting <= SCANCODE_BUFFER_SIZE - 1
    BY WaitingBounds, ScancodeBufferAssumption
  <1>3. Waiting' = Waiting - 1
    BY <1>1, <1>2, ScancodeBufferAssumption
    DEF BufferOK, Slots, Waiting, SCANCODE_BUFFER_ISEMPTY
  <1>4. \A i \in 1 .. Waiting - 1 : SlotOf(i)' = SlotOf(i + 1)
    BY <1>1, <1>2, ScancodeBufferAssumption DEF BufferOK, Slots, SlotOf
  <1>5. ContentsIsSeq /\ ContentsIsSeq'
    BY ContentsSeq, PTL
  <1>6. \A i \in 1 .. Waiting - 1 : Contents'[i] = Contents[i + 1]
    <2>1. \A i \in 1 .. Waiting - 1 : Contents'[i] = scancode_buffer[SlotOf(i + 1)]
      BY <1>1, <1>3, <1>4, <1>5 DEF ContentsIsSeq
    <2>2. \A i \in 1 .. Waiting - 1 : i + 1 \in 1 .. Waiting
      BY <1>2
    <2> QED
      BY <1>5, <2>1, <2>2 DEF ContentsIsSeq
  <1>7. /\ Contents # << >>
        /\ Head(Contents) = Contents[1]
        /\ Tail(Contents) \in Seq(Bytes)
        /\ Len(Tail(Contents)) = Waiting - 1
        /\ \A i \in 1 .. Waiting - 1 : Tail(Contents)[i] = Contents[i + 1]
    BY <1>2, <1>5 DEF ContentsIsSeq
  <1>8. Contents[1] = scancode_buffer[scancode_buffer_begin]
    <2>1. SlotOf(1) = scancode_buffer_begin
      BY ScancodeBufferAssumption DEF BufferOK, Slots, SlotOf
    <2> QED
      BY <1>2, <1>5, <2>1 DEF ContentsIsSeq
  <1>9. Contents' \in Seq(Bytes) /\ Len(Contents') = Waiting - 1
    BY <1>3, <1>5 DEF ContentsIsSeq
  <1>10. Contents' = Tail(Contents)
    BY <1>6, <1>7, <1>9, SeqEqual
  <1> QED
    BY <1>7, <1>8, <1>10

(* Any other step leaves the codes that wait as they are.                  *)
LEMMA ContentsUnchanged ==
  ASSUME UNCHANGED <<scancode_buffer, scancode_buffer_begin, scancode_buffer_end>>
  PROVE  Contents' = Contents
  BY DEF Contents, Waiting, SlotOf

-----------------------------------------------------------------------------
LEMMA StepRefines ==
  ASSUME IInv, IInv', [Next]_vars
  PROVE  [Queue!Next]_<<Contents, lost, sc>>
  <1>0. BufferOK /\ BufferOK'
    BY DEF IInv, TypeOK, BufferOK
  <1>1. /\ Len(Contents) = Waiting
        /\ Contents \in Seq(Bytes)
        /\ Waiting \in Nat /\ Waiting <= SCANCODE_BUFFER_SIZE - 1
    BY <1>0, ContentsSeq, WaitingBounds, ScancodeBufferAssumption DEF ContentsIsSeq
  <1>2. ASSUME NEW b \in Scancodes, keyboard_interrupt_handler(b)
        PROVE  Queue!Arrive(b)
    <2>1. lost' = SCANCODE_BUFFER_ISFULL /\ sc' = sc
      BY <1>2 DEF keyboard_interrupt_handler, keyb_add_scancode
    <2>2. CASE SCANCODE_BUFFER_ISFULL
      <3>1. Contents' = Contents
        BY <1>2, <2>2, ContentsUnchanged DEF keyboard_interrupt_handler, keyb_add_scancode
      <3>2. Len(Contents) = SCANCODE_BUFFER_SIZE - 1
        BY <1>0, <1>1, <2>2, WaitingBounds
      <3>3. ~(Len(Contents) < SCANCODE_BUFFER_SIZE - 1)
            /\ (Len(Contents) >= SCANCODE_BUFFER_SIZE - 1) = TRUE
        BY <1>1, <3>2, ScancodeBufferAssumption
      <3>4. lost' = TRUE
        BY <1>2, <2>2 DEF keyboard_interrupt_handler, keyb_add_scancode
      <3> QED
        BY <2>1, <3>1, <3>3, <3>4, Zenon DEF Queue!Arrive
    <2>3. CASE ~SCANCODE_BUFFER_ISFULL
      <3>1. Contents' = Append(Contents, b)
        <4>1. b \in Bytes /\ AsUnsignedChar(AsChar(b)) = b
          BY ByteSurvives, ScancodeBufferAssumption DEF Bytes
        <4> QED
          BY <1>0, <1>2, <2>3, <4>1, EndAppends
          DEF keyboard_interrupt_handler, keyb_add_scancode
      <3>2. Len(Contents) # SCANCODE_BUFFER_SIZE - 1
        BY <1>0, <1>1, <2>3, WaitingBounds
      <3>3. Len(Contents) < SCANCODE_BUFFER_SIZE - 1
            /\ (Len(Contents) >= SCANCODE_BUFFER_SIZE - 1) = FALSE
        BY <1>1, <3>2, ScancodeBufferAssumption
      <3>4. lost' = FALSE
        BY <2>1, <2>3
      <3> QED
        BY <2>1, <3>1, <3>3, <3>4, Zenon DEF Queue!Arrive
    <2> QED
      BY <2>2, <2>3
  <1>3. CASE keyboard_interrupt
    BY <1>2, <1>3 DEF keyboard_interrupt, Queue!Next
  <1>4. CASE keyb_remove_test
    <2>1. Contents' = Contents /\ lost' = lost
      BY <1>4, ContentsUnchanged DEF keyb_remove_test, handlerVars
    <2>2. CASE SCANCODE_BUFFER_ISEMPTY
      <3>1. Contents = << >>
        BY <1>0, <1>1, <2>2, WaitingBounds
      <3>2. sc' = -1
        BY <1>4, <2>2 DEF keyb_remove_test
      <3> QED
        BY <2>1, <3>1, <3>2 DEF Queue!Next, Queue!FindEmpty
    <2>3. CASE ~SCANCODE_BUFFER_ISEMPTY
      BY <1>4, <2>1, <2>3 DEF keyb_remove_test
    <2> QED
      BY <2>2, <2>3
  <1>5. CASE keyb_remove_load
    BY <1>5, ContentsUnchanged DEF keyb_remove_load, handlerVars
  <1>6. CASE keyb_remove_advance
    <2>1. taken = scancode_buffer[scancode_buffer_begin] /\ ~SCANCODE_BUFFER_ISEMPTY
      BY <1>6 DEF keyb_remove_advance, IInv, RemovalNotStale
    <2>2. sc' = taken /\ lost' = lost
      BY <1>6 DEF keyb_remove_advance, handlerVars
    <2>3. /\ Contents # << >>
          /\ Head(Contents) = scancode_buffer[scancode_buffer_begin]
          /\ Contents' = Tail(Contents)
      BY <1>0, <1>6, <2>1, RemoveTakesHead DEF keyb_remove_advance, handlerVars
    <2> QED
      BY <2>1, <2>2, <2>3 DEF Queue!Next, Queue!Take
  <1>7. ASSUME NEW event \in KeyEvents, readchar_process(event)
        PROVE  UNCHANGED <<Contents, lost, sc>>
    BY <1>7, ContentsUnchanged DEF readchar_process, handlerVars
  <1>8. CASE UNCHANGED vars
    BY <1>8, ContentsUnchanged DEF vars
  <1> QED
    BY <1>3, <1>4, <1>5, <1>6, <1>7, <1>8 DEF Next, readchar

(* The circular buffer implements the queue, for every size.               *)
THEOREM Refinement == Spec => ImplementsScancodeQueue
  <1>1. Init => Queue!Init
    <2> SUFFICES ASSUME Init PROVE Queue!Init
      OBVIOUS
    <2>1. Waiting = 0
      BY DEF Init, Waiting
    <2>2. Contents = << >>
      BY <2>1 DEF Contents
    <2> QED
      BY <2>2 DEF Init, Queue!Init
  <1>2. IInv /\ IInv' /\ [Next]_vars => [Queue!Next]_<<Contents, lost, sc>>
    BY StepRefines
  <1> QED
    BY <1>1, <1>2, Invariance, PTL
    DEF Spec, ImplementsScancodeQueue, Queue!Spec, Queue!qvars
=============================================================================
