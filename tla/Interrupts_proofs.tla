-------------------------- MODULE Interrupts_proofs --------------------------
(***************************************************************************)
(* Proofs about Interrupts, for every depth of nesting: each handler       *)
(* acknowledges its own interrupt, the keyboard's bytes are accounted for, *)
(* the ticks are counted in order, and the buffer that the handler and     *)
(* readchar share is a queue.                                              *)
(*                                                                         *)
(* An activation is open until it has acknowledged.  The controller lets   *)
(* an interrupt through only above all that is in service, so the open     *)
(* activations have higher and higher priorities from the outermost to the *)
(* innermost (Nesting), and the interrupts in service are those of the     *)
(* open activations (InService).  Hence an acknowledgement, which ends the *)
(* service of highest priority, ends that of the handler that sends it,    *)
(* and no two activations of one handler's body are open together.         *)
(*                                                                         *)
(* All work on one register.  What a context finds there when it runs      *)
(* again (Finds) is what it left, since every handler restores it: so the  *)
(* byte that the keyboard's handler has read, and the code that readchar   *)
(* has loaded, are still there when they are used (Kept).                  *)
(***************************************************************************)
EXTENDS Interrupts, SequenceTheorems, FiniteSetTheorems, TLAPS

Places == {"pusha", "load", "store", "call", "inb", "test", "slot", "end", "ack", "popa", "iret"}
Activations == [irq : Irqs, at : Places, saved : Int]

Typed ==
  /\ scancode_buffer \in [B!Slots -> B!Bytes]
  /\ scancode_buffer_begin \in B!Slots /\ scancode_buffer_end \in B!Slots
  /\ eax \in Int /\ numTicks \in Int
  /\ irr \subseteq Irqs /\ isr \subseteq Irqs
  /\ kbd \in [byte : B!Bytes, unread : BOOLEAN]
  /\ stack \in Seq(Activations)

Setup ==
  /\ idt \subseteq Irqs
  /\ boot # "timer_init" => Timer \in idt /\ timer_callback
  /\ boot \in {"enable_interrupts", "run"} => Keyboard \in idt
  /\ iff => boot = "run"

Open(k) == stack[k].at \notin {"popa", "iret"}
Pending(k) == stack[k].irq = Keyboard /\ stack[k].at \in {"pusha", "inb"}

Nesting ==
  \A k, l \in 1 .. Len(stack) :
    k < l /\ Open(k) /\ Open(l) => stack[l].irq < stack[k].irq

InService ==
  \A i \in Irqs : i \in isr <=> \E k \in 1 .. Len(stack) : stack[k].irq = i /\ Open(k)

Owed ==
  /\ kbd.unread <=> (Keyboard \in irr \/ \E k \in 1 .. Len(stack) : Pending(k))
  /\ Keyboard \in irr => \A k \in 1 .. Len(stack) : ~Pending(k)

Order == Nesting /\ InService /\ Owed

IInv == Typed /\ Setup /\ EntriesReady /\ Order

-----------------------------------------------------------------------------
(* What the steps do to the stack.                                         *)

LEMMA TopReplaced ==
  ASSUME stack \in Seq(Activations), stack # << >>, NEW e \in Activations,
         stack' = [stack EXCEPT ![Len(stack)] = e]
  PROVE  /\ stack' \in Seq(Activations)
         /\ Len(stack) \in Nat \ {0} /\ Len(stack') = Len(stack)
         /\ stack'[Len(stack)] = e
         /\ \A k \in 1 .. Len(stack) : k # Len(stack) => stack'[k] = stack[k]
  <1>1. Len(stack) \in 1 .. Len(stack)
    BY EmptySeq, LenProperties
  <1> QED
    BY <1>1, ExceptSeq

LEMMA Moved ==
  ASSUME Typed, stack # << >>, NEW at \in Places, GoTo(at)
  PROVE  /\ stack' \in Seq(Activations)
         /\ Len(stack) \in Nat \ {0} /\ Len(stack') = Len(stack)
         /\ Last(stack) = stack[Len(stack)]
         /\ stack'[Len(stack)] = [stack[Len(stack)] EXCEPT !.at = at]
         /\ \A k \in 1 .. Len(stack) : k # Len(stack) => stack'[k] = stack[k]
         /\ \A k \in 1 .. Len(stack) : stack[k] \in Activations
  <1>1. Len(stack) \in 1 .. Len(stack) /\ \A k \in 1 .. Len(stack) : stack[k] \in Activations
    BY EmptySeq, LenProperties, ElementOfSeq DEF Typed
  <1> DEFINE e == [stack[Len(stack)] EXCEPT !.at = at]
  <1>2. e \in Activations
    BY <1>1 DEF Activations
  <1>3. stack' = [stack EXCEPT ![Len(stack)] = e]
    BY DEF GoTo
  <1> QED
    BY <1>1, <1>2, <1>3, TopReplaced DEF Typed, Last

LEMMA Grown ==
  ASSUME Typed, NEW a \in Activations, stack' = Append(stack, a)
  PROVE  /\ stack' \in Seq(Activations)
         /\ Len(stack) \in Nat /\ Len(stack') = Len(stack) + 1
         /\ stack'[Len(stack) + 1] = a
         /\ \A k \in 1 .. Len(stack) : stack'[k] = stack[k]
         /\ \A k \in 1 .. Len(stack) : stack[k] \in Activations
  BY AppendProperties, LenProperties, ElementOfSeq DEF Typed

LEMMA Shrunk ==
  ASSUME Typed, stack # << >>, stack' = Front(stack)
  PROVE  /\ stack' \in Seq(Activations)
         /\ Len(stack) \in Nat \ {0} /\ Len(stack') = Len(stack) - 1
         /\ Last(stack) = stack[Len(stack)]
         /\ \A k \in 1 .. Len(stack) - 1 : stack'[k] = stack[k]
         /\ \A k \in 1 .. Len(stack) : stack[k] \in Activations
  <1>1. Len(stack) \in Nat \ {0} /\ \A k \in 1 .. Len(stack) : stack[k] \in Activations
    BY EmptySeq, LenProperties, ElementOfSeq DEF Typed
  <1>2. stack' = SubSeq(stack, 1, Len(stack) - 1)
    BY DEF Front
  <1> DEFINE n == Len(stack) - 1
  <1>0. Len(stack) \in Nat \ {0}
    BY <1>1
  <1> HIDE DEF n
  <1>a. \A m \in Nat \ {0} : m - 1 \in Nat
    OBVIOUS
  <1>b. n \in Nat
    BY <1>0, <1>a DEF n
  <1>3. n \in Nat /\ n - 1 + 1 = n /\ (1 <= n \/ n = 0)
    BY <1>b
  <1>4. \A i \in 1 .. n : stack[i] \in Activations
    BY <1>1 DEF n
  <1>5. /\ SubSeq(stack, 1, n) \in Seq(Activations)
        /\ Len(SubSeq(stack, 1, n)) = IF 1 <= n THEN n - 1 + 1 ELSE 0
        /\ \A i \in 1 .. n - 1 + 1 : SubSeq(stack, 1, n)[i] = stack[1 + i - 1]
    BY <1>3, <1>4, SubSeqProperties
  <1>6. /\ stack' \in Seq(Activations)
        /\ Len(stack') = n
        /\ \A k \in 1 .. n : stack'[k] = stack[k]
    BY <1>2, <1>3, <1>5 DEF n
  <1> QED
    BY <1>1, <1>6 DEF Last, n

-----------------------------------------------------------------------------
(* Steps that leave the activations open, and pending, as they are.        *)

SameActivations ==
  /\ Len(stack') = Len(stack)
  /\ \A k \in 1 .. Len(stack) :
       /\ stack'[k].irq = stack[k].irq
       /\ Open(k)' <=> Open(k)
       /\ Pending(k)' <=> Pending(k)

LEMMA SameOrder ==
  ASSUME Order, SameActivations, isr' = isr, irr' = irr, kbd' = kbd
  PROVE  Order'
  <1> USE DEF SameActivations, Order
  <1>1. Nesting'
    BY DEF Nesting
  <1>2. InService'
    BY DEF InService
  <1>3. Owed'
    BY DEF Owed
  <1> QED
    BY <1>1, <1>2, <1>3

LEMMA MovedOn ==
  ASSUME Typed, stack # << >>, NEW at \in Places, GoTo(at),
         Last(stack).at \in {"popa", "iret"} <=> at \in {"popa", "iret"},
         Last(stack).irq = Keyboard =>
           (Last(stack).at \in {"pusha", "inb"} <=> at \in {"pusha", "inb"})
  PROVE  stack' \in Seq(Activations) /\ SameActivations
  <1>1. /\ stack' \in Seq(Activations)
        /\ Len(stack) \in Nat \ {0} /\ Len(stack') = Len(stack)
        /\ Last(stack) = stack[Len(stack)]
        /\ stack'[Len(stack)] = [stack[Len(stack)] EXCEPT !.at = at]
        /\ \A k \in 1 .. Len(stack) : k # Len(stack) => stack'[k] = stack[k]
        /\ stack[Len(stack)] \in Activations
    BY Moved
  <1>2. ASSUME NEW k \in 1 .. Len(stack)
        PROVE  /\ stack'[k].irq = stack[k].irq
               /\ Open(k)' <=> Open(k)
               /\ Pending(k)' <=> Pending(k)
    <2>1. CASE k # Len(stack)
      BY <1>1, <2>1 DEF Open, Pending
    <2>2. CASE k = Len(stack)
      <3>1. stack'[k].at = at /\ stack'[k].irq = stack[k].irq
        BY <1>1, <2>2 DEF Activations
      <3>2. stack[k].at = Last(stack).at /\ stack[k].irq = Last(stack).irq
        BY <1>1, <2>2
      <3> QED
        BY <3>1, <3>2 DEF Open, Pending
    <2> QED
      BY <2>1, <2>2
  <1> QED
    BY <1>1, <1>2 DEF SameActivations

LEMMA SameEntries ==
  ASSUME EntriesReady, idt' = idt, timer_callback' = timer_callback, Typed,
         stack' \in Seq(Activations), SameActivations
  PROVE  EntriesReady'
  <1>1. DOMAIN stack = 1 .. Len(stack) /\ DOMAIN stack' = 1 .. Len(stack')
    BY LenProperties DEF Typed
  <1> QED
    BY <1>1 DEF EntriesReady, SameActivations

-----------------------------------------------------------------------------
LEMMA NextlocSlot ==
  ASSUME NEW x \in B!Slots
  PROVE  B!SCANCODE_BUFFER_NEXTLOC(x) \in B!Slots
  BY InterruptsAssumption DEF B!SCANCODE_BUFFER_NEXTLOC, B!Slots

LEMMA ByteOf ==
  ASSUME NEW x \in Int
  PROVE  B!AsUnsignedChar(B!AsChar(x)) \in B!Bytes
  BY DEF B!AsUnsignedChar, B!AsChar, B!Bytes

LEMMA InitIInv == Init => IInv
  <1> SUFFICES ASSUME Init PROVE IInv
    OBVIOUS
  <1>1. stack = << >> /\ stack \in Seq(Activations) /\ Len(stack) = 0 /\ DOMAIN stack = {}
    BY EmptySeq DEF Init
  <1>2. 0 \in B!Slots /\ 0 \in B!Bytes
    BY InterruptsAssumption DEF B!Slots, B!Bytes
  <1>3. Typed
    BY <1>1, <1>2, InterruptsAssumption DEF Typed, Init, B!Init
  <1>4. Setup /\ EntriesReady
    BY <1>1 DEF Setup, EntriesReady, Init
  <1>5. Order
    BY <1>1 DEF Order, Nesting, InService, Owed, Init, Keyboard, Irqs
  <1> QED
    BY <1>3, <1>4, <1>5 DEF IInv

(* The set up of kernel_main.                                              *)
LEMMA KernelMainIInv ==
  ASSUME IInv, kernel_main
  PROVE  IInv'
  <1> USE DEF kernel_main, handler_install, timer_init, keyboard_init, enable_interrupts,
              set_idt_entry
  <1>1. /\ UNCHANGED <<bufferVars, readcharVars, eax, deviceVars, stack, tickVars>>
        /\ idt \subseteq idt' /\ (timer_callback => timer_callback')
    <2>1. CASE timer_init
      BY <2>1
    <2>2. CASE keyboard_init
      BY <2>2
    <2>3. CASE enable_interrupts
      BY <2>3
    <2> QED
      BY <2>1, <2>2, <2>3
  <1>2. Typed'
    BY <1>1 DEF IInv, Typed, bufferVars, readcharVars, deviceVars, tickVars
  <1>3. Setup'
    BY DEF IInv, Setup, Irqs
  <1>4. EntriesReady'
    BY <1>1 DEF IInv, EntriesReady
  <1>5. Order'
    BY <1>1 DEF IInv, Order, Nesting, InService, Owed, Open, Pending, deviceVars
  <1> QED
    BY <1>2, <1>3, <1>4, <1>5 DEF IInv

(* The devices.                                                            *)
LEMMA TimerExpiresIInv ==
  ASSUME IInv, TimerExpires
  PROVE  IInv'
  <1> USE DEF TimerExpires
  <1>1. UNCHANGED <<bufferVars, readcharVars, eax, setupVars, isr, kbd, stack, tickVars>>
    OBVIOUS
  <1>2. Typed'
    BY <1>1 DEF IInv, Typed, bufferVars, readcharVars, tickVars, Irqs
  <1>3. Setup' /\ EntriesReady'
    BY <1>1 DEF IInv, Setup, EntriesReady, setupVars
  <1>4. Keyboard \in irr' <=> Keyboard \in irr
    BY DEF Keyboard, Timer
  <1>5. Order'
    BY <1>1, <1>4 DEF IInv, Order, Nesting, InService, Owed, Open, Pending
  <1> QED
    BY <1>2, <1>3, <1>5 DEF IInv

LEMMA KeyArrivesIInv ==
  ASSUME IInv, KeyArrives
  PROVE  IInv'
  <1> USE DEF KeyArrives
  <1>1. /\ UNCHANGED <<bufferVars, readcharVars, eax, setupVars, isr, stack, tickVars>>
        /\ irr' = irr \cup {Keyboard} /\ ~kbd.unread
    OBVIOUS
  <1>2. PICK b \in Scancodes : kbd' = [byte |-> b, unread |-> TRUE]
    OBVIOUS
  <1>3. Typed'
    BY <1>1, <1>2, InterruptsAssumption
       DEF IInv, Typed, bufferVars, readcharVars, tickVars, Irqs, B!Bytes
  <1>4. Setup' /\ EntriesReady'
    BY <1>1 DEF IInv, Setup, EntriesReady, setupVars
  <1>5. Nesting' /\ InService'
    BY <1>1 DEF IInv, Order, Nesting, InService, Open
  <1>6. Owed'
    BY <1>1, <1>2 DEF IInv, Order, Owed, Pending
  <1> QED
    BY <1>3, <1>4, <1>5, <1>6 DEF IInv, Order

(* An interrupt that is delivered is above all that is in service, so it   *)
(* is above all open activations.                                          *)
LEMMA DeliverIInv ==
  ASSUME IInv, NEW i \in Irqs, Deliver(i)
  PROVE  IInv'
  <1> DEFINE a == [irq |-> i, at |-> "pusha", saved |-> 0]
  <1>0. PICK n \in Nat : n = Len(stack)
    BY LenProperties DEF IInv, Typed
  <1>1. /\ UNCHANGED <<bufferVars, readcharVars, eax, setupVars, kbd, tickVars>>
        /\ irr' = irr \ {i} /\ isr' = isr \cup {i} /\ stack' = Append(stack, a)
        /\ i \in irr /\ (\A j \in isr : i < j) /\ iff
    BY DEF Deliver, Presented
  <1>2. a \in Activations
    BY DEF Activations, Places
  <1>3. /\ stack' \in Seq(Activations) /\ n \in Nat /\ Len(stack') = n + 1
        /\ stack'[n + 1] = a
        /\ \A k \in 1 .. n : stack'[k] = stack[k]
        /\ \A k \in 1 .. n : stack[k] \in Activations
    BY <1>0, <1>1, <1>2, Grown DEF IInv
  <1>4. Typed'
    BY <1>1, <1>3 DEF IInv, Typed, bufferVars, readcharVars, tickVars
  <1>5. Setup'
    BY <1>1 DEF IInv, Setup, setupVars
  <1>6. i \in idt /\ (i = Timer => timer_callback)
    BY <1>1 DEF IInv, Setup, Irqs
  <1>7. EntriesReady'
    <2>1. DOMAIN stack = 1 .. n /\ DOMAIN stack' = 1 .. n + 1
      BY <1>0, <1>3, LenProperties DEF IInv, Typed
    <2> QED
      BY <1>1, <1>3, <1>6, <2>1 DEF IInv, EntriesReady, setupVars
  <1>8. \A k \in 1 .. n : /\ Open(k)' <=> Open(k)
                          /\ Pending(k)' <=> Pending(k)
                          /\ stack'[k].irq = stack[k].irq
    <2>1. ASSUME NEW k \in 1 .. n
          PROVE  /\ Open(k)' <=> Open(k)
                 /\ Pending(k)' <=> Pending(k)
                 /\ stack'[k].irq = stack[k].irq
      <3>1. stack'[k] = stack[k]
        BY <1>3
      <3> QED
        BY <3>1 DEF Open, Pending
    <2> QED
      BY <2>1
  <1>9. stack'[n + 1].irq = i /\ stack'[n + 1].at = "pusha"
    BY <1>3
  <1>10. Open(n + 1)' /\ (Pending(n + 1)' <=> i = Keyboard)
    BY <1>9 DEF Open, Pending
  <1>11. \A k \in 1 .. n + 1 : k \in 1 .. n \/ k = n + 1
    BY <1>3
  <1>12. \A k \in 1 .. n : k \in 1 .. n + 1 /\ k # n + 1
    BY <1>3
  <1>13. \A k \in 1 .. n : Open(k) => i < stack[k].irq
    BY <1>0, <1>1, <1>3 DEF IInv, Order, InService, Activations
  <1>14. Nesting'
    <2>1. ASSUME NEW k \in 1 .. n + 1, NEW l \in 1 .. n + 1, k < l, Open(k)', Open(l)'
          PROVE  stack'[l].irq < stack'[k].irq
      <3>1. k \in 1 .. n
        BY <1>3, <2>1
      <3>2. CASE l = n + 1
        BY <1>8, <1>9, <1>13, <2>1, <3>1, <3>2
      <3>3. CASE l \in 1 .. n
        BY <1>0, <1>8, <2>1, <3>1, <3>3 DEF IInv, Order, Nesting
      <3> QED
        BY <1>11, <3>2, <3>3
    <2> QED
      BY <1>3, <2>1 DEF Nesting
  <1>15. InService'
    <2>1. ASSUME NEW j \in Irqs
          PROVE  j \in isr' <=> \E k \in 1 .. n + 1 : stack'[k].irq = j /\ Open(k)'
      <3>1. j \in isr <=> \E k \in 1 .. n : stack[k].irq = j /\ Open(k)
        BY <1>0 DEF IInv, Order, InService
      <3>2. CASE j = i
        <4>1. n + 1 \in 1 .. n + 1
          BY <1>3
        <4> QED
          BY <1>1, <1>9, <1>10, <3>2, <4>1
      <3>3. CASE j # i
        BY <1>1, <1>8, <1>9, <1>11, <1>12, <3>1, <3>3
      <3> QED
        BY <3>2, <3>3
    <2> QED
      BY <1>3, <2>1 DEF InService
  <1>16. Owed'
    <2>1. kbd.unread <=> (Keyboard \in irr \/ \E k \in 1 .. n : Pending(k))
      BY <1>0 DEF IInv, Order, Owed
    <2>2. Keyboard \in irr => \A k \in 1 .. n : ~Pending(k)
      BY <1>0 DEF IInv, Order, Owed
    <2>3. /\ kbd.unread <=> (Keyboard \in irr' \/ \E k \in 1 .. n + 1 : Pending(k)')
          /\ Keyboard \in irr' => \A k \in 1 .. n + 1 : ~Pending(k)'
      <3>1. CASE i = Keyboard
        <4>1. n + 1 \in 1 .. n + 1 /\ Pending(n + 1)'
          BY <1>3, <1>10, <3>1
        <4>2. kbd.unread /\ Keyboard \notin irr'
          BY <1>1, <2>1, <3>1
        <4> QED
          BY <4>1, <4>2
      <3>2. CASE i # Keyboard
        <4>1. (\E k \in 1 .. n + 1 : Pending(k)') <=> (\E k \in 1 .. n : Pending(k))
          BY <1>8, <1>10, <1>11, <1>12, <3>2
        <4>2. Keyboard \in irr' <=> Keyboard \in irr
          BY <1>1, <3>2
        <4> QED
          BY <2>1, <2>2, <4>1, <4>2
      <3> QED
        BY <3>1, <3>2
    <2> QED
      BY <1>1, <1>3, <2>3 DEF Owed
  <1> QED
    BY <1>4, <1>5, <1>7, <1>14, <1>15, <1>16 DEF IInv, Order

-----------------------------------------------------------------------------
(* The handlers' steps up to the acknowledgement, but for the read of the  *)
(* keyboard, and the wrappers' around them.                                *)
LEMMA KeepsOrder ==
  ASSUME IInv, Typed', SameActivations, UNCHANGED setupVars, UNCHANGED <<isr, irr, kbd>>
  PROVE  IInv'
  <1> USE DEF IInv, setupVars
  <1>1. Setup'
    BY DEF Setup
  <1>2. EntriesReady'
    BY SameEntries DEF Typed
  <1>3. Order'
    BY SameOrder
  <1> QED
    BY <1>1, <1>2, <1>3

LEMMA PushaIInv ==
  ASSUME IInv, NEW i \in Irqs, pusha(i)
  PROVE  IInv'
  <1> DEFINE e == [stack[Len(stack)] EXCEPT !.saved = eax, !.at = FirstOf(i)]
  <1>1. /\ stack # << >> /\ Last(stack).irq = i /\ Last(stack).at = "pusha"
        /\ stack' = [stack EXCEPT ![Len(stack)] = e]
        /\ UNCHANGED <<bufferVars, readcharVars, eax, setupVars, deviceVars, tickVars>>
    BY DEF pusha, Running
  <1>2. Len(stack) \in 1 .. Len(stack) /\ stack[Len(stack)] \in Activations
    BY <1>1, EmptySeq, LenProperties, ElementOfSeq DEF IInv, Typed
  <1>3. e \in Activations /\ e.at = FirstOf(i) /\ e.irq = stack[Len(stack)].irq
    BY <1>2 DEF IInv, Typed, Activations, FirstOf, Places
  <1>4. /\ stack' \in Seq(Activations)
        /\ Len(stack') = Len(stack)
        /\ stack'[Len(stack)] = e
        /\ \A k \in 1 .. Len(stack) : k # Len(stack) => stack'[k] = stack[k]
    BY <1>1, <1>3, TopReplaced DEF IInv, Typed
  <1> HIDE DEF e
  <1>5. stack[Len(stack)].irq = i /\ stack[Len(stack)].at = "pusha"
    BY <1>1 DEF Last
  <1>6. ASSUME NEW k \in 1 .. Len(stack)
        PROVE  /\ stack'[k].irq = stack[k].irq
               /\ Open(k)' <=> Open(k)
               /\ Pending(k)' <=> Pending(k)
    <2>1. CASE k # Len(stack)
      BY <1>4, <2>1 DEF Open, Pending
    <2>2. CASE k = Len(stack)
      BY <1>3, <1>4, <1>5, <2>2 DEF Open, Pending, FirstOf, Timer, Keyboard, Irqs
    <2> QED
      BY <2>1, <2>2
  <1>7. SameActivations
    BY <1>4, <1>6 DEF SameActivations
  <1>8. Typed'
    BY <1>1, <1>4 DEF IInv, Typed, bufferVars, readcharVars, deviceVars, tickVars
  <1> QED
    BY <1>1, <1>7, <1>8, KeepsOrder DEF deviceVars

LEMMA PopaIInv ==
  ASSUME IInv, NEW i \in Irqs, popa(i)
  PROVE  IInv'
  <1>1. /\ stack # << >> /\ Last(stack).at = "popa" /\ GoTo("iret")
        /\ eax' = Last(stack).saved
        /\ UNCHANGED <<bufferVars, readcharVars, setupVars, deviceVars, tickVars>>
    BY DEF popa, Running
  <1>2. stack' \in Seq(Activations) /\ SameActivations
    BY <1>1, MovedOn DEF IInv, Places
  <1>3. eax' \in Int
    BY <1>1, Moved DEF IInv, Places, Activations
  <1>4. Typed'
    BY <1>1, <1>2, <1>3 DEF IInv, Typed, bufferVars, readcharVars, deviceVars, tickVars
  <1> QED
    BY <1>1, <1>2, <1>4, KeepsOrder DEF deviceVars

LEMMA TimerIInv ==
  ASSUME IInv, timer_load \/ timer_store \/ timer_call
  PROVE  IInv'
  <1>1. /\ stack # << >> /\ Last(stack).at \in {"load", "store", "call"}
        /\ \E at \in {"store", "call", "ack"} : GoTo(at)
        /\ UNCHANGED <<bufferVars, readcharVars, setupVars, deviceVars>>
    BY DEF timer_load, timer_store, timer_call, Running
  <1>2. stack' \in Seq(Activations) /\ SameActivations
    BY <1>1, MovedOn DEF IInv, Places
  <1>3. eax' \in Int /\ numTicks' \in Int
    BY InterruptsAssumption DEF IInv, Typed, timer_load, timer_store, timer_call, tickVars
  <1>4. Typed'
    BY <1>1, <1>2, <1>3 DEF IInv, Typed, bufferVars, readcharVars, deviceVars
  <1> QED
    BY <1>1, <1>2, <1>4, KeepsOrder DEF deviceVars

LEMMA KeyboardIInv ==
  ASSUME IInv, keyboard_test \/ keyboard_slot \/ keyboard_end
  PROVE  IInv'
  <1>1. /\ stack # << >> /\ Last(stack).at \in {"test", "slot", "end"}
        /\ \E at \in {"slot", "end", "ack"} : GoTo(at)
        /\ UNCHANGED <<readcharVars, eax, setupVars, deviceVars, tickVars>>
    BY DEF keyboard_test, keyboard_slot, keyboard_end, Running
  <1>2. stack' \in Seq(Activations) /\ SameActivations
    BY <1>1, MovedOn DEF IInv, Places
  <1>3. scancode_buffer' \in [B!Slots -> B!Bytes] /\ scancode_buffer_end' \in B!Slots
    <2>1. CASE keyboard_test
      BY <2>1 DEF keyboard_test, IInv, Typed
    <2>2. CASE keyboard_slot
      <3>1. B!AsUnsignedChar(B!AsChar(eax)) \in B!Bytes
        BY ByteOf DEF IInv, Typed
      <3> QED
        BY <2>2, <3>1 DEF keyboard_slot, IInv, Typed
    <2>3. CASE keyboard_end
      BY <2>3, NextlocSlot DEF keyboard_end, IInv, Typed
    <2> QED
      BY <2>1, <2>2, <2>3
  <1>4. Typed'
    BY <1>1, <1>2, <1>3 DEF IInv, Typed, readcharVars, deviceVars, tickVars
  <1> QED
    BY <1>1, <1>2, <1>4, KeepsOrder DEF deviceVars

-----------------------------------------------------------------------------
(* The read of the keyboard: it is the one pending activation that reads.  *)
LEMMA InbIInv ==
  ASSUME IInv, keyboard_inb
  PROVE  IInv'
  <1>1. /\ stack # << >> /\ Last(stack).irq = Keyboard /\ Last(stack).at = "inb"
        /\ GoTo("test") /\ eax' = kbd.byte /\ kbd' = [kbd EXCEPT !.unread = FALSE]
        /\ UNCHANGED <<bufferVars, readcharVars, setupVars, irr, isr, tickVars>>
    BY DEF keyboard_inb, Running
  <1>0. PICK n \in Nat \ {0} : n = Len(stack)
    BY <1>1, Moved DEF IInv, Places
  <1>2. /\ stack' \in Seq(Activations) /\ Len(stack') = n
        /\ stack[n].irq = Keyboard /\ stack[n].at = "inb"
        /\ stack'[n].irq = Keyboard /\ stack'[n].at = "test"
        /\ \A k \in 1 .. n : k # n => stack'[k] = stack[k]
        /\ \A k \in 1 .. n : stack[k] \in Activations
    BY <1>0, <1>1, Moved DEF IInv, Places, Activations
  <1>3. Open(n) /\ Pending(n) /\ Open(n)' /\ ~Pending(n)' /\ n \in 1 .. n
    BY <1>2 DEF Open, Pending
  <1>4. ASSUME NEW k \in 1 .. n
        PROVE  stack'[k].irq = stack[k].irq /\ (Open(k)' <=> Open(k))
    BY <1>2, <1>3 DEF Open
  <1>5. ASSUME NEW k \in 1 .. n
        PROVE  ~Pending(k)'
    <2>1. CASE k = n
      BY <1>3, <2>1
    <2>2. CASE k # n
      <3>1. ~Pending(k)
        <4> SUFFICES ASSUME Pending(k) PROVE FALSE
          OBVIOUS
        <4>1. Open(k) /\ k < n /\ stack[k].irq = Keyboard
          BY <2>2 DEF Open, Pending
        <4>2. stack[n].irq < stack[k].irq
          BY <1>0, <1>3, <4>1 DEF IInv, Order, Nesting
        <4> QED
          BY <1>2, <4>1, <4>2 DEF Keyboard
      <3>2. stack'[k] = stack[k]
        BY <1>2, <2>2
      <3> QED
        BY <3>1, <3>2 DEF Pending
    <2> QED
      BY <2>1, <2>2
  <1>6. Typed'
    <2>1. kbd \in [byte : B!Bytes, unread : BOOLEAN]
      BY DEF IInv, Typed
    <2>2. kbd' \in [byte : B!Bytes, unread : BOOLEAN]
      BY <1>1, <2>1
    <2>3. eax' \in Int
      BY <1>1, <2>1 DEF B!Bytes
    <2> QED
      BY <1>1, <1>2, <2>2, <2>3 DEF IInv, Typed, bufferVars, readcharVars, tickVars
  <1>7. Setup'
    BY <1>1 DEF IInv, Setup, setupVars
  <1>8. EntriesReady'
    <2>1. DOMAIN stack = 1 .. n /\ DOMAIN stack' = 1 .. n
      BY <1>0, <1>2, LenProperties DEF IInv, Typed
    <2> QED
      BY <1>1, <1>4, <2>1 DEF IInv, EntriesReady, setupVars
  <1>9. Nesting' /\ InService'
    BY <1>0, <1>1, <1>2, <1>4 DEF IInv, Order, Nesting, InService
  <1>10. Keyboard \notin irr'
    BY <1>0, <1>1, <1>3 DEF IInv, Order, Owed
  <1>11. kbd'.unread = FALSE
    BY <1>1 DEF IInv, Typed
  <1>12. Owed'
    BY <1>2, <1>5, <1>10, <1>11 DEF Owed
  <1> QED
    BY <1>6, <1>7, <1>8, <1>9, <1>12 DEF IInv, Order

(* The smallest number in service is that of the innermost handler.        *)
LEMMA AckIInv ==
  ASSUME IInv, NEW i \in Irqs, outb_ack(i)
  PROVE  IInv'
  <1>1. /\ stack # << >> /\ Last(stack).irq = i /\ Last(stack).at = "ack"
        /\ GoTo("popa") /\ Acknowledge
        /\ UNCHANGED <<bufferVars, readcharVars, eax, setupVars, irr, kbd, tickVars>>
    BY DEF outb_ack, Running
  <1>0. PICK n \in Nat \ {0} : n = Len(stack)
    BY <1>1, Moved DEF IInv, Places
  <1>2. /\ stack' \in Seq(Activations) /\ Len(stack') = n
        /\ stack[n].irq = i /\ stack[n].at = "ack"
        /\ stack'[n].irq = i /\ stack'[n].at = "popa"
        /\ \A k \in 1 .. n : k # n => stack'[k] = stack[k]
        /\ \A k \in 1 .. n : stack[k] \in Activations
    BY <1>0, <1>1, Moved DEF IInv, Places, Activations
  <1>3. Open(n) /\ ~Open(n)' /\ ~Pending(n) /\ ~Pending(n)' /\ n \in 1 .. n
    BY <1>2 DEF Open, Pending
  <1>4. ASSUME NEW k \in 1 .. n, k # n
        PROVE  /\ stack'[k].irq = stack[k].irq
               /\ Open(k)' <=> Open(k)
               /\ Pending(k)' <=> Pending(k)
    BY <1>2, <1>4 DEF Open, Pending
  <1>5. ASSUME NEW k \in 1 .. n, k # n, Open(k)
        PROVE  i < stack[k].irq
    BY <1>0, <1>2, <1>3, <1>5 DEF IInv, Order, Nesting
  <1>6. i \in isr /\ \A j \in isr : i <= j
    <2>1. i \in isr
      BY <1>0, <1>2, <1>3 DEF IInv, Order, InService
    <2>2. ASSUME NEW j \in isr
          PROVE  i <= j
      <3>1. j \in Irqs
        BY DEF IInv, Typed
      <3>2. PICK k \in 1 .. n : stack[k].irq = j /\ Open(k)
        BY <1>0, <3>1 DEF IInv, Order, InService
      <3>3. CASE k = n
        BY <1>2, <3>2, <3>3 DEF Irqs, Timer, Keyboard
      <3>4. CASE k # n
        BY <1>5, <3>1, <3>2, <3>4 DEF Irqs, Timer, Keyboard
      <3> QED
        BY <3>3, <3>4
    <2> QED
      BY <2>1, <2>2
  <1>7. isr' = isr \ {i}
    <2>1. \A x \in isr : (\A j \in isr : x <= j) => x = i
      BY <1>6 DEF IInv, Typed, Irqs, Timer, Keyboard
    <2>2. Min(isr) = i
      BY <1>6, <2>1 DEF Min
    <2> QED
      BY <1>1, <1>6, <2>2 DEF Acknowledge
  <1>8. Typed'
    BY <1>1, <1>2, <1>7 DEF IInv, Typed, bufferVars, readcharVars, tickVars
  <1>9. Setup'
    BY <1>1 DEF IInv, Setup, setupVars
  <1>10. EntriesReady'
    <2>1. DOMAIN stack = 1 .. n /\ DOMAIN stack' = 1 .. n
      BY <1>0, <1>2, LenProperties DEF IInv, Typed
    <2>2. \A k \in 1 .. n : stack'[k].irq = stack[k].irq
      BY <1>2
    <2> QED
      BY <1>1, <2>1, <2>2 DEF IInv, EntriesReady, setupVars
  <1>11. Nesting'
    <2>1. ASSUME NEW k \in 1 .. n, NEW l \in 1 .. n, k < l, Open(k)', Open(l)'
          PROVE  stack'[l].irq < stack'[k].irq
      <3>1. k # n /\ l # n
        BY <1>3, <2>1
      <3> QED
        BY <1>0, <1>4, <2>1, <3>1 DEF IInv, Order, Nesting
    <2> QED
      BY <1>2, <2>1 DEF Nesting
  <1>12. InService'
    <2>1. ASSUME NEW j \in Irqs
          PROVE  j \in isr' <=> \E k \in 1 .. n : stack'[k].irq = j /\ Open(k)'
      <3>1. j \in isr <=> \E k \in 1 .. n : stack[k].irq = j /\ Open(k)
        BY <1>0 DEF IInv, Order, InService
      <3>2. CASE j = i
        <4>1. ASSUME NEW k \in 1 .. n, stack'[k].irq = j, Open(k)'
              PROVE  FALSE
          <5>1. k # n
            BY <1>3, <4>1
          <5>2. i < i
            BY <1>4, <1>5, <3>2, <4>1, <5>1
          <5> QED
            BY <5>2 DEF Irqs, Timer, Keyboard
        <4> QED
          BY <1>7, <3>2, <4>1
      <3>3. CASE j # i
        BY <1>2, <1>3, <1>4, <1>7, <3>1, <3>3
      <3> QED
        BY <3>2, <3>3
    <2> QED
      BY <1>2, <2>1 DEF InService
  <1>13. Owed'
    <2>1. ASSUME NEW k \in 1 .. n
          PROVE  Pending(k)' <=> Pending(k)
      BY <1>3, <1>4
    <2> QED
      BY <1>0, <1>1, <1>2, <2>1 DEF IInv, Order, Owed
  <1> QED
    BY <1>8, <1>9, <1>10, <1>11, <1>12, <1>13 DEF IInv, Order

(* An activation that returns has acknowledged.                            *)
LEMMA IretIInv ==
  ASSUME IInv, NEW i \in Irqs, iret(i)
  PROVE  IInv'
  <1>1. /\ stack # << >> /\ Last(stack).at = "iret" /\ stack' = Front(stack)
        /\ UNCHANGED <<bufferVars, readcharVars, eax, setupVars, deviceVars, tickVars>>
    BY DEF iret, Running
  <1>0. PICK n \in Nat \ {0} : n = Len(stack)
    BY <1>1, Shrunk DEF IInv
  <1>2. /\ stack' \in Seq(Activations) /\ Len(stack') = n - 1
        /\ stack[n].at = "iret"
        /\ \A k \in 1 .. n - 1 : stack'[k] = stack[k]
    BY <1>0, <1>1, Shrunk DEF IInv
  <1>3. ~Open(n) /\ ~Pending(n)
    BY <1>2 DEF Open, Pending
  <1>4. ASSUME NEW k \in 1 .. n - 1
        PROVE  /\ stack'[k].irq = stack[k].irq
               /\ Open(k)' <=> Open(k)
               /\ Pending(k)' <=> Pending(k)
    BY <1>2 DEF Open, Pending
  <1>5. \A k \in 1 .. n : k \in 1 .. n - 1 \/ k = n
    OBVIOUS
  <1>6. \A k \in 1 .. n - 1 : k \in 1 .. n
    OBVIOUS
  <1>7. Typed'
    BY <1>1, <1>2 DEF IInv, Typed, bufferVars, readcharVars, deviceVars, tickVars
  <1>8. Setup'
    BY <1>1 DEF IInv, Setup, setupVars
  <1>9. EntriesReady'
    <2>1. DOMAIN stack = 1 .. n /\ DOMAIN stack' = 1 .. n - 1
      BY <1>0, <1>2, LenProperties DEF IInv, Typed
    <2> QED
      BY <1>1, <1>2, <1>6, <2>1 DEF IInv, EntriesReady, setupVars
  <1>10. Nesting'
    BY <1>0, <1>2, <1>4, <1>6 DEF IInv, Order, Nesting
  <1>11. InService'
    <2>1. ASSUME NEW j \in Irqs
          PROVE  j \in isr' <=> \E k \in 1 .. n - 1 : stack'[k].irq = j /\ Open(k)'
      <3>1. j \in isr <=> \E k \in 1 .. n : stack[k].irq = j /\ Open(k)
        BY <1>0 DEF IInv, Order, InService
      <3>2. j \in isr' <=> j \in isr
        BY <1>1 DEF deviceVars
      <3> QED
        BY <1>3, <1>4, <1>5, <1>6, <3>1, <3>2
    <2> QED
      BY <1>2, <2>1 DEF InService
  <1>12. Owed'
    <2>1. (\E k \in 1 .. n : Pending(k)) <=> \E k \in 1 .. n - 1 : Pending(k)'
      BY <1>3, <1>4, <1>5, <1>6
    <2> QED
      BY <1>0, <1>1, <1>2, <2>1 DEF IInv, Order, Owed, deviceVars
  <1> QED
    BY <1>7, <1>8, <1>9, <1>10, <1>11, <1>12 DEF IInv, Order

(* The foreground: readchar runs while no handler does.                    *)
LEMMA ReadcharIInv ==
  ASSUME IInv, readchar
  PROVE  IInv'
  <1>1. /\ UNCHANGED <<setupVars, deviceVars, stack, tickVars>>
        /\ B!readchar
    BY DEF readchar
  <1>2. /\ scancode_buffer' = scancode_buffer /\ scancode_buffer_end' = scancode_buffer_end
        /\ scancode_buffer_begin' \in B!Slots /\ eax' \in Int
    <2>0. /\ scancode_buffer_begin \in B!Slots /\ eax \in Int
          /\ scancode_buffer \in [B!Slots -> B!Bytes]
      BY DEF IInv, Typed
    <2>1. CASE B!keyb_remove_test
      BY <2>0, <2>1 DEF B!keyb_remove_test, B!handlerVars
    <2>2. CASE B!keyb_remove_load
      <3>1. scancode_buffer[scancode_buffer_begin] \in B!Bytes
        BY <2>0
      <3> QED
        BY <2>0, <2>2, <3>1 DEF B!keyb_remove_load, B!handlerVars, B!Bytes
    <2>3. CASE B!keyb_remove_advance
      BY <2>0, <2>3, NextlocSlot DEF B!keyb_remove_advance, B!handlerVars
    <2>4. CASE \E event \in B!KeyEvents : B!readchar_process(event)
      BY <2>0, <2>4 DEF B!readchar_process, B!handlerVars
    <2> QED
      BY <1>1, <2>1, <2>2, <2>3, <2>4 DEF B!readchar
  <1>3. Typed'
    BY <1>1, <1>2 DEF IInv, Typed, deviceVars, tickVars
  <1>4. Setup' /\ EntriesReady'
    BY <1>1 DEF IInv, Setup, EntriesReady, setupVars
  <1>5. Order'
    BY <1>1 DEF IInv, Order, Nesting, InService, Owed, Open, Pending, deviceVars
  <1> QED
    BY <1>3, <1>4, <1>5 DEF IInv

LEMMA StutterIInv ==
  ASSUME IInv, UNCHANGED vars
  PROVE  IInv'
  <1> USE DEF vars, bufferVars, readcharVars, setupVars, deviceVars, tickVars
  <1>1. Typed' /\ Setup' /\ EntriesReady'
    BY DEF IInv, Typed, Setup, EntriesReady
  <1>2. Order'
    BY DEF IInv, Order, Nesting, InService, Owed, Open, Pending
  <1> QED
    BY <1>1, <1>2 DEF IInv

LEMMA HandlerIInv ==
  ASSUME IInv, Handler
  PROVE  IInv'
  <1>1. CASE \E i \in Irqs : pusha(i) \/ popa(i) \/ iret(i) \/ outb_ack(i)
    BY <1>1, PushaIInv, PopaIInv, IretIInv, AckIInv
  <1>2. CASE timer_load \/ timer_store \/ timer_call
    BY <1>2, TimerIInv
  <1>3. CASE keyboard_inb
    BY <1>3, InbIInv
  <1>4. CASE keyboard_test \/ keyboard_slot \/ keyboard_end
    BY <1>4, KeyboardIInv
  <1> QED
    BY <1>1, <1>2, <1>3, <1>4 DEF Handler

(* The inductive invariant holds in every state, whatever the depth of the *)
(* nesting and the size of the scancode buffer.                            *)
THEOREM Invariant == Spec => []IInv
  <1>1. IInv /\ [Next]_vars => IInv'
    <2> SUFFICES ASSUME IInv, [Next]_vars PROVE IInv'
      OBVIOUS
    <2>1. CASE kernel_main
      BY <2>1, KernelMainIInv
    <2>2. CASE TimerExpires
      BY <2>2, TimerExpiresIInv
    <2>3. CASE KeyArrives
      BY <2>3, KeyArrivesIInv
    <2>4. CASE \E i \in Irqs : Deliver(i)
      BY <2>4, DeliverIInv
    <2>5. CASE Handler
      BY <2>5, HandlerIInv
    <2>6. CASE readchar
      BY <2>6, ReadcharIInv
    <2>7. CASE UNCHANGED vars
      BY <2>7, StutterIInv
    <2> QED
      BY <2>1, <2>2, <2>3, <2>4, <2>5, <2>6, <2>7 DEF Next
  <1> QED
    BY InitIInv, <1>1, PTL DEF Spec

-----------------------------------------------------------------------------
(* kernel_main has installed an interrupt's entry, and the timer's         *)
(* callback, before the interrupt is ever taken.                           *)
THEOREM EntriesAreReady == Spec => []EntriesReady
  <1>1. IInv => EntriesReady
    BY DEF IInv
  <1> QED
    BY Invariant, <1>1, PTL

LEMMA AtMostOne ==
  ASSUME NEW S, \A x \in S : \A y \in S : x = y
  PROVE  Cardinality(S) = IF S = {} THEN 0 ELSE 1
  <1>1. CASE S = {}
    BY <1>1, FS_EmptySet
  <1>2. CASE S # {}
    <2>1. PICK x \in S : S = {x}
      BY <1>2
    <2> QED
      BY <2>1, FS_Singleton
  <1> QED
    BY <1>1, <1>2

LEMMA Distinct ==
  ASSUME IInv, NEW k \in 1 .. Len(stack), NEW l \in 1 .. Len(stack),
         Open(k), Open(l), stack[k].irq = stack[l].irq
  PROVE  k = l
  <1>1. stack[k].irq \in Int
    <2>1. stack[k] \in Activations
      BY ElementOfSeq DEF IInv, Typed
    <2> QED
      BY <2>1 DEF Activations, Irqs, Timer, Keyboard
  <1>2. CASE k < l
    BY <1>1, <1>2 DEF IInv, Order, Nesting
  <1>3. CASE l < k
    BY <1>1, <1>3 DEF IInv, Order, Nesting
  <1> QED
    BY <1>2, <1>3

(* Each acknowledgement ends the service of the handler that sends it: no  *)
(* two activations of one handler's body are ever open together, however   *)
(* deep the handlers nest.                                                 *)
THEOREM AcknowledgesItsOwn == Spec => []OneInService
  <1>1. IInv => OneInService
    <2> SUFFICES ASSUME IInv, NEW i \in Irqs
                 PROVE  Cardinality(Unacknowledged(i)) = (IF i \in isr THEN 1 ELSE 0)
      BY DEF OneInService
    <2>1. DOMAIN stack = 1 .. Len(stack)
      BY LenProperties DEF IInv, Typed
    <2>2. Unacknowledged(i) = {k \in 1 .. Len(stack) : stack[k].irq = i /\ Open(k)}
      BY <2>1 DEF Unacknowledged, Open
    <2>3. \A x \in Unacknowledged(i) : \A y \in Unacknowledged(i) : x = y
      BY <2>2, Distinct
    <2>4. i \in isr <=> Unacknowledged(i) # {}
      BY <2>2 DEF IInv, Order, InService
    <2> QED
      BY <2>3, <2>4, AtMostOne
  <1> QED
    BY Invariant, <1>1, PTL

(* A byte of the keyboard is unread exactly while the controller, or one   *)
(* handler that has yet to read it, knows of it.                           *)
THEOREM ByteIsOwed == Spec => []ByteOwed
  <1>1. IInv => ByteOwed
    <2> SUFFICES ASSUME IInv PROVE ByteOwed
      OBVIOUS
    <2> DEFINE P == {k \in DOMAIN stack : stack[k].irq = Keyboard
                                            /\ stack[k].at \in {"pusha", "inb"}}
    <2>1. DOMAIN stack = 1 .. Len(stack)
      BY LenProperties DEF IInv, Typed
    <2>2. P = {k \in 1 .. Len(stack) : Pending(k)}
      BY <2>1 DEF Pending
    <2>3. \A x \in P : \A y \in P : x = y
      <3>1. \A k \in P : k \in 1 .. Len(stack) /\ Open(k) /\ stack[k].irq = Keyboard
        BY <2>2 DEF Open, Pending
      <3> QED
        BY <3>1, Distinct
    <2>4. Cardinality(P) = IF P = {} THEN 0 ELSE 1
      BY <2>3, AtMostOne
    <2>5. /\ kbd.unread <=> (Keyboard \in irr \/ P # {})
          /\ Keyboard \in irr => P = {}
      BY <2>2 DEF IInv, Order, Owed
    <2> QED
      BY <2>4, <2>5 DEF ByteOwed
  <1> QED
    BY Invariant, <1>1, PTL

-----------------------------------------------------------------------------
(* The ticks.  Nothing is above the timer, so its handler is not           *)
(* interrupted before it has acknowledged: while it is open it is the      *)
(* innermost, the register is its own, and only in its call is numTicks    *)
(* ahead of what the callback was last given.                              *)
At(at) == stack # << >> /\ Last(stack).irq = Timer /\ Last(stack).at = at

Innermost == \A k \in 1 .. Len(stack) : stack[k].irq = Timer /\ Open(k) => k = Len(stack)

Counted ==
  /\ At("store") => eax = (numTicks + 1) % TickWrap
  /\ numTicks = IF At("call") THEN (tick + 1) % TickWrap ELSE tick

TickInv == Innermost /\ Counted

(* Where the innermost handler goes, the timer goes.                       *)
LEMMA MovedAt ==
  ASSUME IInv, stack # << >>, NEW at \in Places, GoTo(at)
  PROVE  \A p : At(p)' <=> (p = at /\ Last(stack).irq = Timer)
  <1>1. /\ stack' \in Seq(Activations)
        /\ Len(stack) \in Nat \ {0} /\ Len(stack') = Len(stack)
        /\ Last(stack) = stack[Len(stack)]
        /\ stack'[Len(stack)] = [stack[Len(stack)] EXCEPT !.at = at]
        /\ stack[Len(stack)] \in Activations
    BY Moved DEF IInv
  <1>2. stack' # << >> /\ Last(stack') = stack'[Len(stack)]
    BY <1>1, EmptySeq DEF Last
  <1>3. Last(stack').irq = Last(stack).irq /\ Last(stack').at = at
    BY <1>1, <1>2 DEF Activations
  <1> QED
    BY <1>2, <1>3 DEF At

LEMMA SameInnermost ==
  ASSUME Innermost, SameActivations
  PROVE  Innermost'
  BY DEF Innermost, SameActivations

(* A step between two places that are neither the store nor the call.      *)
LEMMA QuietStep ==
  ASSUME Counted, UNCHANGED tickVars, ~At("call"), ~At("store")', ~At("call")'
  PROVE  Counted'
  BY DEF Counted, tickVars

LEMMA TimerTickInv ==
  ASSUME IInv, TickInv, timer_load \/ timer_store \/ timer_call
  PROVE  TickInv'
  <1>1. /\ stack # << >> /\ Last(stack).at \in {"load", "store", "call"}
        /\ \E at \in {"store", "call", "ack"} : GoTo(at)
    BY DEF timer_load, timer_store, timer_call, Running
  <1>2. SameActivations
    BY <1>1, MovedOn DEF IInv, Places
  <1>3. ASSUME timer_load PROVE Counted'
    <2>1. At("store")' /\ ~At("call")' /\ ~At("call")
      BY <1>3, MovedAt DEF timer_load, Running, At, Places
    <2> QED
      BY <1>3, <2>1 DEF timer_load, tickVars, TickInv, Counted
  <1>4. ASSUME timer_store PROVE Counted'
    <2>1. At("call")' /\ ~At("store")' /\ At("store") /\ ~At("call")
      BY <1>4, MovedAt DEF timer_store, Running, At, Places
    <2> QED
      BY <1>4, <2>1 DEF timer_store, TickInv, Counted
  <1>5. ASSUME timer_call PROVE Counted'
    <2>1. ~At("call")' /\ ~At("store")'
      BY <1>5, MovedAt DEF timer_call, Running, Places
    <2> QED
      BY <1>5, <2>1 DEF timer_call, Counted
  <1> QED
    BY <1>2, <1>3, <1>4, <1>5, SameInnermost DEF TickInv

LEMMA HandlerTickInv ==
  ASSUME IInv, TickInv, Handler
  PROVE  TickInv'
  <1> USE DEF TickInv
  <1>1. ASSUME NEW i \in Irqs, pusha(i)
        PROVE  TickInv'
    <2> DEFINE e == [stack[Len(stack)] EXCEPT !.saved = eax, !.at = FirstOf(i)]
    <2>1. /\ stack # << >> /\ Last(stack).irq = i /\ Last(stack).at = "pusha"
          /\ stack' = [stack EXCEPT ![Len(stack)] = e]
          /\ UNCHANGED tickVars
      BY <1>1 DEF pusha, Running
    <2>2. stack[Len(stack)] \in Activations
      BY <2>1, EmptySeq, LenProperties, ElementOfSeq DEF IInv, Typed
    <2>3. e \in Activations /\ e.at = FirstOf(i) /\ e.irq = stack[Len(stack)].irq
      BY <2>2 DEF IInv, Typed, Activations, FirstOf, Places
    <2>4. /\ Len(stack) \in Nat \ {0} /\ Len(stack') = Len(stack)
          /\ stack'[Len(stack)] = e
          /\ \A k \in 1 .. Len(stack) : k # Len(stack) => stack'[k] = stack[k]
      BY <2>1, <2>3, TopReplaced DEF IInv, Typed
    <2> HIDE DEF e
    <2>5. Last(stack').at = FirstOf(i)
      BY <2>3, <2>4 DEF Last
    <2>6. ~At("store")' /\ ~At("call")' /\ ~At("call")
      BY <2>1, <2>5 DEF At, FirstOf
    <2>7. Innermost'
      BY <2>3, <2>4, <2>1 DEF Innermost, Open
    <2> QED
      BY <2>1, <2>6, <2>7, QuietStep
  <1>2. ASSUME NEW i \in Irqs, popa(i)
        PROVE  TickInv'
    <2>1. /\ stack # << >> /\ Last(stack).at = "popa" /\ GoTo("iret") /\ UNCHANGED tickVars
      BY <1>2 DEF popa, Running
    <2>2. SameActivations
      BY <2>1, MovedOn DEF IInv, Places
    <2>3. ~At("store")' /\ ~At("call")' /\ ~At("call")
      BY <2>1, MovedAt DEF At, Places
    <2> QED
      BY <2>1, <2>2, <2>3, SameInnermost, QuietStep
  <1>3. ASSUME NEW i \in Irqs, iret(i)
        PROVE  TickInv'
    <2>1. /\ stack # << >> /\ Last(stack).at = "iret" /\ stack' = Front(stack)
          /\ UNCHANGED tickVars
      BY <1>3 DEF iret, Running
    <2>2. /\ Len(stack) \in Nat \ {0} /\ Len(stack') = Len(stack) - 1
          /\ stack' \in Seq(Activations)
          /\ \A k \in 1 .. Len(stack) - 1 : stack'[k] = stack[k]
      BY <2>1, Shrunk DEF IInv
    <2>3. \A k \in 1 .. Len(stack) - 1 : ~(stack'[k].irq = Timer /\ Open(k)')
      BY <2>2 DEF Innermost, Open
    <2>4. Innermost'
      BY <2>2, <2>3 DEF Innermost
    <2>5. stack' # << >> => Len(stack') \in 1 .. Len(stack) - 1
      BY <2>2, EmptySeq
    <2>6. stack' # << >> => ~(Last(stack').irq = Timer /\ Open(Len(stack))')
      BY <2>2, <2>3, <2>5 DEF Last
    <2>7. ~At("store")' /\ ~At("call")' /\ ~At("call")
      BY <2>1, <2>2, <2>3, <2>5 DEF At, Open, Last
    <2> QED
      BY <2>1, <2>4, <2>7, QuietStep
  <1>4. ASSUME NEW i \in Irqs, outb_ack(i)
        PROVE  TickInv'
    <2>1. /\ stack # << >> /\ Last(stack).at = "ack" /\ GoTo("popa") /\ UNCHANGED tickVars
      BY <1>4 DEF outb_ack, Running
    <2>2. /\ Len(stack) \in Nat \ {0} /\ Len(stack') = Len(stack)
          /\ stack'[Len(stack)] = [stack[Len(stack)] EXCEPT !.at = "popa"]
          /\ \A k \in 1 .. Len(stack) : k # Len(stack) => stack'[k] = stack[k]
      BY <2>1, Moved DEF IInv, Places
    <2>3. Innermost'
      BY <2>2 DEF Innermost, Open
    <2>4. ~At("store")' /\ ~At("call")' /\ ~At("call")
      BY <2>1, MovedAt DEF At, Places
    <2> QED
      BY <2>1, <2>3, <2>4, QuietStep
  <1>5. CASE timer_load \/ timer_store \/ timer_call
    BY <1>5, TimerTickInv
  <1>6. CASE keyboard_inb \/ keyboard_test \/ keyboard_slot \/ keyboard_end
    <2>1. /\ stack # << >> /\ Last(stack).irq = Keyboard
          /\ \E at \in {"test", "slot", "end", "ack"} : GoTo(at)
          /\ UNCHANGED tickVars
      BY <1>6 DEF keyboard_inb, keyboard_test, keyboard_slot, keyboard_end, Running
    <2>2. PICK at \in {"test", "slot", "end", "ack"} : GoTo(at)
      BY <2>1
    <2>3. /\ Len(stack) \in Nat \ {0} /\ Len(stack') = Len(stack)
          /\ stack'[Len(stack)] = [stack[Len(stack)] EXCEPT !.at = at]
          /\ \A k \in 1 .. Len(stack) : k # Len(stack) => stack'[k] = stack[k]
      BY <2>1, <2>2, Moved DEF IInv, Places
    <2>4. Innermost'
      BY <2>3 DEF Innermost, Open
    <2>5. ~At("store")' /\ ~At("call")' /\ ~At("call")
      BY <2>1, <2>2, MovedAt DEF At, Places, Timer, Keyboard
    <2> QED
      BY <2>1, <2>4, <2>5, QuietStep
  <1> QED
    BY <1>1, <1>2, <1>3, <1>4, <1>5, <1>6 DEF Handler

LEMMA DeliverTickInv ==
  ASSUME IInv, TickInv, NEW i \in Irqs, Deliver(i)
  PROVE  TickInv'
  <1>1. /\ stack' = Append(stack, [irq |-> i, at |-> "pusha", saved |-> 0])
        /\ UNCHANGED tickVars /\ \A j \in isr : i < j
    BY DEF Deliver, Presented
  <1>2. /\ Len(stack) \in Nat /\ Len(stack') = Len(stack) + 1
        /\ stack'[Len(stack) + 1] = [irq |-> i, at |-> "pusha", saved |-> 0]
        /\ stack' \in Seq(Activations)
        /\ \A k \in 1 .. Len(stack) : stack'[k] = stack[k]
    <2>1. [irq |-> i, at |-> "pusha", saved |-> 0] \in Activations
      BY DEF Activations, Places
    <2> QED
      BY <1>1, <2>1, Grown DEF IInv
  <1>3. Timer \notin isr
    BY <1>1 DEF Irqs, Timer, Keyboard
  <1>4. \A k \in 1 .. Len(stack) : ~(stack[k].irq = Timer /\ Open(k))
    BY <1>3 DEF IInv, Order, InService, Irqs
  <1>5. \A k \in 1 .. Len(stack) : ~(stack'[k].irq = Timer /\ Open(k)')
    BY <1>2, <1>4 DEF Open
  <1>6. Innermost'
    BY <1>2, <1>5 DEF Innermost
  <1>7. ~At("call")
    <2>1. stack # << >> => Len(stack) \in 1 .. Len(stack)
      BY <1>2, EmptySeq DEF IInv, Typed
    <2> QED
      BY <1>4, <2>1 DEF At, Open, Last
  <1>8. Last(stack').at = "pusha"
    BY <1>2 DEF Last
  <1>9. ~At("store")' /\ ~At("call")'
    BY <1>8 DEF At
  <1> QED
    BY <1>1, <1>6, <1>7, <1>9, QuietStep DEF TickInv

(* Steps that leave the stack and the ticks alone; readchar, which changes *)
(* the register, takes its steps when no handler runs.                     *)
LEMMA IdleTickInv ==
  ASSUME TickInv, stack' = stack, UNCHANGED tickVars, eax' = eax \/ stack = << >>
  PROVE  TickInv'
  BY DEF TickInv, Innermost, Counted, Open, At, tickVars

THEOREM TickInvariant == Spec => []TickInv
  <1>1. Init => TickInv
    <2> SUFFICES ASSUME Init PROVE TickInv
      OBVIOUS
    <2>1. stack = << >> /\ Len(stack) = 0 /\ numTicks = 0 /\ tick = 0
      BY EmptySeq DEF Init
    <2> QED
      BY <2>1 DEF TickInv, Innermost, Counted, At
  <1>2. IInv /\ TickInv /\ [Next]_vars => TickInv'
    <2> SUFFICES ASSUME IInv, TickInv, [Next]_vars PROVE TickInv'
      OBVIOUS
    <2>1. CASE kernel_main
      BY <2>1, IdleTickInv
         DEF kernel_main, handler_install, timer_init, keyboard_init, enable_interrupts
    <2>2. CASE TimerExpires \/ KeyArrives
      BY <2>2, IdleTickInv DEF TimerExpires, KeyArrives
    <2>3. CASE \E i \in Irqs : Deliver(i)
      BY <2>3, DeliverTickInv
    <2>4. CASE Handler
      BY <2>4, HandlerTickInv
    <2>5. CASE readchar
      BY <2>5, IdleTickInv DEF readchar
    <2>6. CASE UNCHANGED vars
      BY <2>6, IdleTickInv DEF vars, tickVars
    <2> QED
      BY <2>1, <2>2, <2>3, <2>4, <2>5, <2>6 DEF Next
  <1> QED
    BY <1>1, <1>2, Invariant, PTL DEF Spec

(* The timer's callback is called with every number of ticks, in order,    *)
(* although the handler reads, adds and writes numTicks in separate steps  *)
(* with interrupts enabled.                                                *)
THEOREM TicksAreInOrder == Spec => TicksInOrder
  <1>1. TickInv /\ [Next]_vars => [timer_call => tick' = (tick + 1) % TickWrap]_vars
    <2> SUFFICES ASSUME TickInv, timer_call PROVE tick' = (tick + 1) % TickWrap
      OBVIOUS
    <2>1. At("call") /\ tick' = numTicks
      BY DEF timer_call, Running, At
    <2> QED
      BY <2>1 DEF TickInv, Counted
  <1> QED
    BY <1>1, TickInvariant, PTL DEF Spec, TicksInOrder

-----------------------------------------------------------------------------
(* The register.  Every context works on its value in the one register,    *)
(* eax.  An activation that is about to save the registers, or has         *)
(* restored them, passes on what is there; any other restores, in the end, *)
(* what it saved.  So context k (the foreground is context 0) finds, when  *)
(* it runs again, what the innermost of the first activations above it     *)
(* that do not just pass it on has saved, or else what eax holds.          *)
Through(k) == stack[k].at \in {"pusha", "iret"}

Finds(k, v) ==
  \/ v = eax /\ \A m \in 1 .. Len(stack) : k < m => Through(m)
  \/ \E l \in 1 .. Len(stack) :
       /\ k < l /\ ~Through(l) /\ v = stack[l].saved
       /\ \A m \in 1 .. Len(stack) : k < m /\ m < l => Through(m)

(* No step lets a context find what it did not: of the contexts below the  *)
(* handler that runs.                                                      *)
Restores(n) == \A k \in 0 .. n : \A v : Finds(k, v)' => Finds(k, v)

LEMMA DeliverRestores ==
  ASSUME IInv, NEW i \in Irqs, Deliver(i)
  PROVE  Restores(Len(stack))
  <1> DEFINE a == [irq |-> i, at |-> "pusha", saved |-> 0]
  <1>1. a \in Activations /\ stack' = Append(stack, a) /\ eax' = eax
    BY DEF Deliver, Activations, Places
  <1>0. PICK n \in Nat : n = Len(stack)
    BY LenProperties DEF IInv, Typed
  <1>2. /\ Len(stack') = n + 1 /\ stack'[n + 1].at = "pusha"
        /\ \A k \in 1 .. n : stack'[k] = stack[k]
    BY <1>0, <1>1, Grown DEF IInv
  <1>3. Through(n + 1)' /\ \A k \in 1 .. n : Through(k)' <=> Through(k)
    BY <1>2 DEF Through
  <1>4. ASSUME NEW k \in 0 .. n, NEW v, Finds(k, v)'
        PROVE  Finds(k, v)
    <2>1. CASE v = eax /\ \A m \in 1 .. n + 1 : k < m => Through(m)'
      BY <1>0, <1>3, <2>1 DEF Finds
    <2>2. CASE \E l \in 1 .. n + 1 :
                 /\ k < l /\ ~Through(l)' /\ v = stack'[l].saved
                 /\ \A m \in 1 .. n + 1 : k < m /\ m < l => Through(m)'
      <3>1. PICK l \in 1 .. n + 1 :
                 /\ k < l /\ ~Through(l)' /\ v = stack'[l].saved
                 /\ \A m \in 1 .. n + 1 : k < m /\ m < l => Through(m)'
        BY <2>2
      <3>2. l \in 1 .. n
        BY <1>3, <3>1
      <3>3. ~Through(l) /\ v = stack[l].saved
        BY <1>2, <1>3, <3>1, <3>2
      <3>4. \A m \in 1 .. n : k < m /\ m < l => Through(m)
        BY <1>3, <3>1
      <3> QED
        BY <1>0, <3>1, <3>2, <3>3, <3>4 DEF Finds
    <2> QED
      BY <1>1, <1>2, <1>4, <2>1, <2>2 DEF Finds
  <1> QED
    BY <1>0, <1>4 DEF Restores

LEMMA IretRestores ==
  ASSUME IInv, NEW i \in Irqs, iret(i)
  PROVE  Restores(Len(stack) - 1)
  <1>1. /\ stack # << >> /\ Last(stack).at = "iret" /\ stack' = Front(stack) /\ eax' = eax
    BY DEF iret, Running
  <1>0. PICK n \in Nat \ {0} : n = Len(stack)
    BY <1>1, Shrunk DEF IInv
  <1>2. /\ Len(stack') = n - 1 /\ stack[n].at = "iret"
        /\ \A k \in 1 .. n - 1 : stack'[k] = stack[k]
    BY <1>0, <1>1, Shrunk DEF IInv
  <1>3. Through(n) /\ \A k \in 1 .. n - 1 : Through(k)' <=> Through(k)
    BY <1>2 DEF Through
  <1>a. \A m \in 1 .. n : m = n \/ m \in 1 .. n - 1
    OBVIOUS
  <1>4. ASSUME NEW k \in 0 .. n - 1, NEW v, Finds(k, v)'
        PROVE  Finds(k, v)
    <2>1. CASE v = eax /\ \A m \in 1 .. n - 1 : k < m => Through(m)'
      BY <1>0, <1>3, <1>a, <2>1 DEF Finds
    <2>2. CASE \E l \in 1 .. n - 1 :
                 /\ k < l /\ ~Through(l)' /\ v = stack'[l].saved
                 /\ \A m \in 1 .. n - 1 : k < m /\ m < l => Through(m)'
      <3>1. PICK l \in 1 .. n - 1 :
                 /\ k < l /\ ~Through(l)' /\ v = stack'[l].saved
                 /\ \A m \in 1 .. n - 1 : k < m /\ m < l => Through(m)'
        BY <2>2
      <3>2. l \in 1 .. n /\ ~Through(l) /\ v = stack[l].saved
        BY <1>2, <1>3, <3>1
      <3>3. \A m \in 1 .. n : k < m /\ m < l => Through(m)
        <4> SUFFICES ASSUME NEW m \in 1 .. n, k < m, m < l PROVE Through(m)
          OBVIOUS
        <4>1. m \in 1 .. n - 1
          OBVIOUS
        <4> QED
          BY <1>3, <3>1, <4>1
      <3> QED
        BY <1>0, <3>1, <3>2, <3>3 DEF Finds
    <2> QED
      BY <1>1, <1>2, <1>4, <2>1, <2>2 DEF Finds
  <1> QED
    BY <1>0, <1>4 DEF Restores

(* A step of the innermost handler, seen from below: the handler passed on *)
(* eax and now has it saved, or restores what it saved and passes it on,   *)
(* or is and stays one that has something saved.                           *)
LEMMA TopRestores ==
  ASSUME IInv, stack # << >>, Len(stack') = Len(stack),
         \A k \in 1 .. Len(stack) : k # Len(stack) => stack'[k] = stack[k],
         \/ Through(Len(stack)) /\ ~Through(Len(stack))' /\ stack'[Len(stack)].saved = eax
         \/ ~Through(Len(stack)) /\ Through(Len(stack))' /\ eax' = stack[Len(stack)].saved
         \/ /\ ~Through(Len(stack)) /\ ~Through(Len(stack))'
            /\ stack'[Len(stack)].saved = stack[Len(stack)].saved
  PROVE  Restores(Len(stack) - 1)
  <1>0. PICK n \in Nat \ {0} : n = Len(stack)
    BY EmptySeq, LenProperties DEF IInv, Typed
  <1>1. \A k \in 1 .. n : k # n => (Through(k)' <=> Through(k))
    BY <1>0 DEF Through
  <1>2. n \in 1 .. n
    OBVIOUS
  <1>3. ASSUME NEW k \in 0 .. n - 1, NEW v, Finds(k, v)'
        PROVE  Finds(k, v)
    <2>0. k < n
      OBVIOUS
    <2>1. CASE v = eax' /\ \A m \in 1 .. n : k < m => Through(m)'
      <3>1. ~Through(n) /\ eax' = stack[n].saved
        BY <1>0, <1>2, <2>0, <2>1
      <3>2. \A m \in 1 .. n : k < m /\ m < n => Through(m)
        BY <1>1, <2>1
      <3> QED
        BY <1>0, <1>2, <2>0, <2>1, <3>1, <3>2 DEF Finds
    <2>2. CASE \E l \in 1 .. n :
                 /\ k < l /\ ~Through(l)' /\ v = stack'[l].saved
                 /\ \A m \in 1 .. n : k < m /\ m < l => Through(m)'
      <3>1. PICK l \in 1 .. n :
                 /\ k < l /\ ~Through(l)' /\ v = stack'[l].saved
                 /\ \A m \in 1 .. n : k < m /\ m < l => Through(m)'
        BY <2>2
      <3>2. \A m \in 1 .. n : k < m /\ m < l => Through(m)
        <4> SUFFICES ASSUME NEW m \in 1 .. n, k < m, m < l PROVE Through(m)
          OBVIOUS
        <4>1. m # n
          OBVIOUS
        <4> QED
          BY <1>1, <3>1, <4>1
      <3>3. CASE l # n
        <4>1. ~Through(l) /\ v = stack[l].saved
          BY <1>0, <1>1, <3>1, <3>3
        <4> QED
          BY <1>0, <3>1, <3>2, <4>1 DEF Finds
      <3>4. CASE l = n
        <4>1. CASE Through(n) /\ v = eax
          <5>1. \A m \in 1 .. n : k < m => Through(m)
            <6> SUFFICES ASSUME NEW m \in 1 .. n, k < m PROVE Through(m)
              OBVIOUS
            <6>1. m = n \/ m < n
              OBVIOUS
            <6> QED
              BY <3>2, <3>4, <4>1, <6>1
          <5> QED
            BY <1>0, <4>1, <5>1 DEF Finds
        <4>2. CASE ~Through(n) /\ v = stack[n].saved
          BY <1>0, <3>1, <3>2, <3>4, <4>2 DEF Finds
        <4> QED
          BY <1>0, <3>1, <3>4, <4>1, <4>2
      <3> QED
        BY <3>3, <3>4
    <2> QED
      BY <1>0, <1>3, <2>1, <2>2 DEF Finds
  <1> QED
    BY <1>0, <1>3 DEF Restores

(* The innermost handler finds eax as it is.                               *)
LEMMA TopFinds ==
  ASSUME NEW k, k = Len(stack')
  PROVE  \A v : Finds(k, v)' => v = eax'
  <1> SUFFICES ASSUME NEW v, NEW l \in 1 .. Len(stack'), k < l PROVE FALSE
    BY DEF Finds
  <1> QED
    OBVIOUS

LEMMA FindsSame ==
  ASSUME stack' = stack, eax' = eax
  PROVE  \A k, v : Finds(k, v)' <=> Finds(k, v)
  BY DEF Finds, Through

-----------------------------------------------------------------------------
(* What the buffer's two users know, wherever they are interrupted.        *)
HoldsByte(k) == stack[k].irq = Keyboard /\ stack[k].at \in {"test", "slot"}
Adding(k) == stack[k].irq = Keyboard /\ stack[k].at \in {"slot", "end"}
Stored(k) == stack[k].irq = Keyboard /\ stack[k].at = "end"

(* The code that readchar has loaded, and the byte that a handler has      *)
(* read, are in eax whenever they run.                                     *)
Kept ==
  /\ pc = "advance" => \A v : Finds(0, v) => v = scancode_buffer[scancode_buffer_begin]
  /\ \A k \in 1 .. Len(stack) : HoldsByte(k) => \A v : Finds(k, v) => v \in Scancodes

(* What they have tested still holds.                                      *)
Tested ==
  /\ pc \in {"load", "advance"} => ~B!SCANCODE_BUFFER_ISEMPTY
  /\ \A k \in 1 .. Len(stack) : Adding(k) => ~B!SCANCODE_BUFFER_ISFULL
  /\ \A k \in 1 .. Len(stack) : Stored(k) => scancode_buffer[scancode_buffer_end] \in Scancodes
  /\ kbd.unread => kbd.byte \in Scancodes

BufferInv == Kept /\ Tested

(* Steps that leave the buffer and its users where they are.               *)
LEMMA BufferAlone ==
  ASSUME BufferInv,
         UNCHANGED <<scancode_buffer, scancode_buffer_begin, scancode_buffer_end, pc, kbd>>,
         \A v : Finds(0, v)' => Finds(0, v),
         \A k \in 1 .. Len(stack') :
           stack'[k].irq = Keyboard /\ stack'[k].at \in {"test", "slot", "end"} =>
             /\ k \in 1 .. Len(stack) /\ stack'[k] = stack[k]
             /\ \A v : Finds(k, v)' => Finds(k, v)
  PROVE  BufferInv'
  <1>1. Kept'
    BY DEF BufferInv, Kept, HoldsByte
  <1>2. Tested'
    BY DEF BufferInv, Tested, Adding, Stored, B!SCANCODE_BUFFER_ISEMPTY,
           B!SCANCODE_BUFFER_ISFULL, B!SCANCODE_BUFFER_NEXTLOC
  <1> QED
    BY <1>1, <1>2 DEF BufferInv

LEMMA DeliverBufferInv ==
  ASSUME IInv, BufferInv, NEW i \in Irqs, Deliver(i)
  PROVE  BufferInv'
  <1> DEFINE a == [irq |-> i, at |-> "pusha", saved |-> 0]
  <1>1. /\ a \in Activations /\ stack' = Append(stack, a)
        /\ UNCHANGED <<bufferVars, readcharVars, kbd>>
    BY DEF Deliver, Activations, Places
  <1>2. /\ Len(stack) \in Nat /\ Len(stack') = Len(stack) + 1
        /\ stack'[Len(stack) + 1].at = "pusha"
        /\ \A k \in 1 .. Len(stack) : stack'[k] = stack[k]
    BY <1>1, Grown DEF IInv
  <1>3. \A k \in 0 .. Len(stack) : \A v : Finds(k, v)' => Finds(k, v)
    BY DeliverRestores DEF Restores
  <1>4. \A k \in 1 .. Len(stack') : k = Len(stack) + 1 \/ k \in 1 .. Len(stack)
    BY <1>2
  <1>5. 0 \in 0 .. Len(stack) /\ \A k \in 1 .. Len(stack) : k \in 0 .. Len(stack)
    BY <1>2
  <1> QED
    BY <1>1, <1>2, <1>3, <1>4, <1>5, BufferAlone DEF bufferVars, readcharVars

LEMMA IretBufferInv ==
  ASSUME IInv, BufferInv, NEW i \in Irqs, iret(i)
  PROVE  BufferInv'
  <1>1. /\ stack # << >> /\ stack' = Front(stack)
        /\ UNCHANGED <<bufferVars, readcharVars, kbd>>
    BY DEF iret, Running, deviceVars
  <1>2. /\ Len(stack) \in Nat \ {0} /\ Len(stack') = Len(stack) - 1
        /\ \A k \in 1 .. Len(stack) - 1 : stack'[k] = stack[k]
    BY <1>1, Shrunk DEF IInv
  <1>3. \A k \in 0 .. Len(stack) - 1 : \A v : Finds(k, v)' => Finds(k, v)
    BY IretRestores DEF Restores
  <1>4. /\ 0 \in 0 .. Len(stack) - 1
        /\ \A k \in 1 .. Len(stack') : k \in 0 .. Len(stack) - 1 /\ k \in 1 .. Len(stack)
                                       /\ k \in 1 .. Len(stack) - 1
    BY <1>2
  <1> QED
    BY <1>1, <1>2, <1>3, <1>4, BufferAlone DEF bufferVars, readcharVars

(* A step of the innermost handler that is not about the buffer.           *)
LEMMA TopBufferInv ==
  ASSUME IInv, BufferInv, stack # << >>, Restores(Len(stack) - 1), Len(stack') = Len(stack),
         UNCHANGED <<scancode_buffer, scancode_buffer_begin, scancode_buffer_end, pc, kbd>>,
         \A k \in 1 .. Len(stack) : k # Len(stack) => stack'[k] = stack[k],
         ~(stack'[Len(stack)].irq = Keyboard /\ stack'[Len(stack)].at \in {"test", "slot", "end"})
  PROVE  BufferInv'
  <1>1. Len(stack) \in Nat \ {0}
    BY EmptySeq, LenProperties DEF IInv, Typed
  <1>2. /\ 0 \in 0 .. Len(stack) - 1
        /\ \A k \in 1 .. Len(stack) : k = Len(stack) \/ k \in 0 .. Len(stack) - 1
    BY <1>1
  <1> QED
    BY <1>2, BufferAlone DEF Restores

LEMMA WrapperBufferInv ==
  ASSUME IInv, BufferInv, NEW i \in Irqs, pusha(i) \/ popa(i) \/ outb_ack(i)
  PROVE  BufferInv'
  <1>1. ASSUME pusha(i) PROVE BufferInv'
    <2> DEFINE e == [stack[Len(stack)] EXCEPT !.saved = eax, !.at = FirstOf(i)]
    <2>1. /\ stack # << >> /\ Last(stack).at = "pusha"
          /\ stack' = [stack EXCEPT ![Len(stack)] = e]
          /\ UNCHANGED <<bufferVars, readcharVars, deviceVars>>
      BY <1>1 DEF pusha, Running
    <2>2. stack[Len(stack)] \in Activations
      BY <2>1, EmptySeq, LenProperties, ElementOfSeq DEF IInv, Typed
    <2>3. e \in Activations /\ e.at = FirstOf(i) /\ e.saved = eax
      BY <2>2 DEF IInv, Typed, Activations, FirstOf, Places
    <2>4. /\ Len(stack') = Len(stack) /\ stack'[Len(stack)] = e
          /\ \A k \in 1 .. Len(stack) : k # Len(stack) => stack'[k] = stack[k]
      BY <2>1, <2>3, TopReplaced DEF IInv, Typed
    <2> HIDE DEF e
    <2>5. e.at \in {"load", "inb"}
      BY <2>3 DEF FirstOf
    <2>6. Through(Len(stack)) /\ ~Through(Len(stack))' /\ stack'[Len(stack)].saved = eax
      BY <2>1, <2>3, <2>4, <2>5 DEF Through, Last
    <2>7. Restores(Len(stack) - 1)
      BY <2>1, <2>4, <2>6, TopRestores
    <2> QED
      BY <2>1, <2>4, <2>5, <2>7, TopBufferInv DEF bufferVars, readcharVars, deviceVars
  <1>2. ASSUME popa(i) PROVE BufferInv'
    <2>1. /\ stack # << >> /\ Last(stack).at = "popa" /\ GoTo("iret")
          /\ eax' = Last(stack).saved
          /\ UNCHANGED <<bufferVars, readcharVars, deviceVars>>
      BY <1>2 DEF popa, Running
    <2>2. /\ Len(stack') = Len(stack) /\ Last(stack) = stack[Len(stack)]
          /\ stack'[Len(stack)].at = "iret"
          /\ \A k \in 1 .. Len(stack) : k # Len(stack) => stack'[k] = stack[k]
      BY <2>1, Moved DEF IInv, Places, Activations
    <2>3. ~Through(Len(stack)) /\ Through(Len(stack))' /\ eax' = stack[Len(stack)].saved
      BY <2>1, <2>2 DEF Through
    <2>4. Restores(Len(stack) - 1)
      BY <2>1, <2>2, <2>3, TopRestores
    <2> QED
      BY <2>1, <2>2, <2>4, TopBufferInv DEF bufferVars, readcharVars, deviceVars
  <1>3. ASSUME outb_ack(i) PROVE BufferInv'
    <2>1. /\ stack # << >> /\ Last(stack).at = "ack" /\ GoTo("popa")
          /\ UNCHANGED <<bufferVars, readcharVars, kbd>>
      BY <1>3 DEF outb_ack, Running
    <2>2. /\ Len(stack') = Len(stack) /\ Last(stack) = stack[Len(stack)]
          /\ stack'[Len(stack)].at = "popa"
          /\ stack'[Len(stack)].saved = stack[Len(stack)].saved
          /\ \A k \in 1 .. Len(stack) : k # Len(stack) => stack'[k] = stack[k]
      BY <2>1, Moved DEF IInv, Places, Activations
    <2>3. ~Through(Len(stack)) /\ ~Through(Len(stack))'
      BY <2>1, <2>2 DEF Through
    <2>4. Restores(Len(stack) - 1)
      BY <2>1, <2>2, <2>3, TopRestores
    <2> QED
      BY <2>1, <2>2, <2>4, TopBufferInv DEF bufferVars, readcharVars
  <1> QED
    BY <1>1, <1>2, <1>3

(* Steps of the bodies: what was saved stays so.                           *)
LEMMA BodyMoved ==
  ASSUME IInv, stack # << >>, NEW at \in Places, GoTo(at),
         Last(stack).at \notin {"pusha", "iret"}, at \notin {"pusha", "iret"}
  PROVE  /\ Len(stack) \in Nat \ {0} /\ Len(stack') = Len(stack)
         /\ stack[Len(stack)] = Last(stack)
         /\ stack'[Len(stack)].irq = Last(stack).irq /\ stack'[Len(stack)].at = at
         /\ \A k \in 1 .. Len(stack) : k # Len(stack) => stack'[k] = stack[k]
         /\ Restores(Len(stack) - 1)
  <1>0. /\ Len(stack) \in Nat \ {0} /\ Len(stack') = Len(stack) /\ Last(stack) = stack[Len(stack)]
        /\ stack'[Len(stack)] = [stack[Len(stack)] EXCEPT !.at = at]
        /\ \A k \in 1 .. Len(stack) : k # Len(stack) => stack'[k] = stack[k]
        /\ stack[Len(stack)] \in Activations
    BY Moved DEF IInv
  <1>1. /\ stack'[Len(stack)].at = at /\ stack'[Len(stack)].irq = Last(stack).irq
        /\ stack'[Len(stack)].saved = stack[Len(stack)].saved
    BY <1>0 DEF Activations
  <1>2. ~Through(Len(stack)) /\ ~Through(Len(stack))'
    BY <1>0, <1>1 DEF Through
  <1> QED
    BY <1>0, <1>1, <1>2, TopRestores

LEMMA TimerBufferInv ==
  ASSUME IInv, BufferInv, timer_load \/ timer_store \/ timer_call
  PROVE  BufferInv'
  <1>1. /\ stack # << >> /\ Last(stack).irq = Timer /\ Last(stack).at \in {"load", "store", "call"}
        /\ UNCHANGED <<bufferVars, readcharVars, deviceVars>>
        /\ \E at \in {"store", "call", "ack"} : GoTo(at)
    BY DEF timer_load, timer_store, timer_call, Running
  <1>2. PICK at \in {"store", "call", "ack"} : GoTo(at)
    BY <1>1
  <1>3. /\ Len(stack') = Len(stack) /\ Restores(Len(stack) - 1)
        /\ stack'[Len(stack)].irq = Timer
        /\ \A k \in 1 .. Len(stack) : k # Len(stack) => stack'[k] = stack[k]
    BY <1>1, <1>2, BodyMoved DEF Places
  <1> QED
    BY <1>1, <1>3, TopBufferInv DEF bufferVars, readcharVars, deviceVars, Timer, Keyboard

(* The keyboard's body is open, so no other activation of it is.           *)
LEMMA KeyboardMoved ==
  ASSUME IInv, stack # << >>, NEW at \in {"test", "slot", "end", "ack"}, GoTo(at),
         Last(stack).irq = Keyboard, Last(stack).at \in {"inb", "test", "slot", "end"}
  PROVE  /\ Len(stack) \in Nat \ {0} /\ Len(stack') = Len(stack)
         /\ stack[Len(stack)] = Last(stack)
         /\ stack'[Len(stack)].irq = Keyboard /\ stack'[Len(stack)].at = at
         /\ \A k \in 1 .. Len(stack) :
              k # Len(stack) => ~HoldsByte(k)' /\ ~Adding(k)' /\ ~Stored(k)'
         /\ \A v : Finds(0, v)' => Finds(0, v)
  <1>1. /\ Len(stack) \in Nat \ {0} /\ Len(stack') = Len(stack)
        /\ stack[Len(stack)] = Last(stack)
        /\ stack'[Len(stack)].irq = Keyboard /\ stack'[Len(stack)].at = at
        /\ \A k \in 1 .. Len(stack) : k # Len(stack) => stack'[k] = stack[k]
        /\ Restores(Len(stack) - 1)
    BY BodyMoved DEF Places
  <1>2. Open(Len(stack)) /\ Len(stack) \in 1 .. Len(stack)
    BY <1>1 DEF Open
  <1>3. ASSUME NEW k \in 1 .. Len(stack), k # Len(stack)
        PROVE  ~HoldsByte(k)' /\ ~Adding(k)' /\ ~Stored(k)'
    <2>1. ~(Open(k) /\ stack[k].irq = Keyboard)
      BY <1>1, <1>2, <1>3, Distinct
    <2> QED
      BY <1>1, <1>3, <2>1 DEF Open, HoldsByte, Adding, Stored
  <1>4. 0 \in 0 .. Len(stack) - 1
    BY <1>1
  <1> QED
    BY <1>1, <1>3, <1>4 DEF Restores

LEMMA InbBufferInv ==
  ASSUME IInv, BufferInv, keyboard_inb
  PROVE  BufferInv'
  <1>1. /\ stack # << >> /\ Last(stack).irq = Keyboard /\ Last(stack).at = "inb"
        /\ GoTo("test") /\ eax' = kbd.byte /\ kbd' = [kbd EXCEPT !.unread = FALSE]
        /\ UNCHANGED <<bufferVars, readcharVars>>
    BY DEF keyboard_inb, Running
  <1>2. /\ Len(stack) \in Nat \ {0} /\ Len(stack') = Len(stack)
        /\ stack[Len(stack)] = Last(stack)
        /\ stack'[Len(stack)].irq = Keyboard /\ stack'[Len(stack)].at = "test"
        /\ \A k \in 1 .. Len(stack) :
             k # Len(stack) => ~HoldsByte(k)' /\ ~Adding(k)' /\ ~Stored(k)'
        /\ \A v : Finds(0, v)' => Finds(0, v)
    BY <1>1, KeyboardMoved
  <1>3. kbd.unread
    BY <1>1, <1>2 DEF IInv, Order, Owed, Pending
  <1>4. eax' \in Scancodes
    BY <1>1, <1>3 DEF BufferInv, Tested
  <1>5. \A k, v : k = Len(stack) /\ Finds(k, v)' => v \in Scancodes
    BY <1>2, <1>4, TopFinds
  <1>6. Kept'
    BY <1>1, <1>2, <1>5 DEF BufferInv, Kept, bufferVars, readcharVars
  <1>7. ~kbd'.unread /\ kbd'.byte = kbd.byte
    BY <1>1 DEF IInv, Typed
  <1>8. Tested'
    <2>1. \A k \in 1 .. Len(stack) : ~Adding(k)' /\ ~Stored(k)'
      BY <1>2 DEF Adding, Stored
    <2> QED
      BY <1>1, <1>2, <1>7, <2>1
      DEF BufferInv, Tested, bufferVars, readcharVars, B!SCANCODE_BUFFER_ISEMPTY
  <1> QED
    BY <1>6, <1>8 DEF BufferInv

LEMMA TestBufferInv ==
  ASSUME IInv, BufferInv, keyboard_test
  PROVE  BufferInv'
  <1>1. /\ stack # << >> /\ Last(stack).irq = Keyboard /\ Last(stack).at = "test"
        /\ UNCHANGED <<scancode_buffer, scancode_buffer_end, readcharVars, eax, kbd>>
        /\ IF B!SCANCODE_BUFFER_ISFULL THEN GoTo("ack") ELSE GoTo("slot")
    BY DEF keyboard_test, Running, deviceVars
  <1>2. PICK at \in {"slot", "ack"} : GoTo(at) /\ (at = "slot" => ~B!SCANCODE_BUFFER_ISFULL)
    BY <1>1
  <1>3. /\ Len(stack) \in Nat \ {0} /\ Len(stack') = Len(stack)
        /\ stack[Len(stack)] = Last(stack)
        /\ stack'[Len(stack)].irq = Keyboard /\ stack'[Len(stack)].at = at
        /\ \A k \in 1 .. Len(stack) :
             k # Len(stack) => ~HoldsByte(k)' /\ ~Adding(k)' /\ ~Stored(k)'
        /\ \A v : Finds(0, v)' => Finds(0, v)
    BY <1>1, <1>2, KeyboardMoved
  <1>4. \A k, v : k = Len(stack) /\ Finds(k, v)' => v \in Scancodes
    <2>1. \A k, v : k = Len(stack) /\ Finds(k, v)' => v = eax'
      BY <1>3, TopFinds
    <2>2. HoldsByte(Len(stack)) /\ Finds(Len(stack), eax)
      BY <1>1, <1>3 DEF HoldsByte, Finds
    <2>3. eax' \in Scancodes
      BY <1>1, <1>3, <2>2 DEF BufferInv, Kept
    <2> QED
      BY <2>1, <2>3
  <1>5. Kept'
    BY <1>1, <1>3, <1>4 DEF BufferInv, Kept, readcharVars
  <1>6. Tested'
    <2>1. Adding(Len(stack))' => at = "slot"
      BY <1>2, <1>3 DEF Adding
    <2>2. ~Stored(Len(stack))'
      BY <1>2, <1>3 DEF Stored
    <2> QED
      BY <1>1, <1>2, <1>3, <2>1, <2>2
      DEF BufferInv, Tested, readcharVars, B!SCANCODE_BUFFER_ISEMPTY,
          B!SCANCODE_BUFFER_ISFULL, B!SCANCODE_BUFFER_NEXTLOC
  <1> QED
    BY <1>5, <1>6 DEF BufferInv

(* The byte goes into the free slot, which is not the one readchar is at.  *)
LEMMA SlotBufferInv ==
  ASSUME IInv, BufferInv, keyboard_slot
  PROVE  BufferInv'
  <1>1. /\ stack # << >> /\ Last(stack).irq = Keyboard /\ Last(stack).at = "slot"
        /\ GoTo("end") /\ UNCHANGED <<scancode_buffer_end, readcharVars, eax, kbd>>
        /\ scancode_buffer' = [scancode_buffer EXCEPT ![scancode_buffer_end] =
                                  B!AsUnsignedChar(B!AsChar(eax))]
    BY DEF keyboard_slot, Running, deviceVars
  <1>2. /\ Len(stack) \in Nat \ {0} /\ Len(stack') = Len(stack)
        /\ stack[Len(stack)] = Last(stack)
        /\ stack'[Len(stack)].irq = Keyboard /\ stack'[Len(stack)].at = "end"
        /\ \A k \in 1 .. Len(stack) :
             k # Len(stack) => ~HoldsByte(k)' /\ ~Adding(k)' /\ ~Stored(k)'
        /\ \A v : Finds(0, v)' => Finds(0, v)
    BY <1>1, KeyboardMoved
  <1>3. eax \in Scancodes /\ ~B!SCANCODE_BUFFER_ISFULL
    <2>1. HoldsByte(Len(stack)) /\ Finds(Len(stack), eax) /\ Adding(Len(stack))
      BY <1>1, <1>2 DEF HoldsByte, Finds, Adding
    <2> QED
      BY <1>2, <2>1 DEF BufferInv, Kept, Tested
  <1>4. B!AsUnsignedChar(B!AsChar(eax)) = eax
    BY <1>3, InterruptsAssumption DEF B!AsUnsignedChar, B!AsChar
  <1>5. scancode_buffer'[scancode_buffer_end] \in Scancodes
    BY <1>1, <1>3, <1>4 DEF IInv, Typed
  <1>6. Kept'
    <2>1. ~HoldsByte(Len(stack))'
      BY <1>2 DEF HoldsByte
    <2>2. ASSUME pc = "advance"
          PROVE  scancode_buffer'[scancode_buffer_begin] = scancode_buffer[scancode_buffer_begin]
      BY <1>1, <2>2 DEF BufferInv, Tested, B!SCANCODE_BUFFER_ISEMPTY, IInv, Typed
    <2> QED
      BY <1>1, <1>2, <2>1, <2>2 DEF BufferInv, Kept, readcharVars
  <1>7. Tested'
    BY <1>1, <1>2, <1>3, <1>5
    DEF BufferInv, Tested, readcharVars, B!SCANCODE_BUFFER_ISEMPTY,
        B!SCANCODE_BUFFER_ISFULL, B!SCANCODE_BUFFER_NEXTLOC
  <1> QED
    BY <1>6, <1>7 DEF BufferInv

LEMMA EndBufferInv ==
  ASSUME IInv, BufferInv, keyboard_end
  PROVE  BufferInv'
  <1>1. /\ stack # << >> /\ Last(stack).irq = Keyboard /\ Last(stack).at = "end"
        /\ GoTo("ack") /\ UNCHANGED <<scancode_buffer, readcharVars, eax, kbd>>
        /\ scancode_buffer_end' = B!SCANCODE_BUFFER_NEXTLOC(scancode_buffer_end)
    BY DEF keyboard_end, Running, deviceVars
  <1>2. /\ Len(stack) \in Nat \ {0} /\ Len(stack') = Len(stack)
        /\ stack[Len(stack)] = Last(stack)
        /\ stack'[Len(stack)].at = "ack"
        /\ \A k \in 1 .. Len(stack) :
             k # Len(stack) => ~HoldsByte(k)' /\ ~Adding(k)' /\ ~Stored(k)'
        /\ \A v : Finds(0, v)' => Finds(0, v)
    BY <1>1, KeyboardMoved
  <1>3. \A k \in 1 .. Len(stack) : ~HoldsByte(k)' /\ ~Adding(k)' /\ ~Stored(k)'
    BY <1>2 DEF HoldsByte, Adding, Stored
  <1>4. scancode_buffer_end' # scancode_buffer_begin
    <2>1. Adding(Len(stack)) /\ Len(stack) \in 1 .. Len(stack)
      BY <1>1, <1>2 DEF Adding
    <2> QED
      BY <1>1, <2>1 DEF BufferInv, Tested, B!SCANCODE_BUFFER_ISFULL
  <1>5. Kept'
    BY <1>1, <1>2, <1>3 DEF BufferInv, Kept, readcharVars
  <1>6. Tested'
    BY <1>1, <1>2, <1>3, <1>4
    DEF BufferInv, Tested, readcharVars, B!SCANCODE_BUFFER_ISEMPTY
  <1> QED
    BY <1>5, <1>6 DEF BufferInv

(* readchar, which runs when no handler does.                              *)
LEMMA ReadcharBufferInv ==
  ASSUME IInv, BufferInv, readchar
  PROVE  BufferInv'
  <1>1. stack = << >> /\ stack' = stack /\ kbd' = kbd /\ Len(stack) = 0
    BY EmptySeq DEF readchar, deviceVars
  <1>2. \A v : Finds(0, v)' => v = eax'
    BY <1>1 DEF Finds
  <1>3. \A v : Finds(0, v) <=> v = eax
    BY <1>1 DEF Finds
  <1>4. /\ pc' = "advance" => eax' = scancode_buffer'[scancode_buffer_begin']
        /\ pc' \in {"load", "advance"} => scancode_buffer_begin' # scancode_buffer_end'
    <2>1. CASE B!keyb_remove_test
      BY <1>3, <2>1 DEF B!keyb_remove_test, B!handlerVars, BufferInv, Kept, Tested,
                        B!SCANCODE_BUFFER_ISEMPTY
    <2>2. CASE B!keyb_remove_load
      BY <2>2 DEF B!keyb_remove_load, B!handlerVars, BufferInv, Tested,
                  B!SCANCODE_BUFFER_ISEMPTY
    <2>3. CASE B!keyb_remove_advance
      BY <2>3 DEF B!keyb_remove_advance
    <2>4. CASE \E event \in B!KeyEvents : B!readchar_process(event)
      BY <2>4 DEF B!readchar_process
    <2> QED
      BY <2>1, <2>2, <2>3, <2>4 DEF readchar, B!readchar
  <1>5. Kept'
    BY <1>1, <1>2, <1>4 DEF Kept
  <1>6. Tested'
    BY <1>1, <1>4 DEF BufferInv, Tested, B!SCANCODE_BUFFER_ISEMPTY
  <1> QED
    BY <1>5, <1>6 DEF BufferInv

LEMMA KeyArrivesBufferInv ==
  ASSUME BufferInv, KeyArrives
  PROVE  BufferInv'
  <1>1. /\ UNCHANGED <<bufferVars, readcharVars, eax, stack>>
        /\ kbd'.byte \in Scancodes
    BY DEF KeyArrives
  <1>2. \A k, v : Finds(k, v)' <=> Finds(k, v)
    BY <1>1, FindsSame
  <1>3. Kept'
    BY <1>1, <1>2 DEF BufferInv, Kept, HoldsByte, bufferVars, readcharVars
  <1>4. Tested'
    BY <1>1 DEF BufferInv, Tested, Adding, Stored, bufferVars, readcharVars,
                B!SCANCODE_BUFFER_ISEMPTY, B!SCANCODE_BUFFER_ISFULL,
                B!SCANCODE_BUFFER_NEXTLOC
  <1> QED
    BY <1>3, <1>4 DEF BufferInv

LEMMA StackAloneBufferInv ==
  ASSUME IInv, BufferInv, UNCHANGED <<bufferVars, readcharVars, eax, stack, kbd>>
  PROVE  BufferInv'
  <1>1. \A k, v : Finds(k, v)' <=> Finds(k, v)
    BY FindsSame
  <1> QED
    BY <1>1, BufferAlone DEF bufferVars, readcharVars

LEMMA NextBufferInv == IInv /\ BufferInv /\ [Next]_vars => BufferInv'
  <1> SUFFICES ASSUME IInv, BufferInv, [Next]_vars PROVE BufferInv'
    OBVIOUS
  <1>1. CASE kernel_main
    BY <1>1, StackAloneBufferInv
       DEF kernel_main, handler_install, timer_init, keyboard_init, enable_interrupts, deviceVars
  <1>2. CASE TimerExpires
    BY <1>2, StackAloneBufferInv DEF TimerExpires
  <1>3. CASE KeyArrives
    BY <1>3, KeyArrivesBufferInv
  <1>4. CASE \E i \in Irqs : Deliver(i)
    BY <1>4, DeliverBufferInv
  <1>5. CASE \E i \in Irqs : pusha(i) \/ popa(i) \/ iret(i) \/ outb_ack(i)
    BY <1>5, WrapperBufferInv, IretBufferInv
  <1>6. CASE timer_load \/ timer_store \/ timer_call
    BY <1>6, TimerBufferInv
  <1>7. CASE keyboard_inb \/ keyboard_test \/ keyboard_slot \/ keyboard_end
    BY <1>7, InbBufferInv, TestBufferInv, SlotBufferInv, EndBufferInv
  <1>8. CASE readchar
    BY <1>8, ReadcharBufferInv
  <1>9. CASE UNCHANGED vars
    BY <1>9, StackAloneBufferInv DEF vars, deviceVars
  <1> QED
    BY <1>1, <1>2, <1>3, <1>4, <1>5, <1>6, <1>7, <1>8, <1>9 DEF Next, Handler

(* However the handlers nest, what was read and tested is not stale.       *)
THEOREM BufferInvariant == Spec => []BufferInv
  <1>1. Init => BufferInv
    <2> SUFFICES ASSUME Init PROVE BufferInv
      OBVIOUS
    <2>1. stack = << >> /\ Len(stack) = 0 /\ pc = "idle" /\ kbd.unread = FALSE
      BY EmptySeq DEF Init, B!Init
    <2> QED
      BY <2>1 DEF BufferInv, Kept, Tested
  <1> QED
    BY <1>1, NextBufferInv, Invariant, PTL DEF Spec

-----------------------------------------------------------------------------
(* The refinement.  A code is queued by the step that moves the end of the *)
(* buffer, or lost by the test that finds the buffer full; the lemmas on   *)
(* the buffer are those of ScancodeBuffer_proofs.                          *)
P == INSTANCE ScancodeBuffer_proofs WITH taken <- eax

LEMMA SameBuffer ==
  /\ P!Contents = B!Contents
  /\ P!Waiting = B!Waiting
  /\ P!SCANCODE_BUFFER_ISFULL = B!SCANCODE_BUFFER_ISFULL
  /\ P!SCANCODE_BUFFER_ISEMPTY = B!SCANCODE_BUFFER_ISEMPTY
  /\ \A x : P!SCANCODE_BUFFER_NEXTLOC(x) = B!SCANCODE_BUFFER_NEXTLOC(x)
  <1>1. P!Waiting = B!Waiting /\ \A i : P!SlotOf(i) = B!SlotOf(i)
    BY DEF P!Waiting, B!Waiting, P!SlotOf, B!SlotOf
  <1>2. P!Contents = B!Contents
    BY <1>1 DEF P!Contents, B!Contents
  <1>3. \A x : P!SCANCODE_BUFFER_NEXTLOC(x) = B!SCANCODE_BUFFER_NEXTLOC(x)
    BY DEF P!SCANCODE_BUFFER_NEXTLOC, B!SCANCODE_BUFFER_NEXTLOC
  <1> QED
    BY <1>1, <1>2, <1>3
    DEF P!SCANCODE_BUFFER_ISFULL, B!SCANCODE_BUFFER_ISFULL,
        P!SCANCODE_BUFFER_ISEMPTY, B!SCANCODE_BUFFER_ISEMPTY

LEMMA SameContents == P!Contents' = B!Contents'
  <1>1. P!Waiting' = B!Waiting' /\ \A i : P!SlotOf(i)' = B!SlotOf(i)'
    BY DEF P!Waiting, B!Waiting, P!SlotOf, B!SlotOf
  <1> QED
    BY <1>1 DEF P!Contents, B!Contents

LEMMA BufferTyped == Typed => P!BufferOK
  BY DEF Typed, P!BufferOK, P!Slots, B!Slots, P!Bytes, B!Bytes

LEMMA ContentsFacts ==
  ASSUME Typed
  PROVE  /\ Len(B!Contents) \in Nat /\ Len(B!Contents) <= SCANCODE_BUFFER_SIZE - 1
         /\ Len(B!Contents) = SCANCODE_BUFFER_SIZE - 1 <=> B!SCANCODE_BUFFER_ISFULL
         /\ B!SCANCODE_BUFFER_ISEMPTY => B!Contents = << >>
  <1>1. P!BufferOK
    BY BufferTyped
  <1>2. /\ P!Waiting \in 0 .. SCANCODE_BUFFER_SIZE - 1
        /\ P!Waiting = 0 <=> P!SCANCODE_BUFFER_ISEMPTY
        /\ P!Waiting = SCANCODE_BUFFER_SIZE - 1 <=> P!SCANCODE_BUFFER_ISFULL
    BY <1>1, P!WaitingBounds, InterruptsAssumption
  <1>3. P!ContentsIsSeq
    BY <1>1, P!ContentsSeq, InterruptsAssumption
  <1>4. Len(B!Contents) = P!Waiting /\ B!Contents \in Seq(P!Bytes)
    BY <1>3, SameBuffer DEF P!ContentsIsSeq
  <1> QED
    BY <1>2, <1>4, SameBuffer, InterruptsAssumption, EmptySeq

LEMMA ContentsSame ==
  ASSUME UNCHANGED <<scancode_buffer, scancode_buffer_begin, scancode_buffer_end>>
  PROVE  B!Contents' = B!Contents
  BY DEF B!Contents, B!Waiting, B!SlotOf

LEMMA SlotRefines ==
  ASSUME IInv, keyboard_slot
  PROVE  B!Contents' = B!Contents
  <1>1. /\ UNCHANGED <<scancode_buffer_begin, scancode_buffer_end>>
        /\ scancode_buffer' = [scancode_buffer EXCEPT ![scancode_buffer_end] =
                                  B!AsUnsignedChar(B!AsChar(eax))]
    BY DEF keyboard_slot, readcharVars
  <1>2. P!BufferOK
    BY BufferTyped DEF IInv
  <1>3. P!Contents' = P!Contents
    BY <1>1, <1>2, P!FreeSlotUnseen, InterruptsAssumption
  <1> QED
    BY <1>3, SameBuffer, SameContents

(* What a handler's step does to the queue.                                *)
LEMMA TestRefines ==
  ASSUME IInv, BufferInv, keyboard_test
  PROVE  [Queue!Next]_<<B!Contents, lost, sc>>
  <1>1. B!Contents' = B!Contents /\ sc' = sc
    BY ContentsSame DEF keyboard_test, readcharVars
  <1>2. CASE ~B!SCANCODE_BUFFER_ISFULL
    BY <1>1, <1>2 DEF keyboard_test
  <1>3. CASE B!SCANCODE_BUFFER_ISFULL
    <2>1. eax \in Scancodes
      <3>1. /\ stack # << >> /\ Last(stack).irq = Keyboard /\ Last(stack).at = "test"
        BY DEF keyboard_test, Running
      <3>2. Len(stack) \in 1 .. Len(stack)
        BY <3>1, EmptySeq, LenProperties DEF IInv, Typed
      <3>3. HoldsByte(Len(stack)) /\ Finds(Len(stack), eax)
        BY <3>1, <3>2 DEF HoldsByte, Finds, Last
      <3> QED
        BY <3>2, <3>3 DEF BufferInv, Kept
    <2>2. ~(Len(B!Contents) < SCANCODE_BUFFER_SIZE - 1)
          /\ (Len(B!Contents) >= SCANCODE_BUFFER_SIZE - 1) = TRUE
      BY <1>3, ContentsFacts, InterruptsAssumption DEF IInv
    <2>3. lost' = TRUE
      BY <1>3 DEF keyboard_test
    <2>4. Queue!Arrive(eax)
      BY <1>1, <2>2, <2>3, Zenon DEF Queue!Arrive
    <2> QED
      BY <2>1, <2>4 DEF Queue!Next
  <1> QED
    BY <1>2, <1>3

LEMMA EndRefines ==
  ASSUME IInv, IInv', BufferInv, keyboard_end
  PROVE  Queue!Next
  <1> DEFINE b == scancode_buffer[scancode_buffer_end]
  <1>1. /\ stack # << >> /\ Last(stack).irq = Keyboard /\ Last(stack).at = "end"
        /\ UNCHANGED <<scancode_buffer, scancode_buffer_begin, sc>> /\ lost' = FALSE
        /\ scancode_buffer_end' = B!SCANCODE_BUFFER_NEXTLOC(scancode_buffer_end)
    BY DEF keyboard_end, Running, readcharVars
  <1>2. Len(stack) \in 1 .. Len(stack)
    BY <1>1, EmptySeq, LenProperties DEF IInv, Typed
  <1>3. Adding(Len(stack)) /\ Stored(Len(stack))
    BY <1>1 DEF Adding, Stored, Last
  <1>4. ~B!SCANCODE_BUFFER_ISFULL /\ b \in Scancodes
    BY <1>2, <1>3 DEF BufferInv, Tested
  <1>5. P!BufferOK /\ P!BufferOK'
    BY BufferTyped, PTL DEF IInv
  <1>6. /\ b \in P!Bytes
        /\ scancode_buffer' = [scancode_buffer EXCEPT ![scancode_buffer_end] = b]
        /\ scancode_buffer_end' = P!SCANCODE_BUFFER_NEXTLOC(scancode_buffer_end)
        /\ ~P!SCANCODE_BUFFER_ISFULL
    BY <1>1, <1>4, <1>5, SameBuffer DEF P!BufferOK
  <1>7. P!Contents' = Append(P!Contents, b)
    BY <1>1, <1>5, <1>6, P!EndAppends, InterruptsAssumption
  <1>8. B!Contents' = Append(B!Contents, b)
    BY <1>7, SameBuffer, SameContents
  <1>9. Len(B!Contents) < SCANCODE_BUFFER_SIZE - 1
        /\ (Len(B!Contents) >= SCANCODE_BUFFER_SIZE - 1) = FALSE
    BY <1>4, ContentsFacts, InterruptsAssumption DEF IInv
  <1>10. Queue!Arrive(b)
    BY <1>1, <1>8, <1>9, Zenon DEF Queue!Arrive
  <1> QED
    BY <1>4, <1>10 DEF Queue!Next

LEMMA ReadcharRefines ==
  ASSUME IInv, IInv', BufferInv, readchar
  PROVE  [Queue!Next]_<<B!Contents, lost, sc>>
  <1>1. CASE B!keyb_remove_test
    <2>1. B!Contents' = B!Contents /\ lost' = lost
      BY <1>1, ContentsSame DEF B!keyb_remove_test, B!handlerVars
    <2>2. CASE B!SCANCODE_BUFFER_ISEMPTY
      <3>1. B!Contents = << >> /\ sc' = -1
        BY <1>1, <2>2, ContentsFacts DEF IInv, B!keyb_remove_test
      <3> QED
        BY <2>1, <3>1 DEF Queue!Next, Queue!FindEmpty
    <2>3. CASE ~B!SCANCODE_BUFFER_ISEMPTY
      BY <1>1, <2>1, <2>3 DEF B!keyb_remove_test
    <2> QED
      BY <2>2, <2>3
  <1>2. CASE B!keyb_remove_load
    BY <1>2, ContentsSame DEF B!keyb_remove_load, B!handlerVars
  <1>3. CASE B!keyb_remove_advance
    <2>1. stack = << >> /\ Len(stack) = 0
      BY EmptySeq DEF readchar
    <2>2. Finds(0, eax)
      BY <2>1 DEF Finds
    <2>3. eax = scancode_buffer[scancode_buffer_begin] /\ ~B!SCANCODE_BUFFER_ISEMPTY
      BY <1>3, <2>2 DEF B!keyb_remove_advance, BufferInv, Kept, Tested
    <2>4. /\ sc' = eax /\ lost' = lost
          /\ UNCHANGED <<scancode_buffer, scancode_buffer_end>>
          /\ scancode_buffer_begin' = P!SCANCODE_BUFFER_NEXTLOC(scancode_buffer_begin)
          /\ ~P!SCANCODE_BUFFER_ISEMPTY
      BY <1>3, <2>3, SameBuffer DEF B!keyb_remove_advance, B!handlerVars
    <2>5. P!BufferOK /\ P!BufferOK'
      BY BufferTyped, PTL DEF IInv
    <2>6. /\ P!Contents # << >>
          /\ Head(P!Contents) = scancode_buffer[scancode_buffer_begin]
          /\ P!Contents' = Tail(P!Contents)
      BY <2>4, <2>5, P!RemoveTakesHead, InterruptsAssumption
    <2>7. /\ B!Contents # << >> /\ Head(B!Contents) = eax
          /\ B!Contents' = Tail(B!Contents)
      BY <2>3, <2>6, SameBuffer, SameContents
    <2> QED
      BY <2>4, <2>7 DEF Queue!Next, Queue!Take
  <1>4. CASE \E event \in B!KeyEvents : B!readchar_process(event)
    BY <1>4, ContentsSame DEF B!readchar_process, B!handlerVars
  <1> QED
    BY <1>1, <1>2, <1>3, <1>4 DEF readchar, B!readchar

LEMMA StepRefines ==
  ASSUME IInv, IInv', BufferInv, [Next]_vars
  PROVE  [Queue!Next]_<<B!Contents, lost, sc>>
  <1> USE DEF bufferVars, readcharVars
  <1>1. CASE kernel_main
    BY <1>1, ContentsSame
       DEF kernel_main, handler_install, timer_init, keyboard_init, enable_interrupts
  <1>2. CASE TimerExpires \/ KeyArrives \/ \E i \in Irqs : Deliver(i)
    BY <1>2, ContentsSame DEF TimerExpires, KeyArrives, Deliver
  <1>3. CASE \E i \in Irqs : pusha(i) \/ popa(i) \/ iret(i) \/ outb_ack(i)
    BY <1>3, ContentsSame DEF pusha, popa, iret, outb_ack
  <1>4. CASE timer_load \/ timer_store \/ timer_call \/ keyboard_inb
    BY <1>4, ContentsSame DEF timer_load, timer_store, timer_call, keyboard_inb
  <1>5. CASE keyboard_test
    BY <1>5, TestRefines
  <1>6. CASE keyboard_slot
    BY <1>6, SlotRefines DEF keyboard_slot
  <1>7. CASE keyboard_end
    BY <1>7, EndRefines
  <1>8. CASE readchar
    BY <1>8, ReadcharRefines
  <1>9. CASE UNCHANGED vars
    BY <1>9, ContentsSame DEF vars
  <1> QED
    BY <1>1, <1>2, <1>3, <1>4, <1>5, <1>6, <1>7, <1>8, <1>9 DEF Next, Handler

(* With the handler opened up, and interrupted at any of its steps, the    *)
(* buffer is still a queue of scancodes: for every size of the buffer and  *)
(* every depth of nesting.                                                 *)
THEOREM Refinement == Spec => ImplementsScancodeQueue
  <1>1. Init => Queue!Init
    <2> SUFFICES ASSUME Init PROVE Queue!Init
      OBVIOUS
    <2>1. B!Waiting = 0
      BY DEF Init, B!Init, B!Waiting
    <2>2. B!Contents = << >>
      BY <2>1 DEF B!Contents
    <2> QED
      BY <2>2 DEF Init, B!Init, Queue!Init
  <1>2. IInv /\ IInv' /\ BufferInv /\ [Next]_vars => [Queue!Next]_<<B!Contents, lost, sc>>
    BY StepRefines
  <1> QED
    BY <1>1, <1>2, Invariant, BufferInvariant, PTL
    DEF Spec, ImplementsScancodeQueue, Queue!Spec, Queue!qvars

-----------------------------------------------------------------------------
(* The types that the other invariants do not say.  What is in the         *)
(* register, or saved, is a byte, a count or readchar's -1.                *)
Counts == 0 .. TickWrap - 1
Values == B!Bytes \cup {-1} \cup Counts

ReadcharTyped ==
  /\ lost \in BOOLEAN /\ pc \in {"idle", "load", "advance", "process"}
  /\ sc \in B!Bytes \cup {-1} /\ ret \in Chars \cup {-1}

SetupTyped ==
  /\ boot \in {"timer_init", "keyboard_init", "enable_interrupts", "run"}
  /\ timer_callback \in BOOLEAN /\ iff \in BOOLEAN

StackTyped == Len(stack) <= MaxDepth /\ \A k \in 1 .. Len(stack) : stack[k].saved \in Values

TickTyped == numTicks \in Counts /\ tick \in Counts

TypeInv == ReadcharTyped /\ SetupTyped /\ StackTyped /\ TickTyped /\ eax \in Values

LEMMA NextCount == \A n \in Nat : (n + 1) % TickWrap \in Counts
  BY InterruptsAssumption DEF Counts

LEMMA ReadcharTypeInv ==
  ASSUME IInv, BufferInv, TypeInv, readchar
  PROVE  ReadcharTyped' /\ eax' \in Values
  <1>0. Len(stack) = 0 /\ Finds(0, eax)
    BY EmptySeq DEF readchar, Finds
  <1> USE DEF TypeInv, ReadcharTyped
  <1>1. scancode_buffer[scancode_buffer_begin] \in B!Bytes
    BY DEF IInv, Typed
  <1>2. CASE B!keyb_remove_test
    BY <1>2 DEF B!keyb_remove_test, B!handlerVars
  <1>3. CASE B!keyb_remove_load
    BY <1>1, <1>3 DEF B!keyb_remove_load, B!handlerVars, Values
  <1>4. CASE B!keyb_remove_advance
    <2>1. eax \in B!Bytes
      BY <1>0, <1>1, <1>4 DEF B!keyb_remove_advance, BufferInv, Kept
    <2> QED
      BY <1>4, <2>1 DEF B!keyb_remove_advance, B!handlerVars
  <1>5. ASSUME NEW event \in B!KeyEvents, B!readchar_process(event)
        PROVE  ReadcharTyped' /\ eax' \in Values
    <2>1. event.char \in Chars
      BY DEF B!KeyEvents
    <2>2. ret' \in Chars \cup {-1}
      BY <1>5, <2>1 DEF B!readchar_process
    <2> QED
      BY <1>5, <2>2 DEF B!readchar_process, B!handlerVars
  <1> QED
    BY <1>2, <1>3, <1>4, <1>5 DEF readchar, B!readchar

LEMMA DeliverTypeInv ==
  ASSUME IInv, TypeInv, NEW i \in Irqs, Deliver(i)
  PROVE  StackTyped'
  <1> DEFINE a == [irq |-> i, at |-> "pusha", saved |-> 0]
  <1>1. a \in Activations /\ stack' = Append(stack, a) /\ Len(stack) < MaxDepth
    BY DEF Deliver, Activations, Places
  <1>0. PICK n \in Nat : n = Len(stack)
    BY LenProperties DEF IInv, Typed
  <1>2. /\ Len(stack') = n + 1 /\ stack'[n + 1].saved = 0
        /\ \A k \in 1 .. n : stack'[k] = stack[k]
    BY <1>0, <1>1, Grown DEF IInv
  <1>3. 0 \in Values
    BY DEF Values, B!Bytes
  <1>4. \A k \in 1 .. n + 1 : k \in 1 .. n \/ k = n + 1
    OBVIOUS
  <1>5. n + 1 <= MaxDepth
    BY <1>0, <1>1, InterruptsAssumption
  <1>6. \A k \in 1 .. n : stack[k].saved \in Values
    BY <1>0 DEF TypeInv, StackTyped
  <1> QED
    BY <1>2, <1>3, <1>4, <1>5, <1>6 DEF StackTyped

(* The handlers' steps: only pusha saves, and what it saves is in eax.     *)
LEMMA TopTypeInv ==
  ASSUME IInv, TypeInv, stack # << >>, NEW at \in Places, GoTo(at)
  PROVE  StackTyped'
  <1>1. /\ Len(stack') = Len(stack) /\ Len(stack) \in Nat \ {0}
        /\ stack'[Len(stack)] = [stack[Len(stack)] EXCEPT !.at = at]
        /\ \A k \in 1 .. Len(stack) : k # Len(stack) => stack'[k] = stack[k]
        /\ stack[Len(stack)] \in Activations
    BY Moved DEF IInv
  <1>2. stack'[Len(stack)].saved = stack[Len(stack)].saved
    BY <1>1 DEF Activations
  <1> QED
    BY <1>1, <1>2 DEF TypeInv, StackTyped

LEMMA HandlerTypeInv ==
  ASSUME IInv, TickInv, TypeInv, Handler
  PROVE  ReadcharTyped' /\ SetupTyped' /\ StackTyped' /\ TickTyped' /\ eax' \in Values
  <1> USE DEF TypeInv
  <1>1. ASSUME NEW i \in Irqs, pusha(i) PROVE StackTyped'
    <2> DEFINE e == [stack[Len(stack)] EXCEPT !.saved = eax, !.at = FirstOf(i)]
    <2>1. stack # << >> /\ stack' = [stack EXCEPT ![Len(stack)] = e]
      BY <1>1 DEF pusha, Running
    <2>2. stack[Len(stack)] \in Activations
      BY <2>1, EmptySeq, LenProperties, ElementOfSeq DEF IInv, Typed
    <2>3. e \in Activations /\ e.saved = eax
      BY <2>2 DEF IInv, Typed, Activations, FirstOf, Places
    <2>4. /\ Len(stack') = Len(stack) /\ stack'[Len(stack)] = e
          /\ \A k \in 1 .. Len(stack) : k # Len(stack) => stack'[k] = stack[k]
      BY <2>1, <2>3, TopReplaced DEF IInv, Typed
    <2> QED
      BY <2>3, <2>4 DEF StackTyped
  <1>2. ASSUME NEW i \in Irqs, popa(i) PROVE StackTyped' /\ eax' \in Values
    <2>1. stack # << >> /\ GoTo("iret") /\ eax' = Last(stack).saved
      BY <1>2 DEF popa, Running
    <2>2. Len(stack) \in 1 .. Len(stack)
      BY <2>1, EmptySeq, LenProperties DEF IInv, Typed
    <2> QED
      BY <2>1, <2>2, TopTypeInv DEF StackTyped, Last, Places
  <1>3. ASSUME NEW i \in Irqs, iret(i) PROVE StackTyped'
    <2>1. stack # << >> /\ stack' = Front(stack)
      BY <1>3 DEF iret, Running
    <2>2. PICK n \in Nat \ {0} : n = Len(stack)
      BY <2>1, Shrunk DEF IInv
    <2>3. Len(stack') = n - 1 /\ \A k \in 1 .. n - 1 : stack'[k] = stack[k] /\ k \in 1 .. n
      BY <2>1, <2>2, Shrunk DEF IInv
    <2> QED
      BY <2>2, <2>3, InterruptsAssumption DEF StackTyped
  <1>4. ASSUME NEW i \in Irqs, outb_ack(i) PROVE StackTyped'
    BY <1>4, TopTypeInv DEF outb_ack, Running, Places
  <1>5. CASE \E i \in Irqs : pusha(i) \/ popa(i) \/ iret(i) \/ outb_ack(i)
    <2>1. /\ UNCHANGED <<bufferVars, readcharVars, setupVars, tickVars>>
          /\ eax' = eax \/ \E i \in Irqs : popa(i)
      BY <1>5 DEF pusha, popa, iret, outb_ack
    <2>2. ReadcharTyped' /\ SetupTyped' /\ TickTyped'
      BY <2>1 DEF ReadcharTyped, SetupTyped, TickTyped, bufferVars, readcharVars, setupVars, tickVars
    <2> QED
      BY <1>1, <1>2, <1>3, <1>4, <1>5, <2>1, <2>2
  <1>6. CASE timer_load \/ timer_store \/ timer_call
    <2>1. /\ stack # << >> /\ \E at \in {"store", "call", "ack"} : GoTo(at)
          /\ UNCHANGED <<bufferVars, readcharVars, setupVars>>
      BY <1>6 DEF timer_load, timer_store, timer_call, Running
    <2>2. StackTyped'
      BY <2>1, TopTypeInv DEF Places
    <2>3. (numTicks + 1) % TickWrap \in Counts
      BY NextCount DEF TickTyped, Counts
    <2>4. timer_store => eax = (numTicks + 1) % TickWrap
      BY DEF timer_store, Running, At, TickInv, Counted
    <2>5. TickTyped' /\ eax' \in Values
      BY <1>6, <2>3, <2>4 DEF timer_load, timer_store, timer_call, TickTyped, Values, tickVars
    <2>6. ReadcharTyped' /\ SetupTyped'
      BY <2>1 DEF ReadcharTyped, SetupTyped, bufferVars, readcharVars, setupVars
    <2> QED
      BY <2>2, <2>5, <2>6
  <1>7. CASE keyboard_inb \/ keyboard_test \/ keyboard_slot \/ keyboard_end
    <2>1. /\ stack # << >> /\ \E at \in {"test", "slot", "end", "ack"} : GoTo(at)
          /\ UNCHANGED <<readcharVars, setupVars, tickVars>>
          /\ lost' \in {lost, TRUE, FALSE}
          /\ eax' = eax \/ eax' = kbd.byte
      BY <1>7 DEF keyboard_inb, keyboard_test, keyboard_slot, keyboard_end, Running, bufferVars
    <2>2. StackTyped'
      BY <2>1, TopTypeInv DEF Places
    <2>3. kbd.byte \in Values
      BY DEF IInv, Typed, Values
    <2>4. ReadcharTyped' /\ SetupTyped' /\ TickTyped'
      BY <2>1 DEF ReadcharTyped, SetupTyped, TickTyped, readcharVars, setupVars, tickVars
    <2> QED
      BY <2>1, <2>2, <2>3, <2>4
  <1> QED
    BY <1>5, <1>6, <1>7 DEF Handler

LEMMA NextTypeInv == IInv /\ BufferInv /\ TickInv /\ TypeInv /\ [Next]_vars => TypeInv'
  <1> SUFFICES ASSUME IInv, BufferInv, TickInv, TypeInv, [Next]_vars PROVE TypeInv'
    OBVIOUS
  <1> USE DEF TypeInv, ReadcharTyped, SetupTyped, StackTyped, TickTyped, bufferVars, readcharVars,
              setupVars, tickVars
  <1>1. CASE kernel_main
    BY <1>1 DEF kernel_main, handler_install, timer_init, keyboard_init, enable_interrupts
  <1>2. CASE TimerExpires \/ KeyArrives
    BY <1>2 DEF TimerExpires, KeyArrives
  <1>3. ASSUME NEW i \in Irqs, Deliver(i) PROVE TypeInv'
    <2>1. StackTyped'
      BY <1>3, DeliverTypeInv
    <2> QED
      BY <1>3, <2>1 DEF Deliver
  <1>4. CASE Handler
    BY <1>4, HandlerTypeInv
  <1>5. CASE readchar
    BY <1>5, ReadcharTypeInv DEF readchar
  <1>6. CASE UNCHANGED vars
    BY <1>6 DEF vars
  <1> QED
    BY <1>1, <1>2, <1>3, <1>4, <1>5, <1>6 DEF Next

(* Every variable keeps its range, for every depth of nesting and every    *)
(* width of the tick counter: no handler leaves the counter outside its    *)
(* word, nor in the register a value that is none of the program's.        *)
THEOREM TypeCorrect == Spec => []TypeOK
  <1>1. Init => TypeInv
    <2> SUFFICES ASSUME Init PROVE TypeInv
      OBVIOUS
    <2>1. Len(stack) = 0
      BY EmptySeq DEF Init
    <2>2. 0 \in Counts /\ MaxDepth \in Nat
      BY InterruptsAssumption DEF Counts
    <2>3. ReadcharTyped /\ eax \in Values
      BY DEF Init, B!Init, ReadcharTyped, Values
    <2>4. SetupTyped
      BY DEF Init, SetupTyped
    <2>5. StackTyped /\ TickTyped
      BY <2>1, <2>2 DEF Init, StackTyped, TickTyped
    <2> QED
      BY <2>3, <2>4, <2>5 DEF TypeInv
  <1>2. IInv /\ TypeInv => TypeOK
    <2> SUFFICES ASSUME IInv, TypeInv PROVE TypeOK
      OBVIOUS
    <2>1. \A k \in DOMAIN stack : stack[k].irq \in Irqs
      <3>1. \A k \in 1 .. Len(stack) : stack[k] \in Activations
        BY ElementOfSeq DEF IInv, Typed
      <3> QED
        BY <3>1, LenProperties DEF IInv, Typed, Activations
    <2> QED
      BY <2>1 DEF IInv, Typed, Setup, TypeInv, ReadcharTyped, SetupTyped, StackTyped,
                  TickTyped, Values, Counts, TypeOK
  <1> QED
    BY <1>1, <1>2, NextTypeInv, Invariant, BufferInvariant, TickInvariant, PTL DEF Spec
=============================================================================
