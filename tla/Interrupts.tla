----------------------------- MODULE Interrupts -----------------------------
(***************************************************************************)
(* Hardware interrupts on the one processor: how kernel_main sets them up, *)
(* the wrappers and handlers of the timer and the keyboard (timer.c,       *)
(* keyboard.c, *_wrapper.S) instruction group by instruction group, and    *)
(* the interrupted foreground, a caller of readchar.                       *)
(*                                                                         *)
(* The IDT entries are trap gates (handler_install.c), so the processor    *)
(* does not disable interrupts on entry, and what keeps a handler from     *)
(* being entered again is the interrupt controller alone.  A handler that  *)
(* has sent its acknowledgement, but has not returned, can be entered      *)
(* again; how deep that may go is only limited by MaxDepth here.           *)
(*                                                                         *)
(* The value a context works on is in a register, eax, which every context *)
(* overwrites; the wrappers save it with pusha and restore it with popa.   *)
(***************************************************************************)
EXTENDS Integers, Sequences, FiniteSets, FiniteSetsExt, SequencesExt

CONSTANTS
  SCANCODE_BUFFER_SIZE, Scancodes, Chars,   \* as in ScancodeBuffer
  TickWrap,                                 \* 2^32 in the code: numTicks wraps here
  MaxDepth                                  \* bound on nested handlers

Timer == 0
Keyboard == 1
Irqs == {Timer, Keyboard}     \* a smaller number has the higher priority

ASSUME InterruptsAssumption ==
  /\ SCANCODE_BUFFER_SIZE \in Nat /\ SCANCODE_BUFFER_SIZE > 1
  /\ Scancodes \subseteq 0 .. 255 /\ Chars \subseteq Nat
  /\ TickWrap \in Nat /\ TickWrap > 1 /\ MaxDepth \in Nat \ {0}

VARIABLES
  scancode_buffer, scancode_buffer_begin, scancode_buffer_end,
  lost, pc, sc, ret,    \* as in ScancodeBuffer
  eax,                  \* the register, readchar's taken when readchar runs
  boot,                 \* the next call of kernel_main
  idt,                  \* the interrupts that have an IDT entry
  timer_callback,       \* whether the callback is set
  iff,                  \* the processor's interrupt flag
  irr, isr,             \* the controller: requested, and in service
  kbd,                  \* the keyboard's output: its byte, and whether it is unread
  stack,                \* the handlers entered, the innermost last
  numTicks,             \* timer.c
  tick                  \* history: what the callback was last called with

bufferVars == <<scancode_buffer, scancode_buffer_end, lost>>
readcharVars == <<scancode_buffer_begin, pc, sc, ret>>
setupVars == <<boot, idt, timer_callback, iff>>
deviceVars == <<irr, isr, kbd>>
tickVars == <<numTicks, tick>>
vars == <<bufferVars, readcharVars, eax, setupVars, deviceVars, stack, tickVars>>

B == INSTANCE ScancodeBuffer WITH taken <- eax

Init ==
  /\ B!Init
  /\ boot = "timer_init"
  /\ idt = {}
  /\ timer_callback = FALSE
  /\ iff = FALSE
  /\ irr = {}
  /\ isr = {}
  /\ kbd = [byte |-> 0, unread |-> FALSE]
  /\ stack = << >>
  /\ numTicks = 0
  /\ tick = 0

-----------------------------------------------------------------------------
(* kernel_main, up to the point where interrupts are enabled.              *)

set_idt_entry(i) == idt' = idt \cup {i}

timer_init ==
  /\ boot = "timer_init"
  /\ timer_callback' = TRUE
  /\ set_idt_entry(Timer)
  /\ boot' = "keyboard_init"
  /\ UNCHANGED <<bufferVars, readcharVars, eax, iff, deviceVars, stack, tickVars>>

keyboard_init ==
  /\ boot = "keyboard_init"
  /\ set_idt_entry(Keyboard)
  /\ boot' = "enable_interrupts"
  /\ UNCHANGED <<bufferVars, readcharVars, eax, timer_callback, iff, deviceVars, stack,
                 tickVars>>

(* Mutant: interrupts are enabled before the keyboard is set up.           *)
MutantEnableEarly ==
  /\ boot \in {"keyboard_init", "enable_interrupts"}
  /\ iff' = TRUE
  /\ boot' = IF boot = "enable_interrupts" THEN "run" ELSE boot
  /\ UNCHANGED <<bufferVars, readcharVars, eax, idt, timer_callback, deviceVars, stack,
                 tickVars>>

enable_interrupts ==
  /\ boot = "enable_interrupts"
  /\ iff' = TRUE
  /\ boot' = "run"
  /\ UNCHANGED <<bufferVars, readcharVars, eax, idt, timer_callback, deviceVars, stack,
                 tickVars>>

handler_install == timer_init \/ keyboard_init
kernel_main == handler_install \/ enable_interrupts

-----------------------------------------------------------------------------
(* The devices and the controller.  A request made while interrupts are    *)
(* disabled stays pending.                                                 *)

TimerExpires ==
  /\ Timer \notin irr
  /\ irr' = irr \cup {Timer}
  /\ UNCHANGED <<bufferVars, readcharVars, eax, setupVars, isr, kbd, stack, tickVars>>

(* The keyboard presents a byte, and asks for an interrupt, when the one   *)
(* before has been read.                                                   *)
KeyArrives ==
  /\ ~kbd.unread
  /\ \E b \in Scancodes : kbd' = [byte |-> b, unread |-> TRUE]
  /\ irr' = irr \cup {Keyboard}
  /\ UNCHANGED <<bufferVars, readcharVars, eax, setupVars, isr, stack, tickVars>>

(* The controller presents the request of highest priority if it is higher *)
(* than all that is in service.                                            *)
Presented(i) == i \in irr /\ i = Min(irr) /\ \A j \in isr : i < j

Deliver(i) ==
  /\ iff
  /\ Len(stack) < MaxDepth
  /\ Presented(i)
  /\ irr' = irr \ {i}
  /\ isr' = isr \cup {i}
  /\ stack' = Append(stack, [irq |-> i, at |-> "pusha", saved |-> 0])
  /\ UNCHANGED <<bufferVars, readcharVars, eax, setupVars, kbd, tickVars>>

(* INT_ACK_CURRENT, which does not say which interrupt it acknowledges.    *)
Acknowledge == isr' = IF isr = {} THEN isr ELSE isr \ {Min(isr)}

-----------------------------------------------------------------------------
(* The innermost handler.                                                  *)

Running(i, at) ==
  /\ stack # << >>
  /\ Last(stack).irq = i
  /\ Last(stack).at = at

GoTo(at) == stack' = [stack EXCEPT ![Len(stack)].at = at]

FirstOf(i) == IF i = Timer THEN "load" ELSE "inb"

pusha(i) ==
  /\ Running(i, "pusha")
  /\ stack' = [stack EXCEPT ![Len(stack)].saved = eax, ![Len(stack)].at = FirstOf(i)]
  /\ UNCHANGED <<bufferVars, readcharVars, eax, setupVars, deviceVars, tickVars>>

(* Mutant: the timer's wrapper leaves the registers as the handler has     *)
(* them.                                                                   *)
MutantPopaForgotten(i) ==
  /\ Running(i, "popa")
  /\ eax' = IF i = Timer THEN eax ELSE Last(stack).saved
  /\ GoTo("iret")
  /\ UNCHANGED <<bufferVars, readcharVars, setupVars, deviceVars, tickVars>>

popa(i) ==
  /\ Running(i, "popa")
  /\ eax' = Last(stack).saved
  /\ GoTo("iret")
  /\ UNCHANGED <<bufferVars, readcharVars, setupVars, deviceVars, tickVars>>

(* iret: to the handler, or to the foreground, that was interrupted.       *)
iret(i) ==
  /\ Running(i, "iret")
  /\ stack' = Front(stack)
  /\ UNCHANGED <<bufferVars, readcharVars, eax, setupVars, deviceVars, tickVars>>

(* Mutant: the timer's interrupt is never acknowledged.                    *)
MutantAckForgotten(i) ==
  /\ Running(i, "ack")
  /\ IF i = Timer THEN UNCHANGED isr ELSE Acknowledge
  /\ GoTo("popa")
  /\ UNCHANGED <<bufferVars, readcharVars, eax, setupVars, irr, kbd, tickVars>>

(* The last statement of both handlers.                                    *)
outb_ack(i) ==
  /\ Running(i, "ack")
  /\ Acknowledge
  /\ GoTo("popa")
  /\ UNCHANGED <<bufferVars, readcharVars, eax, setupVars, irr, kbd, tickVars>>

(* Mutant: the handler begins with the acknowledgement.                    *)
MutantTimerAcksFirst ==
  /\ Running(Timer, "load")
  /\ eax' = (numTicks + 1) % TickWrap
  /\ Acknowledge
  /\ GoTo("store")
  /\ UNCHANGED <<bufferVars, readcharVars, setupVars, irr, kbd, tickVars>>

(* timer_interrupt_handler: numTicks++, and the callback with its value.   *)
timer_load ==
  /\ Running(Timer, "load")
  /\ eax' = (numTicks + 1) % TickWrap
  /\ GoTo("store")
  /\ UNCHANGED <<bufferVars, readcharVars, setupVars, deviceVars, tickVars>>

timer_store ==
  /\ Running(Timer, "store")
  /\ numTicks' = eax
  /\ GoTo("call")
  /\ UNCHANGED <<bufferVars, readcharVars, eax, setupVars, deviceVars, tick>>

timer_call ==
  /\ Running(Timer, "call")
  /\ tick' = numTicks
  /\ GoTo("ack")
  /\ UNCHANGED <<bufferVars, readcharVars, eax, setupVars, deviceVars, numTicks>>

(* Mutants: the acknowledgement as soon as the byte is read; the byte is   *)
(* left in the keyboard when there is no room for it.                      *)
MutantInbAcks ==
  /\ Running(Keyboard, "inb")
  /\ eax' = kbd.byte
  /\ kbd' = [kbd EXCEPT !.unread = FALSE]
  /\ Acknowledge
  /\ GoTo("test")
  /\ UNCHANGED <<bufferVars, readcharVars, setupVars, irr, tickVars>>

MutantInbOnlyWithRoom ==
  /\ Running(Keyboard, "inb")
  /\ IF B!SCANCODE_BUFFER_ISFULL
       THEN GoTo("ack") /\ UNCHANGED <<eax, kbd>>
       ELSE /\ eax' = kbd.byte
            /\ kbd' = [kbd EXCEPT !.unread = FALSE]
            /\ GoTo("test")
  /\ UNCHANGED <<bufferVars, readcharVars, setupVars, irr, isr, tickVars>>

(* keyboard_interrupt_handler, with keyb_add_scancode.                     *)
keyboard_inb ==
  /\ Running(Keyboard, "inb")
  /\ eax' = kbd.byte
  /\ kbd' = [kbd EXCEPT !.unread = FALSE]
  /\ GoTo("test")
  /\ UNCHANGED <<bufferVars, readcharVars, setupVars, irr, isr, tickVars>>

keyboard_test ==
  /\ Running(Keyboard, "test")
  /\ IF B!SCANCODE_BUFFER_ISFULL
       THEN lost' = TRUE /\ GoTo("ack")
       ELSE UNCHANGED lost /\ GoTo("slot")
  /\ UNCHANGED <<scancode_buffer, scancode_buffer_end, readcharVars, eax, setupVars,
                 deviceVars, tickVars>>

(* Mutant: the slots are signed chars.                                     *)
MutantSlotSigned ==
  /\ Running(Keyboard, "slot")
  /\ scancode_buffer' = [scancode_buffer EXCEPT ![scancode_buffer_end] = B!AsChar(eax)]
  /\ GoTo("end")
  /\ UNCHANGED <<scancode_buffer_end, lost, readcharVars, eax, setupVars, deviceVars,
                 tickVars>>

keyboard_slot ==
  /\ Running(Keyboard, "slot")
  /\ scancode_buffer' = [scancode_buffer EXCEPT ![scancode_buffer_end] =
                           B!AsUnsignedChar(B!AsChar(eax))]
  /\ GoTo("end")
  /\ UNCHANGED <<scancode_buffer_end, lost, readcharVars, eax, setupVars, deviceVars,
                 tickVars>>

keyboard_end ==
  /\ Running(Keyboard, "end")
  /\ scancode_buffer_end' = B!SCANCODE_BUFFER_NEXTLOC(scancode_buffer_end)
  /\ lost' = FALSE
  /\ GoTo("ack")
  /\ UNCHANGED <<scancode_buffer, readcharVars, eax, setupVars, deviceVars, tickVars>>

Handler ==
  \/ \E i \in Irqs : pusha(i) \/ popa(i) \/ iret(i) \/ outb_ack(i)
  \/ timer_load \/ timer_store \/ timer_call
  \/ keyboard_inb \/ keyboard_test \/ keyboard_slot \/ keyboard_end

-----------------------------------------------------------------------------
(* The foreground: readchar, step by step, when no handler runs.           *)
readchar ==
  /\ boot = "run"
  /\ stack = << >>
  /\ B!readchar
  /\ UNCHANGED <<setupVars, deviceVars, stack, tickVars>>

Next ==
  \/ kernel_main
  \/ TimerExpires \/ KeyArrives \/ \E i \in Irqs : Deliver(i)
  \/ Handler
  \/ readchar

Spec == Init /\ [][Next]_vars

(* A handler takes microseconds and the timer expires every ten            *)
(* milliseconds: again and again all handlers are through before it        *)
(* expires anew, and then a keyboard that has asked is heard.              *)
HandlersAreShort == []<>(stack = << >> /\ Timer \notin irr)
FairSpec ==
  Spec /\ WF_vars(kernel_main) /\ SF_vars(Deliver(Keyboard)) /\ HandlersAreShort

-----------------------------------------------------------------------------
(* Properties.                                                             *)

TypeOK ==
  /\ scancode_buffer \in [B!Slots -> B!Bytes]
  /\ scancode_buffer_begin \in B!Slots /\ scancode_buffer_end \in B!Slots
  /\ lost \in BOOLEAN /\ pc \in {"idle", "load", "advance", "process"}
  /\ sc \in B!Bytes \cup {-1} /\ ret \in Chars \cup {-1}
  /\ eax \in B!Bytes \cup {-1} \cup 0 .. TickWrap - 1
  /\ boot \in {"timer_init", "keyboard_init", "enable_interrupts", "run"}
  /\ idt \subseteq Irqs /\ timer_callback \in BOOLEAN /\ iff \in BOOLEAN
  /\ irr \subseteq Irqs /\ isr \subseteq Irqs
  /\ kbd \in [byte : B!Bytes, unread : BOOLEAN]
  /\ \A k \in DOMAIN stack : stack[k].irq \in Irqs
  /\ Len(stack) <= MaxDepth
  /\ numTicks \in 0 .. TickWrap - 1 /\ tick \in 0 .. TickWrap - 1

(* No interrupt is taken before its IDT entry, and the callback it calls,  *)
(* are in place.                                                           *)
EntriesReady ==
  \A k \in DOMAIN stack :
    stack[k].irq \in idt /\ (stack[k].irq = Timer => timer_callback)

Unacknowledged(i) ==
  {k \in DOMAIN stack : stack[k].irq = i /\ stack[k].at \notin {"popa", "iret"}}

(* The acknowledgement names no interrupt, yet each handler acknowledges   *)
(* its own: an interrupt is in service exactly while one activation of its *)
(* handler, and never two, has yet to acknowledge it.  So no two           *)
(* activations of keyb_add_scancode, or of numTicks++, are ever open at    *)
(* the same time, although handlers interrupt each other and themselves.   *)
OneInService ==
  \A i \in Irqs : Cardinality(Unacknowledged(i)) = (IF i \in isr THEN 1 ELSE 0)

(* A byte waits in the keyboard exactly when the controller, or a handler  *)
(* that has yet to read it, knows: no byte is read twice, and none is      *)
(* forgotten, after which the keyboard would be silent for ever.           *)
ByteOwed ==
  Cardinality({k \in DOMAIN stack : stack[k].irq = Keyboard /\ stack[k].at \in {"pusha", "inb"}})
    + (IF Keyboard \in irr THEN 1 ELSE 0)
  = (IF kbd.unread THEN 1 ELSE 0)

(* The callback is called with 1, 2, 3 ..., each number once and in order. *)
TicksInOrder == [][timer_call => tick' = (tick + 1) % TickWrap]_vars

(* However the handlers nest, and wherever they interrupt readchar, the    *)
(* buffer they share is a queue of scancodes.                              *)
Queue == INSTANCE ScancodeQueue
           WITH queue <- B!Contents, got <- sc, Codes <- Scancodes,
                Capacity <- SCANCODE_BUFFER_SIZE - 1, Empty <- -1
ImplementsScancodeQueue == Queue!Spec

(* Every byte of the keyboard is read in the end.                          *)
KeyRead == kbd.unread ~> ~kbd.unread
=============================================================================
