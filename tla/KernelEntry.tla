----------------------------- MODULE KernelEntry -----------------------------
(***************************************************************************)
(* How the processor enters and leaves the kernel: do_task_switch, the     *)
(* gates of the IDT, and the wrappers of interrupts, exceptions and the    *)
(* one system call, run instruction by instruction below a program that    *)
(* calls the user library and raises exceptions.                           *)
(*                                                                         *)
(* A word is a pair of its kind and a number, so that an address, a        *)
(* selector or an argument taken for one another is noticed.  A stack is   *)
(* the sequence of its words, and an address in it is the number of words  *)
(* up to there.  A C function is one step that overwrites eax, ecx and     *)
(* edx.  Interrupts may come at any time, nested to MaxDepth; which of     *)
(* them the controller lets through is the subject of Interrupts.          *)
(***************************************************************************)
EXTENDS UserLib, FiniteSets

CONSTANTS
  Stubs,                 \* the functions of the user library the program calls
  Faults,                \* the exceptions it raises
  Tid,                   \* idle_task.thread.id
  KernelWords,           \* words of the kernel stack
  MaxDepth               \* bound on nested interrupts

Stacks == {"boot", "user", "kernel"}
CalleeSaved == {"ebx", "esi", "edi", "ebp"}
Segments == {"ds", "es", "fs", "gs"}
Registers == CalleeSaved \cup {"eax", "ecx", "edx"} \cup Segments

(* The vectors for which the processor pushes an error code.               *)
ErrorCodes == {8, 10, 11, 12, 13, 14, 17}
GeneralProtection == 13
Timer == 32
Keyboard == 33

ASSUME KernelEntryAssumption ==
  /\ Stubs \subseteq {gettid, fork, vanish, set_status, wait, exec, print, readline,
                      new_pages, set_cursor_pos, get_cursor_pos, ls}
  /\ Faults \subseteq 0 .. 19 \ {15}
  /\ Tid \in Nat /\ KernelWords \in Nat /\ MaxDepth \in Nat

VARIABLES
  pc,                    \* <<the code, the instruction>>
  regs,
  on,                    \* the stack in use: the processor is in user mode on "user"
  iff,                   \* the interrupt flag
  stack,
  trail,                 \* history: the contexts interrupted, the innermost last
  call,                  \* history: the library call the program is in
  down                   \* the machine has been reset

vars == <<pc, regs, on, iff, stack, trail, call, down>>

-----------------------------------------------------------------------------
(* The kernel's code.                                                      *)

(* do_task_switch: SS, SP, EFL, CS and EIP from the arguments to the stack, *)
(* DS to the segment registers.                                            *)
FrameWord(offset) ==
  << <<"set", offset, "ebx">>, <<"load", "ebx", "eax">>, <<"push", "eax">> >>
Segment(seg) == << <<"set", 6, "ebx">>, <<"load", "ebx", seg>> >>
BuildFrame == << <<"mov", "esp", "ebp">> >> \o FrameWord(5) \o FrameWord(4)
                \o FrameWord(3) \o FrameWord(2) \o FrameWord(1)

(* Mutant: gs is forgotten.                                                *)
MutantTaskSwitch ==
  BuildFrame \o Segment("ds") \o Segment("es") \o Segment("fs") \o << <<"iret">> >>

do_task_switch ==
  BuildFrame \o Segment("ds") \o Segment("es") \o Segment("fs") \o Segment("gs")
    \o << <<"iret">> >>

gettid_wrapper ==
  << <<"push", "ebp">>, <<"mov", "esp", "ebp">>,
     <<"push", "ebx">>, <<"push", "edi">>, <<"push", "esi">>,
     <<"ccall", "sys_gettid">>,
     <<"pop", "esi">>, <<"pop", "edi">>, <<"pop", "ebx">>, <<"pop", "ebp">>, <<"iret">> >>

(* Mutant: only eax is saved.                                              *)
MutantTimerWrapper ==
  << <<"push", "eax">>, <<"ccall", "timer_interrupt_handler">>, <<"pop", "eax">>, <<"iret">> >>

timer_wrapper ==
  << <<"pusha">>, <<"ccall", "timer_interrupt_handler">>, <<"popa">>, <<"iret">> >>

keyboard_wrapper ==
  << <<"pusha">>, <<"ccall", "keyboard_interrupt_handler">>, <<"popa">>, <<"iret">> >>

(* Mutant: the error code is dropped before iret, as the others do not     *)
(* need.                                                                   *)
MutantExceptionWrapper ==
  << <<"mov", "esp", "ebp">>, <<"pusha">>, <<"load0", "ebx">>, <<"push", "ebx">>,
     <<"ccall", "exception_handler">>, <<"pop", "ebx">>, <<"popa">>, <<"pop", "ebp">>,
     <<"iret">> >>

(* DEFINE_EXCEPTION_WRAPPER, whose load is from the word ebp points to.    *)
exception_wrapper ==
  << <<"mov", "esp", "ebp">>, <<"pusha">>, <<"load0", "ebx">>, <<"push", "ebx">>,
     <<"ccall", "exception_handler">>, <<"pop", "ebx">>, <<"popa">>, <<"iret">> >>

Code == [do_task_switch |-> do_task_switch, gettid_wrapper |-> gettid_wrapper,
         timer_wrapper |-> timer_wrapper, keyboard_wrapper |-> keyboard_wrapper,
         exception_wrapper |-> exception_wrapper, syscall_wrapper |-> syscall_wrapper]

-----------------------------------------------------------------------------
(* The IDT.  An interrupt gate masks interrupts, a trap gate does not; int *)
(* may only use a gate whose dpl is not below the processor's ring.        *)

(* Mutant: the system call's gate is the kernel's.                         *)
MutantSyscallEntry(handler) == [handler |-> handler, masks |-> FALSE, dpl |-> 0]

set_exception_entry(handler) == [handler |-> handler, masks |-> TRUE, dpl |-> 0]
set_syscall_entry(handler) == [handler |-> handler, masks |-> FALSE, dpl |-> 3]
set_idt_entry(handler) == [handler |-> handler, masks |-> FALSE, dpl |-> 0]

(* Mutant: the table is one entry short.                                   *)
MutantExceptionWrappers(i) == IF i = 14 THEN "NULL" ELSE "exception_wrapper"

(* All ten wrappers are the one macro, and all ten handlers only report.   *)
exception_wrappers(i) == IF i = 15 THEN "NULL" ELSE "exception_wrapper"
exceptions_init == [i \in 0 .. 19 |-> set_exception_entry(exception_wrappers(i))]
syscall_init == set_syscall_entry("gettid_wrapper")
handler_install ==
  [i \in 0 .. 19 \cup {Timer, Keyboard} |->
     IF i \in 0 .. 19 THEN exceptions_init[i]
     ELSE set_idt_entry(IF i = Timer THEN "timer_wrapper" ELSE "keyboard_wrapper")]
idt == [i \in DOMAIN handler_install \cup {GETTID_INT} |->
          IF i = GETTID_INT THEN syscall_init ELSE handler_install[i]]

-----------------------------------------------------------------------------
Junk == <<"junk", 0>>
NoCall == [num |-> 0, pushed |-> 0, saved |-> [r \in CalleeSaved |-> Junk]]

(* thread_switch's call of do_task_switch, with what thread_create and     *)
(* vmm_task_init put in the thread and the task.                           *)
thread_switch ==
  << <<"ds", 3>>, <<"ds", 3>>, <<"user", 0>>, <<"eflags", 1>>, <<"cs", 3>>, <<"app", 0>>,
     <<"thread_switch", 1>> >>

Init ==
  /\ pc = <<"do_task_switch", 1>>
  /\ regs = [r \in Registers |-> IF r \in Segments THEN <<"ds", 0>> ELSE Junk]
  /\ on = "boot"
  /\ iff = TRUE
  /\ stack = [boot |-> thread_switch, user |-> << >>, kernel |-> << >>]
  /\ trail = << >>
  /\ call = NoCall
  /\ down = FALSE

-----------------------------------------------------------------------------
(* The processor.                                                          *)

User == on = "user"
Top == stack[on]
esp == <<on, Len(Top)>>
Reg(r) == IF r = "esp" THEN esp ELSE regs[r]
At(addr) ==
  IF addr[1] \in Stacks /\ addr[2] \in DOMAIN stack[addr[1]] THEN stack[addr[1]][addr[2]]
                                                             ELSE Junk

(* A write below the kernel stack is a page fault, which cannot be         *)
(* delivered to that stack either, nor can the double fault: the processor *)
(* shuts down.                                                             *)
Store(s, words) ==
  IF s = "kernel" /\ Len(words) > KernelWords
    THEN down' = TRUE /\ UNCHANGED stack
    ELSE stack' = [stack EXCEPT ![s] = words] /\ UNCHANGED down

Eip == IF pc[1] = "table" THEN <<"table", pc[2] + 2>> ELSE <<pc[1], pc[2] + 1>>

(* Interrupt, exception or int: from user mode to the stack at esp0.       *)
Enter(vector, eip) ==
  /\ Store(IF User THEN "kernel" ELSE on,
           (IF User THEN << <<"ds", 3>>, esp>> ELSE Top)
             \o << <<"eflags", IF iff THEN 1 ELSE 0>>, <<"cs", IF User THEN 3 ELSE 0>>, eip>>
             \o (IF vector \in ErrorCodes THEN << <<"error", vector>> >> ELSE << >>))
  /\ on' = IF User THEN "kernel" ELSE on
  /\ iff' = (iff /\ ~idt[vector].masks)
  /\ pc' = <<idt[vector].handler, 1>>
  /\ trail' = Append(trail, [vector |-> vector, pc |-> eip, regs |-> regs, on |-> on,
                             iff |-> iff, below |-> Top])
  /\ UNCHANGED <<regs, call>>

Interrupts == {k \in DOMAIN trail : trail[k].vector \in {Timer, Keyboard}}

Interrupt(i) ==
  /\ ~down /\ iff /\ Cardinality(Interrupts) < MaxDepth
  /\ Enter(i, pc)

-----------------------------------------------------------------------------
(* The instructions.                                                       *)

Running == ~down /\ (pc[1] = "table" \/ pc[1] \in DOMAIN Code)
Instr == IF pc[1] = "table" THEN syscall_int_table(pc[2]) ELSE Code[pc[1]][pc[2]]
Is(name) == Running /\ Instr[1] = name

Push(words) == Store(on, Top \o words)
Pop(n) == stack' = [stack EXCEPT ![on] = SubSeq(Top, 1, Len(Top) - n)] /\ UNCHANGED down

Indexed(r) == <<regs.ebp[1], regs.ebp[2] - regs[r][2]>>

(* The instructions that only write a register.                            *)
Loaded ==
  CASE Instr[1] = "set" -> <<"int", Instr[2]>>
    [] Instr[1] = "lea" -> Indexed(Instr[2])
    [] Instr[1] = "load" -> At(Indexed(Instr[2]))
    [] Instr[1] = "load0" -> At(regs.ebp)
    [] Instr[1] = "mov" -> Reg(Instr[2])

load ==
  /\ Running
  /\ Instr[1] \in {"set", "lea", "load", "load0", "mov"} /\ Last(Instr) # "esp"
  /\ regs' = [regs EXCEPT ![Last(Instr)] = Loaded]
  /\ pc' = Eip
  /\ UNCHANGED <<on, iff, stack, trail, call, down>>

restore_esp ==
  /\ Is("mov") /\ Instr[3] = "esp"
  /\ Pop(Len(Top) - regs.ebp[2])
  /\ pc' = Eip
  /\ UNCHANGED <<regs, on, iff, trail, call>>

push ==
  /\ Is("push")
  /\ Push(<<regs[Instr[2]]>>)
  /\ pc' = Eip
  /\ UNCHANGED <<regs, on, iff, trail, call>>

pop ==
  /\ Is("pop")
  /\ regs' = [regs EXCEPT ![Instr[2]] = Last(Top)]
  /\ Pop(1)
  /\ pc' = Eip
  /\ UNCHANGED <<on, iff, trail, call>>

AllRegisters == <<"eax", "ecx", "edx", "ebx", "esp", "ebp", "esi", "edi">>

pusha ==
  /\ Is("pusha")
  /\ Push([k \in 1 .. 8 |-> Reg(AllRegisters[k])])
  /\ pc' = Eip
  /\ UNCHANGED <<regs, on, iff, trail, call>>

popa ==
  /\ Is("popa")
  /\ regs' = [r \in Registers |->
                IF \E k \in 1 .. 8 : AllRegisters[k] = r
                  THEN Top[Len(Top) - 8 + CHOOSE k \in 1 .. 8 : AllRegisters[k] = r]
                  ELSE regs[r]]
  /\ Pop(8)
  /\ pc' = Eip
  /\ UNCHANGED <<on, iff, trail, call>>

jump ==
  /\ Is("jmp") \/ Is("jeq")
  /\ pc' = IF Instr[1] = "jmp" THEN <<"syscall_wrapper", Instr[2]>>
           ELSE IF regs[Instr[3]] = <<"int", Instr[2]>> THEN <<"syscall_wrapper", Instr[4]>>
           ELSE Eip
  /\ UNCHANGED <<regs, on, iff, stack, trail, call, down>>

lookup ==
  /\ Is("lookup")
  /\ LET k == regs.ecx[2] - SYSCALL_INT
     IN  regs' = [regs EXCEPT !.ecx = <<"int", k>>, !.ebx = <<"table", 0>>,
                              !.edx = <<"int", 0>>,
                              !.eax = <<"table", INT_TABLE_ENTRY_SIZE * k>>]
  /\ pc' = Eip
  /\ UNCHANGED <<on, iff, stack, trail, call, down>>

jump_register ==
  /\ Is("jmpreg")
  /\ pc' = regs[Instr[2]]
  /\ UNCHANGED <<regs, on, iff, stack, trail, call, down>>

ret ==
  /\ Is("ret")
  /\ pc' = Last(Top)
  /\ Pop(1)
  /\ UNCHANGED <<regs, on, iff, trail, call>>

Clobbered(eax) == [regs EXCEPT !.eax = eax, !.ecx = Junk, !.edx = Junk]

(* sched_get_current_thread()->id.                                         *)
sys_gettid == <<"int", Tid>>

ccall ==
  /\ Is("ccall")
  /\ regs' = Clobbered(IF Instr[2] = "sys_gettid" THEN sys_gettid ELSE Junk)
  /\ pc' = Eip
  /\ UNCHANGED <<on, iff, stack, trail, call, down>>

int ==
  /\ Is("int")
  /\ IF Instr[2] \in DOMAIN idt /\ (User => idt[Instr[2]].dpl = 3)
       THEN Enter(Instr[2], Eip)
       ELSE Enter(GeneralProtection, pc)

(* iret: a code selector that is none is a general protection fault; on    *)
(* the way out the processor clears segments of the kernel.                *)
iret ==
  LET n == Len(Top)
      out == Top[n - 1] = <<"cs", 3>>
  IN  /\ Is("iret")
      /\ IF Top[n - 1] \notin {<<"cs", 0>>, <<"cs", 3>>}
           THEN Enter(GeneralProtection, pc)
           ELSE /\ pc' = Top[n]
                /\ iff' = (Top[n - 2] = <<"eflags", 1>>)
                /\ on' = IF out THEN Top[n - 3][1] ELSE on
                /\ Pop(IF out THEN 5 ELSE 3)
                /\ regs' = IF out THEN [r \in Registers |-> IF regs[r] = <<"ds", 0>>
                                                              THEN Junk ELSE regs[r]]
                                  ELSE regs
                /\ trail' = IF trail = << >> THEN trail ELSE Front(trail)
                /\ UNCHANGED call

Exec == load \/ restore_esp \/ push \/ pop \/ pusha \/ popa \/ jump \/ lookup
          \/ jump_register \/ ret \/ ccall \/ int \/ iret

-----------------------------------------------------------------------------
(* The program: compiled code, which keeps values in the registers that a  *)
(* function preserves.                                                     *)

begin ==
  /\ ~down /\ pc = <<"app", 0>>
  /\ regs' = [r \in Registers |-> CASE r \in Segments -> regs[r]
                                    [] r \in CalleeSaved -> <<r, 1>>
                                    [] OTHER -> Junk]
  /\ pc' = <<"app", 1>>
  /\ UNCHANGED <<on, iff, stack, trail, call, down>>

(* A stub pushes its arguments, their number and the interrupt's number,   *)
(* and calls syscall_wrapper.                                              *)
call_stub(s) ==
  /\ ~down /\ pc = <<"app", 1>>
  /\ Push([i \in 1 .. s.pushed |-> <<"arg", s.pushed + 1 - i>>]
            \o << <<"int", s.arg_num>>, <<"int", s.num>>, <<"stub", 1>> >>)
  /\ regs' = Clobbered(Junk)
  /\ call' = [num |-> s.num, pushed |-> s.pushed,
              saved |-> [r \in CalleeSaved |-> regs[r]]]
  /\ pc' = <<"syscall_wrapper", 1>>
  /\ UNCHANGED <<on, iff, trail>>

(* It drops them and returns what is in eax.                               *)
stub_returns ==
  /\ ~down /\ pc = <<"stub", 1>>
  /\ Pop(call.pushed + 2)
  /\ regs' = Clobbered(regs.eax)
  /\ call' = NoCall
  /\ pc' = <<"app", 1>>
  /\ UNCHANGED <<on, iff, trail>>

(* The exceptions 3 and 4 are raised by instructions, int3 and into, which *)
(* are subject to the gate's dpl as int is.                                *)
Delivered(v) == IF v \in {3, 4} /\ idt[v].dpl # 3 THEN GeneralProtection ELSE v
raise(v) ==
  /\ ~down /\ pc = <<"app", 1>>
  /\ Enter(Delivered(v), pc)

Program == begin \/ (\E s \in Stubs : call_stub(s)) \/ stub_returns \/ (\E v \in Faults : raise(v))

Next == Exec \/ Program \/ \E i \in {Timer, Keyboard} : Interrupt(i)

Spec == Init /\ [][Next]_vars

(* What runs executes its next instruction; the program need not call      *)
(* anything.  Handlers are shorter than the time between interrupts, so    *)
(* again and again none of them is active, and what they interrupted       *)
(* executes an instruction.                                                *)
Step == Exec \/ begin \/ stub_returns
Undisturbed == Interrupts = {}
HandlersAreShort == []<>Undisturbed
FairSpec == Spec /\ WF_vars(Step) /\ SF_vars(Step /\ Undisturbed) /\ HandlersAreShort

-----------------------------------------------------------------------------
(* Properties.                                                             *)

Kinds == Stacks \cup CalleeSaved \cup DOMAIN Code \cup
  {"junk", "int", "ds", "cs", "eflags", "error", "arg", "table", "app", "stub", "thread_switch"}
IsWord(w) == w[1] \in Kinds /\ w[2] \in Int

TypeOK ==
  /\ IsWord(pc)
  /\ DOMAIN regs = Registers /\ \A r \in Registers : IsWord(regs[r])
  /\ on \in Stacks /\ iff \in BOOLEAN /\ down \in BOOLEAN
  /\ DOMAIN stack = Stacks /\ \A s \in Stacks : \A k \in DOMAIN stack[s] : IsWord(stack[s][k])
  /\ Len(stack.kernel) <= KernelWords
  /\ \A k \in DOMAIN trail : trail[k].vector \in DOMAIN idt

(* The registers that survive what interrupted the context c.  The         *)
(* exception wrappers overwrite ebp before they save it.                   *)
Survive(vector) ==
  CASE vector \in {Timer, Keyboard} -> Registers
    [] vector = GETTID_INT -> Registers \ {"eax", "ecx", "edx"}
    [] OTHER -> Registers \ {"ebp"}

(* A context that was interrupted goes on where it was, on its own stack   *)
(* with all that was on it, with its interrupt flag and its registers,     *)
(* however deep the handlers nested.                                       *)
Resumes ==
  [][Len(trail') < Len(trail) =>
       LET c == Last(trail)
       IN  /\ pc' = c.pc /\ on' = c.on /\ iff' = c.iff /\ stack'[c.on] = c.below
           /\ \A r \in Survive(c.vector) : regs'[r] = c.regs[r]]_vars

(* The system call finds its argument in esi: nothing, the argument, or    *)
(* the address of a packet that holds all of them.                         *)
ArgumentsInEsi ==
  pc = <<"gettid_wrapper", 1>> =>
    CASE call.pushed = 0 -> regs.esi = <<"int", 0>>
      [] call.pushed = 1 -> regs.esi = <<"arg", 1>>
      [] OTHER -> \A i \in 1 .. call.pushed :
                    At(<<regs.esi[1], regs.esi[2] - (i - 1)>>) = <<"arg", i>>

(* The program runs with its own segments and with interrupts enabled,     *)
(* and whatever happened before, it finds the kernel stack empty.          *)
UserMode ==
  User => /\ \A s \in Segments : regs[s] = <<"ds", 3>>
          /\ iff /\ trail = << >> /\ stack.kernel = << >>

(* syscall_wrapper.S pads its table "to ensure table addressing works":    *)
(* what it jumps to is the entry of the interrupt that was asked for.      *)
TableAddressing ==
  (Is("jmpreg") /\ pc[1] = "syscall_wrapper") => regs.eax = <<"table", EntryOffset(regs.ecx[2])>>

(* What the program sees is SystemCalls: below all handlers the program,   *)
(* or the call it is in, has the registers and the result it promises.     *)
Outer == IF trail = << >> THEN [pc |-> pc, regs |-> regs] ELSE trail[1]
Phase ==
  IF down THEN "down"
  ELSE IF Outer.pc = <<"app", 1>> THEN "app"
  ELSE IF call.num # 0 THEN "call"
  ELSE "boot"
Visible == [r \in CalleeSaved |-> IF Phase = "call" THEN call.saved[r] ELSE Outer.regs[r]]
Promise == INSTANCE SystemCalls
             WITH Registers <- CalleeSaved, FramePointer <- "ebp",
                  Implemented <- {GETTID_INT}, Numbers <- {s.num : s \in Stubs},
                  ThreadId <- sys_gettid, phase <- Phase, number <- call.num,
                  kept <- IF Phase \in {"app", "call"} THEN Visible ELSE << >>,
                  result <- IF Phase = "app" THEN Outer.regs.eax ELSE Junk
ImplementsSystemCalls == Promise!Spec

(* A call that is implemented returns.                                     *)
CallReturns == call.num = GETTID_INT ~> call.num = 0

(* An exception with an error code ends the machine: the wrapper returns   *)
(* to the error code, which faults again until the kernel stack is full.   *)
FaultShutsDown == (\E k \in DOMAIN trail : trail[k].vector \in ErrorCodes) ~> down
=============================================================================
