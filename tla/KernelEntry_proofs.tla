------------------------- MODULE KernelEntry_proofs -------------------------
(***************************************************************************)
(* Proofs about KernelEntry: for every program, every choice of its calls  *)
(* and exceptions, every size of the kernel stack and every nesting of     *)
(* interrupts.                                                             *)
(*                                                                         *)
(* The properties speak of what is left when a handler returns or a call   *)
(* comes to the kernel; the inductive invariant says what must hold before *)
(* every instruction for that to come out.  It describes the machine as a  *)
(* pile of contexts: at the bottom do_task_switch, or the program and the  *)
(* library function it is in; above it, one for each entry of trail, a     *)
(* handler that interrupted the context below.  Of each it states the      *)
(* discipline of its code (Active): the words above its frame are the      *)
(* registers it has pushed, as they were when it was entered, and those it *)
(* has not overwritten since still hold what they held.  The frame itself  *)
(* (Frame) is the context below, word for word.                            *)
(*                                                                         *)
(* Only the topmost context moves, so a step is one instruction of one     *)
(* piece of code, or a frame that is put on top, or the topmost that goes. *)
(* The lemmas follow that: first the discipline under each kind of         *)
(* instruction, then the tables of the code, then each piece of code, then *)
(* what comes and goes.  The last part, on that invariant and a second one *)
(* (AInv), shows that KernelEntry implements SystemCalls.                  *)
(***************************************************************************)
EXTENDS KernelEntry, SequenceTheorems, FiniteSetTheorems, TLAPS

-----------------------------------------------------------------------------
(* The inductive invariant.                                                *)

Vectors == (0 .. 19) \cup {Timer, Keyboard, GETTID_INT}
Words == Kinds \X Int
Files == [Registers -> Words]
Places == (DOMAIN Code \cup {"table", "app", "stub"}) \X Int
Records == [vector : Vectors, pc : Places, regs : Files, on : Stacks, iff : BOOLEAN,
            below : Seq(Words)]
Calls == [num : Nat, pushed : Nat, saved : [CalleeSaved -> Words]]

TypeInv ==
  /\ pc \in Places
  /\ regs \in Files
  /\ on \in Stacks /\ iff \in BOOLEAN /\ down \in BOOLEAN
  /\ stack \in [Stacks -> Seq(Words)]
  /\ Len(stack.kernel) <= KernelWords
  /\ trail \in Seq(Records)
  /\ call \in Calls

(* The discipline of the code.  Before instruction i of the code h, what   *)
(* it has pushed are the first Depth(h, i) of the registers in Order(h),   *)
(* as they were when it was entered, and the registers in Same(h, i) still *)
(* hold what they held then.                                               *)
Order(h) ==
  CASE h = "gettid_wrapper" -> <<"ebp", "ebx", "edi", "esi">>
    [] h = "syscall_wrapper" -> <<"ebp", "edi", "ebx", "esi">>
    [] OTHER -> <<"eax", "ecx", "edx", "ebx", "esp", "ebp", "esi", "edi", "error code">>

Depth(h, i) ==
  CASE h = "gettid_wrapper" ->
         (CASE i \in {2, 3} -> 1 [] i = 4 -> 2 [] i = 5 -> 3 [] i \in {6, 7} -> 4
            [] i = 8 -> 3 [] i = 9 -> 2 [] i = 10 -> 1 [] OTHER -> 0)
    [] h = "syscall_wrapper" ->
         (CASE i \in {2, 3} -> 1 [] i = 4 -> 2 [] i = 5 -> 3 [] i \in 6 .. 20 -> 4
            [] i = 21 -> 3 [] i = 22 -> 2 [] i \in {23, 24} -> 1 [] OTHER -> 0)
    [] h = "exception_wrapper" ->
         (CASE i \in {3, 4, 7} -> 8 [] i \in {5, 6} -> 9 [] OTHER -> 0)
    [] OTHER -> IF i \in {2, 3} THEN 8 ELSE 0

Scratch == {"eax", "ecx", "edx"}
Same(h, i) ==
  CASE h = "gettid_wrapper" ->
         (Registers \ Scratch) \ (IF i \in 3 .. 10 THEN {"ebp"} ELSE {})
    [] h = "syscall_wrapper" ->
         {"edi"} \cup (IF i \in {1, 2, 25} THEN {"ebp"} ELSE {})
                 \cup (IF i \in 7 .. 21 THEN {} ELSE {"ebx"})
                 \cup (IF i \in 6 .. 20 THEN {} ELSE {"esi"})
    [] h = "exception_wrapper" ->
         (Registers \ {"ebp"}) \ (CASE i \in {4, 5} -> {"ebx"}
                                    [] i \in {6, 7} -> Scratch \cup {"ebx"}
                                    [] OTHER -> {})
    [] OTHER -> IF i = 3 THEN Registers \ Scratch ELSE Registers

(* The code h, entered with f on its stack and the registers v, is before  *)
(* instruction i, with s on its stack and the registers r.                 *)
Active(h, i, f, v, s, r) ==
  /\ Len(s) = Len(f) + Depth(h, i)
  /\ \A k \in 1 .. Len(f) : s[k] = f[k]
  /\ \A j \in 1 .. Depth(h, i) : Order(h)[j] \in DOMAIN v => s[Len(f) + j] = v[Order(h)[j]]
  /\ \A x \in Same(h, i) \cap DOMAIN v : r[x] = v[x]

(* A handler that interrupted the context c, and the context d in it.      *)
Frame(c) ==
  (IF c.on = "user" THEN << <<"ds", 3>>, <<"user", Len(c.below)>> >> ELSE c.below)
    \o << <<"eflags", IF c.iff THEN 1 ELSE 0>>, <<"cs", IF c.on = "user" THEN 3 ELSE 0>>, c.pc >>
    \o (IF c.vector \in ErrorCodes THEN << <<"error", c.vector>> >> ELSE << >>)

Raised(c) ==
  CASE c.vector = GETTID_INT -> c.on = "user" /\ c.pc[1] = "table"
    [] c.vector \in {Timer, Keyboard} \cup ErrorCodes -> TRUE
    [] OTHER -> c.vector # 15 /\ c.on = "user" /\ c.pc = <<"app", 1>>

Length(h) ==
  CASE h = "gettid_wrapper" -> 11 [] h = "exception_wrapper" -> 8 [] OTHER -> 4

Kept(c) == [x \in Survive(c.vector) |-> c.regs[x]]

Handler(c, d) ==
  LET h == idt[c.vector].handler
      i == d.pc[2]
  IN  /\ Raised(c)
      /\ d.on = IF c.on = "user" THEN "kernel" ELSE c.on
      /\ d.pc[1] = h /\ i \in 1 .. Length(h)
      /\ Active(h, i, Frame(c), Kept(c), d.below, d.regs)
      /\ (h = "gettid_wrapper" /\ i >= 7) => d.regs.eax = sys_gettid

(* The context c of the program, or of the library function it called: q   *)
(* is the call.                                                            *)
CallFrame(q) ==
  [k \in 1 .. q.pushed |-> <<"arg", q.pushed + 1 - k>>]
    \o << <<"int", q.pushed>>, <<"int", q.num>>, <<"stub", 1>> >>

EsiOK(q, r) ==
  CASE q.pushed = 0 -> r.esi = <<"int", 0>>
    [] q.pushed = 1 -> r.esi = <<"arg", 1>>
    [] OTHER -> r.esi = <<"user", q.pushed>>

InApp(c, q) == c.pc \in {<<"app", 0>>, <<"app", 1>>} /\ c.below = << >> /\ q = NoCall
InStub(c, q) ==
  c.pc = <<"stub", 1>> /\ Len(c.below) = q.pushed + 2
  /\ \A x \in CalleeSaved : c.regs[x] = q.saved[x]

(* What the instructions of syscall_wrapper that select the arguments have *)
(* in the registers before instruction i.                                  *)
Selecting(i, q, r) ==
  /\ i \in 3 .. 24 => r.ebp = <<"user", q.pushed + 4>>
  /\ i = 7 => r.ebx = <<"int", INT_NUM_OFFSET>>
  /\ i = 9 => r.ebx = <<"int", ARG_NUM_OFFSET>>
  /\ i \in {11, 12, 13, 17} => r.ebx = <<"int", ARG_PKT_OFFSET>>
  /\ i \in 8 .. 18 => r.ecx = <<"int", q.num>>
  /\ i \in 10 .. 12 => r.edx = <<"int", q.pushed>>
  /\ i \in {12, 13} => q.pushed # 1
  /\ i = 13 => q.pushed # 0
  /\ i = 15 => q.pushed = 0
  /\ i = 17 => q.pushed = 1
  /\ i \in {14, 16, 18, 19} => EsiOK(q, r)
  /\ i = 19 => r.eax = <<"table", INT_TABLE_ENTRY_SIZE * (q.num - SYSCALL_INT)>>

WrapperAt(i, c, q) ==
  /\ Active("syscall_wrapper", i, CallFrame(q), q.saved, c.below, c.regs)
  /\ Selecting(i, q, c.regs)

InWrapper(c, q) ==
  \/ c.pc[1] = "syscall_wrapper" /\ c.pc[2] \in 1 .. 25 /\ WrapperAt(c.pc[2], c, q)
  \/ c.pc[1] = "table" /\ EsiOK(q, c.regs) /\ WrapperAt(20, c, q)

Clean(w) == w # <<"ds", 0>>
UserAt(c, q) ==
  /\ c.on = "user" /\ c.iff
  /\ \A x \in Segments : c.regs[x] = <<"ds", 3>>
  /\ \A x \in Registers : Clean(c.regs[x])
  /\ \A k \in 1 .. Len(c.below) : Clean(c.below[k])
  /\ InApp(c, q) \/ (q.num # 0 /\ (InStub(c, q) \/ InWrapper(c, q)))

(* do_task_switch has pushed BootDepth(i) words before its instruction i.  *)
BootDepth(i) == IF i > 16 THEN 5 ELSE IF i = 1 THEN 0 ELSE (i - 2) \div 3
BootStack(s, n) ==
  /\ Len(s) = 7 + n
  /\ \A k \in 1 .. 7 : s[k] = thread_switch[k]
  /\ \A k \in 1 .. n : s[7 + k] = thread_switch[1 + k]
BootRegs(i, r) ==
  /\ i > 1 => r.ebp = <<"boot", 7>>
  /\ \A m \in 0 .. 4 : /\ i = 3 + 3 * m => r.ebx = <<"int", 5 - m>>
                       /\ i = 4 + 3 * m => r.eax = thread_switch[2 + m]
  /\ i \in {18, 20, 22, 24} => r.ebx = <<"int", 6>>
  /\ i > 18 => r.ds = <<"ds", 3>>
  /\ i > 20 => r.es = <<"ds", 3>>
  /\ i > 22 => r.fs = <<"ds", 3>>
  /\ i > 24 => r.gs = <<"ds", 3>>
BootAt(c, q) ==
  /\ c.on = "boot" /\ c.iff /\ q = NoCall
  /\ c.pc[1] = "do_task_switch" /\ c.pc[2] \in 1 .. 25
  /\ BootStack(c.below, BootDepth(c.pc[2]))
  /\ BootRegs(c.pc[2], c.regs)

(* Context k, with the trail t and d the current one: context 0 is that in *)
(* which the machine started, the others are those of the handlers.        *)
Frozen(c) == [pc |-> c.pc, regs |-> c.regs, on |-> c.on, iff |-> c.iff, below |-> c.below]
Context(t, d, k) == IF k = Len(t) THEN d ELSE Frozen(t[k + 1])

StacksOK(c, t, st) ==
  IF c.on = "boot" THEN st.user = << >> /\ st.kernel = << >>
  ELSE st.user = c.below /\ (t = << >> => st.kernel = << >>)

Shape(t, d, q, st) ==
  /\ BootAt(Context(t, d, 0), q) \/ UserAt(Context(t, d, 0), q)
  /\ \A k \in 1 .. Len(t) :
       /\ Handler(t[k], Context(t, d, k))
       /\ Context(t, d, k).on = IF Context(t, d, 0).on = "boot" THEN "boot" ELSE "kernel"
  /\ StacksOK(Context(t, d, 0), t, st)

Now == [pc |-> pc, regs |-> regs, on |-> on, iff |-> iff, below |-> stack[on]]

IInv ==
  /\ TypeInv
  /\ down => on # "user" /\ ArgumentsInEsi
  /\ ~down => Shape(trail, Now, call, stack)

-----------------------------------------------------------------------------
(* The tables.                                                             *)
LEMMA CodeIs ==
  /\ DOMAIN Code = {"do_task_switch", "gettid_wrapper", "timer_wrapper", "keyboard_wrapper",
                    "exception_wrapper", "syscall_wrapper"}
  /\ Code["do_task_switch"] = do_task_switch /\ Code["gettid_wrapper"] = gettid_wrapper
  /\ Code["timer_wrapper"] = timer_wrapper /\ Code["keyboard_wrapper"] = keyboard_wrapper
  /\ Code["exception_wrapper"] = exception_wrapper
  /\ Code["syscall_wrapper"] = syscall_wrapper
  BY DEF Code

LEMMA KindsHave ==
  /\ Stacks \subseteq Kinds /\ DOMAIN Code \subseteq Kinds /\ CalleeSaved \subseteq Kinds
  /\ {"junk", "int", "ds", "cs", "eflags", "error", "arg", "table", "app", "stub",
      "thread_switch"} \subseteq Kinds
  BY DEF Kinds

LEMMA IdtIs ==
  /\ DOMAIN idt = Vectors
  /\ idt[GETTID_INT].handler = "gettid_wrapper"
  /\ idt[Timer].handler = "timer_wrapper"
  /\ idt[Keyboard].handler = "keyboard_wrapper"
  /\ \A v \in 0 .. 19 : v # 15 => idt[v].handler = "exception_wrapper"
  /\ \A v \in Vectors : idt[v].dpl = 3 <=> v = GETTID_INT
  <1> USE DEF set_idt_entry, set_syscall_entry, set_exception_entry
  <1>1. DOMAIN handler_install = 0 .. 19 \cup {Timer, Keyboard}
    BY DEF handler_install
  <1>2. DOMAIN idt = Vectors
    BY <1>1 DEF idt, Vectors
  <1>3. idt[GETTID_INT].handler = "gettid_wrapper" /\ idt[GETTID_INT].dpl = 3
    BY <1>2 DEF idt, syscall_init, Vectors
  <1>4. \A v \in Vectors : v # GETTID_INT => idt[v] = handler_install[v]
    BY <1>2 DEF idt
  <1>5. idt[Timer].handler = "timer_wrapper" /\ idt[Timer].dpl = 0
    BY <1>4 DEF handler_install, Timer, GETTID_INT, Vectors
  <1>6. idt[Keyboard].handler = "keyboard_wrapper" /\ idt[Keyboard].dpl = 0
    BY <1>4 DEF handler_install, Timer, Keyboard, GETTID_INT, Vectors
  <1>7. ASSUME NEW v \in 0 .. 19
        PROVE  idt[v].handler = exception_wrappers(v) /\ idt[v].dpl = 0
    <2>1. v \in Vectors /\ v # GETTID_INT
      BY DEF Vectors, GETTID_INT
    <2>2. handler_install[v] = exceptions_init[v]
      BY DEF handler_install
    <2>3. exceptions_init[v] = [handler |-> exception_wrappers(v), masks |-> TRUE, dpl |-> 0]
      BY DEF exceptions_init
    <2> QED
      BY <2>1, <2>2, <2>3, <1>4
  <1>8. \A v \in 0 .. 19 : v # 15 => exception_wrappers(v) = "exception_wrapper"
    BY DEF exception_wrappers
  <1>9. \A v \in Vectors : idt[v].dpl = 3 <=> v = GETTID_INT
    BY <1>3, <1>5, <1>6, <1>7 DEF Vectors, GETTID_INT
  <1> QED
    BY <1>2, <1>3, <1>5, <1>6, <1>7, <1>8, <1>9

LEMMA Sequences ==
  ASSUME NEW S, NEW s \in Seq(S)
  PROVE  /\ Len(s) \in Nat /\ DOMAIN s = 1 .. Len(s)
         /\ \A k \in 1 .. Len(s) : s[k] \in S
  BY LenProperties, ElementOfSeq

LEMMA Pushed ==
  ASSUME NEW S, NEW s \in Seq(S), NEW w \in Seq(S)
  PROVE  /\ s \o w \in Seq(S)
         /\ Len(s \o w) = Len(s) + Len(w)
         /\ \A k \in 1 .. Len(s) : (s \o w)[k] = s[k]
         /\ \A k \in 1 .. Len(w) : (s \o w)[Len(s) + k] = w[k]
  BY ConcatProperties, Sequences

LEMMA Popped ==
  ASSUME NEW S, NEW s \in Seq(S), NEW n \in Nat, n <= Len(s)
  PROVE  /\ SubSeq(s, 1, Len(s) - n) \in Seq(S)
         /\ Len(SubSeq(s, 1, Len(s) - n)) = Len(s) - n
         /\ \A k \in 1 .. Len(s) - n : SubSeq(s, 1, Len(s) - n)[k] = s[k]
  BY SubSeqProperties, Sequences

(* The same about u, which is s and then w, named so that nothing else is  *)
(* put together.                                                           *)
Joined(u, s, w) == u = s \o w

LEMMA Joins ==
  ASSUME NEW S, NEW s \in Seq(S), NEW w \in Seq(S), NEW u, Joined(u, s, w)
  PROVE  /\ u \in Seq(S) /\ Len(u) = Len(s) + Len(w)
         /\ \A k \in 1 .. Len(s) : u[k] = s[k]
         /\ \A k \in 1 .. Len(w) : u[Len(s) + k] = w[k]
  BY Pushed DEF Joined

LEMMA Joins3 ==
  ASSUME NEW S, NEW s \in Seq(S), NEW w \in Seq(S), NEW x \in Seq(S), NEW t, NEW u,
         Joined(t, s, w), Joined(u, t, x)
  PROVE  /\ u \in Seq(S) /\ Len(u) = Len(s) + Len(w) + Len(x)
         /\ \A k \in 1 .. Len(s) : u[k] = s[k]
         /\ \A k \in 1 .. Len(w) : u[Len(s) + k] = w[k]
  <1>1. Len(s) \in Nat /\ Len(w) \in Nat /\ Len(x) \in Nat
    BY Sequences
  <1>2. t \in Seq(S)
    BY Joins
  <1>3. Len(t) = Len(s) + Len(w)
    BY Joins
  <1>4. \A k \in 1 .. Len(s) : t[k] = s[k]
    BY Joins
  <1>5. \A k \in 1 .. Len(w) : t[Len(s) + k] = w[k]
    BY Joins
  <1>6. u \in Seq(S)
    BY <1>2, Joins
  <1>7. Len(u) = Len(t) + Len(x)
    BY <1>2, Joins
  <1>8. \A k \in 1 .. Len(t) : u[k] = t[k]
    BY <1>2, Joins
  <1> QED
    BY <1>1, <1>2, <1>3, <1>4, <1>5, <1>6, <1>7, <1>8

LEMMA SameSequence ==
  ASSUME NEW S, NEW s \in Seq(S), NEW t \in Seq(S), Len(s) = Len(t),
         \A k \in 1 .. Len(s) : s[k] = t[k]
  PROVE  s = t
  BY SeqEqual, Sequences

LEMMA SurviveIs ==
  /\ Survive(Timer) = Registers /\ Survive(Keyboard) = Registers
  /\ Survive(GETTID_INT) = Registers \ Scratch
  /\ \A v \in 0 .. 19 : Survive(v) = Registers \ {"ebp"}
  BY DEF Survive, Timer, Keyboard, GETTID_INT, Scratch

-----------------------------------------------------------------------------
(* The discipline of the code, one kind of instruction at a time.          *)
LEMMA OrderDepth ==
  ASSUME NEW h, NEW i \in Nat
  PROVE  Depth(h, i) \in Nat
  BY DEF Depth

(* The words w are what the code h pushes when it has pushed n.            *)
Pushes(h, n, w, v) ==
  \A k \in 1 .. Len(w) : Order(h)[n + k] \in DOMAIN v => w[k] = v[Order(h)[n + k]]

LEMMA ActivePush ==
  ASSUME NEW h, NEW i \in Nat, NEW j \in Nat, NEW f \in Seq(Words), NEW v,
         NEW s \in Seq(Words), NEW r, NEW w \in Seq(Words),
         Active(h, i, f, v, s, r),
         Depth(h, j) = Depth(h, i) + Len(w),
         Pushes(h, Depth(h, i), w, v),
         Same(h, j) \subseteq Same(h, i)
  PROVE  Active(h, j, f, v, s \o w, r)
  <1> DEFINE n == Depth(h, i)
             o == Order(h)
             t == s \o w
  <1>1. n \in Nat /\ Len(f) \in Nat /\ Len(s) \in Nat /\ Len(w) \in Nat
    BY OrderDepth, Sequences
  <1>2. /\ Len(t) = Len(s) + Len(w)
        /\ \A k \in 1 .. Len(s) : t[k] = s[k]
        /\ \A k \in 1 .. Len(w) : t[Len(s) + k] = w[k]
    BY Pushed
  <1>3. /\ Len(s) = Len(f) + n
        /\ \A k \in 1 .. Len(f) : s[k] = f[k]
        /\ \A k \in 1 .. n : o[k] \in DOMAIN v => s[Len(f) + k] = v[o[k]]
        /\ \A x \in Same(h, i) \cap DOMAIN v : r[x] = v[x]
    BY DEF Active
  <1> HIDE DEF n, o, t
  <1>4. \A k \in 1 .. Len(f) : t[k] = f[k]
    BY <1>1, <1>2, <1>3
  <1>5. ASSUME NEW k \in 1 .. n + Len(w), o[k] \in DOMAIN v
        PROVE  t[Len(f) + k] = v[o[k]]
    <2>1. CASE k <= n
      BY <2>1, <1>1, <1>2, <1>3, <1>5
    <2>2. CASE k > n
      <3> DEFINE m == k - n
      <3>1. m \in 1 .. Len(w) /\ k = n + m /\ Len(f) + k = Len(s) + m
        BY <2>2, <1>1, <1>3
      <3> HIDE DEF m
      <3>2. t[Len(s) + m] = w[m]
        BY <3>1, <1>2
      <3>3. w[m] = v[o[n + m]]
        BY <3>1, <1>5 DEF n, o, Pushes
      <3> QED
        BY <3>1, <3>2, <3>3
    <2> QED
      BY <2>1, <2>2, <1>1
  <1>6. Len(t) = Len(f) + (n + Len(w))
    BY <1>1, <1>2, <1>3
  <1>7. Depth(h, j) = n + Len(w)
    BY DEF n
  <1> QED
    BY <1>3, <1>4, <1>5, <1>6, <1>7 DEF Active, o, t

(* The registers q, after the last n words of s were popped where the      *)
(* registers were r, before instruction i: j is the next one.              *)
Pops(h, i, j, v, n, s, r, q) ==
  \A x \in Same(h, j) \cap DOMAIN v :
    \/ x \in Same(h, i) /\ q[x] = r[x]
    \/ \E k \in 1 .. n : Order(h)[Depth(h, j) + k] = x /\ q[x] = s[Len(s) - n + k]

LEMMA ActivePop ==
  ASSUME NEW h, NEW i \in Nat, NEW j \in Nat, NEW f \in Seq(Words), NEW v,
         NEW s \in Seq(Words), NEW r, NEW q, NEW n \in Nat,
         Active(h, i, f, v, s, r),
         Depth(h, i) = Depth(h, j) + n,
         Pops(h, i, j, v, n, s, r, q)
  PROVE  Active(h, j, f, v, SubSeq(s, 1, Len(s) - n), q)
  <1> DEFINE d == Depth(h, j)
             o == Order(h)
             t == SubSeq(s, 1, Len(s) - n)
  <1>1. d \in Nat /\ Len(f) \in Nat /\ Len(s) \in Nat
    BY OrderDepth, Sequences
  <1>2. /\ Len(s) = Len(f) + (d + n)
        /\ \A k \in 1 .. Len(f) : s[k] = f[k]
        /\ \A k \in 1 .. d + n : o[k] \in DOMAIN v => s[Len(f) + k] = v[o[k]]
        /\ \A x \in Same(h, i) \cap DOMAIN v : r[x] = v[x]
    BY DEF Active
  <1>3. Len(t) = Len(f) + d /\ \A k \in 1 .. Len(f) + d : t[k] = s[k]
    BY <1>1, <1>2, Popped
  <1>4. ASSUME NEW x \in Same(h, j) \cap DOMAIN v
        PROVE  q[x] = v[x]
    <2>1. CASE x \in Same(h, i) /\ q[x] = r[x]
      BY <2>1, <1>2
    <2>2. CASE \E k \in 1 .. n : o[d + k] = x /\ q[x] = s[Len(s) - n + k]
      <3>1. PICK k \in 1 .. n : o[d + k] = x /\ q[x] = s[Len(s) - n + k]
        BY <2>2
      <3> DEFINE m == d + k
      <3>2. m \in 1 .. d + n /\ Len(s) - n + k = Len(f) + m
        BY <1>1, <1>2
      <3>3. o[m] \in DOMAIN v /\ q[x] = s[Len(f) + m] /\ o[m] = x
        BY <3>1, <3>2
      <3> HIDE DEF m
      <3> QED
        BY <3>2, <3>3, <1>2
    <2> QED
      BY <2>1, <2>2 DEF Pops
  <1> HIDE DEF d, o, t
  <1>5. \A k \in 1 .. Len(f) : t[k] = f[k]
    BY <1>1, <1>2, <1>3
  <1>6. ASSUME NEW k \in 1 .. d, o[k] \in DOMAIN v
        PROVE  t[Len(f) + k] = v[o[k]]
    <2>1. Len(f) + k \in 1 .. Len(f) + d /\ k \in 1 .. d + n
      BY <1>1
    <2> QED
      BY <2>1, <1>2, <1>3, <1>6
  <1> QED
    BY <1>3, <1>4, <1>5, <1>6 DEF Active, d, o, t

LEMMA ActiveSet ==
  ASSUME NEW h, NEW i, NEW j, NEW f, NEW v, NEW s, NEW r, NEW q,
         Active(h, i, f, v, s, r), Depth(h, i) = Depth(h, j),
         \A x \in Same(h, j) \cap DOMAIN v : x \in Same(h, i) /\ q[x] = r[x]
  PROVE  Active(h, j, f, v, s, q)
  BY DEF Active

-----------------------------------------------------------------------------
(* What each instruction does.                                             *)
LEMMA Tags ==
  /\ Exec => Running
  /\ load => Instr[1] \in {"set", "lea", "load", "load0", "mov"} /\ Last(Instr) # "esp"
  /\ restore_esp => Instr[1] = "mov" /\ Instr[3] = "esp"
  /\ push => Instr[1] = "push"
  /\ pop => Instr[1] = "pop"
  /\ pusha => Instr[1] = "pusha"
  /\ popa => Instr[1] = "popa"
  /\ jump => Instr[1] \in {"jmp", "jeq"}
  /\ lookup => Instr[1] = "lookup"
  /\ jump_register => Instr[1] = "jmpreg"
  /\ ret => Instr[1] = "ret"
  /\ ccall => Instr[1] = "ccall"
  /\ int => Instr[1] = "int"
  /\ iret => Instr[1] = "iret"
  BY DEF Exec, load, restore_esp, push, pop, pusha, popa, jump, lookup, jump_register, ret,
     ccall, int, iret, Is

LEMMA Dispatch ==
  ASSUME Exec
  PROVE  /\ ~down
         /\ Instr[1] \in {"set", "lea", "load", "load0"} => load
         /\ Instr[1] = "mov" => load \/ restore_esp
         /\ Instr[1] = "push" => push
         /\ Instr[1] = "pop" => pop
         /\ Instr[1] = "pusha" => pusha
         /\ Instr[1] = "popa" => popa
         /\ Instr[1] \in {"jmp", "jeq"} => jump
         /\ Instr[1] = "lookup" => lookup
         /\ Instr[1] = "jmpreg" => jump_register
         /\ Instr[1] = "ret" => ret
         /\ Instr[1] = "ccall" => ccall
         /\ Instr[1] = "int" => int
         /\ Instr[1] = "iret" => iret
  <1>1. ~down
    BY Tags DEF Running
  <1>2. load \/ restore_esp \/ push \/ pop \/ pusha \/ popa \/ jump \/ lookup \/ jump_register
          \/ ret \/ ccall \/ int \/ iret
    BY DEF Exec
  <1> QED
    BY <1>1, <1>2, Tags

Moves ==
  /\ pc' = <<pc[1], pc[2] + 1>>
  /\ on' = on /\ iff' = iff /\ trail' = trail /\ call' = call

(* The stack in use becomes w, the others stay.                            *)
Stacked(w) == stack'[on] = w /\ \A s \in Stacks : s # on => stack'[s] = stack[s]

LEMMA EipIs ==
  ASSUME TypeInv, pc[1] \in DOMAIN Code
  PROVE  Eip = <<pc[1], pc[2] + 1>> /\ Eip \in Places
  <1>1. pc[1] # "table"
    BY CodeIs
  <1> QED
    BY <1>1 DEF Eip, TypeInv, Places

LEMMA StoreStep ==
  ASSUME TypeInv, ~down, NEW w \in Seq(Words), Store(on, w)
  PROVE  /\ stack' \in [Stacks -> Seq(Words)] /\ down' \in BOOLEAN
         /\ Len(stack.kernel)' <= KernelWords
         /\ ~down' => Stacked(w)
         /\ down' => UNCHANGED stack /\ on = "kernel" /\ Len(w) > KernelWords
  <1>1. "kernel" \in Stacks /\ on \in Stacks /\ stack \in [Stacks -> Seq(Words)]
    BY DEF TypeInv, Stacks
  <1>2. CASE on = "kernel" /\ Len(w) > KernelWords
    BY <1>2 DEF Store, TypeInv
  <1>3. CASE ~(on = "kernel" /\ Len(w) > KernelWords)
    <2>1. stack' = [stack EXCEPT ![on] = w] /\ down' = down
      BY <1>3 DEF Store
    <2>2. stack' \in [Stacks -> Seq(Words)] /\ Stacked(w)
      BY <2>1, <1>1 DEF Stacked
    <2>3. Len(stack.kernel)' <= KernelWords
      <3>1. CASE on = "kernel"
        <4>1. Len(w) \in Nat /\ KernelWords \in Nat
          BY Sequences, KernelEntryAssumption
        <4> QED
          BY <3>1, <4>1, <1>3, <2>2 DEF Stacked
      <3>2. CASE on # "kernel"
        BY <3>2, <1>1, <2>2 DEF Stacked, TypeInv
      <3> QED
        BY <3>1, <3>2
    <2>4. ~down' /\ down' \in BOOLEAN
      BY <2>1, Zenon DEF TypeInv
    <2> QED
      BY <2>2, <2>3, <2>4
  <1> QED
    BY <1>2, <1>3

LEMMA PushStep ==
  ASSUME TypeInv, Exec, NEW r \in Registers, Instr = <<"push", r>>, pc[1] \in DOMAIN Code
  PROVE  /\ TypeInv' /\ Moves /\ regs' = regs
         /\ ~down' => Stacked(stack[on] \o <<regs[r]>>)
         /\ down' => on = "kernel" /\ Len(stack[on]) + 1 > KernelWords
  <1>1. push /\ ~down
    BY Dispatch
  <1>2. Store(on, stack[on] \o <<regs[r]>>)
    BY <1>1 DEF push, Push, Top
  <1>3. regs[r] \in Words /\ stack[on] \in Seq(Words) /\ <<regs[r]>> \in Seq(Words)
    BY DEF TypeInv, Files
  <1>4. stack[on] \o <<regs[r]>> \in Seq(Words)
        /\ Len(stack[on] \o <<regs[r]>>) = Len(stack[on]) + 1
    BY <1>3, Pushed
  <1>5. Moves /\ regs' = regs /\ pc' \in Places
    BY <1>1, EipIs DEF push, Moves
  <1> QED
    BY <1>1, <1>2, <1>4, <1>5, StoreStep DEF TypeInv, Moves

LEMMA PopStep ==
  ASSUME TypeInv, ~down, NEW n \in Nat, n <= Len(stack[on]), Pop(n)
  PROVE  /\ stack' \in [Stacks -> Seq(Words)] /\ ~down' /\ down' \in BOOLEAN
         /\ Len(stack.kernel)' <= KernelWords
         /\ Stacked(SubSeq(stack[on], 1, Len(stack[on]) - n))
  <1> DEFINE w == SubSeq(stack[on], 1, Len(stack[on]) - n)
  <1>1. stack[on] \in Seq(Words) /\ on \in Stacks
    BY DEF TypeInv
  <1>2. w \in Seq(Words) /\ Len(w) = Len(stack[on]) - n /\ Len(stack[on]) \in Nat
    BY <1>1, Popped, Sequences
  <1>3. stack' = [stack EXCEPT ![on] = w] /\ down' = down
    BY DEF Pop, Top
  <1> HIDE DEF w
  <1>4. stack' \in [Stacks -> Seq(Words)] /\ Stacked(w)
    BY <1>1, <1>2, <1>3 DEF TypeInv, Stacked
  <1>5. Len(stack.kernel)' <= KernelWords
    <2>1. CASE on = "kernel"
      <3>1. Len(w) <= Len(stack[on]) /\ Len(w) \in Nat
        BY <1>2
      <3>2. stack'["kernel"] = w /\ Len(stack["kernel"]) <= KernelWords
        BY <2>1, <1>4 DEF Stacked, TypeInv
      <3>3. Len(stack'["kernel"]) <= Len(stack["kernel"]) /\ Len(stack["kernel"]) \in Nat
        BY <3>1, <3>2, <2>1, <1>2
      <3> QED
        BY <3>2, <3>3, <3>1, KernelEntryAssumption
    <2>2. CASE on # "kernel"
      BY <2>2, <1>4 DEF Stacked, TypeInv, Stacks
    <2> QED
      BY <2>1, <2>2
  <1>6. ~down' /\ down' \in BOOLEAN
    BY <1>3, Zenon DEF TypeInv
  <1> QED
    BY <1>4, <1>5, <1>6 DEF w

(* Register r becomes w, the others stay.                                  *)
Wrote(r, w) == regs'[r] = w /\ \A x \in Registers : x # r => regs'[x] = regs[x]

LEMMA Registered ==
  /\ {"ebx", "esi", "edi", "ebp", "eax", "ecx", "edx", "ds", "es", "fs", "gs"} = Registers
  /\ "esp" \notin Registers /\ "error code" \notin Registers
  /\ CalleeSaved = {"ebx", "esi", "edi", "ebp"} /\ Segments = {"ds", "es", "fs", "gs"}
  BY DEF Registers, CalleeSaved, Segments

LEMMA AllRegistersAre ==
  /\ AllRegisters[1] = "eax" /\ AllRegisters[2] = "ecx" /\ AllRegisters[3] = "edx"
  /\ AllRegisters[4] = "ebx" /\ AllRegisters[5] = "esp" /\ AllRegisters[6] = "ebp"
  /\ AllRegisters[7] = "esi" /\ AllRegisters[8] = "edi"
  /\ \A k \in 1 .. 8 : k = 1 \/ k = 2 \/ k = 3 \/ k = 4 \/ k = 5 \/ k = 6 \/ k = 7 \/ k = 8
  BY DEF AllRegisters

LEMMA WriteStep ==
  ASSUME TypeInv, NEW r \in Registers, NEW w \in Words, regs' = [regs EXCEPT ![r] = w]
  PROVE  regs' \in Files /\ Wrote(r, w)
  BY DEF TypeInv, Files, Wrote

LEMMA PopIs ==
  ASSUME TypeInv, Exec, NEW r \in Registers, Instr = <<"pop", r>>, pc[1] \in DOMAIN Code,
         Len(stack[on]) >= 1
  PROVE  /\ TypeInv' /\ Moves /\ ~down'
         /\ Wrote(r, stack[on][Len(stack[on])])
         /\ Stacked(SubSeq(stack[on], 1, Len(stack[on]) - 1))
  <1>1. pop /\ ~down
    BY Dispatch
  <1>2. stack[on] \in Seq(Words) /\ Len(stack[on]) \in Nat
        /\ stack[on][Len(stack[on])] \in Words
    <2>1. stack[on] \in Seq(Words)
      BY DEF TypeInv
    <2>2. Len(stack[on]) \in Nat /\ Len(stack[on]) \in 1 .. Len(stack[on])
      BY <2>1, Sequences
    <2> QED
      BY <2>1, <2>2, Sequences
  <1>3. regs' = [regs EXCEPT ![r] = stack[on][Len(stack[on])]]
    BY <1>1 DEF pop, Last, Top
  <1>4. Pop(1)
    BY <1>1 DEF pop
  <1>5. Moves /\ pc' \in Places
    BY <1>1, EipIs DEF pop, Moves
  <1>6. regs' \in Files /\ Wrote(r, stack[on][Len(stack[on])])
    BY <1>2, <1>3, WriteStep
  <1>7. /\ stack' \in [Stacks -> Seq(Words)] /\ ~down' /\ down' \in BOOLEAN
        /\ Len(stack.kernel)' <= KernelWords
        /\ Stacked(SubSeq(stack[on], 1, Len(stack[on]) - 1))
    BY <1>1, <1>2, <1>4, PopStep
  <1> QED
    BY <1>5, <1>6, <1>7 DEF TypeInv, Moves

LEMMA PushaIs ==
  ASSUME TypeInv, Exec, Instr = <<"pusha">>, pc[1] \in DOMAIN Code
  PROVE  /\ TypeInv' /\ Moves /\ regs' = regs
         /\ \E w \in Seq(Words) :
              /\ Len(w) = 8
              /\ \A k \in 1 .. 8 : AllRegisters[k] \in Registers => w[k] = regs[AllRegisters[k]]
              /\ ~down' => Stacked(stack[on] \o w)
         /\ down' => on = "kernel" /\ Len(stack[on]) + 8 > KernelWords
  <1> DEFINE w == [k \in 1 .. 8 |-> Reg(AllRegisters[k])]
  <1>1. pusha /\ ~down
    BY Dispatch
  <1>2. Store(on, stack[on] \o w)
    BY <1>1 DEF pusha, Push, Top
  <1>3. \A k \in 1 .. 8 : AllRegisters[k] \in Registers \cup {"esp"}
    BY Registered, AllRegistersAre
  <1>4. stack[on] \in Seq(Words) /\ Len(stack[on]) \in Nat
    BY Sequences DEF TypeInv
  <1>5. esp \in Words
    BY <1>4, KindsHave DEF esp, Top, Words, TypeInv
  <1>6. \A k \in 1 .. 8 : w[k] \in Words
                          /\ (AllRegisters[k] \in Registers => w[k] = regs[AllRegisters[k]])
    BY <1>3, <1>5, Registered DEF Reg, TypeInv, Files
  <1>7. w \in Seq(Words) /\ Len(w) = 8
    BY <1>6
  <1> HIDE DEF w
  <1>8. stack[on] \o w \in Seq(Words)
        /\ Len(stack[on] \o w) = Len(stack[on]) + 8
    <2>1. stack[on] \o w \in Seq(Words) /\ Len(stack[on] \o w) = Len(stack[on]) + Len(w)
      BY <1>4, <1>7, Pushed
    <2> QED
      BY <2>1, <1>7
  <1>9. Moves /\ regs' = regs /\ pc' \in Places
    BY <1>1, EipIs DEF pusha, Moves
  <1>10. /\ stack' \in [Stacks -> Seq(Words)] /\ down' \in BOOLEAN
         /\ Len(stack.kernel)' <= KernelWords
         /\ ~down' => Stacked(stack[on] \o w)
         /\ down' => on = "kernel" /\ Len(stack[on] \o w) > KernelWords
    BY <1>1, <1>2, <1>8, StoreStep
  <1>11. TypeInv'
    BY <1>9, <1>10 DEF TypeInv, Moves
  <1> QED
    BY <1>6, <1>7, <1>8, <1>9, <1>10, <1>11

LEMMA PopaIs ==
  ASSUME TypeInv, Exec, Instr = <<"popa">>, pc[1] \in DOMAIN Code, Len(stack[on]) >= 8
  PROVE  /\ TypeInv' /\ Moves /\ ~down'
         /\ \A r \in Registers :
              \/ \E k \in 1 .. 8 : AllRegisters[k] = r
                                   /\ regs'[r] = stack[on][Len(stack[on]) - 8 + k]
              \/ r \in Segments /\ regs'[r] = regs[r]
         /\ Stacked(SubSeq(stack[on], 1, Len(stack[on]) - 8))
  <1>1. popa /\ ~down
    BY Dispatch
  <1>2. /\ stack[on] \in Seq(Words) /\ Len(stack[on]) \in Nat
        /\ \A k \in 1 .. 8 : stack[on][Len(stack[on]) - 8 + k] \in Words
    <2>1. stack[on] \in Seq(Words)
      BY DEF TypeInv
    <2>2. Len(stack[on]) \in Nat
      BY <2>1, Sequences
    <2>3. ASSUME NEW k \in 1 .. 8
          PROVE  Len(stack[on]) - 8 + k \in 1 .. Len(stack[on])
      <3>1. \A n \in Nat : n >= 8 => n - 8 + k \in 1 .. n
        OBVIOUS
      <3> QED
        BY <2>2, <3>1
    <2> QED
      BY <2>1, <2>2, <2>3, Sequences
  <1> DEFINE Of(r) == CHOOSE k \in 1 .. 8 : AllRegisters[k] = r
             Popped8(r) == stack[on][Len(stack[on]) - 8 + Of(r)]
  <1>3. regs' = [r \in Registers |->
                   IF \E k \in 1 .. 8 : AllRegisters[k] = r THEN Popped8(r) ELSE regs[r]]
    BY <1>1 DEF popa, Top
  <1>4. ASSUME NEW r, \E k \in 1 .. 8 : AllRegisters[k] = r
        PROVE  Of(r) \in 1 .. 8 /\ AllRegisters[Of(r)] = r
    BY <1>4
  <1> HIDE DEF Of
  <1>5. \A r \in Registers : r \notin Segments => \E k \in 1 .. 8 : AllRegisters[k] = r
    <2> SUFFICES ASSUME NEW r \in Registers, r \notin Segments
                 PROVE  \E k \in 1 .. 8 : AllRegisters[k] = r
      OBVIOUS
    <2>1. r \in {"eax", "ecx", "edx", "ebx", "ebp", "esi", "edi"}
      BY Registered
    <2> QED
      BY <2>1, AllRegistersAre
  <1>6. ASSUME NEW r \in Registers
        PROVE  \/ \E k \in 1 .. 8 : AllRegisters[k] = r
                                    /\ regs'[r] = stack[on][Len(stack[on]) - 8 + k]
               \/ r \in Segments /\ regs'[r] = regs[r]
    <2>1. CASE \E k \in 1 .. 8 : AllRegisters[k] = r
      BY <2>1, <1>3, <1>4
    <2>2. CASE ~(\E k \in 1 .. 8 : AllRegisters[k] = r)
      BY <2>2, <1>3, <1>5
    <2> QED
      BY <2>1, <2>2
  <1>7. regs' \in Files
    <2>1. \A r \in Registers : regs'[r] \in Words
      BY <1>2, <1>6 DEF TypeInv, Files
    <2> QED
      BY <1>3, <2>1 DEF Files
  <1>8. Pop(8)
    BY <1>1 DEF popa
  <1>9. Moves /\ pc' \in Places
    BY <1>1, EipIs DEF popa, Moves
  <1>10. /\ stack' \in [Stacks -> Seq(Words)] /\ ~down' /\ down' \in BOOLEAN
         /\ Len(stack.kernel)' <= KernelWords
         /\ Stacked(SubSeq(stack[on], 1, Len(stack[on]) - 8))
    BY <1>1, <1>2, <1>8, PopStep
  <1>11. TypeInv'
    BY <1>7, <1>9, <1>10 DEF TypeInv, Moves
  <1> QED
    BY <1>6, <1>9, <1>10, <1>11

-----------------------------------------------------------------------------
(* The table of syscall_wrapper.S.  Its entries' places follow from the    *)
(* bytes of what lies behind it, a fold over instructions: the last of the *)
(* sums that come about when they are added one after the other.  FoldLeft *)
(* is a recursive function on the sets of positions; that there is one     *)
(* follows by induction on the largest position.                           *)
LEMMA Induction ==
  ASSUME NEW S, 0 \in S, \A n \in Nat : n \in S => n + 1 \in S
  PROVE  \A n \in Nat : n \in S
  <1> SUFFICES ASSUME NEW n \in Nat, n \notin S PROVE FALSE
    OBVIOUS
  <1> DEFINE U == {k \in 0 .. n : k \notin S}
             f == [k \in U |-> k - 1]
  <1>1. ASSUME NEW k \in U
        PROVE  k - 1 \in U \ {n}
    <2>1. k \in Nat /\ k # 0 /\ k <= n
      OBVIOUS
    <2>2. k - 1 \in 0 .. n /\ k - 1 # n /\ k - 1 + 1 = k
      BY <2>1
    <2> QED
      BY <2>2
  <1>2. n \in U /\ IsFiniteSet(U) /\ IsFiniteSet(U \ {n}) /\ Cardinality(U \ {n}) < Cardinality(U)
    <2>1. n \in U
      OBVIOUS
    <2>2. U \in SUBSET (0 .. n) /\ IsFiniteSet(0 .. n)
      BY FS_Interval
    <2>3. IsFiniteSet(U)
      BY <2>2, FS_Subset
    <2>4. Cardinality(U) \in Nat
      BY <2>3, FS_CardinalityType
    <2>5. IsFiniteSet(U \ {n}) /\ Cardinality(U \ {n}) = Cardinality(U) - 1
      BY <2>1, <2>3, FS_RemoveElement
    <2> QED
      BY <2>1, <2>3, <2>4, <2>5
  <1>3. f \in [U -> U \ {n}]
    BY <1>1
  <1>5. \A x \in U : f[x] = x - 1 /\ x \in Int
    OBVIOUS
  <1> HIDE DEF U, f
  <1>4. \E x, y \in U : x # y /\ f[x] = f[y]
    BY <1>2, <1>3, FS_PigeonHole
  <1> QED
    BY <1>5, <1>4

FoldBody(t, s, g, x) ==
  IF x = {} THEN t ELSE AddBytes(g[x \ {Max(x)}], s[Max(x)])

LEMMA FoldDef ==
  ASSUME NEW t, NEW s
  PROVE  FoldLeft(AddBytes, t, s)
           = (CHOOSE it : it = [x \in SUBSET (DOMAIN s) |-> FoldBody(t, s, it, x)])[DOMAIN s]
  BY DEF FoldLeft, MapThenFoldSet, FoldBody

LEMMA MaxIs ==
  ASSUME NEW m \in Nat, NEW x \in SUBSET (1 .. m), m \in x
  PROVE  Max(x) = m
  <1>1. \A y \in x : m >= y
    OBVIOUS
  <1>2. \A k \in x : (\A y \in x : k >= y) => k = m
    <2> SUFFICES ASSUME NEW k \in x, \A y \in x : k >= y PROVE k = m
      OBVIOUS
    <2>1. k \in Int /\ k <= m /\ k >= m
      OBVIOUS
    <2> QED
      BY <2>1
  <1> QED
    BY <1>1, <1>2 DEF Max

LEMMA FoldExists ==
  ASSUME NEW t, NEW s, NEW n \in Nat
  PROVE  \E g : \A x \in SUBSET (1 .. n) : g[x] = FoldBody(t, s, g, x)
  <1> DEFINE Steps(m) == \E g : \A x \in SUBSET (1 .. m) : g[x] = FoldBody(t, s, g, x)
             S == {m \in Nat : Steps(m)}
  <1>1. 0 \in S
    <2> DEFINE g == [x \in {{}} |-> t]
    <2>1. \A x \in SUBSET (1 .. 0) : x = {}
      OBVIOUS
    <2>2. g[{}] = FoldBody(t, s, g, {})
      BY DEF FoldBody
    <2> HIDE DEF g
    <2>3. \A x \in SUBSET (1 .. 0) : g[x] = FoldBody(t, s, g, x)
      BY <2>1, <2>2
    <2> QED
      BY <2>3
  <1>2. ASSUME NEW m \in Nat, m \in S
        PROVE  m + 1 \in S
    <2>1. PICK g : \A x \in SUBSET (1 .. m) : g[x] = FoldBody(t, s, g, x)
      BY <1>2
    <2> DEFINE new == [x \in SUBSET (1 .. m + 1) |->
                         IF m + 1 \in x THEN AddBytes(g[x \ {m + 1}], s[m + 1]) ELSE g[x]]
    <2>2. \A x \in SUBSET (1 .. m) : x \in SUBSET (1 .. m + 1) /\ m + 1 \notin x
      OBVIOUS
    <2>3. \A x \in SUBSET (1 .. m) : new[x] = g[x]
      BY <2>2
    <2>4. ASSUME NEW x \in SUBSET (1 .. m + 1)
          PROVE  new[x] = FoldBody(t, s, new, x)
      <3>1. CASE m + 1 \in x
        <4>1. Max(x) = m + 1 /\ x # {}
          BY <3>1, MaxIs
        <4>2. x \ {m + 1} \in SUBSET (1 .. m)
          OBVIOUS
        <4>3. new[x] = AddBytes(g[x \ {m + 1}], s[m + 1])
          BY <3>1
        <4> HIDE DEF new
        <4> QED
          BY <2>3, <4>1, <4>2, <4>3 DEF FoldBody
      <3>2. CASE m + 1 \notin x
        <4>1. x \in SUBSET (1 .. m)
          BY <3>2
        <4>2. x \ {Max(x)} \in SUBSET (1 .. m)
          BY <4>1
        <4> HIDE DEF new
        <4>3. new[x] = FoldBody(t, s, g, x)
          BY <2>1, <2>3, <4>1
        <4>4. new[x \ {Max(x)}] = g[x \ {Max(x)}]
          BY <2>3, <4>2
        <4> QED
          BY <4>3, <4>4 DEF FoldBody
      <3> QED
        BY <3>1, <3>2
    <2> HIDE DEF new
    <2>5. Steps(m + 1)
      BY <2>4
    <2> QED
      BY <2>5
  <1> HIDE DEF S
  <1>3. n \in S
    BY <1>1, <1>2, Induction
  <1> QED
    BY <1>3 DEF S

(* h has the sums of t and the bytes of the first n instructions of s.     *)
AddOneByOne(h, t, s, n) ==
  h[0] = t /\ \A m \in 1 .. n : h[m] = AddBytes(h[m - 1], s[m])

LEMMA FoldSteps ==
  ASSUME NEW t, NEW s, NEW n \in Nat, DOMAIN s = 1 .. n
  PROVE  \E h : AddOneByOne(h, t, s, n) /\ FoldLeft(AddBytes, t, s) = h[n]
  <1> DEFINE D == SUBSET (1 .. n)
             Solves(it) == it = [x \in D |-> FoldBody(t, s, it, x)]
             it == CHOOSE f : Solves(f)
             h == [m \in 0 .. n |-> it[1 .. m]]
  <1>1. \E f : Solves(f)
    <2>1. PICK g : \A x \in D : g[x] = FoldBody(t, s, g, x)
      BY FoldExists
    <2> DEFINE f == [x \in D |-> g[x]]
    <2>2. ASSUME NEW x \in D
          PROVE  f[x] = FoldBody(t, s, f, x)
      <3>1. x \ {Max(x)} \in D
        OBVIOUS
      <3>2. f[x] = g[x] /\ f[x \ {Max(x)}] = g[x \ {Max(x)}]
        BY <3>1
      <3> HIDE DEF f
      <3> QED
        BY <2>1, <3>2 DEF FoldBody
    <2>3. f = [x \in D |-> FoldBody(t, s, f, x)]
      BY <2>2
    <2> HIDE DEF f
    <2> QED
      BY <2>3
  <1>2. Solves(it)
    BY <1>1
  <1>3. FoldLeft(AddBytes, t, s) = it[1 .. n]
    BY FoldDef
  <1> HIDE DEF it
  <1>4. \A x \in D : it[x] = FoldBody(t, s, it, x)
    BY <1>2
  <1>5. \A m \in 0 .. n : 1 .. m \in D
    OBVIOUS
  <1>6. h[0] = t
    <2>1. 1 .. 0 = {} /\ {} \in D /\ h[0] = it[1 .. 0]
      OBVIOUS
    <2> QED
      BY <1>4, <2>1 DEF FoldBody
  <1>7. ASSUME NEW m \in 1 .. n
        PROVE  h[m] = AddBytes(h[m - 1], s[m])
    <2>1. m \in Nat /\ m \in 1 .. m /\ m \in 0 .. n /\ m - 1 \in 0 .. n
      OBVIOUS
    <2>2. Max(1 .. m) = m /\ 1 .. m # {}
      BY <2>1, MaxIs
    <2>3. (1 .. m) \ {m} = 1 .. m - 1
      BY <2>1
    <2>4. it[1 .. m] = AddBytes(it[1 .. m - 1], s[m])
      BY <1>4, <1>5, <2>1, <2>2, <2>3 DEF FoldBody
    <2> QED
      BY <2>1, <2>4
  <1>8. h[n] = it[1 .. n]
    OBVIOUS
  <1> HIDE DEF h
  <1> QED
    BY <1>3, <1>6, <1>7, <1>8 DEF AddOneByOne

LEMMA BytesToEndIs == BytesToEnd = 72
  <1> DEFINE s == prologue \o select_args \o table_jump
             B(k) == Bytes(s[k])
  <1> USE DEF prologue, select_args, table_jump
  <1>1. DOMAIN s = 1 .. 19
    OBVIOUS
  <1>2. /\ s[1][1] = "push" /\ s[2][1] = "mov" /\ s[3][1] = "push" /\ s[4][1] = "push"
        /\ s[5][1] = "push"
    OBVIOUS
  <1>3. /\ s[6] = <<"set", 2, "ebx">> /\ s[7][1] = "load" /\ s[8] = <<"set", 3, "ebx">>
        /\ s[9][1] = "load" /\ s[10] = <<"set", 4, "ebx">>
    BY DEF INT_NUM_OFFSET, ARG_NUM_OFFSET, ARG_PKT_OFFSET
  <1>4. /\ s[11][1] = "jeq" /\ s[12][1] = "jeq" /\ s[13][1] = "lea" /\ s[14][1] = "jmp"
        /\ s[15] = <<"set", 0, "esi">> /\ s[16][1] = "jmp" /\ s[17][1] = "load"
    OBVIOUS
  <1>5. s[18][1] = "lookup" /\ s[19][1] = "jmpreg"
    OBVIOUS
  <1>6. BytesToEnd = FoldLeft(AddBytes, 0, s)
    BY DEF BytesToEnd
  <1> HIDE DEF s, prologue, select_args, table_jump
  <1>7. PICK h : AddOneByOne(h, 0, s, 19) /\ FoldLeft(AddBytes, 0, s) = h[19]
    <2> DEFINE n == 19
               t == 0
    <2>1. n \in Nat /\ DOMAIN s = 1 .. n
      BY <1>1
    <2> HIDE DEF n, t
    <2>2. \E h : AddOneByOne(h, t, s, n) /\ FoldLeft(AddBytes, t, s) = h[n]
      BY <2>1, FoldSteps
    <2> QED
      BY <2>2 DEF n, t
  <1>8. h[0] = 0 /\ \A m \in 1 .. 19 : h[m] = h[m - 1] + B(m)
    BY <1>7 DEF AddOneByOne, AddBytes
  <1>9. /\ B(1) = 1 /\ B(2) = 2 /\ B(3) = 1 /\ B(4) = 1 /\ B(5) = 1
    BY <1>2 DEF Bytes
  <1>10. /\ B(6) = 5 /\ B(7) = 4 /\ B(8) = 5 /\ B(9) = 4 /\ B(10) = 5
    BY <1>3 DEF Bytes
  <1>11. /\ B(11) = 5 /\ B(12) = 5 /\ B(13) = 4 /\ B(14) = 2 /\ B(15) = 2 /\ B(16) = 2
         /\ B(17) = 4
    BY <1>4 DEF Bytes
  <1>12. B(18) = 17 /\ B(19) = 2
    BY <1>5 DEF Bytes
  <1> HIDE DEF B
  <1>13. h[5] = 6
    BY <1>8, <1>9
  <1>14. h[10] = 29
    BY <1>8, <1>10, <1>13
  <1>15. h[17] = 53
    BY <1>8, <1>11, <1>14
  <1>16. h[19] = 72
    BY <1>8, <1>12, <1>15
  <1> QED
    BY <1>6, <1>7, <1>16

LEMMA TableIs ==
  /\ LongEntries = 20 /\ INT_TABLE_ENTRY_SIZE = 7
  /\ \A k \in 0 .. Entries - 1 : EntryOffset(k) = IF k <= 20 THEN 7 * k ELSE 140 + 4 * (k - 20)
  <1>1. LongEntries = 20
    BY BytesToEndIs DEF LongEntries, Entries
  <1> QED
    BY <1>1 DEF EntryOffset, INT_TABLE_ENTRY_SIZE, Entries

-----------------------------------------------------------------------------
(* The other instructions.  The stack in use, and all others, stay.        *)
LEMMA AtIs ==
  ASSUME TypeInv, NEW s \in Stacks, NEW n \in Int
  PROVE  /\ At(<<s, n>>) \in Words
         /\ n \in 1 .. Len(stack[s]) => At(<<s, n>>) = stack[s][n]
  <1>1. stack[s] \in Seq(Words)
    BY DEF TypeInv
  <1>2. DOMAIN stack[s] = 1 .. Len(stack[s]) /\ \A k \in 1 .. Len(stack[s]) : stack[s][k] \in Words
    BY <1>1, Sequences
  <1>3. Junk \in Words
    BY KindsHave DEF Junk, Words
  <1> QED
    BY <1>2, <1>3 DEF At

LEMMA AtWord ==
  ASSUME TypeInv, NEW w \in Words
  PROVE  At(w) \in Words
  <1>1. CASE w[1] \in Stacks
    <2>1. w = <<w[1], w[2]>> /\ w[2] \in Int
      BY DEF Words
    <2>2. At(<<w[1], w[2]>>) \in Words
      BY <1>1, <2>1, AtIs
    <2> QED
      BY <2>1, <2>2
  <1>2. CASE w[1] \notin Stacks
    BY <1>2, KindsHave DEF At, Junk, Words
  <1> QED
    BY <1>1, <1>2

LEMMA IndexedIs ==
  ASSUME TypeInv, NEW r \in Registers
  PROVE  Indexed(r) \in Words /\ Indexed(r) = <<regs.ebp[1], regs.ebp[2] - regs[r][2]>>
  <1>1. regs.ebp \in Words /\ regs[r] \in Words
    BY Registered DEF TypeInv, Files
  <1> QED
    BY <1>1 DEF Indexed, Words

LEMMA LoadStep ==
  ASSUME TypeInv, load, pc[1] \in DOMAIN Code, NEW r \in Registers, Last(Instr) = r,
         Loaded \in Words
  PROVE  TypeInv' /\ Moves /\ ~down' /\ stack' = stack /\ Wrote(r, Loaded)
  <1>1. regs' = [regs EXCEPT ![r] = Loaded]
    BY DEF load
  <1>2. regs' \in Files /\ Wrote(r, Loaded)
    BY <1>1, WriteStep
  <1>3. Moves /\ pc' \in Places /\ stack' = stack
    BY EipIs DEF load, Moves
  <1>4. ~down /\ down' = down
    BY DEF load, Running
  <1>5. ~down' /\ down' \in BOOLEAN
    BY <1>4, Zenon DEF TypeInv
  <1> QED
    BY <1>2, <1>3, <1>5 DEF TypeInv, Moves

LEMMA SetIs ==
  ASSUME TypeInv, Exec, pc[1] \in DOMAIN Code, NEW r \in Registers, NEW n \in Int,
         Instr = <<"set", n, r>>
  PROVE  TypeInv' /\ Moves /\ ~down' /\ stack' = stack /\ Wrote(r, <<"int", n>>)
  <1>1. load
    BY Dispatch
  <1>2. Loaded = <<"int", n>> /\ Last(Instr) = r
    BY DEF Loaded, Last
  <1>3. Loaded \in Words
    BY <1>2, KindsHave DEF Words
  <1> QED
    BY <1>1, <1>2, <1>3, LoadStep

LEMMA LeaIs ==
  ASSUME TypeInv, Exec, pc[1] \in DOMAIN Code, NEW q \in Registers, NEW r \in Registers,
         Instr = <<"lea", q, r>>
  PROVE  TypeInv' /\ Moves /\ ~down' /\ stack' = stack /\ Wrote(r, Indexed(q))
  <1>1. load
    BY Dispatch
  <1>2. Loaded = Indexed(q) /\ Last(Instr) = r
    BY DEF Loaded, Last
  <1> QED
    BY <1>1, <1>2, IndexedIs, LoadStep

LEMMA LoadIs ==
  ASSUME TypeInv, Exec, pc[1] \in DOMAIN Code, NEW q \in Registers, NEW r \in Registers,
         Instr = <<"load", q, r>>
  PROVE  TypeInv' /\ Moves /\ ~down' /\ stack' = stack /\ Wrote(r, At(Indexed(q)))
  <1>1. load
    BY Dispatch
  <1>2. Loaded = At(Indexed(q)) /\ Last(Instr) = r
    BY DEF Loaded, Last
  <1>3. Loaded \in Words
    BY <1>2, IndexedIs, AtWord
  <1> QED
    BY <1>1, <1>2, <1>3, LoadStep

LEMMA Load0Is ==
  ASSUME TypeInv, Exec, pc[1] \in DOMAIN Code, NEW r \in Registers, Instr = <<"load0", r>>
  PROVE  TypeInv' /\ Moves /\ ~down' /\ stack' = stack /\ Wrote(r, At(regs.ebp))
  <1>1. load
    BY Dispatch
  <1>2. Loaded = At(regs.ebp) /\ Last(Instr) = r
    BY DEF Loaded, Last
  <1>3. Loaded \in Words
    BY <1>2, AtWord, Registered DEF TypeInv, Files
  <1> QED
    BY <1>1, <1>2, <1>3, LoadStep

LEMMA MovIs ==
  ASSUME TypeInv, Exec, pc[1] \in DOMAIN Code, Instr = <<"mov", "esp", "ebp">>
  PROVE  TypeInv' /\ Moves /\ ~down' /\ stack' = stack /\ Wrote("ebp", <<on, Len(stack[on])>>)
  <1>1. load
    <2>1. load \/ restore_esp
      BY Dispatch
    <2>2. Instr[3] # "esp"
      OBVIOUS
    <2> QED
      BY <2>1, <2>2, Tags
  <1>2. Loaded = <<on, Len(stack[on])>> /\ Last(Instr) = "ebp"
    BY DEF Loaded, Last, Reg, esp, Top
  <1>3. Loaded \in Words /\ "ebp" \in Registers
    <2>1. stack[on] \in Seq(Words) /\ on \in Stacks
      BY DEF TypeInv
    <2>2. Len(stack[on]) \in Nat
      BY <2>1, Sequences
    <2>3. <<on, Len(stack[on])>> \in Words
      BY <2>1, <2>2, KindsHave DEF Words
    <2> QED
      BY <1>2, <2>3, Registered
  <1> QED
    BY <1>1, <1>2, <1>3, LoadStep

LEMMA RestoreIs ==
  ASSUME TypeInv, Exec, pc[1] \in DOMAIN Code, Instr = <<"mov", "ebp", "esp">>,
         regs.ebp[2] = Len(stack[on])
  PROVE  TypeInv' /\ Moves /\ ~down' /\ regs' = regs /\ Stacked(stack[on])
  <1>1. restore_esp /\ ~down
    <2>1. (load \/ restore_esp) /\ ~down
      BY Dispatch
    <2>2. Last(Instr) = "esp"
      BY DEF Last
    <2> QED
      BY <2>1, <2>2, Tags
  <1>2. stack[on] \in Seq(Words) /\ Len(stack[on]) \in Nat
    BY Sequences DEF TypeInv
  <1>3. Pop(0)
    <2>1. Len(stack[on]) - Len(stack[on]) = 0
      BY <1>2
    <2> QED
      BY <1>1, <2>1 DEF restore_esp, Top
  <1>4. /\ stack' \in [Stacks -> Seq(Words)] /\ ~down' /\ down' \in BOOLEAN
        /\ Len(stack.kernel)' <= KernelWords
        /\ Stacked(SubSeq(stack[on], 1, Len(stack[on]) - 0))
    BY <1>1, <1>2, <1>3, PopStep
  <1>5. SubSeq(stack[on], 1, Len(stack[on]) - 0) = stack[on]
    <2> DEFINE t == SubSeq(stack[on], 1, Len(stack[on]) - 0)
    <2>1. /\ t \in Seq(Words) /\ Len(t) = Len(stack[on]) - 0
          /\ \A k \in 1 .. Len(stack[on]) - 0 : t[k] = stack[on][k]
      BY <1>2, Popped
    <2> HIDE DEF t
    <2>2. Len(t) = Len(stack[on])
      BY <1>2, <2>1
    <2>3. t = stack[on]
      BY <1>2, <2>1, <2>2, SameSequence
    <2> QED
      BY <2>3 DEF t
  <1>6. Moves /\ regs' = regs /\ pc' \in Places
    BY <1>1, EipIs DEF restore_esp, Moves
  <1> QED
    BY <1>4, <1>5, <1>6 DEF TypeInv, Moves

LEMMA CcallIs ==
  ASSUME TypeInv, Exec, pc[1] \in DOMAIN Code, NEW f, Instr = <<"ccall", f>>
  PROVE  /\ TypeInv' /\ Moves /\ ~down' /\ stack' = stack
         /\ \A x \in Registers : x \notin Scratch => regs'[x] = regs[x]
         /\ f = "sys_gettid" => regs'.eax = sys_gettid
  <1>1. ccall /\ ~down
    BY Dispatch
  <1> DEFINE w == IF f = "sys_gettid" THEN sys_gettid ELSE Junk
  <1>2. w \in Words /\ Junk \in Words /\ (f = "sys_gettid" => w = sys_gettid)
    BY KindsHave, KernelEntryAssumption DEF sys_gettid, Junk, Words
  <1>3. regs' = [regs EXCEPT !.eax = w, !.ecx = Junk, !.edx = Junk]
    BY <1>1 DEF ccall, Clobbered
  <1> HIDE DEF w
  <1>4. regs' \in Files /\ regs'.eax = w
        /\ \A x \in Registers : x \notin Scratch => regs'[x] = regs[x]
    BY <1>2, <1>3, Registered DEF TypeInv, Files, Scratch
  <1>5. Moves /\ pc' \in Places /\ stack' = stack
    BY <1>1, EipIs DEF ccall, Moves
  <1>6. ~down' /\ down' \in BOOLEAN
    <2>1. down' = down
      BY <1>1 DEF ccall
    <2> QED
      BY <1>1, <2>1, Zenon DEF TypeInv
  <1> QED
    BY <1>2, <1>4, <1>5, <1>6 DEF TypeInv, Moves

-----------------------------------------------------------------------------
(* The contexts.                                                           *)
LEMMA ShapeQuiet ==
  ASSUME NEW t \in Seq(Records), t # << >>, NEW d, NEW e, NEW q, NEW st, NEW su,
         Shape(t, d, q, st), Handler(t[Len(t)], e),
         \A s \in Stacks : s # d.on => su[s] = st[s]
  PROVE  Shape(t, e, q, su)
  <1> DEFINE n == Len(t)
  <1>1. n \in Nat /\ n >= 1 /\ 0 # n
    BY Sequences, EmptySeq
  <1>2. \A k \in 0 .. n - 1 : Context(t, e, k) = Context(t, d, k)
    BY <1>1 DEF Context
  <1>3. Context(t, e, n) = e /\ Context(t, d, n) = d
    BY DEF Context
  <1>4. Context(t, e, 0) = Context(t, d, 0)
    BY <1>1, <1>2
  <1>5. d.on = IF Context(t, d, 0).on = "boot" THEN "boot" ELSE "kernel"
    BY <1>1, <1>3 DEF Shape
  <1>6. e.on = d.on
    BY <1>1, <1>3 DEF Shape, Handler
  <1>7. ASSUME NEW k \in 1 .. n
        PROVE  /\ Handler(t[k], Context(t, e, k))
               /\ Context(t, e, k).on
                    = IF Context(t, e, 0).on = "boot" THEN "boot" ELSE "kernel"
    <2>1. CASE k = n
      BY <2>1, <1>3, <1>4, <1>5, <1>6
    <2>2. CASE k # n
      <3>1. k \in 0 .. n - 1
        BY <2>2, <1>1
      <3> QED
        BY <3>1, <1>2, <1>4 DEF Shape
    <2> QED
      BY <2>1, <2>2
  <1>8. StacksOK(Context(t, e, 0), t, su)
    <2>1. Context(t, d, 0).on = "boot" \/ Context(t, d, 0).on = "user"
      BY DEF Shape, BootAt, UserAt
    <2>2. CASE Context(t, d, 0).on = "boot"
      <3>1. su["user"] = st["user"] /\ su["kernel"] = st["kernel"]
        BY <2>2, <1>5 DEF Stacks
      <3> QED
        BY <2>2, <3>1, <1>4 DEF Shape, StacksOK
    <2>3. CASE Context(t, d, 0).on = "user"
      <3>1. su["user"] = st["user"]
        BY <2>3, <1>5 DEF Stacks
      <3> QED
        BY <2>3, <3>1, <1>4 DEF Shape, StacksOK
    <2> QED
      BY <2>1, <2>2, <2>3
  <1> QED
    BY <1>4, <1>7, <1>8 DEF Shape

LEMMA ShapeBase ==
  ASSUME NEW d, NEW q, NEW st, BootAt(d, q) \/ UserAt(d, q), StacksOK(d, << >>, st)
  PROVE  Shape(<< >>, d, q, st)
  BY DEF Shape, Context

(* An interruption: the current context is frozen as the record c.         *)
LEMMA ShapeEnter ==
  ASSUME NEW t \in Seq(Records), NEW c \in Records, NEW e, NEW q, NEW st, NEW su,
         Shape(t, Frozen(c), q, st), Handler(c, e),
         \A s \in Stacks : s # e.on => su[s] = st[s]
  PROVE  Shape(Append(t, c), e, q, su)
  <1> DEFINE n == Len(t)
             u == Append(t, c)
             d == Frozen(c)
  <1>1. n \in Nat /\ Len(u) = n + 1 /\ u[n + 1] = c /\ u # << >>
        /\ \A k \in 1 .. n : u[k] = t[k]
    BY AppendProperties, Sequences
  <1> HIDE DEF u
  <1>2. ASSUME NEW k \in 0 .. n
        PROVE  Context(u, e, k) = Context(t, d, k)
    <2>1. CASE k = n
      BY <2>1, <1>1 DEF Context
    <2>2. CASE k # n
      <3>1. k + 1 \in 1 .. n /\ k # Len(u)
        BY <2>2, <1>1
      <3> QED
        BY <3>1, <2>2, <1>1 DEF Context
    <2> QED
      BY <2>1, <2>2
  <1>3. Context(u, e, n + 1) = e /\ Context(t, d, n) = d /\ d.on = c.on
    BY <1>1 DEF Context, Frozen
  <1>4. Context(u, e, 0) = Context(t, d, 0)
    BY <1>1, <1>2
  <1>5. Context(t, d, 0).on = "boot" \/ Context(t, d, 0).on = "user"
    BY DEF Shape, BootAt, UserAt
  <1>6. e.on = IF Context(t, d, 0).on = "boot" THEN "boot" ELSE "kernel"
    <2>1. e.on = IF c.on = "user" THEN "kernel" ELSE c.on
      BY DEF Handler
    <2>2. CASE n = 0
      BY <2>1, <2>2, <1>3, <1>5
    <2>3. CASE n # 0
      <3>1. n \in 1 .. n
        BY <2>3, <1>1
      <3>2. c.on = IF Context(t, d, 0).on = "boot" THEN "boot" ELSE "kernel"
        BY <3>1, <1>3 DEF Shape
      <3> QED
        BY <2>1, <3>2
    <2> QED
      BY <2>2, <2>3
  <1>7. ASSUME NEW k \in 1 .. n + 1
        PROVE  /\ Handler(u[k], Context(u, e, k))
               /\ Context(u, e, k).on
                    = IF Context(u, e, 0).on = "boot" THEN "boot" ELSE "kernel"
    <2>1. CASE k = n + 1
      BY <2>1, <1>1, <1>3, <1>4, <1>6
    <2>2. CASE k # n + 1
      <3>1. k \in 1 .. n /\ k \in 0 .. n
        BY <2>2, <1>1
      <3> QED
        BY <3>1, <1>1, <1>2, <1>4 DEF Shape
    <2> QED
      BY <2>1, <2>2
  <1>8. StacksOK(Context(u, e, 0), u, su)
    <2>1. CASE Context(t, d, 0).on = "boot"
      <3>1. su["user"] = st["user"] /\ su["kernel"] = st["kernel"]
        BY <2>1, <1>6 DEF Stacks
      <3> QED
        BY <2>1, <3>1, <1>4 DEF Shape, StacksOK
    <2>2. CASE Context(t, d, 0).on = "user"
      <3>1. su["user"] = st["user"]
        BY <2>2, <1>6 DEF Stacks
      <3> QED
        BY <2>2, <3>1, <1>1, <1>4 DEF Shape, StacksOK
    <2> QED
      BY <2>1, <2>2, <1>5
  <1>9. BootAt(Context(u, e, 0), q) \/ UserAt(Context(u, e, 0), q)
    BY <1>4 DEF Shape
  <1>10. Len(u) = n + 1
    BY <1>1
  <1> HIDE DEF n, d
  <1>11. Shape(u, e, q, su)
    BY <1>7, <1>8, <1>9, <1>10 DEF Shape
  <1> QED
    BY <1>11 DEF u

(* A return, below which the context of the last record is unchanged.      *)
LEMMA ShapeReturn ==
  ASSUME NEW t \in Seq(Records), t # << >>, NEW d, NEW q, NEW st, NEW su,
         Shape(t, d, q, st),
         \A s \in Stacks : s # d.on => su[s] = st[s],
         Len(t) = 1 => StacksOK(Frozen(t[1]), << >>, su)
  PROVE  Shape(Front(t), Frozen(t[Len(t)]), q, su)
  <1> DEFINE n == Len(t)
             u == Front(t)
             e == Frozen(t[n])
  <1>1. n \in Nat /\ n >= 1
    BY Sequences, EmptySeq
  <1>2. /\ u \in Seq(Records) /\ Len(u) = n - 1
        /\ \A k \in 1 .. n - 1 : u[k] = t[k]
    <2> DEFINE m == 1
    <2>1. m \in Nat /\ m <= Len(t) /\ u = SubSeq(t, 1, Len(t) - m) /\ m = 1
      BY <1>1 DEF Front
    <2> HIDE DEF u, m
    <2>2. u \in Seq(Records) /\ Len(u) = n - m /\ \A k \in 1 .. n - m : u[k] = t[k]
      BY <2>1, Popped
    <2> QED
      BY <2>1, <2>2
  <1> HIDE DEF u
  <1>3. ASSUME NEW k \in 0 .. n - 1
        PROVE  Context(u, e, k) = Context(t, d, k)
    <2>1. k # n
      BY <1>1
    <2>2. CASE k = n - 1
      BY <2>1, <2>2, <1>1, <1>2 DEF Context
    <2>3. CASE k # n - 1
      <3>1. k + 1 \in 1 .. n - 1
        BY <2>3, <1>1
      <3> QED
        BY <3>1, <2>1, <2>3, <1>1, <1>2 DEF Context
    <2> QED
      BY <2>2, <2>3
  <1>4. Context(u, e, 0) = Context(t, d, 0)
    BY <1>1, <1>3
  <1>5. ASSUME NEW k \in 1 .. n - 1
        PROVE  /\ Handler(u[k], Context(u, e, k))
               /\ Context(u, e, k).on
                    = IF Context(u, e, 0).on = "boot" THEN "boot" ELSE "kernel"
    <2>1. k \in 1 .. n /\ k \in 0 .. n - 1
      BY <1>1
    <2> QED
      BY <2>1, <1>2, <1>3, <1>4 DEF Shape
  <1>6. StacksOK(Context(u, e, 0), u, su)
    <2>1. CASE n = 1
      <3>1. Len(u) = 0 /\ u = << >>
        <4>1. Len(u) = 0
          BY <2>1, <1>2
        <4> QED
          BY <4>1, <1>2, EmptySeq
      <3>2. Context(u, e, 0) = e
        BY <3>1 DEF Context
      <3> QED
        BY <2>1, <3>1, <3>2
    <2>2. CASE n # 1
      <3>1. Len(u) # 0 /\ u # << >>
        BY <2>2, <1>1, <1>2
      <3>2. n \in 1 .. n /\ Context(t, d, n) = d
        BY <1>1 DEF Context
      <3>3. d.on = IF Context(t, d, 0).on = "boot" THEN "boot" ELSE "kernel"
        BY <3>2 DEF Shape
      <3>4. Context(t, d, 0).on = "boot" \/ Context(t, d, 0).on = "user"
        BY DEF Shape, BootAt, UserAt
      <3>5. CASE Context(t, d, 0).on = "boot"
        <4>1. su["user"] = st["user"] /\ su["kernel"] = st["kernel"]
          BY <3>5, <3>3 DEF Stacks
        <4> QED
          BY <3>5, <4>1, <1>4 DEF Shape, StacksOK
      <3>6. CASE Context(t, d, 0).on = "user"
        <4>1. su["user"] = st["user"]
          BY <3>6, <3>3 DEF Stacks
        <4> QED
          BY <3>6, <4>1, <3>1, <1>4 DEF Shape, StacksOK
      <3> QED
        BY <3>4, <3>5, <3>6
    <2> QED
      BY <2>1, <2>2
  <1>7. BootAt(Context(u, e, 0), q) \/ UserAt(Context(u, e, 0), q)
    BY <1>4 DEF Shape
  <1> HIDE DEF e
  <1>8. Shape(u, e, q, su)
    BY <1>2, <1>5, <1>6, <1>7 DEF Shape
  <1> QED
    BY <1>8 DEF u, e

-----------------------------------------------------------------------------
(* The handlers.                                                           *)
LEMMA FrameIs ==
  ASSUME NEW c \in Records
  PROVE  LET f == Frame(c)
             b == IF c.on = "user" THEN 2 ELSE Len(c.below)
         IN  /\ f \in Seq(Words) /\ b \in Nat
             /\ Len(f) = b + (IF c.vector \in ErrorCodes THEN 4 ELSE 3)
             /\ c.on = "user" => f[1] = <<"ds", 3>> /\ f[2] = <<"user", Len(c.below)>>
             /\ c.on # "user" => \A k \in 1 .. b : f[k] = c.below[k]
             /\ f[b + 1] = <<"eflags", IF c.iff THEN 1 ELSE 0>>
             /\ f[b + 2] = <<"cs", IF c.on = "user" THEN 3 ELSE 0>>
             /\ f[b + 3] = c.pc
  <1> DEFINE u == << <<"ds", 3>>, <<"user", Len(c.below)>> >>
             l == IF c.on = "user" THEN u ELSE c.below
             m == << <<"eflags", IF c.iff THEN 1 ELSE 0>>,
                     <<"cs", IF c.on = "user" THEN 3 ELSE 0>>, c.pc >>
             e == IF c.vector \in ErrorCodes THEN << <<"error", c.vector>> >> ELSE << >>
             b == IF c.on = "user" THEN 2 ELSE Len(c.below)
  <1>1. c.below \in Seq(Words) /\ Len(c.below) \in Nat /\ c.pc \in Words
    <2>1. c.below \in Seq(Words) /\ c.pc \in Places
      BY DEF Records
    <2> QED
      BY <2>1, Sequences, KindsHave DEF Places, Words
  <1>2. u \in Seq(Words) /\ Len(u) = 2
    <2>1. <<"ds", 3>> \in Words /\ <<"user", Len(c.below)>> \in Words
      BY <1>1, KindsHave DEF Words, Stacks
    <2> QED
      BY <2>1
  <1>3. l \in Seq(Words) /\ Len(l) = b /\ b \in Nat
    BY <1>1, <1>2
  <1>4. /\ m \in Seq(Words) /\ Len(m) = 3
        /\ m[1] = <<"eflags", IF c.iff THEN 1 ELSE 0>>
        /\ m[2] = <<"cs", IF c.on = "user" THEN 3 ELSE 0>> /\ m[3] = c.pc
    <2>1. <<"eflags", IF c.iff THEN 1 ELSE 0>> \in Words
          /\ <<"cs", IF c.on = "user" THEN 3 ELSE 0>> \in Words
      BY KindsHave DEF Words
    <2> QED
      BY <1>1, <2>1
  <1>5. e \in Seq(Words) /\ Len(e) = IF c.vector \in ErrorCodes THEN 1 ELSE 0
    <2>1. <<"error", c.vector>> \in Words
      <3>1. c.vector \in Int
        BY DEF Records, Vectors, Timer, Keyboard, GETTID_INT
      <3> QED
        BY <3>1, KindsHave DEF Words
    <2> QED
      BY <2>1
  <1>6. Joined(l \o m, l, m) /\ Joined(Frame(c), l \o m, e)
    BY DEF Frame, Joined
  <1>7. c.on = "user" => l[1] = <<"ds", 3>> /\ l[2] = <<"user", Len(c.below)>>
    OBVIOUS
  <1>8. c.on # "user" => l = c.below
    OBVIOUS
  <1> HIDE DEF l, m, e, u
  <1>8a. l \in Seq(Words) /\ m \in Seq(Words) /\ e \in Seq(Words)
    BY <1>3, <1>4, <1>5
  <1>9. Frame(c) \in Seq(Words)
    BY <1>6, <1>8a, Joins3
  <1>11. Len(Frame(c)) = Len(l) + Len(m) + Len(e)
    BY <1>6, <1>8a, Joins3
  <1>12. \A k \in 1 .. Len(l) : Frame(c)[k] = l[k]
    BY <1>6, <1>8a, Joins3
  <1>19. \A k \in 1 .. Len(m) : Frame(c)[Len(l) + k] = m[k]
    BY <1>6, <1>8a, Joins3
  <1> HIDE DEF b
  <1>10. 1 \in 1 .. Len(m) /\ 2 \in 1 .. Len(m) /\ 3 \in 1 .. Len(m)
    BY <1>4
  <1>13. /\ Frame(c) \in Seq(Words)
         /\ Len(Frame(c)) = b + (IF c.vector \in ErrorCodes THEN 4 ELSE 3)
    BY <1>3, <1>4, <1>5, <1>9, <1>11
  <1>14. /\ \A k \in 1 .. b : Frame(c)[k] = l[k]
         /\ Frame(c)[b + 1] = m[1] /\ Frame(c)[b + 2] = m[2] /\ Frame(c)[b + 3] = m[3]
    BY <1>3, <1>10, <1>12, <1>19
  <1>15. c.on = "user" => b = 2
    BY DEF b
  <1>16. c.on = "user" => Frame(c)[1] = <<"ds", 3>> /\ Frame(c)[2] = <<"user", Len(c.below)>>
    BY <1>7, <1>14, <1>15
  <1>17. c.on # "user" => \A k \in 1 .. b : Frame(c)[k] = c.below[k]
    BY <1>8, <1>14
  <1>18. /\ Frame(c)[b + 1] = <<"eflags", IF c.iff THEN 1 ELSE 0>>
         /\ Frame(c)[b + 2] = <<"cs", IF c.on = "user" THEN 3 ELSE 0>>
         /\ Frame(c)[b + 3] = c.pc
    BY <1>4, <1>14
  <1> QED
    BY <1>3, <1>13, <1>16, <1>17, <1>18 DEF b

(* One instruction of a handler: it ends the machine, or goes on.          *)
Progress(c) ==
  /\ TypeInv' /\ Moves
  /\ ~down' => Handler(c, Now') /\ \A s \in Stacks : s # on => stack'[s] = stack[s]

Code1(c) == idt[c.vector].handler

LEMMA Advance ==
  ASSUME NEW c \in Records, Handler(c, Now), Moves, pc[2] + 1 \in 1 .. Length(Code1(c)),
         Active(Code1(c), pc[2] + 1, Frame(c), Kept(c), stack'[on], regs'),
         Code1(c) = "gettid_wrapper" /\ pc[2] + 1 >= 7 => regs'.eax = sys_gettid
  PROVE  Handler(c, Now')
  <1>1. /\ Now'.on = on /\ Now'.pc = <<pc[1], pc[2] + 1>> /\ Now'.below = stack'[on]
        /\ Now'.regs = regs'
    BY DEF Now, Moves
  <1>2. Now.on = on /\ Now.pc = pc
    BY DEF Now
  <1> QED
    BY <1>1, <1>2 DEF Handler, Code1

LEMMA HandlerHas ==
  ASSUME TypeInv, NEW c \in Records, Handler(c, Now)
  PROVE  /\ Active(Code1(c), pc[2], Frame(c), Kept(c), stack[on], regs)
         /\ pc[1] = Code1(c) /\ pc[2] \in 1 .. Length(Code1(c)) /\ pc[2] \in Nat
         /\ Code1(c) = "gettid_wrapper" /\ pc[2] >= 7 => regs.eax = sys_gettid
         /\ Frame(c) \in Seq(Words) /\ stack[on] \in Seq(Words) /\ Len(stack[on]) \in Nat
         /\ DOMAIN Kept(c) = Survive(c.vector) /\ Survive(c.vector) \subseteq Registers
         /\ Len(Frame(c)) \in Nat
         /\ Len(stack[on]) = Len(Frame(c)) + Depth(Code1(c), pc[2])
  <1>1. Now.on = on /\ Now.pc = pc /\ Now.below = stack[on] /\ Now.regs = regs
    BY DEF Now
  <1>2. Active(Code1(c), pc[2], Frame(c), Kept(c), stack[on], regs)
    BY <1>1 DEF Handler, Code1
  <1>3. stack[on] \in Seq(Words)
    BY DEF TypeInv
  <1>4. Frame(c) \in Seq(Words)
    BY FrameIs
  <1>5. Len(stack[on]) \in Nat /\ Len(Frame(c)) \in Nat
    BY <1>3, <1>4, Sequences
  <1>6. DOMAIN Kept(c) = Survive(c.vector) /\ Survive(c.vector) \subseteq Registers
    BY DEF Kept, Survive
  <1>7. pc[2] \in Nat
    BY <1>1 DEF Handler
  <1>8. Len(stack[on]) = Len(Frame(c)) + Depth(Code1(c), pc[2])
    BY <1>2 DEF Active
  <1> QED
    BY <1>1, <1>2, <1>3, <1>4, <1>5, <1>6, <1>7, <1>8 DEF Handler, Code1

(* The discipline that instruction i, before instruction j, keeps to.      *)
PushRule(h, i, j, r) ==
  /\ Depth(h, j) = Depth(h, i) + 1 /\ Same(h, j) \subseteq Same(h, i)
  /\ \/ Order(h)[Depth(h, j)] = r /\ r \in Same(h, i)
     \/ Order(h)[Depth(h, j)] \notin Registers
PopRule(h, i, j, r) ==
  /\ Depth(h, i) = Depth(h, j) + 1
  /\ \/ Order(h)[Depth(h, i)] = r /\ Same(h, j) \subseteq Same(h, i) \cup {r}
     \/ Same(h, j) \subseteq Same(h, i) \ {r}
AllRule(h, i, j) ==
  /\ Depth(h, i) = 0 /\ Depth(h, j) = 8
  /\ \A k \in 1 .. 8 : Order(h)[k] = AllRegisters[k]
WriteRule(h, i, j, W) == Depth(h, i) = Depth(h, j) /\ Same(h, j) \subseteq Same(h, i) \ W

LEMMA HandlerPush ==
  ASSUME TypeInv, Exec, NEW c \in Records, Handler(c, Now), pc[1] \in DOMAIN Code,
         NEW h, h = Code1(c), NEW i, i = pc[2], NEW j, j = i + 1, j \in 1 .. Length(h),
         NEW r \in Registers, Instr = <<"push", r>>,
         PushRule(h, i, j, r),
         h = "gettid_wrapper" => j < 7
  PROVE  Progress(c)
  <1>1. /\ TypeInv' /\ Moves /\ regs' = regs
        /\ ~down' => Stacked(stack[on] \o <<regs[r]>>)
    BY PushStep
  <1> SUFFICES ASSUME ~down'
               PROVE  Handler(c, Now') /\ \A s \in Stacks : s # on => stack'[s] = stack[s]
    BY <1>1 DEF Progress
  <1> DEFINE w == <<regs[r]>>
  <1>2. w \in Seq(Words) /\ Len(w) = 1 /\ w[1] = regs[r]
    BY DEF TypeInv, Files
  <1>3. /\ Active(h, i, Frame(c), Kept(c), stack[on], regs) /\ i \in Nat
        /\ Frame(c) \in Seq(Words) /\ stack[on] \in Seq(Words)
        /\ DOMAIN Kept(c) = Survive(c.vector) /\ Survive(c.vector) \subseteq Registers
    BY HandlerHas
  <1> HIDE DEF w
  <1>4. ASSUME NEW k \in 1 .. Len(w), Order(h)[Depth(h, i) + k] \in DOMAIN Kept(c)
        PROVE  w[k] = Kept(c)[Order(h)[Depth(h, i) + k]]
    <2>1. k = 1
      BY <1>2
    <2>2. Order(h)[Depth(h, i) + 1] = r /\ r \in Same(h, i)
      BY <2>1, <1>3, <1>4 DEF PushRule
    <2>3. regs[r] = Kept(c)[r]
      BY <2>1, <2>2, <1>3, <1>4 DEF Active
    <2> QED
      BY <2>1, <2>2, <2>3, <1>2
  <1>5. Active(h, j, Frame(c), Kept(c), stack[on] \o w, regs)
    <2>1. j \in Nat /\ Depth(h, j) = Depth(h, i) + Len(w)
      BY <1>2, <1>3 DEF PushRule
    <2>2. Pushes(h, Depth(h, i), w, Kept(c))
      BY <1>4 DEF Pushes
    <2> QED
      BY <2>1, <2>2, <1>2, <1>3, ActivePush DEF PushRule
  <1>6. Stacked(stack[on] \o w)
    BY <1>1 DEF w
  <1> QED
    BY <1>1, <1>5, <1>6, Advance DEF Stacked

LEMMA HandlerPop ==
  ASSUME TypeInv, Exec, NEW c \in Records, Handler(c, Now), pc[1] \in DOMAIN Code,
         NEW h, h = Code1(c), NEW i, i = pc[2], NEW j, j = i + 1, j \in 1 .. Length(h),
         NEW r \in Registers, Instr = <<"pop", r>>, r # "eax",
         PopRule(h, i, j, r),
         h = "gettid_wrapper" /\ j >= 7 => i >= 7
  PROVE  Progress(c)
  <1>1. /\ Active(h, i, Frame(c), Kept(c), stack[on], regs) /\ i \in Nat
        /\ Frame(c) \in Seq(Words) /\ stack[on] \in Seq(Words) /\ Len(stack[on]) \in Nat
        /\ DOMAIN Kept(c) = Survive(c.vector) /\ Survive(c.vector) \subseteq Registers
        /\ h = "gettid_wrapper" /\ i >= 7 => regs.eax = sys_gettid
        /\ Len(Frame(c)) \in Nat /\ Len(stack[on]) = Len(Frame(c)) + Depth(h, i)
    BY HandlerHas
  <1>2. Depth(h, j) \in Nat /\ Len(stack[on]) >= 1
    BY <1>1, OrderDepth DEF PopRule
  <1>3. /\ TypeInv' /\ Moves /\ ~down'
        /\ Wrote(r, stack[on][Len(stack[on])])
        /\ Stacked(SubSeq(stack[on], 1, Len(stack[on]) - 1))
    BY <1>2, PopIs
  <1> DEFINE n == 1
             s == stack[on]
  <1>4. ASSUME NEW x \in Same(h, j) \cap DOMAIN Kept(c)
        PROVE  \/ x \in Same(h, i) /\ regs'[x] = regs[x]
               \/ \E k \in 1 .. n : Order(h)[Depth(h, j) + k] = x
                                    /\ regs'[x] = s[Len(s) - n + k]
    <2>1. CASE x # r
      BY <2>1, <1>1, <1>3, <1>4 DEF Wrote, PopRule
    <2>2. CASE x = r
      <3>1. Order(h)[Depth(h, j) + 1] = x
        BY <2>2, <1>4 DEF PopRule
      <3>2. regs'[x] = s[Len(s)] /\ Len(s) - 1 + 1 = Len(s)
        BY <2>2, <1>1, <1>3 DEF Wrote
      <3> QED
        BY <3>1, <3>2
    <2> QED
      BY <2>1, <2>2
  <1>5. n \in Nat /\ j \in Nat /\ Depth(h, i) = Depth(h, j) + n
    BY <1>1 DEF PopRule
  <1>6. Stacked(SubSeq(s, 1, Len(s) - n))
    BY <1>3
  <1> HIDE DEF n, s
  <1>7. Active(h, j, Frame(c), Kept(c), SubSeq(s, 1, Len(s) - n), regs')
    <2>1. Pops(h, i, j, Kept(c), n, s, regs, regs')
      BY <1>4 DEF Pops
    <2>2. s \in Seq(Words) /\ Active(h, i, Frame(c), Kept(c), s, regs)
      BY <1>1 DEF s
    <2> QED
      BY <2>1, <2>2, <1>1, <1>5, ActivePop
  <1>8. h = "gettid_wrapper" /\ j >= 7 => regs'.eax = sys_gettid
    BY <1>1, <1>3, Registered DEF Wrote
  <1> QED
    BY <1>3, <1>6, <1>7, <1>8, Advance DEF Stacked, Progress

LEMMA HandlerPusha ==
  ASSUME TypeInv, Exec, NEW c \in Records, Handler(c, Now), pc[1] \in DOMAIN Code,
         NEW h, h = Code1(c), NEW i, i = pc[2], NEW j, j = i + 1, j \in 1 .. Length(h),
         Instr = <<"pusha">>, AllRule(h, i, j), Same(h, j) \subseteq Same(h, i),
         Survive(c.vector) \subseteq Same(h, i),
         h # "gettid_wrapper"
  PROVE  Progress(c)
  <1>1. /\ TypeInv' /\ Moves /\ regs' = regs
        /\ \E w \in Seq(Words) :
             /\ Len(w) = 8
             /\ \A k \in 1 .. 8 : AllRegisters[k] \in Registers => w[k] = regs[AllRegisters[k]]
             /\ ~down' => Stacked(stack[on] \o w)
    BY PushaIs
  <1> SUFFICES ASSUME ~down'
               PROVE  Handler(c, Now') /\ \A s \in Stacks : s # on => stack'[s] = stack[s]
    BY <1>1 DEF Progress
  <1>2. PICK w \in Seq(Words) :
          /\ Len(w) = 8
          /\ \A k \in 1 .. 8 : AllRegisters[k] \in Registers => w[k] = regs[AllRegisters[k]]
          /\ Stacked(stack[on] \o w)
    BY <1>1
  <1>3. /\ Active(h, i, Frame(c), Kept(c), stack[on], regs) /\ i \in Nat
        /\ Frame(c) \in Seq(Words) /\ stack[on] \in Seq(Words)
        /\ DOMAIN Kept(c) = Survive(c.vector) /\ Survive(c.vector) \subseteq Registers
    BY HandlerHas
  <1>4. ASSUME NEW k \in 1 .. Len(w), Order(h)[Depth(h, i) + k] \in DOMAIN Kept(c)
        PROVE  w[k] = Kept(c)[Order(h)[Depth(h, i) + k]]
    <2>1. k \in 1 .. 8 /\ Depth(h, i) + k = k
      BY <1>2 DEF AllRule
    <2>2. Order(h)[k] \in Same(h, i) /\ AllRegisters[k] = Order(h)[k]
      BY <2>1, <1>3, <1>4 DEF AllRule
    <2>3. regs[Order(h)[k]] = Kept(c)[Order(h)[k]]
      BY <2>1, <2>2, <1>3, <1>4 DEF Active
    <2>4. w[k] = regs[AllRegisters[k]]
      BY <2>1, <2>2, <1>2, <1>3, <1>4
    <2> QED
      BY <2>1, <2>2, <2>3, <2>4
  <1>5. Active(h, j, Frame(c), Kept(c), stack[on] \o w, regs)
    <2>1. j \in Nat /\ Depth(h, j) = Depth(h, i) + Len(w)
      BY <1>2, <1>3 DEF AllRule
    <2>2. Pushes(h, Depth(h, i), w, Kept(c))
      BY <1>4 DEF Pushes
    <2> QED
      BY <2>1, <2>2, <1>2, <1>3, ActivePush
  <1> QED
    BY <1>1, <1>2, <1>5, Advance DEF Stacked

LEMMA HandlerPopa ==
  ASSUME TypeInv, Exec, NEW c \in Records, Handler(c, Now), pc[1] \in DOMAIN Code,
         NEW h, h = Code1(c), NEW i, i = pc[2], NEW j, j = i + 1, j \in 1 .. Length(h),
         Instr = <<"popa">>, AllRule(h, j, i),
         Segments \subseteq Same(h, i), Same(h, j) \subseteq Registers,
         h # "gettid_wrapper"
  PROVE  Progress(c)
  <1>1. /\ Active(h, i, Frame(c), Kept(c), stack[on], regs) /\ i \in Nat
        /\ Frame(c) \in Seq(Words) /\ stack[on] \in Seq(Words) /\ Len(stack[on]) \in Nat
        /\ DOMAIN Kept(c) = Survive(c.vector) /\ Survive(c.vector) \subseteq Registers
        /\ Len(Frame(c)) \in Nat /\ Len(stack[on]) = Len(Frame(c)) + Depth(h, i)
    BY HandlerHas
  <1>2. Len(stack[on]) >= 8
    BY <1>1 DEF AllRule
  <1> DEFINE n == 8
             s == stack[on]
  <1>3. /\ TypeInv' /\ Moves /\ ~down'
        /\ \A r \in Registers :
             \/ \E k \in 1 .. 8 : AllRegisters[k] = r
                                  /\ regs'[r] = s[Len(s) - 8 + k]
             \/ r \in Segments /\ regs'[r] = regs[r]
        /\ Stacked(SubSeq(s, 1, Len(s) - 8))
    BY <1>2, PopaIs
  <1>4. ASSUME NEW x \in Same(h, j) \cap DOMAIN Kept(c)
        PROVE  \/ x \in Same(h, i) /\ regs'[x] = regs[x]
               \/ \E k \in 1 .. n : Order(h)[Depth(h, j) + k] = x
                                    /\ regs'[x] = s[Len(s) - n + k]
    <2>1. CASE x \in Segments /\ regs'[x] = regs[x]
      BY <2>1
    <2>2. CASE \E k \in 1 .. 8 : AllRegisters[k] = x /\ regs'[x] = s[Len(s) - 8 + k]
      <3>1. PICK k \in 1 .. 8 : AllRegisters[k] = x /\ regs'[x] = s[Len(s) - 8 + k]
        BY <2>2
      <3>2. Order(h)[Depth(h, j) + k] = x
        BY <3>1 DEF AllRule
      <3> QED
        BY <3>1, <3>2
    <2> QED
      BY <2>1, <2>2, <1>3
  <1>5. n \in Nat /\ j \in Nat /\ Depth(h, i) = Depth(h, j) + n /\ Stacked(SubSeq(s, 1, Len(s) - n))
    BY <1>1, <1>3 DEF AllRule
  <1> HIDE DEF n, s
  <1>7. Active(h, j, Frame(c), Kept(c), SubSeq(s, 1, Len(s) - n), regs')
    <2>1. Pops(h, i, j, Kept(c), n, s, regs, regs')
      BY <1>4 DEF Pops
    <2>2. s \in Seq(Words) /\ Active(h, i, Frame(c), Kept(c), s, regs)
      BY <1>1 DEF s
    <2> QED
      BY <2>1, <2>2, <1>1, <1>5, ActivePop
  <1> QED
    BY <1>3, <1>5, <1>7, Advance DEF Stacked, Progress

(* An instruction that leaves the stack alone and may write W.             *)
LEMMA HandlerWrite ==
  ASSUME TypeInv, NEW c \in Records, Handler(c, Now),
         NEW h, h = Code1(c), NEW i, i = pc[2], NEW j, j = i + 1, j \in 1 .. Length(h),
         NEW W, TypeInv', Moves, stack' = stack,
         \A x \in Registers : x \notin W => regs'[x] = regs[x],
         WriteRule(h, i, j, W),
         h = "gettid_wrapper" => j < 7 \/ regs'.eax = sys_gettid
  PROVE  Progress(c)
  <1>1. /\ Active(h, i, Frame(c), Kept(c), stack[on], regs)
        /\ DOMAIN Kept(c) = Survive(c.vector) /\ Survive(c.vector) \subseteq Registers
        /\ i \in Nat
    BY HandlerHas
  <1>2. Active(h, j, Frame(c), Kept(c), stack[on], regs')
    <2>1. \A x \in Same(h, j) \cap DOMAIN Kept(c) : x \in Same(h, i) /\ regs'[x] = regs[x]
      BY <1>1 DEF WriteRule
    <2> QED
      BY <1>1, <2>1, ActiveSet DEF WriteRule
  <1> QED
    BY <1>1, <1>2, Advance DEF Progress

(* gettid_wrapper: its code, and that it keeps to the discipline.          *)
LEMMA InstrIs ==
  ASSUME pc[1] \in DOMAIN Code
  PROVE  Instr = Code[pc[1]][pc[2]]
  BY CodeIs DEF Instr

LEMMA GettidCode ==
  LET g == gettid_wrapper
  IN  /\ g[1] = <<"push", "ebp">> /\ g[2] = <<"mov", "esp", "ebp">> /\ g[3] = <<"push", "ebx">>
      /\ g[4] = <<"push", "edi">> /\ g[5] = <<"push", "esi">>
      /\ g[6] = <<"ccall", "sys_gettid">>
      /\ g[7] = <<"pop", "esi">> /\ g[8] = <<"pop", "edi">> /\ g[9] = <<"pop", "ebx">>
      /\ g[10] = <<"pop", "ebp">> /\ g[11] = <<"iret">>
  BY DEF gettid_wrapper

LEMMA GettidRules ==
  LET h == "gettid_wrapper"
  IN  /\ PushRule(h, 1, 2, "ebp") /\ WriteRule(h, 2, 3, {"ebp"}) /\ PushRule(h, 3, 4, "ebx")
      /\ PushRule(h, 4, 5, "edi") /\ PushRule(h, 5, 6, "esi") /\ WriteRule(h, 6, 7, Scratch)
      /\ PopRule(h, 7, 8, "esi") /\ PopRule(h, 8, 9, "edi") /\ PopRule(h, 9, 10, "ebx")
      /\ PopRule(h, 10, 11, "ebp")
  <1> DEFINE h == "gettid_wrapper"
  <1>1. /\ Order(h)[1] = "ebp" /\ Order(h)[2] = "ebx" /\ Order(h)[3] = "edi"
        /\ Order(h)[4] = "esi"
    BY DEF Order
  <1>2. /\ Depth(h, 1) = 0 /\ Depth(h, 2) = 1 /\ Depth(h, 3) = 1 /\ Depth(h, 4) = 2
        /\ Depth(h, 5) = 3 /\ Depth(h, 6) = 4 /\ Depth(h, 7) = 4 /\ Depth(h, 8) = 3
        /\ Depth(h, 9) = 2 /\ Depth(h, 10) = 1 /\ Depth(h, 11) = 0
    BY DEF Depth
  <1>3. \A i \in {1, 2, 11} : Same(h, i) = Registers \ Scratch
    BY DEF Same
  <1>4. \A i \in 3 .. 10 : Same(h, i) = (Registers \ Scratch) \ {"ebp"}
    BY DEF Same
  <1>5. {"ebx", "edi", "esi"} \subseteq (Registers \ Scratch) \ {"ebp"}
        /\ "ebp" \in Registers \ Scratch
    BY Registered DEF Scratch
  <1> HIDE DEF h
  <1>6. PushRule(h, 1, 2, "ebp") /\ PushRule(h, 3, 4, "ebx") /\ PushRule(h, 4, 5, "edi")
        /\ PushRule(h, 5, 6, "esi")
    BY <1>1, <1>2, <1>3, <1>4, <1>5 DEF PushRule
  <1>7. WriteRule(h, 2, 3, {"ebp"}) /\ WriteRule(h, 6, 7, Scratch)
    BY <1>2, <1>3, <1>4 DEF WriteRule
  <1>8. PopRule(h, 7, 8, "esi") /\ PopRule(h, 8, 9, "edi") /\ PopRule(h, 9, 10, "ebx")
        /\ PopRule(h, 10, 11, "ebp")
    BY <1>1, <1>2, <1>3, <1>4, <1>5 DEF PopRule
  <1> QED
    BY <1>6, <1>7, <1>8 DEF h

LEMMA Lengths ==
  /\ Length("gettid_wrapper") = 11 /\ Length("exception_wrapper") = 8
  /\ Length("timer_wrapper") = 4 /\ Length("keyboard_wrapper") = 4
  BY DEF Length

LEMMA GettidStep ==
  ASSUME TypeInv, Exec, NEW c \in Records, Handler(c, Now), Code1(c) = "gettid_wrapper",
         pc[2] # 11
  PROVE  Progress(c)
  <1> DEFINE h == "gettid_wrapper"
             i == pc[2]
             j == i + 1
  <1>1. /\ pc[1] = h /\ i \in 1 .. 11 /\ pc[1] \in DOMAIN Code
        /\ (i >= 7 => regs.eax = sys_gettid)
    BY HandlerHas, CodeIs, Lengths
  <1>2. Instr = gettid_wrapper[i]
    BY <1>1, InstrIs, CodeIs
  <1>3. i \in 1 .. 10 /\ j \in 1 .. Length(h) /\ h = Code1(c)
    BY <1>1, Lengths
  <1>4. CASE i = 1
    <2>1. i = 1 /\ j = 2 /\ Instr = gettid_wrapper[1]
      BY <1>2, <1>4
    <2>2. Instr = <<"push", "ebp">> /\ "ebp" \in Registers
      BY <2>1, GettidCode, Registered
    <2> HIDE DEF h, i, j
    <2>3. PushRule(h, i, j, "ebp")
      BY <2>1, GettidRules DEF h
    <2> QED
      BY <1>1, <1>3, <2>1, <2>2, <2>3, HandlerPush DEF h, i, j
  <1>5. CASE i = 2
    <2>1. i = 2 /\ j = 3 /\ Instr = gettid_wrapper[2]
      BY <1>2, <1>5
    <2>2. /\ TypeInv' /\ Moves /\ stack' = stack
          /\ \A x \in Registers : x # "ebp" => regs'[x] = regs[x]
      BY <1>1, <2>1, GettidCode, MovIs DEF Wrote
    <2> HIDE DEF h, i, j
    <2>3. WriteRule(h, i, j, {"ebp"})
      BY <2>1, GettidRules DEF h
    <2>4. \A x \in Registers : x \notin {"ebp"} => regs'[x] = regs[x]
      BY <2>2
    <2> QED
      BY <1>1, <1>3, <2>1, <2>2, <2>3, <2>4, HandlerWrite DEF h, i, j
  <1>6. CASE i = 3
    <2>1. i = 3 /\ j = 4 /\ Instr = gettid_wrapper[3]
      BY <1>2, <1>6
    <2>2. Instr = <<"push", "ebx">> /\ "ebx" \in Registers
      BY <2>1, GettidCode, Registered
    <2> HIDE DEF h, i, j
    <2>3. PushRule(h, i, j, "ebx")
      BY <2>1, GettidRules DEF h
    <2> QED
      BY <1>1, <1>3, <2>1, <2>2, <2>3, HandlerPush DEF h, i, j
  <1>7. CASE i = 4
    <2>1. i = 4 /\ j = 5 /\ Instr = gettid_wrapper[4]
      BY <1>2, <1>7
    <2>2. Instr = <<"push", "edi">> /\ "edi" \in Registers
      BY <2>1, GettidCode, Registered
    <2> HIDE DEF h, i, j
    <2>3. PushRule(h, i, j, "edi")
      BY <2>1, GettidRules DEF h
    <2> QED
      BY <1>1, <1>3, <2>1, <2>2, <2>3, HandlerPush DEF h, i, j
  <1>8. CASE i = 5
    <2>1. i = 5 /\ j = 6 /\ Instr = gettid_wrapper[5]
      BY <1>2, <1>8
    <2>2. Instr = <<"push", "esi">> /\ "esi" \in Registers
      BY <2>1, GettidCode, Registered
    <2> HIDE DEF h, i, j
    <2>3. PushRule(h, i, j, "esi")
      BY <2>1, GettidRules DEF h
    <2> QED
      BY <1>1, <1>3, <2>1, <2>2, <2>3, HandlerPush DEF h, i, j
  <1>9. CASE i = 6
    <2>1. i = 6 /\ j = 7 /\ Instr = gettid_wrapper[6]
      BY <1>2, <1>9
    <2>2. /\ TypeInv' /\ Moves /\ stack' = stack /\ regs'.eax = sys_gettid
          /\ \A x \in Registers : x \notin Scratch => regs'[x] = regs[x]
      BY <1>1, <2>1, GettidCode, CcallIs
    <2> HIDE DEF h, i, j
    <2>3. WriteRule(h, i, j, Scratch)
      BY <2>1, GettidRules DEF h
    <2> QED
      BY <1>1, <1>3, <2>1, <2>2, <2>3, HandlerWrite DEF h, i, j
  <1>10. CASE i = 7
    <2>1. i = 7 /\ j = 8 /\ Instr = gettid_wrapper[7]
      BY <1>2, <1>10
    <2>2. Instr = <<"pop", "esi">> /\ "esi" \in Registers
      BY <2>1, GettidCode, Registered
    <2> HIDE DEF h, i, j
    <2>3. PopRule(h, i, j, "esi")
      BY <2>1, GettidRules DEF h
    <2> QED
      BY <1>1, <1>3, <2>1, <2>2, <2>3, HandlerPop DEF h, i, j
  <1>11. CASE i = 8
    <2>1. i = 8 /\ j = 9 /\ Instr = gettid_wrapper[8]
      BY <1>2, <1>11
    <2>2. Instr = <<"pop", "edi">> /\ "edi" \in Registers
      BY <2>1, GettidCode, Registered
    <2> HIDE DEF h, i, j
    <2>3. PopRule(h, i, j, "edi")
      BY <2>1, GettidRules DEF h
    <2> QED
      BY <1>1, <1>3, <2>1, <2>2, <2>3, HandlerPop DEF h, i, j
  <1>12. CASE i = 9
    <2>1. i = 9 /\ j = 10 /\ Instr = gettid_wrapper[9]
      BY <1>2, <1>12
    <2>2. Instr = <<"pop", "ebx">> /\ "ebx" \in Registers
      BY <2>1, GettidCode, Registered
    <2> HIDE DEF h, i, j
    <2>3. PopRule(h, i, j, "ebx")
      BY <2>1, GettidRules DEF h
    <2> QED
      BY <1>1, <1>3, <2>1, <2>2, <2>3, HandlerPop DEF h, i, j
  <1>13. CASE i = 10
    <2>1. i = 10 /\ j = 11 /\ Instr = gettid_wrapper[10]
      BY <1>2, <1>13
    <2>2. Instr = <<"pop", "ebp">> /\ "ebp" \in Registers
      BY <2>1, GettidCode, Registered
    <2> HIDE DEF h, i, j
    <2>3. PopRule(h, i, j, "ebp")
      BY <2>1, GettidRules DEF h
    <2> QED
      BY <1>1, <1>3, <2>1, <2>2, <2>3, HandlerPop DEF h, i, j
  <1> QED
    BY <1>3, <1>4, <1>5, <1>6, <1>7, <1>8, <1>9, <1>10, <1>11, <1>12, <1>13

LEMMA OrderIs ==
  ASSUME NEW h \in {"timer_wrapper", "keyboard_wrapper", "exception_wrapper"}
  PROVE  /\ \A k \in 1 .. 8 : Order(h)[k] = AllRegisters[k]
         /\ Order(h)[9] = "error code"
  <1> DEFINE o == Order(h)
  <1>1. /\ o[1] = "eax" /\ o[2] = "ecx" /\ o[3] = "edx" /\ o[4] = "ebx" /\ o[5] = "esp"
        /\ o[6] = "ebp" /\ o[7] = "esi" /\ o[8] = "edi" /\ o[9] = "error code"
    BY DEF Order
  <1> HIDE DEF o
  <1>2. \A k \in 1 .. 8 : o[k] = AllRegisters[k]
    BY <1>1, AllRegistersAre
  <1> QED
    BY <1>1, <1>2 DEF o

LEMMA TimerCode ==
  /\ \A g \in {timer_wrapper, keyboard_wrapper} : g[1] = <<"pusha">> /\ g[3] = <<"popa">>
  /\ timer_wrapper[2] = <<"ccall", "timer_interrupt_handler">>
  /\ keyboard_wrapper[2] = <<"ccall", "keyboard_interrupt_handler">>
  /\ timer_wrapper[4] = <<"iret">> /\ keyboard_wrapper[4] = <<"iret">>
  BY DEF timer_wrapper, keyboard_wrapper

LEMMA TimerRules ==
  ASSUME NEW h \in {"timer_wrapper", "keyboard_wrapper"}
  PROVE  /\ AllRule(h, 1, 2) /\ AllRule(h, 4, 3) /\ WriteRule(h, 2, 3, Scratch)
         /\ Same(h, 1) = Registers /\ Same(h, 2) = Registers /\ Same(h, 4) = Registers
         /\ Segments \subseteq Same(h, 3)
  <1>1. \A k \in 1 .. 8 : Order(h)[k] = AllRegisters[k]
    BY OrderIs
  <1>2. Depth(h, 1) = 0 /\ Depth(h, 2) = 8 /\ Depth(h, 3) = 8 /\ Depth(h, 4) = 0
    BY DEF Depth
  <1>3. /\ Same(h, 1) = Registers /\ Same(h, 2) = Registers /\ Same(h, 4) = Registers
        /\ Same(h, 3) = Registers \ Scratch
    BY DEF Same
  <1>4. Segments \subseteq Registers \ Scratch
    BY Registered DEF Scratch
  <1> QED
    BY <1>1, <1>2, <1>3, <1>4 DEF AllRule, WriteRule

LEMMA ExceptionCode ==
  LET g == exception_wrapper
  IN  /\ g[1] = <<"mov", "esp", "ebp">> /\ g[2] = <<"pusha">> /\ g[3] = <<"load0", "ebx">>
      /\ g[4] = <<"push", "ebx">> /\ g[5] = <<"ccall", "exception_handler">>
      /\ g[6] = <<"pop", "ebx">> /\ g[7] = <<"popa">> /\ g[8] = <<"iret">>
  BY DEF exception_wrapper

LEMMA ExceptionRules ==
  LET h == "exception_wrapper"
  IN  /\ WriteRule(h, 1, 2, {"ebp"}) /\ AllRule(h, 2, 3) /\ WriteRule(h, 3, 4, {"ebx"})
      /\ PushRule(h, 4, 5, "ebx") /\ WriteRule(h, 5, 6, Scratch) /\ PopRule(h, 6, 7, "ebx")
      /\ AllRule(h, 8, 7)
      /\ Same(h, 2) = Registers \ {"ebp"} /\ Same(h, 3) = Registers \ {"ebp"}
      /\ Segments \subseteq Same(h, 7) /\ Same(h, 8) = Registers \ {"ebp"}
  <1> DEFINE h == "exception_wrapper"
  <1>1. \A k \in 1 .. 8 : Order(h)[k] = AllRegisters[k]
    BY OrderIs
  <1>2. Order(h)[9] \notin Registers
    BY OrderIs, Registered
  <1>3. /\ Depth(h, 1) = 0 /\ Depth(h, 2) = 0 /\ Depth(h, 3) = 8 /\ Depth(h, 4) = 8
        /\ Depth(h, 5) = 9 /\ Depth(h, 6) = 9 /\ Depth(h, 7) = 8 /\ Depth(h, 8) = 0
    BY DEF Depth
  <1>4. \A i \in {1, 2, 3, 8} : Same(h, i) = Registers \ {"ebp"}
    BY DEF Same
  <1>5. \A i \in {4, 5} : Same(h, i) = (Registers \ {"ebp"}) \ {"ebx"}
    BY DEF Same
  <1>6. \A i \in {6, 7} : Same(h, i) = (Registers \ {"ebp"}) \ (Scratch \cup {"ebx"})
    BY DEF Same
  <1>7. Segments \subseteq (Registers \ {"ebp"}) \ (Scratch \cup {"ebx"})
    BY Registered DEF Scratch
  <1> HIDE DEF h
  <1>8. AllRule(h, 2, 3) /\ AllRule(h, 8, 7)
    BY <1>1, <1>3 DEF AllRule
  <1>9. /\ WriteRule(h, 1, 2, {"ebp"}) /\ WriteRule(h, 3, 4, {"ebx"})
        /\ WriteRule(h, 5, 6, Scratch)
    BY <1>3, <1>4, <1>5, <1>6 DEF WriteRule
  <1>10. PushRule(h, 4, 5, "ebx") /\ PopRule(h, 6, 7, "ebx")
    BY <1>2, <1>3, <1>5, <1>6 DEF PushRule, PopRule
  <1>11. /\ Same(h, 2) = Registers \ {"ebp"} /\ Same(h, 3) = Registers \ {"ebp"}
         /\ Segments \subseteq Same(h, 7) /\ Same(h, 8) = Registers \ {"ebp"}
    BY <1>4, <1>6, <1>7
  <1> QED
    BY <1>8, <1>9, <1>10, <1>11 DEF h

(* Which vectors come to which code.                                       *)
LEMMA Code1Is ==
  ASSUME NEW c \in Records, Raised(c)
  PROVE  /\ c.vector \in Vectors
         /\ \/ c.vector = GETTID_INT /\ Code1(c) = "gettid_wrapper"
               /\ Survive(c.vector) = Registers \ Scratch
            \/ c.vector = Timer /\ Code1(c) = "timer_wrapper" /\ Survive(c.vector) = Registers
            \/ c.vector = Keyboard /\ Code1(c) = "keyboard_wrapper"
               /\ Survive(c.vector) = Registers
            \/ c.vector \in 0 .. 19 /\ c.vector # 15 /\ Code1(c) = "exception_wrapper"
               /\ Survive(c.vector) = Registers \ {"ebp"}
  <1>1. c.vector \in Vectors
    BY DEF Records
  <1>2. c.vector # 15
    BY DEF Raised, GETTID_INT, Timer, Keyboard, ErrorCodes
  <1>3. c.vector = GETTID_INT \/ c.vector = Timer \/ c.vector = Keyboard \/ c.vector \in 0 .. 19
    BY <1>1 DEF Vectors
  <1> QED
    BY <1>1, <1>2, <1>3, IdtIs, SurviveIs DEF Code1

LEMMA TimerStep ==
  ASSUME TypeInv, Exec, NEW c \in Records, Handler(c, Now),
         Code1(c) \in {"timer_wrapper", "keyboard_wrapper"},
         pc[2] # 4
  PROVE  Progress(c)
  <1> DEFINE h == Code1(c)
             i == pc[2]
             j == i + 1
  <1>1. pc[1] = h /\ i \in 1 .. 4 /\ pc[1] \in DOMAIN Code
    BY HandlerHas, CodeIs, Lengths
  <1>2. Instr = timer_wrapper[i] \/ Instr = keyboard_wrapper[i]
    BY <1>1, InstrIs, CodeIs
  <1>3. i \in 1 .. 3 /\ j \in 1 .. Length(h) /\ h = Code1(c) /\ h # "gettid_wrapper"
    BY <1>1, Lengths
  <1>4. h \in {"timer_wrapper", "keyboard_wrapper"} /\ Survive(c.vector) = Registers
    BY Code1Is DEF Handler
  <1>5. CASE i = 1
    <2>1. i = 1 /\ j = 2
      BY <1>5
    <2>2. Instr = <<"pusha">>
      BY <1>2, <2>1, TimerCode
    <2> HIDE DEF h, i, j
    <2>3. AllRule(h, i, j)
      BY <2>1, <1>4, TimerRules
    <2>4. Same(h, j) \subseteq Same(h, i)
      BY <2>1, <1>4, TimerRules
    <2>5. Survive(c.vector) \subseteq Same(h, i)
      BY <2>1, <1>4, <1>4, TimerRules
    <2> QED
      BY <1>1, <1>3, <2>1, <2>2, <2>3, <2>4, <2>5, HandlerPusha DEF h, i, j
  <1>6. CASE i = 2
    <2>1. i = 2 /\ j = 3
      BY <1>6
    <2>5. PICK f : Instr = <<"ccall", f>>
      BY <1>2, <2>1, TimerCode
    <2>2. /\ TypeInv' /\ Moves /\ stack' = stack
          /\ \A x \in Registers : x \notin Scratch => regs'[x] = regs[x]
      BY <1>1, <2>5, CcallIs
    <2> HIDE DEF h, i, j
    <2>3. WriteRule(h, i, j, Scratch)
      BY <2>1, <1>4, TimerRules
    <2> QED
      BY <1>1, <1>3, <2>1, <2>2, <2>3, HandlerWrite DEF h, i, j
  <1>7. CASE i = 3
    <2>1. i = 3 /\ j = 4
      BY <1>7
    <2>2. Instr = <<"popa">>
      BY <1>2, <2>1, TimerCode
    <2> HIDE DEF h, i, j
    <2>3. AllRule(h, j, i)
      BY <2>1, <1>4, TimerRules
    <2>4. Segments \subseteq Same(h, i) /\ Same(h, j) \subseteq Registers
      BY <2>1, <1>4, TimerRules
    <2> QED
      BY <1>1, <1>3, <2>1, <2>2, <2>3, <2>4, HandlerPopa DEF h, i, j
  <1> QED
    BY <1>3, <1>5, <1>6, <1>7

LEMMA ExceptionStep ==
  ASSUME TypeInv, Exec, NEW c \in Records, Handler(c, Now), Code1(c) = "exception_wrapper",
         pc[2] # 8
  PROVE  Progress(c)
  <1> DEFINE h == "exception_wrapper"
             i == pc[2]
             j == i + 1
  <1>1. pc[1] = h /\ i \in 1 .. 8 /\ pc[1] \in DOMAIN Code
    BY HandlerHas, CodeIs, Lengths
  <1>2. Instr = exception_wrapper[i]
    BY <1>1, InstrIs, CodeIs
  <1>3. i \in 1 .. 7 /\ j \in 1 .. Length(h) /\ h = Code1(c) /\ h # "gettid_wrapper"
    BY <1>1, Lengths
  <1>4. Survive(c.vector) = Registers \ {"ebp"}
    BY Code1Is DEF Handler
  <1>5. CASE i = 1
    <2>1. i = 1 /\ j = 2
      BY <1>5
    <2>5. Instr = <<"mov", "esp", "ebp">>
      BY <1>2, <2>1, ExceptionCode
    <2>2. /\ TypeInv' /\ Moves /\ stack' = stack
          /\ \A x \in Registers : x \notin {"ebp"} => regs'[x] = regs[x]
      BY <1>1, <2>5, MovIs, Registered DEF Wrote
    <2> HIDE DEF h, i, j
    <2>3. WriteRule(h, i, j, {"ebp"})
      BY <2>1, ExceptionRules DEF h
    <2> QED
      BY <1>1, <1>3, <2>1, <2>2, <2>3, HandlerWrite DEF h, i, j
  <1>6. CASE i = 2
    <2>1. i = 2 /\ j = 3
      BY <1>6
    <2>2. Instr = <<"pusha">>
      BY <1>2, <2>1, ExceptionCode
    <2> HIDE DEF h, i, j
    <2>3. AllRule(h, i, j)
      BY <2>1, ExceptionRules DEF h
    <2>4. Same(h, j) \subseteq Same(h, i)
      BY <2>1, ExceptionRules DEF h
    <2>5. Survive(c.vector) \subseteq Same(h, i)
      BY <2>1, <1>4, ExceptionRules DEF h
    <2> QED
      BY <1>1, <1>3, <2>1, <2>2, <2>3, <2>4, <2>5, HandlerPusha DEF h, i, j
  <1>7. CASE i = 3
    <2>1. i = 3 /\ j = 4
      BY <1>7
    <2>5. Instr = <<"load0", "ebx">>
      BY <1>2, <2>1, ExceptionCode
    <2>2. /\ TypeInv' /\ Moves /\ stack' = stack
          /\ \A x \in Registers : x \notin {"ebx"} => regs'[x] = regs[x]
      BY <1>1, <2>5, Load0Is, Registered DEF Wrote
    <2> HIDE DEF h, i, j
    <2>3. WriteRule(h, i, j, {"ebx"})
      BY <2>1, ExceptionRules DEF h
    <2> QED
      BY <1>1, <1>3, <2>1, <2>2, <2>3, HandlerWrite DEF h, i, j
  <1>8. CASE i = 4
    <2>1. i = 4 /\ j = 5
      BY <1>8
    <2>2. Instr = <<"push", "ebx">> /\ "ebx" \in Registers
      BY <1>2, <2>1, ExceptionCode, Registered
    <2> HIDE DEF h, i, j
    <2>3. PushRule(h, i, j, "ebx")
      BY <2>1, ExceptionRules DEF h
    <2> QED
      BY <1>1, <1>3, <2>1, <2>2, <2>3, HandlerPush DEF h, i, j
  <1>9. CASE i = 5
    <2>1. i = 5 /\ j = 6
      BY <1>9
    <2>5. PICK f : Instr = <<"ccall", f>>
      BY <1>2, <2>1, ExceptionCode
    <2>2. /\ TypeInv' /\ Moves /\ stack' = stack
          /\ \A x \in Registers : x \notin Scratch => regs'[x] = regs[x]
      BY <1>1, <2>5, CcallIs
    <2> HIDE DEF h, i, j
    <2>3. WriteRule(h, i, j, Scratch)
      BY <2>1, ExceptionRules DEF h
    <2> QED
      BY <1>1, <1>3, <2>1, <2>2, <2>3, HandlerWrite DEF h, i, j
  <1>10. CASE i = 6
    <2>1. i = 6 /\ j = 7
      BY <1>10
    <2>2. Instr = <<"pop", "ebx">> /\ "ebx" \in Registers
      BY <1>2, <2>1, ExceptionCode, Registered
    <2> HIDE DEF h, i, j
    <2>3. PopRule(h, i, j, "ebx")
      BY <2>1, ExceptionRules DEF h
    <2> QED
      BY <1>1, <1>3, <2>1, <2>2, <2>3, HandlerPop DEF h, i, j
  <1>11. CASE i = 7
    <2>1. i = 7 /\ j = 8
      BY <1>11
    <2>2. Instr = <<"popa">>
      BY <1>2, <2>1, ExceptionCode
    <2> HIDE DEF h, i, j
    <2>3. AllRule(h, j, i)
      BY <2>1, ExceptionRules DEF h
    <2>4. Segments \subseteq Same(h, i) /\ Same(h, j) \subseteq Registers
      BY <2>1, ExceptionRules DEF h
    <2> QED
      BY <1>1, <1>3, <2>1, <2>2, <2>3, <2>4, HandlerPopa DEF h, i, j
  <1> QED
    BY <1>3, <1>5, <1>6, <1>7, <1>8, <1>9, <1>10, <1>11

-----------------------------------------------------------------------------
(* A step of a handler that is not its last.                               *)
LEMMA TopHandler ==
  ASSUME IInv, ~down, trail # << >>
  PROVE  LET c == trail[Len(trail)]
         IN  /\ TypeInv /\ Shape(trail, Now, call, stack)
             /\ Len(trail) \in Nat /\ Len(trail) >= 1
             /\ c \in Records /\ Handler(c, Now) /\ Raised(c)
             /\ on = IF c.on = "user" THEN "kernel" ELSE c.on
             /\ on # "user"
             /\ on = IF Context(trail, Now, 0).on = "boot" THEN "boot" ELSE "kernel"
             /\ pc[1] = Code1(c) /\ pc[2] \in 1 .. Length(Code1(c))
  <1> DEFINE n == Len(trail)
             c == trail[n]
  <1>1. TypeInv /\ Shape(trail, Now, call, stack)
    BY DEF IInv
  <1>2. n \in Nat /\ n >= 1 /\ n \in 1 .. n
    <2>1. trail \in Seq(Records)
      BY <1>1 DEF TypeInv
    <2>2. Len(trail) \in Nat /\ Len(trail) # 0
      BY <2>1, Sequences, EmptySeq
    <2> QED
      BY <2>2
  <1>3. c \in Records
    BY <1>1, <1>2, Sequences DEF TypeInv
  <1>4. Context(trail, Now, n) = Now
    BY DEF Context
  <1>5. Handler(c, Now) /\ Now.on = IF Context(trail, Now, 0).on = "boot" THEN "boot" ELSE "kernel"
    BY <1>1, <1>2, <1>4 DEF Shape
  <1>6. Now.on = on
    BY DEF Now
  <1>7. pc[1] = Code1(c) /\ pc[2] \in 1 .. Length(Code1(c))
    BY <1>1, <1>3, <1>5, HandlerHas
  <1> HIDE DEF n, c
  <1>8. Raised(c) /\ Now.on = IF c.on = "user" THEN "kernel" ELSE c.on
    BY <1>5 DEF Handler
  <1> QED
    BY <1>1, <1>2, <1>3, <1>5, <1>6, <1>7, <1>8 DEF n, c

LEMMA HandlerQuiet ==
  ASSUME IInv, Exec, trail # << >>, pc[2] # Length(Code1(trail[Len(trail)]))
  PROVE  IInv' /\ trail' = trail
  <1> DEFINE c == trail[Len(trail)]
  <1>1. ~down
    BY Dispatch
  <1>2. /\ TypeInv /\ Shape(trail, Now, call, stack) /\ c \in Records /\ Handler(c, Now)
        /\ Raised(c) /\ on # "user" /\ pc[1] = Code1(c) /\ pc[2] \in 1 .. Length(Code1(c))
    BY <1>1, TopHandler
  <1> HIDE DEF c
  <1>3. Progress(c)
    <2>1. CASE Code1(c) = "gettid_wrapper"
      <3>1. pc[2] # 11
        BY <2>1, Lengths DEF c
      <3> QED
        BY <2>1, <3>1, <1>2, GettidStep
    <2>2. CASE Code1(c) \in {"timer_wrapper", "keyboard_wrapper"}
      <3>1. pc[2] # 4
        BY <2>2, Lengths DEF c
      <3> QED
        BY <2>2, <3>1, <1>2, TimerStep
    <2>3. CASE Code1(c) = "exception_wrapper"
      <3>1. pc[2] # 8
        BY <2>3, Lengths DEF c
      <3> QED
        BY <2>3, <3>1, <1>2, ExceptionStep
    <2> QED
      BY <2>1, <2>2, <2>3, <1>2, Code1Is
  <1>4. TypeInv' /\ Moves
    BY <1>3 DEF Progress
  <1>5. ASSUME ~down'
        PROVE  Shape(trail, Now, call, stack)'
    <2>1. Handler(c, Now') /\ \A s \in Stacks : s # on => stack'[s] = stack[s]
      BY <1>3, <1>5 DEF Progress
    <2>2. Now.on = on /\ trail \in Seq(Records)
      BY <1>2 DEF Now, TypeInv
    <2>3. \A s \in Stacks : s # Now.on => stack'[s] = stack[s]
      BY <2>1, <2>2
    <2>4. Shape(trail, Now', call, stack')
      BY <2>1, <2>2, <2>3, <1>2, ShapeQuiet DEF c
    <2>5. trail' = trail /\ call' = call
      BY <1>4 DEF Moves
    <2> QED
      BY <2>4, <2>5
  <1>6. on' # "user" /\ ArgumentsInEsi'
    <2>1. on' = on /\ pc' = <<pc[1], pc[2] + 1>> /\ pc[2] \in Nat /\ pc[2] # 0
      BY <1>2, <1>4 DEF Moves
    <2>2. pc' # <<"gettid_wrapper", 1>>
      BY <2>1
    <2> QED
      BY <2>1, <2>2, <1>2 DEF ArgumentsInEsi
  <1>7. trail' = trail
    BY <1>4 DEF Moves
  <1> QED
    BY <1>4, <1>5, <1>6, <1>7 DEF IInv

-----------------------------------------------------------------------------
(* The arguments of the call in the table.                                 *)
LEMMA CallFrameIs ==
  ASSUME NEW q \in Calls
  PROVE  LET f == CallFrame(q)
         IN  /\ f \in Seq(Words) /\ Len(f) = q.pushed + 3 /\ q.pushed \in Nat
             /\ \A k \in 1 .. q.pushed : f[k] = <<"arg", q.pushed + 1 - k>>
             /\ f[q.pushed + 1] = <<"int", q.pushed>> /\ f[q.pushed + 2] = <<"int", q.num>>
             /\ f[q.pushed + 3] = <<"stub", 1>>
             /\ \A k \in 1 .. Len(f) : Clean(f[k])
  <1> DEFINE p == q.pushed
             a == [k \in 1 .. p |-> <<"arg", p + 1 - k>>]
             b == << <<"int", p>>, <<"int", q.num>>, <<"stub", 1>> >>
             f == CallFrame(q)
  <1>1. p \in Nat /\ q.num \in Nat
    BY DEF Calls
  <1>2. a \in Seq(Words) /\ Len(a) = p /\ \A k \in 1 .. p : a[k] = <<"arg", p + 1 - k>>
    <2>1. \A k \in 1 .. p : <<"arg", p + 1 - k>> \in Words
      BY <1>1, KindsHave DEF Words
    <2> QED
      BY <1>1, <2>1
  <1>3. /\ b \in Seq(Words) /\ Len(b) = 3
        /\ b[1] = <<"int", p>> /\ b[2] = <<"int", q.num>> /\ b[3] = <<"stub", 1>>
    <2>1. <<"int", p>> \in Words /\ <<"int", q.num>> \in Words /\ <<"stub", 1>> \in Words
      BY <1>1, KindsHave DEF Words
    <2> QED
      BY <2>1
  <1>4. Joined(f, a, b)
    BY DEF Joined, CallFrame
  <1> HIDE DEF p, a, b, f
  <1>5. a \in Seq(Words) /\ b \in Seq(Words)
    BY <1>2, <1>3
  <1>11. f \in Seq(Words) /\ Len(f) = Len(a) + Len(b)
    BY <1>4, <1>5, Joins
  <1>12. \A k \in 1 .. Len(a) : f[k] = a[k]
    BY <1>4, <1>5, Joins
  <1>13. \A k \in 1 .. Len(b) : f[Len(a) + k] = b[k]
    BY <1>4, <1>5, Joins
  <1>6. 1 \in 1 .. Len(b) /\ 2 \in 1 .. Len(b) /\ 3 \in 1 .. Len(b)
    BY <1>3
  <1>7. f[p + 1] = b[1] /\ f[p + 2] = b[2] /\ f[p + 3] = b[3]
    BY <1>2, <1>13, <1>6
  <1>8. \A k \in 1 .. p : f[k] = <<"arg", p + 1 - k>>
    BY <1>2, <1>12
  <1>9. Len(f) = p + 3
    BY <1>2, <1>3, <1>11
  <1>10. ASSUME NEW k \in 1 .. Len(f)
         PROVE  Clean(f[k])
    <2>1. k \in 1 .. p \/ k = p + 1 \/ k = p + 2 \/ k = p + 3
      BY <1>1, <1>9
    <2> QED
      BY <2>1, <1>3, <1>7, <1>8 DEF Clean
  <1> QED
    BY <1>1, <1>3, <1>11, <1>7, <1>8, <1>9, <1>10 DEF p, f

Argued(q, esi, us) ==
  /\ q.pushed = 0 => esi = <<"int", 0>>
  /\ q.pushed = 1 => esi = <<"arg", 1>>
  /\ q.pushed \notin {0, 1} => esi = <<"user", q.pushed>>
  /\ \A i \in 1 .. q.pushed : q.pushed - (i - 1) \in 1 .. Len(us)
                              /\ us[q.pushed - (i - 1)] = <<"arg", i>>

LEMMA InTable ==
  ASSUME NEW c, NEW q \in Calls, UserAt(c, q), c.pc[1] = "table", c.below \in Seq(Words)
  PROVE  /\ EsiOK(q, c.regs) /\ WrapperAt(20, c, q)
         /\ Argued(q, c.regs.esi, c.below)
  <1> DEFINE p == q.pushed
             f == CallFrame(q)
  <1>1. EsiOK(q, c.regs) /\ WrapperAt(20, c, q)
    BY DEF UserAt, InApp, InStub, InWrapper
  <1>2. /\ f \in Seq(Words) /\ Len(f) = p + 3 /\ p \in Nat
        /\ \A k \in 1 .. p : f[k] = <<"arg", p + 1 - k>>
    BY CallFrameIs
  <1>3. Len(c.below) = Len(f) + 4 /\ \A k \in 1 .. Len(f) : c.below[k] = f[k]
    BY <1>1 DEF WrapperAt, Active, Depth
  <1> HIDE DEF f
  <1>4. ASSUME NEW i \in 1 .. p
        PROVE  p - (i - 1) \in 1 .. Len(c.below) /\ c.below[p - (i - 1)] = <<"arg", i>>
    <2> DEFINE k == p - (i - 1)
    <2>1. k \in 1 .. p /\ k \in 1 .. Len(f) /\ p + 1 - k = i /\ k \in 1 .. Len(c.below)
      BY <1>2, <1>3
    <2> HIDE DEF k
    <2>2. c.below[k] = <<"arg", i>>
      BY <2>1, <1>2, <1>3
    <2> QED
      BY <2>1, <2>2 DEF k
  <1> QED
    BY <1>1, <1>2, <1>4 DEF Argued, EsiOK

LEMMA ArguedIs ==
  ASSUME Argued(call, regs.esi, stack.user), stack.user \in Seq(Words)
  PROVE  ArgumentsInEsi
  <1> DEFINE p == call.pushed
  <1>1. DOMAIN stack.user = 1 .. Len(stack.user)
    BY Sequences
  <1>2. p = 0 => regs.esi = <<"int", 0>>
    BY DEF Argued
  <1>3. p = 1 => regs.esi = <<"arg", 1>>
    BY DEF Argued
  <1>4. ASSUME p # 0, p # 1, NEW i \in 1 .. p
        PROVE  At(<<regs.esi[1], regs.esi[2] - (i - 1)>>) = <<"arg", i>>
    <2>1. regs.esi[1] = "user" /\ regs.esi[2] = p
      BY <1>4 DEF Argued
    <2>2. p - (i - 1) \in DOMAIN stack.user /\ stack.user[p - (i - 1)] = <<"arg", i>>
      BY <1>1, <1>4 DEF Argued
    <2> QED
      BY <2>1, <2>2 DEF At, Stacks
  <1> QED
    BY <1>2, <1>3, <1>4 DEF ArgumentsInEsi

-----------------------------------------------------------------------------
(* An interruption.                                                        *)
LEMMA StoreAt ==
  ASSUME TypeInv, ~down, NEW t \in Stacks, NEW w \in Seq(Words), Store(t, w)
  PROVE  /\ stack' \in [Stacks -> Seq(Words)] /\ down' \in BOOLEAN
         /\ Len(stack.kernel)' <= KernelWords
         /\ ~down' => stack'[t] = w
         /\ \A s \in Stacks : s # t => stack'[s] = stack[s]
  <1>1. "kernel" \in Stacks /\ stack \in [Stacks -> Seq(Words)]
    BY DEF TypeInv, Stacks
  <1>2. CASE t = "kernel" /\ Len(w) > KernelWords
    BY <1>2, <1>1 DEF Store, TypeInv
  <1>3. CASE ~(t = "kernel" /\ Len(w) > KernelWords)
    <2>1. stack' = [stack EXCEPT ![t] = w] /\ down' = down
      BY <1>3 DEF Store
    <2>2. stack' \in [Stacks -> Seq(Words)] /\ stack'[t] = w
          /\ \A s \in Stacks : s # t => stack'[s] = stack[s]
      BY <2>1, <1>1
    <2>3. Len(stack.kernel)' <= KernelWords
      <3>1. CASE t = "kernel"
        <4>1. Len(w) \in Nat /\ KernelWords \in Nat
          BY Sequences, KernelEntryAssumption
        <4> QED
          BY <3>1, <4>1, <1>3, <2>2
      <3>2. CASE t # "kernel"
        BY <3>2, <1>1, <2>2 DEF TypeInv
      <3> QED
        BY <3>1, <3>2
    <2>4. ~down' /\ down' \in BOOLEAN
      BY <2>1, Zenon DEF TypeInv
    <2> QED
      BY <2>2, <2>3, <2>4
  <1> QED
    BY <1>2, <1>3

Entered(v, eip) ==
  [vector |-> v, pc |-> eip, regs |-> regs, on |-> on, iff |-> iff, below |-> stack[on]]

LEMMA EnteredIs ==
  ASSUME TypeInv, NEW v \in Vectors, NEW eip \in Places
  PROVE  LET c == Entered(v, eip)
         IN  /\ c \in Records /\ c.vector = v /\ c.pc = eip /\ c.regs = regs /\ c.on = on
             /\ c.below = stack[on] /\ c.iff = iff
             /\ Frozen(c) = [Now EXCEPT !.pc = eip]
  <1>1. stack[on] \in Seq(Words)
    BY DEF TypeInv
  <1>2. Entered(v, eip) \in Records
    BY <1>1 DEF Entered, Records, TypeInv
  <1> QED
    BY <1>2 DEF Entered, Frozen, Now

LEMMA EnterIs ==
  ASSUME TypeInv, ~down, NEW v \in Vectors, NEW eip \in Places, Enter(v, eip),
         NEW c, c = Entered(v, eip), Raised(c)
  PROVE  /\ TypeInv' /\ trail' = Append(trail, c) /\ call' = call /\ regs' = regs
         /\ on' = IF on = "user" THEN "kernel" ELSE on
         /\ pc' = <<Code1(c), 1>>
         /\ \A s \in Stacks : s # on' => stack'[s] = stack[s]
         /\ ~down' => Handler(c, Now')
  <1>1. /\ c \in Records /\ c.vector = v /\ c.pc = eip /\ c.regs = regs /\ c.on = on
        /\ c.below = stack[on]
    BY EnteredIs
  <1> DEFINE t == IF on = "user" THEN "kernel" ELSE on
  <1>2. on' = t /\ t \in Stacks /\ regs' = regs /\ call' = call
    BY DEF Enter, User, TypeInv, Stacks
  <1>3. Store(t, Frame(c))
    <2>1. Store(t, (IF on = "user" THEN << <<"ds", 3>>, <<on, Len(stack[on])>> >> ELSE stack[on])
             \o << <<"eflags", IF iff THEN 1 ELSE 0>>, <<"cs", IF on = "user" THEN 3 ELSE 0>>, eip>>
             \o (IF v \in ErrorCodes THEN << <<"error", v>> >> ELSE << >>))
      BY Zenon DEF Enter, User, Top, esp
    <2>2. Frame(c) =
            (IF on = "user" THEN << <<"ds", 3>>, <<"user", Len(stack[on])>> >> ELSE stack[on])
             \o << <<"eflags", IF iff THEN 1 ELSE 0>>, <<"cs", IF on = "user" THEN 3 ELSE 0>>, eip>>
             \o (IF v \in ErrorCodes THEN << <<"error", v>> >> ELSE << >>)
      BY <1>1 DEF Frame, Entered
    <2>3. CASE on = "user"
      BY <2>1, <2>2, <2>3
    <2>4. CASE on # "user"
      BY <2>1, <2>2, <2>4
    <2> QED
      BY <2>3, <2>4
  <1>4. Frame(c) \in Seq(Words)
    BY <1>1, FrameIs
  <1> HIDE DEF t
  <1>5. /\ stack' \in [Stacks -> Seq(Words)] /\ down' \in BOOLEAN
        /\ Len(stack.kernel)' <= KernelWords
        /\ ~down' => stack'[t] = Frame(c)
        /\ \A s \in Stacks : s # t => stack'[s] = stack[s]
    BY <1>2, <1>3, <1>4, StoreAt
  <1>6. trail' = Append(trail, c)
    BY DEF Enter, Entered, Top
  <1>7. trail' \in Seq(Records)
    <2>1. trail \in Seq(Records)
      BY DEF TypeInv
    <2> QED
      BY <1>1, <1>6, <2>1, AppendProperties
  <1>8. pc' = <<Code1(c), 1>> /\ Code1(c) \in DOMAIN Code
    <2>1. pc' = <<Code1(c), 1>>
      BY <1>1 DEF Enter, Code1
    <2> QED
      BY <2>1, <1>1, Code1Is, CodeIs
  <1>9. iff' \in BOOLEAN
    <2>1. iff' = (iff /\ ~idt[v].masks)
      BY DEF Enter
    <2> QED
      BY <2>1, Zenon
  <1>10. TypeInv'
    BY <1>2, <1>5, <1>7, <1>8, <1>9 DEF TypeInv, Places
  <1>11. ASSUME ~down'
         PROVE  Handler(c, Now')
    <2> DEFINE h == Code1(c)
    <2>1. /\ Now'.on = t /\ Now'.pc = <<h, 1>> /\ Now'.below = Frame(c) /\ Now'.regs = regs
      BY <1>2, <1>5, <1>8, <1>11 DEF Now
    <2>2. h \in {"gettid_wrapper", "timer_wrapper", "keyboard_wrapper", "exception_wrapper"}
      BY <1>1, Code1Is
    <2>3. Depth(h, 1) = 0 /\ 1 \in 1 .. Length(h)
      BY <2>2 DEF Depth, Length
    <2> HIDE DEF h
    <2>4. \A x \in Same(h, 1) \cap DOMAIN Kept(c) : regs[x] = Kept(c)[x]
      BY <1>1 DEF Kept
    <2>5. Len(Frame(c)) \in Nat
      BY <1>4, Sequences
    <2>6. Active(h, 1, Frame(c), Kept(c), Frame(c), regs)
      BY <2>3, <2>4, <2>5 DEF Active
    <2>7. t = IF c.on = "user" THEN "kernel" ELSE c.on
      BY <1>1 DEF t
    <2> QED
      BY <2>1, <2>3, <2>6, <2>7 DEF Handler, Code1, h
  <1>12. t = IF on = "user" THEN "kernel" ELSE on
    BY DEF t
  <1> QED
    BY <1>2, <1>5, <1>6, <1>8, <1>10, <1>11, <1>12

LEMMA EnterStep ==
  ASSUME TypeInv, ~down, NEW v \in Vectors, NEW eip \in Places, Enter(v, eip),
         NEW c, c = Entered(v, eip), Raised(c), Shape(trail, Frozen(c), call, stack),
         v = GETTID_INT => Argued(call, regs.esi, stack.user)
  PROVE  IInv' /\ trail' = Append(trail, c)
  <1>1. c \in Records /\ c.vector = v
    BY EnteredIs
  <1>2. /\ TypeInv' /\ trail' = Append(trail, c) /\ call' = call /\ regs' = regs
        /\ on' = IF on = "user" THEN "kernel" ELSE on
        /\ pc' = <<Code1(c), 1>>
        /\ \A s \in Stacks : s # on' => stack'[s] = stack[s]
        /\ ~down' => Handler(c, Now')
    BY EnterIs
  <1>3. ASSUME ~down'
        PROVE  Shape(trail, Now, call, stack)'
    <2>1. trail \in Seq(Records) /\ Now'.on = on'
      BY DEF TypeInv, Now
    <2>2. \A s \in Stacks : s # Now'.on => stack'[s] = stack[s]
      BY <1>2, <2>1
    <2>3. Shape(Append(trail, c), Now', call, stack')
      BY <1>1, <1>2, <1>3, <2>1, <2>2, ShapeEnter
    <2> QED
      BY <1>2, <2>3
  <1>4. on' # "user"
    BY <1>2
  <1>5. ArgumentsInEsi'
    <2>1. CASE v = GETTID_INT
      <3>1. stack'.user = stack.user
        BY <1>2, <1>4 DEF Stacks
      <3>2. stack.user \in Seq(Words)
        BY DEF TypeInv, Stacks
      <3>3. Argued(call, regs.esi, stack.user)'
        BY <2>1, <3>1, <1>2
      <3>4. (stack.user \in Seq(Words))'
        BY <3>1, <3>2
      <3> QED
        BY <3>3, <3>4, ArguedIs, PTL
    <2>2. CASE v # GETTID_INT
      <3>1. Code1(c) # "gettid_wrapper"
        BY <2>2, <1>1, Code1Is
      <3>2. pc' # <<"gettid_wrapper", 1>>
        BY <1>2, <3>1
      <3> QED
        BY <3>2 DEF ArgumentsInEsi
    <2> QED
      BY <2>1, <2>2
  <1> QED
    BY <1>2, <1>3, <1>4, <1>5 DEF IInv

-----------------------------------------------------------------------------
(* What follows from the invariant.                                        *)
LEMMA UserBelow ==
  ASSUME IInv, ~down, trail # << >>, NEW c, c = trail[Len(trail)], c.on = "user"
  PROVE  Len(trail) = 1 /\ UserAt(Frozen(c), call) /\ stack.user = c.below
  <1> DEFINE n == Len(trail)
  <1>1. /\ Shape(trail, Now, call, stack) /\ n \in Nat /\ n >= 1
    BY TopHandler
  <1> HIDE DEF n
  <1>2. Context(trail, Now, n - 1) = Frozen(c)
    <2>1. n - 1 # Len(trail) /\ n - 1 + 1 = n
      BY <1>1 DEF n
    <2> QED
      BY <2>1 DEF Context, n
  <1>3. Frozen(c).on = "user" /\ Frozen(c).below = c.below
    BY DEF Frozen
  <1>4. n = 1
    <2>1. CASE n # 1
      <3>1. n - 1 \in 1 .. n
        BY <2>1, <1>1
      <3>2. Context(trail, Now, n - 1).on # "user"
        BY <3>1, <1>1 DEF Shape, n
      <3> QED
        BY <3>2, <1>2, <1>3
    <2> QED
      BY <2>1
  <1>5. Context(trail, Now, 0) = Frozen(c)
    <2>1. n - 1 = 0
      BY <1>4
    <2> QED
      BY <2>1, <1>2
  <1> QED
    BY <1>1, <1>3, <1>4, <1>5 DEF Shape, BootAt, StacksOK, n

LEMMA Bottom ==
  ASSUME IInv, ~down, trail = << >>
  PROVE  /\ BootAt(Now, call) \/ UserAt(Now, call)
         /\ StacksOK(Now, << >>, stack)
  <1>1. Len(trail) = 0
    BY EmptySeq
  <1>2. Context(trail, Now, 0) = Now
    BY <1>1 DEF Context
  <1> QED
    BY <1>2 DEF IInv, Shape

LEMMA InUserMode ==
  ASSUME IInv, on = "user"
  PROVE  trail = << >> /\ ~down /\ UserAt(Now, call) /\ stack.kernel = << >>
  <1>1. ~down
    BY DEF IInv
  <1>2. trail = << >>
    BY <1>1, TopHandler
  <1>3. Now.on = on
    BY DEF Now
  <1> QED
    BY <1>1, <1>2, <1>3, Bottom DEF BootAt, StacksOK

LEMMA UserModeIs ==
  ASSUME IInv
  PROVE  UserMode
  <1> SUFFICES ASSUME on = "user"
               PROVE  (\A s \in Segments : regs[s] = <<"ds", 3>>)
                      /\ iff /\ trail = << >> /\ stack.kernel = << >>
    BY DEF UserMode, User
  <1>1. trail = << >> /\ UserAt(Now, call) /\ stack.kernel = << >>
    BY InUserMode
  <1>2. Now.regs = regs
    BY DEF Now
  <1>3. Now.iff <=> iff
    BY Zenon DEF Now
  <1>4. \A s \in Segments : regs[s] = <<"ds", 3>>
    BY <1>1, <1>2 DEF UserAt
  <1>5. iff
    BY <1>1, <1>3, Zenon DEF UserAt
  <1> QED
    BY <1>1, <1>4, <1>5

LEMMA InGettid ==
  ASSUME IInv, ~down, trail # << >>, NEW c, c = trail[Len(trail)], Code1(c) = "gettid_wrapper"
  PROVE  /\ Len(trail) = 1 /\ c.vector = GETTID_INT /\ c.on = "user" /\ c.pc[1] = "table"
         /\ UserAt(Frozen(c), call)
         /\ stack.user = c.below /\ Argued(call, c.regs.esi, stack.user)
  <1>1. c \in Records /\ Raised(c) /\ TypeInv
    BY TopHandler
  <1>2. c.vector = GETTID_INT
    BY <1>1, Code1Is
  <1>3. c.on = "user" /\ c.pc[1] = "table"
    BY <1>1, <1>2 DEF Raised, GETTID_INT, Timer, Keyboard, ErrorCodes
  <1>4. Len(trail) = 1 /\ UserAt(Frozen(c), call) /\ stack.user = c.below
    BY <1>3, UserBelow
  <1>5. Argued(call, c.regs.esi, c.below)
    <2> DEFINE d == Frozen(c)
    <2>1. d.pc = c.pc /\ d.regs = c.regs /\ d.below = c.below
      BY DEF Frozen
    <2>2. c.below \in Seq(Words) /\ call \in Calls
      BY <1>1 DEF Records, TypeInv
    <2>3. UserAt(d, call)
      BY <1>4
    <2> HIDE DEF d
    <2> QED
      BY <2>1, <2>2, <2>3, <1>3, InTable
  <1> QED
    BY <1>2, <1>3, <1>4, <1>5

LEMMA ArgumentsAre ==
  ASSUME IInv
  PROVE  ArgumentsInEsi
  <1> SUFFICES ASSUME ~down, pc = <<"gettid_wrapper", 1>>
               PROVE  ArgumentsInEsi
    BY DEF IInv, ArgumentsInEsi
  <1>1. TypeInv
    BY DEF IInv
  <1>2. trail # << >>
    <2>1. Now.pc[1] = "gettid_wrapper"
      BY DEF Now
    <2>2. ~BootAt(Now, call) /\ ~UserAt(Now, call)
      BY <2>1 DEF BootAt, UserAt, InApp, InStub, InWrapper
    <2> QED
      BY <2>2, Bottom
  <1> DEFINE c == trail[Len(trail)]
  <1>3. c \in Records /\ Handler(c, Now) /\ Raised(c) /\ pc[1] = Code1(c)
    BY <1>2, TopHandler
  <1> HIDE DEF c
  <1>4. Code1(c) = "gettid_wrapper"
    BY <1>3
  <1>5. c.vector = GETTID_INT /\ Argued(call, c.regs.esi, stack.user)
    BY <1>2, <1>4, InGettid DEF c
  <1>6. regs.esi = c.regs.esi
    <2>1. Active("gettid_wrapper", 1, Frame(c), Kept(c), stack[on], regs)
      <3>1. pc[2] = 1
        OBVIOUS
      <3> QED
        BY <3>1, <1>1, <1>3, <1>4, HandlerHas
    <2>2. "esi" \in Same("gettid_wrapper", 1)
      BY Registered DEF Same, Scratch
    <2>3. "esi" \in Survive(c.vector)
      BY <1>5, SurviveIs, Registered DEF Scratch
    <2> QED
      BY <2>1, <2>2, <2>3 DEF Active, Kept
  <1>7. stack.user \in Seq(Words)
    BY <1>1 DEF TypeInv, Stacks
  <1> QED
    BY <1>5, <1>6, <1>7, ArguedIs

LEMMA TypesAre ==
  ASSUME IInv
  PROVE  TypeOK
  <1>1. TypeInv
    BY DEF IInv
  <1>2. \A w \in Words : IsWord(w)
    BY DEF Words, IsWord
  <1>3. IsWord(pc)
    BY <1>1, KindsHave DEF TypeInv, Places, IsWord
  <1>4. DOMAIN regs = Registers /\ \A r \in Registers : IsWord(regs[r])
    BY <1>1, <1>2 DEF TypeInv, Files
  <1>5. DOMAIN stack = Stacks
    BY <1>1 DEF TypeInv
  <1>6. ASSUME NEW s \in Stacks, NEW k \in DOMAIN stack[s]
        PROVE  IsWord(stack[s][k])
    <2>1. stack[s] \in Seq(Words)
      BY <1>1 DEF TypeInv
    <2>2. stack[s][k] \in Words
      BY <2>1, Sequences
    <2> QED
      BY <2>2, <1>2
  <1>7. ASSUME NEW k \in DOMAIN trail
        PROVE  trail[k].vector \in DOMAIN idt
    <2>1. trail[k] \in Records
      BY <1>1, Sequences DEF TypeInv
    <2> QED
      BY <2>1, IdtIs DEF Records
  <1>8. on \in Stacks /\ iff \in BOOLEAN /\ down \in BOOLEAN /\ Len(stack.kernel) <= KernelWords
    BY <1>1 DEF TypeInv
  <1> QED
    BY <1>3, <1>4, <1>5, <1>6, <1>7, <1>8 DEF TypeOK

-----------------------------------------------------------------------------
(* The last step of a handler.                                             *)
LEMMA HandlerLast ==
  ASSUME IInv, Exec, trail # << >>, NEW c, c = trail[Len(trail)],
         pc[2] = Length(Code1(c))
  PROVE  /\ Instr = <<"iret">>
         /\ c \in Records /\ Raised(c)
         /\ Len(stack[on]) = Len(Frame(c))
         /\ \A k \in 1 .. Len(Frame(c)) : stack[on][k] = Frame(c)[k]
         /\ \A r \in Survive(c.vector) : r \in Registers /\ regs[r] = c.regs[r]
         /\ c.vector = GETTID_INT => regs.eax = sys_gettid
  <1> DEFINE h == Code1(c)
             n == Length(h)
             i == pc[2]
  <1>1. ~down
    BY Dispatch
  <1>2. /\ TypeInv /\ c \in Records /\ Handler(c, Now) /\ Raised(c) /\ pc[1] = h
    BY <1>1, TopHandler
  <1>3. /\ Active(h, i, Frame(c), Kept(c), stack[on], regs)
        /\ Len(Frame(c)) \in Nat
        /\ h = "gettid_wrapper" /\ i >= 7 => regs.eax = sys_gettid
        /\ DOMAIN Kept(c) = Survive(c.vector) /\ Survive(c.vector) \subseteq Registers
    BY <1>2, HandlerHas
  <1>4. /\ c.vector = GETTID_INT => h = "gettid_wrapper"
        /\ h \in {"gettid_wrapper", "timer_wrapper", "keyboard_wrapper", "exception_wrapper"}
        /\ \/ h = "gettid_wrapper" /\ Survive(c.vector) = Registers \ Scratch
           \/ h \in {"timer_wrapper", "keyboard_wrapper"} /\ Survive(c.vector) = Registers
           \/ h = "exception_wrapper" /\ Survive(c.vector) = Registers \ {"ebp"}
    <2>1. c.vector = GETTID_INT => h = "gettid_wrapper"
      BY IdtIs DEF Code1
    <2> QED
      BY <2>1, <1>2, Code1Is
  <1> HIDE DEF h
  <1>5. Instr = <<"iret">>
    <2>1. pc[1] \in DOMAIN Code /\ Instr = Code[h][n]
      BY <1>2, <1>4, CodeIs, InstrIs DEF h
    <2>2. CASE h = "gettid_wrapper"
      BY <2>1, <2>2, CodeIs, Lengths, GettidCode
    <2>3. CASE h = "timer_wrapper"
      BY <2>1, <2>3, CodeIs, Lengths, TimerCode
    <2>4. CASE h = "keyboard_wrapper"
      BY <2>1, <2>4, CodeIs, Lengths, TimerCode
    <2>5. CASE h = "exception_wrapper"
      BY <2>1, <2>5, CodeIs, Lengths, ExceptionCode
    <2> QED
      BY <2>2, <2>3, <2>4, <2>5, <1>4
  <1>6. Depth(h, n) = 0 /\ n \in Nat
    BY <1>4, Lengths DEF Depth
  <1>7. Survive(c.vector) \subseteq Same(h, n)
    <2>1. CASE h = "gettid_wrapper"
      <3>1. Same(h, n) = Registers \ Scratch
        BY <2>1, Lengths DEF Same
      <3> QED
        BY <2>1, <3>1, <1>4
    <2>2. CASE h \in {"timer_wrapper", "keyboard_wrapper"}
      BY <2>2, <1>4, Lengths, TimerRules
    <2>3. CASE h = "exception_wrapper"
      BY <2>3, <1>4, Lengths, ExceptionRules
    <2> QED
      BY <2>1, <2>2, <2>3, <1>4
  <1>8. i = n
    BY DEF h
  <1> HIDE DEF n, i
  <1>9. Active(h, n, Frame(c), Kept(c), stack[on], regs)
    BY <1>3, <1>8
  <1>10. Len(stack[on]) = Len(Frame(c))
    BY <1>3, <1>6, <1>9 DEF Active
  <1>11. \A k \in 1 .. Len(Frame(c)) : stack[on][k] = Frame(c)[k]
    BY <1>9 DEF Active
  <1>12. \A r \in Survive(c.vector) : r \in Registers /\ regs[r] = c.regs[r]
    BY <1>3, <1>7, <1>9 DEF Active, Kept
  <1>13. c.vector = GETTID_INT => regs.eax = sys_gettid
    <2>1. c.vector = GETTID_INT => i = 11
      BY <1>4, <1>8, Lengths DEF n
    <2> QED
      BY <2>1, <1>3, <1>4
  <1> QED
    BY <1>2, <1>5, <1>10, <1>11, <1>12, <1>13

Returned(c) ==
  /\ TypeInv' /\ ~down' /\ trail' = Front(trail) /\ call' = call
  /\ pc' = c.pc /\ on' = c.on /\ iff' = c.iff /\ stack'[c.on] = c.below
  /\ \A r \in Survive(c.vector) : regs'[r] = c.regs[r]
  /\ \A s \in Stacks : s # on => stack'[s] = stack[s]
  /\ c.on = "user" => stack'.kernel = << >> /\ \A r \in Registers : Clean(regs'[r])

LEMMA FrontType ==
  ASSUME NEW S, NEW t \in Seq(S), t # << >>
  PROVE  Front(t) \in Seq(S) /\ Len(t) \in Nat /\ Len(t) >= 1 /\ Len(Front(t)) = Len(t) - 1
  <1>1. Len(t) \in Nat /\ Len(t) # 0
    BY Sequences, EmptySeq
  <1> DEFINE m == 1
             u == Front(t)
  <1>2. m \in Nat /\ m <= Len(t) /\ u = SubSeq(t, 1, Len(t) - m) /\ m = 1
    BY <1>1 DEF Front
  <1> HIDE DEF m, u
  <1>3. u \in Seq(S) /\ Len(u) = Len(t) - m
    BY <1>2, Popped
  <1> QED
    BY <1>1, <1>2, <1>3 DEF u

LEMMA IretIs ==
  ASSUME iret, Top[Len(Top) - 1] \in {<<"cs", 0>>, <<"cs", 3>>}
  PROVE  LET n == Len(Top)
             out == Top[n - 1] = <<"cs", 3>>
         IN  /\ pc' = Top[n]
             /\ iff' = (Top[n - 2] = <<"eflags", 1>>)
             /\ on' = IF out THEN Top[n - 3][1] ELSE on
             /\ Pop(IF out THEN 5 ELSE 3)
             /\ regs' = IF out THEN [r \in Registers |-> IF regs[r] = <<"ds", 0>>
                                                           THEN Junk ELSE regs[r]]
                               ELSE regs
             /\ trail' = IF trail = << >> THEN trail ELSE Front(trail)
             /\ call' = call
  BY Zenon DEF iret

LEMMA ReturnUser ==
  ASSUME IInv, Exec, trail # << >>, NEW c, c = trail[Len(trail)],
         pc[2] = Length(Code1(c)), c.vector \notin ErrorCodes, c.on = "user"
  PROVE  Returned(c)
  <1> DEFINE f == Frame(c)
             s == stack[on]
  <1>1. /\ Instr = <<"iret">> /\ c \in Records /\ Raised(c)
        /\ Len(s) = Len(f) /\ \A k \in 1 .. Len(f) : s[k] = f[k]
        /\ \A r \in Survive(c.vector) : r \in Registers /\ regs[r] = c.regs[r]
    BY HandlerLast
  <1>2. iret /\ ~down
    BY <1>1, Dispatch
  <1>3. /\ TypeInv /\ on = "kernel"
    BY <1>2, TopHandler
  <1>4. UserAt(Frozen(c), call) /\ stack.user = c.below
    BY <1>2, UserBelow
  <1>5. /\ Len(f) = 5 /\ f[2] = <<"user", Len(c.below)>>
        /\ f[3] = <<"eflags", IF c.iff THEN 1 ELSE 0>> /\ f[4] = <<"cs", 3>> /\ f[5] = c.pc
    <2> DEFINE b == IF c.on = "user" THEN 2 ELSE Len(c.below)
    <2>1. /\ Len(f) = b + 3 /\ f[2] = <<"user", Len(c.below)>>
          /\ f[b + 1] = <<"eflags", IF c.iff THEN 1 ELSE 0>>
          /\ f[b + 2] = <<"cs", 3>> /\ f[b + 3] = c.pc
      BY <1>1, FrameIs
    <2>2. b = 2
      OBVIOUS
    <2> HIDE DEF b, f
    <2>3. b + 1 = 3 /\ b + 2 = 4 /\ b + 3 = 5
      BY <2>2
    <2> QED
      BY <2>1, <2>3
  <1> HIDE DEF f
  <1>6. /\ Len(s) = 5 /\ s[2] = <<"user", Len(c.below)>>
        /\ s[3] = <<"eflags", IF c.iff THEN 1 ELSE 0>> /\ s[4] = <<"cs", 3>> /\ s[5] = c.pc
    BY <1>1, <1>5
  <1> HIDE DEF s
  <1>7. Top = s /\ Len(Top) = 5 /\ Top[Len(Top) - 1] = <<"cs", 3>> /\ Top[Len(Top)] = c.pc
        /\ Top[Len(Top) - 2] = s[3] /\ Top[Len(Top) - 3] = s[2]
    BY <1>6 DEF Top, s
  <1>8. /\ pc' = c.pc
        /\ iff' = (s[3] = <<"eflags", 1>>)
        /\ on' = "user"
        /\ Pop(5)
        /\ regs' = [r \in Registers |-> IF regs[r] = <<"ds", 0>> THEN Junk ELSE regs[r]]
        /\ trail' = Front(trail) /\ call' = call
    <2> DEFINE n == Len(Top)
    <2>1. /\ pc' = Top[n] /\ iff' = (Top[n - 2] = <<"eflags", 1>>)
          /\ on' = Top[n - 3][1] /\ Pop(5)
          /\ regs' = [r \in Registers |-> IF regs[r] = <<"ds", 0>> THEN Junk ELSE regs[r]]
          /\ trail' = (IF trail = << >> THEN trail ELSE Front(trail)) /\ call' = call
      BY <1>2, <1>7, IretIs
    <2> HIDE DEF n
    <2>2. iff' = (s[3] = <<"eflags", 1>>)
      <3>1. Top[n - 2] = s[3]
        BY <1>7 DEF n
      <3> QED
        BY <2>1, <3>1
    <2> QED
      BY <1>6, <1>7, <2>1, <2>2 DEF n
  <1>9. iff' = c.iff /\ iff' \in BOOLEAN
    <2>1. c.iff \in BOOLEAN
      BY <1>1 DEF Records
    <2>2. CASE c.iff
      <3>1. s[3] = <<"eflags", 1>>
        BY <1>6, <2>2
      <3>2. iff' = TRUE
        BY <3>1, <1>8, Zenon
      <3>3. c.iff = TRUE
        BY <2>1, <2>2, Zenon
      <3> QED
        BY <3>2, <3>3
    <2>3. CASE ~c.iff
      <3>1. s[3] # <<"eflags", 1>>
        BY <1>6, <2>3
      <3>2. iff' = FALSE
        BY <3>1, <1>8, Zenon
      <3>3. c.iff = FALSE
        BY <2>1, <2>3, Zenon
      <3> QED
        BY <3>2, <3>3
    <2> QED
      BY <2>2, <2>3
  <1>10. /\ stack' \in [Stacks -> Seq(Words)] /\ ~down' /\ down' \in BOOLEAN
         /\ Len(stack.kernel)' <= KernelWords
         /\ Stacked(SubSeq(s, 1, Len(s) - 5))
    BY <1>2, <1>3, <1>6, <1>8, PopStep DEF s
  <1>11. stack'.kernel = << >>
    <2> DEFINE n == 5
               t == SubSeq(s, 1, Len(s) - n)
    <2>1. n \in Nat /\ n <= Len(s) /\ n = 5
      BY <1>6
    <2>2. s \in Seq(Words)
      BY <1>3 DEF TypeInv, s
    <2>3. stack'.kernel = t
      BY <1>3, <1>10 DEF Stacked
    <2> HIDE DEF n
    <2>6. t = SubSeq(s, 1, Len(s) - n)
      OBVIOUS
    <2> HIDE DEF t
    <2>4. t \in Seq(Words) /\ Len(t) = Len(s) - n
      BY <2>1, <2>2, <2>6, Popped
    <2>5. Len(t) = 0
      BY <2>1, <2>4, <1>6
    <2> QED
      BY <2>3, <2>4, <2>5, EmptySeq
  <1>12. /\ regs' \in Files
         /\ \A r \in Registers : Clean(regs'[r]) /\ (Clean(regs[r]) => regs'[r] = regs[r])
    BY <1>3, <1>8, KindsHave DEF TypeInv, Files, Junk, Words, Clean
  <1>13. \A r \in Survive(c.vector) : regs'[r] = c.regs[r]
    <2>1. \A r \in Registers : Clean(c.regs[r])
      BY <1>4 DEF UserAt, Frozen
    <2> QED
      BY <2>1, <1>1, <1>12
  <1>14. trail' \in Seq(Records)
    BY <1>3, <1>8, FrontType DEF TypeInv
  <1>15. c.pc \in Places /\ "user" \in Stacks
    BY <1>1 DEF Records, Stacks
  <1>16. TypeInv'
    BY <1>3, <1>8, <1>9, <1>10, <1>12, <1>14, <1>15 DEF TypeInv
  <1>17. \A t \in Stacks : t # on => stack'[t] = stack[t]
    BY <1>10 DEF Stacked
  <1>18. stack'[c.on] = c.below
    BY <1>3, <1>4, <1>15, <1>17
  <1> QED
    BY <1>8, <1>9, <1>10, <1>11, <1>12, <1>13, <1>16, <1>17, <1>18 DEF Returned

LEMMA ReturnKernel ==
  ASSUME IInv, Exec, trail # << >>, NEW c, c = trail[Len(trail)],
         pc[2] = Length(Code1(c)), c.vector \notin ErrorCodes, c.on # "user"
  PROVE  Returned(c)
  <1> DEFINE f == Frame(c)
             s == stack[on]
             b == Len(c.below)
  <1>1. /\ Instr = <<"iret">> /\ c \in Records /\ Raised(c)
        /\ Len(s) = Len(f) /\ \A k \in 1 .. Len(f) : s[k] = f[k]
        /\ \A r \in Survive(c.vector) : r \in Registers /\ regs[r] = c.regs[r]
    BY HandlerLast
  <1>2. iret /\ ~down
    BY <1>1, Dispatch
  <1>3. /\ TypeInv /\ on = c.on
    BY <1>2, TopHandler
  <1>5. /\ Len(f) = b + 3 /\ b \in Nat
        /\ \A k \in 1 .. b : f[k] = c.below[k]
        /\ f[b + 1] = <<"eflags", IF c.iff THEN 1 ELSE 0>> /\ f[b + 2] = <<"cs", 0>>
        /\ f[b + 3] = c.pc
    BY <1>1, FrameIs
  <1> HIDE DEF f
  <1>6. /\ Len(s) = b + 3 /\ \A k \in 1 .. b : s[k] = c.below[k]
        /\ s[b + 1] = <<"eflags", IF c.iff THEN 1 ELSE 0>> /\ s[b + 2] = <<"cs", 0>>
        /\ s[b + 3] = c.pc
    <2>1. b + 1 \in 1 .. Len(f) /\ b + 2 \in 1 .. Len(f) /\ b + 3 \in 1 .. Len(f)
      BY <1>5
    <2>2. \A k \in 1 .. b : k \in 1 .. Len(f)
      BY <1>5
    <2> QED
      BY <2>1, <2>2, <1>1, <1>5
  <1> HIDE DEF s, b
  <1>7. /\ Top = s /\ Top[Len(Top) - 1] = <<"cs", 0>> /\ Top[Len(Top)] = c.pc
        /\ Top[Len(Top) - 2] = s[b + 1]
    <2>1. Len(s) - 1 = b + 2 /\ Len(s) - 2 = b + 1
      BY <1>5, <1>6
    <2> QED
      BY <2>1, <1>6 DEF Top, s
  <1>8. /\ pc' = c.pc
        /\ iff' = (s[b + 1] = <<"eflags", 1>>)
        /\ on' = on
        /\ Pop(3)
        /\ regs' = regs
        /\ trail' = Front(trail) /\ call' = call
    <2> DEFINE n == Len(Top)
    <2>1. /\ pc' = Top[n] /\ iff' = (Top[n - 2] = <<"eflags", 1>>)
          /\ on' = on /\ Pop(3) /\ regs' = regs
          /\ trail' = (IF trail = << >> THEN trail ELSE Front(trail)) /\ call' = call
      BY <1>2, <1>7, IretIs
    <2> HIDE DEF n
    <2>2. iff' = (s[b + 1] = <<"eflags", 1>>)
      <3>1. Top[n - 2] = s[b + 1]
        BY <1>7 DEF n
      <3> QED
        BY <2>1, <3>1
    <2> QED
      BY <1>6, <1>7, <2>1, <2>2 DEF n
  <1>9. iff' = c.iff /\ iff' \in BOOLEAN
    <2>1. c.iff \in BOOLEAN
      BY <1>1 DEF Records
    <2>2. CASE c.iff
      <3>1. s[b + 1] = <<"eflags", 1>>
        BY <1>6, <2>2
      <3>2. iff' = TRUE
        BY <3>1, <1>8, Zenon
      <3>3. c.iff = TRUE
        BY <2>1, <2>2, Zenon
      <3> QED
        BY <3>2, <3>3
    <2>3. CASE ~c.iff
      <3>1. s[b + 1] # <<"eflags", 1>>
        BY <1>6, <2>3
      <3>2. iff' = FALSE
        BY <3>1, <1>8, Zenon
      <3>3. c.iff = FALSE
        BY <2>1, <2>3, Zenon
      <3> QED
        BY <3>2, <3>3
    <2> QED
      BY <2>2, <2>3
  <1>10. /\ stack' \in [Stacks -> Seq(Words)] /\ ~down' /\ down' \in BOOLEAN
         /\ Len(stack.kernel)' <= KernelWords
         /\ Stacked(SubSeq(s, 1, Len(s) - 3))
    <2>1. 3 <= Len(s)
      BY <1>5, <1>6
    <2> QED
      BY <2>1, <1>2, <1>3, <1>8, PopStep DEF s
  <1>11. stack'[c.on] = c.below
    <2> DEFINE n == 3
               t == SubSeq(s, 1, Len(s) - n)
    <2>1. n \in Nat /\ n <= Len(s) /\ n = 3
      BY <1>5, <1>6
    <2>2. s \in Seq(Words) /\ c.below \in Seq(Words)
      BY <1>1, <1>3 DEF TypeInv, s, Records
    <2>3. stack'[c.on] = t
      BY <1>3, <1>10 DEF Stacked
    <2> HIDE DEF n
    <2>4. t \in Seq(Words) /\ Len(t) = Len(s) - n /\ \A k \in 1 .. Len(s) - n : t[k] = s[k]
      BY <2>1, <2>2, Popped
    <2> HIDE DEF t
    <2>5. Len(t) = b /\ Len(s) - n = b
      BY <2>1, <2>4, <1>5, <1>6
    <2>6. \A k \in 1 .. b : t[k] = c.below[k]
      BY <2>4, <2>5, <1>6
    <2>7. t = c.below
      BY <2>2, <2>4, <2>5, <2>6, SameSequence DEF b
    <2> QED
      BY <2>3, <2>7
  <1>14. trail' \in Seq(Records)
    BY <1>3, <1>8, FrontType DEF TypeInv
  <1>15. c.pc \in Places
    BY <1>1 DEF Records
  <1>16. TypeInv'
    BY <1>3, <1>8, <1>9, <1>10, <1>14, <1>15 DEF TypeInv
  <1>17. \A t \in Stacks : t # on => stack'[t] = stack[t]
    BY <1>10 DEF Stacked
  <1> QED
    BY <1>1, <1>3, <1>8, <1>9, <1>10, <1>11, <1>16, <1>17 DEF Returned

LEMMA ErrorIret ==
  ASSUME IInv, Exec, trail # << >>, NEW c, c = trail[Len(trail)],
         pc[2] = Length(Code1(c)), c.vector \in ErrorCodes
  PROVE  IInv' /\ trail' = Append(trail, Entered(GeneralProtection, pc))
  <1> DEFINE f == Frame(c)
             s == stack[on]
             b == IF c.on = "user" THEN 2 ELSE Len(c.below)
  <1>1. /\ Instr = <<"iret">> /\ c \in Records
        /\ Len(s) = Len(f) /\ \A k \in 1 .. Len(f) : s[k] = f[k]
    BY HandlerLast
  <1>2. iret /\ ~down
    BY <1>1, Dispatch
  <1>3. TypeInv /\ Shape(trail, Now, call, stack)
    BY <1>2, TopHandler
  <1>4. Len(f) = b + 4 /\ b \in Nat /\ f[b + 3] = c.pc
    BY <1>1, FrameIs
  <1> HIDE DEF b, f, s
  <1>5. Len(s) - 1 = b + 3 /\ b + 3 \in 1 .. Len(f)
    BY <1>1, <1>4
  <1>6. s[Len(s) - 1] = c.pc
    BY <1>1, <1>4, <1>5
  <1>7. c.pc \notin {<<"cs", 0>>, <<"cs", 3>>}
    BY <1>1, CodeIs DEF Records, Places
  <1>8. Enter(GeneralProtection, pc)
    <2>1. Top[Len(Top) - 1] \notin {<<"cs", 0>>, <<"cs", 3>>}
      BY <1>6, <1>7 DEF Top, s
    <2> QED
      BY <1>2, <2>1, Zenon DEF iret
  <1> DEFINE d == Entered(GeneralProtection, pc)
  <1>9. GeneralProtection \in Vectors /\ GeneralProtection # GETTID_INT
        /\ GeneralProtection \in ErrorCodes
    BY DEF GeneralProtection, Vectors, GETTID_INT, ErrorCodes
  <1>10. pc \in Places
    BY <1>3 DEF TypeInv
  <1>11. d.vector = GeneralProtection /\ Frozen(d) = [Now EXCEPT !.pc = pc]
    BY <1>3, <1>9, <1>10, EnteredIs
  <1>12. Frozen(d) = Now
    BY <1>11 DEF Now
  <1>13. Raised(d)
    BY <1>9, <1>11 DEF Raised, GETTID_INT, GeneralProtection, ErrorCodes
  <1> HIDE DEF d
  <1>14. Shape(trail, Frozen(d), call, stack)
    BY <1>3, <1>12
  <1> QED
    BY <1>2, <1>3, <1>8, <1>9, <1>10, <1>13, <1>14, EnterStep DEF d

(* The context of the library function after its system call, or of the    *)
(* program after an exception: it goes on.                                 *)
LEMMA UserGoesOn ==
  ASSUME NEW c \in Records, Raised(c), NEW q, UserAt(Frozen(c), q), NEW e,
         c.vector \notin {Timer, Keyboard} \cup ErrorCodes,
         e.pc = c.pc, e.on = c.on, e.iff = c.iff, e.below = c.below,
         \A r \in Survive(c.vector) : e.regs[r] = c.regs[r],
         \A r \in Registers : Clean(e.regs[r])
  PROVE  UserAt(e, q)
  <1> DEFINE d == Frozen(c)
  <1>1. d.pc = c.pc /\ d.on = c.on /\ d.iff = c.iff /\ d.below = c.below /\ d.regs = c.regs
    BY DEF Frozen
  <1>2. UserAt(d, q)
    OBVIOUS
  <1> HIDE DEF d
  <1>3. Segments \subseteq Survive(c.vector)
    BY Code1Is, Registered DEF Scratch
  <1>4. /\ e.on = "user" /\ e.iff
        /\ \A x \in Segments : e.regs[x] = <<"ds", 3>>
        /\ \A x \in Registers : Clean(e.regs[x])
        /\ \A k \in 1 .. Len(e.below) : Clean(e.below[k])
    <2>1. c.iff
      BY <1>1, <1>2, Zenon DEF UserAt
    <2>2. e.iff
      BY <2>1, Zenon
    <2>3. e.on = "user" /\ \A k \in 1 .. Len(e.below) : Clean(e.below[k])
      BY <1>1, <1>2 DEF UserAt
    <2>4. \A x \in Segments : e.regs[x] = <<"ds", 3>>
      BY <1>1, <1>2, <1>3 DEF UserAt
    <2> QED
      BY <2>2, <2>3, <2>4
  <1>5. CASE c.vector = GETTID_INT
    <2>1. c.pc[1] = "table"
      BY <1>5 DEF Raised, GETTID_INT, Timer, Keyboard, ErrorCodes
    <2>2. q.num # 0 /\ EsiOK(q, d.regs) /\ WrapperAt(20, d, q)
      BY <2>1, <1>1, <1>2 DEF UserAt, InApp, InStub, InWrapper
    <2>3. e.regs.esi = d.regs.esi /\ e.regs.edi = d.regs.edi /\ e.regs.ebp = d.regs.ebp
      <3>1. {"esi", "edi", "ebp"} \subseteq Survive(c.vector)
        BY <1>5, SurviveIs, Registered DEF Scratch
      <3> QED
        BY <3>1, <1>1
    <2>4. EsiOK(q, e.regs)
      BY <2>2, <2>3 DEF EsiOK
    <2>5. Same("syscall_wrapper", 20) = {"edi"}
      BY DEF Same
    <2>6. Active("syscall_wrapper", 20, CallFrame(q), q.saved, e.below, e.regs)
      BY <2>2, <2>3, <2>5, <1>1 DEF WrapperAt, Active
    <2>7. Selecting(20, q, e.regs)
      BY <2>2, <2>3 DEF WrapperAt, Selecting
    <2> QED
      BY <1>4, <2>1, <2>2, <2>4, <2>6, <2>7 DEF UserAt, InWrapper, WrapperAt
  <1>6. CASE c.vector # GETTID_INT
    <2>1. c.pc = <<"app", 1>>
      BY <1>6 DEF Raised
    <2>2. InApp(d, q)
      BY <2>1, <1>1, <1>2 DEF UserAt, InStub, InWrapper
    <2>3. InApp(e, q)
      BY <2>2, <1>1 DEF InApp
    <2> QED
      BY <1>4, <2>3 DEF UserAt
  <1> QED
    BY <1>5, <1>6

LEMMA ReturnStep ==
  ASSUME IInv, ~down, trail # << >>, NEW c, c = trail[Len(trail)],
         c.vector \notin ErrorCodes, Returned(c)
  PROVE  IInv'
  <1>1. /\ TypeInv /\ Shape(trail, Now, call, stack) /\ c \in Records /\ Raised(c)
        /\ on = IF c.on = "user" THEN "kernel" ELSE c.on
        /\ on = IF Context(trail, Now, 0).on = "boot" THEN "boot" ELSE "kernel"
    BY TopHandler
  <1>2. /\ TypeInv' /\ ~down' /\ trail' = Front(trail) /\ call' = call
        /\ pc' = c.pc /\ on' = c.on /\ iff' = c.iff /\ stack'[c.on] = c.below
        /\ \A r \in Survive(c.vector) : regs'[r] = c.regs[r]
        /\ \A s \in Stacks : s # on => stack'[s] = stack[s]
        /\ c.on = "user" => stack'.kernel = << >> /\ \A r \in Registers : Clean(regs'[r])
    BY DEF Returned
  <1>3. /\ Now'.pc = c.pc /\ Now'.on = c.on /\ Now'.iff = c.iff /\ Now'.below = c.below
        /\ Now'.regs = regs'
    BY <1>2 DEF Now
  <1>4. trail \in Seq(Records)
    BY <1>1 DEF TypeInv
  <1>5. CASE c.vector \in {Timer, Keyboard}
    <2>1. Survive(c.vector) = Registers
      BY <1>5, SurviveIs
    <2>2. regs' = c.regs
      BY <1>1, <1>2, <2>1 DEF TypeInv, Files, Records
    <2>3. Now' = Frozen(c)
      BY <1>2, <2>2 DEF Now, Frozen
    <2>4. ASSUME Len(trail) = 1
          PROVE  StacksOK(Frozen(trail[1]), << >>, stack')
      <3>1. trail[1] = c /\ Frozen(c).on = c.on /\ Frozen(c).below = c.below
        BY <2>4 DEF Frozen
      <3>2. CASE c.on = "user"
        <4>1. stack'["user"] = c.below /\ stack'["kernel"] = << >>
          BY <1>2, <3>2
        <4> QED
          BY <3>1, <3>2, <4>1 DEF StacksOK
      <3>3. CASE c.on # "user"
        <4>1. Context(trail, Now, 0) = Frozen(c)
          <5> DEFINE k == 0
          <5>1. k # Len(trail) /\ k + 1 = 1
            BY <2>4
          <5> HIDE DEF k
          <5>2. Context(trail, Now, k) = Frozen(trail[1])
            BY <5>1 DEF Context
          <5> QED
            BY <3>1, <5>2 DEF k
        <4>2. c.on = "boot" /\ on = "boot"
          BY <1>1, <3>1, <3>3, <4>1 DEF Shape, BootAt, UserAt
        <4>3. stack.user = << >> /\ stack.kernel = << >>
          BY <1>1, <3>1, <4>1, <4>2 DEF Shape, StacksOK
        <4>4. stack'["user"] = << >> /\ stack'["kernel"] = << >>
          BY <1>2, <4>2, <4>3 DEF Stacks
        <4> QED
          BY <3>1, <4>2, <4>4 DEF StacksOK
      <3> QED
        BY <3>2, <3>3
    <2>5. \A s \in Stacks : s # Now.on => stack'[s] = stack[s]
      <3>1. Now.on = on
        BY DEF Now
      <3> QED
        BY <3>1, <1>2
    <2>6. Shape(Front(trail), Frozen(c), call, stack')
      BY <1>1, <1>4, <2>4, <2>5, ShapeReturn
    <2>7. Shape(trail, Now, call, stack)'
      BY <2>3, <2>6, <1>2
    <2> QED
      BY <1>2, <2>7 DEF IInv
  <1>6. CASE c.vector \notin {Timer, Keyboard}
    <2>1. c.on = "user"
      BY <1>1, <1>6 DEF Raised, GETTID_INT
    <2>2. Len(trail) = 1 /\ UserAt(Frozen(c), call)
      BY <2>1, UserBelow
    <2>3. UserAt(Now', call)
      BY <1>1, <1>2, <1>3, <1>6, <2>1, <2>2, UserGoesOn
    <2>4. trail' = << >>
      <3>1. Front(trail) \in Seq(Records) /\ Len(Front(trail)) = 0
        BY <1>4, <2>2, FrontType
      <3> QED
        BY <3>1, <1>2, EmptySeq
    <2>5. StacksOK(Now', << >>, stack')
      <3>1. stack'["user"] = c.below /\ stack'["kernel"] = << >>
        BY <1>2, <2>1
      <3> QED
        BY <3>1, <1>3, <2>1 DEF StacksOK
    <2>6. Shape(<< >>, Now', call, stack')
      BY <2>3, <2>5, ShapeBase
    <2>7. Shape(trail, Now, call, stack)'
      BY <2>4, <2>6, <1>2
    <2> QED
      BY <1>2, <2>7 DEF IInv
  <1> QED
    BY <1>5, <1>6

(* What a step does while a handler runs.                                  *)
LEMMA HandlerStep ==
  ASSUME IInv, Exec, trail # << >>
  PROVE  /\ IInv'
         /\ LET c == trail[Len(trail)]
            IN  \/ trail' = trail
                \/ c.vector \in ErrorCodes
                   /\ trail' = Append(trail, Entered(GeneralProtection, pc))
                \/ c.vector \notin ErrorCodes /\ Returned(c)
  <1> DEFINE c == trail[Len(trail)]
  <1>1. CASE pc[2] # Length(Code1(c))
    BY <1>1, HandlerQuiet
  <1>2. CASE pc[2] = Length(Code1(c)) /\ c.vector \in ErrorCodes
    BY <1>2, ErrorIret
  <1>3. CASE pc[2] = Length(Code1(c)) /\ c.vector \notin ErrorCodes
    <2>1. Returned(c)
      BY <1>3, ReturnUser, ReturnKernel
    <2>2. IInv'
      BY <1>3, <2>1, Dispatch, ReturnStep
    <2> QED
      BY <1>3, <2>1, <2>2
  <1> QED
    BY <1>1, <1>2, <1>3

-----------------------------------------------------------------------------
(* do_task_switch.                                                         *)
LEMMA BootCode ==
  LET b == do_task_switch
  IN  /\ b[1] = <<"mov", "esp", "ebp">>
      /\ b[2] = <<"set", 5, "ebx">> /\ b[3] = <<"load", "ebx", "eax">> /\ b[4] = <<"push", "eax">>
      /\ b[5] = <<"set", 4, "ebx">> /\ b[6] = <<"load", "ebx", "eax">> /\ b[7] = <<"push", "eax">>
      /\ b[8] = <<"set", 3, "ebx">> /\ b[9] = <<"load", "ebx", "eax">> /\ b[10] = <<"push", "eax">>
      /\ b[11] = <<"set", 2, "ebx">> /\ b[12] = <<"load", "ebx", "eax">>
      /\ b[13] = <<"push", "eax">>
      /\ b[14] = <<"set", 1, "ebx">> /\ b[15] = <<"load", "ebx", "eax">>
      /\ b[16] = <<"push", "eax">>
      /\ b[17] = <<"set", 6, "ebx">> /\ b[18] = <<"load", "ebx", "ds">>
      /\ b[19] = <<"set", 6, "ebx">> /\ b[20] = <<"load", "ebx", "es">>
      /\ b[21] = <<"set", 6, "ebx">> /\ b[22] = <<"load", "ebx", "fs">>
      /\ b[23] = <<"set", 6, "ebx">> /\ b[24] = <<"load", "ebx", "gs">> /\ b[25] = <<"iret">>
  BY DEF do_task_switch, BuildFrame, FrameWord, Segment

LEMMA WrapperCode ==
  LET w == syscall_wrapper
  IN  /\ w[1] = <<"push", "ebp">> /\ w[2] = <<"mov", "esp", "ebp">> /\ w[3] = <<"push", "edi">>
      /\ w[4] = <<"push", "ebx">> /\ w[5] = <<"push", "esi">>
      /\ w[6] = <<"set", INT_NUM_OFFSET, "ebx">> /\ w[7] = <<"load", "ebx", "ecx">>
      /\ w[8] = <<"set", ARG_NUM_OFFSET, "ebx">> /\ w[9] = <<"load", "ebx", "edx">>
      /\ w[10] = <<"set", ARG_PKT_OFFSET, "ebx">>
      /\ w[11] = <<"jeq", 1, "edx", 17>> /\ w[12] = <<"jeq", 0, "edx", 15>>
      /\ w[13] = <<"lea", "ebx", "esi">> /\ w[14] = <<"jmp", 18>>
      /\ w[15] = <<"set", 0, "esi">> /\ w[16] = <<"jmp", 18>>
      /\ w[17] = <<"load", "ebx", "esi">>
      /\ w[18] = <<"lookup", "ecx", "eax">> /\ w[19] = <<"jmpreg", "eax">>
      /\ w[20] = <<"pop", "esi">> /\ w[21] = <<"pop", "ebx">> /\ w[22] = <<"pop", "edi">>
      /\ w[23] = <<"mov", "ebp", "esp">> /\ w[24] = <<"pop", "ebp">> /\ w[25] = <<"ret">>
  BY DEF syscall_wrapper, prologue, select_args, table_jump, epilogue, do_syscall, syscall_1arg,
     syscall_0arg

LEMMA BaseQuiet ==
  ASSUME TypeInv', ~down', trail' = << >>, BootAt(Now', call') \/ UserAt(Now', call'),
         StacksOK(Now', << >>, stack')
  PROVE  IInv'
  <1>1. Shape(<< >>, Now', call', stack')
    BY ShapeBase
  <1>2. Shape(trail, Now, call, stack)'
    BY <1>1
  <1> QED
    BY <1>2 DEF IInv

LEMMA BootHas ==
  ASSUME IInv, Exec, trail = << >>, pc[1] = "do_task_switch"
  PROVE  /\ TypeInv /\ ~down /\ on = "boot" /\ iff /\ call = NoCall /\ pc[2] \in 1 .. 25
         /\ BootStack(stack[on], BootDepth(pc[2])) /\ BootRegs(pc[2], regs)
         /\ stack.user = << >> /\ stack.kernel = << >>
         /\ pc[1] \in DOMAIN Code /\ Instr = do_task_switch[pc[2]]
         /\ stack[on] \in Seq(Words)
  <1>1. TypeInv /\ ~down
    BY Dispatch DEF IInv
  <1>2. Now.pc = pc /\ Now.on = on /\ Now.regs = regs /\ Now.below = stack[on]
    BY DEF Now
  <1>3. Now.iff <=> iff
    BY Zenon DEF Now
  <1>4. BootAt(Now, call) /\ StacksOK(Now, << >>, stack)
    BY <1>1, <1>2, Bottom DEF UserAt, InApp, InStub, InWrapper
  <1>5. Now.iff
    BY <1>4 DEF BootAt
  <1>6. pc[1] \in DOMAIN Code /\ Instr = do_task_switch[pc[2]]
    BY CodeIs, InstrIs
  <1>7. iff
    BY <1>3, <1>5, Zenon
  <1>8. stack[on] \in Seq(Words)
    BY <1>1 DEF TypeInv
  <1> QED
    BY <1>1, <1>2, <1>4, <1>6, <1>7, <1>8 DEF BootAt, StacksOK

(* One instruction of do_task_switch that is not the last.                 *)
LEMMA BootGoesOn ==
  ASSUME IInv, Exec, trail = << >>, pc[1] = "do_task_switch", pc[2] # 25,
         TypeInv', ~down', Moves,
         BootStack(stack'[on], BootDepth(pc[2] + 1)), BootRegs(pc[2] + 1, regs'),
         \A s \in Stacks : s # on => stack'[s] = stack[s]
  PROVE  IInv' /\ trail' = trail
  <1>1. /\ on = "boot" /\ iff /\ call = NoCall /\ pc[2] \in 1 .. 25
        /\ stack.user = << >> /\ stack.kernel = << >>
    BY BootHas
  <1>2. /\ pc' = <<pc[1], pc[2] + 1>> /\ on' = on /\ iff' = iff /\ trail' = trail /\ call' = call
    BY DEF Moves
  <1>3. /\ Now'.pc = pc' /\ Now'.on = "boot" /\ Now'.regs = regs' /\ Now'.below = stack'[on]
    BY <1>1, <1>2 DEF Now
  <1>4. Now'.iff
    <2>1. Now'.iff <=> iff'
      BY Zenon DEF Now
    <2>2. iff' <=> iff
      BY Zenon, <1>2
    <2> QED
      BY <1>1, <2>1, <2>2, Zenon
  <1>5. pc[2] + 1 \in 1 .. 25
    BY <1>1
  <1>6. BootAt(Now', call')
    BY <1>1, <1>2, <1>3, <1>4, <1>5 DEF BootAt
  <1>7. StacksOK(Now', << >>, stack')
    <2>1. stack'["user"] = << >> /\ stack'["kernel"] = << >>
      BY <1>1 DEF Stacks
    <2> QED
      BY <2>1, <1>3 DEF StacksOK
  <1> QED
    BY <1>2, <1>6, <1>7, BaseQuiet

(* An instruction that only writes a register.                             *)
LEMMA BootWrites ==
  ASSUME IInv, Exec, trail = << >>, pc[1] = "do_task_switch", pc[2] # 25,
         TypeInv', ~down', Moves, stack' = stack,
         BootDepth(pc[2] + 1) = BootDepth(pc[2]), BootRegs(pc[2] + 1, regs')
  PROVE  IInv' /\ trail' = trail
  <1>1. BootStack(stack[on], BootDepth(pc[2]))
    BY BootHas
  <1> QED
    BY <1>1, BootGoesOn

LEMMA ThreadSwitchIs ==
  /\ thread_switch[1] = <<"ds", 3>> /\ thread_switch[2] = <<"ds", 3>>
  /\ thread_switch[3] = <<"user", 0>> /\ thread_switch[4] = <<"eflags", 1>>
  /\ thread_switch[5] = <<"cs", 3>> /\ thread_switch[6] = <<"app", 0>>
  /\ thread_switch[7] = <<"thread_switch", 1>>
  BY DEF thread_switch

(* Where instruction i is in the five pushes, or in the four segments.     *)
LEMMA BootFrames ==
  ASSUME NEW m \in 0 .. 4
  PROVE  /\ do_task_switch[2 + 3 * m] = <<"set", 5 - m, "ebx">>
         /\ do_task_switch[3 + 3 * m] = <<"load", "ebx", "eax">>
         /\ do_task_switch[4 + 3 * m] = <<"push", "eax">>
         /\ BootDepth(2 + 3 * m) = m /\ BootDepth(3 + 3 * m) = m /\ BootDepth(4 + 3 * m) = m
         /\ BootDepth(5 + 3 * m) = m + 1
  <1>1. CASE m = 0
    BY <1>1, BootCode DEF BootDepth
  <1>2. CASE m = 1
    BY <1>2, BootCode DEF BootDepth
  <1>3. CASE m = 2
    BY <1>3, BootCode DEF BootDepth
  <1>4. CASE m = 3
    BY <1>4, BootCode DEF BootDepth
  <1>5. CASE m = 4
    BY <1>5, BootCode DEF BootDepth
  <1>6. m = 0 \/ m = 1 \/ m = 2 \/ m = 3 \/ m = 4
    OBVIOUS
  <1> QED
    BY <1>1, <1>2, <1>3, <1>4, <1>5, <1>6

LEMMA BootDepthType ==
  ASSUME NEW i \in 1 .. 25
  PROVE  BootDepth(i) \in Nat
  <1>1. CASE i = 1
    BY <1>1 DEF BootDepth
  <1>2. CASE i > 16
    BY <1>2 DEF BootDepth
  <1>3. CASE i # 1 /\ ~(i > 16)
    <2>1. i - 2 \in Nat /\ BootDepth(i) = (i - 2) \div 3
      BY <1>3 DEF BootDepth
    <2>2. \A n \in Nat : n \div 3 \in Nat
      OBVIOUS
    <2> QED
      BY <2>1, <2>2
  <1> QED
    BY <1>1, <1>2, <1>3

LEMMA BootLoads ==
  ASSUME IInv, Exec, trail = << >>, pc[1] = "do_task_switch", pc[2] > 1,
         NEW n \in 1 .. 6, regs.ebx = <<"int", n>>
  PROVE  At(Indexed("ebx")) = thread_switch[7 - n]
  <1>1. /\ TypeInv /\ on = "boot" /\ BootStack(stack[on], BootDepth(pc[2]))
        /\ BootRegs(pc[2], regs)
    BY BootHas
  <1>2. regs.ebp = <<"boot", 7>> /\ "ebx" \in Registers /\ "boot" \in Stacks
    BY <1>1, Registered DEF BootRegs, Stacks
  <1>3. Indexed("ebx") = <<"boot", 7 - n>>
    BY <1>1, <1>2, IndexedIs
  <1>4. 7 - n \in 1 .. 7 /\ 7 - n \in Int
    OBVIOUS
  <1> DEFINE k == 7 - n
             s == stack["boot"]
  <1>5. k \in 1 .. Len(s) /\ s[k] = thread_switch[k]
    <2>1. BootDepth(pc[2]) \in Nat
      <3>1. pc[2] \in 1 .. 25
        BY BootHas
      <3> QED
        BY <3>1, BootDepthType
    <2>2. Len(s) = 7 + BootDepth(pc[2]) /\ s[k] = thread_switch[k]
      BY <1>1, <1>4 DEF BootStack
    <2> QED
      BY <1>4, <2>1, <2>2
  <1> HIDE DEF k, s
  <1>6. At(<<"boot", k>>) = s[k]
    <2>1. k \in Int
      BY <1>4 DEF k
    <2> QED
      BY <2>1, <1>1, <1>2, <1>5, AtIs DEF s
  <1> QED
    BY <1>3, <1>5, <1>6 DEF k

LEMMA BootPushes ==
  ASSUME NEW s \in Seq(Words), NEW n \in Nat, BootStack(s, n), NEW w \in Words,
         w = thread_switch[2 + n]
  PROVE  BootStack(s \o <<w>>, n + 1)
  <1> DEFINE x == <<w>>
             u == s \o x
  <1>1. x \in Seq(Words) /\ Len(x) = 1 /\ x[1] = w /\ Joined(u, s, x)
    BY DEF Joined
  <1>9. x \in Seq(Words)
    BY <1>1
  <1>10. Joined(u, s, x)
    BY <1>1
  <1> HIDE DEF x, u
  <1>2. Len(s) = 7 + n
    BY DEF BootStack
  <1>3. u \in Seq(Words) /\ Len(u) = Len(s) + Len(x)
    BY <1>9, <1>10, Joins
  <1>4. \A k \in 1 .. Len(s) : u[k] = s[k]
    BY <1>9, <1>10, Joins
  <1>5. \A k \in 1 .. Len(x) : u[Len(s) + k] = x[k]
    BY <1>9, <1>10, Joins
  <1>6. Len(u) = 7 + (n + 1)
    BY <1>1, <1>2, <1>3
  <1>7. \A k \in 1 .. 7 : u[k] = thread_switch[k]
    BY <1>2, <1>4 DEF BootStack
  <1>8. ASSUME NEW k \in 1 .. n + 1
        PROVE  u[7 + k] = thread_switch[1 + k]
    <2>1. CASE k \in 1 .. n
      BY <2>1, <1>2, <1>4 DEF BootStack
    <2>2. CASE k = n + 1
      <3> DEFINE a == 1
      <3>1. a \in 1 .. Len(x) /\ Len(s) + a = 7 + k /\ 1 + k = 2 + n /\ x[a] = w
        BY <2>2, <1>1, <1>2
      <3> HIDE DEF a
      <3>2. u[Len(s) + a] = x[a]
        BY <3>1, <1>5
      <3> QED
        BY <3>1, <3>2
    <2> QED
      BY <2>1, <2>2
  <1> QED
    BY <1>6, <1>7, <1>8 DEF BootStack, u, x

(* The words of the frame, from instruction 2 to 16.                       *)
LEMMA BootFrameStep ==
  ASSUME IInv, Exec, trail = << >>, pc[1] = "do_task_switch", NEW m \in 0 .. 4,
         pc[2] \in {2 + 3 * m, 3 + 3 * m, 4 + 3 * m}
  PROVE  IInv' /\ trail' = trail
  <1>1. /\ TypeInv /\ on = "boot" /\ BootStack(stack[on], BootDepth(pc[2]))
        /\ BootRegs(pc[2], regs) /\ pc[1] \in DOMAIN Code /\ Instr = do_task_switch[pc[2]]
        /\ stack[on] \in Seq(Words)
    BY BootHas
  <1>2. {"ebp", "ebx", "eax"} \subseteq Registers
    BY Registered
  <1>3. regs.ebp = <<"boot", 7>> /\ pc[2] # 25 /\ pc[2] > 1
    BY <1>1 DEF BootRegs
  <1>4. CASE pc[2] = 2 + 3 * m
    <2>1. Instr = <<"set", 5 - m, "ebx">>
      BY <1>1, <1>4, BootFrames
    <2>2. TypeInv' /\ Moves /\ ~down' /\ stack' = stack /\ Wrote("ebx", <<"int", 5 - m>>)
      <3>1. 5 - m \in Int
        OBVIOUS
      <3> QED
        BY <1>1, <1>2, <2>1, <3>1, SetIs
    <2>3. pc[2] + 1 = 3 + 3 * m
      BY <1>4
    <2>4. regs'.ebp = <<"boot", 7>> /\ regs'.ebx = <<"int", 5 - m>>
      BY <1>2, <1>3, <2>2 DEF Wrote
    <2>5. BootRegs(pc[2] + 1, regs')
      BY <2>3, <2>4 DEF BootRegs
    <2>6. BootDepth(pc[2] + 1) = BootDepth(pc[2])
      BY <1>4, <2>3, BootFrames
    <2> QED
      BY <1>3, <2>2, <2>5, <2>6, BootWrites
  <1>5. CASE pc[2] = 3 + 3 * m
    <2>1. Instr = <<"load", "ebx", "eax">>
      BY <1>1, <1>5, BootFrames
    <2>2. TypeInv' /\ Moves /\ ~down' /\ stack' = stack /\ Wrote("eax", At(Indexed("ebx")))
      BY <1>1, <1>2, <2>1, LoadIs
    <2>3. pc[2] + 1 = 4 + 3 * m
      BY <1>5
    <2>4. At(Indexed("ebx")) = thread_switch[2 + m]
      <3> DEFINE n == 5 - m
      <3>1. n \in 1 .. 6 /\ 7 - n = 2 + m
        OBVIOUS
      <3>2. regs.ebx = <<"int", n>>
        BY <1>1, <1>5 DEF BootRegs
      <3> HIDE DEF n
      <3> QED
        BY <1>3, <3>1, <3>2, BootLoads
    <2>5. regs'.ebp = <<"boot", 7>> /\ regs'.eax = thread_switch[2 + m]
      BY <1>2, <1>3, <2>2, <2>4 DEF Wrote
    <2>6. BootRegs(pc[2] + 1, regs')
      BY <2>3, <2>5 DEF BootRegs
    <2>7. BootDepth(pc[2] + 1) = BootDepth(pc[2])
      BY <1>5, <2>3, BootFrames
    <2> QED
      BY <1>3, <2>2, <2>6, <2>7, BootWrites
  <1>6. CASE pc[2] = 4 + 3 * m
    <2>1. Instr = <<"push", "eax">>
      BY <1>1, <1>6, BootFrames
    <2>2. /\ TypeInv' /\ Moves /\ regs' = regs /\ ~down'
          /\ Stacked(stack[on] \o <<regs["eax"]>>)
      BY <1>1, <1>2, <2>1, PushStep
    <2>3. pc[2] + 1 = 5 + 3 * m
      BY <1>6
    <2>4. BootRegs(pc[2] + 1, regs')
      BY <1>3, <2>2, <2>3 DEF BootRegs
    <2>5. BootDepth(pc[2]) = m /\ BootDepth(pc[2] + 1) = m + 1
      BY <1>6, <2>3, BootFrames
    <2>6. BootStack(stack'[on], BootDepth(pc[2] + 1))
      <3>1. regs["eax"] = thread_switch[2 + m] /\ regs["eax"] \in Words
        BY <1>1, <1>2, <1>6 DEF BootRegs, TypeInv, Files
      <3>2. BootStack(stack[on] \o <<regs["eax"]>>, m + 1)
        BY <1>1, <2>5, <3>1, BootPushes
      <3> QED
        BY <2>2, <2>5, <3>2 DEF Stacked
    <2> QED
      BY <1>3, <2>2, <2>4, <2>6, BootGoesOn DEF Stacked
  <1> QED
    BY <1>4, <1>5, <1>6

(* The segment registers, from instruction 17 to 24.                       *)
LEMMA BootSegmentStep ==
  ASSUME IInv, Exec, trail = << >>, pc[1] = "do_task_switch", pc[2] \in 17 .. 24
  PROVE  IInv' /\ trail' = trail
  <1>1. /\ TypeInv /\ on = "boot" /\ BootRegs(pc[2], regs)
        /\ pc[1] \in DOMAIN Code /\ Instr = do_task_switch[pc[2]]
    BY BootHas
  <1>2. Registers = {"ebx", "esi", "edi", "ebp", "eax", "ecx", "edx", "ds", "es", "fs", "gs"}
    BY Registered
  <1>3. regs.ebp = <<"boot", 7>> /\ pc[2] # 25 /\ pc[2] > 1
    BY <1>1 DEF BootRegs
  <1>4. BootDepth(pc[2] + 1) = BootDepth(pc[2])
    BY DEF BootDepth
  <1>5. CASE pc[2] \in {17, 19, 21, 23}
    <2>1. Instr = <<"set", 6, "ebx">>
      BY <1>1, <1>5, BootCode
    <2>2. TypeInv' /\ Moves /\ ~down' /\ stack' = stack /\ Wrote("ebx", <<"int", 6>>)
      BY <1>1, <1>2, <2>1, SetIs
    <2>3. /\ regs'.ebp = <<"boot", 7>> /\ regs'.ebx = <<"int", 6>>
          /\ regs'.ds = regs.ds /\ regs'.es = regs.es /\ regs'.fs = regs.fs
          /\ regs'.gs = regs.gs
      BY <1>2, <1>3, <2>2 DEF Wrote
    <2>4. BootRegs(pc[2] + 1, regs')
      <3>1. pc[2] + 1 \in {18, 20, 22, 24} /\ \A m \in 0 .. 4 : pc[2] + 1 > 4 + 3 * m
        BY <1>5
      <3>2. /\ pc[2] + 1 > 18 => regs.ds = <<"ds", 3>>
            /\ pc[2] + 1 > 20 => regs.es = <<"ds", 3>>
            /\ pc[2] + 1 > 22 => regs.fs = <<"ds", 3>>
        BY <1>1, <1>5 DEF BootRegs
      <3> QED
        BY <2>3, <3>1, <3>2 DEF BootRegs
    <2> QED
      BY <1>3, <1>4, <2>2, <2>4, BootWrites
  <1>6. CASE pc[2] \in {18, 20, 22, 24}
    <2>1. At(Indexed("ebx")) = <<"ds", 3>>
      <3> DEFINE n == 6
      <3>1. n \in 1 .. 6 /\ 7 - n = 1
        OBVIOUS
      <3>2. regs.ebx = <<"int", n>>
        BY <1>1, <1>6 DEF BootRegs
      <3> HIDE DEF n
      <3>3. At(Indexed("ebx")) = thread_switch[7 - n]
        BY <1>3, <3>1, <3>2, BootLoads
      <3> QED
        BY <3>1, <3>3, ThreadSwitchIs
    <2>2. CASE pc[2] = 18
      <3>1. Instr = <<"load", "ebx", "ds">>
        BY <1>1, <2>2, BootCode
      <3>2. TypeInv' /\ Moves /\ ~down' /\ stack' = stack /\ Wrote("ds", <<"ds", 3>>)
        BY <1>1, <1>2, <2>1, <3>1, LoadIs
      <3>3. /\ regs'.ebp = <<"boot", 7>> /\ regs'.ds = <<"ds", 3>>
            /\ regs'.es = regs.es /\ regs'.fs = regs.fs /\ regs'.gs = regs.gs
        BY <1>2, <1>3, <3>2 DEF Wrote
      <3>4. BootRegs(pc[2] + 1, regs')
        BY <1>1, <2>2, <3>3 DEF BootRegs
      <3> QED
        BY <1>3, <1>4, <3>2, <3>4, BootWrites
    <2>3. CASE pc[2] = 20
      <3>1. Instr = <<"load", "ebx", "es">>
        BY <1>1, <2>3, BootCode
      <3>2. TypeInv' /\ Moves /\ ~down' /\ stack' = stack /\ Wrote("es", <<"ds", 3>>)
        BY <1>1, <1>2, <2>1, <3>1, LoadIs
      <3>3. /\ regs'.ebp = <<"boot", 7>> /\ regs'.es = <<"ds", 3>>
            /\ regs'.ds = regs.ds /\ regs'.fs = regs.fs /\ regs'.gs = regs.gs
        BY <1>2, <1>3, <3>2 DEF Wrote
      <3>4. BootRegs(pc[2] + 1, regs')
        BY <1>1, <2>3, <3>3 DEF BootRegs
      <3> QED
        BY <1>3, <1>4, <3>2, <3>4, BootWrites
    <2>4. CASE pc[2] = 22
      <3>1. Instr = <<"load", "ebx", "fs">>
        BY <1>1, <2>4, BootCode
      <3>2. TypeInv' /\ Moves /\ ~down' /\ stack' = stack /\ Wrote("fs", <<"ds", 3>>)
        BY <1>1, <1>2, <2>1, <3>1, LoadIs
      <3>3. /\ regs'.ebp = <<"boot", 7>> /\ regs'.fs = <<"ds", 3>>
            /\ regs'.ds = regs.ds /\ regs'.es = regs.es /\ regs'.gs = regs.gs
        BY <1>2, <1>3, <3>2 DEF Wrote
      <3>4. BootRegs(pc[2] + 1, regs')
        BY <1>1, <2>4, <3>3 DEF BootRegs
      <3> QED
        BY <1>3, <1>4, <3>2, <3>4, BootWrites
    <2>5. CASE pc[2] = 24
      <3>1. Instr = <<"load", "ebx", "gs">>
        BY <1>1, <2>5, BootCode
      <3>2. TypeInv' /\ Moves /\ ~down' /\ stack' = stack /\ Wrote("gs", <<"ds", 3>>)
        BY <1>1, <1>2, <2>1, <3>1, LoadIs
      <3>3. /\ regs'.ebp = <<"boot", 7>> /\ regs'.gs = <<"ds", 3>>
            /\ regs'.ds = regs.ds /\ regs'.es = regs.es /\ regs'.fs = regs.fs
        BY <1>2, <1>3, <3>2 DEF Wrote
      <3>4. BootRegs(pc[2] + 1, regs')
        BY <1>1, <2>5, <3>3 DEF BootRegs
      <3> QED
        BY <1>3, <1>4, <3>2, <3>4, BootWrites
    <2> QED
      BY <1>6, <2>2, <2>3, <2>4, <2>5
  <1> QED
    BY <1>5, <1>6

LEMMA BootStep ==
  ASSUME IInv, Exec, trail = << >>, pc[1] = "do_task_switch", pc[2] # 25
  PROVE  IInv' /\ trail' = trail
  <1>1. pc[2] \in 1 .. 25
    BY BootHas
  <1>2. CASE pc[2] = 1
    <2>1. /\ TypeInv /\ on = "boot" /\ BootStack(stack[on], BootDepth(pc[2]))
          /\ pc[1] \in DOMAIN Code /\ Instr = do_task_switch[pc[2]]
      BY BootHas
    <2>2. BootDepth(pc[2]) = 0 /\ BootDepth(pc[2] + 1) = 0
      BY <1>2 DEF BootDepth
    <2>3. Instr = <<"mov", "esp", "ebp">> /\ Len(stack[on]) = 7
      BY <1>2, <2>1, <2>2, BootCode DEF BootStack
    <2>4. TypeInv' /\ Moves /\ ~down' /\ stack' = stack /\ Wrote("ebp", <<"boot", 7>>)
      BY <2>1, <2>3, MovIs
    <2>5. regs'.ebp = <<"boot", 7>>
      BY <2>4 DEF Wrote
    <2>6. BootRegs(pc[2] + 1, regs')
      BY <1>2, <2>5 DEF BootRegs
    <2> QED
      BY <2>2, <2>4, <2>6, BootWrites
  <1>3. CASE pc[2] \in 17 .. 24
    BY <1>3, BootSegmentStep
  <1>4. CASE pc[2] \in 2 .. 16
    <2>1. \E m \in 0 .. 4 : pc[2] \in {2 + 3 * m, 3 + 3 * m, 4 + 3 * m}
      <3>1. \A i \in 2 .. 16 : \/ i \in {2, 3, 4} \/ i \in {5, 6, 7} \/ i \in {8, 9, 10}
                               \/ i \in {11, 12, 13} \/ i \in {14, 15, 16}
        OBVIOUS
      <3>2. CASE pc[2] \in {2, 3, 4}
        <4>1. 0 \in 0 .. 4 /\ pc[2] \in {2 + 3 * 0, 3 + 3 * 0, 4 + 3 * 0}
          BY <3>2
        <4> QED
          BY <4>1
      <3>3. CASE pc[2] \in {5, 6, 7}
        <4>1. 1 \in 0 .. 4 /\ pc[2] \in {2 + 3 * 1, 3 + 3 * 1, 4 + 3 * 1}
          BY <3>3
        <4> QED
          BY <4>1
      <3>4. CASE pc[2] \in {8, 9, 10}
        <4>1. 2 \in 0 .. 4 /\ pc[2] \in {2 + 3 * 2, 3 + 3 * 2, 4 + 3 * 2}
          BY <3>4
        <4> QED
          BY <4>1
      <3>5. CASE pc[2] \in {11, 12, 13}
        <4>1. 3 \in 0 .. 4 /\ pc[2] \in {2 + 3 * 3, 3 + 3 * 3, 4 + 3 * 3}
          BY <3>5
        <4> QED
          BY <4>1
      <3>6. CASE pc[2] \in {14, 15, 16}
        <4>1. 4 \in 0 .. 4 /\ pc[2] \in {2 + 3 * 4, 3 + 3 * 4, 4 + 3 * 4}
          BY <3>6
        <4> QED
          BY <4>1
      <3> QED
        BY <1>4, <3>1, <3>2, <3>3, <3>4, <3>5, <3>6
    <2> QED
      BY <2>1, BootFrameStep
  <1> QED
    BY <1>1, <1>2, <1>3, <1>4

(* Its iret is the program's first instruction.                            *)
LEMMA BootIret ==
  ASSUME IInv, Exec, trail = << >>, pc[1] = "do_task_switch", pc[2] = 25
  PROVE  IInv' /\ trail' = trail
  <1> DEFINE s == stack[on]
  <1>1. /\ TypeInv /\ ~down /\ on = "boot" /\ call = NoCall
        /\ BootStack(s, BootDepth(25)) /\ BootRegs(25, regs)
        /\ stack.user = << >> /\ stack.kernel = << >> /\ Instr = do_task_switch[25]
    BY BootHas
  <1>2. iret
    <2>1. Instr = <<"iret">>
      BY <1>1, BootCode
    <2> QED
      BY <2>1, Dispatch
  <1>3. /\ Len(s) = 12 /\ s[9] = <<"user", 0>> /\ s[10] = <<"eflags", 1>>
        /\ s[11] = <<"cs", 3>> /\ s[12] = <<"app", 0>>
    <2> DEFINE n == 5
    <2>1. n = BootDepth(25)
      BY DEF BootDepth
    <2>2. Len(s) = 7 + n /\ \A k \in 1 .. n : s[7 + k] = thread_switch[1 + k]
      BY <1>1, <2>1 DEF BootStack
    <2>3. s[7 + 2] = thread_switch[1 + 2] /\ s[7 + 3] = thread_switch[1 + 3]
          /\ s[7 + 4] = thread_switch[1 + 4] /\ s[7 + 5] = thread_switch[1 + 5]
      BY <2>2
    <2> QED
      BY <2>2, <2>3, ThreadSwitchIs
  <1> HIDE DEF s
  <1>4. /\ Top = s /\ Top[Len(Top) - 1] = <<"cs", 3>> /\ Top[Len(Top)] = <<"app", 0>>
        /\ Top[Len(Top) - 2] = <<"eflags", 1>> /\ Top[Len(Top) - 3] = <<"user", 0>>
    BY <1>3 DEF Top, s
  <1>5. /\ pc' = <<"app", 0>> /\ on' = "user" /\ Pop(5)
        /\ regs' = [r \in Registers |-> IF regs[r] = <<"ds", 0>> THEN Junk ELSE regs[r]]
        /\ trail' = trail /\ call' = call
    BY <1>2, <1>4, IretIs
  <1>6. iff' = TRUE
    <2>1. iff' = (Top[Len(Top) - 2] = <<"eflags", 1>>)
      BY <1>2, <1>4, IretIs
    <2> QED
      BY <1>4, <2>1, Zenon
  <1>7. /\ stack' \in [Stacks -> Seq(Words)] /\ ~down' /\ down' \in BOOLEAN
        /\ Len(stack.kernel)' <= KernelWords
        /\ Stacked(SubSeq(s, 1, Len(s) - 5))
    BY <1>1, <1>3, <1>5, PopStep DEF s
  <1>8. /\ regs' \in Files
        /\ \A r \in Registers : Clean(regs'[r]) /\ (Clean(regs[r]) => regs'[r] = regs[r])
    BY <1>1, <1>5, KindsHave DEF TypeInv, Files, Junk, Words, Clean
  <1>9. \A r \in Segments : regs'[r] = <<"ds", 3>>
    <2>2. regs["ds"] = <<"ds", 3>> /\ regs["es"] = <<"ds", 3>> /\ regs["fs"] = <<"ds", 3>>
          /\ regs["gs"] = <<"ds", 3>>
      BY <1>1 DEF BootRegs
    <2>1. \A r \in Segments : r \in Registers /\ regs[r] = <<"ds", 3>>
      BY <2>2, Registered
    <2> QED
      BY <2>1, <1>8 DEF Clean
  <1>10. stack'.user = << >> /\ stack'.kernel = << >>
    BY <1>1, <1>7 DEF Stacked, Stacks
  <1>11. TypeInv'
    <2>1. <<"app", 0>> \in Places /\ "user" \in Stacks
      BY DEF Places, Stacks
    <2>2. iff' \in BOOLEAN
      BY <1>6
    <2> QED
      BY <1>1, <1>5, <1>7, <1>8, <2>1, <2>2 DEF TypeInv
  <1>12. Now'.pc = <<"app", 0>> /\ Now'.on = "user" /\ Now'.regs = regs' /\ Now'.below = << >>
    BY <1>5, <1>10 DEF Now
  <1>13. Now'.iff
    BY <1>6, Zenon DEF Now
  <1>14. UserAt(Now', call')
    <2>1. InApp(Now', call')
      BY <1>1, <1>5, <1>12 DEF InApp
    <2>2. Len(Now'.below) = 0
      BY <1>12, EmptySeq
    <2>3. \A k \in 1 .. Len(Now'.below) : Clean(Now'.below[k])
      BY <2>2
    <2> QED
      BY <1>8, <1>9, <1>12, <1>13, <2>1, <2>3 DEF UserAt
  <1>15. StacksOK(Now', << >>, stack')
    BY <1>10, <1>12 DEF StacksOK
  <1> QED
    BY <1>5, <1>7, <1>11, <1>14, <1>15, BaseQuiet

-----------------------------------------------------------------------------
(* syscall_wrapper.                                                        *)
UserWords(r, s) ==
  /\ \A x \in Segments : r[x] = <<"ds", 3>>
  /\ \A x \in Registers : Clean(r[x])
  /\ \A k \in 1 .. Len(s) : Clean(s[k])

LEMMA UserHas ==
  ASSUME IInv, ~down, trail = << >>, pc[1] # "do_task_switch"
  PROVE  /\ TypeInv /\ on = "user" /\ iff /\ UserAt(Now, call)
         /\ stack.kernel = << >> /\ stack[on] \in Seq(Words) /\ stack[on] = stack.user
         /\ UserWords(regs, stack[on])
         /\ call \in Calls /\ DOMAIN call.saved = CalleeSaved
         /\ Now.pc = pc /\ Now.regs = regs /\ Now.below = stack[on]
  <1>1. TypeInv
    BY DEF IInv
  <1>2. Now.pc = pc /\ Now.regs = regs /\ Now.below = stack[on] /\ Now.on = on
    BY DEF Now
  <1>3. UserAt(Now, call) /\ StacksOK(Now, << >>, stack)
    BY <1>2, Bottom DEF BootAt
  <1>4. on = "user" /\ stack.kernel = << >>
    BY <1>2, <1>3 DEF UserAt, StacksOK
  <1>5. iff
    <2>1. Now.iff
      BY <1>3 DEF UserAt
    <2> QED
      BY <2>1, Zenon DEF Now
  <1>6. UserWords(regs, stack[on])
    BY <1>2, <1>3 DEF UserAt, UserWords
  <1>7. stack[on] \in Seq(Words) /\ call \in Calls /\ DOMAIN call.saved = CalleeSaved
    BY <1>1 DEF TypeInv, Calls
  <1> QED
    BY <1>1, <1>2, <1>3, <1>4, <1>5, <1>6, <1>7

LEMMA UserGoes ==
  ASSUME IInv, ~down, trail = << >>, pc[1] # "do_task_switch",
         TypeInv', ~down', on' = on, iff' = iff, trail' = trail,
         \A s \in Stacks : s # on => stack'[s] = stack[s],
         UserWords(regs', stack'[on]),
         \/ InApp(Now', call')
         \/ call'.num # 0 /\ (InStub(Now', call') \/ InWrapper(Now', call'))
  PROVE  IInv' /\ trail' = trail
  <1>1. on = "user" /\ iff /\ stack.kernel = << >>
    BY UserHas
  <1>2. Now'.pc = pc' /\ Now'.regs = regs' /\ Now'.below = stack'[on] /\ Now'.on = "user"
    BY <1>1 DEF Now
  <1>3. Now'.iff
    <2>1. iff'
      BY <1>1, Zenon
    <2> QED
      BY <2>1, Zenon DEF Now
  <1>4. UserAt(Now', call')
    BY <1>2, <1>3 DEF UserAt, UserWords
  <1>5. StacksOK(Now', << >>, stack')
    <2>1. stack'["kernel"] = << >> /\ stack'["user"] = Now'.below
      BY <1>1, <1>2 DEF Stacks
    <2> QED
      BY <2>1, <1>2 DEF StacksOK
  <1> QED
    BY <1>4, <1>5, BaseQuiet

LEMMA WrapperHas ==
  ASSUME IInv, Exec, trail = << >>, pc[1] = "syscall_wrapper"
  PROVE  /\ TypeInv /\ ~down /\ on = "user" /\ call.num # 0
         /\ pc[2] \in 1 .. 25 /\ pc[1] \in DOMAIN Code /\ Instr = syscall_wrapper[pc[2]]
         /\ Active("syscall_wrapper", pc[2], CallFrame(call), call.saved, stack[on], regs)
         /\ Selecting(pc[2], call, regs)
         /\ UserWords(regs, stack[on]) /\ stack[on] \in Seq(Words)
         /\ call \in Calls /\ DOMAIN call.saved = CalleeSaved
         /\ CallFrame(call) \in Seq(Words) /\ Len(CallFrame(call)) = call.pushed + 3
         /\ call.pushed \in Nat /\ call.num \in Nat /\ pc[2] \in Nat
  <1>1. ~down
    BY Dispatch
  <1>2. /\ TypeInv /\ on = "user" /\ UserAt(Now, call) /\ UserWords(regs, stack[on])
        /\ stack[on] \in Seq(Words) /\ call \in Calls /\ DOMAIN call.saved = CalleeSaved
        /\ Now.pc = pc /\ Now.regs = regs /\ Now.below = stack[on]
    BY <1>1, UserHas
  <1>3. call.num # 0 /\ pc[2] \in 1 .. 25 /\ WrapperAt(pc[2], Now, call)
    BY <1>2 DEF UserAt, InApp, InStub, InWrapper
  <1>4. pc[1] \in DOMAIN Code /\ Instr = syscall_wrapper[pc[2]]
    BY CodeIs, InstrIs
  <1>5. CallFrame(call) \in Seq(Words) /\ Len(CallFrame(call)) = call.pushed + 3
        /\ call.pushed \in Nat /\ call.num \in Nat
    BY <1>2, CallFrameIs DEF Calls
  <1>6. pc[2] \in Nat
    <2>1. \A k \in 1 .. 25 : k \in Nat
      OBVIOUS
    <2> QED
      BY <1>3, <2>1
  <1> QED
    BY <1>1, <1>2, <1>3, <1>4, <1>5, <1>6 DEF WrapperAt

LEMMA WrapperGoes ==
  ASSUME IInv, Exec, trail = << >>, pc[1] = "syscall_wrapper", NEW j \in 1 .. 25,
         TypeInv', ~down', pc' = <<"syscall_wrapper", j>>,
         on' = on, iff' = iff, trail' = trail, call' = call,
         Active("syscall_wrapper", j, CallFrame(call), call.saved, stack'[on], regs'),
         Selecting(j, call, regs'),
         UserWords(regs', stack'[on]),
         \A s \in Stacks : s # on => stack'[s] = stack[s]
  PROVE  IInv' /\ trail' = trail
  <1>1. ~down /\ call.num # 0
    BY WrapperHas
  <1>2. Now'.pc = pc' /\ Now'.regs = regs' /\ Now'.below = stack'[on]
    BY DEF Now
  <1>3. InWrapper(Now', call')
    BY <1>2 DEF InWrapper, WrapperAt
  <1> QED
    BY <1>1, <1>3, UserGoes

(* The instructions, as of the handlers.                                   *)
LEMMA WrapperPush ==
  ASSUME IInv, Exec, trail = << >>, pc[1] = "syscall_wrapper",
         NEW i, i = pc[2], NEW j \in 1 .. 25, j = i + 1,
         NEW r \in Registers, Instr = <<"push", r>>,
         PushRule("syscall_wrapper", i, j, r), Selecting(j, call, regs)
  PROVE  IInv' /\ trail' = trail
  <1> DEFINE h == "syscall_wrapper"
             f == CallFrame(call)
             v == call.saved
             s == stack[on]
             w == <<regs[r]>>
  <1>0. i \in Nat /\ j \in Nat
    <2>1. pc[2] \in Nat
      BY WrapperHas
    <2>2. \A k \in 1 .. 25 : k \in Nat
      OBVIOUS
    <2> QED
      BY <2>1, <2>2
  <1>1. /\ TypeInv /\ on = "user" /\ pc[1] \in DOMAIN Code
        /\ Active(h, i, f, v, s, regs)
        /\ UserWords(regs, s) /\ s \in Seq(Words) /\ DOMAIN v = CalleeSaved /\ f \in Seq(Words)
    BY WrapperHas
  <1>2. /\ TypeInv' /\ Moves /\ regs' = regs /\ ~down' /\ Stacked(s \o w)
    BY <1>1, PushStep
  <1>3. w \in Seq(Words) /\ Len(w) = 1 /\ w[1] = regs[r]
    BY <1>1 DEF TypeInv, Files
  <1> HIDE DEF w, h, v, f
  <1>4. ASSUME NEW k \in 1 .. Len(w), Order(h)[Depth(h, i) + k] \in DOMAIN v
        PROVE  w[k] = v[Order(h)[Depth(h, i) + k]]
    <2>1. k = 1
      BY <1>3
    <2>2. Order(h)[Depth(h, i) + 1] = r /\ r \in Same(h, i)
      BY <2>1, <1>1, <1>4, Registered DEF PushRule, h
    <2>3. regs[r] = v[r]
      BY <2>1, <2>2, <1>1, <1>4 DEF Active
    <2> QED
      BY <2>1, <2>2, <2>3, <1>3
  <1>5. Active(h, j, f, v, s \o w, regs)
    <2>1. Depth(h, j) = Depth(h, i) + Len(w) /\ Same(h, j) \subseteq Same(h, i)
      BY <1>3 DEF PushRule, h
    <2>2. Pushes(h, Depth(h, i), w, v)
      BY <1>4 DEF Pushes
    <2> QED
      BY <2>1, <2>2, <1>0, <1>1, <1>3, ActivePush
  <1>6. UserWords(regs, s \o w)
    <2> DEFINE u == s \o w
    <2>1. Joined(u, s, w) /\ Len(s) \in Nat
      BY <1>1, Sequences DEF Joined
    <2>6. s \in Seq(Words) /\ w \in Seq(Words)
      BY <1>1, <1>3
    <2> HIDE DEF u, s
    <2>2. Len(u) = Len(s) + Len(w)
      BY <2>1, <2>6, Joins
    <2>3. \A k \in 1 .. Len(s) : u[k] = s[k]
      BY <2>1, <2>6, Joins
    <2>4. \A k \in 1 .. Len(w) : u[Len(s) + k] = w[k]
      BY <2>1, <2>6, Joins
    <2>5. ASSUME NEW k \in 1 .. Len(u)
          PROVE  Clean(u[k])
      <3>1. CASE k \in 1 .. Len(s)
        BY <3>1, <2>3, <1>1 DEF UserWords
      <3>2. CASE k \notin 1 .. Len(s)
        <4> DEFINE a == 1
        <4>1. k = Len(s) + a /\ a \in 1 .. Len(w) /\ w[a] = regs[r]
          BY <3>2, <1>3, <2>1, <2>2
        <4> HIDE DEF a
        <4>2. u[k] = regs[r]
          BY <4>1, <2>4
        <4> QED
          BY <4>2, <1>1 DEF UserWords
      <3> QED
        BY <3>1, <3>2
    <2> QED
      BY <2>5, <1>1 DEF UserWords, u
  <1>7. /\ pc' = <<"syscall_wrapper", j>> /\ on' = on /\ iff' = iff /\ trail' = trail
        /\ call' = call
    BY <1>2 DEF Moves
  <1>8. stack'[on] = s \o w /\ \A x \in Stacks : x # on => stack'[x] = stack[x]
    BY <1>2 DEF Stacked
  <1> QED
    BY <1>2, <1>5, <1>6, <1>7, <1>8, WrapperGoes DEF h, f, v

LEMMA WrapperPop ==
  ASSUME IInv, Exec, trail = << >>, pc[1] = "syscall_wrapper",
         NEW i, i = pc[2], NEW j \in 1 .. 25, j = i + 1,
         NEW r \in CalleeSaved, Instr = <<"pop", r>>,
         PopRule("syscall_wrapper", i, j, r),
         Wrote(r, stack[on][Len(stack[on])]) => Selecting(j, call, regs')
  PROVE  IInv' /\ trail' = trail
  <1> DEFINE h == "syscall_wrapper"
             f == CallFrame(call)
             v == call.saved
             s == stack[on]
             n == 1
             t == SubSeq(s, 1, Len(s) - n)
  <1>0. i \in Nat /\ j \in Nat
    <2>1. pc[2] \in Nat
      BY WrapperHas
    <2>2. \A k \in 1 .. 25 : k \in Nat
      OBVIOUS
    <2> QED
      BY <2>1, <2>2
  <1>1. /\ TypeInv /\ on = "user" /\ pc[1] \in DOMAIN Code
        /\ Active(h, i, f, v, s, regs)
        /\ UserWords(regs, s) /\ s \in Seq(Words) /\ DOMAIN v = CalleeSaved /\ f \in Seq(Words)
    BY WrapperHas
  <1>2. Len(s) \in Nat /\ Len(s) >= 1 /\ r \in Registers /\ r \notin Segments
    <2>1. Len(s) = Len(f) + Depth(h, i) /\ Len(f) \in Nat
      BY <1>1, Sequences DEF Active
    <2>2. Depth(h, i) = Depth(h, j) + 1 /\ Depth(h, j) \in Nat
      BY <1>0, OrderDepth DEF PopRule
    <2>3. r \in Registers /\ r \notin Segments
      BY Registered
    <2> QED
      BY <2>1, <2>2, <2>3
  <1>3. /\ TypeInv' /\ Moves /\ ~down' /\ Wrote(r, s[Len(s)]) /\ Stacked(t)
    BY <1>1, <1>2, PopIs
  <1>4. ASSUME NEW x \in Same(h, j) \cap DOMAIN v
        PROVE  \/ x \in Same(h, i) /\ regs'[x] = regs[x]
               \/ \E k \in 1 .. n : Order(h)[Depth(h, j) + k] = x
                                    /\ regs'[x] = s[Len(s) - n + k]
    <2>1. CASE x # r
      <3>1. x \in Registers
        BY <1>1, <1>4, Registered
      <3> QED
        BY <2>1, <3>1, <1>3, <1>4 DEF Wrote, PopRule
    <2>2. CASE x = r
      <3>1. Order(h)[Depth(h, j) + 1] = x
        BY <2>2, <1>4 DEF PopRule
      <3>2. regs'[x] = s[Len(s)] /\ Len(s) - 1 + 1 = Len(s)
        BY <2>2, <1>2, <1>3 DEF Wrote
      <3> QED
        BY <3>1, <3>2
    <2> QED
      BY <2>1, <2>2
  <1>5. n \in Nat /\ Depth(h, i) = Depth(h, j) + n /\ n <= Len(s) /\ n = 1
    BY <1>2 DEF PopRule
  <1>12. t = SubSeq(s, 1, Len(s) - n)
    OBVIOUS
  <1>9. /\ pc' = <<"syscall_wrapper", j>> /\ on' = on /\ iff' = iff /\ trail' = trail
        /\ call' = call
    BY <1>3 DEF Moves
  <1>10. stack'[on] = t /\ \A x \in Stacks : x # on => stack'[x] = stack[x]
    BY <1>3 DEF Stacked
  <1>11. Selecting(j, call, regs')
    BY <1>3
  <1> HIDE DEF h, f, v, n, s, t
  <1>7. Active(h, j, f, v, t, regs')
    <2>1. Pops(h, i, j, v, n, s, regs, regs')
      BY <1>4 DEF Pops
    <2> QED
      BY <2>1, <1>0, <1>1, <1>5, <1>12, ActivePop
  <1>8. UserWords(regs', t)
    <2>1. Len(t) = Len(s) - n /\ \A k \in 1 .. Len(s) - n : t[k] = s[k]
      BY <1>1, <1>5, <1>12, Popped
    <2>2. \A k \in 1 .. Len(t) : k \in 1 .. Len(s) /\ t[k] = s[k]
      BY <2>1, <1>2, <1>5
    <2>3. \A k \in 1 .. Len(t) : Clean(t[k])
      BY <2>2, <1>1 DEF UserWords
    <2>4. Clean(s[Len(s)])
      BY <1>1, <1>2 DEF UserWords
    <2>5. \A x \in Registers : Clean(regs'[x])
      BY <2>4, <1>1, <1>3 DEF UserWords, Wrote
    <2>6. \A x \in Segments : regs'[x] = <<"ds", 3>>
      BY <1>1, <1>2, <1>3, Registered DEF UserWords, Wrote
    <2> QED
      BY <2>3, <2>5, <2>6 DEF UserWords
  <1> QED
    BY <1>3, <1>7, <1>8, <1>9, <1>10, <1>11, WrapperGoes DEF h, f, v

(* An instruction that leaves the stack alone and may write W.             *)
LEMMA WrapperWrite ==
  ASSUME IInv, Exec, trail = << >>, pc[1] = "syscall_wrapper",
         NEW j \in 1 .. 25, NEW W \in SUBSET Registers, W \cap Segments = {},
         TypeInv', ~down', stack' = stack, pc' = <<"syscall_wrapper", j>>,
         on' = on, iff' = iff, trail' = trail, call' = call,
         \A x \in Registers : x \notin W => regs'[x] = regs[x],
         \A x \in W : Clean(regs'[x]),
         WriteRule("syscall_wrapper", pc[2], j, W),
         Selecting(j, call, regs')
  PROVE  IInv' /\ trail' = trail
  <1> DEFINE h == "syscall_wrapper"
  <1>1. /\ Active(h, pc[2], CallFrame(call), call.saved, stack[on], regs)
        /\ UserWords(regs, stack[on]) /\ DOMAIN call.saved = CalleeSaved
    BY WrapperHas
  <1>2. Active(h, j, CallFrame(call), call.saved, stack[on], regs')
    <2>1. \A x \in Same(h, j) \cap DOMAIN call.saved : x \in Same(h, pc[2]) /\ regs'[x] = regs[x]
      BY <1>1, Registered DEF WriteRule
    <2> QED
      BY <1>1, <2>1, ActiveSet DEF WriteRule
  <1>3. UserWords(regs', stack[on])
    <2>1. \A x \in Registers : Clean(regs'[x])
      BY <1>1 DEF UserWords
    <2>2. \A x \in Segments : regs'[x] = <<"ds", 3>>
      BY <1>1, Registered DEF UserWords
    <2> QED
      BY <2>1, <2>2, <1>1 DEF UserWords
  <1> QED
    BY <1>2, <1>3, WrapperGoes

LEMMA WrapperRules ==
  LET h == "syscall_wrapper"
  IN  /\ PushRule(h, 1, 2, "ebp") /\ WriteRule(h, 2, 3, {"ebp"}) /\ PushRule(h, 3, 4, "edi")
      /\ PushRule(h, 4, 5, "ebx") /\ PushRule(h, 5, 6, "esi") /\ WriteRule(h, 6, 7, {"ebx"})
      /\ \A i, j \in 7 .. 20 : \A W : "edi" \notin W => WriteRule(h, i, j, W)
      /\ PopRule(h, 20, 21, "esi") /\ PopRule(h, 21, 22, "ebx") /\ PopRule(h, 22, 23, "edi")
      /\ WriteRule(h, 23, 24, {}) /\ PopRule(h, 24, 25, "ebp")
      /\ Depth(h, 25) = 0 /\ Depth(h, 20) = 4 /\ Same(h, 25) = CalleeSaved
  <1> DEFINE h == "syscall_wrapper"
  <1>1. /\ Order(h)[1] = "ebp" /\ Order(h)[2] = "edi" /\ Order(h)[3] = "ebx"
        /\ Order(h)[4] = "esi"
    BY DEF Order
  <1>2. /\ Depth(h, 1) = 0 /\ Depth(h, 2) = 1 /\ Depth(h, 3) = 1 /\ Depth(h, 4) = 2
        /\ Depth(h, 5) = 3 /\ Depth(h, 6) = 4 /\ Depth(h, 20) = 4 /\ Depth(h, 21) = 3
        /\ Depth(h, 22) = 2 /\ Depth(h, 23) = 1 /\ Depth(h, 24) = 1 /\ Depth(h, 25) = 0
    BY DEF Depth
  <1>3. \A i \in 7 .. 20 : Depth(h, i) = 4
    BY DEF Depth
  <1>4. \A i \in 7 .. 20 : Same(h, i) = {"edi"}
    BY DEF Same
  <1>5. \A i \in {1, 2, 25} : Same(h, i) = {"edi", "ebp", "ebx", "esi"}
    BY DEF Same
  <1>6. \A i \in {3, 4, 5, 22, 23, 24} : Same(h, i) = {"edi", "ebx", "esi"}
    BY DEF Same
  <1>7. Same(h, 6) = {"edi", "ebx"} /\ Same(h, 21) = {"edi", "esi"}
    BY DEF Same
  <1>14. Depth(h, 7) = 4 /\ Same(h, 7) = {"edi"} /\ Same(h, 20) = {"edi"}
    BY <1>3, <1>4
  <1> HIDE DEF h
  <1>8. /\ PushRule(h, 1, 2, "ebp") /\ PushRule(h, 3, 4, "edi")
        /\ PushRule(h, 4, 5, "ebx") /\ PushRule(h, 5, 6, "esi")
    BY <1>1, <1>2, <1>5, <1>6, <1>7 DEF PushRule
  <1>9. WriteRule(h, 2, 3, {"ebp"}) /\ WriteRule(h, 23, 24, {})
    BY <1>2, <1>5, <1>6 DEF WriteRule
  <1>10. WriteRule(h, 6, 7, {"ebx"})
    BY <1>2, <1>7, <1>14 DEF WriteRule
  <1>11. \A i, j \in 7 .. 20 : \A W : "edi" \notin W => WriteRule(h, i, j, W)
    BY <1>3, <1>4 DEF WriteRule
  <1>12. /\ PopRule(h, 20, 21, "esi") /\ PopRule(h, 21, 22, "ebx") /\ PopRule(h, 22, 23, "edi")
         /\ PopRule(h, 24, 25, "ebp")
    BY <1>1, <1>2, <1>5, <1>6, <1>7, <1>14 DEF PopRule
  <1>13. Same(h, 25) = CalleeSaved
    BY <1>5, Registered
  <1> QED
    BY <1>2, <1>8, <1>9, <1>10, <1>11, <1>12, <1>13 DEF h

LEMMA JumpIs ==
  ASSUME TypeInv, Exec, pc[1] = "syscall_wrapper", NEW n \in Int, NEW r \in Registers,
         NEW k \in Int,
         Instr = <<"jmp", k>> \/ Instr = <<"jeq", n, r, k>>
  PROVE  /\ TypeInv' /\ ~down' /\ stack' = stack /\ regs' = regs
         /\ on' = on /\ iff' = iff /\ trail' = trail /\ call' = call
         /\ Instr = <<"jmp", k>> => pc' = <<"syscall_wrapper", k>>
         /\ Instr = <<"jeq", n, r, k>> =>
              IF regs[r] = <<"int", n>> THEN pc' = <<"syscall_wrapper", k>>
              ELSE pc' = <<"syscall_wrapper", pc[2] + 1>>
  <1>1. jump /\ ~down
    BY Dispatch
  <1>2. /\ stack' = stack /\ regs' = regs /\ down' = down
        /\ on' = on /\ iff' = iff /\ trail' = trail /\ call' = call
    BY <1>1 DEF jump
  <1>3. ~down' /\ down' \in BOOLEAN
    BY <1>1, <1>2, Zenon DEF TypeInv
  <1>4. Instr = <<"jmp", k>> => pc' = <<"syscall_wrapper", k>>
    BY <1>1 DEF jump
  <1>5. Eip = <<"syscall_wrapper", pc[2] + 1>>
    BY EipIs, CodeIs
  <1>6. ASSUME Instr = <<"jeq", n, r, k>>
        PROVE  IF regs[r] = <<"int", n>> THEN pc' = <<"syscall_wrapper", k>>
               ELSE pc' = <<"syscall_wrapper", pc[2] + 1>>
    BY <1>1, <1>5, <1>6 DEF jump
  <1>7. pc' \in Places
    <2>1. <<"syscall_wrapper", k>> \in Places
      BY CodeIs DEF Places
    <2>2. <<"syscall_wrapper", pc[2] + 1>> \in Places
      BY <1>5, EipIs, CodeIs
    <2> QED
      BY <1>4, <1>6, <2>1, <2>2
  <1> QED
    BY <1>2, <1>3, <1>4, <1>6, <1>7 DEF TypeInv

LEMMA LookupIs ==
  ASSUME TypeInv, Exec, pc[1] \in DOMAIN Code, Instr = <<"lookup", "ecx", "eax">>,
         NEW n \in Int, regs.ecx = <<"int", n>>
  PROVE  /\ TypeInv' /\ Moves /\ ~down' /\ stack' = stack
         /\ \A x \in Registers : x \notin {"ecx", "ebx", "edx", "eax"} => regs'[x] = regs[x]
         /\ \A x \in {"ecx", "ebx", "edx", "eax"} : Clean(regs'[x])
         /\ regs'.eax = <<"table", INT_TABLE_ENTRY_SIZE * (n - SYSCALL_INT)>>
  <1>1. lookup /\ ~down
    BY Dispatch
  <1> DEFINE k == n - SYSCALL_INT
  <1>2. k \in Int /\ INT_TABLE_ENTRY_SIZE * k \in Int
    BY TableIs DEF SYSCALL_INT
  <1>3. regs' = [regs EXCEPT !.ecx = <<"int", k>>, !.ebx = <<"table", 0>>,
                             !.edx = <<"int", 0>>,
                             !.eax = <<"table", INT_TABLE_ENTRY_SIZE * k>>]
    BY <1>1 DEF lookup
  <1> HIDE DEF k
  <1>4. /\ <<"int", k>> \in Words /\ <<"table", 0>> \in Words /\ <<"int", 0>> \in Words
        /\ <<"table", INT_TABLE_ENTRY_SIZE * k>> \in Words
    BY <1>2, KindsHave DEF Words
  <1>5. regs' \in Files
    BY <1>3, <1>4, Registered DEF TypeInv, Files
  <1>6. /\ regs'.ecx = <<"int", k>> /\ regs'.ebx = <<"table", 0>> /\ regs'.edx = <<"int", 0>>
        /\ regs'.eax = <<"table", INT_TABLE_ENTRY_SIZE * k>>
        /\ \A x \in Registers : x \notin {"ecx", "ebx", "edx", "eax"} => regs'[x] = regs[x]
    BY <1>3, Registered DEF TypeInv, Files
  <1>7. \A x \in {"ecx", "ebx", "edx", "eax"} : Clean(regs'[x])
    BY <1>6 DEF Clean
  <1>8. Moves /\ pc' \in Places /\ stack' = stack /\ down' = down
    BY <1>1, EipIs DEF lookup, Moves
  <1>9. ~down' /\ down' \in BOOLEAN
    BY <1>1, <1>8, Zenon DEF TypeInv
  <1> QED
    BY <1>5, <1>6, <1>7, <1>8, <1>9 DEF TypeInv, Moves, k

(* What the offsets of the source's loads reach.                           *)
LEMMA WrapperLoads ==
  ASSUME IInv, Exec, trail = << >>, pc[1] = "syscall_wrapper", pc[2] \in 3 .. 24,
         NEW n \in 2 .. 4, regs.ebx = <<"int", n>>,
         NEW k, k = call.pushed + 4 - n, k \in 1 .. call.pushed + 3
  PROVE  At(Indexed("ebx")) = CallFrame(call)[k]
  <1> DEFINE f == CallFrame(call)
             s == stack[on]
  <1>1. /\ TypeInv /\ on = "user" /\ f \in Seq(Words) /\ Len(f) = call.pushed + 3
        /\ call.pushed \in Nat /\ s \in Seq(Words)
        /\ Active("syscall_wrapper", pc[2], f, call.saved, s, regs)
        /\ Selecting(pc[2], call, regs) /\ pc[2] \in Nat
    BY WrapperHas
  <1>2. regs.ebp = <<"user", call.pushed + 4>>
    BY <1>1 DEF Selecting
  <1>3. Indexed("ebx") = <<on, k>>
    BY <1>1, <1>2 DEF Indexed
  <1>4. Len(s) = Len(f) + Depth("syscall_wrapper", pc[2]) /\ \A m \in 1 .. Len(f) : s[m] = f[m]
    BY <1>1 DEF Active
  <1>5. k \in 1 .. Len(f) /\ k \in 1 .. Len(s) /\ k \in Int
    <2> DEFINE d == Depth("syscall_wrapper", pc[2])
    <2>1. d \in Nat
      BY <1>1, OrderDepth
    <2> HIDE DEF d
    <2>2. Len(s) = Len(f) + d
      BY <1>4 DEF d
    <2> HIDE DEF f, s
    <2>3. Len(f) = call.pushed + 3 /\ call.pushed \in Nat
      BY <1>1
    <2> QED
      BY <2>1, <2>2, <2>3
  <1>6. At(<<on, k>>) = s[k]
    BY <1>1, <1>5, AtIs DEF TypeInv
  <1> HIDE DEF f, s
  <1> QED
    BY <1>3, <1>4, <1>5, <1>6 DEF f

(* The instructions before the arguments are selected.                     *)
LEMMA WrapperEntry ==
  ASSUME IInv, Exec, trail = << >>, pc[1] = "syscall_wrapper", pc[2] \in 1 .. 6
  PROVE  IInv' /\ trail' = trail
  <1>1. /\ TypeInv /\ pc[1] \in DOMAIN Code /\ Instr = syscall_wrapper[pc[2]] /\ on = "user"
        /\ Selecting(pc[2], call, regs) /\ call.pushed \in Nat /\ call.num \in Nat
        /\ call \in Calls
    BY WrapperHas
  <1>2. /\ {"ebp", "ebx", "esi", "edi"} \subseteq CalleeSaved
        /\ {"ebp", "ebx", "esi", "edi", "eax", "ecx", "edx"} \subseteq Registers
        /\ {"ebp", "ebx", "esi", "edi", "eax", "ecx", "edx"} \cap Segments = {}
    BY Registered
  <1>3. CASE pc[2] = 1
    <2>1. Instr = <<"push", "ebp">>
      BY <1>1, <1>3, WrapperCode
    <2>2. Selecting(2, call, regs)
      BY <1>1, <1>3 DEF Selecting
    <2>3. PushRule("syscall_wrapper", 1, 2, "ebp")
      BY WrapperRules
    <2> QED
      BY <1>2, <1>3, <2>1, <2>2, <2>3, WrapperPush
  <1>4. CASE pc[2] = 2
    <2>1. Instr = <<"mov", "esp", "ebp">>
      BY <1>1, <1>4, WrapperCode
    <2>2. TypeInv' /\ Moves /\ ~down' /\ stack' = stack /\ Wrote("ebp", <<on, Len(stack[on])>>)
      BY <1>1, <2>1, MovIs
    <2>3. <<on, Len(stack[on])>> = <<"user", call.pushed + 4>>
      <3>1. /\ Active("syscall_wrapper", 2, CallFrame(call), call.saved, stack[on], regs)
            /\ Len(CallFrame(call)) = call.pushed + 3
        BY <1>4, WrapperHas
      <3>2. Depth("syscall_wrapper", 2) = 1
        BY DEF Depth
      <3> QED
        BY <1>1, <3>1, <3>2 DEF Active
    <2>4. /\ pc' = <<"syscall_wrapper", 3>> /\ on' = on /\ iff' = iff /\ trail' = trail
          /\ call' = call
      BY <1>4, <2>2 DEF Moves
    <2>5. /\ \A x \in Registers : x \notin {"ebp"} => regs'[x] = regs[x]
          /\ regs'.ebp = <<"user", call.pushed + 4>> /\ {"ebp"} \in SUBSET Registers
          /\ {"ebp"} \cap Segments = {}
      BY <1>2, <2>2, <2>3 DEF Wrote
    <2>6. WriteRule("syscall_wrapper", pc[2], 3, {"ebp"})
      BY <1>4, WrapperRules
    <2>7. Selecting(3, call, regs')
      BY <1>1, <1>4, <2>5 DEF Selecting
    <2>8. \A x \in {"ebp"} : Clean(regs'[x])
      BY <2>5 DEF Clean
    <2> QED
      BY <2>2, <2>4, <2>5, <2>6, <2>7, <2>8, WrapperWrite
  <1>5. CASE pc[2] = 3
    <2>1. Instr = <<"push", "edi">>
      BY <1>1, <1>5, WrapperCode
    <2>2. Selecting(4, call, regs)
      BY <1>1, <1>5 DEF Selecting
    <2>3. PushRule("syscall_wrapper", 3, 4, "edi")
      BY WrapperRules
    <2> QED
      BY <1>2, <1>5, <2>1, <2>2, <2>3, WrapperPush
  <1>6. CASE pc[2] = 4
    <2>1. Instr = <<"push", "ebx">>
      BY <1>1, <1>6, WrapperCode
    <2>2. Selecting(5, call, regs)
      BY <1>1, <1>6 DEF Selecting
    <2>3. PushRule("syscall_wrapper", 4, 5, "ebx")
      BY WrapperRules
    <2> QED
      BY <1>2, <1>6, <2>1, <2>2, <2>3, WrapperPush
  <1>7. CASE pc[2] = 5
    <2>1. Instr = <<"push", "esi">>
      BY <1>1, <1>7, WrapperCode
    <2>2. Selecting(6, call, regs)
      BY <1>1, <1>7 DEF Selecting
    <2>3. PushRule("syscall_wrapper", 5, 6, "esi")
      BY WrapperRules
    <2> QED
      BY <1>2, <1>7, <2>1, <2>2, <2>3, WrapperPush
  <1>8. CASE pc[2] = 6
    <2>1. Instr = <<"set", INT_NUM_OFFSET, "ebx">>
      BY <1>1, <1>8, WrapperCode
    <2>2. TypeInv' /\ Moves /\ ~down' /\ stack' = stack /\ Wrote("ebx", <<"int", INT_NUM_OFFSET>>)
      BY <1>1, <1>2, <2>1, SetIs DEF INT_NUM_OFFSET
    <2>4. /\ pc' = <<"syscall_wrapper", 7>> /\ on' = on /\ iff' = iff /\ trail' = trail
          /\ call' = call
      BY <1>8, <2>2 DEF Moves
    <2>5. /\ \A x \in Registers : x \notin {"ebx"} => regs'[x] = regs[x]
          /\ regs'.ebx = <<"int", INT_NUM_OFFSET>> /\ {"ebx"} \in SUBSET Registers
          /\ {"ebx"} \cap Segments = {}
      BY <1>2, <2>2 DEF Wrote
    <2>6. WriteRule("syscall_wrapper", pc[2], 7, {"ebx"})
      BY <1>8, WrapperRules
    <2>7. Selecting(7, call, regs')
      BY <1>1, <1>2, <1>8, <2>5 DEF Selecting, EsiOK
    <2>8. \A x \in {"ebx"} : Clean(regs'[x])
      BY <2>5 DEF Clean
    <2> QED
      BY <2>2, <2>4, <2>5, <2>6, <2>7, <2>8, WrapperWrite
  <1> QED
    BY <1>1, <1>3, <1>4, <1>5, <1>6, <1>7, <1>8

(* The selection of the arguments.                                         *)
LEMMA WrapperNumbers ==
  ASSUME IInv, Exec, trail = << >>, pc[1] = "syscall_wrapper", pc[2] \in 7 .. 10
  PROVE  IInv' /\ trail' = trail
  <1>1. /\ TypeInv /\ pc[1] \in DOMAIN Code /\ Instr = syscall_wrapper[pc[2]] /\ on = "user"
        /\ Selecting(pc[2], call, regs) /\ call.pushed \in Nat /\ call.num \in Nat
        /\ call \in Calls
    BY WrapperHas
  <1>2. /\ {"ebp", "ebx", "esi", "edi"} \subseteq CalleeSaved
        /\ {"ebp", "ebx", "esi", "edi", "eax", "ecx", "edx"} \subseteq Registers
        /\ {"ebp", "ebx", "esi", "edi", "eax", "ecx", "edx"} \cap Segments = {}
    BY Registered
  <1>3. CASE pc[2] = 7
    <2>1. Instr = <<"load", "ebx", "ecx">>
      BY <1>1, <1>3, WrapperCode
    <2>2. TypeInv' /\ Moves /\ ~down' /\ stack' = stack /\ Wrote("ecx", At(Indexed("ebx")))
      BY <1>1, <1>2, <2>1, LoadIs
    <2>3. At(Indexed("ebx")) = <<"int", call.num>>
      <3> DEFINE k == call.pushed + 2
      <3>1. regs.ebx = <<"int", 2>> /\ k = call.pushed + 4 - 2 /\ k \in 1 .. call.pushed + 3
        BY <1>1, <1>3 DEF Selecting, INT_NUM_OFFSET
      <3>2. CallFrame(call)[k] = <<"int", call.num>>
        BY <1>1, <1>3, CallFrameIs DEF Selecting
      <3> HIDE DEF k
      <3>3. At(Indexed("ebx")) = CallFrame(call)[k]
        BY <3>1, <1>3, WrapperLoads
      <3> QED
        BY <3>2, <3>3
    <2>4. /\ pc' = <<"syscall_wrapper", 8>> /\ on' = on /\ iff' = iff /\ trail' = trail
          /\ call' = call
      BY <1>3, <2>2 DEF Moves
    <2>5. /\ \A x \in Registers : x \notin {"ecx"} => regs'[x] = regs[x]
          /\ regs'.ecx = At(Indexed("ebx")) /\ {"ecx"} \in SUBSET Registers
          /\ {"ecx"} \cap Segments = {}
      BY <1>2, <2>2 DEF Wrote
    <2>6. WriteRule("syscall_wrapper", pc[2], 8, {"ecx"})
      BY <1>3, WrapperRules
    <2>7. Selecting(8, call, regs')
      BY <1>1, <1>2, <1>3, <2>5, <2>3 DEF Selecting, EsiOK
    <2>8. \A x \in {"ecx"} : Clean(regs'[x])
      BY <2>5, <2>3 DEF Clean
    <2> QED
      BY <2>2, <2>4, <2>5, <2>6, <2>7, <2>8, WrapperWrite
  <1>4. CASE pc[2] = 8
    <2>1. Instr = <<"set", ARG_NUM_OFFSET, "ebx">>
      BY <1>1, <1>4, WrapperCode
    <2>2. TypeInv' /\ Moves /\ ~down' /\ stack' = stack /\ Wrote("ebx", <<"int", ARG_NUM_OFFSET>>)
      BY <1>1, <1>2, <2>1, SetIs DEF ARG_NUM_OFFSET
    <2>4. /\ pc' = <<"syscall_wrapper", 9>> /\ on' = on /\ iff' = iff /\ trail' = trail
          /\ call' = call
      BY <1>4, <2>2 DEF Moves
    <2>5. /\ \A x \in Registers : x \notin {"ebx"} => regs'[x] = regs[x]
          /\ regs'.ebx = <<"int", ARG_NUM_OFFSET>> /\ {"ebx"} \in SUBSET Registers
          /\ {"ebx"} \cap Segments = {}
      BY <1>2, <2>2 DEF Wrote
    <2>6. WriteRule("syscall_wrapper", pc[2], 9, {"ebx"})
      BY <1>4, WrapperRules
    <2>7. Selecting(9, call, regs')
      BY <1>1, <1>2, <1>4, <2>5 DEF Selecting, EsiOK
    <2>8. \A x \in {"ebx"} : Clean(regs'[x])
      BY <2>5 DEF Clean
    <2> QED
      BY <2>2, <2>4, <2>5, <2>6, <2>7, <2>8, WrapperWrite
  <1>5. CASE pc[2] = 9
    <2>1. Instr = <<"load", "ebx", "edx">>
      BY <1>1, <1>5, WrapperCode
    <2>2. TypeInv' /\ Moves /\ ~down' /\ stack' = stack /\ Wrote("edx", At(Indexed("ebx")))
      BY <1>1, <1>2, <2>1, LoadIs
    <2>3. At(Indexed("ebx")) = <<"int", call.pushed>>
      <3> DEFINE k == call.pushed + 1
      <3>1. regs.ebx = <<"int", 3>> /\ k = call.pushed + 4 - 3 /\ k \in 1 .. call.pushed + 3
        BY <1>1, <1>5 DEF Selecting, ARG_NUM_OFFSET
      <3>2. CallFrame(call)[k] = <<"int", call.pushed>>
        BY <1>1, <1>5, CallFrameIs DEF Selecting
      <3> HIDE DEF k
      <3>3. At(Indexed("ebx")) = CallFrame(call)[k]
        BY <3>1, <1>5, WrapperLoads
      <3> QED
        BY <3>2, <3>3
    <2>4. /\ pc' = <<"syscall_wrapper", 10>> /\ on' = on /\ iff' = iff /\ trail' = trail
          /\ call' = call
      BY <1>5, <2>2 DEF Moves
    <2>5. /\ \A x \in Registers : x \notin {"edx"} => regs'[x] = regs[x]
          /\ regs'.edx = At(Indexed("ebx")) /\ {"edx"} \in SUBSET Registers
          /\ {"edx"} \cap Segments = {}
      BY <1>2, <2>2 DEF Wrote
    <2>6. WriteRule("syscall_wrapper", pc[2], 10, {"edx"})
      BY <1>5, WrapperRules
    <2>7. Selecting(10, call, regs')
      BY <1>1, <1>2, <1>5, <2>5, <2>3 DEF Selecting, EsiOK
    <2>8. \A x \in {"edx"} : Clean(regs'[x])
      BY <2>5, <2>3 DEF Clean
    <2> QED
      BY <2>2, <2>4, <2>5, <2>6, <2>7, <2>8, WrapperWrite
  <1>6. CASE pc[2] = 10
    <2>1. Instr = <<"set", ARG_PKT_OFFSET, "ebx">>
      BY <1>1, <1>6, WrapperCode
    <2>2. TypeInv' /\ Moves /\ ~down' /\ stack' = stack /\ Wrote("ebx", <<"int", ARG_PKT_OFFSET>>)
      BY <1>1, <1>2, <2>1, SetIs DEF ARG_PKT_OFFSET
    <2>4. /\ pc' = <<"syscall_wrapper", 11>> /\ on' = on /\ iff' = iff /\ trail' = trail
          /\ call' = call
      BY <1>6, <2>2 DEF Moves
    <2>5. /\ \A x \in Registers : x \notin {"ebx"} => regs'[x] = regs[x]
          /\ regs'.ebx = <<"int", ARG_PKT_OFFSET>> /\ {"ebx"} \in SUBSET Registers
          /\ {"ebx"} \cap Segments = {}
      BY <1>2, <2>2 DEF Wrote
    <2>6. WriteRule("syscall_wrapper", pc[2], 11, {"ebx"})
      BY <1>6, WrapperRules
    <2>7. Selecting(11, call, regs')
      BY <1>1, <1>2, <1>6, <2>5 DEF Selecting, EsiOK
    <2>8. \A x \in {"ebx"} : Clean(regs'[x])
      BY <2>5 DEF Clean
    <2> QED
      BY <2>2, <2>4, <2>5, <2>6, <2>7, <2>8, WrapperWrite
  <1> QED
    BY <1>1, <1>3, <1>4, <1>5, <1>6

LEMMA WrapperJump ==
  ASSUME IInv, Exec, trail = << >>, pc[1] = "syscall_wrapper", pc[2] \in 7 .. 20,
         NEW j \in 7 .. 20, TypeInv', ~down', stack' = stack, regs' = regs,
         on' = on, iff' = iff, trail' = trail, call' = call,
         pc' = <<"syscall_wrapper", j>>, Selecting(j, call, regs')
  PROVE  IInv' /\ trail' = trail
  <1> DEFINE W == {}
  <1>1. WriteRule("syscall_wrapper", pc[2], j, W)
    BY WrapperRules
  <1>2. /\ W \in SUBSET Registers /\ W \cap Segments = {} /\ \A x \in W : Clean(regs'[x])
        /\ \A x \in Registers : x \notin W => regs'[x] = regs[x]
    OBVIOUS
  <1>3. j \in 1 .. 25
    OBVIOUS
  <1> HIDE DEF W
  <1> QED
    BY <1>1, <1>2, <1>3, WrapperWrite

LEMMA WrapperBranches ==
  ASSUME IInv, Exec, trail = << >>, pc[1] = "syscall_wrapper", pc[2] \in 11 .. 17
  PROVE  IInv' /\ trail' = trail
  <1>1. /\ TypeInv /\ pc[1] \in DOMAIN Code /\ Instr = syscall_wrapper[pc[2]] /\ on = "user"
        /\ Selecting(pc[2], call, regs) /\ call.pushed \in Nat /\ call.num \in Nat
        /\ call \in Calls
    BY WrapperHas
  <1>2. /\ {"ebp", "ebx", "esi", "edi"} \subseteq CalleeSaved
        /\ {"ebp", "ebx", "esi", "edi", "eax", "ecx", "edx"} \subseteq Registers
        /\ {"ebp", "ebx", "esi", "edi", "eax", "ecx", "edx"} \cap Segments = {}
    BY Registered
  <1>3. CASE pc[2] = 11
    <2>1. Instr = <<"jeq", 1, "edx", 17>>
      BY <1>1, <1>3, WrapperCode
    <2>2. /\ TypeInv' /\ ~down' /\ stack' = stack /\ regs' = regs
          /\ on' = on /\ iff' = iff /\ trail' = trail /\ call' = call
      BY <1>1, <1>2, <2>1, JumpIs
    <2>3. CASE regs.edx = <<"int", 1>>
      <3>1. pc' = <<"syscall_wrapper", 17>>
        BY <1>1, <1>2, <2>1, <2>3, JumpIs
      <3>2. Selecting(17, call, regs')
        BY <1>1, <1>3, <2>2, <2>3 DEF Selecting
      <3> QED
        BY <1>3, <2>2, <3>1, <3>2, WrapperJump
    <2>4. CASE regs.edx # <<"int", 1>>
      <3>1. pc' = <<"syscall_wrapper", 12>>
        BY <1>1, <1>2, <1>3, <2>1, <2>4, JumpIs
      <3>2. Selecting(12, call, regs')
        BY <1>1, <1>3, <2>2, <2>4 DEF Selecting
      <3> QED
        BY <1>3, <2>2, <3>1, <3>2, WrapperJump
    <2> QED
      BY <2>3, <2>4
  <1>4. CASE pc[2] = 12
    <2>1. Instr = <<"jeq", 0, "edx", 15>>
      BY <1>1, <1>4, WrapperCode
    <2>2. /\ TypeInv' /\ ~down' /\ stack' = stack /\ regs' = regs
          /\ on' = on /\ iff' = iff /\ trail' = trail /\ call' = call
      BY <1>1, <1>2, <2>1, JumpIs
    <2>3. CASE regs.edx = <<"int", 0>>
      <3>1. pc' = <<"syscall_wrapper", 15>>
        BY <1>1, <1>2, <2>1, <2>3, JumpIs
      <3>2. Selecting(15, call, regs')
        BY <1>1, <1>4, <2>2, <2>3 DEF Selecting
      <3> QED
        BY <1>4, <2>2, <3>1, <3>2, WrapperJump
    <2>4. CASE regs.edx # <<"int", 0>>
      <3>1. pc' = <<"syscall_wrapper", 13>>
        BY <1>1, <1>2, <1>4, <2>1, <2>4, JumpIs
      <3>2. Selecting(13, call, regs')
        BY <1>1, <1>4, <2>2, <2>4 DEF Selecting
      <3> QED
        BY <1>4, <2>2, <3>1, <3>2, WrapperJump
    <2> QED
      BY <2>3, <2>4
  <1>5. CASE pc[2] = 13
    <2>1. Instr = <<"lea", "ebx", "esi">>
      BY <1>1, <1>5, WrapperCode
    <2>2. TypeInv' /\ Moves /\ ~down' /\ stack' = stack /\ Wrote("esi", Indexed("ebx"))
      BY <1>1, <1>2, <2>1, LeaIs
    <2>3. Indexed("ebx") = <<"user", call.pushed>>
      <3>1. regs.ebx = <<"int", 4>> /\ regs.ebp = <<"user", call.pushed + 4>>
        BY <1>1, <1>5 DEF Selecting, ARG_PKT_OFFSET
      <3> QED
        BY <3>1, <1>1 DEF Indexed
    <2>4. /\ pc' = <<"syscall_wrapper", 14>> /\ on' = on /\ iff' = iff /\ trail' = trail
          /\ call' = call
      BY <1>5, <2>2 DEF Moves
    <2>5. /\ \A x \in Registers : x \notin {"esi"} => regs'[x] = regs[x]
          /\ regs'.esi = Indexed("ebx") /\ {"esi"} \in SUBSET Registers
          /\ {"esi"} \cap Segments = {}
      BY <1>2, <2>2 DEF Wrote
    <2>6. WriteRule("syscall_wrapper", pc[2], 14, {"esi"})
      BY <1>5, WrapperRules
    <2>7. Selecting(14, call, regs')
      BY <1>1, <1>2, <1>5, <2>5, <2>3 DEF Selecting, EsiOK
    <2>8. \A x \in {"esi"} : Clean(regs'[x])
      BY <2>5, <2>3 DEF Clean
    <2> QED
      BY <2>2, <2>4, <2>5, <2>6, <2>7, <2>8, WrapperWrite
  <1>6. CASE pc[2] = 14
    <2>1. Instr = <<"jmp", 18>>
      BY <1>1, <1>6, WrapperCode
    <2>2. /\ TypeInv' /\ ~down' /\ stack' = stack /\ regs' = regs
          /\ on' = on /\ iff' = iff /\ trail' = trail /\ call' = call
      BY <1>1, <1>2, <2>1, JumpIs
    <2>3. pc' = <<"syscall_wrapper", 18>>
      BY <1>1, <1>2, <2>1, JumpIs
    <2>4. Selecting(18, call, regs')
      BY <1>1, <1>6, <2>2 DEF Selecting
    <2> QED
      BY <1>6, <2>2, <2>3, <2>4, WrapperJump
  <1>7. CASE pc[2] = 15
    <2>1. Instr = <<"set", 0, "esi">>
      BY <1>1, <1>7, WrapperCode
    <2>2. TypeInv' /\ Moves /\ ~down' /\ stack' = stack /\ Wrote("esi", <<"int", 0>>)
      BY <1>1, <1>2, <2>1, SetIs
    <2>4. /\ pc' = <<"syscall_wrapper", 16>> /\ on' = on /\ iff' = iff /\ trail' = trail
          /\ call' = call
      BY <1>7, <2>2 DEF Moves
    <2>5. /\ \A x \in Registers : x \notin {"esi"} => regs'[x] = regs[x]
          /\ regs'.esi = <<"int", 0>> /\ {"esi"} \in SUBSET Registers
          /\ {"esi"} \cap Segments = {}
      BY <1>2, <2>2 DEF Wrote
    <2>6. WriteRule("syscall_wrapper", pc[2], 16, {"esi"})
      BY <1>7, WrapperRules
    <2>7. Selecting(16, call, regs')
      BY <1>1, <1>2, <1>7, <2>5 DEF Selecting, EsiOK
    <2>8. \A x \in {"esi"} : Clean(regs'[x])
      BY <2>5 DEF Clean
    <2> QED
      BY <2>2, <2>4, <2>5, <2>6, <2>7, <2>8, WrapperWrite
  <1>8. CASE pc[2] = 16
    <2>1. Instr = <<"jmp", 18>>
      BY <1>1, <1>8, WrapperCode
    <2>2. /\ TypeInv' /\ ~down' /\ stack' = stack /\ regs' = regs
          /\ on' = on /\ iff' = iff /\ trail' = trail /\ call' = call
      BY <1>1, <1>2, <2>1, JumpIs
    <2>3. pc' = <<"syscall_wrapper", 18>>
      BY <1>1, <1>2, <2>1, JumpIs
    <2>4. Selecting(18, call, regs')
      BY <1>1, <1>8, <2>2 DEF Selecting
    <2> QED
      BY <1>8, <2>2, <2>3, <2>4, WrapperJump
  <1>9. CASE pc[2] = 17
    <2>1. Instr = <<"load", "ebx", "esi">>
      BY <1>1, <1>9, WrapperCode
    <2>2. TypeInv' /\ Moves /\ ~down' /\ stack' = stack /\ Wrote("esi", At(Indexed("ebx")))
      BY <1>1, <1>2, <2>1, LoadIs
    <2>3. At(Indexed("ebx")) = <<"arg", 1>>
      <3> DEFINE k == 1
      <3>1. regs.ebx = <<"int", 4>> /\ k = call.pushed + 4 - 4 /\ k \in 1 .. call.pushed + 3
        BY <1>1, <1>9 DEF Selecting, ARG_PKT_OFFSET
      <3>2. CallFrame(call)[k] = <<"arg", 1>>
        BY <1>1, <1>9, CallFrameIs DEF Selecting
      <3> HIDE DEF k
      <3>3. At(Indexed("ebx")) = CallFrame(call)[k]
        BY <3>1, <1>9, WrapperLoads
      <3> QED
        BY <3>2, <3>3
    <2>4. /\ pc' = <<"syscall_wrapper", 18>> /\ on' = on /\ iff' = iff /\ trail' = trail
          /\ call' = call
      BY <1>9, <2>2 DEF Moves
    <2>5. /\ \A x \in Registers : x \notin {"esi"} => regs'[x] = regs[x]
          /\ regs'.esi = At(Indexed("ebx")) /\ {"esi"} \in SUBSET Registers
          /\ {"esi"} \cap Segments = {}
      BY <1>2, <2>2 DEF Wrote
    <2>6. WriteRule("syscall_wrapper", pc[2], 18, {"esi"})
      BY <1>9, WrapperRules
    <2>7. Selecting(18, call, regs')
      BY <1>1, <1>2, <1>9, <2>5, <2>3 DEF Selecting, EsiOK
    <2>8. \A x \in {"esi"} : Clean(regs'[x])
      BY <2>5, <2>3 DEF Clean
    <2> QED
      BY <2>2, <2>4, <2>5, <2>6, <2>7, <2>8, WrapperWrite
  <1> QED
    BY <1>1, <1>3, <1>4, <1>5, <1>6, <1>7, <1>8, <1>9

(* The end of syscall_wrapper, after the system call.                      *)
LEMMA WrapperExit ==
  ASSUME IInv, Exec, trail = << >>, pc[1] = "syscall_wrapper", pc[2] \in 20 .. 24
  PROVE  IInv' /\ trail' = trail
  <1>1. /\ TypeInv /\ pc[1] \in DOMAIN Code /\ Instr = syscall_wrapper[pc[2]] /\ on = "user"
        /\ Selecting(pc[2], call, regs) /\ call.pushed \in Nat /\ call.num \in Nat
        /\ call \in Calls
    BY WrapperHas
  <1>2. /\ {"ebp", "ebx", "esi", "edi"} \subseteq CalleeSaved
        /\ {"ebp", "ebx", "esi", "edi", "eax", "ecx", "edx"} \subseteq Registers
        /\ {"ebp", "ebx", "esi", "edi", "eax", "ecx", "edx"} \cap Segments = {}
    BY Registered
  <1>3. CASE pc[2] = 20
    <2>1. Instr = <<"pop", "esi">>
      BY <1>1, <1>3, WrapperCode
    <2>2. Wrote("esi", stack[on][Len(stack[on])]) => Selecting(21, call, regs')
      BY <1>1, <1>2, <1>3 DEF Selecting, Wrote
    <2>3. PopRule("syscall_wrapper", 20, 21, "esi")
      BY WrapperRules
    <2> QED
      BY <1>2, <1>3, <2>1, <2>2, <2>3, WrapperPop
  <1>4. CASE pc[2] = 21
    <2>1. Instr = <<"pop", "ebx">>
      BY <1>1, <1>4, WrapperCode
    <2>2. Wrote("ebx", stack[on][Len(stack[on])]) => Selecting(22, call, regs')
      BY <1>1, <1>2, <1>4 DEF Selecting, Wrote
    <2>3. PopRule("syscall_wrapper", 21, 22, "ebx")
      BY WrapperRules
    <2> QED
      BY <1>2, <1>4, <2>1, <2>2, <2>3, WrapperPop
  <1>5. CASE pc[2] = 22
    <2>1. Instr = <<"pop", "edi">>
      BY <1>1, <1>5, WrapperCode
    <2>2. Wrote("edi", stack[on][Len(stack[on])]) => Selecting(23, call, regs')
      BY <1>1, <1>2, <1>5 DEF Selecting, Wrote
    <2>3. PopRule("syscall_wrapper", 22, 23, "edi")
      BY WrapperRules
    <2> QED
      BY <1>2, <1>5, <2>1, <2>2, <2>3, WrapperPop
  <1>6. CASE pc[2] = 23
    <2>1. Instr = <<"mov", "ebp", "esp">>
      BY <1>1, <1>6, WrapperCode
    <2>2. regs.ebp[2] = Len(stack[on])
      <3>1. /\ Active("syscall_wrapper", 23, CallFrame(call), call.saved, stack[on], regs)
            /\ Len(CallFrame(call)) = call.pushed + 3
        BY <1>6, WrapperHas
      <3>2. Depth("syscall_wrapper", 23) = 1
        BY DEF Depth
      <3>3. regs.ebp = <<"user", call.pushed + 4>>
        BY <1>1, <1>6 DEF Selecting
      <3> QED
        BY <1>1, <3>1, <3>2, <3>3 DEF Active
    <2>3. TypeInv' /\ Moves /\ ~down' /\ regs' = regs /\ Stacked(stack[on])
      BY <1>1, <2>1, <2>2, RestoreIs
    <2>4. stack' = stack
      <3>1. \A x \in Stacks : stack'[x] = stack[x]
        BY <2>3 DEF Stacked
      <3>2. stack \in [Stacks -> Seq(Words)] /\ stack' \in [Stacks -> Seq(Words)]
        BY <1>1, <2>3 DEF TypeInv
      <3> QED
        BY <3>1, <3>2
    <2>5. /\ pc' = <<"syscall_wrapper", 24>> /\ on' = on /\ iff' = iff /\ trail' = trail
          /\ call' = call
      BY <1>6, <2>3 DEF Moves
    <2>6. Selecting(24, call, regs')
      BY <1>1, <1>6, <2>3 DEF Selecting
    <2> DEFINE W == {}
    <2>7. WriteRule("syscall_wrapper", pc[2], 24, W)
      BY <1>6, WrapperRules
    <2>8. /\ W \in SUBSET Registers /\ W \cap Segments = {} /\ \A x \in W : Clean(regs'[x])
          /\ \A x \in Registers : x \notin W => regs'[x] = regs[x]
      BY <2>3
    <2> HIDE DEF W
    <2> QED
      BY <2>3, <2>4, <2>5, <2>6, <2>7, <2>8, WrapperWrite
  <1>7. CASE pc[2] = 24
    <2>1. Instr = <<"pop", "ebp">>
      BY <1>1, <1>7, WrapperCode
    <2>2. Wrote("ebp", stack[on][Len(stack[on])]) => Selecting(25, call, regs')
      BY <1>1, <1>2, <1>7 DEF Selecting, Wrote
    <2>3. PopRule("syscall_wrapper", 24, 25, "ebp")
      BY WrapperRules
    <2> QED
      BY <1>2, <1>7, <2>1, <2>2, <2>3, WrapperPop
  <1> QED
    BY <1>1, <1>3, <1>4, <1>5, <1>6, <1>7

LEMMA WrapperLookup ==
  ASSUME IInv, Exec, trail = << >>, pc[1] = "syscall_wrapper", pc[2] = 18
  PROVE  IInv' /\ trail' = trail
  <1> DEFINE W == {"ecx", "ebx", "edx", "eax"}
             j == 19
  <1>1. /\ TypeInv /\ pc[1] \in DOMAIN Code /\ Instr = syscall_wrapper[pc[2]]
        /\ Selecting(18, call, regs) /\ call.num \in Nat
    BY WrapperHas
  <1>2. Instr = <<"lookup", "ecx", "eax">> /\ regs.ecx = <<"int", call.num>>
    <2>1. Instr = syscall_wrapper[18]
      BY <1>1
    <2>2. Instr = <<"lookup", "ecx", "eax">>
      BY <2>1, WrapperCode
    <2>3. 18 \in 8 .. 18
      OBVIOUS
    <2>4. regs.ecx = <<"int", call.num>>
      BY <1>1, <2>3 DEF Selecting
    <2> QED
      BY <2>2, <2>4
  <1>3. /\ TypeInv' /\ Moves /\ ~down' /\ stack' = stack
        /\ \A x \in Registers : x \notin W => regs'[x] = regs[x]
        /\ \A x \in W : Clean(regs'[x])
        /\ regs'.eax = <<"table", INT_TABLE_ENTRY_SIZE * (call.num - SYSCALL_INT)>>
    BY <1>1, <1>2, LookupIs
  <1>4. W \in SUBSET Registers /\ W \cap Segments = {} /\ "edi" \notin W
        /\ regs'.ebp = regs.ebp /\ regs'.esi = regs.esi
    BY <1>3, Registered
  <1>5. Selecting(19, call, regs')
    BY <1>1, <1>3, <1>4 DEF Selecting, EsiOK
  <1>6. /\ pc' = <<"syscall_wrapper", 19>> /\ on' = on /\ iff' = iff /\ trail' = trail
        /\ call' = call
    BY <1>3 DEF Moves
  <1>7. WriteRule("syscall_wrapper", pc[2], 19, W)
    BY <1>4, WrapperRules
  <1> HIDE DEF W
  <1> QED
    BY <1>3, <1>4, <1>5, <1>6, <1>7, WrapperWrite

LEMMA WrapperToTable ==
  ASSUME IInv, Exec, trail = << >>, pc[1] = "syscall_wrapper", pc[2] = 19
  PROVE  IInv' /\ trail' = trail
  <1>1. /\ TypeInv /\ ~down /\ pc[1] \in DOMAIN Code /\ Instr = syscall_wrapper[pc[2]]
        /\ Active("syscall_wrapper", 19, CallFrame(call), call.saved, stack[on], regs)
        /\ Selecting(19, call, regs) /\ call.num \in Nat /\ call.num # 0
        /\ UserWords(regs, stack[on])
    BY WrapperHas
  <1>2. Instr = <<"jmpreg", "eax">>
    BY <1>1, WrapperCode
  <1>3. jump_register
    BY <1>2, Dispatch
  <1>4. /\ pc' = regs.eax /\ regs' = regs /\ on' = on /\ iff' = iff /\ stack' = stack
        /\ trail' = trail /\ call' = call /\ down' = down
    BY <1>2, <1>3 DEF jump_register
  <1>5. regs.eax = <<"table", 7 * (call.num - 64)>>
    BY <1>1, TableIs DEF Selecting, SYSCALL_INT
  <1>6. pc' \in Places /\ pc'[1] = "table"
    <2> DEFINE k == 7 * (call.num - 64)
    <2>1. k \in Int /\ pc' = <<"table", k>>
      BY <1>1, <1>4, <1>5
    <2> HIDE DEF k
    <2> QED
      BY <2>1 DEF Places
  <1>7. ~down' /\ down' \in BOOLEAN
    BY <1>1, <1>4, Zenon DEF TypeInv
  <1>8. TypeInv'
    BY <1>1, <1>4, <1>6, <1>7 DEF TypeInv
  <1>9. Active("syscall_wrapper", 20, CallFrame(call), call.saved, stack[on], regs)
    <2>1. Depth("syscall_wrapper", 19) = Depth("syscall_wrapper", 20)
      BY DEF Depth
    <2>2. Same("syscall_wrapper", 20) = Same("syscall_wrapper", 19)
      BY DEF Same
    <2> QED
      BY <1>1, <2>1, <2>2, ActiveSet
  <1>10. Selecting(20, call, regs) /\ EsiOK(call, regs)
    BY <1>1 DEF Selecting
  <1>11. Now'.pc = pc' /\ Now'.regs = regs /\ Now'.below = stack[on]
    BY <1>4 DEF Now
  <1>12. InWrapper(Now', call')
    BY <1>4, <1>6, <1>9, <1>10, <1>11 DEF InWrapper, WrapperAt
  <1> QED
    BY <1>1, <1>4, <1>7, <1>8, <1>12, UserGoes

LEMMA WrapperReturns ==
  ASSUME IInv, Exec, trail = << >>, pc[1] = "syscall_wrapper", pc[2] = 25
  PROVE  IInv' /\ trail' = trail /\ pc'[1] = "stub"
  <1> DEFINE f == CallFrame(call)
             s == stack[on]
             n == 1
             t == SubSeq(s, 1, Len(s) - n)
  <1>1. /\ TypeInv /\ ~down /\ pc[1] \in DOMAIN Code /\ Instr = syscall_wrapper[pc[2]]
        /\ Active("syscall_wrapper", 25, f, call.saved, s, regs)
        /\ call.num # 0 /\ UserWords(regs, s) /\ s \in Seq(Words) /\ f \in Seq(Words)
        /\ Len(f) = call.pushed + 3 /\ call.pushed \in Nat /\ call \in Calls
        /\ DOMAIN call.saved = CalleeSaved
    BY WrapperHas
  <1>2. Instr = <<"ret">>
    BY <1>1, WrapperCode
  <1>3. ret
    BY <1>2, Dispatch
  <1>4. /\ Len(s) = call.pushed + 3 /\ \A k \in 1 .. Len(f) : s[k] = f[k]
        /\ \A x \in CalleeSaved : regs[x] = call.saved[x]
    <2>1. Depth("syscall_wrapper", 25) = 0 /\ Same("syscall_wrapper", 25) = CalleeSaved
      BY WrapperRules
    <2> QED
      BY <1>1, <2>1 DEF Active
  <1>5. s[Len(s)] = <<"stub", 1>>
    <2>1. f[call.pushed + 3] = <<"stub", 1>>
      BY <1>1, CallFrameIs
    <2>2. Len(s) \in 1 .. Len(f) /\ Len(s) = call.pushed + 3
      BY <1>1, <1>4
    <2> HIDE DEF f, s
    <2> QED
      BY <1>4, <2>1, <2>2
  <1>6. /\ pc' = <<"stub", 1>> /\ regs' = regs /\ on' = on /\ iff' = iff
        /\ trail' = trail /\ call' = call /\ Pop(n)
    <2>1. pc' = Last(Top) /\ Last(Top) = s[Len(s)]
      BY <1>3 DEF ret, Last, Top
    <2> QED
      BY <1>3, <1>5, <2>1 DEF ret
  <1>7. n \in Nat /\ n <= Len(s) /\ n = 1
    BY <1>1, <1>4
  <1> HIDE DEF n
  <1>8. /\ stack' \in [Stacks -> Seq(Words)] /\ ~down' /\ down' \in BOOLEAN
        /\ Len(stack.kernel)' <= KernelWords /\ Stacked(t)
    BY <1>1, <1>6, <1>7, PopStep
  <1>9. Len(t) = call.pushed + 2 /\ \A k \in 1 .. Len(t) : t[k] = s[k] /\ k \in 1 .. Len(s)
    <2>1. Len(t) = Len(s) - n /\ \A k \in 1 .. Len(s) - n : t[k] = s[k]
      BY <1>1, <1>7, Popped
    <2> HIDE DEF t, s
    <2> QED
      BY <2>1, <1>1, <1>4, <1>7
  <1>10. stack'[on] = t /\ \A x \in Stacks : x # on => stack'[x] = stack[x]
    BY <1>8 DEF Stacked
  <1> HIDE DEF t, s, f
  <1>11. UserWords(regs', stack'[on])
    BY <1>1, <1>6, <1>9, <1>10 DEF UserWords
  <1>12. TypeInv'
    <2>1. <<"stub", 1>> \in Places
      BY DEF Places
    <2> QED
      BY <1>1, <1>6, <1>8, <2>1 DEF TypeInv
  <1>13. InStub(Now', call')
    <2>1. Now'.pc = pc' /\ Now'.regs = regs /\ Now'.below = t
      BY <1>6, <1>10 DEF Now
    <2> QED
      BY <2>1, <1>4, <1>6, <1>9 DEF InStub
  <1> QED
    BY <1>1, <1>6, <1>8, <1>10, <1>11, <1>12, <1>13, UserGoes

LEMMA WrapperStep ==
  ASSUME IInv, Exec, trail = << >>, pc[1] = "syscall_wrapper"
  PROVE  IInv' /\ trail' = trail
  <1>1. pc[2] \in 1 .. 25
    BY WrapperHas
  <1>2. \/ pc[2] \in 1 .. 6 \/ pc[2] \in 7 .. 10 \/ pc[2] \in 11 .. 17 \/ pc[2] = 18
        \/ pc[2] = 19 \/ pc[2] \in 20 .. 24 \/ pc[2] = 25
    BY <1>1
  <1> QED
    BY <1>2, WrapperEntry, WrapperNumbers, WrapperBranches, WrapperLookup, WrapperToTable,
       WrapperExit, WrapperReturns

-----------------------------------------------------------------------------
(* The table: every entry but one has a gate that the program may not use, *)
(* or none.                                                                *)
LEMMA TableHas ==
  ASSUME IInv, Exec, trail = << >>, pc[1] = "table"
  PROVE  /\ TypeInv /\ ~down /\ on = "user" /\ UserAt(Now, call) /\ call.num # 0
         /\ EsiOK(call, regs) /\ WrapperAt(20, Now, call)
         /\ Argued(call, regs.esi, stack.user)
         /\ Instr = <<"jmp", 20>> \/ \E v \in 64 .. 97 : Instr = <<"int", v>>
         /\ StacksOK(Now, << >>, stack)
  <1>1. ~down
    BY Dispatch
  <1>2. /\ TypeInv /\ on = "user" /\ UserAt(Now, call) /\ stack[on] \in Seq(Words)
        /\ stack[on] = stack.user /\ stack.kernel = << >> /\ call \in Calls
        /\ Now.pc = pc /\ Now.regs = regs /\ Now.below = stack[on]
    BY <1>1, UserHas
  <1>3. call.num # 0
    BY <1>2 DEF UserAt, InApp
  <1>4. EsiOK(call, regs) /\ WrapperAt(20, Now, call) /\ Argued(call, regs.esi, stack.user)
    BY <1>2, InTable
  <1>5. Instr = <<"jmp", 20>> \/ \E v \in 64 .. 97 : Instr = <<"int", v>>
    <2>1. Instr = syscall_int_table(pc[2])
      BY DEF Instr
    <2>2. CASE \E k \in 0 .. Entries - 1 : pc[2] = EntryOffset(k)
      <3> DEFINE k == CHOOSE k \in 0 .. Entries - 1 : pc[2] = EntryOffset(k)
      <3>1. k \in 0 .. Entries - 1
        BY <2>2
      <3>2. Instr = <<"int", SYSCALL_INT + k>>
        BY <2>1, <2>2 DEF syscall_int_table
      <3> HIDE DEF k
      <3>3. SYSCALL_INT + k \in 64 .. 97
        BY <3>1 DEF SYSCALL_INT, Entries
      <3> QED
        BY <3>2, <3>3
    <2>3. CASE ~ \E k \in 0 .. Entries - 1 : pc[2] = EntryOffset(k)
      BY <2>1, <2>3 DEF syscall_int_table, syscall_wrapper_end
    <2> QED
      BY <2>2, <2>3
  <1>6. StacksOK(Now, << >>, stack)
    BY <1>2 DEF StacksOK, UserAt
  <1> QED
    BY <1>1, <1>2, <1>3, <1>4, <1>5, <1>6

LEMMA TableJumps ==
  ASSUME IInv, Exec, trail = << >>, pc[1] = "table", Instr = <<"jmp", 20>>
  PROVE  IInv' /\ trail' = trail
  <1>1. /\ TypeInv /\ ~down /\ call.num # 0 /\ WrapperAt(20, Now, call)
        /\ UserWords(regs, stack[on])
    BY TableHas, UserHas
  <1>2. jump
    BY Dispatch
  <1>3. /\ pc' = <<"syscall_wrapper", 20>> /\ regs' = regs /\ on' = on /\ iff' = iff
        /\ stack' = stack /\ trail' = trail /\ call' = call /\ down' = down
    BY <1>2 DEF jump
  <1>4. ~down' /\ down' \in BOOLEAN
    BY <1>1, <1>3, Zenon DEF TypeInv
  <1>5. TypeInv'
    <2>1. <<"syscall_wrapper", 20>> \in Places
      BY CodeIs DEF Places
    <2> QED
      BY <1>1, <1>3, <1>4, <2>1 DEF TypeInv
  <1>6. InWrapper(Now', call')
    <2>1. /\ Now'.pc = <<"syscall_wrapper", 20>> /\ Now'.regs = Now.regs
          /\ Now'.below = Now.below
      BY <1>3 DEF Now
    <2> QED
      BY <2>1, <1>1, <1>3 DEF InWrapper, WrapperAt
  <1> QED
    BY <1>1, <1>3, <1>4, <1>5, <1>6, UserGoes

LEMMA TableTraps ==
  ASSUME IInv, Exec, trail = << >>, pc[1] = "table", NEW v \in 64 .. 97,
         Instr = <<"int", v>>
  PROVE  /\ IInv'
         /\ trail' = Append(trail, IF v = GETTID_INT THEN Entered(v, Eip)
                                                    ELSE Entered(GeneralProtection, pc))
  <1>1. /\ TypeInv /\ ~down /\ on = "user" /\ UserAt(Now, call)
        /\ EsiOK(call, regs) /\ WrapperAt(20, Now, call)
        /\ Argued(call, regs.esi, stack.user) /\ call.num # 0 /\ StacksOK(Now, << >>, stack)
    BY TableHas
  <1>2. int
    BY Dispatch
  <1>3. pc \in Places
    BY <1>1 DEF TypeInv
  <1>4. CASE v = GETTID_INT
    <2>1. v \in Vectors /\ v \in DOMAIN idt /\ idt[v].dpl = 3
      BY <1>4, IdtIs DEF Vectors
    <2>2. Enter(v, Eip)
      BY <1>2, <2>1 DEF int
    <2> DEFINE c == Entered(v, Eip)
    <2>3. Eip = <<"table", pc[2] + 2>> /\ Eip \in Places
      <3>1. pc[2] + 2 \in Int
        BY <1>3 DEF Places
      <3>2. Eip = <<"table", pc[2] + 2>>
        BY DEF Eip
      <3> QED
        BY <3>1, <3>2 DEF Places
    <2>4. /\ c \in Records /\ c.vector = v /\ c.pc = Eip /\ c.on = on
          /\ Frozen(c) = [Now EXCEPT !.pc = Eip]
      BY <1>1, <2>1, <2>3, EnteredIs
    <2> DEFINE d == Frozen(c)
    <2>5. /\ d.pc = Eip /\ d.regs = Now.regs /\ d.on = Now.on /\ d.below = Now.below
      BY <2>4 DEF Now
    <2>6. d.iff <=> Now.iff
      BY <2>4, Zenon DEF Frozen, Entered, Now
    <2>7. Raised(c)
      BY <1>1, <1>4, <2>3, <2>4 DEF Raised
    <2> HIDE DEF c, d
    <2>8. InWrapper(d, call)
      BY <1>1, <2>3, <2>5 DEF InWrapper, WrapperAt, Now
    <2>9. UserAt(d, call)
      <3>1. d.iff
        BY <1>1, <2>6, Zenon DEF UserAt
      <3> QED
        BY <3>1, <1>1, <2>5, <2>8 DEF UserAt
    <2>10. StacksOK(d, << >>, stack)
      BY <1>1, <2>5 DEF StacksOK
    <2>11. Shape(trail, Frozen(c), call, stack)
      BY <2>9, <2>10, ShapeBase DEF d
    <2>12. IInv' /\ trail' = Append(trail, c)
      BY <1>1, <2>1, <2>2, <2>3, <2>7, <2>11, EnterStep DEF c
    <2> QED
      BY <1>4, <2>12 DEF c
  <1>5. CASE v # GETTID_INT
    <2>1. ~(v \in DOMAIN idt /\ (User => idt[v].dpl = 3))
      BY <1>1, <1>5, IdtIs DEF User
    <2>2. Enter(GeneralProtection, pc)
      BY <1>2, <2>1 DEF int
    <2> DEFINE c == Entered(GeneralProtection, pc)
    <2>3. GeneralProtection \in Vectors /\ GeneralProtection # GETTID_INT
          /\ GeneralProtection \in ErrorCodes
      BY DEF GeneralProtection, Vectors, GETTID_INT, ErrorCodes
    <2>4. c.vector = GeneralProtection /\ Frozen(c) = [Now EXCEPT !.pc = pc]
      BY <1>1, <1>3, <2>3, EnteredIs
    <2>5. Frozen(c) = Now
      BY <2>4 DEF Now
    <2>6. Raised(c)
      BY <2>3, <2>4 DEF Raised, GETTID_INT, GeneralProtection, ErrorCodes
    <2> HIDE DEF c
    <2>7. Shape(trail, Frozen(c), call, stack)
      BY <1>1, <2>5, ShapeBase
    <2>8. IInv' /\ trail' = Append(trail, c)
      BY <1>1, <1>3, <2>2, <2>3, <2>6, <2>7, EnterStep DEF c
    <2> QED
      BY <1>5, <2>8 DEF c
  <1> QED
    BY <1>4, <1>5

(* The code an instruction below all handlers may be of.                   *)
LEMMA WhereItRuns ==
  ASSUME IInv, Exec, trail = << >>
  PROVE  pc[1] \in {"do_task_switch", "syscall_wrapper", "table"}
  <1>1. ~down /\ (pc[1] = "table" \/ pc[1] \in DOMAIN Code)
    BY Tags DEF Running
  <1>2. BootAt(Now, call) \/ UserAt(Now, call)
    BY <1>1, Bottom
  <1>3. Now.pc = pc
    BY DEF Now
  <1>4. CASE UserAt(Now, call)
    <2>1. pc[1] \in {"app", "stub", "syscall_wrapper", "table"}
      BY <1>3, <1>4 DEF UserAt, InApp, InStub, InWrapper
    <2>2. "app" \notin DOMAIN Code /\ "stub" \notin DOMAIN Code
      BY CodeIs
    <2> QED
      BY <2>1, <2>2, <1>1
  <1> QED
    BY <1>2, <1>3, <1>4 DEF BootAt

(* An instruction, wherever it is.                                         *)
LEMMA ExecStep ==
  ASSUME IInv, Exec
  PROVE  /\ IInv'
         /\ \/ trail' = trail
            \/ \E c : trail' = Append(trail, c)
            \/ trail # << >> /\ Returned(trail[Len(trail)])
  <1>1. CASE trail # << >>
    BY <1>1, HandlerStep
  <1>2. CASE trail = << >> /\ pc[1] = "do_task_switch"
    BY <1>2, BootStep, BootIret
  <1>3. CASE trail = << >> /\ pc[1] = "syscall_wrapper"
    BY <1>3, WrapperStep
  <1>4. CASE trail = << >> /\ pc[1] = "table"
    BY <1>4, TableHas, TableJumps, TableTraps
  <1> QED
    BY <1>1, <1>2, <1>3, <1>4, WhereItRuns

-----------------------------------------------------------------------------
(* The program.                                                            *)
LEMMA ProgramHas ==
  ASSUME IInv, ~down, pc[1] \in {"app", "stub"}
  PROVE  /\ trail = << >> /\ on = "user" /\ TypeInv /\ pc \in Places
         /\ UserAt(Now, call) /\ UserWords(regs, stack[on]) /\ StacksOK(Now, << >>, stack)
         /\ pc[1] = "app" => stack[on] = << >> /\ call = NoCall
         /\ pc[1] = "stub" => /\ Len(stack[on]) = call.pushed + 2 /\ call \in Calls
                              /\ \A x \in CalleeSaved : regs[x] = call.saved[x]
         /\ regs \in Files /\ stack[on] \in Seq(Words)
  <1>1. trail = << >>
    <2> SUFFICES ASSUME trail # << >>
                 PROVE  FALSE
      OBVIOUS
    <2> DEFINE c == trail[Len(trail)]
    <2>1. c \in Records /\ Raised(c) /\ pc[1] = Code1(c)
      BY TopHandler
    <2> HIDE DEF c
    <2> QED
      BY <2>1, Code1Is
  <1>2. /\ TypeInv /\ on = "user" /\ UserAt(Now, call) /\ UserWords(regs, stack[on])
        /\ Now.pc = pc /\ Now.regs = regs /\ Now.below = stack[on] /\ call \in Calls
        /\ stack[on] \in Seq(Words)
    BY <1>1, UserHas
  <1>3. StacksOK(Now, << >>, stack)
    BY <1>1, Bottom
  <1>4. pc[1] = "app" => InApp(Now, call)
    BY <1>2 DEF UserAt, InStub, InWrapper
  <1>5. pc[1] = "stub" => InStub(Now, call)
    BY <1>2 DEF UserAt, InApp, InWrapper
  <1>6. pc \in Places /\ regs \in Files
    BY <1>2 DEF TypeInv
  <1> QED
    BY <1>1, <1>2, <1>3, <1>4, <1>5, <1>6 DEF InApp, InStub

LEMMA NoCallIs == NoCall \in Calls
  <1>1. Junk \in Words
    BY KindsHave DEF Junk, Words
  <1> QED
    BY <1>1 DEF NoCall, Calls

(* What the program keeps in its registers.                                *)
ProgramRegister(r) ==
  CASE r \in Segments -> regs[r] [] r \in CalleeSaved -> <<r, 1>> [] OTHER -> Junk

LEMMA BeginStep ==
  ASSUME IInv, begin
  PROVE  IInv' /\ trail' = trail
  <1>1. /\ ~down /\ pc = <<"app", 0>> /\ pc' = <<"app", 1>>
        /\ on' = on /\ iff' = iff /\ stack' = stack /\ trail' = trail /\ call' = call
        /\ down' = down
    BY DEF begin
  <1>2. /\ trail = << >> /\ on = "user" /\ TypeInv /\ UserWords(regs, stack[on])
        /\ stack[on] = << >> /\ call = NoCall /\ regs \in Files
    BY <1>1, ProgramHas
  <1>3. regs' = [r \in Registers |-> ProgramRegister(r)]
    BY DEF begin, ProgramRegister
  <1>4. \A r \in Registers : regs'[r] = ProgramRegister(r)
    BY <1>3, Zenon
  <1>5. ASSUME NEW r \in Registers
        PROVE  /\ ProgramRegister(r) \in Words /\ Clean(ProgramRegister(r))
               /\ r \in Segments => ProgramRegister(r) = <<"ds", 3>>
    <2>1. CASE r \in Segments
      <3>1. ProgramRegister(r) = regs[r]
        BY <2>1 DEF ProgramRegister, Segments, CalleeSaved
      <3> QED
        BY <2>1, <3>1, <1>2 DEF UserWords, Files
    <2>2. CASE r \in CalleeSaved
      <3>1. r \notin Segments
        BY <2>2, Registered
      <3>2. ProgramRegister(r) = <<r, 1>>
        BY <2>2, <3>1 DEF ProgramRegister
      <3>3. <<r, 1>> \in Words
        BY <2>2, KindsHave DEF Words
      <3>4. r # "ds"
        BY <2>2, Registered
      <3> QED
        BY <3>1, <3>2, <3>3, <3>4 DEF Clean
    <2>3. CASE r \notin Segments /\ r \notin CalleeSaved
      <3>1. ProgramRegister(r) = <<"junk", 0>>
        BY <2>3 DEF ProgramRegister, Junk
      <3> QED
        BY <3>1, <2>3, KindsHave DEF Words, Clean
    <2> QED
      BY <2>1, <2>2, <2>3
  <1>6. regs' \in Files
    <2> DEFINE F(r) == ProgramRegister(r)
    <2>1. \A r \in Registers : F(r) \in Words
      BY <1>5
    <2>2. regs' = [r \in Registers |-> F(r)]
      BY <1>3
    <2> HIDE DEF F
    <2> QED
      BY <2>1, <2>2 DEF Files
  <1>7. UserWords(regs', stack'[on])
    <2>1. Segments \subseteq Registers
      BY Registered
    <2> QED
      BY <2>1, <1>1, <1>2, <1>4, <1>5 DEF UserWords
  <1>8. ~down' /\ down' \in BOOLEAN
    BY <1>1, <1>2, Zenon DEF TypeInv
  <1>9. TypeInv'
    <2>1. <<"app", 1>> \in Places
      BY DEF Places
    <2> QED
      BY <2>1, <1>1, <1>2, <1>6, <1>8 DEF TypeInv
  <1>10. InApp(Now', call')
    <2>1. Now'.pc = <<"app", 1>> /\ Now'.below = << >>
      BY <1>1, <1>2 DEF Now
    <2> QED
      BY <2>1, <1>1, <1>2 DEF InApp
  <1> QED
    BY <1>1, <1>2, <1>7, <1>8, <1>9, <1>10, UserGoes

LEMMA StubsAre ==
  \A s \in Stubs : /\ s.num \in Nat /\ s.num # 0 /\ s.pushed \in Nat /\ s.arg_num = s.pushed
  BY KernelEntryAssumption DEF gettid, fork, vanish, set_status, wait, exec, print, readline,
     new_pages, set_cursor_pos, get_cursor_pos, ls, Stub, GETTID_INT, NEW_PAGES_INT,
     READLINE_INT, PRINT_INT, SET_CURSOR_POS_INT, GET_CURSOR_POS_INT, LS_INT

LEMMA ClobberedIs ==
  ASSUME regs \in Files, NEW w \in Words, regs' = Clobbered(w)
  PROVE  /\ regs' \in Files /\ regs'.eax = w
         /\ \A x \in Registers : x \notin Scratch => regs'[x] = regs[x]
         /\ regs'.ecx = Junk /\ regs'.edx = Junk
  <1>1. Junk \in Words
    BY KindsHave DEF Junk, Words
  <1>2. regs' = [regs EXCEPT !.eax = w, !.ecx = Junk, !.edx = Junk]
    BY DEF Clobbered
  <1> HIDE DEF Junk
  <1> QED
    BY <1>1, <1>2, Registered DEF Files, Scratch

LEMMA ClobberedWords ==
  ASSUME regs \in Files, NEW w \in Words, regs' = Clobbered(w), Clean(w), NEW s,
         UserWords(regs, s), NEW t, \A k \in 1 .. Len(t) : Clean(t[k])
  PROVE  UserWords(regs', t)
  <1>1. /\ regs'.eax = w /\ regs'.ecx = Junk /\ regs'.edx = Junk
        /\ \A x \in Registers : x \notin Scratch => regs'[x] = regs[x]
    BY ClobberedIs
  <1>2. Clean(Junk)
    BY DEF Clean, Junk
  <1>3. \A x \in Segments : x \in Registers /\ x \notin Scratch
    BY Registered DEF Scratch
  <1>4. \A x \in Scratch : Clean(regs'[x])
    BY <1>1, <1>2 DEF Scratch
  <1> HIDE DEF Junk
  <1> QED
    BY <1>1, <1>3, <1>4 DEF UserWords

LEMMA CallStep ==
  ASSUME IInv, NEW s \in Stubs, call_stub(s)
  PROVE  IInv' /\ trail' = trail
  <1> DEFINE w == [i \in 1 .. s.pushed |-> <<"arg", s.pushed + 1 - i>>]
                    \o << <<"int", s.arg_num>>, <<"int", s.num>>, <<"stub", 1>> >>
             v == [r \in CalleeSaved |-> regs[r]]
             q == [num |-> s.num, pushed |-> s.pushed, saved |-> v]
  <1>1. /\ ~down /\ pc = <<"app", 1>> /\ pc' = <<"syscall_wrapper", 1>>
        /\ on' = on /\ iff' = iff /\ trail' = trail
        /\ call' = q /\ Push(w) /\ regs' = Clobbered(Junk)
    BY DEF call_stub
  <1>2. /\ trail = << >> /\ on = "user" /\ TypeInv /\ UserWords(regs, stack[on])
        /\ stack[on] = << >> /\ regs \in Files
    BY <1>1, ProgramHas
  <1>3. s.num \in Nat /\ s.num # 0 /\ s.pushed \in Nat /\ s.arg_num = s.pushed
    BY StubsAre
  <1>4. v \in [CalleeSaved -> Words] /\ DOMAIN v = CalleeSaved
        /\ \A x \in CalleeSaved : v[x] = regs[x]
    BY <1>2, Registered DEF Files
  <1> HIDE DEF v
  <1>5. q \in Calls /\ q.num = s.num /\ q.pushed = s.pushed /\ q.saved = v
    BY <1>3, <1>4 DEF Calls
  <1>6. w = CallFrame(q)
    BY <1>3, <1>5 DEF CallFrame
  <1> HIDE DEF w, q
  <1>7. /\ w \in Seq(Words) /\ \A k \in 1 .. Len(w) : Clean(w[k])
    BY <1>5, <1>6, CallFrameIs
  <1>8. /\ stack' = [stack EXCEPT !["user"] = w] /\ down' = down
    <2>1. Top \o w = w
      <3>1. << >> \o w = w
        BY <1>7, ConcatEmptySeq
      <3> QED
        BY <3>1, <1>2 DEF Top
    <2>2. Store("user", w)
      BY <1>1, <1>2, <2>1 DEF Push
    <2> QED
      BY <2>2 DEF Store
  <1>9. ~down' /\ down' \in BOOLEAN
    BY <1>1, <1>2, <1>8, Zenon DEF TypeInv
  <1>10. /\ stack' \in [Stacks -> Seq(Words)] /\ stack'["user"] = w
         /\ \A x \in Stacks : x # "user" => stack'[x] = stack[x]
    BY <1>2, <1>7, <1>8 DEF TypeInv, Stacks
  <1>11. Len(stack.kernel)' <= KernelWords
    BY <1>2, <1>10 DEF TypeInv, Stacks
  <1>12. Junk \in Words /\ Clean(Junk)
    BY KindsHave DEF Junk, Words, Clean
  <1>13. regs' \in Files /\ \A x \in Registers : x \notin Scratch => regs'[x] = regs[x]
    BY <1>1, <1>2, <1>12, ClobberedIs
  <1>14. TypeInv'
    <2>1. <<"syscall_wrapper", 1>> \in Places
      BY CodeIs DEF Places
    <2> QED
      BY <2>1, <1>1, <1>2, <1>5, <1>9, <1>10, <1>11, <1>13 DEF TypeInv
  <1>15. UserWords(regs', stack'[on])
    BY <1>1, <1>2, <1>7, <1>10, <1>12, ClobberedWords
  <1>16. InWrapper(Now', call')
    <2>1. Now'.pc = <<"syscall_wrapper", 1>> /\ Now'.regs = regs' /\ Now'.below = w
      BY <1>1, <1>2, <1>10 DEF Now
    <2>2. Selecting(1, q, regs')
      BY DEF Selecting
    <2>3. Active("syscall_wrapper", 1, CallFrame(q), q.saved, w, regs')
      <3>1. Depth("syscall_wrapper", 1) = 0
        BY DEF Depth
      <3>2. \A x \in CalleeSaved : x \in Registers /\ x \notin Scratch
        BY Registered DEF Scratch
      <3>3. \A x \in DOMAIN v : regs'[x] = v[x]
        BY <3>2, <1>4, <1>13
      <3>4. Len(w) \in Nat
        BY <1>7, Sequences
      <3> QED
        BY <3>1, <3>3, <3>4, <1>5, <1>6 DEF Active
    <2> QED
      BY <2>1, <2>2, <2>3, <1>1 DEF InWrapper, WrapperAt
  <1>17. call'.num # 0
    BY <1>1, <1>3, <1>5
  <1>18. \A x \in Stacks : x # on => stack'[x] = stack[x]
    BY <1>2, <1>10
  <1> QED
    BY <1>1, <1>2, <1>9, <1>14, <1>15, <1>16, <1>17, <1>18, UserGoes

LEMMA StubStep ==
  ASSUME IInv, stub_returns
  PROVE  IInv' /\ trail' = trail
  <1> DEFINE n == call.pushed + 2
             s == stack[on]
             t == SubSeq(s, 1, Len(s) - n)
  <1>1. /\ ~down /\ pc = <<"stub", 1>> /\ pc' = <<"app", 1>>
        /\ on' = on /\ iff' = iff /\ trail' = trail
        /\ call' = NoCall /\ Pop(n) /\ regs' = Clobbered(regs.eax)
    BY DEF stub_returns
  <1>2. /\ trail = << >> /\ on = "user" /\ TypeInv /\ UserWords(regs, s)
        /\ Len(s) = n /\ call \in Calls /\ regs \in Files /\ s \in Seq(Words)
    BY <1>1, ProgramHas
  <1>3. n \in Nat /\ n <= Len(s)
    BY <1>2 DEF Calls
  <1> HIDE DEF n
  <1>4. /\ stack' \in [Stacks -> Seq(Words)] /\ ~down' /\ down' \in BOOLEAN
        /\ Len(stack.kernel)' <= KernelWords /\ Stacked(t)
    BY <1>1, <1>2, <1>3, PopStep
  <1>5. t = << >>
    <2>1. t \in Seq(Words) /\ Len(t) = Len(s) - n
      BY <1>2, <1>3, Popped
    <2> HIDE DEF t, s
    <2>2. Len(t) = 0
      BY <2>1, <1>2, <1>3
    <2> QED
      BY <2>1, <2>2, EmptySeq
  <1> HIDE DEF t
  <1>6. stack'[on] = << >> /\ \A x \in Stacks : x # on => stack'[x] = stack[x]
    BY <1>4, <1>5 DEF Stacked
  <1>7. regs.eax \in Words /\ Clean(regs.eax)
    BY <1>2, Registered DEF Files, UserWords
  <1>8. regs' \in Files
    BY <1>1, <1>2, <1>7, ClobberedIs
  <1>9. UserWords(regs', stack'[on])
    <2>1. \A k \in 1 .. Len(<< >>) : Clean(<< >>[k])
      OBVIOUS
    <2>2. UserWords(regs', << >>)
      BY <2>1, <1>1, <1>2, <1>7, ClobberedWords
    <2> QED
      BY <2>2, <1>6
  <1>10. TypeInv'
    <2>1. <<"app", 1>> \in Places
      BY DEF Places
    <2> QED
      BY <2>1, <1>1, <1>2, <1>4, <1>8, NoCallIs DEF TypeInv
  <1>11. InApp(Now', call')
    <2>1. Now'.pc = <<"app", 1>> /\ Now'.below = << >>
      BY <1>1, <1>6 DEF Now
    <2> QED
      BY <2>1, <1>1 DEF InApp
  <1> QED
    BY <1>1, <1>2, <1>4, <1>6, <1>9, <1>10, <1>11, UserGoes

(* Exceptions of the program, and interrupts at any instruction.           *)
LEMMA EnterHere ==
  ASSUME IInv, ~down, NEW v \in Vectors, v # GETTID_INT, Enter(v, pc),
         Raised(Entered(v, pc))
  PROVE  IInv' /\ trail' = Append(trail, Entered(v, pc))
  <1> DEFINE c == Entered(v, pc)
  <1>1. TypeInv /\ Shape(trail, Now, call, stack)
    BY DEF IInv
  <1>2. pc \in Places
    BY <1>1 DEF TypeInv
  <1>3. Frozen(c) = [Now EXCEPT !.pc = pc]
    BY <1>1, <1>2, EnteredIs
  <1>4. Frozen(c) = Now
    BY <1>3 DEF Now
  <1> HIDE DEF c
  <1> QED
    BY <1>1, <1>2, <1>4, EnterStep DEF c

LEMMA RaiseStep ==
  ASSUME IInv, NEW v \in Faults, raise(v)
  PROVE  /\ IInv' /\ Delivered(v) \in 0 .. 19 /\ Delivered(v) \in Vectors
         /\ trail' = Append(trail, Entered(Delivered(v), pc))
  <1> DEFINE d == Delivered(v)
  <1>1. ~down /\ pc = <<"app", 1>> /\ Enter(d, pc)
    BY DEF raise
  <1>2. on = "user" /\ TypeInv /\ pc \in Places
    BY <1>1, ProgramHas
  <1>3. d \in 0 .. 19 /\ d # 15 /\ d \in Vectors
    BY KernelEntryAssumption DEF Vectors, Delivered, GeneralProtection
  <1> HIDE DEF d
  <1>4. d # GETTID_INT /\ d # Timer /\ d # Keyboard
    BY <1>3 DEF GETTID_INT, Timer, Keyboard
  <1> DEFINE c == Entered(d, pc)
  <1>5. c.vector = d /\ c.pc = pc /\ c.on = on
    BY <1>2, <1>3, EnteredIs
  <1> HIDE DEF c
  <1>6. Raised(c)
    BY <1>1, <1>2, <1>3, <1>4, <1>5 DEF Raised
  <1> QED
    BY <1>1, <1>3, <1>4, <1>6, EnterHere DEF c, d

LEMMA InterruptStep ==
  ASSUME IInv, NEW i \in {Timer, Keyboard}, Interrupt(i)
  PROVE  IInv' /\ trail' = Append(trail, Entered(i, pc))
  <1>1. ~down /\ Enter(i, pc)
    BY DEF Interrupt
  <1>2. TypeInv /\ pc \in Places
    BY DEF IInv, TypeInv
  <1>3. i \in Vectors /\ i # GETTID_INT
    BY DEF Vectors, GETTID_INT, Timer, Keyboard
  <1> DEFINE c == Entered(i, pc)
  <1>4. c.vector = i
    BY <1>2, <1>3, EnteredIs
  <1> HIDE DEF c
  <1>5. Raised(c)
    BY <1>3, <1>4 DEF Raised
  <1> QED
    BY <1>1, <1>3, <1>5, EnterHere DEF c

-----------------------------------------------------------------------------
(* The invariant is one.                                                   *)
LEMMA NextStep ==
  ASSUME IInv, Next
  PROVE  /\ IInv'
         /\ \/ trail' = trail
            \/ \E c : trail' = Append(trail, c)
            \/ trail # << >> /\ Returned(trail[Len(trail)])
  <1>1. CASE Exec
    BY <1>1, ExecStep
  <1>2. CASE begin
    BY <1>2, BeginStep
  <1>3. CASE \E s \in Stubs : call_stub(s)
    BY <1>3, CallStep
  <1>4. CASE stub_returns
    BY <1>4, StubStep
  <1>5. CASE \E v \in Faults : raise(v)
    BY <1>5, RaiseStep
  <1>6. CASE \E i \in {Timer, Keyboard} : Interrupt(i)
    BY <1>6, InterruptStep
  <1> QED
    BY <1>1, <1>2, <1>3, <1>4, <1>5, <1>6 DEF Next, Program

LEMMA Stutters ==
  ASSUME IInv, UNCHANGED vars
  PROVE  IInv'
  BY DEF vars, IInv, TypeInv, ArgumentsInEsi, At, Now

LEMMA InitIs ==
  ASSUME Init
  PROVE  IInv
  <1>1. /\ pc = <<"do_task_switch", 1>> /\ on = "boot" /\ iff /\ ~down
        /\ trail = << >> /\ call = NoCall
        /\ stack = [boot |-> thread_switch, user |-> << >>, kernel |-> << >>]
        /\ iff \in BOOLEAN /\ down \in BOOLEAN
    BY DEF Init
  <1>2. regs \in Files
    <2>1. <<"ds", 0>> \in Words /\ Junk \in Words
      BY KindsHave DEF Junk, Words
    <2> QED
      BY <2>1 DEF Init, Files
  <1>3. thread_switch \in Seq(Words) /\ Len(thread_switch) = 7
    <2>1. /\ <<"ds", 3>> \in Words /\ <<"user", 0>> \in Words /\ <<"eflags", 1>> \in Words
          /\ <<"cs", 3>> \in Words /\ <<"app", 0>> \in Words /\ <<"thread_switch", 1>> \in Words
      BY KindsHave DEF Words, Stacks
    <2> QED
      BY <2>1 DEF thread_switch
  <1>4. /\ stack \in [Stacks -> Seq(Words)] /\ stack.boot = thread_switch
        /\ stack.user = << >> /\ stack.kernel = << >>
    <2> DEFINE e == << >>
               b == thread_switch
    <2>1. e \in Seq(Words) /\ b \in Seq(Words)
      BY <1>3, EmptySeq
    <2>2. stack = [boot |-> b, user |-> e, kernel |-> e]
      BY <1>1
    <2>3. b = thread_switch /\ e = << >>
      OBVIOUS
    <2> HIDE DEF e, b
    <2>4. stack.boot = b /\ stack.user = e /\ stack.kernel = e
      BY <2>2
    <2>5. stack \in [Stacks -> Seq(Words)]
      BY <2>1, <2>2 DEF Stacks
    <2> QED
      BY <2>3, <2>4, <2>5
  <1>5. TypeInv
    <2>1. pc \in Places
      BY <1>1, CodeIs DEF Places
    <2>2. trail \in Seq(Records) /\ Len(stack.kernel) = 0
      BY <1>1, <1>4, EmptySeq
    <2> QED
      BY <1>1, <1>2, <1>4, <2>1, <2>2, NoCallIs, KernelEntryAssumption DEF TypeInv, Stacks
  <1>6. BootAt(Now, call)
    <2>1. Now.pc = pc /\ Now.regs = regs /\ Now.on = "boot" /\ Now.below = thread_switch
      BY <1>1, <1>4 DEF Now
    <2>2. Now.iff
      BY <1>1, Zenon DEF Now
    <2>3. BootDepth(1) = 0
      BY DEF BootDepth
    <2>4. BootStack(thread_switch, 0)
      BY <1>3 DEF BootStack
    <2>5. BootRegs(1, regs)
      BY DEF BootRegs
    <2> HIDE DEF BootDepth
    <2> QED
      BY <1>1, <2>1, <2>2, <2>3, <2>4, <2>5 DEF BootAt
  <1>7. StacksOK(Now, << >>, stack)
    BY <1>4, <1>6 DEF StacksOK, BootAt
  <1>8. Shape(trail, Now, call, stack)
    BY <1>1, <1>6, <1>7, ShapeBase
  <1> QED
    BY <1>1, <1>5, <1>8 DEF IInv

LEMMA Invariance == Spec => []IInv
  <1>1. Init => IInv
    BY InitIs
  <1>2. IInv /\ [Next]_vars => IInv'
    BY NextStep, Stutters
  <1> QED
    BY <1>1, <1>2, PTL DEF Spec

(* Every word anywhere, in a register, on a stack or in pc, is of a known  *)
(* kind, and all that is entered is entered through a gate that the IDT    *)
(* has.                                                                    *)
THEOREM TypeCorrect == Spec => []TypeOK
  <1>1. IInv => TypeOK
    BY TypesAre
  <1> QED
    BY <1>1, Invariance, PTL

(* The program, and the library functions it calls, always run with their  *)
(* own segments, with interrupts enabled and with an empty kernel stack:   *)
(* no path through the wrappers leaves a word behind.                      *)
THEOREM UserModeHolds == Spec => []UserMode
  <1>1. IInv => UserMode
    BY UserModeIs
  <1> QED
    BY <1>1, Invariance, PTL

(* Whichever function of the user library makes the call, and whatever     *)
(* interrupts it on the way, syscall_wrapper delivers its arguments in esi *)
(* as the system call expects them.                                        *)
THEOREM ArgumentsHold == Spec => []ArgumentsInEsi
  <1>1. IInv => ArgumentsInEsi
    BY ArgumentsAre
  <1> QED
    BY <1>1, Invariance, PTL

(* What was interrupted, by a timer or keyboard interrupt at any           *)
(* instruction and nested to any depth, by an exception or by the system   *)
(* call, goes on at its instruction with its stack, its flag and the       *)
(* registers that survive.                                                 *)
THEOREM ResumesHolds == Spec => Resumes
  <1>1. ASSUME IInv, Next, Len(trail') < Len(trail)
        PROVE  LET c == Last(trail)
               IN  /\ pc' = c.pc /\ on' = c.on /\ iff' = c.iff /\ stack'[c.on] = c.below
                   /\ \A r \in Survive(c.vector) : regs'[r] = c.regs[r]
    <2>1. trail \in Seq(Records)
      BY <1>1 DEF IInv, TypeInv
    <2>2. Len(trail) \in Nat
      BY <2>1, Sequences
    <2>3. trail' # trail
      BY <1>1, <2>2
    <2>4. trail' \in Seq(Records)
      BY <1>1, NextStep DEF IInv, TypeInv
    <2>5. ASSUME NEW c, trail' = Append(trail, c)
          PROVE  FALSE
      <3>1. Len(Append(trail, c)) = Len(trail) + 1
        BY <2>1
      <3> QED
        BY <3>1, <2>2, <2>5, <1>1
    <2>6. Returned(trail[Len(trail)])
      BY <1>1, <2>3, <2>5, NextStep
    <2> QED
      BY <2>6 DEF Returned, Last
  <1>2. IInv /\ [Next]_vars =>
          [Len(trail') < Len(trail) =>
             LET c == Last(trail)
             IN  /\ pc' = c.pc /\ on' = c.on /\ iff' = c.iff /\ stack'[c.on] = c.below
                 /\ \A r \in Survive(c.vector) : regs'[r] = c.regs[r]]_vars
    BY <1>1
  <1> QED
    BY <1>2, Invariance, PTL DEF Spec, Resumes

-----------------------------------------------------------------------------
(* The refinement of SystemCalls.  Base is the context below all handlers, *)
(* Asked that the first of them is the system call.                        *)
Base == Context(trail, Now, 0)
Asked(t) == t # << >> /\ t[1].vector = GETTID_INT

(* The call that is implemented has trapped once when it leaves the table, *)
(* and has its answer from then on.                                        *)
GettidEntry == INT_TABLE_ENTRY_SIZE * (GETTID_INT - SYSCALL_INT)
Answer(c, q, asked) ==
  q.num = GETTID_INT =>
    /\ c.pc[1] = "table" => \/ c.pc[2] = GettidEntry /\ ~asked
                            \/ c.pc[2] = GettidEntry + 2 /\ (asked \/ c.regs.eax = sys_gettid)
    /\ c.pc[1] = "stub" \/ (c.pc[1] = "syscall_wrapper" /\ c.pc[2] >= 20)
         => c.regs.eax = sys_gettid

(* Where the machine may not stop there are only interrupts, above the     *)
(* system call or not.                                                     *)
Served(c, q) == c.pc # <<"app", 1>> /\ q.num \in {0, GETTID_INT}
Calm(t) ==
  \A k \in 1 .. Len(t) : \/ t[k].vector \in {Timer, Keyboard}
                         \/ k = 1 /\ t[k].vector = GETTID_INT

AInv ==
  /\ Cardinality(Interrupts) <= MaxDepth
  /\ ~down => /\ Answer(Base, call, Asked(trail))
              /\ Served(Base, call) => Calm(trail)

(* What the bottom context is, and what the steps leave of it.             *)
LEMMA FirstOf ==
  ASSUME NEW S, NEW t \in Seq(S), NEW c \in S
  PROVE  /\ Append(t, c) \in Seq(S) /\ Append(t, c) # << >>
         /\ Len(t) \in Nat /\ Len(Append(t, c)) = Len(t) + 1
         /\ \A k \in 1 .. Len(t) : Append(t, c)[k] = t[k]
         /\ Append(t, c)[Len(t) + 1] = c
         /\ t # << >> => Len(t) >= 1 /\ Append(t, c)[1] = t[1]
         /\ t = << >> => Len(t) = 0 /\ Append(t, c)[1] = c
  <1>1. Len(t) \in Nat /\ (t = << >> <=> Len(t) = 0)
    BY Sequences, EmptySeq
  <1>2. /\ Append(t, c) \in Seq(S) /\ Len(Append(t, c)) = Len(t) + 1
        /\ \A k \in 1 .. Len(t) : Append(t, c)[k] = t[k]
        /\ Append(t, c)[Len(t) + 1] = c
    BY AppendProperties, <1>1
  <1>3. Append(t, c) # << >>
    BY <1>1, <1>2, EmptySeq
  <1> QED
    BY <1>1, <1>2, <1>3

LEMMA FrontIs ==
  ASSUME NEW S, NEW t \in Seq(S), t # << >>
  PROVE  /\ Front(t) \in Seq(S) /\ Len(t) \in Nat /\ Len(t) >= 1
         /\ Len(Front(t)) = Len(t) - 1
         /\ \A k \in 1 .. Len(t) - 1 : Front(t)[k] = t[k]
         /\ Len(t) = 1 <=> Front(t) = << >>
  <1>1. /\ Front(t) \in Seq(S) /\ Len(t) \in Nat /\ Len(t) >= 1
        /\ Len(Front(t)) = Len(t) - 1
    BY FrontType
  <1> DEFINE m == 1
             u == Front(t)
  <1>2. m \in Nat /\ m <= Len(t) /\ u = SubSeq(t, 1, Len(t) - m) /\ m = 1
    BY <1>1 DEF Front
  <1> HIDE DEF m
  <1>3. \A k \in 1 .. Len(t) - m : u[k] = t[k]
    BY <1>2, Popped
  <1>4. u = << >> <=> Len(u) = 0
    BY <1>1, EmptySeq
  <1> HIDE DEF u
  <1> QED
    BY <1>1, <1>2, <1>3, <1>4 DEF u

LEMMA ContextIs ==
  ASSUME NEW t \in Seq(Records), NEW d
  PROVE  /\ t = << >> => Context(t, d, 0) = d
         /\ t # << >> => Context(t, d, 0) = Frozen(t[1]) /\ Len(t) >= 1 /\ t[1] \in Records
         /\ Len(t) \in Nat
  <1>1. Len(t) \in Nat /\ (t = << >> <=> Len(t) = 0)
    BY Sequences, EmptySeq
  <1>2. t # << >> => t[1] \in Records
    BY <1>1, Sequences
  <1> QED
    BY <1>1, <1>2 DEF Context

LEMMA BaseIs ==
  ASSUME IInv
  PROVE  /\ trail \in Seq(Records) /\ Len(trail) \in Nat
         /\ trail = << >> => Base = Now
         /\ trail # << >> => Len(trail) >= 1 /\ trail[1] \in Records /\ Base = Frozen(trail[1])
         /\ Base.pc = Outer.pc /\ Base.regs = Outer.regs
  <1>1. trail \in Seq(Records)
    BY DEF IInv, TypeInv
  <1>2. /\ trail = << >> => Base = Now
        /\ trail # << >> => Base = Frozen(trail[1]) /\ Len(trail) >= 1 /\ trail[1] \in Records
        /\ Len(trail) \in Nat
    BY <1>1, ContextIs DEF Base
  <1>3. Base.pc = Outer.pc /\ Base.regs = Outer.regs
    BY <1>2 DEF Outer, Now, Frozen
  <1> QED
    BY <1>1, <1>2, <1>3

LEMMA BaseQuietly ==
  ASSUME IInv, trail # << >>, trail' = trail
  PROVE  Base' = Base
  <1>1. trail' \in Seq(Records)
    BY DEF IInv, TypeInv
  <1>2. Base' = Frozen(trail'[1])
    BY <1>1, ContextIs DEF Base
  <1> QED
    BY <1>2, BaseIs

LEMMA BaseEnter ==
  ASSUME IInv, NEW c \in Records, trail' = Append(trail, c)
  PROVE  /\ trail # << >> => Base' = Base /\ Asked(trail') = Asked(trail)
         /\ trail = << >> => /\ Base' = Frozen(c)
                             /\ Asked(trail') <=> c.vector = GETTID_INT
                             /\ ~Asked(trail)
  <1>1. trail \in Seq(Records)
    BY DEF IInv, TypeInv
  <1>2. /\ trail' \in Seq(Records) /\ trail' # << >>
        /\ trail # << >> => trail'[1] = trail[1]
        /\ trail = << >> => trail'[1] = c
    BY <1>1, FirstOf
  <1>3. Base' = Frozen(trail'[1])
    BY <1>2, ContextIs DEF Base
  <1> QED
    BY <1>2, <1>3, BaseIs DEF Asked

LEMMA BaseReturn ==
  ASSUME IInv, trail # << >>, trail' = Front(trail)
  PROVE  /\ Len(trail) # 1 => trail' # << >> /\ Base' = Base /\ Asked(trail') = Asked(trail)
         /\ Len(trail) = 1 => trail' = << >> /\ Base' = Now' /\ ~Asked(trail')
  <1>1. trail \in Seq(Records)
    BY DEF IInv, TypeInv
  <1>2. /\ trail' \in Seq(Records) /\ Len(trail) \in Nat /\ Len(trail) >= 1
        /\ \A k \in 1 .. Len(trail) - 1 : trail'[k] = trail[k]
        /\ Len(trail) = 1 <=> trail' = << >>
    BY <1>1, FrontIs
  <1>3. Len(trail) # 1 => trail'[1] = trail[1]
    <2>1. Len(trail) # 1 => 1 \in 1 .. Len(trail) - 1
      <3> DEFINE n == Len(trail)
      <3>1. n \in Nat /\ n >= 1
        BY <1>2
      <3> HIDE DEF n
      <3>2. n # 1 => 1 \in 1 .. n - 1
        BY <3>1
      <3> QED
        BY <3>2 DEF n
    <2> QED
      BY <2>1, <1>2, Zenon
  <1>4. /\ trail' # << >> => Base' = Frozen(trail'[1])
        /\ trail' = << >> => Base' = Now'
    BY <1>2, ContextIs DEF Base
  <1> QED
    BY <1>2, <1>3, <1>4, BaseIs DEF Asked

(* How many interrupts there are in the trail.                             *)
Timed(t) == {k \in DOMAIN t : t[k].vector \in {Timer, Keyboard}}

LEMMA TimedIs ==
  ASSUME NEW t \in Seq(Records)
  PROVE  /\ Timed(t) = {k \in 1 .. Len(t) : t[k].vector \in {Timer, Keyboard}}
         /\ IsFiniteSet(Timed(t)) /\ Cardinality(Timed(t)) \in Nat
  <1>1. Len(t) \in Nat /\ DOMAIN t = 1 .. Len(t)
    BY Sequences
  <1>2. IsFiniteSet(1 .. Len(t))
    BY <1>1, FS_Interval
  <1>3. Timed(t) \subseteq 1 .. Len(t)
    BY <1>1 DEF Timed
  <1> QED
    BY <1>1, <1>2, <1>3, FS_Subset, FS_CardinalityType DEF Timed

LEMMA TimedEnter ==
  ASSUME NEW t \in Seq(Records), NEW c \in Records
  PROVE  Cardinality(Timed(Append(t, c)))
           = Cardinality(Timed(t)) + IF c.vector \in {Timer, Keyboard} THEN 1 ELSE 0
  <1> DEFINE u == Append(t, c)
             n == Len(t)
  <1>1. /\ u \in Seq(Records) /\ n \in Nat /\ Len(u) = n + 1 /\ u[n + 1] = c
        /\ \A k \in 1 .. n : u[k] = t[k]
    BY FirstOf
  <1>2. /\ Timed(u) = {k \in 1 .. Len(u) : u[k].vector \in {Timer, Keyboard}}
        /\ Timed(t) = {k \in 1 .. n : t[k].vector \in {Timer, Keyboard}}
        /\ IsFiniteSet(Timed(t)) /\ Cardinality(Timed(t)) \in Nat
    BY <1>1, TimedIs
  <1> HIDE DEF u, n
  <1>3. Timed(u) = Timed(t) \cup (IF c.vector \in {Timer, Keyboard} THEN {n + 1} ELSE {})
    BY <1>1, <1>2
  <1>4. n + 1 \notin Timed(t)
    BY <1>1, <1>2
  <1>5. CASE c.vector \in {Timer, Keyboard}
    <2>1. Timed(u) = Timed(t) \cup {n + 1}
      BY <1>3, <1>5
    <2>2. Cardinality(Timed(u)) = Cardinality(Timed(t)) + 1
      BY <2>1, <1>2, <1>4, FS_AddElement
    <2>3. (IF c.vector \in {Timer, Keyboard} THEN 1 ELSE 0) = 1
      BY <1>5
    <2> QED
      BY <2>2, <2>3 DEF u
  <1>6. CASE c.vector \notin {Timer, Keyboard}
    <2>1. Timed(u) = Timed(t)
      BY <1>3, <1>6
    <2>2. (IF c.vector \in {Timer, Keyboard} THEN 1 ELSE 0) = 0
      BY <1>6
    <2>3. Cardinality(Timed(u)) = Cardinality(Timed(t)) + 0
      BY <2>1, <1>2
    <2> QED
      BY <2>2, <2>3 DEF u
  <1> QED
    BY <1>5, <1>6

LEMMA TimedReturn ==
  ASSUME NEW t \in Seq(Records), t # << >>
  PROVE  Cardinality(Timed(Front(t))) <= Cardinality(Timed(t))
  <1> DEFINE u == Front(t)
             n == Len(t)
  <1>1. /\ u \in Seq(Records) /\ n \in Nat /\ n >= 1 /\ Len(u) = n - 1
        /\ \A k \in 1 .. n - 1 : u[k] = t[k]
    BY FrontIs
  <1>2. /\ Timed(u) = {k \in 1 .. Len(u) : u[k].vector \in {Timer, Keyboard}}
        /\ Timed(t) = {k \in 1 .. n : t[k].vector \in {Timer, Keyboard}}
        /\ IsFiniteSet(Timed(t))
    BY <1>1, TimedIs
  <1> HIDE DEF u, n
  <1>3. Timed(u) \subseteq Timed(t)
    BY <1>1, <1>2
  <1>4. Cardinality(Timed(u)) <= Cardinality(Timed(t))
    BY <1>2, <1>3, FS_Subset
  <1> QED
    BY <1>4 DEF u

LEMMA TimedCalm ==
  ASSUME NEW t \in Seq(Records), Calm(t)
  PROVE  Len(t) <= Cardinality(Timed(t)) + IF Asked(t) THEN 1 ELSE 0
  <1> DEFINE n == Len(t)
  <1>1. n \in Nat /\ (t = << >> <=> n = 0)
    BY Sequences, EmptySeq
  <1>2. /\ Timed(t) = {k \in 1 .. n : t[k].vector \in {Timer, Keyboard}}
        /\ IsFiniteSet(Timed(t)) /\ Cardinality(Timed(t)) \in Nat
    BY TimedIs
  <1>3. CASE Asked(t)
    <2>1. 2 .. n \subseteq Timed(t)
      BY <1>1, <1>2 DEF Calm
    <2>2. Cardinality(2 .. n) <= Cardinality(Timed(t))
      BY <2>1, <1>2, FS_Subset
    <2>3. Cardinality(2 .. n) = IF 2 > n THEN 0 ELSE n - 2 + 1
      BY <1>1, FS_Interval
    <2> QED
      BY <2>2, <2>3, <1>1, <1>2, <1>3
  <1>4. CASE ~Asked(t)
    <2>1. 1 .. n \subseteq Timed(t)
      BY <1>1, <1>2, <1>4 DEF Calm, Asked
    <2>2. Cardinality(1 .. n) <= Cardinality(Timed(t))
      BY <2>1, <1>2, FS_Subset
    <2>3. Cardinality(1 .. n) = IF 1 > n THEN 0 ELSE n - 1 + 1
      BY <1>1, FS_Interval
    <2> QED
      BY <2>2, <2>3, <1>1, <1>2, <1>4
  <1> QED
    BY <1>3, <1>4

LEMMA InterruptsAre == Interrupts = Timed(trail)
  BY DEF Interrupts, Timed

-----------------------------------------------------------------------------
(* The kinds of step.                                                      *)
LEMMA ExecCall ==
  ASSUME Exec
  PROVE  call' = call
  <1>1. CASE load \/ restore_esp \/ push \/ pop \/ pusha \/ popa
    BY <1>1 DEF load, restore_esp, push, pop, pusha, popa
  <1>2. CASE jump \/ lookup \/ jump_register \/ ret \/ ccall
    BY <1>2 DEF jump, lookup, jump_register, ret, ccall
  <1>3. CASE int
    BY <1>3, Zenon DEF int, Enter
  <1>4. CASE iret
    BY <1>4, Zenon DEF iret, Enter
  <1> QED
    BY <1>1, <1>2, <1>3, <1>4 DEF Exec

LEMMA IretKeeps ==
  ASSUME iret, regs.eax = sys_gettid
  PROVE  regs'.eax = sys_gettid
  <1> DEFINE f == [r \in Registers |-> IF regs[r] = <<"ds", 0>> THEN Junk ELSE regs[r]]
  <1>1. regs' = regs \/ regs' = f
    BY Zenon DEF iret, Enter
  <1>2. f.eax = regs.eax
    <2>1. sys_gettid # <<"ds", 0>>
      BY DEF sys_gettid
    <2> QED
      BY <2>1, Registered
  <1> QED
    BY <1>1, <1>2

(* What runs goes on, a context comes, the topmost goes, or the program or *)
(* do_task_switch goes on.                                                 *)
Quiet == trail # << >> /\ trail' = trail /\ call' = call
Comes(v, eip) ==
  /\ v \in Vectors /\ eip \in Places
  /\ trail' = Append(trail, Entered(v, eip)) /\ call' = call
Goes ==
  LET c == trail[Len(trail)]
  IN  /\ trail # << >> /\ c.vector \notin ErrorCodes /\ Returned(c)
      /\ c.vector = GETTID_INT => regs'.eax = sys_gettid
Own == trail = << >> /\ trail' = trail

InterruptComes ==
  \E i \in {Timer, Keyboard} :
    Comes(i, pc) /\ Enter(i, pc) /\ Cardinality(Interrupts) < MaxDepth
GettidComes ==
  /\ trail = << >> /\ on = "user" /\ pc[1] = "table" /\ Instr = <<"int", GETTID_INT>>
  /\ Comes(GETTID_INT, Eip) /\ Enter(GETTID_INT, Eip)
FaultComes ==
  \/ /\ trail = << >> /\ pc[1] = "table" /\ Exec /\ Comes(GeneralProtection, pc)
     /\ \E v \in 64 .. 97 : v # GETTID_INT /\ Instr = <<"int", v>>
  \/ /\ trail # << >> /\ trail[Len(trail)].vector \in ErrorCodes
     /\ Comes(GeneralProtection, pc)
  \/ \E v \in 0 .. 19 : trail = << >> /\ pc = <<"app", 1>> /\ Comes(v, pc)

LEMMA HandlerSteps ==
  ASSUME IInv, Exec, trail # << >>
  PROVE  Quiet \/ FaultComes \/ Goes
  <1> DEFINE c == trail[Len(trail)]
  <1>1. call' = call
    BY ExecCall
  <1>2. GeneralProtection \in Vectors /\ pc \in Places
    BY DEF GeneralProtection, Vectors, IInv, TypeInv
  <1>3. CASE trail' = trail
    BY <1>1, <1>3 DEF Quiet
  <1>4. CASE c.vector \in ErrorCodes /\ trail' = Append(trail, Entered(GeneralProtection, pc))
    BY <1>1, <1>2, <1>4 DEF FaultComes, Comes
  <1>5. CASE pc[2] # Length(Code1(c))
    BY <1>3, <1>5, HandlerQuiet
  <1>6. CASE pc[2] = Length(Code1(c)) /\ c.vector \in ErrorCodes
    BY <1>4, <1>6, ErrorIret
  <1>7. CASE pc[2] = Length(Code1(c)) /\ c.vector \notin ErrorCodes
    <2>1. Returned(c)
      BY <1>7, ReturnUser, ReturnKernel
    <2>2. Instr = <<"iret">> /\ (c.vector = GETTID_INT => regs.eax = sys_gettid)
      BY <1>7, HandlerLast
    <2>3. iret
      BY <2>2, Dispatch
    <2>4. c.vector = GETTID_INT => regs'.eax = sys_gettid
      BY <2>2, <2>3, IretKeeps
    <2> QED
      BY <1>7, <2>1, <2>4 DEF Goes
  <1> QED
    BY <1>5, <1>6, <1>7

LEMMA TableSteps ==
  ASSUME IInv, Exec, trail = << >>, pc[1] = "table"
  PROVE  GettidComes \/ FaultComes \/ Own
  <1>1. call' = call
    BY ExecCall
  <1>2. /\ GeneralProtection \in Vectors /\ GETTID_INT \in Vectors /\ pc \in Places
    BY DEF GeneralProtection, GETTID_INT, Vectors, IInv, TypeInv
  <1>3. Eip \in Places
    <2>1. pc[2] + 2 \in Int /\ Eip = <<"table", pc[2] + 2>>
      BY <1>2 DEF Places, Eip
    <2> QED
      BY <2>1 DEF Places
  <1>4. on = "user" /\ (Instr = <<"jmp", 20>> \/ \E v \in 64 .. 97 : Instr = <<"int", v>>)
    BY TableHas
  <1>5. CASE Instr = <<"jmp", 20>>
    BY <1>5, TableJumps DEF Own
  <1>6. CASE \E v \in 64 .. 97 : Instr = <<"int", v>>
    <2>1. PICK v \in 64 .. 97 : Instr = <<"int", v>>
      BY <1>6
    <2>2. trail' = Append(trail, IF v = GETTID_INT THEN Entered(v, Eip)
                                                   ELSE Entered(GeneralProtection, pc))
      BY <2>1, TableTraps
    <2>3. CASE v = GETTID_INT
      <3>1. trail' = Append(trail, Entered(GETTID_INT, Eip))
        BY <2>2, <2>3
      <3>2. GETTID_INT \in DOMAIN idt /\ idt[GETTID_INT].dpl = 3
        BY <1>2, IdtIs
      <3>3. int
        BY <2>1, Dispatch
      <3>4. Enter(GETTID_INT, Eip)
        BY <2>1, <2>3, <3>2, <3>3 DEF int
      <3> QED
        BY <3>1, <3>4, <2>1, <2>3, <1>1, <1>2, <1>3, <1>4 DEF GettidComes, Comes
    <2>4. CASE v # GETTID_INT
      <3>1. trail' = Append(trail, Entered(GeneralProtection, pc))
        BY <2>2, <2>4
      <3> QED
        BY <3>1, <2>1, <2>4, <1>1, <1>2 DEF FaultComes, Comes
    <2> QED
      BY <2>3, <2>4
  <1> QED
    BY <1>4, <1>5, <1>6

LEMMA Steps ==
  ASSUME IInv, Next
  PROVE  /\ ~down /\ IInv'
         /\ \/ Quiet /\ Exec
            \/ InterruptComes
            \/ GettidComes /\ Exec
            \/ FaultComes
            \/ Goes /\ Exec
            \/ Own /\ (Exec \/ begin \/ stub_returns \/ \E s \in Stubs : call_stub(s))
  <1>1. IInv'
    BY NextStep
  <1>2. CASE Exec
    <2>1. ~down
      BY <1>2, Dispatch
    <2>2. CASE trail # << >>
      BY <1>1, <1>2, <2>1, <2>2, HandlerSteps
    <2>3. CASE trail = << >> /\ pc[1] = "table"
      BY <1>1, <1>2, <2>1, <2>3, TableSteps
    <2>4. CASE trail = << >> /\ pc[1] # "table"
      <3>1. pc[1] \in {"do_task_switch", "syscall_wrapper"}
        BY <1>2, <2>1, <2>4, WhereItRuns
      <3>2. Own
        BY <3>1, <1>2, <2>4, BootStep, BootIret, WrapperStep DEF Own
      <3> QED
        BY <3>2, <1>1, <1>2, <2>1
    <2> QED
      BY <2>2, <2>3, <2>4
  <1>3. CASE begin
    <2>1. ~down /\ pc = <<"app", 0>> /\ trail' = trail
      BY <1>3 DEF begin
    <2> QED
      BY <2>1, <1>1, <1>3, ProgramHas DEF Own
  <1>4. CASE \E s \in Stubs : call_stub(s)
    <2>1. ~down /\ pc = <<"app", 1>> /\ trail' = trail
      BY <1>4 DEF call_stub
    <2> QED
      BY <2>1, <1>1, <1>4, ProgramHas DEF Own
  <1>5. CASE stub_returns
    <2>1. ~down /\ pc = <<"stub", 1>> /\ trail' = trail
      BY <1>5 DEF stub_returns
    <2> QED
      BY <2>1, <1>1, <1>5, ProgramHas DEF Own
  <1>6. CASE \E v \in Faults : raise(v)
    <2>1. PICK v \in Faults : raise(v)
      BY <1>6
    <2>2. ~down /\ pc = <<"app", 1>> /\ call' = call
      BY <2>1 DEF raise, Enter
    <2>3. trail = << >> /\ pc \in Places
      BY <2>2, ProgramHas
    <2> QED
      BY <2>1, <2>2, <2>3, <1>1, RaiseStep DEF FaultComes, Comes
  <1>7. CASE \E i \in {Timer, Keyboard} : Interrupt(i)
    <2>1. PICK i \in {Timer, Keyboard} : Interrupt(i)
      BY <1>7
    <2>2. ~down /\ call' = call /\ Enter(i, pc) /\ Cardinality(Interrupts) < MaxDepth
      BY <2>1 DEF Interrupt, Enter
    <2>3. i \in Vectors /\ pc \in Places
      BY DEF Vectors, IInv, TypeInv
    <2> QED
      BY <2>1, <2>2, <2>3, <1>1, InterruptStep DEF InterruptComes, Comes
  <1> QED
    BY <1>2, <1>3, <1>4, <1>5, <1>6, <1>7 DEF Next, Program

-----------------------------------------------------------------------------
(* The answer of the system call.                                          *)
LEMMA ComesBase ==
  ASSUME IInv, ~down, NEW v, NEW eip, Comes(v, eip)
  PROVE  /\ Entered(v, eip) \in Records /\ Entered(v, eip).vector = v
         /\ call' = call /\ Base'.regs = Base.regs
         /\ Base'.pc = IF trail = << >> THEN eip ELSE Base.pc
         /\ trail # << >> => (Asked(trail') <=> Asked(trail))
         /\ trail = << >> => (Asked(trail') <=> v = GETTID_INT) /\ ~Asked(trail)
  <1> DEFINE c == Entered(v, eip)
  <1>1. /\ v \in Vectors /\ eip \in Places /\ trail' = Append(trail, c) /\ call' = call
    BY DEF Comes
  <1>2. /\ c \in Records /\ c.vector = v /\ c.pc = eip /\ c.regs = regs
    BY <1>1, EnteredIs DEF IInv
  <1>3. Now.regs = regs /\ Frozen(c).pc = eip /\ Frozen(c).regs = regs
    BY <1>2 DEF Now, Frozen
  <1> HIDE DEF c
  <1>4. /\ trail # << >> => Base' = Base /\ Asked(trail') = Asked(trail)
        /\ trail = << >> => /\ Base' = Frozen(c)
                            /\ Asked(trail') <=> c.vector = GETTID_INT
                            /\ ~Asked(trail)
    BY <1>1, <1>2, BaseEnter
  <1>5. CASE trail = << >>
    BY <1>1, <1>2, <1>3, <1>4, <1>5, BaseIs DEF c
  <1>6. CASE trail # << >>
    BY <1>1, <1>2, <1>4, <1>6 DEF c
  <1> QED
    BY <1>5, <1>6

(* A context that comes without the system call leaves the bottom alone.   *)
LEMMA ComesHere ==
  ASSUME IInv, ~down, NEW v, Comes(v, pc), v # GETTID_INT
  PROVE  /\ call' = call /\ Base'.regs = Base.regs /\ Base'.pc = Base.pc
         /\ Asked(trail') <=> Asked(trail)
  <1>1. trail = << >> => Base.pc = pc
    BY BaseIs DEF Now
  <1> QED
    BY <1>1, ComesBase

(* What the instructions do to the program counter and eax.                *)
LEMMA Forward ==
  ASSUME Exec, Instr[1] \in {"set", "lea", "load", "mov", "push", "pop", "lookup"}
  PROVE  pc' = Eip
  <1>1. load \/ restore_esp \/ push \/ pop \/ lookup
    BY Dispatch
  <1> QED
    BY <1>1 DEF load, restore_esp, push, pop, lookup

LEMMA WrapperForward ==
  ASSUME IInv, Exec, trail = << >>, pc[1] = "syscall_wrapper"
  PROVE  /\ pc[2] \in 1 .. 18 => pc'[1] = "syscall_wrapper" /\ pc'[2] \in 1 .. 19
         /\ pc[2] = 19 => pc' = <<"table", INT_TABLE_ENTRY_SIZE * (call.num - SYSCALL_INT)>>
         /\ pc[2] \in 20 .. 25 => regs'.eax = regs.eax
                                  /\ pc'[1] \in {"syscall_wrapper", "stub"}
  <1> DEFINE w == syscall_wrapper
  <1>1. /\ TypeInv /\ pc[2] \in 1 .. 25 /\ Instr = w[pc[2]] /\ Selecting(pc[2], call, regs)
    BY WrapperHas
  <1>2. Eip = <<"syscall_wrapper", pc[2] + 1>>
    BY <1>1, CodeIs, EipIs
  <1>3. ASSUME pc[2] \in 1 .. 10 \/ pc[2] \in {13, 15, 17, 18}
        PROVE  pc'[1] = "syscall_wrapper" /\ pc'[2] \in 1 .. 19
    <2>1. Instr[1] \in {"set", "lea", "load", "mov", "push", "pop", "lookup"}
      BY <1>1, <1>3, WrapperCode
    <2>2. pc' = Eip
      BY <2>1, Forward
    <2>3. pc[2] + 1 \in 1 .. 19
      BY <1>3
    <2> QED
      BY <2>2, <2>3, <1>2
  <1>4. ASSUME pc[2] \in {11, 12, 14, 16}
        PROVE  pc'[1] = "syscall_wrapper" /\ pc'[2] \in 1 .. 19
    <2>1. \/ Instr = <<"jmp", 18>> \/ Instr = <<"jeq", 1, "edx", 17>>
          \/ Instr = <<"jeq", 0, "edx", 15>>
      BY <1>1, <1>4, WrapperCode
    <2>2. jump
      BY <2>1, Dispatch
    <2>3. pc' \in {<<"syscall_wrapper", 18>>, <<"syscall_wrapper", 17>>,
                   <<"syscall_wrapper", 15>>, Eip}
      BY <2>1, <2>2 DEF jump
    <2>4. pc[2] + 1 \in 1 .. 19
      BY <1>4
    <2> QED
      BY <2>3, <2>4, <1>2
  <1>5. ASSUME pc[2] = 19
        PROVE  pc' = <<"table", INT_TABLE_ENTRY_SIZE * (call.num - SYSCALL_INT)>>
    <2>1. Instr = <<"jmpreg", "eax">>
      BY <1>1, <1>5, WrapperCode
    <2>2. jump_register
      BY <2>1, Dispatch
    <2>3. pc' = regs.eax
      BY <2>1, <2>2 DEF jump_register
    <2> QED
      BY <2>3, <1>1, <1>5 DEF Selecting
  <1>6. ASSUME pc[2] \in 20 .. 24
        PROVE  regs'.eax = regs.eax /\ pc'[1] = "syscall_wrapper"
    <2>1. \/ \E r \in {"esi", "ebx", "edi", "ebp"} : Instr = <<"pop", r>>
          \/ Instr = <<"mov", "ebp", "esp">>
      <3>1. pc[2] = 20 \/ pc[2] = 21 \/ pc[2] = 22 \/ pc[2] = 23 \/ pc[2] = 24
        BY <1>6
      <3> QED
        BY <3>1, <1>1, WrapperCode
    <2>2. pc' = Eip
      BY <2>1, Forward
    <2>3. CASE Instr = <<"mov", "ebp", "esp">>
      <3>1. Last(Instr) = "esp"
        BY <2>3 DEF Last
      <3>2. restore_esp
        BY <2>3, <3>1, Dispatch, Tags
      <3> QED
        BY <3>2, <2>2, <1>2, <1>6 DEF restore_esp
    <2>4. CASE \E r \in {"esi", "ebx", "edi", "ebp"} : Instr = <<"pop", r>>
      <3>1. PICK r \in {"esi", "ebx", "edi", "ebp"} : Instr = <<"pop", r>>
        BY <2>4
      <3>2. pop /\ r # "eax"
        BY <3>1, Dispatch
      <3>3. regs' = [regs EXCEPT ![r] = Last(Top)]
        BY <3>1, <3>2 DEF pop
      <3>4. regs'.eax = regs.eax
        BY <3>2, <3>3, <1>1, Registered DEF TypeInv, Files
      <3> QED
        BY <3>4, <2>2, <1>2, <1>6
    <2> QED
      BY <2>1, <2>3, <2>4
  <1>7. ASSUME pc[2] = 25
        PROVE  regs'.eax = regs.eax /\ pc'[1] = "stub"
    <2>1. Instr = <<"ret">>
      BY <1>1, <1>7, WrapperCode
    <2>2. ret
      BY <2>1, Dispatch
    <2>3. regs' = regs /\ call' = call
      BY <2>2 DEF ret
    <2>4. pc'[1] = "stub"
      BY <1>7, WrapperReturns
    <2> QED
      BY <2>3, <2>4, <1>7
  <1>8. /\ pc[2] \in 1 .. 18 => pc[2] \in 1 .. 10 \/ pc[2] \in {13, 15, 17, 18}
                                \/ pc[2] \in {11, 12, 14, 16}
        /\ pc[2] \in 20 .. 25 => pc[2] \in 20 .. 24 \/ pc[2] = 25
    OBVIOUS
  <1> QED
    BY <1>3, <1>4, <1>5, <1>6, <1>7, <1>8

LEMMA TableIn ==
  ASSUME IInv, Exec, trail = << >>, pc[1] = "table"
  PROVE  /\ pc[2] = GettidEntry => Instr = <<"int", GETTID_INT>>
         /\ pc[2] = GettidEntry + 2 => Instr = <<"jmp", 20>>
  <1>1. Instr = syscall_int_table(pc[2])
    BY DEF Instr
  <1>2. GettidEntry = 56 /\ Entries = 34
    BY TableIs DEF GettidEntry, GETTID_INT, SYSCALL_INT, Entries
  <1> DEFINE e(k) == EntryOffset(k)
  <1>3. ASSUME NEW k \in 0 .. Entries - 1
        PROVE  (e(k) = 56 <=> k = 8) /\ e(k) # 58
    <2>1. e(k) = IF k <= 20 THEN 7 * k ELSE 140 + 4 * (k - 20)
      BY TableIs
    <2>2. k \in 0 .. 33
      BY <1>2
    <2> HIDE DEF e
    <2>3. CASE k <= 20
      BY <2>1, <2>2, <2>3
    <2>4. CASE ~(k <= 20)
      BY <2>1, <2>2, <2>4
    <2> QED
      BY <2>3, <2>4
  <1>5. ASSUME pc[2] = 56
        PROVE  Instr = <<"int", GETTID_INT>>
    <2> DEFINE k == CHOOSE k \in 0 .. Entries - 1 : pc[2] = EntryOffset(k)
    <2>1. \E j \in 0 .. Entries - 1 : pc[2] = EntryOffset(j)
      <3>1. 8 \in 0 .. Entries - 1
        BY <1>2
      <3> QED
        BY <3>1, <1>3, <1>5
    <2>2. k \in 0 .. Entries - 1 /\ pc[2] = EntryOffset(k)
      BY <2>1
    <2>3. Instr = <<"int", SYSCALL_INT + k>>
      BY <1>1, <2>1 DEF syscall_int_table
    <2> HIDE DEF k
    <2>4. k = 8
      BY <2>2, <1>3, <1>5
    <2>5. SYSCALL_INT + k = GETTID_INT
      BY <2>4 DEF SYSCALL_INT, GETTID_INT
    <2> QED
      BY <2>3, <2>5
  <1>6. ASSUME pc[2] = 58
        PROVE  Instr = <<"jmp", 20>>
    <2>1. ~ \E j \in 0 .. Entries - 1 : pc[2] = EntryOffset(j)
      BY <1>3, <1>6
    <2> QED
      BY <1>1, <2>1 DEF syscall_int_table, syscall_wrapper_end
  <1> QED
    BY <1>2, <1>5, <1>6

LEMMA AnswerSame ==
  ASSUME NEW c, NEW d, NEW q, NEW a \in BOOLEAN, NEW b \in BOOLEAN, Answer(c, q, a),
         d.pc = c.pc, d.regs = c.regs, a <=> b
  PROVE  Answer(d, q, b)
  BY DEF Answer

LEMMA FaultIs ==
  ASSUME IInv, FaultComes
  PROVE  \E v : v \in 0 .. 19 /\ v # GETTID_INT /\ Comes(v, pc)
  <1>1. \A v \in 0 .. 19 : v # GETTID_INT
    BY DEF GETTID_INT
  <1>2. GeneralProtection \in 0 .. 19
    BY DEF GeneralProtection
  <1> QED
    BY <1>1, <1>2 DEF FaultComes

LEMMA AnswerOwn ==
  ASSUME IInv, ~down, Own, Answer(Now, call, FALSE),
         Exec \/ begin \/ stub_returns \/ \E s \in Stubs : call_stub(s)
  PROVE  Answer(Now', call', FALSE)
  <1>1. Now.pc = pc /\ Now.regs = regs /\ Now'.pc = pc' /\ Now'.regs = regs'
    BY DEF Now
  <1>2. trail = << >> /\ trail' = trail
    BY DEF Own
  <1>3. NoCall.num # GETTID_INT
    BY DEF NoCall, GETTID_INT
  <1>4. CASE Exec
    <2>1. call' = call
      BY <1>4, ExecCall
    <2> SUFFICES ASSUME call.num = GETTID_INT
                 PROVE  Answer(Now', call', FALSE)
      BY <2>1 DEF Answer
    <2>2. CASE pc[1] = "do_task_switch"
      BY <2>2, <1>2, <1>3, <1>4, BootHas
    <2>3. CASE pc[1] = "syscall_wrapper"
      <3>1. pc[2] \in 1 .. 25
        BY <2>3, <1>2, <1>4, WrapperHas
      <3>2. CASE pc[2] \in 1 .. 18
        <4>1. pc'[1] = "syscall_wrapper" /\ pc'[2] \in 1 .. 19
          BY <3>2, <2>3, <1>2, <1>4, WrapperForward
        <4>2. pc'[1] # "table" /\ pc'[1] # "stub" /\ ~(pc'[2] >= 20)
          BY <4>1
        <4> QED
          BY <4>2, <1>1 DEF Answer
      <3>3. CASE pc[2] = 19
        <4>1. pc' = <<"table", GettidEntry>>
          BY <3>3, <2>3, <1>2, <1>4, WrapperForward DEF GettidEntry
        <4> QED
          BY <4>1, <1>1 DEF Answer
      <3>4. CASE pc[2] \in 20 .. 25
        <4>1. regs'.eax = regs.eax /\ pc'[1] \in {"syscall_wrapper", "stub"}
          BY <3>4, <2>3, <1>2, <1>4, WrapperForward
        <4>2. regs.eax = sys_gettid
          BY <3>4, <2>3, <1>1 DEF Answer
        <4> QED
          BY <4>1, <4>2, <1>1 DEF Answer
      <3>5. pc[2] \in 1 .. 18 \/ pc[2] = 19 \/ pc[2] \in 20 .. 25
        BY <3>1
      <3> QED
        BY <3>2, <3>3, <3>4, <3>5
    <2>4. CASE pc[1] = "table"
      <3>1. CASE pc[2] = GettidEntry
        <4>1. Instr = <<"int", GETTID_INT>> /\ GETTID_INT \in 64 .. 97
          BY <3>1, <2>4, <1>2, <1>4, TableIn DEF GETTID_INT
        <4>2. trail' = Append(trail, Entered(GETTID_INT, Eip))
          BY <4>1, <2>4, <1>2, <1>4, TableTraps
        <4>3. trail \in Seq(Records) /\ Len(trail) = 0
          BY <1>2, EmptySeq DEF IInv, TypeInv
        <4>4. Len(trail') = 1
          BY <4>2, <4>3
        <4> QED
          BY <4>3, <4>4, <1>2
      <3>2. CASE pc[2] = GettidEntry + 2
        <4>1. Instr = <<"jmp", 20>>
          BY <3>2, <2>4, <1>2, <1>4, TableIn
        <4>2. jump
          BY <4>1, Dispatch, <1>4
        <4>3. pc' = <<"syscall_wrapper", 20>> /\ regs' = regs
          BY <4>1, <4>2 DEF jump
        <4>4. regs.eax = sys_gettid
          BY <3>2, <2>4, <1>1, TableIs DEF Answer, GettidEntry, GETTID_INT, SYSCALL_INT
        <4> QED
          BY <4>3, <4>4, <1>1 DEF Answer
      <3> QED
        BY <3>1, <3>2, <2>4, <1>1 DEF Answer
    <2> QED
      BY <2>2, <2>3, <2>4, <1>2, <1>4, WhereItRuns
  <1>5. CASE begin
    <2>1. pc = <<"app", 0>> /\ call' = call
      BY <1>5 DEF begin
    <2>2. call' = NoCall
      BY <2>1, ProgramHas
    <2> QED
      BY <2>2, <1>3 DEF Answer
  <1>6. CASE stub_returns
    <2>1. call' = NoCall
      BY <1>6 DEF stub_returns
    <2> QED
      BY <2>1, <1>3 DEF Answer
  <1>7. CASE \E s \in Stubs : call_stub(s)
    <2>1. pc' = <<"syscall_wrapper", 1>>
      BY <1>7 DEF call_stub
    <2> QED
      BY <2>1, <1>1 DEF Answer
  <1> QED
    BY <1>4, <1>5, <1>6, <1>7

LEMMA AnswerStep ==
  ASSUME IInv, Next, Answer(Base, call, Asked(trail))
  PROVE  Answer(Base', call', Asked(trail'))
  <1>1. ~down
    BY Steps
  <1>2. Asked(trail) \in BOOLEAN /\ Asked(trail') \in BOOLEAN
    BY DEF Asked
  <1>3. CASE Quiet
    <2>1. call' = call /\ trail' = trail /\ Base' = Base
      BY <1>3, BaseQuietly DEF Quiet
    <2> QED
      BY <2>1
  <1>4. ASSUME NEW v, Comes(v, pc), v # GETTID_INT
        PROVE  Answer(Base', call', Asked(trail'))
    <2>1. /\ call' = call /\ Base'.regs = Base.regs /\ Base'.pc = Base.pc
          /\ Asked(trail') <=> Asked(trail)
      BY <1>1, <1>4, ComesHere
    <2>2. Answer(Base', call, Asked(trail'))
      BY <2>1, <1>2, AnswerSame
    <2> QED
      BY <2>1, <2>2
  <1>5. CASE InterruptComes
    <2>1. Timer # GETTID_INT /\ Keyboard # GETTID_INT
      BY DEF Timer, Keyboard, GETTID_INT
    <2> QED
      BY <2>1, <1>4, <1>5 DEF InterruptComes
  <1>6. CASE FaultComes
    BY <1>4, <1>6, FaultIs
  <1>7. CASE GettidComes /\ Exec
    <2>1. /\ call' = call /\ Base'.pc = Eip /\ Asked(trail')
      BY <1>1, <1>7, ComesBase DEF GettidComes
    <2>2. Eip = <<"table", pc[2] + 2>> /\ Base.pc = pc /\ pc[1] = "table"
      BY <1>7, BaseIs DEF GettidComes, Eip, Now
    <2>3. call.num = GETTID_INT => pc[2] = GettidEntry
      <3>1. Instr = <<"int", GETTID_INT>> /\ trail = << >>
        BY <1>7 DEF GettidComes
      <3>2. Instr # <<"jmp", 20>>
        BY <3>1
      <3>4. pc[2] # GettidEntry + 2
        BY <1>7, <2>2, <3>1, <3>2, TableIn
      <3> QED
        BY <2>2, <3>4 DEF Answer
    <2> QED
      BY <2>1, <2>2, <2>3 DEF Answer
  <1>8. CASE Goes
    <2> DEFINE c == trail[Len(trail)]
    <2>1. /\ trail # << >> /\ trail' = Front(trail) /\ call' = call /\ pc' = c.pc
          /\ \A r \in Survive(c.vector) : regs'[r] = c.regs[r]
          /\ c.vector = GETTID_INT => regs'.eax = sys_gettid
      BY <1>8 DEF Goes, Returned
    <2>2. CASE Len(trail) # 1
      <3>1. Base' = Base /\ (Asked(trail') <=> Asked(trail))
        BY <2>1, <2>2, BaseReturn
      <3>2. Answer(Base', call, Asked(trail'))
        BY <3>1, <1>2, AnswerSame
      <3> QED
        BY <2>1, <3>2
    <2>3. CASE Len(trail) = 1
      <3>1. c = trail[1] /\ Base = Frozen(c)
        BY <2>1, <2>3, BaseIs
      <3>2. Base' = Now' /\ ~Asked(trail')
        BY <2>1, <2>3, BaseReturn
      <3>3. Base.pc = c.pc /\ Base.regs = c.regs /\ Base'.pc = c.pc /\ Base'.regs = regs'
        BY <2>1, <3>1, <3>2 DEF Frozen, Now
      <3>4. c \in Records /\ Raised(c)
        BY <1>1, <2>1, TopHandler
      <3>5. Asked(trail) <=> c.vector = GETTID_INT
        BY <2>1, <3>1 DEF Asked
      <3>9. c.vector = GETTID_INT => c.pc[1] = "table"
        <4>1. c.vector = GETTID_INT => Code1(c) = "gettid_wrapper"
          BY IdtIs DEF Code1
        <4> QED
          BY <4>1, <1>1, <2>1, InGettid
      <3> HIDE DEF c
      <3>6. c.vector # GETTID_INT => regs'.eax = c.regs.eax
        <4>1. c.vector # GETTID_INT => "eax" \in Survive(c.vector)
          BY <3>4, Code1Is, Registered
        <4> QED
          BY <4>1, <2>1
      <3>7. CASE c.vector = GETTID_INT
        <4>1. regs'.eax = sys_gettid
          BY <3>7, <2>1
        <4>2. c.pc[1] = "table"
          BY <3>7, <3>9
        <4>3. call.num = GETTID_INT => c.pc[2] = GettidEntry + 2
          BY <3>3, <3>5, <3>7, <4>2 DEF Answer
        <4> QED
          BY <2>1, <3>2, <3>3, <4>1, <4>2, <4>3 DEF Answer
      <3>8. CASE c.vector # GETTID_INT
        <4>1. regs'.eax = c.regs.eax /\ ~Asked(trail)
          BY <3>5, <3>6, <3>8
        <4> QED
          BY <2>1, <3>2, <3>3, <4>1 DEF Answer
      <3> QED
        BY <3>7, <3>8
    <2> QED
      BY <2>2, <2>3
  <1>9. CASE Own /\ (Exec \/ begin \/ stub_returns \/ \E s \in Stubs : call_stub(s))
    <2>1. trail = << >> /\ trail' = << >> /\ ~Asked(trail) /\ ~Asked(trail')
      BY <1>9 DEF Own, Asked
    <2>2. Base = Now /\ Base' = Now'
      <3>1. trail' \in Seq(Records)
        BY <2>1, EmptySeq
      <3> QED
        BY <2>1, <3>1, BaseIs, ContextIs DEF Base
    <2>3. Answer(Now, call, FALSE)
      BY <2>1, <2>2 DEF Answer
    <2>4. Answer(Now', call', FALSE)
      BY <2>3, <1>1, <1>9, AnswerOwn
    <2> QED
      BY <2>1, <2>2, <2>4 DEF Answer
  <1> QED
    BY <1>3, <1>5, <1>6, <1>7, <1>8, <1>9, Steps

-----------------------------------------------------------------------------
(* Where the program is served, nothing faults.                            *)
LEMMA NoFault ==
  ASSUME IInv, AInv, ~down, Served(Base, call)
  PROVE  ~FaultComes
  <1>1. Calm(trail) /\ Answer(Base, call, Asked(trail))
    BY DEF AInv
  <1>2. ASSUME trail = << >>, pc[1] = "table", Exec, NEW v \in 64 .. 97, v # GETTID_INT,
               Instr = <<"int", v>>
        PROVE  FALSE
    <2>1. Base = Now /\ Now.pc = pc
      BY <1>2, BaseIs DEF Now
    <2>2. call.num # 0
      BY <1>2, TableHas
    <2>3. call.num = GETTID_INT
      BY <2>2 DEF Served
    <2>4. pc[2] = GettidEntry \/ pc[2] = GettidEntry + 2
      BY <2>1, <2>3, <1>1, <1>2 DEF Answer
    <2>5. Instr = <<"int", GETTID_INT>> \/ Instr = <<"jmp", 20>>
      BY <2>4, <1>2, TableIn
    <2> QED
      BY <2>5, <1>2
  <1>3. ASSUME trail # << >>, trail[Len(trail)].vector \in ErrorCodes
        PROVE  FALSE
    <2>1. Len(trail) \in 1 .. Len(trail)
      BY <1>3, BaseIs
    <2>2. trail[Len(trail)].vector \in {Timer, Keyboard, GETTID_INT}
      BY <2>1, <1>1 DEF Calm
    <2> QED
      BY <2>2, <1>3 DEF Timer, Keyboard, GETTID_INT, ErrorCodes
  <1>4. ASSUME trail = << >>, pc = <<"app", 1>>
        PROVE  FALSE
    <2>1. Base.pc = pc
      BY <1>4, BaseIs DEF Now
    <2> QED
      BY <2>1, <1>4 DEF Served
  <1> QED
    BY <1>2, <1>3, <1>4 DEF FaultComes

LEMMA CalmEnter ==
  ASSUME NEW t \in Seq(Records), NEW c \in Records, Calm(t),
         c.vector \in {Timer, Keyboard} \/ (t = << >> /\ c.vector = GETTID_INT)
  PROVE  Calm(Append(t, c))
  <1> DEFINE u == Append(t, c)
             n == Len(t)
  <1>1. /\ n \in Nat /\ Len(u) = n + 1 /\ u[n + 1] = c
        /\ \A k \in 1 .. n : u[k] = t[k]
        /\ t = << >> => n = 0
    BY FirstOf
  <1> HIDE DEF u, n
  <1>2. \A k \in 1 .. n : \/ t[k].vector \in {Timer, Keyboard}
                          \/ k = 1 /\ t[k].vector = GETTID_INT
    BY DEF Calm, n
  <1>3. ASSUME NEW k \in 1 .. n + 1
        PROVE  u[k].vector \in {Timer, Keyboard} \/ (k = 1 /\ u[k].vector = GETTID_INT)
    <2>1. CASE k = n + 1
      BY <2>1, <1>1
    <2>2. CASE k \in 1 .. n
      BY <2>2, <1>1, <1>2
    <2> QED
      BY <2>1, <2>2, <1>1
  <1> QED
    BY <1>1, <1>3 DEF Calm, u

LEMMA CalmReturn ==
  ASSUME NEW t \in Seq(Records), t # << >>, Calm(t)
  PROVE  Calm(Front(t))
  <1> DEFINE u == Front(t)
             n == Len(t)
  <1>1. n \in Nat /\ n >= 1 /\ Len(u) = n - 1 /\ \A k \in 1 .. n - 1 : u[k] = t[k]
    BY FrontIs
  <1> HIDE DEF u, n
  <1>2. \A k \in 1 .. n : \/ t[k].vector \in {Timer, Keyboard}
                          \/ k = 1 /\ t[k].vector = GETTID_INT
    BY DEF Calm, n
  <1>3. \A k \in 1 .. n - 1 : \/ u[k].vector \in {Timer, Keyboard}
                              \/ k = 1 /\ u[k].vector = GETTID_INT
    BY <1>1, <1>2
  <1> QED
    BY <1>1, <1>3 DEF Calm, u

LEMMA CalmNone == Calm(<< >>)
  <1>1. Len(<< >>) = 0
    BY EmptySeq
  <1> QED
    BY <1>1 DEF Calm

LEMMA CalmStep ==
  ASSUME IInv, AInv, Next, Served(Base', call')
  PROVE  Calm(trail')
  <1>1. ~down
    BY Steps
  <1>2. Served(Base, call) => Calm(trail)
    BY <1>1 DEF AInv
  <1>3. trail \in Seq(Records)
    BY BaseIs
  <1>4. CASE Quiet
    BY <1>2, <1>4, BaseQuietly DEF Quiet
  <1>5. CASE InterruptComes
    <2>1. PICK i \in {Timer, Keyboard} : Comes(i, pc)
      BY <1>5 DEF InterruptComes
    <2>2. i # GETTID_INT
      BY DEF Timer, Keyboard, GETTID_INT
    <2>3. call' = call /\ Base'.pc = Base.pc
      BY <2>1, <2>2, <1>1, ComesHere
    <2>4. Calm(trail)
      BY <2>3, <1>2 DEF Served
    <2>5. Entered(i, pc) \in Records /\ Entered(i, pc).vector = i
      BY <2>1, <1>1, ComesBase
    <2>6. Calm(Append(trail, Entered(i, pc)))
      BY <2>4, <2>5, <1>3, CalmEnter
    <2> QED
      BY <2>1, <2>6 DEF Comes
  <1>6. CASE GettidComes
    <2>1. trail = << >> /\ Comes(GETTID_INT, Eip)
      BY <1>6 DEF GettidComes
    <2> DEFINE c == Entered(GETTID_INT, Eip)
    <2>2. c \in Records /\ c.vector = GETTID_INT
      BY <2>1, <1>1, ComesBase
    <2> HIDE DEF c
    <2>3. Calm(Append(trail, c))
      BY <2>1, <2>2, <1>3, CalmNone, CalmEnter
    <2> QED
      BY <2>1, <2>3 DEF Comes, c
  <1>7. CASE FaultComes
    <2>1. PICK v : v # GETTID_INT /\ Comes(v, pc)
      BY <1>7, FaultIs
    <2>2. call' = call /\ Base'.pc = Base.pc
      BY <2>1, <1>1, ComesHere
    <2>3. Served(Base, call)
      BY <2>2 DEF Served
    <2> QED
      BY <2>3, <1>1, <1>7, NoFault
  <1>8. CASE Goes
    <2>1. trail # << >> /\ trail' = Front(trail) /\ call' = call
      BY <1>8 DEF Goes, Returned
    <2>2. CASE Len(trail) # 1
      <3>1. Base' = Base
        BY <2>1, <2>2, BaseReturn
      <3>2. Calm(trail)
        BY <2>1, <3>1, <1>2
      <3> QED
        BY <2>1, <3>2, <1>3, CalmReturn
    <2>3. CASE Len(trail) = 1
      BY <2>1, <2>3, BaseReturn, CalmNone
    <2> QED
      BY <2>2, <2>3
  <1>9. CASE Own
    BY <1>9, CalmNone DEF Own
  <1> QED
    BY <1>4, <1>5, <1>6, <1>7, <1>8, <1>9, Steps

LEMMA CountStep ==
  ASSUME IInv, Next, Cardinality(Interrupts) <= MaxDepth
  PROVE  Cardinality(Interrupts') <= MaxDepth
  <1>1. ~down /\ trail \in Seq(Records)
    BY Steps, BaseIs
  <1>2. Interrupts = Timed(trail) /\ Interrupts' = Timed(trail')
    BY DEF Interrupts, Timed
  <1>3. Cardinality(Timed(trail)) \in Nat /\ MaxDepth \in Nat
    BY <1>1, TimedIs, KernelEntryAssumption
  <1>4. ASSUME NEW v, NEW eip, Comes(v, eip)
        PROVE  Cardinality(Timed(trail'))
                 = Cardinality(Timed(trail)) + IF v \in {Timer, Keyboard} THEN 1 ELSE 0
    <2> DEFINE c == Entered(v, eip)
    <2>1. c \in Records /\ c.vector = v
      BY <1>1, <1>4, ComesBase
    <2>2. trail' = Append(trail, c)
      BY <1>4 DEF Comes
    <2> HIDE DEF c
    <2> QED
      BY <2>1, <2>2, <1>1, TimedEnter
  <1>5. CASE trail' = trail
    BY <1>2, <1>5
  <1>6. CASE InterruptComes
    <2>1. PICK i \in {Timer, Keyboard} : Comes(i, pc) /\ Cardinality(Interrupts) < MaxDepth
      BY <1>6 DEF InterruptComes
    <2>2. Cardinality(Timed(trail')) = Cardinality(Timed(trail)) + 1
      BY <2>1, <1>4
    <2> QED
      BY <2>1, <2>2, <1>2, <1>3
  <1>7. ASSUME NEW v, NEW eip, Comes(v, eip), v \notin {Timer, Keyboard}
        PROVE  Cardinality(Interrupts') <= MaxDepth
    <2>1. Cardinality(Timed(trail')) = Cardinality(Timed(trail)) + 0
      BY <1>4, <1>7
    <2> QED
      BY <2>1, <1>2, <1>3
  <1>8. CASE GettidComes
    <2>1. GETTID_INT \notin {Timer, Keyboard}
      BY DEF Timer, Keyboard, GETTID_INT
    <2> QED
      BY <2>1, <1>7, <1>8 DEF GettidComes
  <1>9. CASE FaultComes
    <2>1. PICK v \in 0 .. 19 : Comes(v, pc)
      BY <1>9, FaultIs
    <2>2. v \notin {Timer, Keyboard}
      BY DEF Timer, Keyboard
    <2> QED
      BY <2>1, <2>2, <1>7
  <1>10. CASE Goes
    <2>1. trail # << >> /\ trail' = Front(trail)
      BY <1>10 DEF Goes, Returned
    <2>2. trail' \in Seq(Records)
      BY <2>1, <1>1, FrontIs
    <2>3. Cardinality(Timed(trail')) <= Cardinality(Timed(trail))
      BY <2>1, <1>1, TimedReturn
    <2>4. Cardinality(Timed(trail')) \in Nat
      BY <2>2, TimedIs
    <2> QED
      BY <2>3, <2>4, <1>2, <1>3
  <1> QED
    BY <1>5, <1>6, <1>8, <1>9, <1>10, Steps DEF Quiet, Own

LEMMA AnswersStep ==
  ASSUME IInv, AInv, Next
  PROVE  AInv'
  <1>1. ~down
    BY Steps
  <1>2. Cardinality(Interrupts)' <= MaxDepth
    BY CountStep DEF AInv
  <1>3. Answer(Base', call', Asked(trail'))
    BY <1>1, AnswerStep DEF AInv
  <1>4. Served(Base', call') => Calm(trail')
    BY CalmStep
  <1> QED
    BY <1>2, <1>3, <1>4 DEF AInv

LEMMA AnswersInit ==
  ASSUME Init
  PROVE  AInv
  <1>1. trail = << >> /\ call = NoCall /\ IInv
    BY InitIs DEF Init
  <1>2. Cardinality(Interrupts) <= MaxDepth
    <2>1. Interrupts = {}
      BY <1>1 DEF Interrupts
    <2> QED
      BY <2>1, FS_EmptySet, KernelEntryAssumption
  <1>3. Answer(Base, call, Asked(trail))
    BY <1>1 DEF Answer, NoCall, GETTID_INT
  <1> QED
    BY <1>1, <1>2, <1>3, CalmNone DEF AInv

-----------------------------------------------------------------------------
(* How high the kernel stack grows where the program is served: a handler  *)
(* needs its frame of three words and at most eight more, the system call  *)
(* a frame of five and at most four more.                                  *)
Room(c) == IF c.vector = GETTID_INT THEN 4 ELSE 8
Extra(t) == IF Asked(t) THEN -2 ELSE 2
Fits(t, n) == Len(Frame(t[n])) + Room(t[n]) <= 11 * n + Extra(t)

LEMMA DepthRoom ==
  ASSUME NEW c \in Records, Raised(c), c.vector \in {Timer, Keyboard, GETTID_INT}, NEW i \in Nat
  PROVE  /\ Depth(Code1(c), i) <= Room(c) /\ Depth(Code1(c), i) \in Nat /\ Room(c) \in Nat
         /\ c.vector \notin ErrorCodes
  <1>1. \/ c.vector = GETTID_INT /\ Code1(c) = "gettid_wrapper"
        \/ c.vector # GETTID_INT /\ Code1(c) \in {"timer_wrapper", "keyboard_wrapper"}
    <2>1. \A v \in 0 .. 19 : v \notin {Timer, Keyboard, GETTID_INT}
      BY DEF Timer, Keyboard, GETTID_INT
    <2>2. Timer # GETTID_INT /\ Keyboard # GETTID_INT
      BY DEF Timer, Keyboard, GETTID_INT
    <2> QED
      BY <2>1, <2>2, Code1Is
  <1>2. Depth("gettid_wrapper", i) <= 4
    BY DEF Depth
  <1>3. Depth("timer_wrapper", i) <= 8 /\ Depth("keyboard_wrapper", i) <= 8
    BY DEF Depth
  <1>4. c.vector \notin ErrorCodes
    BY DEF Timer, Keyboard, GETTID_INT, ErrorCodes
  <1> QED
    BY <1>1, <1>2, <1>3, <1>4, OrderDepth DEF Room

LEMMA Above ==
  ASSUME IInv, ~down, NEW n \in Nat, n >= 1, n < Len(trail)
  PROVE  /\ trail[n] \in Records /\ trail[n + 1] \in Records /\ Raised(trail[n])
         /\ Len(trail[n + 1].below)
              = Len(Frame(trail[n])) + Depth(Code1(trail[n]), trail[n + 1].pc[2])
         /\ trail[n + 1].pc[2] \in Nat /\ trail[n + 1].on # "user"
         /\ Len(Frame(trail[n])) \in Nat
  <1> DEFINE c == trail[n]
             d == trail[n + 1]
  <1>1. TypeInv /\ Shape(trail, Now, call, stack) /\ trail \in Seq(Records)
    BY DEF IInv, TypeInv
  <1>2. n \in 1 .. Len(trail) /\ n + 1 \in 1 .. Len(trail) /\ n # Len(trail)
    BY BaseIs
  <1>3. c \in Records /\ d \in Records
    BY <1>1, <1>2, Sequences
  <1>4. Context(trail, Now, n) = Frozen(d)
    BY <1>2 DEF Context
  <1>5. Handler(c, Frozen(d)) /\ Frozen(d).on # "user"
    BY <1>1, <1>2, <1>4 DEF Shape
  <1> HIDE DEF c, d
  <1>6. /\ Raised(c) /\ d.pc[2] \in 1 .. Length(Code1(c))
        /\ Active(Code1(c), d.pc[2], Frame(c), Kept(c), d.below, d.regs)
    BY <1>5 DEF Handler, Frozen, Code1
  <1>7. Len(d.below) = Len(Frame(c)) + Depth(Code1(c), d.pc[2])
    BY <1>6 DEF Active
  <1>8. d.on # "user"
    BY <1>5 DEF Frozen
  <1>9. Len(Frame(c)) \in Nat
    BY <1>3, FrameIs, Sequences
  <1>10. d.pc[2] \in Nat
    <2>1. Length(Code1(c)) \in Nat
      BY <1>3, <1>6, Code1Is, Lengths
    <2> QED
      BY <2>1, <1>6
  <1> QED
    BY <1>3, <1>6, <1>7, <1>8, <1>9, <1>10 DEF c, d

LEMMA Heights ==
  ASSUME IInv, ~down, Calm(trail), Base.on = "user"
  PROVE  \A n \in 1 .. Len(trail) : Fits(trail, n)
  <1> DEFINE S == {n \in Nat : n + 1 \in 1 .. Len(trail) => Fits(trail, n + 1)}
  <1>1. trail \in Seq(Records) /\ Len(trail) \in Nat
    BY BaseIs
  <1>2. \A k \in 1 .. Len(trail) : trail[k] \in Records
    BY <1>1, Sequences
  <1>3. \A k \in 1 .. Len(trail) : \/ trail[k].vector \in {Timer, Keyboard}
                                   \/ k = 1 /\ trail[k].vector = GETTID_INT
    BY DEF Calm
  <1>4. Timer # GETTID_INT /\ Keyboard # GETTID_INT
        /\ {Timer, Keyboard, GETTID_INT} \cap ErrorCodes = {}
    BY DEF Timer, Keyboard, GETTID_INT, ErrorCodes
  <1>5. 0 \in S
    <2> SUFFICES ASSUME 1 \in 1 .. Len(trail)
                 PROVE  Fits(trail, 1)
      OBVIOUS
    <2> DEFINE c == trail[1]
    <2>1. c \in Records /\ c.vector \notin ErrorCodes
      BY <1>2, <1>3, <1>4
    <2>2. trail # << >>
      BY <1>1, EmptySeq
    <2>3. c.on = "user" /\ (Asked(trail) <=> c.vector = GETTID_INT)
      BY <2>2, BaseIs DEF Frozen, Asked
    <2> HIDE DEF c
    <2>4. Len(Frame(c)) = 5
      <3>1. Len(Frame(c)) = 2 + (IF c.vector \in ErrorCodes THEN 4 ELSE 3)
        BY <2>1, <2>3, FrameIs
      <3> QED
        BY <2>1, <3>1
    <2>5. Len(Frame(c)) + Room(c) <= 11 * 1 + Extra(trail)
      BY <2>3, <2>4 DEF Room, Extra
    <2> QED
      BY <2>5 DEF Fits, c
  <1>6. ASSUME NEW n \in Nat, n \in S
        PROVE  n + 1 \in S
    <2> SUFFICES ASSUME n + 1 + 1 \in 1 .. Len(trail)
                 PROVE  Fits(trail, n + 1 + 1)
      OBVIOUS
    <2> DEFINE m == n + 1
               c == trail[m]
               d == trail[m + 1]
    <2>1. m \in Nat /\ m >= 1 /\ m < Len(trail) /\ m \in 1 .. Len(trail)
          /\ m + 1 \in 1 .. Len(trail) /\ m + 1 # 1
      BY <1>1
    <2>2. Fits(trail, m)
      BY <1>6, <2>1
    <2> HIDE DEF m
    <2>3. /\ c \in Records /\ d \in Records /\ Raised(c) /\ d.on # "user"
          /\ Len(d.below) = Len(Frame(c)) + Depth(Code1(c), d.pc[2])
          /\ d.pc[2] \in Nat /\ Len(Frame(c)) \in Nat
      BY <2>1, Above
    <2>4. c.vector \in {Timer, Keyboard, GETTID_INT} /\ d.vector \in {Timer, Keyboard}
      BY <2>1, <1>3
    <2> HIDE DEF c, d
    <2>5. Depth(Code1(c), d.pc[2]) <= Room(c) /\ Depth(Code1(c), d.pc[2]) \in Nat
          /\ Room(c) \in Nat
      BY <2>3, <2>4, DepthRoom
    <2>6. Len(Frame(d)) = Len(d.below) + 3 /\ Room(d) = 8
      <3>1. d.vector \notin ErrorCodes
        BY <2>4, <1>4
      <3>2. Room(d) = 8
        BY <2>4, <1>4 DEF Room
      <3> QED
        BY <3>1, <3>2, <2>3, FrameIs
    <2>7. Len(Frame(c)) + Room(c) <= 11 * m + Extra(trail)
      BY <2>2 DEF Fits, c
    <2>8. Extra(trail) \in Int
      BY DEF Extra
    <2>9. Len(Frame(d)) + Room(d) <= 11 * (m + 1) + Extra(trail)
      <3> DEFINE x == Len(Frame(c))
                 y == Depth(Code1(c), d.pc[2])
                 z == Room(c)
                 e == Extra(trail)
      <3>1. Len(Frame(d)) + Room(d) = x + y + 3 + 8
        BY <2>3, <2>5, <2>6
      <3>2. x \in Nat /\ y \in Nat /\ z \in Nat /\ e \in Int /\ y <= z /\ x + z <= 11 * m + e
        BY <2>3, <2>5, <2>7, <2>8
      <3> HIDE DEF x, y, z, e
      <3>3. x + y + 3 + 8 <= 11 * (m + 1) + e
        BY <2>1, <3>2
      <3> QED
        BY <3>1, <3>3 DEF e
    <2>10. Fits(trail, m + 1)
      BY <2>9 DEF Fits, d
    <2> QED
      BY <2>10 DEF m
  <1> HIDE DEF S
  <1>7. \A n \in Nat : n \in S
    BY <1>5, <1>6, Induction
  <1>8. ASSUME NEW n \in 1 .. Len(trail)
        PROVE  Fits(trail, n)
    <2>1. n - 1 \in Nat /\ (n - 1) + 1 = n
      BY <1>1
    <2>2. n - 1 \in S
      BY <2>1, <1>7
    <2> QED
      BY <2>1, <2>2 DEF S
  <1> QED
    BY <1>8

(* The instructions that may find the kernel stack full.                   *)
LEMMA StoreDown ==
  ASSUME ~down, down', NEW s, NEW w, Store(s, w)
  PROVE  s = "kernel" /\ Len(w) > KernelWords
  BY Zenon DEF Store

LEMMA QuietDown ==
  ASSUME IInv, Exec, trail' = trail, down'
  PROVE  on = "kernel" /\ (push \/ pusha)
  <1>1. ~down /\ TypeInv
    BY Dispatch DEF IInv
  <1>2. ASSUME NEW v, NEW eip, Enter(v, eip)
        PROVE  FALSE
    <2>1. PICK c : trail' = Append(trail, c)
      BY <1>2 DEF Enter
    <2>2. trail \in Seq(Records)
      BY <1>1 DEF TypeInv
    <2>3. Len(trail') = Len(trail) + 1 /\ Len(trail) \in Nat
      BY <2>1, <2>2, Sequences
    <2> QED
      BY <2>3
  <1>3. CASE push \/ pusha
    <2>1. \E w : Store(on, w)
      BY <1>3, Zenon DEF push, pusha, Push
    <2> QED
      BY <2>1, <1>1, <1>3, StoreDown
  <1>4. CASE int
    BY <1>2, <1>4, Zenon DEF int
  <1>5. CASE iret
    BY <1>1, <1>2, <1>5, Zenon DEF iret, Pop
  <1>6. CASE load \/ restore_esp \/ pop \/ popa
    BY <1>1, <1>6, Zenon DEF load, restore_esp, pop, popa, Pop
  <1>7. CASE jump \/ lookup \/ jump_register \/ ret \/ ccall
    BY <1>1, <1>7, Zenon DEF jump, lookup, jump_register, ret, ccall, Pop
  <1> QED
    BY <1>3, <1>4, <1>5, <1>6, <1>7 DEF Exec

LEMMA EnterDown ==
  ASSUME TypeInv, ~down, down', NEW v \in Vectors, NEW eip \in Places, Enter(v, eip)
  PROVE  on # "boot" /\ Len(Frame(Entered(v, eip))) > KernelWords
  <1> DEFINE c == Entered(v, eip)
             t == IF on = "user" THEN "kernel" ELSE on
  <1>1. /\ c \in Records /\ c.vector = v /\ c.pc = eip /\ c.on = on
        /\ c.below = stack[on]
    BY EnteredIs
  <1>2. Store(t, Frame(c))
    <2>1. Store(t, (IF on = "user" THEN << <<"ds", 3>>, <<on, Len(stack[on])>> >> ELSE stack[on])
             \o << <<"eflags", IF iff THEN 1 ELSE 0>>, <<"cs", IF on = "user" THEN 3 ELSE 0>>, eip>>
             \o (IF v \in ErrorCodes THEN << <<"error", v>> >> ELSE << >>))
      BY Zenon DEF Enter, User, Top, esp
    <2>2. Frame(c) =
            (IF on = "user" THEN << <<"ds", 3>>, <<"user", Len(stack[on])>> >> ELSE stack[on])
             \o << <<"eflags", IF iff THEN 1 ELSE 0>>, <<"cs", IF on = "user" THEN 3 ELSE 0>>, eip>>
             \o (IF v \in ErrorCodes THEN << <<"error", v>> >> ELSE << >>)
      BY <1>1 DEF Frame, Entered
    <2>3. CASE on = "user"
      BY <2>1, <2>2, <2>3
    <2>4. CASE on # "user"
      BY <2>1, <2>2, <2>4
    <2> QED
      BY <2>3, <2>4
  <1>3. t = "kernel" /\ Len(Frame(c)) > KernelWords
    BY <1>2, StoreDown
  <1> QED
    BY <1>3

-----------------------------------------------------------------------------
(* So the kernel stack has room for all of it.                             *)
Enough == KernelWords >= 11 * MaxDepth + 9

LEMMA PushRoom ==
  ASSUME IInv, Exec, trail # << >>, NEW c, c = trail[Len(trail)],
         c.vector \in {Timer, Keyboard, GETTID_INT}, down', push \/ pusha
  PROVE  Len(Frame(c)) + Room(c) > KernelWords
  <1>1. ~down
    BY Dispatch
  <1>2. /\ TypeInv /\ c \in Records /\ Raised(c) /\ Handler(c, Now)
        /\ pc[1] = Code1(c) /\ pc[2] \in 1 .. Length(Code1(c))
    BY <1>1, TopHandler
  <1>3. Len(stack[on]) = Len(Frame(c)) + Depth(Code1(c), pc[2]) /\ Len(Frame(c)) \in Nat
    BY <1>2, HandlerHas
  <1>4. pc[1] \in DOMAIN Code
    BY <1>2, Code1Is, CodeIs
  <1>5. Instr = Code[pc[1]][pc[2]] /\ (Instr[1] = "push" \/ Instr[1] = "pusha")
    BY <1>4, InstrIs, Tags
  <1>6. KernelWords \in Nat
    BY KernelEntryAssumption
  <1>7. Timer # GETTID_INT /\ Keyboard # GETTID_INT
        /\ \A v \in 0 .. 19 : v \notin {Timer, Keyboard, GETTID_INT}
    BY DEF Timer, Keyboard, GETTID_INT
  <1>8. CASE c.vector = GETTID_INT
    <2>1. Code1(c) = "gettid_wrapper" /\ Room(c) = 4
      BY <1>2, <1>7, <1>8, Code1Is DEF Room
    <2>2. pc[2] \in 1 .. 11 /\ Instr = gettid_wrapper[pc[2]]
      BY <2>1, <1>2, <1>5, Lengths, CodeIs
    <2>3. pc[2] \in {1, 3, 4, 5}
      <3>1. pc[2] \in {1, 3, 4, 5, 2, 6, 7, 8, 9, 10, 11}
        BY <2>2
      <3>2. /\ pc[2] = 2 => Instr[1] = "mov"
            /\ pc[2] = 6 => Instr[1] = "ccall"
            /\ pc[2] \in {7, 8, 9, 10} => Instr[1] = "pop"
            /\ pc[2] = 11 => Instr[1] = "iret"
        BY <2>2, GettidCode
      <3> QED
        BY <3>1, <3>2, <1>5
    <2>4. \E r \in Registers : Instr = <<"push", r>>
      BY <2>2, <2>3, GettidCode, Registered
    <2>5. Len(stack[on]) + 1 > KernelWords
      BY <2>4, <1>2, <1>4, PushStep
    <2>6. Depth("gettid_wrapper", pc[2]) \in 0 .. 3
      BY <2>3 DEF Depth
    <2> QED
      BY <2>1, <2>5, <2>6, <1>3, <1>6
  <1>9. CASE c.vector # GETTID_INT
    <2>1. Code1(c) \in {"timer_wrapper", "keyboard_wrapper"} /\ Room(c) = 8
      BY <1>2, <1>7, <1>9, Code1Is DEF Room
    <2>2. /\ pc[2] \in 1 .. 4
          /\ Instr = timer_wrapper[pc[2]] \/ Instr = keyboard_wrapper[pc[2]]
      BY <2>1, <1>2, <1>5, Lengths, CodeIs
    <2>3. pc[2] = 1
      <3>1. pc[2] \in {1, 2, 3, 4}
        BY <2>2
      <3>2. pc[2] \notin {2, 3, 4}
        BY <2>2, <1>5, TimerCode
      <3> QED
        BY <3>1, <3>2
    <2>4. Instr = <<"pusha">>
      BY <2>2, <2>3, TimerCode
    <2>5. Len(stack[on]) + 8 > KernelWords
      BY <2>4, <1>2, <1>4, PushaIs
    <2>6. Depth(Code1(c), pc[2]) = 0
      BY <2>1, <2>3 DEF Depth
    <2> QED
      BY <2>1, <2>5, <2>6, <1>3, <1>6
  <1> QED
    BY <1>8, <1>9

(* The topmost handler of those that serve the program fits, and leaves    *)
(* room for one interrupt more where there may be one.                     *)
LEMMA TopFits ==
  ASSUME Enough, IInv, AInv, ~down, Served(Base, call), trail # << >>, on = "kernel", NEW c,
         c = trail[Len(trail)]
  PROVE  /\ c \in Records /\ c.vector \in {Timer, Keyboard, GETTID_INT} /\ Raised(c)
         /\ Len(Frame(c)) \in Nat /\ Room(c) \in Nat
         /\ Len(Frame(c)) + Room(c) <= KernelWords
         /\ Cardinality(Interrupts) < MaxDepth => Len(Frame(c)) + Room(c) + 11 <= KernelWords
  <1> DEFINE n == Len(trail)
             m == Cardinality(Timed(trail))
             h == Len(Frame(c))
             e == Room(c)
  <1>1. Calm(trail) /\ Cardinality(Interrupts) <= MaxDepth
    BY DEF AInv
  <1>2. /\ TypeInv /\ n \in Nat /\ n >= 1 /\ c \in Records /\ Raised(c)
        /\ on = IF Context(trail, Now, 0).on = "boot" THEN "boot" ELSE "kernel"
    BY TopHandler
  <1>3. Base.on = "user"
    <2>1. Base.on # "boot"
      BY <1>2 DEF Base
    <2>2. BootAt(Base, call) \/ UserAt(Base, call)
      BY DEF IInv, Shape, Base
    <2> QED
      BY <2>1, <2>2 DEF BootAt, UserAt
  <1>4. n \in 1 .. n
    BY <1>2
  <1>5. Fits(trail, n)
    BY <1>1, <1>3, <1>4, Heights
  <1>6. h + e <= 11 * n + Extra(trail)
    BY <1>5 DEF Fits
  <1>7. c.vector \in {Timer, Keyboard, GETTID_INT}
    BY <1>1, <1>4 DEF Calm
  <1>8. h \in Nat /\ e \in Nat
    BY <1>2, FrameIs, Sequences DEF Room
  <1>9. trail \in Seq(Records)
    BY <1>2 DEF TypeInv
  <1>10. n <= m + (IF Asked(trail) THEN 1 ELSE 0) /\ m \in Nat /\ m <= MaxDepth
    BY <1>1, <1>9, TimedCalm, TimedIs, InterruptsAre
  <1>11. KernelWords \in Nat /\ MaxDepth \in Nat /\ KernelWords >= 11 * MaxDepth + 9
    BY KernelEntryAssumption DEF Enough
  <1>12. m = Cardinality(Interrupts)
    BY InterruptsAre
  <1> HIDE DEF n, m, h, e
  <1>13. CASE Asked(trail)
    <2>1. h + e <= 11 * n - 2 /\ n <= m + 1
      BY <1>2, <1>6, <1>8, <1>10, <1>13 DEF Extra
    <2>2. h + e <= 11 * m + 9
      BY <2>1, <1>2, <1>8, <1>10
    <2>3. m < MaxDepth => h + e + 11 <= 11 * MaxDepth + 9
      BY <2>2, <1>8, <1>10, <1>11
    <2>4. h + e <= 11 * MaxDepth + 9
      BY <2>2, <1>8, <1>10, <1>11
    <2> QED
      BY <2>3, <2>4, <1>2, <1>7, <1>8, <1>11, <1>12 DEF h, e
  <1>14. CASE ~Asked(trail)
    <2>1. h + e <= 11 * n + 2 /\ n <= m
      BY <1>2, <1>6, <1>8, <1>10, <1>14 DEF Extra
    <2>2. h + e <= 11 * m + 2
      BY <2>1, <1>2, <1>8, <1>10
    <2>3. m < MaxDepth => h + e + 11 <= 11 * MaxDepth + 9
      BY <2>2, <1>8, <1>10, <1>11
    <2>4. h + e <= 11 * MaxDepth + 9
      BY <2>2, <1>8, <1>10, <1>11
    <2> QED
      BY <2>3, <2>4, <1>2, <1>7, <1>8, <1>11, <1>12 DEF h, e
  <1> QED
    BY <1>13, <1>14

LEMMA EnterRoom ==
  ASSUME Enough, IInv, AInv, ~down, Served(Base, call), NEW v \in Vectors \ ErrorCodes,
         NEW eip \in Places, Enter(v, eip), trail # << >> => Cardinality(Interrupts) < MaxDepth
  PROVE  ~down'
  <1> SUFFICES ASSUME down'
               PROVE  FALSE
    OBVIOUS
  <1> DEFINE d == Entered(v, eip)
  <1>1. TypeInv
    BY DEF IInv
  <1>2. on # "boot" /\ Len(Frame(d)) > KernelWords
    BY <1>1, EnterDown
  <1>3. d \in Records /\ d.vector \notin ErrorCodes /\ d.on = on /\ d.below = stack[on]
    BY <1>1, EnteredIs
  <1> HIDE DEF d
  <1>4. on \in Stacks /\ stack[on] \in Seq(Words) /\ Len(stack[on]) \in Nat
    BY <1>1, Sequences DEF TypeInv
  <1>5. KernelWords \in Nat /\ KernelWords >= 9
    BY KernelEntryAssumption DEF Enough
  <1>6. CASE on = "user"
    <2>1. Len(Frame(d)) = 2 + 3
      BY <1>3, <1>6, FrameIs
    <2> QED
      BY <2>1, <1>2, <1>5
  <1>7. CASE on = "kernel" /\ trail = << >>
    BY <1>7, Bottom DEF BootAt, UserAt, Now
  <1>8. CASE on = "kernel" /\ trail # << >>
    <2> DEFINE c == trail[Len(trail)]
    <2>1. /\ c \in Records /\ Raised(c) /\ c.vector \in {Timer, Keyboard, GETTID_INT}
          /\ Len(Frame(c)) \in Nat /\ Room(c) \in Nat
          /\ Len(Frame(c)) + Room(c) + 11 <= KernelWords
      BY <1>8, TopFits
    <2>2. Handler(c, Now)
      BY <1>8, TopHandler
    <2> HIDE DEF c
    <2>3. Len(stack[on]) = Len(Frame(c)) + Depth(Code1(c), pc[2]) /\ pc[2] \in Nat
      BY <1>1, <2>1, <2>2, HandlerHas
    <2>4. Depth(Code1(c), pc[2]) <= Room(c) /\ Depth(Code1(c), pc[2]) \in Nat
      BY <2>1, <2>3, DepthRoom
    <2>5. Len(Frame(d)) = Len(stack[on]) + 3
      BY <1>3, <1>8, FrameIs
    <2> QED
      BY <2>1, <2>3, <2>4, <2>5, <1>2, <1>5
  <1> QED
    BY <1>2, <1>4, <1>6, <1>7, <1>8 DEF Stacks

(* Serving the program does not stop the machine.                          *)
LEMMA NotDown ==
  ASSUME Enough, IInv, AInv, Next, Served(Base, call)
  PROVE  ~down'
  <1>1. ~down
    BY Steps
  <1>2. ASSUME Exec, down', trail' = trail
        PROVE  FALSE
    <2>1. on = "kernel" /\ (push \/ pusha)
      BY <1>2, QuietDown
    <2>2. CASE trail = << >>
      BY <2>1, <2>2, <1>1, Bottom DEF BootAt, UserAt, Now
    <2>3. CASE trail # << >>
      <3> DEFINE c == trail[Len(trail)]
      <3>1. /\ c.vector \in {Timer, Keyboard, GETTID_INT}
            /\ Len(Frame(c)) \in Nat /\ Room(c) \in Nat
            /\ Len(Frame(c)) + Room(c) <= KernelWords
        BY <2>1, <2>3, <1>1, TopFits
      <3>2. Len(Frame(c)) + Room(c) > KernelWords
        BY <3>1, <2>1, <2>3, <1>2, PushRoom
      <3>3. KernelWords \in Nat
        BY KernelEntryAssumption
      <3> HIDE DEF c
      <3> QED
        BY <3>1, <3>2, <3>3
    <2> QED
      BY <2>2, <2>3
  <1>3. {Timer, Keyboard, GETTID_INT} \cap ErrorCodes = {}
    BY DEF Timer, Keyboard, GETTID_INT, ErrorCodes
  <1>4. CASE Quiet /\ Exec
    BY <1>2, <1>4 DEF Quiet
  <1>5. CASE InterruptComes
    <2>1. PICK i \in {Timer, Keyboard} :
            Comes(i, pc) /\ Enter(i, pc) /\ Cardinality(Interrupts) < MaxDepth
      BY <1>5 DEF InterruptComes
    <2>2. i \in Vectors \ ErrorCodes /\ pc \in Places
      BY <2>1, <1>3 DEF Comes
    <2> QED
      BY <2>1, <2>2, <1>1, EnterRoom
  <1>6. CASE GettidComes
    <2>1. trail = << >> /\ Comes(GETTID_INT, Eip) /\ Enter(GETTID_INT, Eip)
      BY <1>6 DEF GettidComes
    <2>2. GETTID_INT \in Vectors \ ErrorCodes /\ Eip \in Places
      BY <2>1, <1>3 DEF Comes
    <2> QED
      BY <2>1, <2>2, <1>1, EnterRoom
  <1>7. CASE FaultComes
    BY <1>1, <1>7, NoFault
  <1>8. CASE Goes
    BY <1>8 DEF Goes, Returned
  <1>9. CASE Own /\ Exec
    BY <1>2, <1>9 DEF Own
  <1>10. CASE Own /\ begin
    BY <1>1, <1>10, Zenon DEF begin
  <1>11. CASE Own /\ stub_returns
    BY <1>1, <1>11, Zenon DEF stub_returns, Pop
  <1>12. CASE Own /\ \E s \in Stubs : call_stub(s)
    <2>1. pc = <<"app", 1>> /\ trail = << >>
      BY <1>12 DEF call_stub, Own
    <2>2. Base.pc = pc
      BY <2>1, BaseIs DEF Now
    <2> QED
      BY <2>1, <2>2 DEF Served
  <1> QED
    BY <1>4, <1>5, <1>6, <1>7, <1>8, <1>9, <1>10, <1>11, <1>12, Steps

-----------------------------------------------------------------------------
(* What the program sees, from the bottom context o and the call q.        *)
PhaseOf(d, o, q) ==
  IF d THEN "down" ELSE IF o.pc = <<"app", 1>> THEN "app" ELSE IF q.num # 0 THEN "call" ELSE "boot"
KeptOf(p, o, q) ==
  IF p \in {"app", "call"} THEN [r \in CalleeSaved |-> IF p = "call" THEN q.saved[r] ELSE o.regs[r]]
                           ELSE << >>
ResultOf(p, o) == IF p = "app" THEN o.regs.eax ELSE Junk

SeenRegisters == IF Phase \in {"app", "call"} THEN Visible ELSE << >>
SeenResult == IF Phase = "app" THEN Outer.regs.eax ELSE Junk

LEMMA Seen ==
  ASSUME IInv
  PROVE  /\ Phase = PhaseOf(down, Base, call)
         /\ SeenRegisters = KeptOf(Phase, Base, call)
         /\ SeenResult = ResultOf(Phase, Base)
  <1>1. Base.pc = Outer.pc /\ Base.regs = Outer.regs
    BY BaseIs
  <1>2. Phase = PhaseOf(down, Base, call)
    BY <1>1 DEF Phase, PhaseOf
  <1>3. SeenRegisters = KeptOf(Phase, Base, call)
    BY <1>1 DEF SeenRegisters, KeptOf, Visible
  <1>4. SeenResult = ResultOf(Phase, Base)
    BY <1>1 DEF SeenResult, ResultOf
  <1> QED
    BY <1>2, <1>3, <1>4

LEMMA SeenNext ==
  ASSUME IInv'
  PROVE  /\ Phase' = PhaseOf(down', Base', call')
         /\ SeenRegisters' = KeptOf(Phase', Base', call')
         /\ SeenResult' = ResultOf(Phase', Base')
         /\ trail' = << >> => Base' = Now'
  <1>1. trail' \in Seq(Records)
    BY DEF IInv, TypeInv
  <1>2. /\ trail' = << >> => Base' = Now'
        /\ trail' # << >> => Base' = Frozen(trail'[1])
    BY <1>1, ContextIs DEF Base
  <1>3. Base'.pc = Outer'.pc /\ Base'.regs = Outer'.regs
    BY <1>2 DEF Outer, Now, Frozen
  <1>4. Phase' = PhaseOf(down', Base', call')
    BY <1>3 DEF Phase, PhaseOf
  <1>5. SeenRegisters' = KeptOf(Phase', Base', call')
    BY <1>3 DEF SeenRegisters, KeptOf, Visible
  <1>6. SeenResult' = ResultOf(Phase', Base')
    BY <1>3 DEF SeenResult, ResultOf
  <1> QED
    BY <1>2, <1>4, <1>5, <1>6

(* The steps of SystemCalls, over what is seen.                            *)
LEMMA PromiseIs ==
  /\ Promise!Start <=> Phase = "boot" /\ Phase' = "app" /\ call.num' = call.num
  /\ Promise!Call <=> /\ Phase = "app" /\ Phase' = "call"
                      /\ call.num' \in {s.num : s \in Stubs}
                      /\ SeenRegisters' = SeenRegisters
  /\ Promise!Return <=> /\ Phase = "call" /\ Phase' = "app"
                        /\ call.num = GETTID_INT => SeenResult' = sys_gettid
                        /\ SeenRegisters' = SeenRegisters
  /\ Promise!Exception <=> /\ Phase = "app" /\ Phase' = "app"
                           /\ \A r \in CalleeSaved \ {"ebp"} : SeenRegisters'[r] = SeenRegisters[r]
                           /\ call.num' = call.num /\ SeenResult' = SeenResult
  /\ Promise!Stop <=> /\ Phase = "app" \/ (Phase = "call" /\ call.num # GETTID_INT)
                      /\ Phase' = "down"
  /\ Promise!vars' = Promise!vars <=>
       /\ Phase' = Phase /\ call.num' = call.num
       /\ SeenRegisters' = SeenRegisters /\ SeenResult' = SeenResult
  <1>1. Promise!Start <=> Phase = "boot" /\ Phase' = "app" /\ call.num' = call.num
    BY DEF Promise!Start
  <1>2. Promise!Call <=> /\ Phase = "app" /\ Phase' = "call"
                         /\ call.num' \in {s.num : s \in Stubs}
                         /\ SeenRegisters' = SeenRegisters
    BY Zenon DEF Promise!Call, SeenRegisters
  <1>3. Promise!Return <=> /\ Phase = "call" /\ Phase' = "app"
                           /\ call.num = GETTID_INT => SeenResult' = sys_gettid
                           /\ SeenRegisters' = SeenRegisters
    BY DEF Promise!Return, SeenRegisters, SeenResult
  <1>4. Promise!Exception <=>
          /\ Phase = "app" /\ Phase' = "app"
          /\ \A r \in CalleeSaved \ {"ebp"} : SeenRegisters'[r] = SeenRegisters[r]
          /\ call.num' = call.num /\ SeenResult' = SeenResult
    BY Zenon DEF Promise!Exception, SeenRegisters, SeenResult
  <1>5. Promise!Stop <=> /\ Phase = "app" \/ (Phase = "call" /\ call.num # GETTID_INT)
                         /\ Phase' = "down"
    BY DEF Promise!Stop
  <1>6. Promise!vars' = Promise!vars <=>
          /\ Phase' = Phase /\ call.num' = call.num
          /\ SeenRegisters' = SeenRegisters /\ SeenResult' = SeenResult
    BY DEF Promise!vars, SeenRegisters, SeenResult
  <1> QED
    BY <1>1, <1>2, <1>3, <1>4, <1>5, <1>6

Stays == Promise!vars' = Promise!vars

LEMMA StaysHere ==
  ASSUME IInv, IInv', ~down, ~down', call' = call, Base'.pc = Base.pc,
         \A r \in CalleeSaved \cup {"eax"} : Base'.regs[r] = Base.regs[r]
  PROVE  Stays
  <1>1. /\ Phase = PhaseOf(down, Base, call) /\ Phase' = PhaseOf(down', Base', call')
        /\ SeenRegisters = KeptOf(Phase, Base, call)
        /\ SeenRegisters' = KeptOf(Phase', Base', call')
        /\ SeenResult = ResultOf(Phase, Base) /\ SeenResult' = ResultOf(Phase', Base')
    BY Seen, SeenNext
  <1>2. Phase' = Phase
    BY <1>1 DEF PhaseOf
  <1>3. SeenRegisters' = SeenRegisters
    BY <1>1, <1>2 DEF KeptOf
  <1>4. SeenResult' = SeenResult
    BY <1>1, <1>2 DEF ResultOf
  <1> QED
    BY <1>2, <1>3, <1>4, PromiseIs DEF Stays

(* Before the program runs, and while a call is in the library or the      *)
(* kernel, nothing is seen to happen.                                      *)
LEMMA StaysAway ==
  ASSUME IInv, IInv', ~down, ~down', call' = call, Base.pc # <<"app", 1>>,
         Base'.pc # <<"app", 1>>
  PROVE  Stays
  <1>1. /\ Phase = PhaseOf(down, Base, call) /\ Phase' = PhaseOf(down', Base', call')
        /\ SeenRegisters = KeptOf(Phase, Base, call)
        /\ SeenRegisters' = KeptOf(Phase', Base', call')
        /\ SeenResult = ResultOf(Phase, Base) /\ SeenResult' = ResultOf(Phase', Base')
    BY Seen, SeenNext
  <1>2. Phase' = Phase /\ Phase \in {"call", "boot"}
    BY <1>1 DEF PhaseOf
  <1>3. SeenRegisters' = SeenRegisters
    BY <1>1, <1>2 DEF KeptOf
  <1>4. SeenResult' = SeenResult
    BY <1>1, <1>2 DEF ResultOf
  <1> QED
    BY <1>2, <1>3, <1>4, PromiseIs DEF Stays

LEMMA StopStep ==
  ASSUME Enough, IInv, AInv, Next, down'
  PROVE  Promise!Stop
  <1>1. ~down /\ IInv'
    BY Steps
  <1>2. Phase = PhaseOf(down, Base, call) /\ Phase' = PhaseOf(down', Base', call')
    BY <1>1, Seen, SeenNext
  <1>3. ~Served(Base, call)
    BY NotDown
  <1> QED
    BY <1>1, <1>2, <1>3, PromiseIs DEF Served, PhaseOf

(* The topmost handler goes and there is none below it: an exception of    *)
(* the program, or nothing.                                                *)
LEMMA LastGoes ==
  ASSUME IInv, IInv', ~down, ~down', Goes, Len(trail) = 1
  PROVE  Stays \/ Promise!Exception
  <1> DEFINE c == trail[Len(trail)]
  <1>1. /\ trail # << >> /\ trail' = Front(trail) /\ call' = call /\ pc' = c.pc
        /\ \A r \in Survive(c.vector) : regs'[r] = c.regs[r]
    BY DEF Goes, Returned
  <1>2. c = trail[1] /\ Base = Frozen(c)
    BY <1>1, BaseIs
  <1>3. Base' = Now'
    BY <1>1, BaseReturn
  <1>4. Base.pc = c.pc /\ Base.regs = c.regs /\ Base'.pc = c.pc /\ Base'.regs = regs'
    BY <1>1, <1>2, <1>3 DEF Frozen, Now
  <1>5. /\ c \in Records /\ Raised(c)
        /\ c.vector = GETTID_INT => c.pc[1] = "table"
    <2>1. c \in Records /\ Raised(c)
      BY <1>1, TopHandler
    <2>2. c.vector = GETTID_INT => Code1(c) = "gettid_wrapper"
      BY IdtIs DEF Code1
    <2> QED
      BY <2>1, <2>2, <1>1, InGettid
  <1> HIDE DEF c
  <1>6. CASE c.pc # <<"app", 1>>
    BY <1>1, <1>4, <1>6, StaysAway
  <1>7. CASE c.pc = <<"app", 1>>
    <2>1. c.vector # GETTID_INT
      BY <1>5, <1>7
    <2>2. Registers \ {"ebp"} \subseteq Survive(c.vector)
      BY <1>5, <2>1, Code1Is
    <2>3. /\ \A r \in CalleeSaved \ {"ebp"} : regs'[r] = c.regs[r]
          /\ regs'.eax = c.regs.eax
      BY <1>1, <2>2, Registered
    <2>4. /\ Phase = PhaseOf(down, Base, call) /\ Phase' = PhaseOf(down', Base', call')
          /\ SeenRegisters = KeptOf(Phase, Base, call)
          /\ SeenRegisters' = KeptOf(Phase', Base', call')
          /\ SeenResult = ResultOf(Phase, Base) /\ SeenResult' = ResultOf(Phase', Base')
      BY Seen, SeenNext
    <2>5. Phase = "app" /\ Phase' = "app"
      BY <2>4, <1>4, <1>7 DEF PhaseOf
    <2>6. \A r \in CalleeSaved \ {"ebp"} : SeenRegisters'[r] = SeenRegisters[r]
      BY <2>3, <2>4, <2>5, <1>4 DEF KeptOf
    <2>7. SeenResult' = SeenResult
      BY <2>3, <2>4, <2>5, <1>4 DEF ResultOf
    <2> QED
      BY <1>1, <2>5, <2>6, <2>7, PromiseIs
  <1> QED
    BY <1>6, <1>7

(* What goes on without handlers.                                          *)
LEMMA OwnSeen ==
  ASSUME IInv, IInv', ~down, ~down', Own
  PROVE  /\ trail = << >> /\ Base.pc = pc /\ Base.regs = regs
         /\ Base'.pc = pc' /\ Base'.regs = regs'
         /\ Phase = PhaseOf(FALSE, Base, call) /\ Phase' = PhaseOf(FALSE, Base', call')
         /\ SeenRegisters = KeptOf(Phase, Base, call)
         /\ SeenRegisters' = KeptOf(Phase', Base', call')
         /\ SeenResult = ResultOf(Phase, Base) /\ SeenResult' = ResultOf(Phase', Base')
  <1>1. trail = << >> /\ trail' = << >>
    BY DEF Own
  <1>2. Base = Now /\ Base' = Now'
    BY <1>1, BaseIs, SeenNext
  <1>3. Phase = PhaseOf(FALSE, Base, call) /\ Phase' = PhaseOf(FALSE, Base', call')
    BY Seen, SeenNext DEF PhaseOf
  <1> QED
    BY <1>1, <1>2, <1>3, Seen, SeenNext DEF Now

LEMMA ExecSeen ==
  ASSUME IInv, IInv', ~down, ~down', Own, Exec
  PROVE  Stays \/ Promise!Start
  <1>1. call' = call
    BY ExecCall
  <1>2. /\ trail = << >> /\ Base.pc = pc /\ Base'.pc = pc'
        /\ Phase = PhaseOf(FALSE, Base, call) /\ Phase' = PhaseOf(FALSE, Base', call')
    BY OwnSeen
  <1>3. pc[1] \in {"do_task_switch", "syscall_wrapper", "table"}
    BY <1>2, WhereItRuns
  <1>4. pc # <<"app", 1>>
    BY <1>3
  <1>5. CASE pc' # <<"app", 1>>
    BY <1>1, <1>2, <1>4, <1>5, StaysAway
  <1>6. CASE pc' = <<"app", 1>>
    <2>1. CASE pc[1] = "do_task_switch"
      <3>1. call = NoCall
        BY <2>1, <1>2, BootHas
      <3>2. Phase = "boot" /\ Phase' = "app"
        BY <3>1, <1>2, <1>4, <1>6 DEF PhaseOf, NoCall
      <3> QED
        BY <3>2, <1>1, PromiseIs
    <2>2. CASE pc[1] = "syscall_wrapper"
      <3>1. pc[2] \in 1 .. 25
        BY <2>2, <1>2, WrapperHas
      <3>2. pc[2] \in 1 .. 18 \/ pc[2] = 19 \/ pc[2] \in 20 .. 25
        BY <3>1
      <3>3. pc'[1] \in {"syscall_wrapper", "table", "stub"}
        BY <3>2, <2>2, <1>2, WrapperForward
      <3> QED
        BY <3>3, <1>6
    <2>3. CASE pc[1] = "table"
      <3>1. Instr = <<"jmp", 20>> \/ \E v \in 64 .. 97 : Instr = <<"int", v>>
        BY <2>3, <1>2, TableHas
      <3>2. CASE Instr = <<"jmp", 20>>
        <4>1. pc' = <<"syscall_wrapper", 20>>
          BY <3>2, Dispatch DEF jump
        <4> QED
          BY <4>1, <1>6
      <3>3. CASE \E v \in 64 .. 97 : Instr = <<"int", v>>
        <4>1. PICK e : trail' = Append(trail, e)
          BY <3>3, <2>3, <1>2, TableTraps
        <4>2. trail \in Seq(Records)
          BY DEF IInv, TypeInv
        <4>3. Len(trail') = Len(trail) + 1 /\ Len(trail) \in Nat
          BY <4>1, <4>2, Sequences
        <4> QED
          BY <4>3 DEF Own
      <3> QED
        BY <3>1, <3>2, <3>3
    <2> QED
      BY <2>1, <2>2, <2>3, <1>3
  <1> QED
    BY <1>5, <1>6

LEMMA ProgramSeen ==
  ASSUME IInv, IInv', AInv, ~down, ~down', Own,
         begin \/ stub_returns \/ \E s \in Stubs : call_stub(s)
  PROVE  Promise!Start \/ Promise!Return \/ Promise!Call
  <1>1. /\ trail = << >> /\ Base.pc = pc /\ Base.regs = regs
        /\ Base'.pc = pc' /\ Base'.regs = regs'
        /\ Phase = PhaseOf(FALSE, Base, call) /\ Phase' = PhaseOf(FALSE, Base', call')
        /\ SeenRegisters = KeptOf(Phase, Base, call)
        /\ SeenRegisters' = KeptOf(Phase', Base', call')
        /\ SeenResult = ResultOf(Phase, Base) /\ SeenResult' = ResultOf(Phase', Base')
    BY OwnSeen
  <1>2. CASE begin
    <2>1. pc = <<"app", 0>> /\ pc' = <<"app", 1>> /\ call' = call
      BY <1>2 DEF begin
    <2>2. call = NoCall
      BY <2>1, ProgramHas
    <2>3. Phase = "boot" /\ Phase' = "app"
      BY <2>1, <2>2, <1>1 DEF PhaseOf, NoCall
    <2> QED
      BY <2>1, <2>3, PromiseIs
  <1>3. CASE stub_returns
    <2>1. pc = <<"stub", 1>> /\ pc' = <<"app", 1>> /\ regs' = Clobbered(regs.eax)
      BY <1>3 DEF stub_returns
    <2>2. /\ UserAt(Now, call) /\ regs \in Files
          /\ \A x \in CalleeSaved : regs[x] = call.saved[x]
      BY <2>1, ProgramHas
    <2>3. call.num # 0
      <3>1. Now.pc = pc
        BY DEF Now
      <3> QED
        BY <3>1, <2>1, <2>2 DEF UserAt, InApp
    <2>4. Phase = "call" /\ Phase' = "app"
      BY <2>1, <2>3, <1>1 DEF PhaseOf
    <2>5. regs.eax \in Words
      BY <2>2, Registered DEF Files
    <2>6. /\ regs'.eax = regs.eax
          /\ \A x \in Registers : x \notin Scratch => regs'[x] = regs[x]
      BY <2>1, <2>2, <2>5, ClobberedIs
    <2>7. \A x \in CalleeSaved : regs'[x] = call.saved[x]
      BY <2>2, <2>6, Registered DEF Scratch
    <2>8. SeenRegisters' = SeenRegisters
      BY <2>4, <2>7, <1>1 DEF KeptOf
    <2>9. call.num = GETTID_INT => SeenResult' = sys_gettid
      <3>1. Answer(Base, call, Asked(trail))
        BY DEF AInv
      <3>2. call.num = GETTID_INT => regs.eax = sys_gettid
        BY <3>1, <2>1, <1>1 DEF Answer
      <3> QED
        BY <3>2, <2>4, <2>6, <1>1 DEF ResultOf
    <2> QED
      BY <2>4, <2>8, <2>9, PromiseIs
  <1>4. CASE \E s \in Stubs : call_stub(s)
    <2>1. PICK s \in Stubs : call_stub(s)
      BY <1>4
    <2>2. /\ pc = <<"app", 1>> /\ pc' = <<"syscall_wrapper", 1>>
          /\ call' = [num |-> s.num, pushed |-> s.pushed,
                      saved |-> [r \in CalleeSaved |-> regs[r]]]
      BY <2>1 DEF call_stub
    <2>3. s.num # 0
      BY StubsAre
    <2>4. /\ call'.num = s.num
          /\ \A r \in CalleeSaved : call'.saved[r] = regs[r]
      BY <2>2
    <2>5. Phase = "app" /\ Phase' = "call"
      BY <2>2, <2>3, <2>4, <1>1 DEF PhaseOf
    <2>6. SeenRegisters' = SeenRegisters
      BY <2>4, <2>5, <1>1 DEF KeptOf
    <2>7. call.num' \in {t.num : t \in Stubs}
      BY <2>4
    <2> QED
      BY <2>5, <2>6, <2>7, PromiseIs
  <1> QED
    BY <1>2, <1>3, <1>4

(* Every step is one of SystemCalls, or is not seen.                       *)
LEMMA PromiseStep ==
  ASSUME Enough, IInv, AInv, Next
  PROVE  Promise!Next \/ Stays
  <1>1. ~down /\ IInv'
    BY Steps
  <1>2. CASE down'
    BY <1>2, StopStep DEF Promise!Next
  <1>3. ASSUME ~down', NEW v, Comes(v, pc), v # GETTID_INT
        PROVE  Stays
    <2>1. call' = call /\ Base'.regs = Base.regs /\ Base'.pc = Base.pc
      BY <1>1, <1>3, ComesHere
    <2> QED
      BY <2>1, <1>1, <1>3, StaysHere
  <1>4. CASE ~down' /\ Quiet
    <2>1. call' = call /\ Base' = Base
      BY <1>4, BaseQuietly DEF Quiet
    <2> QED
      BY <2>1, <1>1, <1>4, StaysHere
  <1>5. CASE ~down' /\ InterruptComes
    <2>1. Timer # GETTID_INT /\ Keyboard # GETTID_INT
      BY DEF Timer, Keyboard, GETTID_INT
    <2> QED
      BY <2>1, <1>3, <1>5 DEF InterruptComes
  <1>6. CASE ~down' /\ FaultComes
    BY <1>3, <1>6, FaultIs
  <1>7. CASE ~down' /\ GettidComes
    <2>1. call' = call /\ Base'.pc = Eip
      BY <1>1, <1>7, ComesBase DEF GettidComes
    <2>2. Eip = <<"table", pc[2] + 2>> /\ Base.pc = pc /\ pc[1] = "table"
      BY <1>7, BaseIs DEF GettidComes, Eip, Now
    <2>3. Base'.pc # <<"app", 1>> /\ Base.pc # <<"app", 1>>
      BY <2>1, <2>2
    <2> QED
      BY <2>1, <2>3, <1>1, <1>7, StaysAway
  <1>8. CASE ~down' /\ Goes
    <2>1. CASE Len(trail) = 1
      BY <2>1, <1>1, <1>8, LastGoes DEF Promise!Next
    <2>2. CASE Len(trail) # 1
      <3>1. trail # << >> /\ trail' = Front(trail) /\ call' = call
        BY <1>8 DEF Goes, Returned
      <3>2. Base' = Base
        BY <3>1, <2>2, BaseReturn
      <3> QED
        BY <3>1, <3>2, <1>1, <1>8, StaysHere
    <2> QED
      BY <2>1, <2>2
  <1>9. CASE ~down' /\ Own /\ Exec
    BY <1>1, <1>9, ExecSeen DEF Promise!Next
  <1>10. CASE ~down' /\ Own /\ (begin \/ stub_returns \/ \E s \in Stubs : call_stub(s))
    BY <1>1, <1>10, ProgramSeen DEF Promise!Next
  <1> QED
    BY <1>2, <1>4, <1>5, <1>6, <1>7, <1>8, <1>9, <1>10, Steps

LEMMA StaysStuttering ==
  ASSUME UNCHANGED vars
  PROVE  (AInv => AInv') /\ Stays
  <1>1. /\ pc' = pc /\ regs' = regs /\ on' = on /\ iff' = iff /\ stack' = stack
        /\ trail' = trail /\ call' = call /\ down' = down
    BY DEF vars
  <1>2. Now' = Now
    BY <1>1 DEF Now
  <1>3. Base' = Base /\ Interrupts' = Interrupts
    BY <1>1, <1>2 DEF Base, Interrupts
  <1>4. AInv => AInv'
    BY <1>1, <1>3 DEF AInv
  <1>5. Outer' = Outer
    BY <1>1 DEF Outer
  <1>6. Phase' = Phase
    BY <1>1, <1>5 DEF Phase
  <1>7. Visible' = Visible
    BY <1>1, <1>5, <1>6 DEF Visible
  <1>8. SeenRegisters' = SeenRegisters /\ SeenResult' = SeenResult
    BY <1>5, <1>6, <1>7 DEF SeenRegisters, SeenResult
  <1>9. Stays
    BY <1>1, <1>6, <1>8, PromiseIs DEF Stays
  <1> QED
    BY <1>4, <1>9

LEMMA Answers == Spec => [](IInv /\ AInv)
  <1>1. Init => AInv
    BY AnswersInit
  <1>2. IInv /\ AInv /\ [Next]_vars => AInv'
    BY AnswersStep, StaysStuttering
  <1> QED
    BY <1>1, <1>2, Invariance, PTL DEF Spec

(* However interrupts, exceptions and calls are interleaved, the program   *)
(* sees what SystemCalls describes: syscall_wrapper and the wrappers of    *)
(* the kernel keep the registers that a function keeps, gettid returns     *)
(* the thread's id, and only an exception or a call that the kernel does   *)
(* not have may stop the machine.  Each nested interrupt needs eleven      *)
(* words of the kernel stack, the system call nine.                        *)
THEOREM Refinement ==
  ASSUME KernelWords >= 11 * MaxDepth + 9
  PROVE  Spec => ImplementsSystemCalls
  <1>1. Enough
    BY DEF Enough
  <1>2. Init => Promise!Init
    <2>1. ASSUME Init
          PROVE  Phase = "boot"
      <3>1. /\ trail = << >> /\ call = NoCall /\ ~down
            /\ pc = <<"do_task_switch", 1>>
        BY <2>1, InitIs DEF Init
      <3>2. Outer.pc = pc
        BY <3>1 DEF Outer
      <3> QED
        BY <3>1, <3>2 DEF Phase, NoCall
    <2> QED
      BY <2>1 DEF Promise!Init
  <1>3. IInv /\ AInv /\ [Next]_vars => [Promise!Next]_(Promise!vars)
    BY <1>1, PromiseStep, StaysStuttering DEF Stays
  <1> QED
    BY <1>2, <1>3, Answers, PTL DEF Spec, ImplementsSystemCalls, Promise!Spec
=============================================================================
