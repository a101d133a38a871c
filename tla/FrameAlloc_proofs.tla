-------------------------- MODULE FrameAlloc_proofs --------------------------
(***************************************************************************)
(* Proofs about FrameAlloc.  The two counters never meet as long as the    *)
(* machine has the memory the callers ask for (Room); on that rests that   *)
(* no frame is handed out twice, and the refinement of PhysicalFrames.     *)
(***************************************************************************)
EXTENDS FrameAlloc, TLAPS

(* A run lies among the first `low` frames of the pool.                    *)
InLow(g, low) ==
  /\ UserMemStart <= g.first
  /\ g.first + g.count <= UserMemStart + low

(* A run lies among the last `high` - 1 frames of the pool.                *)
InHigh(g, high) ==
  /\ NumPPF + 1 - high <= g.first
  /\ g.first + g.count <= NumPPF

(* Two runs of frames with all of one below all of the other.              *)
Apart(g, h) ==
  \/ g.first + g.count <= h.first
  \/ h.first + h.count <= g.first

(* Before vmm_page_init nothing has been handed out.                       *)
Unused == page_count = 0 /\ highmem_page_count = 1 /\ grants = << >>

RunsBehindCounters ==
  \A i \in DOMAIN grants :
     InLow(grants[i], page_count) \/ InHigh(grants[i], highmem_page_count)

RunsApart == \A i, j \in DOMAIN grants : i # j => Apart(grants[i], grants[j])

(* The inductive invariant.                                                *)
IInv ==
  /\ TypeOK
  /\ ~Booted => Unused
  /\ Handed <= Demand
  /\ RunsBehindCounters
  /\ RunsApart
  /\ dirty \subseteq Pool

-----------------------------------------------------------------------------
LEMMA GrantIsRun ==
  ASSUME TypeOK, NEW i \in DOMAIN grants
  PROVE  grants[i] \in Runs
  BY DEF TypeOK

(* The page-table count of vmm_page_init is a positive number.             *)
LEMMA NumPdesNat == VMM_NUM_PDES(NumPPF) \in Nat
  BY FrameAllocAssumption DEF VMM_NUM_PDES

(* malloc asks for at least one page, whatever the size.                   *)
LEMMA MallocPagesNat ==
  ASSUME NEW size \in Sizes
  PROVE  MallocPages(size) \in Nat \ {0}
  BY FrameAllocAssumption DEF MallocPages

(* A run behind the low counter is apart from one behind the high counter, *)
(* and runs that are apart share no frame.                                 *)
LEMMA ApartDisjoint ==
  ASSUME NEW g \in Runs,
         NEW h \in Runs,
         Apart(g, h)
  PROVE  Frames(g) \cap Frames(h) = {}
  BY DEF Apart, Frames, Runs

LEMMA RunsApartDisjoint == IInv => NoDoubleGrant
  <1> SUFFICES ASSUME IInv,
                      NEW i \in DOMAIN grants, NEW j \in DOMAIN grants, i # j
               PROVE  Frames(grants[i]) \cap Frames(grants[j]) = {}
    BY DEF NoDoubleGrant
  <1>1. /\ grants[i] \in Runs
        /\ grants[j] \in Runs
    BY GrantIsRun DEF IInv
  <1>2. Apart(grants[i], grants[j])
    BY DEF IInv, RunsApart
  <1> QED
    BY <1>1, <1>2, ApartDisjoint

LEMMA RunsInPool == Room /\ IInv => GrantsInPool
  <1> SUFFICES ASSUME Room, IInv, NEW i \in DOMAIN grants
               PROVE  Frames(grants[i]) \subseteq Pool
    BY DEF GrantsInPool
  <1>1. grants[i] \in Runs
    BY GrantIsRun DEF IInv
  <1>2. InLow(grants[i], page_count) \/ InHigh(grants[i], highmem_page_count)
    BY DEF IInv, RunsBehindCounters
  <1>3. page_count \in Nat /\ highmem_page_count \in Nat \ {0} /\ Handed <= Demand
    BY DEF IInv, TypeOK
  <1> QED
    BY <1>1, <1>2, <1>3, FrameAllocAssumption
    DEF Room, Pool, Frames, Runs, InLow, InHigh, Handed

-----------------------------------------------------------------------------
(* A step that hands out a run g behind the counters, apart from every run *)
(* handed out before, keeps the history in order.                          *)
LEMMA HandOutStep ==
  ASSUME TypeOK, dirty \subseteq Pool, RunsApart,
         NEW g \in Runs,
         HandOut(g),
         \A i \in DOMAIN grants : Apart(grants[i], g)
  PROVE  /\ grants' \in Seq(Runs)
         /\ live' \subseteq DOMAIN grants'
         /\ dirty' \subseteq Pool
         /\ RunsApart'
  <1>1. grants' \in Seq(Runs)
    BY DEF TypeOK, HandOut
  <1>2. /\ DOMAIN grants = 1 .. Len(grants)
        /\ DOMAIN grants' = 1 .. Len(grants) + 1
        /\ \A i \in DOMAIN grants : grants'[i] = grants[i]
        /\ grants'[Len(grants) + 1] = g
        /\ Len(grants) \in Nat
    BY DEF TypeOK, HandOut
  <1>3. live' \subseteq DOMAIN grants'
    BY <1>2 DEF TypeOK, HandOut
  <1>4. dirty' \subseteq Pool
    BY DEF HandOut
  <1>5. ASSUME NEW i \in DOMAIN grants', NEW j \in DOMAIN grants', i # j
        PROVE  Apart(grants'[i], grants'[j])
    <2>1. CASE i \in DOMAIN grants /\ j \in DOMAIN grants
      BY <1>2, <1>5, <2>1 DEF RunsApart
    <2>2. CASE i = Len(grants) + 1
      <3>1. j \in DOMAIN grants
        BY <1>2, <1>5, <2>2
      <3> QED
        BY <1>2, <2>2, <3>1 DEF Apart
    <2>3. CASE j = Len(grants) + 1
      <3>1. i \in DOMAIN grants
        BY <1>2, <1>5, <2>3
      <3> QED
        BY <1>2, <2>3, <3>1
    <2> QED
      BY <1>2, <2>1, <2>2, <2>3
  <1>6. RunsApart'
    BY <1>5 DEF RunsApart, Apart
  <1> QED
    BY <1>1, <1>3, <1>4, <1>6

(* n more frames from the bottom.                                          *)
LEMMA LowRunStep ==
  ASSUME Room, IInv, NEW n \in Nat \ {0}, Affordable(n),
         LowRun(UserMemStart, n),
         user_ppf_start' = UserMemStart,
         highmem_ppf_start' = NumPPF
  PROVE  IInv'
  <1> DEFINE g == Run(UserMemStart + page_count, n)
  <1>1. page_count \in Nat /\ highmem_page_count \in Nat \ {0}
    BY DEF IInv, TypeOK
  <1>2. /\ page_count' = page_count + n
        /\ highmem_page_count' = highmem_page_count
        /\ HandOut(g)
    BY DEF LowRun
  <1>3. g \in Runs
    BY <1>1, FrameAllocAssumption DEF Run, Runs
  <1>4. UserMemStart + page_count + n <= NumPPF + 1 - highmem_page_count
    BY <1>1, FrameAllocAssumption DEF Room, Affordable, Handed
  <1>5. ASSUME NEW i \in DOMAIN grants
        PROVE  /\ Apart(grants[i], g)
               /\ InLow(grants'[i], page_count') \/ InHigh(grants'[i], highmem_page_count')
    <2>1. grants[i] \in Runs
      BY GrantIsRun DEF IInv
    <2>2. InLow(grants[i], page_count) \/ InHigh(grants[i], highmem_page_count)
      BY DEF IInv, RunsBehindCounters
    <2>3. grants'[i] = grants[i]
      BY <1>2 DEF IInv, TypeOK, HandOut
    <2> QED
      BY <1>1, <1>2, <1>4, <2>1, <2>2, <2>3, FrameAllocAssumption
      DEF InLow, InHigh, Apart, Run, Runs
  <1>6. /\ grants' \in Seq(Runs)
        /\ live' \subseteq DOMAIN grants'
        /\ dirty' \subseteq Pool
        /\ RunsApart'
    BY <1>2, <1>3, <1>5, HandOutStep DEF IInv
  <1>7. TypeOK'
    <2>1. dirty' \subseteq Nat
      BY <1>6, FrameAllocAssumption DEF Pool
    <2> QED
      BY <1>1, <1>2, <1>6, <2>1, FrameAllocAssumption DEF TypeOK, Booted
  <1>8. RunsBehindCounters'
    <2>1. /\ DOMAIN grants' = DOMAIN grants \cup {Len(grants) + 1}
          /\ grants'[Len(grants) + 1] = g
      BY <1>2, <1>3 DEF IInv, TypeOK, HandOut
    <2>2. InLow(g, page_count')
      BY <1>1, <1>2, FrameAllocAssumption DEF InLow, Run
    <2> QED
      BY <1>5, <2>1, <2>2 DEF RunsBehindCounters, InLow, InHigh
  <1>9. Handed' <= Demand
    BY <1>1, <1>2, FrameAllocAssumption DEF Affordable, Handed
  <1>10. Booted'
    BY FrameAllocAssumption DEF Booted
  <1> QED
    BY <1>6, <1>7, <1>8, <1>9, <1>10 DEF IInv

(* n more frames from the top.                                             *)
LEMMA HighRunStep ==
  ASSUME Room, IInv, Booted, NEW n \in Nat \ {0}, Affordable(n),
         HighRun(n), UNCHANGED starts
  PROVE  IInv'
  <1> DEFINE g == Run(HighTop + 1 - n, n)
  <1>1. /\ page_count \in Nat
        /\ highmem_page_count \in Nat \ {0}
        /\ highmem_ppf_start = NumPPF
    BY DEF IInv, TypeOK
  <1>2. /\ page_count' = page_count
        /\ highmem_page_count' = highmem_page_count + n
        /\ user_ppf_start' = user_ppf_start
        /\ highmem_ppf_start' = NumPPF
        /\ HandOut(g)
    BY <1>1 DEF HighRun, starts
  <1>3. g.first = NumPPF + 1 - highmem_page_count - n /\ g.count = n
    BY <1>1, FrameAllocAssumption DEF Run, HighTop
  <1>4. UserMemStart + page_count <= NumPPF + 1 - highmem_page_count - n
    BY <1>1, FrameAllocAssumption DEF Room, Affordable, Handed
  <1>5. g \in Runs
    BY <1>1, <1>3, <1>4, FrameAllocAssumption DEF Run, Runs
  <1>6. ASSUME NEW i \in DOMAIN grants
        PROVE  /\ Apart(grants[i], g)
               /\ \/ InLow(grants'[i], page_count')
                  \/ InHigh(grants'[i], highmem_page_count')
    <2>1. grants[i] \in Runs
      BY GrantIsRun DEF IInv
    <2>2. InLow(grants[i], page_count) \/ InHigh(grants[i], highmem_page_count)
      BY DEF IInv, RunsBehindCounters
    <2>3. grants'[i] = grants[i]
      BY <1>2 DEF IInv, TypeOK, HandOut
    <2> HIDE DEF g
    <2> QED
      BY <1>1, <1>2, <1>3, <1>4, <2>1, <2>2, <2>3, FrameAllocAssumption
      DEF InLow, InHigh, Apart, Runs
  <1>7. /\ grants' \in Seq(Runs)
        /\ live' \subseteq DOMAIN grants'
        /\ dirty' \subseteq Pool
        /\ RunsApart'
    BY <1>2, <1>5, <1>6, HandOutStep DEF IInv
  <1>8. TypeOK'
    <2>1. dirty' \subseteq Nat
      BY <1>7, FrameAllocAssumption DEF Pool
    <2> QED
      BY <1>1, <1>2, <1>7, <2>1, FrameAllocAssumption DEF IInv, TypeOK, Booted
  <1>9. RunsBehindCounters'
    <2>1. /\ DOMAIN grants' = DOMAIN grants \cup {Len(grants) + 1}
          /\ grants'[Len(grants) + 1] = g
      BY <1>2, <1>5 DEF IInv, TypeOK, HandOut
    <2>2. InHigh(g, highmem_page_count')
      BY <1>1, <1>2, <1>3, FrameAllocAssumption DEF InHigh
    <2> QED
      BY <1>6, <2>1, <2>2 DEF RunsBehindCounters, InLow, InHigh
  <1>10. Handed' <= Demand
    BY <1>1, <1>2, FrameAllocAssumption DEF Affordable, Handed
  <1>11. Booted'
    BY <1>2 DEF Booted
  <1> QED
    BY <1>7, <1>8, <1>9, <1>10, <1>11 DEF IInv

-----------------------------------------------------------------------------
(* What each step does to the allocator's state: it hands out one run from *)
(* the bottom or from the top, or it hands out none.                       *)
LowStep ==
  \E n \in Nat \ {0} :
     /\ Affordable(n)
     /\ LowRun(UserMemStart, n)
     /\ user_ppf_start' = UserMemStart
     /\ highmem_ppf_start' = NumPPF

HighStep ==
  \E n \in Nat \ {0} :
     /\ Booted
     /\ Affordable(n)
     /\ HighRun(n)
     /\ UNCHANGED starts

FreeStep == \E i \in live : vmm_ppf_free(i)
WriteStep == \E f \in UNION {Frames(grants[i]) : i \in live} : HolderWrites(f)

LEMMA StepCases ==
  ASSUME IInv, Next
  PROVE  LowStep \/ HighStep \/ FreeStep \/ WriteStep
  <1> USE DEF LowStep
  <1>1. Booted => user_ppf_start = UserMemStart /\ highmem_ppf_start = NumPPF
    BY DEF IInv, TypeOK, Booted
  <1>2. CASE vmm_page_init
    <2>1. 1 + VMM_NUM_PDES(NumPPF) \in Nat \ {0}
      BY NumPdesNat, FrameAllocAssumption
    <2> QED
      BY <1>2, <2>1 DEF vmm_page_init
  <1>3. CASE vmm_create_tables
    <2>1. 1 + PgdirSize \in Nat \ {0}
      BY FrameAllocAssumption
    <2> QED
      BY <1>1, <1>3, <2>1 DEF vmm_create_tables, starts
  <1>4. ASSUME NEW n \in Requests, vmm_ppfs_alloc(n)
        PROVE  LowStep
    <2>1. n \in Nat \ {0}
      BY <1>4, FrameAllocAssumption DEF vmm_ppfs_alloc
    <2> QED
      BY <1>1, <1>4, <2>1 DEF vmm_ppfs_alloc, starts
  <1>5. ASSUME NEW n \in Requests, vmm_ppfs_highmem_alloc(n)
        PROVE  HighStep
    <2>1. n \in Nat \ {0}
      BY <1>5, FrameAllocAssumption DEF vmm_ppfs_highmem_alloc
    <2> QED
      BY <1>5, <2>1 DEF vmm_ppfs_highmem_alloc, HighStep
  <1>6. ASSUME NEW size \in Sizes, malloc(size)
        PROVE  LowStep
    BY <1>1, <1>6, MallocPagesNat DEF malloc, starts
  <1> QED
    BY <1>2, <1>3, <1>4, <1>5, <1>6 DEF Next, FreeStep, WriteStep

LEMMA InitIInv == Init => IInv
  <1> SUFFICES ASSUME Init PROVE IInv
    OBVIOUS
  <1>1. TypeOK
    BY FrameAllocAssumption DEF Init, TypeOK, Booted, Pool
  <1> QED
    BY <1>1, FrameAllocAssumption
    DEF Init, IInv, Unused, Handed, RunsBehindCounters, RunsApart

LEMMA NextIInv == Room /\ IInv /\ [Next]_vars => IInv'
  <1> SUFFICES ASSUME Room, IInv, [Next]_vars PROVE IInv'
    OBVIOUS
  <1>1. CASE LowStep
    BY <1>1, LowRunStep DEF LowStep
  <1>2. CASE HighStep
    BY <1>2, HighRunStep DEF HighStep
  <1>3. CASE FreeStep
    BY <1>3 DEF FreeStep, vmm_ppf_free, counters, starts, IInv, TypeOK, Booted, Unused,
                Handed, RunsBehindCounters, RunsApart
  <1>4. CASE WriteStep
    <2>1. /\ UNCHANGED <<counters, starts, grants, live>>
          /\ \E i \in live : \E f \in Frames(grants[i]) : dirty' = dirty \cup {f}
      BY <1>4 DEF WriteStep, HolderWrites
    <2>2. dirty' \subseteq Pool
      <3>1. PICK i \in live : \E f \in Frames(grants[i]) : dirty' = dirty \cup {f}
        BY <2>1
      <3>2. Frames(grants[i]) \subseteq Pool
        BY RunsInPool DEF GrantsInPool, IInv, TypeOK
      <3> QED
        BY <3>1, <3>2 DEF IInv
    <2>3. TypeOK'
      BY <2>1, <2>2, FrameAllocAssumption
      DEF counters, starts, IInv, TypeOK, Booted, Pool
    <2> QED
      BY <2>1, <2>2, <2>3
      DEF counters, starts, IInv, Booted, Unused, Handed, RunsBehindCounters, RunsApart
  <1>5. CASE UNCHANGED vars
    BY <1>5 DEF vars, IInv, TypeOK, Booted, Unused, Handed, RunsBehindCounters, RunsApart
  <1> QED
    BY <1>1, <1>2, <1>3, <1>4, <1>5, StepCases

(* On a machine with room for Demand frames the inductive invariant holds  *)
(* of every behaviour of vmm_page.c's allocators.                          *)
THEOREM Invariance ==
  ASSUME Room
  PROVE  Spec => []IInv
  <1>1. Init => IInv
    BY InitIInv
  <1>2. IInv /\ [Next]_vars => IInv'
    BY NextIInv
  <1> QED
    BY <1>1, <1>2, PTL DEF Spec

(* The counters, the history and the ends of the pool stay well formed.    *)
THEOREM TypeCorrect ==
  ASSUME Room
  PROVE  Spec => []TypeOK
  <1>1. IInv => TypeOK
    BY DEF IInv
  <1> QED
    BY <1>1, Invariance, PTL

(* vmm_ppf_alloc and vmm_ppf_highmem_alloc never hand out one frame twice, *)
(* although neither looks at the other's counter.                          *)
THEOREM NeverGrantedTwice ==
  ASSUME Room
  PROVE  Spec => []NoDoubleGrant
  BY RunsApartDisjoint, Invariance, PTL

(* Every frame handed out is memory above USER_MEM_START.                  *)
THEOREM AlwaysInPool ==
  ASSUME Room
  PROVE  Spec => []GrantsInPool
  <1>1. IInv => GrantsInPool
    BY RunsInPool
  <1> QED
    BY <1>1, Invariance, PTL

-----------------------------------------------------------------------------
(* A step of the allocator that hands out g is a Grant of the abstract     *)
(* allocator, and leaves what the holders have written alone.              *)
LEMMA HandOutIsGrant ==
  ASSUME Room, IInv, IInv', NEW g \in Runs, HandOut(g)
  PROVE  /\ \E first, last \in Pool :
               Abstract!Grant([first |-> first, count |-> (last + 1) - first])
         /\ \A i \in live : \A f \in Frames(grants[i]) \cap dirty : f \in dirty'
  <1>1. /\ grants' = Append(grants, g)
        /\ dirty' = dirty \ Frames(g)
        /\ grants \in Seq(Runs)
        /\ live \subseteq DOMAIN grants
    BY DEF HandOut, IInv, TypeOK
  <1>2. /\ DOMAIN grants = 1 .. Len(grants)
        /\ Len(grants) + 1 \in DOMAIN grants'
        /\ grants'[Len(grants) + 1] = g
        /\ \A i \in DOMAIN grants : i \in DOMAIN grants' /\ grants'[i] = grants[i]
        /\ Len(grants) \in Nat
    BY <1>1
  <1>3. NoDoubleGrant' /\ GrantsInPool'
    <2>1. Room'
      BY DEF Room
    <2> QED
      BY <2>1, RunsApartDisjoint, RunsInPool, PTL
  <1>4. \A i \in DOMAIN grants : Frames(grants[i]) \cap Frames(g) = {}
    <2>1. SUFFICES ASSUME NEW i \in DOMAIN grants
                   PROVE  Frames(grants[i]) \cap Frames(g) = {}
      OBVIOUS
    <2>2. i # Len(grants) + 1
      BY <1>2
    <2> QED
      BY <1>2, <1>3, <2>2 DEF NoDoubleGrant, Frames
  <1>5. Frames(g) \subseteq Pool
    BY <1>2, <1>3 DEF GrantsInPool, Frames
  <1>6. /\ g.first \in Frames(g)
        /\ g.first + g.count - 1 \in Frames(g)
        /\ g = [first |-> g.first, count |-> ((g.first + g.count - 1) + 1) - g.first]
    BY DEF Runs, Frames
  <1>7. Abstract!Grant(g)
    <2>1. Abstract!Frames(g) = Frames(g)
      BY DEF Abstract!Frames, Frames
    <2>2. Frames(g) \cap Abstract!Covered = {}
      BY <1>4 DEF Abstract!Covered, Abstract!Frames, Frames
    <2> QED
      BY <1>1, <1>5, <1>6, <2>1, <2>2 DEF Abstract!Grant
  <1>8. \E first, last \in Pool :
           Abstract!Grant([first |-> first, count |-> (last + 1) - first])
    <2>1. g.first \in Pool /\ g.first + g.count - 1 \in Pool
      BY <1>5, <1>6
    <2> QED
      BY <1>6, <1>7, <2>1
  <1>9. \A i \in live : \A f \in Frames(grants[i]) \cap dirty : f \in dirty'
    BY <1>1, <1>4
  <1> QED
    BY <1>8, <1>9

(* Every step is a step of the abstract allocator or leaves it unchanged,  *)
(* and keeps the holders' data.                                            *)
LEMMA StepRefines ==
  ASSUME Room, IInv, IInv', [Next]_vars
  PROVE  /\ [Abstract!Next]_<<grants, dirty>>
         /\ \A i \in live : \A f \in Frames(grants[i]) \cap dirty : f \in dirty'
  <1>1. ASSUME LowStep \/ HighStep
        PROVE  \E g \in Runs : HandOut(g)
    <2>1. \E g : HandOut(g)
      BY <1>1 DEF LowStep, HighStep, LowRun, HighRun
    <2>2. PICK g : HandOut(g)
      BY <2>1
    <2>3. grants' = Append(grants, g) /\ grants \in Seq(Runs) /\ grants' \in Seq(Runs)
      BY <2>2 DEF HandOut, IInv, TypeOK
    <2> QED
      BY <2>2, <2>3
  <1>2. CASE LowStep \/ HighStep
    BY <1>1, <1>2, HandOutIsGrant DEF Abstract!Next
  <1>3. CASE FreeStep
    BY <1>3 DEF FreeStep, vmm_ppf_free
  <1>4. CASE WriteStep
    <2>1. PICK i \in live : \E f \in Frames(grants[i]) : HolderWrites(f)
      BY <1>4 DEF WriteStep
    <2>2. PICK f \in Frames(grants[i]) : HolderWrites(f)
      BY <2>1
    <2>3. f \in Abstract!Covered
      BY <2>2 DEF Abstract!Covered, Abstract!Frames, Frames, IInv, TypeOK
    <2> QED
      BY <2>2, <2>3 DEF HolderWrites, Abstract!Next, Abstract!Write
  <1>5. CASE UNCHANGED vars
    BY <1>5 DEF vars
  <1> QED
    BY <1>2, <1>3, <1>4, <1>5, StepCases

(* What a holder has written in its frames survives every later call.      *)
THEOREM HoldersSafe ==
  ASSUME Room
  PROVE  Spec => HoldersKeepTheirData
  <1>1. IInv /\ IInv' /\ [Next]_vars
        => [\A i \in live : \A f \in Frames(grants[i]) \cap dirty : f \in dirty']_vars
    BY StepRefines
  <1> QED
    BY <1>1, Invariance, PTL DEF Spec, HoldersKeepTheirData

(* The allocators of vmm_page.c implement the abstract frame allocator.    *)
THEOREM Refinement ==
  ASSUME Room
  PROVE  Spec => ImplementsPhysicalFrames
  <1>1. Init => Abstract!Init
    BY DEF Init, Abstract!Init
  <1>2. IInv /\ IInv' /\ [Next]_vars => [Abstract!Next]_<<grants, dirty>>
    BY StepRefines
  <1>3. Abstract!pvars = <<grants, dirty>>
    BY DEF Abstract!pvars
  <1> QED
    BY <1>1, <1>2, Invariance, PTL
    DEF Spec, ImplementsPhysicalFrames, Abstract!Spec, Abstract!pvars
=============================================================================
