----------------------------- MODULE FrameAlloc -----------------------------
(***************************************************************************)
(* The physical frame allocators of kern/vmm_page.c and the malloc family  *)
(* of kern/malloc_wrappers.c.  Two counters share the memory above         *)
(* USER_MEM_START: page_count hands out frames upwards from                *)
(* user_ppf_start, highmem_page_count hands them out downwards from the    *)
(* top of memory.  Every frame is cleared as it is handed out, none is     *)
(* ever taken back, and neither counter looks at the other.                *)
(*                                                                         *)
(* Addresses are frame numbers.  highmem_ppf_start, in the code the last   *)
(* byte of memory, is here the number of the frame after it (the code adds *)
(* the 1 at every use).  A call that hands out n frames is one step: the   *)
(* allocators run in the kernel's main line only, no interrupt handler     *)
(* calls them.                                                             *)
(***************************************************************************)
EXTENDS Naturals, Sequences

CONSTANTS
  NumPPF,          \* machine_phys_frames()
  UserMemStart,    \* USER_MEM_START as a frame number
  PageSize,        \* PAGE_SIZE
  PgtabSize,       \* PGTAB_SIZE, the entries of a page table
  PgdirSize,       \* PGDIR_SIZE, the entries of a page directory
  AddressSpace,    \* 2^32 in the code: the range of a size_t
  Requests,        \* the page counts callers ask for
  Sizes,           \* the byte counts callers ask malloc for
  Demand           \* bound: the frames all the calls ask for together

ASSUME FrameAllocAssumption ==
  /\ NumPPF \in Nat
  /\ UserMemStart \in Nat \ {0}
  /\ UserMemStart < NumPPF
  /\ PageSize \in Nat \ {0}
  /\ PgtabSize \in Nat \ {0}
  /\ PgdirSize \in Nat
  /\ AddressSpace \in Nat \ {0}
  /\ Requests \subseteq Nat
  /\ Sizes \subseteq 0 .. AddressSpace - 1
  /\ Demand \in Nat

VARIABLES
  page_count,          \* frames handed out from the bottom
  highmem_page_count,  \* one more than the frames handed out from the top
  user_ppf_start,      \* first frame of the pool, 0 (NULL) before init
  highmem_ppf_start,   \* frame after the pool, AddressSpace before init
  grants,              \* history: the runs handed out, oldest first
  live,                \* the indices in grants nobody has freed
  dirty                \* the frames whose content is not all zero

counters == <<page_count, highmem_page_count>>
starts == <<user_ppf_start, highmem_ppf_start>>
vars == <<page_count, highmem_page_count, user_ppf_start, highmem_ppf_start,
          grants, live, dirty>>

Pool == UserMemStart .. NumPPF - 1

Frames(g) == g.first .. (g.first + g.count - 1)
Run(first, count) == [first |-> first, count |-> count]
Runs == [first : Nat, count : Nat \ {0}]

Init ==
  /\ page_count = 0
  /\ highmem_page_count = 1
  /\ user_ppf_start = 0
  /\ highmem_ppf_start = AddressSpace
  /\ grants = << >>
  /\ live = {}
  /\ dirty \in SUBSET Pool

-----------------------------------------------------------------------------
(* The callers.  kernel_main calls vmm_kernel_init before anything that    *)
(* allocates, and all calls together ask for at most Demand frames.        *)

Booted == user_ppf_start # 0
Handed == page_count + (highmem_page_count - 1)
Affordable(n) == Handed + n <= Demand

(* Mutant: the memset is forgotten.                                        *)
MutantHandOutUncleared(g) ==
  /\ grants' = Append(grants, g)
  /\ live' = live \cup {Len(grants) + 1}
  /\ UNCHANGED dirty

(* Record run g as handed out, its frames cleared by memset.               *)
HandOut(g) ==
  /\ grants' = Append(grants, g)
  /\ live' = live \cup {Len(grants) + 1}
  /\ dirty' = dirty \ Frames(g)

(* Mutant: the counter is advanced before the loop's last page.            *)
MutantLowRunShort(start, n) ==
  /\ page_count' = page_count + n - 1
  /\ HandOut(Run(start + page_count, n))
  /\ UNCHANGED highmem_page_count

(* n calls of vmm_ppf_alloc in a row, from low frame `start`.              *)
LowRun(start, n) ==
  /\ page_count' = page_count + n
  /\ HandOut(Run(start + page_count, n))
  /\ UNCHANGED highmem_page_count

(* Mutant: highmem_page_count starts the top run one frame too high.       *)
MutantHighTop == highmem_ppf_start - highmem_page_count + 1

(* n calls of vmm_ppf_highmem_alloc in a row.  The address returned is in  *)
(* the first, topmost, frame; the run extends down from it, and its base   *)
(* is what vmm_kernel_stack_init computes back from that address.          *)
HighTop == highmem_ppf_start - highmem_page_count
HighRun(n) ==
  /\ highmem_page_count' = highmem_page_count + n
  /\ HandOut(Run(HighTop + 1 - n, n))
  /\ UNCHANGED page_count

-----------------------------------------------------------------------------
(* VMM_NUM_PDES: the page tables that map num frames.                      *)
VMM_NUM_PDES(num) == ((num - 1) \div PgtabSize) + 1

(* vmm_page_init, as far as it concerns frames: it sets the two ends of    *)
(* the pool, then takes the kernel's page directory and page tables.       *)
vmm_page_init ==
  /\ ~Booted
  /\ Affordable(1 + VMM_NUM_PDES(NumPPF))
  /\ highmem_ppf_start' = NumPPF
  /\ user_ppf_start' = UserMemStart
  /\ LowRun(UserMemStart, 1 + VMM_NUM_PDES(NumPPF))

(* vmm_create_tables(PGDIR_SIZE) for a task: a directory, then its tables. *)
vmm_create_tables ==
  /\ Booted
  /\ Affordable(1 + PgdirSize)
  /\ LowRun(user_ppf_start, 1 + PgdirSize)
  /\ UNCHANGED starts

(* vmm_ppfs_alloc(n).  For n = 1 this is vmm_ppf_alloc and vmm_pt_alloc;   *)
(* for n = 0 the loop does nothing and NULL comes back.                    *)
vmm_ppfs_alloc(n) ==
  /\ Booted
  /\ n > 0
  /\ Affordable(n)
  /\ LowRun(user_ppf_start, n)
  /\ UNCHANGED starts

(* Mutant: the loop runs before its condition is tested.                   *)
MutantHighmemAllocEmpty(n) ==
  /\ Booted
  /\ Affordable(n)
  /\ HighRun(n)
  /\ UNCHANGED starts

(* vmm_ppfs_highmem_alloc(n), likewise.                                    *)
vmm_ppfs_highmem_alloc(n) ==
  /\ Booted
  /\ n > 0
  /\ Affordable(n)
  /\ HighRun(n)
  /\ UNCHANGED starts

(* The page count of malloc: size - 1 wraps around for size 0.             *)
MallocPages(size) ==
  (((size + AddressSpace - 1) % AddressSpace) \div PageSize) + 1

malloc(size) ==
  /\ Booted
  /\ Affordable(MallocPages(size))
  /\ LowRun(user_ppf_start, MallocPages(size))
  /\ UNCHANGED starts

(* Mutant: freeing rolls the low counter back, over other live runs.       *)
MutantFreeRollsBack(i) ==
  /\ live' = live \ {i}
  /\ page_count' = IF grants[i].count <= page_count
                     THEN page_count - grants[i].count ELSE page_count
  /\ UNCHANGED <<highmem_page_count, starts, grants, dirty>>

(* vmm_ppf_free and free are empty: the caller gives run i up, and the     *)
(* allocator forgets to take it back.                                      *)
vmm_ppf_free(i) ==
  /\ live' = live \ {i}
  /\ UNCHANGED <<counters, starts, grants, dirty>>

(* The holder of a live run writes into it.                                *)
HolderWrites(f) ==
  /\ \E i \in live : f \in Frames(grants[i])
  /\ f \notin dirty
  /\ dirty' = dirty \cup {f}
  /\ UNCHANGED <<counters, starts, grants, live>>

Next ==
  \/ vmm_page_init
  \/ vmm_create_tables
  \/ \E n \in Requests : vmm_ppfs_alloc(n) \/ vmm_ppfs_highmem_alloc(n)
  \/ \E size \in Sizes : malloc(size)
  \/ \E i \in live : vmm_ppf_free(i)
  \/ \E f \in UNION {Frames(grants[i]) : i \in live} : HolderWrites(f)

Spec == Init /\ [][Next]_vars

-----------------------------------------------------------------------------
(* What the boot sequence relies on: the machine has the memory the calls  *)
(* ask for.  Nothing in the code checks it.                                *)
Room == UserMemStart + Demand <= NumPPF

(* The counters, the history and the two ends of the pool have the values  *)
(* C's types and vmm_page_init give them.                                  *)
TypeOK ==
  /\ page_count \in Nat
  /\ highmem_page_count \in Nat \ {0}
  /\ user_ppf_start \in {0, UserMemStart}
  /\ highmem_ppf_start = IF Booted THEN NumPPF ELSE AddressSpace
  /\ grants \in Seq(Runs)
  /\ live \subseteq DOMAIN grants
  /\ dirty \subseteq Nat

(* No frame is handed out twice, whichever end of memory the two requests  *)
(* came from.                                                              *)
NoDoubleGrant ==
  \A i, j \in DOMAIN grants :
     i # j => Frames(grants[i]) \cap Frames(grants[j]) = {}

(* Every frame handed out is memory, and none is the kernel's own, below   *)
(* USER_MEM_START.                                                         *)
GrantsInPool == \A i \in DOMAIN grants : Frames(grants[i]) \subseteq Pool

(* "Just return the first available page" (vmm_page.c:52, vmm_ppf_alloc):  *)
(* a page that the low allocator returns is not one that somebody holds.   *)
ReturnsAvailable ==
  [][page_count' > page_count =>
       \A i \in live : Frames(grants[i]) \cap Frames(grants'[Len(grants')]) = {}]_vars

(* The memset of an allocation never clears a frame that somebody holds:   *)
(* what a holder wrote survives every later call.                          *)
HoldersKeepTheirData ==
  [][\A i \in live : \A f \in Frames(grants[i]) \cap dirty : f \in dirty']_vars

(* The allocators implement the abstract one: in particular a run is all   *)
(* zero when the caller gets it, whatever was in the memory, for page      *)
(* tables and stacks are used without being initialised again.             *)
Abstract == INSTANCE PhysicalFrames
ImplementsPhysicalFrames == Abstract!Spec
=============================================================================
