--------------------------- MODULE TaskVM_proofs ----------------------------
(***************************************************************************)
(* Two invariants of the task's address space.  First, its pages share no  *)
(* frame, for every machine and every executable whose segments lie above  *)
(* the kernel's part of memory, where the makefile links them (-Ttext      *)
(* 1000000, USER_MEM_START).  Second, it is left with the permissions its  *)
(* segments ask for, for every executable that shares no page table with   *)
(* the kernel's part of memory or with a stack.                            *)
(***************************************************************************)
EXTENDS TaskVM, Paging_proofs, FiniteSetTheorems

Early == {"vmm_kernel_init", "task_create", "thread_create"}
Kernel == 0 .. UserMemStart - 1

(* The first low frame that is not one of the page tables', and the pages  *)
(* of either stack.                                                        *)
NumTables == (1 + VMM_NUM_PDES(NumPPF)) + (1 + PGDIR_SIZE)
StackPages == PagesFor(StackSize)
FirstFree == UserMemStart + NumTables
UserStackBase == NumPPF - 2 * StackPages - 1

(* The executables the machine has memory for.                             *)
Loadable == {im \in Images : FitsMemory(im)}

(* No segment of an executable reaches the kernel's part of memory.        *)
AboveKernel(im) == ImagePages(im) \cap Kernel = {}

-----------------------------------------------------------------------------
(* The inductive invariant.                                                *)

HeaderInv ==
  /\ pc \in Early \cup {"create", "load", "zero", "start", "sched_yield", "user"}
  /\ se_hdr \in Images /\ FitsMemory(se_hdr) /\ AboveKernel(se_hdr)
  /\ seg \in Segments

(* The iteration vm_area_create is at works on a page of the segment.      *)
LoopInv ==
  /\ pc \in Early => loop.i = 0
  /\ pc = "create" => /\ loop.i \in Nat
                      /\ loop.i < NumPagesOf(Start, AreaSize(se_hdr, seg))

(* What the task has mapped of its executable.                             *)
Held == {p \in ImagePages(se_hdr) : Mapped(p)}

(* Every frame taken from the bottom is accounted for: the page tables',   *)
(* the user stack's, and one for each page of the executable, however      *)
(* often segments that share it ask for it.                                *)
CountInv ==
  /\ pc = "vmm_kernel_init" => page_count = 0
  /\ pc = "task_create" => page_count = 1 + VMM_NUM_PDES(NumPPF)
  /\ pc = "thread_create" => page_count = NumTables
  /\ pc \in Early => highmem_page_count = 1
  /\ pc \notin Early =>
       /\ highmem_page_count = 1 + StackPages
       /\ page_count \in NumTables + StackPages
                          .. NumTables + StackPages + Cardinality(Held)

(* A mapped page is one of the kernel's, on its own frame and out of the   *)
(* user's reach, or one of the kernel stack's, on its own frame too, or on *)
(* a frame taken from the bottom after the page tables.                    *)
OfKernel(p) ==
  /\ p \in Kernel /\ page_dir.pte[p].frame = p /\ "user" \notin page_dir.pte[p].flags
OfKernelStack(p) ==
  /\ pc \notin Early /\ p \in KernelStackPages /\ page_dir.pte[p].frame = p
OfLowFrame(p) ==
  /\ pc \notin Early /\ page_dir.pte[p].frame \in FirstFree .. NextLow - 1

PlacedInv ==
  \A p \in Pages : Mapped(p) => OfKernel(p) \/ OfKernelStack(p) \/ OfLowFrame(p)

UnsharedInv ==
  \A p, q \in Pages :
    Mapped(p) /\ Mapped(q) /\ p # q => page_dir.pte[p].frame # page_dir.pte[q].frame

(* After task_create every entry of the directory has a page table, so     *)
(* every page can be mapped.                                               *)
DirInv ==
  /\ page_dir \in PageDirectories
  /\ pc \notin {"vmm_kernel_init", "task_create"} =>
       \A r \in Regions : page_dir.pde[r] # {}
  /\ \A p \in Pages : ~Mapped(p) => page_dir.pte[p] = Unmapped

IInv ==
  HeaderInv /\ LoopInv /\ CountInv /\ PlacedInv /\ UnsharedInv /\ DirInv
-----------------------------------------------------------------------------
(* Arithmetic of pages and sizes.                                          *)

(* Division, multiplication and order, which the solver meets one at a     *)
(* time.                                                                   *)
LEMMA DivMul ==
  ASSUME NEW n \in Nat \ {0}
  PROVE  /\ \A a \in Nat : a \div n \in Nat
         /\ \A k \in Nat : (k * n) \div n = k
         /\ \A k \in Nat : \A a \in 0 .. k * n - 1 : a \div n \in 0 .. k - 1
OBVIOUS

(* The sizes the boot asks for are numbers of frames.                      *)
LEMMA Sizes ==
  /\ StackPages \in Nat \ {0}
  /\ VMM_NUM_PDES(NumPPF) \in Nat /\ NumTables \in Nat
  /\ NumPPF \in 1 .. NumPages /\ UserMemStart \in 1 .. NumPPF - 1
<1>1. /\ PAGE_SIZE \in Nat \ {0} /\ StackSize - 1 \in Nat
      /\ PGTAB_SIZE \in Nat \ {0} /\ PGDIR_SIZE \in Nat
      /\ NumPPF \in 1 .. NumPages /\ NumPPF - 1 \in Nat /\ UserMemStart \in 1 .. NumPPF - 1
  BY TaskVMAssumption, PagingAssumption, NumPagesPositive
<1>2. (StackSize - 1) \div PAGE_SIZE \in Nat
  BY <1>1, DivMul
<1>3. (NumPPF - 1) \div PGTAB_SIZE \in Nat
  BY <1>1, DivMul
<1> QED BY <1>1, <1>2, <1>3 DEF StackPages, PagesFor, NumTables, VMM_NUM_PDES

(* An address lies on a page of the address space.                         *)
LEMMA PageOfAddress ==
  ASSUME NEW addr \in Addresses
  PROVE  PageOf(addr) \in Pages
<1>1. PAGE_SIZE \in Nat \ {0} /\ NumPages \in Nat
  BY TaskVMAssumption, NumPagesPositive
<1>2. addr \in 0 .. NumPages * PAGE_SIZE - 1
  BY DEF Addresses, AddressSpace
<1> QED BY <1>1, <1>2, DivMul DEF PageOf, Pages

(* A range of pages that does not go around the end of the address space.  *)
LEMMA InRange ==
  ASSUME NEW from \in Pages, NEW n \in Nat, from + n <= NumPages, NEW p \in Pages
  PROVE  /\ Distance(from, p) < n <=> p \in from .. from + n - 1
         /\ p \in from .. from + n - 1 => Distance(from, p) = p - from
<1>1. NumPages \in Nat /\ from \in 0 .. NumPages - 1 /\ p \in 0 .. NumPages - 1
  BY NumPagesPositive DEF Pages
<1> QED BY <1>1, DistanceCases

(* What vmm_map_pages does to a directory with all its page tables.        *)
LEMMA MapRange ==
  ASSUME NEW dir \in PageDirectories, \A r \in Regions : dir.pde[r] # {},
         NEW from \in Pages, NEW n \in Nat, from + n <= NumPages,
         NEW frame \in Nat, NEW flags \in SUBSET Flags, flags # {}
  PROVE  /\ vmm_map_pages(dir, from, frame, n, flags) \in PageDirectories
         /\ \A r \in Regions : /\ vmm_map_pages(dir, from, frame, n, flags).pde[r] # {}
                               /\ vmm_map_pages(dir, from, frame, n, flags).pde[r]
                                    \in {dir.pde[r], flags}
         /\ \A p \in Pages :
              vmm_map_pages(dir, from, frame, n, flags).pte[p] =
                IF p \in from .. from + n - 1
                  THEN [frame |-> frame + (p - from), flags |-> flags]
                  ELSE dir.pte[p]
<1> DEFINE new == vmm_map_pages(dir, from, frame, n, flags)
<1>1. new \in PageDirectories
  BY DirectoriesClosed
<1>2. \A r \in Regions : new.pde[r] # {} /\ new.pde[r] \in {dir.pde[r], flags}
  BY DEF vmm_map_pages
<1>3. ASSUME NEW p \in Pages
      PROVE  new.pte[p] = IF p \in from .. from + n - 1
                            THEN [frame |-> frame + (p - from), flags |-> flags]
                            ELSE dir.pte[p]
  <2>1. dir.pde[VMM_GET_PDE(p)] # {}
    BY PdeOfPage
  <2>2. new.pte[p] = IF Distance(from, p) < n
                       THEN [frame |-> frame + Distance(from, p), flags |-> flags]
                       ELSE dir.pte[p]
    BY <2>1 DEF vmm_map_pages
  <2> QED BY <2>2, InRange
<1> QED BY <1>1, <1>2, <1>3

LEMMA MapRangeEntries ==
  ASSUME NEW dir \in PageDirectories, \A r \in Regions : dir.pde[r] # {},
         NEW from \in Pages, NEW n \in Nat, from + n <= NumPages, NEW frame, NEW flags,
         NEW p \in Pages, p \in from .. from + n - 1
  PROVE  vmm_map_pages(dir, from, frame, n, flags).pde[VMM_GET_PDE(p)] = flags
<1>1. VMM_GET_PDE(p) \in Regions /\ dir.pde[VMM_GET_PDE(p)] # {}
  BY PdeOfPage
<1>2. Distance(from, p) < n
  BY InRange
<1> QED BY <1>1, <1>2 DEF vmm_map_pages

(* The pages of the two stacks and of the images: the stack's lie at the   *)
(* top, the user's a page below the kernel's, and the pages of an image    *)
(* are counted.                                                            *)
LEMMA Room ==
  ASSUME NEW im, FitsMemory(im)
  PROVE  /\ IsFiniteSet(ImagePages(im)) /\ Cardinality(ImagePages(im)) \in Nat
         /\ FirstFree + 2 * StackPages + Cardinality(ImagePages(im)) <= NumPPF
<1>1. ImagePages(im) \in SUBSET Pages
  BY DEF ImagePages, AreaPages
<1>2. IsFiniteSet(Pages)
  BY FS_Interval, NumPagesPositive DEF Pages
<1>3. IsFiniteSet(ImagePages(im))
  BY <1>1, <1>2, FS_Subset
<1>4. Cardinality(ImagePages(im)) \in Nat
  BY <1>3, FS_CardinalityType
<1>5. FirstFree + 2 * StackPages + Cardinality(ImagePages(im)) <= NumPPF
  BY <1>4, Sizes, PagingAssumption DEF FitsMemory, FirstFree, NumTables, StackPages
<1> QED BY <1>3, <1>4, <1>5

-----------------------------------------------------------------------------
(* The pages of a segment.                                                 *)

LEMMA AreaSizes ==
  ASSUME NEW im \in Images, NEW s \in Segments
  PROVE  im.start[s] \in Addresses /\ AreaSize(im, s) \in Nat
BY TaskVMAssumption DEF AreaSize

(* An area has a page, and no more pages than there are.                   *)
LEMMA NumPagesOfArea ==
  ASSUME NEW start \in Addresses, NEW size \in Nat
  PROVE  NumPagesOf(start, size) \in 1 .. NumPages
<1> DEFINE last == (start + size - 1) % AddressSpace
<1>1. AddressSpace \in Nat \ {0}
  <2>1. \A a, b \in Nat \ {0} : a * b \in Nat \ {0}
    OBVIOUS
  <2> QED BY <2>1, TaskVMAssumption, NumPagesPositive DEF AddressSpace
<1>2. start + size - 1 \in Int
  BY <1>1 DEF Addresses
<1>3. last \in Addresses
  <2>1. \A n \in Nat \ {0} : \A a \in Int : a % n \in 0 .. n - 1
    OBVIOUS
  <2> QED BY <1>1, <1>2, <2>1 DEF Addresses
<1> HIDE DEF last
<1>4. PageOf(start) \in Pages /\ PageOf(last) \in Pages
  BY <1>3, PageOfAddress
<1>5. PageOf(start) \in 0 .. NumPages - 1 /\ PageOf(last) \in 0 .. NumPages - 1
  BY <1>4 DEF Pages
<1>6. Distance(PageOf(start), PageOf(last)) \in 0 .. NumPages - 1
  BY <1>4, <1>5, DistanceCases, NumPagesPositive
<1> QED BY <1>6, NumPagesPositive DEF NumPagesOf, last

(* The page an iteration of vm_area_create works on is one of the          *)
(* executable's, and so not one of the kernel's.                           *)
LEMMA CreatePage ==
  ASSUME HeaderInv, LoopInv, pc = "create"
  PROVE  /\ LoopPage(Start) \in Pages
         /\ LoopPage(Start) \in ImagePages(se_hdr)
         /\ LoopPage(Start) \notin Kernel
<1> DEFINE size == AreaSize(se_hdr, seg)
           page == LoopPage(Start)
<1>1. Start \in Addresses /\ size \in Nat
  BY AreaSizes DEF HeaderInv, Start
<1>2. PageOf(Start) \in Pages /\ NumPagesOf(Start, size) \in 1 .. NumPages
  BY <1>1, PageOfAddress, NumPagesOfArea
<1>3. loop.i \in 0 .. NumPages - 1 /\ loop.i < NumPagesOf(Start, size)
  BY <1>2, NumPagesPositive DEF LoopInv
<1>4. page \in Pages /\ Distance(PageOf(Start), page) = loop.i
  BY <1>2, <1>3, AtDistance DEF LoopPage
<1>5. page \in AreaPages(se_hdr, seg)
  BY <1>3, <1>4 DEF AreaPages, Start
<1>6. page \in ImagePages(se_hdr)
  BY <1>5 DEF ImagePages, HeaderInv
<1>7. page \notin Kernel
  BY <1>6 DEF HeaderInv, AboveKernel
<1> QED BY <1>4, <1>6, <1>7

-----------------------------------------------------------------------------
(* The invariant holds at the start, and every step keeps it.              *)

LEMMA InitInv ==
  ASSUME \A im \in Loadable : AboveKernel(im), Init
  PROVE  IInv
<1>1. HeaderInv
  BY DEF Init, HeaderInv, Early, Segments, Loadable
<1>2. \A p \in Pages : ~Mapped(p) /\ page_dir.pte[p] = Unmapped
  BY DEF Init, NoDir, vmm_create_tables, Mapped, Unmapped
<1>3. DirInv
  BY <1>2, DirectoriesClosed DEF Init, DirInv, NoDir
<1>4. LoopInv /\ CountInv
  BY DEF Init, LoopInv, CountInv, Early, NoLoop
<1>5. PlacedInv /\ UnsharedInv
  BY <1>2 DEF PlacedInv, UnsharedInv
<1> QED BY <1>1, <1>3, <1>4, <1>5 DEF IInv

(* A step that moves on without touching the task's directory.             *)
LEMMA MovesOn ==
  ASSUME IInv, pc \notin Early,
         pc' \in {"create", "load", "zero", "start", "sched_yield", "user"},
         seg' \in Segments, pc' = "create" => loop'.i = 0,
         UNCHANGED <<page_count, highmem_page_count, page_dir, se_hdr>>
  PROVE  IInv'
<1>1. pc' \notin Early
  BY DEF Early
<1>2. HeaderInv'
  BY <1>1 DEF IInv, HeaderInv
<1>3. LoopInv'
  <2>1. Start' \in Addresses /\ AreaSize(se_hdr', seg') \in Nat
    BY <1>2, AreaSizes DEF HeaderInv, Start
  <2>2. NumPagesOf(Start', AreaSize(se_hdr', seg')) \in 1 .. NumPages
    BY <2>1, NumPagesOfArea
  <2> QED BY <1>1, <2>2, NumPagesPositive DEF LoopInv
<1>4. \A p \in Pages : Mapped(p)' <=> Mapped(p)
  BY DEF Mapped
<1>5. Held' = Held
  BY DEF Held, Mapped
<1>6. CountInv'
  BY <1>1, <1>5 DEF IInv, CountInv, Early
<1>7. PlacedInv'
  BY <1>1, <1>4 DEF IInv, PlacedInv, OfKernel, OfKernelStack, OfLowFrame, NextLow
<1>8. UnsharedInv'
  BY <1>4 DEF IInv, UnsharedInv
<1>9. DirInv'
  BY <1>4, <1>1 DEF IInv, DirInv, Early
<1> QED BY <1>2, <1>3, <1>6, <1>7, <1>8, <1>9 DEF IInv

(* vmm_page_init takes frames for the kernel's directory only.             *)
LEMMA PageInitStep ==
  ASSUME IInv, vmm_page_init
  PROVE  IInv'
<1>1. /\ pc = "vmm_kernel_init" /\ pc' = "task_create"
      /\ UNCHANGED <<highmem_page_count, page_dir, se_hdr, seg, loop>>
      /\ page_count' = page_count + 1 + VMM_NUM_PDES(NumPPF)
  BY DEF vmm_page_init, load
<1>2. \A p \in Pages : Mapped(p)' <=> Mapped(p)
  BY <1>1 DEF Mapped
<1>3. HeaderInv' /\ LoopInv'
  BY <1>1 DEF IInv, HeaderInv, LoopInv, Early
<1>4. CountInv'
  BY <1>1, Sizes DEF IInv, CountInv, Early
<1>5. PlacedInv'
  BY <1>1, <1>2 DEF IInv, PlacedInv, OfKernel, OfKernelStack, OfLowFrame, Early
<1>6. UnsharedInv' /\ DirInv'
  BY <1>1, <1>2 DEF IInv, UnsharedInv, DirInv
<1> QED BY <1>3, <1>4, <1>5, <1>6 DEF IInv

(* task_create maps the kernel's part of memory onto itself.               *)
LEMMA TaskDirectory ==
  ASSUME task_create
  PROVE  /\ page_dir' \in PageDirectories
         /\ \A r \in Regions : page_dir'.pde[r] = SU_RW
         /\ \A p \in Pages :
              page_dir'.pte[p] = IF p \in Kernel THEN [frame |-> p, flags |-> SU_RW]
                                                 ELSE Unmapped
<1> DEFINE dir == vmm_create_tables(PGDIR_SIZE)
           new == vmm_map_pages(dir, 0, 0, UserMemStart, SU_RW)
<1>1. page_dir' = new
  BY DEF task_create, vmm_task_init, vm_area_create_identity
<1>2. SU_RW \in SUBSET Flags /\ SU_RW # {}
  BY DEF SU_RW, Flags
<1>3. /\ dir \in PageDirectories
      /\ \A r \in Regions : dir.pde[r] = SU_RW
      /\ \A p \in Pages : dir.pte[p] = Unmapped
  <2>1. dir \in PageDirectories
    BY DirectoriesClosed, PagingAssumption
  <2>2. ASSUME NEW r \in Regions
        PROVE  dir.pde[r] = SU_RW
    BY PagingAssumption DEF vmm_create_tables, Regions
  <2>3. ASSUME NEW p \in Pages
        PROVE  dir.pte[p] = Unmapped
    BY DEF vmm_create_tables
  <2> QED BY <2>1, <2>2, <2>3
<1> HIDE DEF dir
<1>4. 0 \in Pages /\ UserMemStart \in Nat /\ 0 + UserMemStart <= NumPages
  BY Sizes, NumPagesPositive DEF Pages
<1>5. /\ new \in PageDirectories
      /\ \A r \in Regions : new.pde[r] \in {dir.pde[r], SU_RW}
      /\ \A p \in Pages :
           new.pte[p] = IF p \in 0 .. 0 + UserMemStart - 1
                          THEN [frame |-> 0 + (p - 0), flags |-> SU_RW]
                          ELSE dir.pte[p]
  BY <1>2, <1>3, <1>4, MapRange
<1> HIDE DEF new
<1>6. ASSUME NEW p \in Pages
      PROVE  new.pte[p] = IF p \in Kernel THEN [frame |-> p, flags |-> SU_RW]
                                          ELSE Unmapped
  <2>1. p \in Nat /\ 0 .. 0 + UserMemStart - 1 = Kernel /\ 0 + (p - 0) = p
    BY <1>4 DEF Pages, Kernel
  <2> QED BY <1>3, <1>5, <2>1
<1> QED BY <1>1, <1>3, <1>5, <1>6

LEMMA TaskCreateStep ==
  ASSUME IInv, task_create
  PROVE  IInv'
<1>1. /\ pc = "task_create" /\ pc' = "thread_create"
      /\ UNCHANGED <<highmem_page_count, se_hdr, seg, loop>>
      /\ page_count' = page_count + 1 + PGDIR_SIZE
  BY DEF task_create, load, boot
<1>2. SU_RW # {} /\ "user" \notin SU_RW
  BY DEF SU_RW
<1>3. /\ page_dir' \in PageDirectories
      /\ \A r \in Regions : page_dir'.pde[r] # {}
      /\ \A p \in Pages :
           page_dir'.pte[p] = IF p \in Kernel THEN [frame |-> p, flags |-> SU_RW]
                                              ELSE Unmapped
  BY <1>2, TaskDirectory
<1>4. ASSUME NEW p \in Pages
      PROVE  /\ Mapped(p)' => p \in Kernel /\ page_dir'.pte[p] = [frame |-> p, flags |-> SU_RW]
             /\ ~Mapped(p)' => page_dir'.pte[p] = Unmapped
  <2>1. CASE p \in Kernel
    BY <1>2, <1>3, <2>1 DEF Mapped
  <2>2. CASE p \notin Kernel
    <3>1. page_dir'.pte[p] = Unmapped
      BY <1>3, <2>2
    <3>2. ~Mapped(p)'
      BY <3>1 DEF Mapped, Unmapped
    <3> QED BY <2>2, <3>1, <3>2
  <2> QED BY <2>1, <2>2
<1>5. HeaderInv' /\ LoopInv'
  BY <1>1 DEF IInv, HeaderInv, LoopInv, Early
<1>6. CountInv'
  BY <1>1, Sizes, PagingAssumption DEF IInv, CountInv, Early, NumTables
<1>7. PlacedInv'
  <2>1. ASSUME NEW p \in Pages, Mapped(p)'
        PROVE  OfKernel(p)'
    <3>1. p \in Kernel /\ page_dir'.pte[p] = [frame |-> p, flags |-> SU_RW]
      BY <1>4, <2>1
    <3>2. page_dir'.pte[p].frame = p /\ page_dir'.pte[p].flags = SU_RW
      BY <3>1
    <3> QED BY <1>2, <3>1, <3>2 DEF OfKernel
  <2> QED BY <2>1 DEF PlacedInv
<1>8. UnsharedInv'
  <2>1. ASSUME NEW p \in Pages, Mapped(p)'
        PROVE  page_dir'.pte[p].frame = p
    <3>1. page_dir'.pte[p] = [frame |-> p, flags |-> SU_RW]
      BY <1>4, <2>1
    <3> QED BY <3>1
  <2> QED BY <2>1 DEF UnsharedInv
<1>9. DirInv'
  BY <1>3, <1>4 DEF DirInv
<1> QED BY <1>5, <1>6, <1>7, <1>8, <1>9 DEF IInv

(* The stacks and the tables have room, whatever the executable.           *)
LEMMA RoomForStacks ==
  ASSUME IInv
  PROVE  /\ StackPages \in Nat \ {0} /\ FirstFree \in Nat
         /\ UserMemStart \in Nat /\ UserMemStart < FirstFree
         /\ NumPPF \in Nat /\ NumPPF <= NumPages /\ FirstFree + 2 * StackPages <= NumPPF
<1>1. FirstFree + 2 * StackPages + Cardinality(ImagePages(se_hdr)) <= NumPPF
      /\ Cardinality(ImagePages(se_hdr)) \in Nat
  BY Room DEF IInv, HeaderInv
<1>2. StackPages \in Nat \ {0} /\ NumTables \in Nat /\ NumTables # 0
  BY Sizes, PagingAssumption DEF NumTables
<1> QED BY <1>1, <1>2, Sizes, NumPagesPositive DEF FirstFree

(* thread_create maps the stacks on the n frames at the top of memory and  *)
(* on the next n from the bottom, which the machine has both.              *)
LEMMA StackDirectory ==
  ASSUME IInv, thread_create
  PROVE  /\ page_dir' \in PageDirectories
         /\ \A r \in Regions : page_dir'.pde[r] \in {page_dir.pde[r], USR_RW}
         /\ \A p \in Pages : p \in UserStackBase .. UserStackBase + StackPages - 1 =>
                               page_dir'.pde[VMM_GET_PDE(p)] = USR_RW
         /\ \A p \in Pages :
              page_dir'.pte[p] =
                IF p \in UserStackBase .. UserStackBase + StackPages - 1
                  THEN [frame |-> FirstFree + (p - UserStackBase), flags |-> USR_RW]
                  ELSE IF p \in KernelStackPages
                    THEN [frame |-> p, flags |-> USR_RW]
                    ELSE page_dir.pte[p]
<1> DEFINE n == StackPages
           base == NumPPF - n
           user == UserStackBase
           low == FirstFree
           one == vmm_map_pages(page_dir, base, base, n, USR_RW)
           two == vmm_map_pages(one, user, low, n, USR_RW)
<1>1. pc = "thread_create" /\ page_dir' = vmm_thread_init(page_dir, n)
  BY DEF thread_create, StackPages
<1>2. /\ page_count = NumTables /\ highmem_page_count = 1
      /\ NextLow = FirstFree /\ NextHigh = NumPPF - 1
      /\ page_dir \in PageDirectories /\ \A r \in Regions : page_dir.pde[r] # {}
  BY <1>1, Sizes DEF IInv, CountInv, DirInv, Early, NextLow, NextHigh, FirstFree
<1>3. /\ n \in Nat \ {0} /\ FirstFree \in Nat
      /\ NumPPF \in Nat /\ NumPPF <= NumPages /\ FirstFree + 2 * n <= NumPPF
      /\ UserMemStart < FirstFree /\ UserMemStart \in Nat
      /\ user = NumPPF - 2 * n - 1
  BY RoomForStacks DEF UserStackBase
<1>4. USR_RW \in SUBSET Flags /\ USR_RW # {}
  BY DEF USR_RW, Flags
<1> HIDE DEF n, user
<1>5. /\ base \in Pages /\ base + n <= NumPages
      /\ user \in Pages /\ user + n <= NumPages
  BY <1>3, NumPagesPositive DEF Pages
(* The expression of vmm_thread_init for the first page of the user stack. *)
<1>6. PageOf(UserStackTop(KernelStack, n) - n * PAGE_SIZE + 1) = user
  <2>1. PAGE_SIZE \in Nat \ {0}
    BY TaskVMAssumption
  <2>2. KernelStack = NumPPF * PAGE_SIZE - 1
    BY <1>2, <1>3 DEF KernelStack
  <2>3. UserStackTop(KernelStack, n) = NumPPF * PAGE_SIZE - 1 - (n + 1) * PAGE_SIZE
    BY <2>2 DEF UserStackTop
  <2>4. UserStackTop(KernelStack, n) - n * PAGE_SIZE + 1 = user * PAGE_SIZE
    BY <1>3, <2>1, <2>3
  <2>5. user \in Nat
    BY <1>3
  <2>6. (user * PAGE_SIZE) \div PAGE_SIZE = user
    BY <2>1, <2>5, DivMul
  <2> QED BY <2>4, <2>6 DEF PageOf
<1>7. page_dir' = two
  <2>1. KernelBase(n) = base
    BY <1>2, <1>3 DEF KernelBase
  <2> QED BY <1>1, <1>2, <1>6, <2>1 DEF vmm_thread_init, vmm_kernel_stack_init
<1>8. /\ base = NumPPF - n /\ low = FirstFree
      /\ base \in Nat /\ user \in Nat /\ low \in Nat
  BY <1>3
<1>9. /\ one \in PageDirectories
      /\ \A r \in Regions : one.pde[r] # {} /\ one.pde[r] \in {page_dir.pde[r], USR_RW}
      /\ \A p \in Pages :
           one.pte[p] = IF p \in base .. base + n - 1
                          THEN [frame |-> base + (p - base), flags |-> USR_RW]
                          ELSE page_dir.pte[p]
  <2> HIDE DEF base
  <2>1. /\ page_dir \in PageDirectories /\ \A r \in Regions : page_dir.pde[r] # {}
        /\ base \in Pages /\ base \in Nat /\ n \in Nat /\ base + n <= NumPages
    BY <1>2, <1>3, <1>5, <1>8
  <2>2. one \in PageDirectories
    BY <1>4, <2>1, MapRange
  <2>3. ASSUME NEW r \in Regions
        PROVE  one.pde[r] # {} /\ one.pde[r] \in {page_dir.pde[r], USR_RW}
    BY <1>4, <2>1, MapRange
  <2>4. ASSUME NEW p \in Pages
        PROVE  one.pte[p] = IF p \in base .. base + n - 1
                              THEN [frame |-> base + (p - base), flags |-> USR_RW]
                              ELSE page_dir.pte[p]
    BY <1>4, <2>1, MapRange
  <2> QED BY <2>2, <2>3, <2>4
<1> HIDE DEF base, low, one
<1>10. /\ two \in PageDirectories
       /\ \A r \in Regions : two.pde[r] \in {one.pde[r], USR_RW}
       /\ \A p \in Pages :
            two.pte[p] = IF p \in user .. user + n - 1
                           THEN [frame |-> low + (p - user), flags |-> USR_RW]
                           ELSE one.pte[p]
  <2>1. /\ one \in PageDirectories /\ \A r \in Regions : one.pde[r] # {}
        /\ user \in Pages /\ n \in Nat /\ user + n <= NumPages /\ low \in Nat
    BY <1>3, <1>5, <1>8, <1>9
  <2> QED BY <1>4, <2>1, MapRange
<1>13. ASSUME NEW p \in Pages, p \in user .. user + n - 1
       PROVE  two.pde[VMM_GET_PDE(p)] = USR_RW
  <2>1. /\ one \in PageDirectories /\ \A r \in Regions : one.pde[r] # {}
        /\ user \in Pages /\ n \in Nat /\ user + n <= NumPages
    BY <1>3, <1>5, <1>8, <1>9
  <2> QED BY <1>13, <2>1, MapRangeEntries
<1> HIDE DEF two
<1>11. ASSUME NEW p \in Pages
       PROVE  two.pte[p] =
                IF p \in user .. user + n - 1
                  THEN [frame |-> low + (p - user), flags |-> USR_RW]
                  ELSE IF p \in KernelStackPages
                    THEN [frame |-> p, flags |-> USR_RW]
                    ELSE page_dir.pte[p]
  <2>1. p \in Nat
    BY DEF Pages
  <2>2. base .. base + n - 1 = KernelStackPages /\ base + (p - base) = p
    BY <1>3, <1>8, <2>1 DEF KernelStackPages, n, StackPages
  <2> QED BY <1>9, <1>10, <2>2
<1>12. \A r \in Regions : two.pde[r] \in {page_dir.pde[r], USR_RW}
  BY <1>9, <1>10
<1> QED BY <1>7, <1>8, <1>10, <1>11, <1>12, <1>13 DEF n, user

LEMMA ThreadCreateStep ==
  ASSUME IInv, thread_create
  PROVE  IInv'
<1> DEFINE n == StackPages
           base == NumPPF - n
           user == UserStackBase
           low == FirstFree
<1>1. /\ pc = "thread_create" /\ pc' = "create"
      /\ UNCHANGED <<se_hdr, seg, loop>>
      /\ page_count' = page_count + n
      /\ highmem_page_count' = highmem_page_count + n
  BY DEF thread_create, load, boot, StackPages
<1>2. page_count = NumTables /\ highmem_page_count = 1
  BY <1>1 DEF IInv, CountInv, Early
<1>3. /\ n \in Nat \ {0} /\ FirstFree \in Nat /\ UserMemStart \in Nat /\ UserMemStart < FirstFree
      /\ NumPPF \in Nat /\ NumPPF <= NumPages /\ FirstFree + 2 * n <= NumPPF
  BY RoomForStacks
<1>4. USR_RW # {}
  BY DEF USR_RW
<1>8. /\ base = NumPPF - n /\ user = NumPPF - 2 * n - 1 /\ low = FirstFree
      /\ base \in Nat /\ user \in Nat /\ low \in Nat
  BY <1>3 DEF UserStackBase
<1>9. /\ page_dir' \in PageDirectories /\ \A r \in Regions : page_dir'.pde[r] # {}
      /\ \A p \in Pages :
           page_dir'.pte[p] = IF p \in user .. user + n - 1
                                THEN [frame |-> low + (p - user), flags |-> USR_RW]
                                ELSE IF p \in KernelStackPages
                                  THEN [frame |-> p, flags |-> USR_RW]
                                  ELSE page_dir.pte[p]
  <2>1. \A r \in Regions : page_dir.pde[r] # {}
    BY <1>1 DEF IInv, DirInv
  <2> QED BY <1>4, <2>1, StackDirectory
<1> HIDE DEF n, base, user, low
(* The four kinds of pages.                                                *)
<1>10. ASSUME NEW p \in Pages
       PROVE  LET e == page_dir'.pte[p]
              IN  \/ p \in user .. user + n - 1 /\ e.frame = low + (p - user) /\ Mapped(p)'
                  \/ p \in KernelStackPages /\ e.frame = p /\ Mapped(p)'
                  \/ p \in Kernel /\ e.frame = p /\ OfKernel(p)' /\ Mapped(p)'
                  \/ ~Mapped(p)' /\ e = Unmapped
  <2>1. p \in Nat
    BY DEF Pages
  <2>2. CASE p \in user .. user + n - 1
    <3>1. page_dir'.pte[p] = [frame |-> low + (p - user), flags |-> USR_RW]
      BY <1>9, <2>2
    <3> QED BY <1>4, <2>2, <3>1 DEF Mapped
  <2>3. CASE p \in KernelStackPages
    <3>1. p \notin user .. user + n - 1
      BY <1>3, <1>8, <2>1, <2>3 DEF KernelStackPages, n, StackPages
    <3>2. page_dir'.pte[p] = [frame |-> p, flags |-> USR_RW]
      BY <1>9, <2>3, <3>1
    <3> QED BY <1>4, <2>3, <3>2 DEF Mapped
  <2>4. CASE p \notin user .. user + n - 1 /\ p \notin KernelStackPages
    <3>1. page_dir'.pte[p] = page_dir.pte[p]
      BY <1>9, <2>4
    <3>2. CASE Mapped(p)
      <4>1. OfKernel(p)
        BY <1>1, <3>2 DEF IInv, PlacedInv, OfKernelStack, OfLowFrame, Early
      <4>2. p \in Kernel /\ page_dir'.pte[p].frame = p /\ Mapped(p)'
        BY <3>1, <3>2, <4>1 DEF OfKernel, Mapped
      <4>3. OfKernel(p)'
        BY <3>1, <4>1 DEF OfKernel
      <4> QED BY <4>2, <4>3
    <3>3. CASE ~Mapped(p)
      <4>1. page_dir.pte[p] = Unmapped
        BY <3>3 DEF IInv, DirInv
      <4> QED BY <3>1, <3>3, <4>1 DEF Mapped
    <3> QED BY <3>2, <3>3
  <2> QED BY <2>2, <2>3, <2>4
<1>11. HeaderInv'
  BY <1>1 DEF IInv, HeaderInv, Early
<1>12. LoopInv'
  <2>1. Start' \in Addresses /\ AreaSize(se_hdr', seg') \in Nat
    BY <1>11, AreaSizes DEF HeaderInv, Start
  <2>2. NumPagesOf(Start', AreaSize(se_hdr', seg')) \in 1 .. NumPages
    BY <2>1, NumPagesOfArea
  <2>3. loop'.i = 0
    BY <1>1 DEF IInv, LoopInv, Early
  <2> QED BY <1>1, <2>2, <2>3, NumPagesPositive DEF LoopInv, Early
<1>13. Cardinality(Held') \in Nat
  <2>1. /\ IsFiniteSet(ImagePages(se_hdr'))
    BY <1>11, Room DEF HeaderInv
  <2>2. Held' \in SUBSET ImagePages(se_hdr')
    BY DEF Held
  <2> QED BY <2>1, <2>2, FS_Subset, FS_CardinalityType
<1>14. CountInv'
  <2>1. Cardinality(Held)' \in Nat
    BY <1>13
  <2> QED BY <1>1, <1>2, <1>3, <2>1, Sizes DEF CountInv, Early, n
<1>15. NextLow' = FirstFree + n
  BY <1>1, <1>2, <1>3, Sizes DEF NextLow, FirstFree
<1>16. PlacedInv'
  <2>1. ASSUME NEW p \in Pages, Mapped(p)'
        PROVE  (OfKernel(p) \/ OfKernelStack(p) \/ OfLowFrame(p))'
    <3>1. CASE p \in user .. user + n - 1 /\ page_dir'.pte[p].frame = low + (p - user)
      <4>1. low + (p - user) \in FirstFree .. FirstFree + n - 1
        <5>1. p \in user .. user + n - 1
          BY <3>1
        <5>2. low = FirstFree /\ user \in Nat /\ low \in Nat /\ n \in Nat
          BY <1>3, <1>8
        <5> QED BY <5>1, <5>2
      <4>2. page_dir'.pte[p].frame \in FirstFree .. NextLow' - 1
        <5>1. NextLow' - 1 = FirstFree + n - 1
          BY <1>3, <1>15
        <5> QED BY <3>1, <4>1, <5>1
      <4> QED BY <1>1, <4>2 DEF OfLowFrame, Early
    <3>2. CASE p \in KernelStackPages /\ page_dir'.pte[p].frame = p
      BY <1>1, <3>2 DEF OfKernelStack, Early
    <3> QED BY <1>10, <2>1, <3>1, <3>2
  <2> QED BY <2>1 DEF PlacedInv
<1>17. UnsharedInv'
  <2>1. ASSUME NEW p \in Pages, Mapped(p)'
        PROVE  LET f == page_dir'.pte[p].frame
               IN  \/ p \in user .. user + n - 1 /\ f = low + (p - user)
                   \/ p \in base .. NumPPF - 1 /\ f = p
                   \/ p \in 0 .. UserMemStart - 1 /\ f = p
    BY <1>8, <1>10, <2>1 DEF KernelStackPages, Kernel, n, StackPages
  <2>2. ASSUME NEW p \in Pages, NEW q \in Pages, Mapped(p)', Mapped(q)', p # q
        PROVE  page_dir'.pte[p].frame # page_dir'.pte[q].frame
    <3>1. p \in Nat /\ q \in Nat
      BY DEF Pages
    <3> QED BY <1>3, <1>8, <2>1, <2>2, <3>1
  <2> QED BY <2>2 DEF UnsharedInv
<1>18. DirInv'
  <2>1. \A p \in Pages : ~Mapped(p)' => page_dir'.pte[p] = Unmapped
    BY <1>10
  <2> QED BY <1>9, <2>1 DEF DirInv
<1> QED BY <1>11, <1>12, <1>14, <1>16, <1>17, <1>18 DEF IInv

(* vm_area_create gives a page that has no frame the next one from the     *)
(* bottom, which is below the kernel stack's because no page of the        *)
(* executable was ever given two.                                          *)
LEMMA CreateStep ==
  ASSUME IInv, vm_area_create
  PROVE  IInv'
<1>1. pc = "create" /\ pc \notin Early /\ UNCHANGED <<highmem_page_count, se_hdr, seg>>
  BY DEF vm_area_create, Early
<1>2. PICK page \in Pages :
        page = LoopPage(Start) /\ page \in ImagePages(se_hdr) /\ page \notin Kernel
  BY <1>1, CreatePage DEF IInv
<1> DEFINE size == AreaSize(se_hdr, seg)
           entry == page_dir.pte[page]
           fresh == entry = Unmapped
           frame == IF fresh THEN NextLow ELSE entry.frame
<1>3. page_dir \in PageDirectories /\ \A r \in Regions : page_dir.pde[r] # {}
  BY <1>1 DEF IInv, DirInv, Early
<1>4. VMM_GET_PDE(page) \in Regions /\ vmm_get_mapping(page_dir, page) = entry
  BY <1>2, <1>3, PdeOfPage DEF vmm_get_mapping
<1>5. SegFlags \in SUBSET Flags /\ SegFlags # {}
  BY DEF SegFlags, USR_RW, USR_RO, Flags
<1>6. /\ page_dir' = vmm_map_page(page_dir, page, frame, SegFlags)
      /\ page_count' = IF fresh THEN page_count + 1 ELSE page_count
  BY <1>2, <1>4 DEF vm_area_create
<1>7. \/ loop.i + 1 < NumPagesOf(Start, size) /\ loop' = [loop EXCEPT !.i = @ + 1] /\ pc' = pc
      \/ pc' = "load"
  BY DEF vm_area_create
<1> HIDE DEF frame
(* The directory afterwards.                                               *)
<1>8. /\ page_dir' = [pde |-> [page_dir.pde EXCEPT ![VMM_GET_PDE(page)] = SegFlags],
                     pte |-> [page_dir.pte EXCEPT
                                ![page] = [frame |-> frame, flags |-> SegFlags]]]
  BY <1>3, <1>4, <1>6 DEF vmm_map_page
<1>9. /\ page_dir'.pte[page] = [frame |-> frame, flags |-> SegFlags]
      /\ \A p \in Pages \ {page} : page_dir'.pte[p] = page_dir.pte[p]
      /\ \A r \in Regions : page_dir'.pde[r] # {}
  BY <1>2, <1>3, <1>4, <1>5, <1>8 DEF PageDirectories
<1>10. Mapped(page)' /\ \A p \in Pages \ {page} : Mapped(p)' <=> Mapped(p)
  BY <1>5, <1>9 DEF Mapped
<1>11. fresh <=> ~Mapped(page)
  BY <1>2 DEF IInv, DirInv, Mapped, Unmapped
<1>12. HeaderInv' /\ pc' \notin Early
  BY <1>1, <1>7 DEF IInv, HeaderInv, Early
<1>13. LoopInv'
  <2>1. CASE pc' = "load"
    BY <1>12, <2>1 DEF LoopInv
  <2>2. CASE loop.i + 1 < NumPagesOf(Start, size) /\ loop' = [loop EXCEPT !.i = @ + 1]
    <3>1. Start' = Start /\ AreaSize(se_hdr', seg') = size
      BY <1>1 DEF Start
    <3>2. loop.i \in Nat
      BY <1>1 DEF IInv, LoopInv
    <3>3. loop'.i = loop.i + 1
      BY <2>2, <1>1 DEF IInv, LoopInv
    <3> QED BY <1>1, <1>12, <2>2, <3>1, <3>2, <3>3 DEF LoopInv
  <2> QED BY <1>7, <2>1, <2>2
<1>14. Held' = Held \cup {page}
  BY <1>1, <1>2, <1>10 DEF Held, ImagePages, AreaPages
<1>15. /\ Cardinality(Held) \in Nat
       /\ Cardinality(Held') = IF fresh THEN Cardinality(Held) + 1 ELSE Cardinality(Held)
       /\ Cardinality(Held') <= Cardinality(ImagePages(se_hdr))
       /\ Cardinality(ImagePages(se_hdr)) \in Nat
       /\ FirstFree + 2 * StackPages + Cardinality(ImagePages(se_hdr)) <= NumPPF
  <2>1. /\ IsFiniteSet(ImagePages(se_hdr)) /\ Cardinality(ImagePages(se_hdr)) \in Nat
        /\ FirstFree + 2 * StackPages + Cardinality(ImagePages(se_hdr)) <= NumPPF
    BY Room DEF IInv, HeaderInv
  <2>2. Held \in SUBSET ImagePages(se_hdr) /\ Held' \in SUBSET ImagePages(se_hdr)
    BY <1>2, <1>14 DEF Held
  <2>3. IsFiniteSet(Held) /\ Cardinality(Held) \in Nat
    BY <2>1, <2>2, FS_Subset, FS_CardinalityType
  <2>4. Cardinality(Held') <= Cardinality(ImagePages(se_hdr))
    BY <2>1, <2>2, FS_Subset
  <2>5. page \in Held <=> ~fresh
    BY <1>2, <1>11 DEF Held
  <2>6. Cardinality(Held') = IF page \in Held THEN Cardinality(Held) ELSE Cardinality(Held) + 1
    BY <1>14, <2>3, FS_AddElement
  <2> QED BY <2>1, <2>3, <2>4, <2>5, <2>6
<1>16. /\ highmem_page_count = 1 + StackPages
       /\ page_count \in NumTables + StackPages .. NumTables + StackPages + Cardinality(Held)
  BY <1>1 DEF IInv, CountInv
<1> HIDE DEF fresh
<1>17. CountInv'
  <2>1. page_count' \in NumTables + StackPages .. NumTables + StackPages + Cardinality(Held')
    BY <1>6, <1>15, <1>16, Sizes
  <2> QED BY <1>1, <1>12, <1>16, <2>1 DEF CountInv, Early
(* The frame NextLow is free.                                              *)
<1>18. /\ FirstFree \in Nat /\ UserMemStart \in 1 .. FirstFree - 1
       /\ NextLow \in Nat /\ FirstFree <= NextLow
       /\ fresh => NextLow < NumPPF - StackPages
       /\ NextLow' = IF fresh THEN NextLow + 1 ELSE NextLow
       /\ StackPages \in Nat /\ NumPPF \in Nat
  <2>1. NumTables \in Nat \ {0}
    BY Sizes, PagingAssumption DEF NumTables
  <2> QED BY <1>6, <1>15, <1>16, <2>1, Sizes DEF NextLow, FirstFree
<1>19. frame = IF fresh THEN NextLow ELSE page_dir.pte[page].frame
  BY DEF frame, fresh
<1>20. page_dir' \in PageDirectories
  <2>1. page_dir.pte[page].frame \in Nat
    BY <1>2, <1>3 DEF PageDirectories
  <2>2. frame \in Nat
    BY <1>18, <1>19, <2>1
  <2> QED BY <1>2, <1>3, <1>5, <1>6, <2>2, DirectoriesClosed
<1>21. DirInv'
  BY <1>9, <1>10, <1>12, <1>20 DEF IInv, DirInv, Early
(* The classes of the frames before the step.                              *)
<1>22. ASSUME NEW p \in Pages, Mapped(p)
       PROVE  \/ OfKernel(p) /\ page_dir.pte[p].frame \in 0 .. UserMemStart - 1
              \/ /\ p \in KernelStackPages /\ page_dir.pte[p].frame = p
                 /\ page_dir.pte[p].frame \in NumPPF - StackPages .. NumPPF - 1
              \/ page_dir.pte[p].frame \in FirstFree .. NextLow - 1
  BY <1>22 DEF IInv, PlacedInv, OfKernel, OfKernelStack, OfLowFrame, Kernel,
               KernelStackPages, StackPages
<1>23. PlacedInv'
  <2>1. ASSUME NEW p \in Pages, Mapped(p)'
        PROVE  (OfKernel(p) \/ OfKernelStack(p) \/ OfLowFrame(p))'
    <3>1. CASE p = page /\ fresh
      <4>1. page_dir'.pte[p].frame \in FirstFree .. NextLow' - 1
        BY <1>9, <1>18, <1>19, <3>1
      <4> QED BY <1>12, <4>1 DEF OfLowFrame
    <3>2. CASE p = page /\ ~fresh
      <4>1. Mapped(p) /\ ~OfKernel(p)
        BY <1>2, <1>11, <3>2 DEF OfKernel
      <4>2. page_dir'.pte[p].frame = page_dir.pte[p].frame /\ NextLow' = NextLow
        BY <1>9, <1>18, <1>19, <3>2
      <4> QED BY <1>12, <1>22, <4>1, <4>2 DEF OfKernelStack, OfLowFrame
    <3>3. CASE p # page
      <4>1. Mapped(p) /\ page_dir'.pte[p] = page_dir.pte[p]
        BY <1>9, <1>10, <2>1, <3>3
      <4>2. CASE OfKernel(p)
        BY <4>1, <4>2 DEF OfKernel
      <4>3. CASE p \in KernelStackPages /\ page_dir.pte[p].frame = p
        BY <1>12, <4>1, <4>3 DEF OfKernelStack
      <4>4. CASE page_dir.pte[p].frame \in FirstFree .. NextLow - 1
        <5>1. page_dir'.pte[p].frame \in FirstFree .. NextLow' - 1
          BY <1>18, <4>1, <4>4
        <5> QED BY <1>12, <5>1 DEF OfLowFrame
      <4> QED BY <1>22, <4>1, <4>2, <4>3, <4>4
    <3> QED BY <3>1, <3>2, <3>3
  <2> QED BY <2>1 DEF PlacedInv
<1>24. UnsharedInv'
  <2>1. ASSUME NEW p \in Pages \ {page}, Mapped(p)
        PROVE  page_dir.pte[p].frame # frame
    <3>1. CASE fresh
      BY <1>18, <1>19, <1>22, <2>1, <3>1
    <3>2. CASE ~fresh
      BY <1>2, <1>11, <1>19, <2>1, <3>2 DEF IInv, UnsharedInv
    <3> QED BY <3>1, <3>2
  <2>2. ASSUME NEW p \in Pages, NEW q \in Pages, Mapped(p)', Mapped(q)', p # q
        PROVE  page_dir'.pte[p].frame # page_dir'.pte[q].frame
    <3>1. CASE p # page /\ q # page
      BY <1>9, <1>10, <2>2, <3>1 DEF IInv, UnsharedInv
    <3>2. CASE p = page \/ q = page
      BY <1>9, <1>10, <2>1, <2>2, <3>2
    <3> QED BY <3>1, <3>2
  <2> QED BY <2>2 DEF UnsharedInv
<1> QED BY <1>12, <1>13, <1>17, <1>21, <1>23, <1>24 DEF IInv

(* Every other step after thread_create leaves the directory alone.        *)
LEMMA LaterStep ==
  ASSUME IInv,
         vm_area_load \/ vm_area_zero \/ task_load_entry \/ thread_switch \/ sys_gettid
  PROVE  IInv'
<1> DEFINE Later == {"create", "load", "zero", "start", "sched_yield", "user"}
<1>0. seg \in Segments
  BY DEF IInv, HeaderInv
<1>1. NextSegment => pc' \in Later /\ seg' \in Segments /\ (pc' = "create" => loop'.i = 0)
  BY <1>0 DEF NextSegment, NoLoop, Segments
<1>2. EndOfLoad => pc' \in Later /\ seg' \in Segments /\ (pc' = "create" => loop'.i = 0)
  BY <1>0, <1>1 DEF EndOfLoad
<1>3. CASE vm_area_load
  <2>1. pc = "load" /\ UNCHANGED <<page_count, highmem_page_count, page_dir, se_hdr>>
    BY <1>3 DEF vm_area_load
  <2>2. EndOfLoad \/ UNCHANGED <<pc, seg>>
    BY <1>3 DEF vm_area_load
  <2> QED BY <1>0, <1>2, <2>1, <2>2, MovesOn DEF Early
<1>4. CASE vm_area_zero
  <2>1. pc = "zero" /\ UNCHANGED <<page_count, highmem_page_count, page_dir, se_hdr>>
    BY <1>4 DEF vm_area_zero
  <2>2. NextSegment \/ UNCHANGED <<pc, seg>>
    BY <1>4 DEF vm_area_zero
  <2> QED BY <1>0, <1>1, <2>1, <2>2, MovesOn DEF Early
<1>5. CASE task_load_entry
  BY <1>0, <1>5, MovesOn DEF task_load_entry, Early, load
<1>6. CASE thread_switch
  BY <1>0, <1>6, MovesOn DEF thread_switch, Early, load
<1>7. CASE sys_gettid
  BY <1>0, <1>7, MovesOn DEF sys_gettid, Early, load
<1> QED BY <1>3, <1>4, <1>5, <1>6, <1>7

(* A step that changes nothing.                                            *)
LEMMA StutterStep ==
  ASSUME IInv, UNCHANGED vars
  PROVE  IInv'
<1>1. \A p \in Pages : Mapped(p)' <=> Mapped(p)
  BY DEF vars, Mapped
<1>2. HeaderInv' /\ LoopInv'
  BY DEF vars, IInv, HeaderInv, LoopInv, Start
<1>3. Held' = Held
  BY DEF vars, Held, Mapped
<1>4. CountInv'
  BY <1>3 DEF vars, IInv, CountInv
<1>5. PlacedInv'
  BY <1>1 DEF vars, IInv, PlacedInv, OfKernel, OfKernelStack, OfLowFrame, NextLow
<1>6. UnsharedInv' /\ DirInv'
  BY <1>1 DEF vars, IInv, UnsharedInv, DirInv
<1> QED BY <1>2, <1>4, <1>5, <1>6 DEF IInv

LEMMA NextInv == IInv /\ [Next]_vars => IInv'
BY PageInitStep, TaskCreateStep, ThreadCreateStep, CreateStep, LaterStep, StutterStep DEF Next

(* What is taken from the bottom stays below the kernel stack's frames.    *)
LEMMA LowBound ==
  ASSUME IInv, pc \notin Early
  PROVE  NextLow \in Nat /\ NextLow <= NumPPF - StackPages
<1>1. /\ IsFiniteSet(ImagePages(se_hdr)) /\ Cardinality(ImagePages(se_hdr)) \in Nat
      /\ FirstFree + 2 * StackPages + Cardinality(ImagePages(se_hdr)) <= NumPPF
  BY Room DEF IInv, HeaderInv
<1>2. Held \in SUBSET ImagePages(se_hdr)
  BY DEF Held
<1>3. /\ Cardinality(Held) \in Nat
      /\ Cardinality(Held) <= Cardinality(ImagePages(se_hdr))
  BY <1>1, <1>2, FS_Subset, FS_CardinalityType
<1>4. page_count \in NumTables + StackPages .. NumTables + StackPages + Cardinality(Held)
  BY DEF IInv, CountInv
<1> QED BY RoomForStacks, <1>1, <1>3, <1>4, Sizes DEF NextLow, FirstFree

(* What the invariant says of the frames of the task.                      *)
LEMMA InvImplies == IInv => FramesUnshared
<1> SUFFICES ASSUME IInv, NEW p \in Pages, Mapped(p)
             PROVE  /\ \A q \in Pages \ {p} :
                         Mapped(q) => page_dir.pte[q].frame # page_dir.pte[p].frame
                    /\ "user" \in page_dir.pte[p].flags =>
                         page_dir.pte[p].frame \in UserFrames \ TableFrames
  BY DEF FramesUnshared
<1>1. \A q \in Pages \ {p} : Mapped(q) => page_dir.pte[q].frame # page_dir.pte[p].frame
  BY DEF IInv, UnsharedInv
<1>2. ASSUME "user" \in page_dir.pte[p].flags
      PROVE  page_dir.pte[p].frame \in UserFrames \ TableFrames
  <2>1. NumTables \in Nat /\ FirstFree \in Nat /\ UserMemStart < FirstFree
    BY Sizes, PagingAssumption DEF FirstFree, NumTables
  <2>2. UserFrames \ TableFrames = FirstFree .. NumPPF - 1
    BY <2>1, Sizes, PagingAssumption DEF UserFrames, TableFrames, FirstFree, NumTables
  <2>3. ~OfKernel(p)
    BY <1>2 DEF OfKernel
  <2>4. /\ pc \notin Early
        /\ \/ page_dir.pte[p].frame \in NumPPF - StackPages .. NumPPF - 1
           \/ page_dir.pte[p].frame \in FirstFree .. NextLow - 1
    BY <2>3 DEF IInv, PlacedInv, OfKernelStack, OfLowFrame, KernelStackPages, StackPages
  <2>5. FirstFree <= NumPPF - StackPages /\ NextLow <= NumPPF /\ NextLow \in Nat
    BY <2>4, RoomForStacks, LowBound
  <2> QED BY <2>1, <2>2, <2>4, <2>5, Sizes
<1> QED BY <1>1, <1>2

-----------------------------------------------------------------------------
(* No two pages of the task share a frame, and no page the user may touch  *)
(* lies on a page table or on the kernel, for every executable that lies   *)
(* above the kernel: however its segments lie to each other, and to the    *)
(* stacks, and share pages with them (vm_area_create, vmm_thread_init).    *)
THEOREM FramesStayUnshared ==
  ASSUME \A im \in Loadable : AboveKernel(im)
  PROVE  Spec => []FramesUnshared
<1>1. Init => IInv
  BY InitInv
<1> QED BY <1>1, NextInv, InvImplies, PTL DEF Spec

-----------------------------------------------------------------------------
(* KernelReaches needs more than the frames: the flags of a directory      *)
(* entry are those of the page mapped last below it, so a page of code in  *)
(* the region of the kernel's pages, or of its stack, would take write     *)
(* access away from them.                                                  *)

RegionsOf(pages) == {VMM_GET_PDE(p) : p \in pages}
OwnRegions(im) ==
  RegionsOf(ImagePages(im)) \cap RegionsOf(Kernel \cup KernelStackPages) = {}

AtOwnFrame(dir, p) ==
  Present(dir, p) /\ Grants(dir, p, "write") /\ dir.pte[p].frame = p

ReachInv ==
  /\ OwnRegions(se_hdr)
  /\ cr3 = "kernel" => \A p \in Frames : AtOwnFrame(kernel_page_dir, p)
  /\ cr3 = "task" => pc \notin Early
  /\ pc = "thread_create" => /\ \A p \in Kernel : AtOwnFrame(page_dir, p)
                             /\ \A r \in Regions : page_dir.pde[r] = SU_RW
  /\ pc \notin Early => \A p \in Kernel \cup KernelStackPages : AtOwnFrame(page_dir, p)

(* The pages of memory are pages of the address space.                     *)
LEMMA FramesArePages ==
  /\ Frames \subseteq Pages /\ Kernel \subseteq Frames
  /\ IInv => KernelStackPages \subseteq Frames
<1>1. Frames \subseteq Pages /\ Kernel \subseteq Frames
  BY Sizes, NumPagesPositive DEF Frames, Pages, Kernel
<1>2. ASSUME IInv
      PROVE  KernelStackPages \subseteq Frames
  BY <1>2, RoomForStacks DEF KernelStackPages, Frames, StackPages
<1> QED BY <1>1, <1>2

(* The kernel has a page table for every frame of the machine.             *)
LEMMA KernelTables ==
  ASSUME NEW p \in Frames
  PROVE  VMM_GET_PDE(p) \in 0 .. VMM_NUM_PDES(NumPPF) - 1
<1>1. \A t \in Nat \ {0} : \A a, b \in Nat : a <= b => a \div t \in 0 .. b \div t
  OBVIOUS
<1>2. p \in Nat /\ NumPPF - 1 \in Nat /\ p <= NumPPF - 1 /\ PGTAB_SIZE \in Nat \ {0}
  BY Sizes, PagingAssumption DEF Frames
<1>3. p \div PGTAB_SIZE \in 0 .. (NumPPF - 1) \div PGTAB_SIZE
  BY <1>1, <1>2
<1>4. (NumPPF - 1) \div PGTAB_SIZE \in Nat
  BY <1>2, DivMul
<1> QED BY <1>3, <1>4 DEF VMM_GET_PDE, VMM_NUM_PDES

(* vmm_page_init maps all of memory onto itself.                           *)
LEMMA KernelDirectory ==
  ASSUME vmm_page_init, NEW p \in Frames
  PROVE  AtOwnFrame(kernel_page_dir, p)'
<1> DEFINE dir == vmm_create_tables(VMM_NUM_PDES(NumPPF))
           new == vmm_map_pages(dir, 0, 0, NumPPF, SU_RW)
           r == VMM_GET_PDE(p)
<1>1. kernel_page_dir' = new
  BY DEF vmm_page_init
<1>2. p \in Pages /\ 0 \in Pages /\ r \in Regions
  BY FramesArePages, PdeOfPage, NumPagesPositive DEF Pages
<1>3. dir.pde[r] # {}
  <2>1. r < VMM_NUM_PDES(NumPPF)
    BY KernelTables, Sizes
  <2> QED BY <1>2, <2>1 DEF vmm_create_tables, SU_RW
<1>4. Distance(0, p) = p /\ Distance(0, p) < NumPPF /\ 0 + Distance(0, p) = p
  <2>1. p \in 0 .. NumPPF - 1 /\ NumPPF \in Nat /\ NumPPF <= NumPages
    BY Sizes, NumPagesPositive DEF Frames
  <2> QED BY <1>2, <2>1, DistanceCases
<1> HIDE DEF dir, r
<1>5. new.pde[r] = SU_RW
  BY <1>2, <1>3, <1>4 DEF vmm_map_pages, r
<1>6. new.pte[p] = [frame |-> p, flags |-> SU_RW]
  BY <1>2, <1>3, <1>4 DEF vmm_map_pages, r
<1> HIDE DEF new
<1>7. new.pte[p].frame = p /\ new.pte[p].flags = SU_RW
  BY <1>6
<1> QED BY <1>1, <1>5, <1>7 DEF AtOwnFrame, Present, Grants, r, SU_RW

LEMMA ReachInit ==
  ASSUME \A im \in Loadable : OwnRegions(im), Init
  PROVE  ReachInv
BY DEF Init, ReachInv, Early, Loadable

(* The stacks are mapped beside the kernel's pages.                        *)
LEMMA ReachThreadCreate ==
  ASSUME IInv, ReachInv, thread_create, NEW p \in Kernel \cup KernelStackPages
  PROVE  AtOwnFrame(page_dir, p)'
<1> DEFINE r == VMM_GET_PDE(p)
<1>1. pc = "thread_create"
  BY DEF thread_create
<1>2. p \in Pages /\ r \in Regions
  BY FramesArePages, PdeOfPage
<1>3. page_dir'.pde[r] \in {SU_RW, USR_RW}
  BY <1>1, <1>2, StackDirectory DEF ReachInv
<1>4. p \notin UserStackBase .. UserStackBase + StackPages - 1
  BY RoomForStacks DEF UserStackBase, Kernel, KernelStackPages, StackPages
<1>5. page_dir'.pte[p] = IF p \in KernelStackPages
                           THEN [frame |-> p, flags |-> USR_RW] ELSE page_dir.pte[p]
  BY <1>2, <1>4, StackDirectory
<1>6. page_dir'.pte[p].frame = p /\ {"present", "write"} \subseteq page_dir'.pte[p].flags
  <2>1. CASE p \in KernelStackPages
    BY <1>5, <2>1 DEF USR_RW
  <2>2. CASE p \notin KernelStackPages
    BY <1>1, <1>5, <2>2 DEF ReachInv, AtOwnFrame, Present, Grants
  <2> QED BY <2>1, <2>2
<1> QED BY <1>3, <1>6 DEF AtOwnFrame, Present, Grants, SU_RW, USR_RW

(* A page of the executable has a directory entry of its own.              *)
LEMMA ReachCreate ==
  ASSUME IInv, ReachInv, vm_area_create, NEW p \in Kernel \cup KernelStackPages
  PROVE  AtOwnFrame(page_dir, p)'
<1> DEFINE r == VMM_GET_PDE(p)
<1>1. pc = "create" /\ pc \notin Early
  BY DEF vm_area_create, Early
<1>2. PICK page \in Pages : page = LoopPage(Start) /\ page \in ImagePages(se_hdr)
  BY <1>1, CreatePage DEF IInv
<1>3. p \in Pages /\ r \in Regions
  BY FramesArePages, PdeOfPage
<1>4. p # page /\ r # VMM_GET_PDE(page)
  BY <1>2 DEF ReachInv, OwnRegions, RegionsOf
<1>5. PICK frame : page_dir' = vmm_map_page(page_dir, page, frame, SegFlags)
  BY <1>2 DEF vm_area_create
<1>6. DOMAIN page_dir.pte = Pages /\ DOMAIN page_dir.pde = Regions
  BY DEF IInv, DirInv, PageDirectories
<1> HIDE DEF r
<1>7. page_dir'.pte[p] = page_dir.pte[p] /\ page_dir'.pde[r] = page_dir.pde[r]
  BY <1>3, <1>4, <1>5, <1>6 DEF vmm_map_page
<1>8. AtOwnFrame(page_dir, p)
  BY <1>1 DEF ReachInv
<1> QED BY <1>7, <1>8 DEF AtOwnFrame, Present, Grants, r

LEMMA ReachNext == IInv /\ IInv' /\ ReachInv /\ [Next]_vars => ReachInv'
<1> SUFFICES ASSUME IInv, IInv', ReachInv, [Next]_vars
             PROVE  ReachInv'
  OBVIOUS
<1> USE DEF Early
<1>1. CASE vmm_page_init
  <2>1. pc' = "task_create" /\ cr3' = "kernel" /\ se_hdr' = se_hdr
    BY <1>1 DEF vmm_page_init, load
  <2>2. \A p \in Frames : AtOwnFrame(kernel_page_dir, p)'
    BY <1>1, KernelDirectory
  <2> QED BY <2>1, <2>2 DEF ReachInv
<1>2. CASE task_create
  <2>1. /\ pc = "task_create" /\ pc' = "thread_create"
        /\ UNCHANGED <<cr3, kernel_page_dir, se_hdr>>
    BY <1>2 DEF task_create, boot, load
  <2>2. ASSUME NEW p \in Kernel
        PROVE  AtOwnFrame(page_dir, p)'
    <3>1. p \in Pages /\ VMM_GET_PDE(p) \in Regions
      BY FramesArePages, PdeOfPage
    <3>2. /\ page_dir'.pte[p] = [frame |-> p, flags |-> SU_RW]
          /\ page_dir'.pde[VMM_GET_PDE(p)] = SU_RW
      BY <1>2, <3>1, TaskDirectory
    <3> QED BY <3>2 DEF AtOwnFrame, Present, Grants, SU_RW
  <2>3. \A r \in Regions : page_dir'.pde[r] = SU_RW
    BY <1>2, TaskDirectory
  <2>4. \A p \in Frames : AtOwnFrame(kernel_page_dir, p)' <=> AtOwnFrame(kernel_page_dir, p)
    BY <2>1 DEF AtOwnFrame, Present, Grants
  <2> QED BY <2>1, <2>2, <2>3, <2>4 DEF ReachInv
<1>3. CASE thread_create
  <2>1. pc' = "create" /\ pc = "thread_create" /\ UNCHANGED <<cr3, kernel_page_dir, se_hdr>>
    BY <1>3 DEF thread_create, boot, load
  <2>2. \A p \in Kernel \cup KernelStackPages : AtOwnFrame(page_dir, p)'
    BY <1>3, ReachThreadCreate
  <2>3. \A p \in Frames : AtOwnFrame(kernel_page_dir, p)' <=> AtOwnFrame(kernel_page_dir, p)
    BY <2>1 DEF AtOwnFrame, Present, Grants
  <2> QED BY <2>1, <2>2, <2>3 DEF ReachInv
<1>4. CASE vm_area_create
  <2>1. pc = "create" /\ pc' \in {"create", "load"} /\ UNCHANGED <<cr3, kernel_page_dir, se_hdr>>
    BY <1>4 DEF vm_area_create, boot
  <2>2. \A p \in Kernel \cup KernelStackPages : AtOwnFrame(page_dir, p)'
    BY <1>4, ReachCreate
  <2>3. \A p \in Frames : AtOwnFrame(kernel_page_dir, p)' <=> AtOwnFrame(kernel_page_dir, p)
    BY <2>1 DEF AtOwnFrame, Present, Grants
  <2> QED BY <2>1, <2>2, <2>3 DEF ReachInv
<1>5. CASE vm_area_load \/ vm_area_zero \/ task_load_entry \/ thread_switch \/ sys_gettid
  <2>1. pc \notin Early
    BY <1>5 DEF vm_area_load, vm_area_zero, task_load_entry, thread_switch, sys_gettid
  <2>2. UNCHANGED <<kernel_page_dir, page_dir, se_hdr>>
    BY <1>5 DEF vm_area_load, vm_area_zero, task_load_entry, thread_switch, sys_gettid,
                boot, load
  <2>3. pc' \notin Early
    BY <1>5 DEF vm_area_load, vm_area_zero, task_load_entry, thread_switch, sys_gettid,
                EndOfLoad, NextSegment
  <2>4. cr3' = cr3 \/ cr3' = "task"
    BY <1>5 DEF vm_area_load, vm_area_zero, task_load_entry, thread_switch, sys_gettid, boot
  <2>5. \A p : /\ AtOwnFrame(kernel_page_dir, p)' <=> AtOwnFrame(kernel_page_dir, p)
               /\ AtOwnFrame(page_dir, p)' <=> AtOwnFrame(page_dir, p)
    BY <2>2 DEF AtOwnFrame, Present, Grants
  <2> QED BY <2>1, <2>2, <2>3, <2>4, <2>5 DEF ReachInv
<1>6. CASE UNCHANGED vars
  <2>1. \A p : /\ AtOwnFrame(kernel_page_dir, p)' <=> AtOwnFrame(kernel_page_dir, p)
               /\ AtOwnFrame(page_dir, p)' <=> AtOwnFrame(page_dir, p)
    BY <1>6 DEF vars, AtOwnFrame, Present, Grants
  <2> QED BY <1>6, <2>1 DEF vars, ReachInv
<1> QED BY <1>1, <1>2, <1>3, <1>4, <1>5, <1>6 DEF Next

(* The frames handed out are frames of the machine.                        *)
LEMMA TakenFrames ==
  ASSUME IInv
  PROVE  (UserMemStart .. NextLow - 1) \cup (NextHigh + 1 .. NumPPF - 1) \subseteq Frames
<1>1. /\ NextLow \in Nat /\ NextLow <= NumPPF
      /\ NextHigh \in Int /\ NextHigh + 1 >= 0
  <2>1. CASE pc \in Early
    <3>1. NumTables = (1 + VMM_NUM_PDES(NumPPF)) + (1 + PGDIR_SIZE)
          /\ PGDIR_SIZE \in Nat
      BY PagingAssumption DEF NumTables
    <3>2. page_count \in 0 .. NumTables /\ highmem_page_count = 1
      BY <2>1, <3>1, Sizes DEF IInv, CountInv, Early
    <3> QED BY <3>2, RoomForStacks, Sizes DEF NextLow, NextHigh, FirstFree
  <2>2. CASE pc \notin Early
    <3>1. highmem_page_count = 1 + StackPages
      BY <2>2 DEF IInv, CountInv
    <3> QED BY <2>2, <3>1, RoomForStacks, LowBound DEF NextHigh
  <2> QED BY <2>1, <2>2
<1> QED BY <1>1, Sizes DEF Frames

LEMMA ReachImplies == IInv /\ ReachInv => KernelReaches
<1> SUFFICES ASSUME IInv, ReachInv
             PROVE  KernelReaches
  OBVIOUS
<1>1. ASSUME cr3 = "kernel",
             NEW p \in Kernel \cup (UserMemStart .. NextLow - 1) \cup (NextHigh + 1 .. NumPPF - 1)
      PROVE  AtOwnFrame(kernel_page_dir, p)
  BY <1>1, FramesArePages, TakenFrames DEF ReachInv
<1>2. ASSUME cr3 = "task", NEW p \in Kernel \cup KernelStackPages
      PROVE  AtOwnFrame(page_dir, p)
  BY <1>2 DEF ReachInv
<1> QED BY <1>1, <1>2 DEF KernelReaches, AtOwnFrame, Kernel

(* Whatever directory the processor uses, the kernel finds itself and the  *)
(* frames it has handed out at their own addresses and can write there, as *)
(* long as the executable has no page below a directory entry of the       *)
(* kernel's or of its stack's: the loader's mappings, which replace the    *)
(* flags of whole directory entries, take nothing from it.                 *)
THEOREM KernelStaysReachable ==
  ASSUME \A im \in Loadable : OwnRegions(im)
  PROVE  Spec => []KernelReaches
<1>1. \A im \in Loadable : AboveKernel(im)
  BY DEF OwnRegions, RegionsOf, AboveKernel
<1>2. Init => IInv /\ ReachInv
  BY <1>1, InitInv, ReachInit
<1> QED BY <1>2, NextInv, ReachNext, ReachImplies, PTL DEF Spec

-----------------------------------------------------------------------------
(* Permissions, for an executable with page tables of its own; segments    *)
(* may share tables and pages with each other.                             *)
OwnTables(im) ==
  RegionsOf(ImagePages(im))
    \cap RegionsOf(Kernel \cup KernelStackPages \cup UserStackPages) = {}

-----------------------------------------------------------------------------
(* The inductive invariant: how far task_load has got with each segment,   *)
(* and what the entries of those pages hold meanwhile.                     *)

Before == [text |-> {}, rodata |-> {"text"}, data |-> {"text", "rodata"}]

(* The pages of segment s that vm_area_create has been through.            *)
Created(s) ==
  {p \in AreaPages(se_hdr, s) :
     \/ s \in Before[seg]
     \/ s = seg /\ (pc = "create" => Distance(PageOf(Start), p) < loop.i)}

PhaseInv ==
  /\ OwnTables(se_hdr)
  /\ cpu.mode = "user" => pc = "user" /\ cr3 = "task"
  /\ pc \in {"zero", "start", "sched_yield", "user"} => seg = "data"
  /\ pc \in Early => seg = "text"

PdeOf(p) == page_dir.pde[VMM_GET_PDE(p)]
FlagsOf(p) == page_dir.pte[p].flags

StackFlags == \A p \in UserStackPages : FlagsOf(p) = USR_RW /\ PdeOf(p) = USR_RW

(* Data comes last, so that it overrides what code and constants did to    *)
(* the entries of a page, or of a table, they share with it.               *)
SegmentFlags ==
  /\ \A p \in Created("text") \cup Created("rodata") :
       /\ PdeOf(p) \in {USR_RO, USR_RW}
       /\ p \notin Created("data") => FlagsOf(p) = USR_RO
  /\ \A p \in Created("data") : FlagsOf(p) = USR_RW /\ PdeOf(p) = USR_RW

NothingElse ==
  /\ \A p \in Kernel : "user" \notin FlagsOf(p)
  /\ \A p \in Pages : Mapped(p) =>
       p \in Kernel \cup ImagePages(se_hdr) \cup UserStackPages \cup KernelStackPages

PermInv ==
  PhaseInv /\ NothingElse /\ (pc \notin Early => StackFlags /\ SegmentFlags)

-----------------------------------------------------------------------------
LEMMA PermInit ==
  ASSUME \A im \in Loadable : OwnTables(im), Init
  PROVE  PermInv
<1>1. PhaseInv
  BY DEF Init, PhaseInv, Early, Loadable
<1>2. \A p \in Pages : page_dir.pte[p].flags = {}
  BY DEF Init, NoDir, vmm_create_tables, Unmapped
<1>3. NothingElse
  BY <1>2, FramesArePages DEF NothingElse, Mapped, FlagsOf
<1> QED BY <1>1, <1>3 DEF PermInv, Init, Early

(* Before the segments: the stacks.                                        *)
LEMMA UserStackRange ==
  ASSUME IInv
  PROVE  /\ UserStackPages = UserStackBase .. UserStackBase + StackPages - 1
         /\ UserStackPages \subseteq Pages
<1>1. /\ StackPages \in Nat \ {0} /\ NumPPF \in Nat /\ NumPPF <= NumPages
      /\ UserStackBase \in Nat /\ UserStackBase = NumPPF - 2 * StackPages - 1
      /\ NumPages \in Nat
  BY RoomForStacks, NumPagesPositive DEF UserStackBase
<1>2. UserStackPages =
        {p \in Pages : \E k \in 1 .. StackPages : p = NumPPF - StackPages - 1 - k}
  BY DEF UserStackPages, StackPages
<1> HIDE DEF StackPages
<1>3. ASSUME NEW p \in Pages
      PROVE  (\E k \in 1 .. StackPages : p = NumPPF - StackPages - 1 - k)
               <=> p \in UserStackBase .. UserStackBase + StackPages - 1
  <2>1. p \in Nat
    BY DEF Pages
  <2>2. ASSUME p \in UserStackBase .. UserStackBase + StackPages - 1
        PROVE  \E k \in 1 .. StackPages : p = NumPPF - StackPages - 1 - k
    <3>1. NumPPF - StackPages - 1 - p \in 1 .. StackPages
      BY <1>1, <2>1, <2>2
    <3>2. p = NumPPF - StackPages - 1 - (NumPPF - StackPages - 1 - p)
      BY <1>1, <2>1
    <3> QED BY <3>1, <3>2
  <2>3. ASSUME NEW k \in 1 .. StackPages, p = NumPPF - StackPages - 1 - k
        PROVE  p \in UserStackBase .. UserStackBase + StackPages - 1
    BY <1>1, <2>1, <2>3
  <2> QED BY <2>2, <2>3
<1>4. UserStackBase .. UserStackBase + StackPages - 1 \subseteq Pages
  BY <1>1 DEF Pages
<1> QED BY <1>2, <1>3, <1>4

(* All the regions of the user stack take its flags.                       *)
LEMMA StackRegion ==
  ASSUME IInv, thread_create, NEW p \in UserStackPages
  PROVE  page_dir'.pde[VMM_GET_PDE(p)] = USR_RW
BY StackDirectory, UserStackRange

(* Code, constants and data are disjoint from the pages with tables of     *)
(* their own, and from their regions.                                      *)
LEMMA Apart ==
  ASSUME IInv, PhaseInv, NEW page \in ImagePages(se_hdr),
         NEW p \in Kernel \cup KernelStackPages \cup UserStackPages
  PROVE  p # page /\ VMM_GET_PDE(p) # VMM_GET_PDE(page)
BY DEF PhaseInv, OwnTables, RegionsOf

(* The page vm_area_create works on is the only one it adds.               *)
LEMMA CreatedGrows ==
  ASSUME IInv, vm_area_create
  PROVE  \E page \in Pages :
           /\ page = LoopPage(Start) /\ page \in ImagePages(se_hdr)
           /\ \A s \in Segments :
                Created(s)' = IF s = seg THEN Created(s) \cup {page} ELSE Created(s)
<1> DEFINE from == PageOf(Start)
           size == AreaSize(se_hdr, seg)
           page == LoopPage(Start)
           area == AreaPages(se_hdr, seg)
<1>1. /\ pc = "create" /\ UNCHANGED <<se_hdr, seg>> /\ seg \in Segments
      /\ \/ /\ loop.i + 1 < NumPagesOf(Start, size) /\ pc' = pc
            /\ loop' = [loop EXCEPT !.i = @ + 1]
         \/ loop.i + 1 >= NumPagesOf(Start, size) /\ pc' = "load"
  <2>1. pc = "create" /\ UNCHANGED <<se_hdr, seg>>
    BY DEF vm_area_create
  <2>2. Start \in Addresses /\ size \in Nat
    BY AreaSizes DEF IInv, HeaderInv, Start
  <2>3. NumPagesOf(Start, size) \in Nat /\ loop.i \in Nat
    BY <2>1, <2>2, NumPagesOfArea, NumPagesPositive DEF IInv, LoopInv
  <2> QED BY <2>1, <2>3 DEF vm_area_create, IInv, HeaderInv
<1>2. Start \in Addresses /\ size \in Nat /\ from \in Pages
  BY AreaSizes, PageOfAddress DEF IInv, HeaderInv, Start
<1>3. NumPagesOf(Start, size) \in 1 .. NumPages
  BY <1>2, NumPagesOfArea
<1>4. loop.i \in 0 .. NumPages - 1 /\ loop.i < NumPagesOf(Start, size)
  BY <1>1, <1>3, NumPagesPositive DEF IInv, LoopInv
<1>5. page \in Pages /\ \A p \in Pages : Distance(from, p) = loop.i <=> p = page
  BY <1>2, <1>4, AtDistance DEF LoopPage
<1>6. area = {p \in Pages : Distance(from, p) < NumPagesOf(Start, size)}
  BY DEF AreaPages, Start
<1>7. \A p \in Pages : Distance(from, p) \in Nat
  BY <1>2, DistanceNat
<1>8. page \in area /\ page \in ImagePages(se_hdr)
  BY <1>1, <1>4, <1>5, <1>6 DEF ImagePages
<1>9. ASSUME NEW s \in Segments, s = seg
      PROVE  Created(s)' = Created(s) \cup {page}
  <2>1. Created(s) = {p \in area : Distance(from, p) < loop.i}
    BY <1>1, <1>9 DEF Created, Before, Segments
  <2>2. AreaPages(se_hdr', s) = area /\ PageOf(Start)' = from
    BY <1>1, <1>9 DEF Start
  <2>3. Created(s)' = {p \in area : Distance(from, p) < loop.i + 1}
    <3>1. CASE pc' = "load" /\ loop.i + 1 >= NumPagesOf(Start, size)
      <4>1. Created(s)' = area
        BY <1>1, <1>9, <2>2, <3>1 DEF Created
      <4>2. \A p \in area : Distance(from, p) < loop.i + 1
        BY <1>3, <1>4, <1>6, <1>7, <3>1, NumPagesPositive
      <4> QED BY <4>1, <4>2
    <3>2. CASE pc' = pc /\ loop' = [loop EXCEPT !.i = @ + 1]
                 /\ loop.i + 1 < NumPagesOf(Start, size)
      <4>1. loop'.i = loop.i + 1
        BY <3>2, <1>4
      <4> QED BY <1>1, <1>9, <2>2, <3>2, <4>1 DEF Created, Before, Segments
    <3> QED BY <1>1, <3>1, <3>2
  <2>4. \A p \in area : Distance(from, p) < loop.i + 1
                          <=> Distance(from, p) < loop.i \/ p = page
    BY <1>4, <1>5, <1>6, <1>7, NumPagesPositive
  <2> HIDE DEF page, area, from
  <2> QED BY <1>8, <2>1, <2>3, <2>4
<1>10. ASSUME NEW s \in Segments, s # seg
       PROVE  Created(s)' = Created(s)
  BY <1>1, <1>10 DEF Created
<1> QED BY <1>5, <1>8, <1>9, <1>10

-----------------------------------------------------------------------------
(* The steps up to thread_create.                                          *)

LEMMA PermPageInit ==
  ASSUME IInv, PermInv, vmm_page_init
  PROVE  PermInv'
<1>1. /\ pc = "vmm_kernel_init" /\ pc' = "task_create"
      /\ UNCHANGED <<page_dir, se_hdr, seg, cpu>>
  BY DEF vmm_page_init, load
<1>2. PhaseInv'
  BY <1>1 DEF PermInv, PhaseInv, Early
<1>3. NothingElse'
  BY <1>1 DEF PermInv, NothingElse, FlagsOf, Mapped
<1> QED BY <1>1, <1>2, <1>3 DEF PermInv, Early

LEMMA PermTaskCreate ==
  ASSUME IInv, PermInv, task_create
  PROVE  PermInv'
<1>1. /\ pc = "task_create" /\ pc' = "thread_create"
      /\ UNCHANGED <<se_hdr, seg, cpu>>
  BY DEF task_create, load, boot
<1>2. PhaseInv'
  BY <1>1 DEF PermInv, PhaseInv, Early
<1>3. ASSUME NEW p \in Pages
      PROVE  IF p \in Kernel THEN page_dir'.pte[p].flags = SU_RW ELSE ~Mapped(p)'
  <2>1. CASE p \in Kernel
    <3>1. page_dir'.pte[p] = [frame |-> p, flags |-> SU_RW]
      BY <2>1, TaskDirectory
    <3> QED BY <2>1, <3>1
  <2>2. CASE p \notin Kernel
    <3>1. page_dir'.pte[p] = Unmapped
      BY <2>2, TaskDirectory
    <3> QED BY <2>2, <3>1 DEF Mapped, Unmapped
  <2> QED BY <2>1, <2>2
<1>4. NothingElse'
  <2>1. \A p \in Kernel : "user" \notin FlagsOf(p)'
    BY <1>3, FramesArePages DEF FlagsOf, SU_RW
  <2> QED BY <1>3, <2>1 DEF NothingElse
<1> QED BY <1>1, <1>2, <1>4 DEF PermInv, Early

LEMMA PermThreadCreate ==
  ASSUME IInv, PermInv, thread_create
  PROVE  PermInv'
<1>1. /\ pc = "thread_create" /\ pc' = "create"
      /\ UNCHANGED <<se_hdr, seg, cpu, loop>>
  BY DEF thread_create, load, boot
<1>2. PhaseInv' /\ seg = "text"
  BY <1>1 DEF PermInv, PhaseInv, Early
<1>3. ASSUME NEW p \in Pages
      PROVE  page_dir'.pte[p].flags =
               IF p \in UserStackPages \cup KernelStackPages THEN USR_RW ELSE FlagsOf(p)
  <2>1. CASE p \in UserStackPages
    <3>1. page_dir'.pte[p] = [frame |-> FirstFree + (p - UserStackBase), flags |-> USR_RW]
      BY <2>1, StackDirectory, UserStackRange
    <3> QED BY <2>1, <3>1
  <2>2. CASE p \in KernelStackPages /\ p \notin UserStackPages
    <3>1. page_dir'.pte[p] = [frame |-> p, flags |-> USR_RW]
      BY <2>2, StackDirectory, UserStackRange
    <3> QED BY <2>2, <3>1
  <2>3. CASE p \notin KernelStackPages /\ p \notin UserStackPages
    BY <2>3, StackDirectory, UserStackRange DEF FlagsOf
  <2> QED BY <2>1, <2>2, <2>3
<1>4. NothingElse'
  <2>1. Kernel \cap (UserStackPages \cup KernelStackPages) = {}
    BY RoomForStacks, UserStackRange DEF Kernel, KernelStackPages, StackPages, UserStackBase
  <2>2. \A p \in Kernel : "user" \notin FlagsOf(p)'
    BY <1>3, <2>1, FramesArePages DEF PermInv, NothingElse, FlagsOf
  <2>3. ASSUME NEW p \in Pages, Mapped(p)'
        PROVE  p \in Kernel \cup ImagePages(se_hdr) \cup UserStackPages \cup KernelStackPages
    BY <1>3, <2>3 DEF PermInv, NothingElse, Mapped, FlagsOf
  <2> QED BY <1>1, <2>2, <2>3 DEF NothingElse
<1>5. StackFlags'
  <2>1. ASSUME NEW p \in UserStackPages
        PROVE  FlagsOf(p)' = USR_RW /\ PdeOf(p)' = USR_RW
    <3>1. p \in Pages /\ VMM_GET_PDE(p) \in Regions
      BY UserStackRange, PdeOfPage
    <3>2. page_dir'.pte[p].flags = USR_RW
      BY <1>3, <3>1
    <3>3. page_dir'.pde[VMM_GET_PDE(p)] = USR_RW
      BY <3>1, StackRegion
    <3> QED BY <3>2, <3>3 DEF FlagsOf, PdeOf
  <2> QED BY <2>1 DEF StackFlags
<1>6. \A s \in Segments : Created(s)' = {}
  <2>1. loop'.i = 0 /\ seg' = "text"
    BY <1>1, <1>2 DEF IInv, LoopInv, Early
  <2>2. PageOf(Start)' \in Pages
    BY <1>1, AreaSizes, PageOfAddress DEF IInv, HeaderInv, Start
  <2>3. \A p \in Pages : ~(Distance(PageOf(Start)', p) < 0)
    BY <2>2, DistanceNat
  <2> QED BY <1>1, <2>1, <2>3 DEF Created, Before, AreaPages
<1>7. SegmentFlags'
  BY <1>6 DEF SegmentFlags, Segments
<1> QED BY <1>1, <1>2, <1>4, <1>5, <1>7 DEF PermInv

-----------------------------------------------------------------------------
(* The pages of the executable.                                            *)

LEMMA PermCreate ==
  ASSUME IInv, PermInv, vm_area_create
  PROVE  PermInv'
<1>1. pc = "create" /\ pc' \in {"create", "load"} /\ UNCHANGED <<se_hdr, seg, cpu, cr3>>
  BY DEF vm_area_create, boot
<1>2. PICK page \in Pages : /\ page = LoopPage(Start) /\ page \in ImagePages(se_hdr)
                            /\ \A s \in Segments :
                                 Created(s)' = IF s = seg THEN Created(s) \cup {page}
                                                          ELSE Created(s)
  BY CreatedGrows
<1>3. PhaseInv'
  BY <1>1 DEF PermInv, PhaseInv, Early
<1>4. /\ page_dir \in PageDirectories /\ \A r \in Regions : page_dir.pde[r] # {}
      /\ VMM_GET_PDE(page) \in Regions
  BY <1>1, PdeOfPage DEF IInv, DirInv
<1>5. PICK frame : page_dir' = vmm_map_page(page_dir, page, frame, SegFlags)
  BY <1>2 DEF vm_area_create
(* What the step does to flags.                                            *)
<1>6. ASSUME NEW p \in Pages
      PROVE  /\ FlagsOf(p)' = IF p = page THEN SegFlags ELSE FlagsOf(p)
             /\ PdeOf(p)' = IF VMM_GET_PDE(p) = VMM_GET_PDE(page) THEN SegFlags ELSE PdeOf(p)
  <2>1. VMM_GET_PDE(p) \in Regions
    BY PdeOfPage
  <2> QED BY <1>4, <1>5, <2>1 DEF vmm_map_page, FlagsOf, PdeOf, PageDirectories
<1>7. ASSUME NEW p \in Kernel \cup KernelStackPages \cup UserStackPages
      PROVE  p \in Pages /\ FlagsOf(p)' = FlagsOf(p) /\ PdeOf(p)' = PdeOf(p)
  <2>1. p \in Pages
    BY FramesArePages, UserStackRange
  <2> QED BY <1>2, <1>6, <2>1, Apart DEF PermInv
<1>8. NothingElse'
  <2>1. \A p \in Kernel : "user" \notin FlagsOf(p)'
    BY <1>7 DEF PermInv, NothingElse
  <2>2. ASSUME NEW p \in Pages, Mapped(p)'
        PROVE  p \in Kernel \cup ImagePages(se_hdr) \cup UserStackPages \cup KernelStackPages
    <3>1. CASE p = page
      BY <1>2, <3>1
    <3>2. CASE p # page
      <4>1. Mapped(p)
        BY <1>6, <2>2, <3>2 DEF Mapped, FlagsOf
      <4> QED BY <4>1 DEF PermInv, NothingElse
    <3> QED BY <3>1, <3>2
  <2> QED BY <1>1, <2>1, <2>2 DEF NothingElse
<1>9. StackFlags'
  BY <1>1, <1>7 DEF PermInv, StackFlags, Early
<1>10. SegmentFlags /\ \A s \in Segments : Created(s) \subseteq Pages
  BY <1>1 DEF PermInv, Early, Created, AreaPages
<1>11. SegmentFlags'
  <2>1. CASE seg = "data"
    <3>1. SegFlags = USR_RW
      BY <2>1 DEF SegFlags
    <3>2. /\ Created("data")' = Created("data") \cup {page}
          /\ Created("text")' = Created("text") /\ Created("rodata")' = Created("rodata")
      BY <1>2, <2>1 DEF Segments
    <3> QED BY <1>6, <1>10, <3>1, <3>2 DEF SegmentFlags, Segments
  <2>2. CASE seg # "data"
    <3>1. SegFlags = USR_RO
      BY <2>2 DEF SegFlags
    <3>2. Created("data") = {} /\ Created("data")' = {}
      BY <1>1, <1>2, <2>2 DEF Created, Before, IInv, HeaderInv, Segments
    <3>3. (Created("text") \cup Created("rodata"))' = Created("text") \cup Created("rodata") \cup {page}
      BY <1>2, <2>2 DEF IInv, HeaderInv, Segments
    <3> QED BY <1>6, <1>10, <3>1, <3>2, <3>3 DEF SegmentFlags, Segments
  <2> QED BY <2>1, <2>2
<1> QED BY <1>3, <1>8, <1>9, <1>11 DEF PermInv

-----------------------------------------------------------------------------
(* The other steps change no entry, and no segment's progress: one that is *)
(* finished stays so, the next has not begun.                              *)

LEMMA PermKept ==
  ASSUME PermInv, PhaseInv', UNCHANGED <<page_dir, se_hdr>>,
         pc \notin Early, \A s \in Segments : Created(s)' = Created(s)
  PROVE  PermInv'
<1>1. \A p : /\ FlagsOf(p)' = FlagsOf(p) /\ PdeOf(p)' = PdeOf(p)
             /\ Mapped(p)' <=> Mapped(p)
  BY DEF FlagsOf, PdeOf, Mapped
<1>2. NothingElse'
  BY <1>1 DEF PermInv, NothingElse
<1>3. StackFlags'
  BY <1>1 DEF PermInv, StackFlags
<1>4. SegmentFlags'
  BY <1>1 DEF PermInv, SegmentFlags, Segments
<1> QED BY <1>2, <1>3, <1>4 DEF PermInv

LEMMA PermNextSegment ==
  ASSUME IInv, IInv', PhaseInv, NextSegment, pc \in {"load", "zero"}, se_hdr' = se_hdr,
         NEW s \in Segments
  PROVE  Created(s)' = Created(s)
<1>1. /\ loop'.i = 0 /\ seg \in Segments
      /\ IF seg = "data" THEN seg' = seg /\ pc' = "start"
                         ELSE pc' = "create" /\ seg' = (IF seg = "text" THEN "rodata" ELSE "data")
  BY DEF NextSegment, NoLoop, IInv, HeaderInv, Segments
<1>2. Created(s) = {p \in AreaPages(se_hdr, s) : s \in Before[seg] \cup {seg}}
  BY DEF Created
<1>3. CASE seg = "data"
  BY <1>1, <1>2, <1>3 DEF Created
<1>4. CASE seg # "data"
  <2>1. PageOf(Start)' \in Pages
    BY AreaSizes, PageOfAddress DEF IInv, HeaderInv, Start
  <2>2. \A p \in Pages : ~(Distance(PageOf(Start)', p) < loop'.i)
    BY <1>1, <2>1, DistanceNat
  <2>3. Created(s)' = {p \in AreaPages(se_hdr, s) : s \in Before[seg']}
    BY <1>1, <1>4, <2>2 DEF Created, AreaPages
  <2>4. Before[seg'] = Before[seg] \cup {seg}
    BY <1>1, <1>4 DEF Before, Segments
  <2> QED BY <1>2, <2>3, <2>4
<1> QED BY <1>3, <1>4

LEMMA PermLater ==
  ASSUME IInv, IInv', PermInv,
         vm_area_load \/ vm_area_zero \/ task_load_entry \/ thread_switch \/ sys_gettid
  PROVE  PermInv'
<1> USE DEF Early
<1>1. PhaseInv
  BY DEF PermInv
<1>2. CASE vm_area_load
  <2>1. pc = "load" /\ UNCHANGED <<page_dir, se_hdr, cpu, cr3>>
    BY <1>2 DEF vm_area_load, boot
  <2>2. \/ UNCHANGED <<pc, seg>>
        \/ seg = "data" /\ pc' = "zero" /\ UNCHANGED seg
        \/ seg # "data" /\ NextSegment
    BY <1>2 DEF vm_area_load, EndOfLoad
  <2>3. PhaseInv'
    BY <1>1, <2>1, <2>2 DEF PhaseInv, NextSegment
  <2>4. ASSUME NEW s \in Segments
        PROVE  Created(s)' = Created(s)
    <3>1. CASE UNCHANGED <<pc, seg>>
      BY <2>1, <3>1 DEF Created
    <3>2. CASE seg = "data" /\ pc' = "zero" /\ UNCHANGED seg
      BY <2>1, <3>2 DEF Created
    <3>3. CASE NextSegment
      BY <1>1, <2>1, <3>3, PermNextSegment
    <3> QED BY <2>2, <3>1, <3>2, <3>3
  <2> QED BY <2>1, <2>3, <2>4, PermKept
<1>3. CASE vm_area_zero
  <2>1. pc = "zero" /\ UNCHANGED <<page_dir, se_hdr, cpu, cr3>>
    BY <1>3 DEF vm_area_zero, boot
  <2>2. UNCHANGED <<pc, seg>> \/ NextSegment
    BY <1>3 DEF vm_area_zero
  <2>3. PhaseInv'
    BY <1>1, <2>1, <2>2 DEF PhaseInv, NextSegment
  <2>4. ASSUME NEW s \in Segments
        PROVE  Created(s)' = Created(s)
    <3>1. CASE UNCHANGED <<pc, seg>>
      BY <2>1, <3>1 DEF Created
    <3>2. CASE NextSegment
      BY <1>1, <2>1, <3>2, PermNextSegment
    <3> QED BY <2>2, <3>1, <3>2
  <2> QED BY <2>1, <2>3, <2>4, PermKept
<1>4. CASE task_load_entry \/ thread_switch \/ sys_gettid
  <2>1. /\ pc \in {"start", "sched_yield", "user"} /\ pc' \in {"start", "sched_yield", "user"}
        /\ UNCHANGED <<page_dir, se_hdr, seg>>
    BY <1>4 DEF task_load_entry, thread_switch, sys_gettid, load
  <2>2. PhaseInv'
    <3>1. CASE task_load_entry
      BY <1>1, <3>1 DEF task_load_entry, PhaseInv, load
    <3>2. CASE thread_switch
      BY <1>1, <3>2 DEF thread_switch, PhaseInv, load
    <3>3. CASE sys_gettid
      BY <1>1, <3>3 DEF sys_gettid, PhaseInv, load
    <3> QED BY <1>4, <3>1, <3>2, <3>3
  <2>3. \A s \in Segments : Created(s)' = Created(s)
    BY <2>1 DEF Created
  <2> QED BY <2>1, <2>2, <2>3, PermKept
<1> QED BY <1>2, <1>3, <1>4

LEMMA PermStutter ==
  ASSUME PermInv, UNCHANGED vars
  PROVE  PermInv'
<1>1. PhaseInv'
  BY DEF PermInv, PhaseInv, vars
<1>2. \A p : /\ FlagsOf(p)' = FlagsOf(p) /\ PdeOf(p)' = PdeOf(p)
             /\ Mapped(p)' <=> Mapped(p)
  BY DEF FlagsOf, PdeOf, Mapped, vars
<1>3. NothingElse'
  BY <1>2 DEF PermInv, NothingElse, vars
<1>4. CASE pc \in Early
  BY <1>1, <1>3, <1>4 DEF PermInv, vars
<1>5. CASE pc \notin Early
  <2>1. \A s \in Segments : Created(s)' = Created(s)
    BY DEF Created, Start, vars
  <2> QED BY <1>1, <1>5, <2>1, PermKept DEF vars
<1> QED BY <1>4, <1>5

LEMMA PermNext == IInv /\ IInv' /\ PermInv /\ [Next]_vars => PermInv'
BY PermPageInit, PermTaskCreate, PermThreadCreate, PermCreate, PermLater, PermStutter DEF Next

-----------------------------------------------------------------------------
(* In user mode all three segments are created.                            *)
LEMMA PermImplies == IInv /\ ReachInv /\ PermInv => EffectivePermissions
<1> SUFFICES ASSUME IInv, ReachInv, PermInv, cpu.mode = "user"
             PROVE  /\ cr3 = "task"
                    /\ \A p \in AreaPages(se_hdr, "text") \cup AreaPages(se_hdr, "rodata") :
                         /\ UserReads(page_dir, p)
                         /\ p \notin AreaPages(se_hdr, "data") => ~UserWrites(page_dir, p)
                    /\ \A p \in AreaPages(se_hdr, "data") \cup UserStackPages :
                         UserWrites(page_dir, p)
                    /\ \A p \in 0 .. UserMemStart - 1 :
                         Present(page_dir, p) /\ ~UserReads(page_dir, p)
                    /\ \A p \in Pages : Present(page_dir, p) =>
                         p \in 0 .. UserMemStart - 1 \cup ImagePages(se_hdr)
                               \cup UserStackPages \cup KernelStackPages
  BY DEF EffectivePermissions
<1>1. pc = "user" /\ cr3 = "task" /\ seg = "data" /\ pc \notin Early
  BY DEF PermInv, PhaseInv, Early
<1>2. \A s \in Segments : Created(s) = AreaPages(se_hdr, s)
  BY <1>1 DEF Created, Before, Segments
<1>3. StackFlags /\ SegmentFlags /\ NothingElse
  BY <1>1 DEF PermInv
<1>4. ASSUME NEW p \in AreaPages(se_hdr, "text") \cup AreaPages(se_hdr, "rodata")
      PROVE  /\ UserReads(page_dir, p)
             /\ p \notin AreaPages(se_hdr, "data") => ~UserWrites(page_dir, p)
  <2>1. /\ PdeOf(p) \in {USR_RO, USR_RW}
        /\ IF p \in AreaPages(se_hdr, "data") THEN FlagsOf(p) = USR_RW ELSE FlagsOf(p) = USR_RO
    BY <1>2, <1>3 DEF SegmentFlags, Segments
  <2> QED BY <2>1 DEF UserReads, UserWrites, Present, Grants, PdeOf, FlagsOf, USR_RO, USR_RW
<1>5. ASSUME NEW p \in AreaPages(se_hdr, "data") \cup UserStackPages
      PROVE  UserWrites(page_dir, p)
  <2>1. PdeOf(p) = USR_RW /\ FlagsOf(p) = USR_RW
    BY <1>2, <1>3 DEF SegmentFlags, StackFlags, Segments
  <2> QED BY <2>1 DEF UserReads, UserWrites, Present, Grants, PdeOf, FlagsOf, USR_RW
<1>6. ASSUME NEW p \in 0 .. UserMemStart - 1
      PROVE  Present(page_dir, p) /\ ~UserReads(page_dir, p)
  <2>1. p \in Kernel
    BY DEF Kernel
  <2>2. AtOwnFrame(page_dir, p)
    BY <1>1, <2>1 DEF ReachInv
  <2>3. "user" \notin FlagsOf(p)
    BY <1>3, <2>1 DEF NothingElse
  <2> QED BY <2>2, <2>3 DEF AtOwnFrame, UserReads, Grants, FlagsOf
<1>7. ASSUME NEW p \in Pages, Present(page_dir, p)
      PROVE  p \in 0 .. UserMemStart - 1 \cup ImagePages(se_hdr)
                     \cup UserStackPages \cup KernelStackPages
  <2>1. Mapped(p)
    BY <1>7 DEF Present, Grants, Mapped
  <2> QED BY <1>3, <2>1 DEF NothingElse, Kernel
<1> QED BY <1>1, <1>4, <1>5, <1>6, <1>7

(* In user mode the task can read its code and constants and not write     *)
(* them unless they share a page with data, can write its data and its     *)
(* stack, and can reach neither the kernel nor anything else, although     *)
(* every mapping replaces the flags of a whole directory entry             *)
(* (vmm_map_page): the order of task_load, with data last, makes up for it *)
(* as long as the executable has page tables of its own.                   *)
THEOREM PermissionsHold ==
  ASSUME \A im \in Loadable : OwnTables(im)
  PROVE  Spec => []EffectivePermissions
<1>1. \A im \in Loadable : OwnRegions(im)
  BY DEF OwnTables, OwnRegions, RegionsOf
<1>2. \A im \in Loadable : AboveKernel(im)
  BY <1>1 DEF OwnRegions, RegionsOf, AboveKernel
<1>3. Init => IInv /\ ReachInv /\ PermInv
  BY <1>1, <1>2, InitInv, ReachInit, PermInit
<1> QED BY <1>3, NextInv, ReachNext, PermNext, PermImplies, PTL DEF Spec

-----------------------------------------------------------------------------
(* The stacks.  What is loaded into the stack pointers lies a margin below *)
(* the tops of the two stacks; from there down to the stack's size it is   *)
(* all stack, and the page below belongs to nobody.                        *)

StackBuffers(im) ==
  {UserStackBase - 1, NumPPF - StackPages - 1} \cap ImagePages(im) = {}

UserEsp == (NumPPF - StackPages - 1) * PAGE_SIZE - 1 - THREAD_STACK_MARGIN
KernelEsp == NumPPF * PAGE_SIZE - 1 - THREAD_STACK_MARGIN

EspInv ==
  /\ StackBuffers(se_hdr)
  /\ pc \notin Early => thread.esp = UserEsp /\ thread.kernel_esp = KernelEsp
  /\ cpu.mode = "user" => pc \notin Early /\ cpu.esp = UserEsp /\ cpu.esp0 = KernelEsp

LEMMA EspInit ==
  ASSUME \A im \in Loadable : StackBuffers(im), Init
  PROVE  EspInv
BY DEF Init, EspInv, Early, Loadable

(* What thread_create puts into the thread.                                *)
LEMMA StackPointers ==
  ASSUME IInv, thread_create
  PROVE  thread'.kernel_esp = KernelEsp /\ thread'.esp = UserEsp
<1>1. /\ pc = "thread_create"
      /\ thread'.kernel_esp = KernelStack - THREAD_STACK_MARGIN
      /\ thread'.esp = UserStackTop(KernelStack, StackPages) - THREAD_STACK_MARGIN
  BY DEF thread_create, StackPages
<1>2. KernelStack = NumPPF * PAGE_SIZE - 1
  <2>1. NextHigh = NumPPF - 1 /\ NumPPF \in Nat
    BY <1>1, Sizes DEF IInv, CountInv, NextHigh, Early
  <2> QED BY <2>1 DEF KernelStack
<1>3. UserStackTop(KernelStack, StackPages) = (NumPPF - StackPages - 1) * PAGE_SIZE - 1
  <2>1. NumPPF \in Nat /\ StackPages \in Nat /\ PAGE_SIZE \in Nat
    BY Sizes, TaskVMAssumption
  <2> HIDE DEF StackPages
  <2>2. (NumPPF - StackPages - 1) * PAGE_SIZE = NumPPF * PAGE_SIZE - (StackPages + 1) * PAGE_SIZE
    BY <2>1
  <2>3. NumPPF * PAGE_SIZE \in Nat /\ (StackPages + 1) * PAGE_SIZE \in Nat
    BY <2>1
  <2> QED BY <1>2, <2>1, <2>2, <2>3 DEF UserStackTop
<1> QED BY <1>1, <1>2, <1>3 DEF UserEsp, KernelEsp

LEMMA EspNext == IInv /\ EspInv /\ [Next]_vars => EspInv'
<1> SUFFICES ASSUME IInv, EspInv, [Next]_vars
             PROVE  EspInv'
  OBVIOUS
<1> USE DEF Early
<1>1. CASE vmm_page_init \/ task_create
  BY <1>1 DEF vmm_page_init, task_create, boot, load, EspInv
<1>2. CASE thread_create
  <2>1. pc = "thread_create" /\ pc' = "create" /\ UNCHANGED <<cpu, se_hdr>>
    BY <1>2 DEF thread_create, boot, load
  <2> QED BY <1>2, <2>1, StackPointers DEF EspInv
<1>3. CASE vm_area_create
  BY <1>3 DEF vm_area_create, boot, EspInv
<1>4. CASE vm_area_load
  BY <1>4 DEF vm_area_load, EndOfLoad, NextSegment, boot, EspInv
<1>5. CASE vm_area_zero
  BY <1>5 DEF vm_area_zero, NextSegment, boot, EspInv
<1>6. CASE task_load_entry
  <2>1. thread'.esp = thread.esp /\ thread'.kernel_esp = thread.kernel_esp
    BY <1>6 DEF task_load_entry
  <2> QED BY <1>6, <2>1 DEF task_load_entry, load, EspInv
<1>7. CASE thread_switch
  BY <1>7 DEF thread_switch, load, EspInv
<1>8. CASE sys_gettid
  BY <1>8 DEF sys_gettid, load, EspInv
<1>9. CASE UNCHANGED vars
  BY <1>9 DEF vars, EspInv
<1> QED BY <1>1, <1>2, <1>3, <1>4, <1>5, <1>6, <1>7, <1>8, <1>9 DEF Next

(* The pages a stack reaches whose top is the end of page top - 1.         *)
LEMMA StackReach ==
  ASSUME NEW top \in Nat, StackPages <= top
  PROVE  LET esp == top * PAGE_SIZE - 1 - THREAD_STACK_MARGIN
             room == StackSize - THREAD_STACK_MARGIN
         IN  /\ \A a \in esp - room + 1 .. esp : PageOf(a) \in top - StackPages .. top - 1
             /\ PageOf(esp) = top - 1
<1> DEFINE n == StackPages
           P == PAGE_SIZE
           m == THREAD_STACK_MARGIN
<1>1. /\ P \in Nat \ {0} /\ m \in 0 .. P - 1 /\ StackSize \in Nat \ {0} /\ n \in Nat \ {0}
  BY TaskVMAssumption, Sizes
<1>2. StackSize <= n * P
  <2>1. \A s, p \in Nat \ {0} : s <= (((s - 1) \div p) + 1) * p
    OBVIOUS
  <2> QED BY <1>1, <2>1 DEF StackPages, PagesFor
<1> HIDE DEF n, P, m
<1>3. \A k, p \in Nat : \A a \in Nat : p # 0 /\ k * p <= a => k <= a \div p
  OBVIOUS
<1>4. \A k, p \in Nat : \A a \in Nat : p # 0 /\ a < k * p => a \div p < k
  OBVIOUS
<1>5. /\ top * P \in Nat /\ n * P \in Nat /\ (top - n) * P = top * P - n * P
      /\ (top - n) * P \in Nat /\ top - n \in Nat
  <2>1. top - n \in Nat
    BY <1>1 DEF n
  <2>2. (top - n) * P = top * P - n * P
    BY <1>1, <2>1
  <2>3. top * P \in Nat /\ n * P \in Nat /\ (top - n) * P \in Nat
    BY <1>1, <2>1
  <2> QED BY <2>1, <2>2, <2>3
<1>6. ASSUME NEW a \in top * P - StackSize .. top * P - 1 - m
      PROVE  a \div P \in top - n .. top - 1
  <2>1. a \in Nat /\ (top - n) * P <= a /\ a < top * P
    BY <1>1, <1>2, <1>5
  <2>2. top - n <= a \div P /\ a \div P < top
    BY <1>1, <1>3, <1>4, <1>5, <2>1
  <2>3. a \div P \in Nat
    BY <1>1, <2>1, DivMul
  <2> QED BY <1>5, <2>2, <2>3
<1>7. (top * P - 1 - m) \div P = top - 1
  <2>1. top - 1 \in Nat /\ (top - 1) * P = top * P - P
    BY <1>1 DEF n
  <2>2. top * P - 1 - m \in Nat /\ (top - 1) * P <= top * P - 1 - m /\ top * P - 1 - m < top * P
    <3>1. (top - 1) * P \in Nat
      BY <1>1, <2>1
    <3> QED BY <1>1, <1>5, <2>1, <3>1
  <2> DEFINE e == top * P - 1 - m
  <2>3. top - 1 <= e \div P /\ e \div P < top /\ e \div P \in Nat
    <3> HIDE DEF e
    <3>1. e \in Nat /\ (top - 1) * P <= e /\ e < top * P
      BY <2>2 DEF e
    <3>2. e \div P \in Nat
      BY <1>1, <3>1, DivMul
    <3> QED BY <1>1, <1>3, <1>4, <2>1, <3>1, <3>2
  <2> HIDE DEF e
  <2>4. e \div P = top - 1
    BY <2>1, <2>3
  <2> QED BY <2>4 DEF e
<1>8. \A a : PageOf(a) = a \div P
  BY DEF PageOf, P
<1>9. (top * P - 1 - m) - (StackSize - m) + 1 = top * P - StackSize
  BY <1>1, <1>5
<1> QED BY <1>6, <1>7, <1>8, <1>9 DEF n, P, m

LEMMA StacksImply == IInv /\ ReachInv /\ PermInv /\ EspInv => StacksSeparated
<1> SUFFICES ASSUME IInv, ReachInv, PermInv, EspInv, cpu.mode = "user"
             PROVE  LET room == StackSize - THREAD_STACK_MARGIN
                        Below(esp) == {PageOf(a) : a \in esp - room + 1 .. esp}
                        BelowStack(esp) == PageOf(esp) - PagesFor(StackSize)
                    IN  /\ \A p \in Below(cpu.esp) : UserWrites(page_dir, p)
                        /\ \A p \in Below(cpu.esp0) : Present(page_dir, p)
                        /\ Below(cpu.esp) \cap Below(cpu.esp0) = {}
                        /\ ~Mapped(BelowStack(cpu.esp)) /\ ~Mapped(BelowStack(cpu.esp0))
  BY DEF StacksSeparated
<1> DEFINE room == StackSize - THREAD_STACK_MARGIN
           Below(esp) == {PageOf(a) : a \in esp - room + 1 .. esp}
           n == StackPages
           top == NumPPF - n - 1
<1>1. pc = "user" /\ pc \notin Early /\ cpu.esp = UserEsp /\ cpu.esp0 = KernelEsp
  BY DEF PermInv, PhaseInv, EspInv, Early
<1>2. /\ n \in Nat \ {0} /\ NumPPF \in Nat /\ NumPPF <= NumPages /\ UserMemStart \in Nat
      /\ UserMemStart + 2 + 2 * n <= NumPPF
      /\ top \in Nat /\ n <= top /\ n <= NumPPF
      /\ UserStackBase = NumPPF - 2 * n - 1
  <2>1. NumTables >= 2 /\ NumTables \in Nat
    BY Sizes, PagingAssumption DEF NumTables
  <2>2. FirstFree = UserMemStart + NumTables
    BY DEF FirstFree
  <2> HIDE DEF n
  <2>3. /\ n \in Nat \ {0} /\ NumPPF \in Nat /\ NumPPF <= NumPages /\ UserMemStart \in Nat
        /\ FirstFree + 2 * n <= NumPPF
    BY RoomForStacks DEF n
  <2> QED BY <2>1, <2>2, <2>3 DEF UserStackBase, n
<1> HIDE DEF n
<1>3. /\ UserStackPages = UserStackBase .. UserStackBase + n - 1
      /\ KernelStackPages = NumPPF - n .. NumPPF - 1
  BY UserStackRange DEF KernelStackPages, n, StackPages
<1>4. /\ Below(cpu.esp) \subseteq top - n .. top - 1 /\ PageOf(cpu.esp) = top - 1
  <2>1. cpu.esp = top * PAGE_SIZE - 1 - THREAD_STACK_MARGIN
    BY <1>1 DEF UserEsp, n
  <2> HIDE DEF top
  <2> QED BY <1>2, <2>1, StackReach DEF n
<1>5. /\ Below(cpu.esp0) \subseteq NumPPF - n .. NumPPF - 1 /\ PageOf(cpu.esp0) = NumPPF - 1
  <2>1. cpu.esp0 = NumPPF * PAGE_SIZE - 1 - THREAD_STACK_MARGIN
    BY <1>1 DEF KernelEsp
  <2> QED BY <1>2, <2>1, StackReach DEF n
<1>6. top - n .. top - 1 = UserStackPages
  BY <1>2, <1>3
<1> HIDE DEF Below
<1>7. \A p \in Below(cpu.esp) : UserWrites(page_dir, p)
  <2>1. ASSUME NEW p \in UserStackPages
        PROVE  UserWrites(page_dir, p)
    <3>1. PdeOf(p) = USR_RW /\ FlagsOf(p) = USR_RW
      BY <1>1 DEF PermInv, StackFlags
    <3> QED BY <3>1 DEF UserReads, UserWrites, Present, Grants, PdeOf, FlagsOf, USR_RW
  <2> QED BY <1>4, <1>6, <2>1
<1>8. \A p \in Below(cpu.esp0) : Present(page_dir, p)
  BY <1>1, <1>3, <1>5 DEF ReachInv, AtOwnFrame
<1>9. Below(cpu.esp) \cap Below(cpu.esp0) = {}
  BY <1>2, <1>4, <1>5
(* The two buffer pages.                                                   *)
<1>10. ASSUME NEW p \in {UserStackBase - 1, NumPPF - n - 1}
       PROVE  ~Mapped(p)
  <2>1. p \in Pages /\ p \notin Kernel
    BY <1>2, NumPagesPositive DEF Pages, Kernel
  <2>2. p \notin UserStackPages /\ p \notin KernelStackPages
    BY <1>2, <1>3
  <2>3. p \notin ImagePages(se_hdr)
    BY DEF EspInv, StackBuffers, n
  <2> QED BY <2>1, <2>2, <2>3 DEF PermInv, NothingElse
<1>11. ~Mapped(PageOf(cpu.esp) - n) /\ ~Mapped(PageOf(cpu.esp0) - n)
  <2>1. PageOf(cpu.esp) - n = UserStackBase - 1 /\ PageOf(cpu.esp0) - n = NumPPF - n - 1
    BY <1>2, <1>4, <1>5
  <2> QED BY <1>10, <2>1
<1> QED BY <1>7, <1>8, <1>9, <1>11 DEF Below, n, StackPages

(* In user mode everything either stack pointer can reach downwards, for   *)
(* the size of a stack, is mapped, the user's for the user to write; the   *)
(* two never meet, and a page that faults lies below each                  *)
(* (vmm_thread_init, vmm_kernel_stack_init), as long as no segment of the  *)
(* executable lies on that page.                                           *)
THEOREM StacksStaySeparated ==
  ASSUME \A im \in Loadable : OwnTables(im) /\ StackBuffers(im)
  PROVE  Spec => []StacksSeparated
<1>1. \A im \in Loadable : OwnRegions(im)
  BY DEF OwnTables, OwnRegions, RegionsOf
<1>2. \A im \in Loadable : AboveKernel(im)
  BY <1>1 DEF OwnRegions, RegionsOf, AboveKernel
<1>3. Init => IInv /\ ReachInv /\ PermInv /\ EspInv
  BY <1>1, <1>2, InitInv, ReachInit, PermInit, EspInit
<1> QED BY <1>3, NextInv, ReachNext, PermNext, EspNext, StacksImply, PTL DEF Spec
=============================================================================
