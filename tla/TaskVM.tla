------------------------------- MODULE TaskVM -------------------------------
(***************************************************************************)
(* From vmm_kernel_init to the first user instruction: the part of         *)
(* kernel_main that builds the kernel's and the idle task's address space, *)
(* creates the thread's stacks, loads the executable and switches to user  *)
(* mode (kernel.c, vmm.c, vmm_page.c, vm_area.c, task.c, loader.c).        *)
(*                                                                         *)
(* Page frames come from the counters of FrameAlloc; the machine has room  *)
(* for what the boot asks for.  Memory is modelled byte by byte above      *)
(* USER_MEM_START, for the loops of vm_area_load and vm_area_zero are      *)
(* about byte offsets; an iteration of a loop is a step.  Page tables are  *)
(* kept apart, in kernel_page_dir and page_dir.                            *)
(***************************************************************************)
EXTENDS Paging, Sequences, FiniteSets, FiniteSetsExt

CONSTANTS
  PAGE_SIZE,             \* bytes of a page
  NumPPF,                \* machine_phys_frames()
  UserMemStart,          \* USER_MEM_START as a frame number
  StackSize,             \* default_stack_size, in bytes
  THREAD_STACK_MARGIN,
  Images                 \* the executables elf_load_helper may describe

Segments == {"text", "rodata", "data"}
AddressSpace == NumPages * PAGE_SIZE
Addresses == 0 .. AddressSpace - 1

ASSUME TaskVMAssumption ==
  /\ PAGE_SIZE \in Nat \ {0}
  /\ NumPPF \in 1 .. NumPages
  /\ UserMemStart \in 1 .. NumPPF - 1
  /\ StackSize \in Nat \ {0}
  /\ THREAD_STACK_MARGIN \in 0 .. PAGE_SIZE - 1
  /\ \A im \in Images :
        /\ im.start \in [Segments -> Addresses]
        /\ im.len \in [Segments -> Nat]
        /\ im.off \in [Segments -> Nat]
        /\ im.bss \in Nat /\ im.entry \in Addresses /\ im.execlen \in Nat

VARIABLES
  pc,                    \* where kernel_main is
  page_count,            \* vmm_page.c
  highmem_page_count,    \* vmm_page.c
  kernel_page_dir,       \* the kernel's directory
  page_dir,              \* idle_task.page_dir
  cr3,                   \* the directory the processor uses, if any
  mem,                   \* the bytes of the frames above USER_MEM_START
  thread,                \* idle_task.thread
  se_hdr,                \* task_load's header
  seg,                   \* the segment task_load is at
  loop,                  \* the loop of vm_area_create, _load or _zero
  current_thread,        \* sched.c, an id or 0
  cpu                    \* what the switch to user mode loads, and eax

vars == <<pc, page_count, highmem_page_count, kernel_page_dir, page_dir, cr3, mem,
          thread, se_hdr, seg, loop, current_thread, cpu>>

boot == <<kernel_page_dir, cr3, current_thread, cpu>>
load == <<se_hdr, seg, loop>>

-----------------------------------------------------------------------------
(* Frames.                                                                 *)

Frames == 0 .. NumPPF - 1
UserFrames == UserMemStart .. NumPPF - 1
Offsets == 0 .. PAGE_SIZE - 1

(* Bytes are told apart by where they come from: byte k of the executable  *)
(* is k + 1, and Junk is what the boot loader left in memory.              *)
Junk == -1

PageOf(addr) == addr \div PAGE_SIZE
OffsetOf(addr) == addr % PAGE_SIZE

NextLow == UserMemStart + page_count
NextHigh == NumPPF - highmem_page_count

Cleared(frames) ==
  [f \in UserFrames |-> IF f \in frames THEN [o \in Offsets |-> 0] ELSE mem[f]]

(* ((size - 1) >> PAGE_SHIFT) + 1, for a size that is not 0.               *)
PagesFor(size) == ((size - 1) \div PAGE_SIZE) + 1

(* The number of pages an area touches, as all of vm_area.c computes it:   *)
(* of the last byte's page and the first byte's, modulo the address space. *)
NumPagesOf(start, size) ==
  Distance(PageOf(start), PageOf((start + size - 1) % AddressSpace)) + 1

(* Mutant: a table too few.                                                *)
MutantNumPdes(num) == (num - 1) \div PGTAB_SIZE

VMM_NUM_PDES(num) == ((num - 1) \div PGTAB_SIZE) + 1

(* The frames the whole boot takes for image im, which the machine has.    *)
AreaSize(im, s) == im.len[s] + (IF s = "data" THEN im.bss ELSE 0)
AreaPages(im, s) ==
  {p \in Pages : Distance(PageOf(im.start[s]), p) < NumPagesOf(im.start[s], AreaSize(im, s))}
ImagePages(im) == UNION {AreaPages(im, s) : s \in Segments}
FitsMemory(im) ==
  UserMemStart + (1 + VMM_NUM_PDES(NumPPF)) + (1 + PGDIR_SIZE)
    + 2 * PagesFor(StackSize) + Cardinality(ImagePages(im)) <= NumPPF

-----------------------------------------------------------------------------
NoDir == vmm_create_tables(0)
NoLoop == [i |-> 0, off |-> 0, total |-> 0]

Init ==
  /\ pc = "vmm_kernel_init"
  /\ page_count = 0
  /\ highmem_page_count = 1
  /\ kernel_page_dir = NoDir
  /\ page_dir = NoDir
  /\ cr3 = "none"
  /\ mem = [f \in UserFrames |-> [o \in Offsets |-> Junk]]
  /\ thread = [id |-> 0, kernel_esp |-> 0, esp |-> 0, eip |-> 0]
  /\ se_hdr \in {im \in Images : FitsMemory(im)}
  /\ seg = "text"
  /\ loop = NoLoop
  /\ current_thread = 0
  /\ cpu = [mode |-> "kernel", eip |-> 0, esp |-> 0, esp0 |-> 0, eax |-> 0]

(* vmm_page_init: the kernel maps all of physical memory onto itself.      *)
vmm_page_init ==
  /\ pc = "vmm_kernel_init"
  /\ page_count' = page_count + 1 + VMM_NUM_PDES(NumPPF)
  /\ mem' = Cleared(NextLow .. NextLow + VMM_NUM_PDES(NumPPF))
  /\ kernel_page_dir' = vmm_map_pages(vmm_create_tables(VMM_NUM_PDES(NumPPF)),
                                      0, 0, NumPPF, SU_RW)
  /\ cr3' = "kernel"
  /\ pc' = "task_create"
  /\ UNCHANGED <<highmem_page_count, page_dir, thread, load, current_thread, cpu>>

(* vm_area_create_identity, for an area that begins at page 0.             *)
vm_area_create_identity(dir, pages) == vmm_map_pages(dir, 0, 0, pages, SU_RW)

(* vmm_task_init: a table for every directory entry, and the kernel's part *)
(* of memory mapped onto itself.                                           *)
vmm_task_init == vm_area_create_identity(vmm_create_tables(PGDIR_SIZE), UserMemStart)

task_create ==
  /\ pc = "task_create"
  /\ page_count' = page_count + 1 + PGDIR_SIZE
  /\ mem' = Cleared(NextLow .. NextLow + PGDIR_SIZE)
  /\ page_dir' = vmm_task_init
  /\ pc' = "thread_create"
  /\ UNCHANGED <<highmem_page_count, thread, boot, load>>

(* Mutant: no buffer page between the kernel stack and the user stack.     *)
MutantUserStackTop(kernel_stack, n) == kernel_stack - n * PAGE_SIZE

(* The last byte of the user stack, a buffer page below the kernel stack.  *)
UserStackTop(kernel_stack, n) == kernel_stack - (n + 1) * PAGE_SIZE

(* vmm_kernel_stack_init: n frames from the top of memory, mapped where    *)
(* they are.                                                               *)
KernelStack == (NextHigh + 1) * PAGE_SIZE - 1
KernelBase(n) == NextHigh + 1 - n
vmm_kernel_stack_init(dir, n) == vmm_map_pages(dir, KernelBase(n), KernelBase(n), n, USR_RW)

(* vmm_thread_init: then the user stack, on n frames from the bottom.      *)
vmm_thread_init(dir, n) ==
  vmm_map_pages(vmm_kernel_stack_init(dir, n),
                PageOf(UserStackTop(KernelStack, n) - n * PAGE_SIZE + 1), NextLow, n, USR_RW)

thread_create ==
  LET n == PagesFor(StackSize)
  IN  /\ pc = "thread_create"
      /\ highmem_page_count' = highmem_page_count + n
      /\ page_count' = page_count + n
      /\ mem' = Cleared((KernelBase(n) .. NextHigh) \cup (NextLow .. NextLow + n - 1))
      /\ page_dir' = vmm_thread_init(page_dir, n)
      /\ thread' = [id |-> thread.id + 1,
                    kernel_esp |-> KernelStack - THREAD_STACK_MARGIN,
                    esp |-> UserStackTop(KernelStack, n) - THREAD_STACK_MARGIN,
                    eip |-> 0]
      /\ pc' = "create"
      /\ UNCHANGED <<boot, load>>

-----------------------------------------------------------------------------
(* task_load: for text, rodata, data in this order, vm_area_create and     *)
(* vm_area_load; then vm_area_zero for the bss.  The results of            *)
(* vm_area_load are only logged: whatever happened, task_load goes on.     *)

Start == se_hdr.start[seg]
SegFlags == IF seg = "data" THEN USR_RW ELSE USR_RO

(* The page iteration loop.i of the current loop works on.                 *)
LoopPage(addr) == (PageOf(addr) + loop.i) % NumPages

FrameAt(addr) == vmm_get_mapping(page_dir, LoopPage(addr)).frame

InArea(addr, length) ==
  Start <= addr /\ addr + length <= Start + AreaSize(se_hdr, seg)

BssStart == Start + se_hdr.len[seg]

NextSegment ==
  /\ seg' = CASE seg = "text" -> "rodata" [] seg = "rodata" -> "data" [] OTHER -> seg
  /\ pc' = IF seg = "data" THEN "start" ELSE "create"
  /\ loop' = NoLoop

EndOfLoad ==
  IF seg = "data"
    THEN /\ pc' = "zero"
         /\ loop' = [NoLoop EXCEPT !.off = OffsetOf(BssStart)]
         /\ UNCHANGED seg
    ELSE NextSegment

(* Mutant: a page that has a frame already gets another one.               *)
MutantCreateAlwaysAllocates ==
  LET page == LoopPage(Start)
  IN  /\ pc = "create"
      /\ page_dir' = vmm_map_page(page_dir, page, NextLow, SegFlags)
      /\ page_count' = page_count + 1
      /\ mem' = Cleared({NextLow})
      /\ IF loop.i + 1 < NumPagesOf(Start, AreaSize(se_hdr, seg))
           THEN loop' = [loop EXCEPT !.i = @ + 1] /\ UNCHANGED pc
           ELSE loop' = [NoLoop EXCEPT !.off = OffsetOf(Start)] /\ pc' = "load"
      /\ UNCHANGED <<highmem_page_count, thread, se_hdr, seg, boot>>

(* Mutant: the frame is allocated once, and not for every page.            *)
MutantCreateOneFrame ==
  LET page == LoopPage(Start)
      mapping == vmm_get_mapping(page_dir, page)
      last == loop.i + 1 >= NumPagesOf(Start, AreaSize(se_hdr, seg))
  IN  /\ pc = "create"
      /\ page_dir' = vmm_map_page(page_dir, page,
                                  IF mapping = Unmapped THEN NextLow ELSE mapping.frame,
                                  SegFlags)
      /\ page_count' = IF last THEN page_count + 1 ELSE page_count
      /\ mem' = Cleared({NextLow})
      /\ IF last THEN loop' = [NoLoop EXCEPT !.off = OffsetOf(Start)] /\ pc' = "load"
                 ELSE loop' = [loop EXCEPT !.i = @ + 1] /\ UNCHANGED pc
      /\ UNCHANGED <<highmem_page_count, thread, se_hdr, seg, boot>>

(* An iteration of vm_area_create: a page without a mapping gets a fresh   *)
(* frame, one with a mapping gets new flags.                               *)
vm_area_create ==
  LET page == LoopPage(Start)
      mapping == vmm_get_mapping(page_dir, page)
  IN  /\ pc = "create"
      /\ IF mapping = Unmapped
           THEN /\ page_dir' = vmm_map_page(page_dir, page, NextLow, SegFlags)
                /\ page_count' = page_count + 1
                /\ mem' = Cleared({NextLow})
           ELSE /\ page_dir' = vmm_map_page(page_dir, page, mapping.frame, SegFlags)
                /\ UNCHANGED <<page_count, mem>>
      /\ IF loop.i + 1 < NumPagesOf(Start, AreaSize(se_hdr, seg))
           THEN loop' = [loop EXCEPT !.i = @ + 1] /\ UNCHANGED pc
           ELSE loop' = [NoLoop EXCEPT !.off = OffsetOf(Start)] /\ pc' = "load"
      /\ UNCHANGED <<highmem_page_count, thread, se_hdr, seg, boot>>

(* Mutant: the end of the file is not looked at.                           *)
MutantGetbytesUnclipped(offset, size) == size

(* getbytes: as much of the request as the file has from offset on.        *)
getbytes(offset, size) ==
  IF offset >= se_hdr.execlen THEN 0 ELSE Min({size, se_hdr.execlen - offset})

(* Memory after bytes are copied into frame f from offset off on.  Kernel  *)
(* frames, below USER_MEM_START, are not tracked.                          *)
Written(f, off, bytes) ==
  IF f \in UserFrames
    THEN [mem EXCEPT ![f] =
            [o \in Offsets |-> IF o - off \in DOMAIN bytes THEN bytes[o - off] ELSE @[o]]]
    ELSE mem

(* n bytes of the file, from offset on; n zeros.                           *)
FileBytes(offset, n) == [k \in 0 .. n - 1 |-> offset + k + 1]
Zeros(n) == [k \in 0 .. n - 1 |-> 0]

(* Mutant: a read that is short is tried again.                            *)
MutantLoadRetries ==
  LET from == se_hdr.off[seg] + loop.total
      bytes_to_read == Min({se_hdr.len[seg] - loop.total, PAGE_SIZE - loop.off})
      bytes_read == getbytes(from, bytes_to_read)
  IN  /\ pc = "load"
      /\ mem' = Written(FrameAt(Start), loop.off, FileBytes(from, bytes_read))
      /\ IF bytes_read # bytes_to_read
           THEN UNCHANGED <<pc, seg, loop>>
           ELSE IF loop.i + 1 = NumPagesOf(Start, se_hdr.len[seg])
             THEN EndOfLoad
             ELSE /\ loop' = [i |-> loop.i + 1, off |-> 0, total |-> loop.total + bytes_read]
                  /\ UNCHANGED <<pc, seg>>
      /\ UNCHANGED <<page_count, highmem_page_count, page_dir, thread, se_hdr, boot>>

(* An iteration of vm_area_load; a read that is short ends it.             *)
vm_area_load ==
  LET length == se_hdr.len[seg]
      from == se_hdr.off[seg] + loop.total
      bytes_to_read == Min({length - loop.total, PAGE_SIZE - loop.off})
      bytes_read == getbytes(from, bytes_to_read)
  IN  /\ pc = "load"
      /\ IF ~InArea(Start, length)
           THEN EndOfLoad /\ UNCHANGED mem
           ELSE /\ mem' = Written(FrameAt(Start), loop.off, FileBytes(from, bytes_read))
                /\ IF bytes_read = 0 \/ bytes_read # bytes_to_read
                        \/ loop.i + 1 = NumPagesOf(Start, length)
                     THEN EndOfLoad
                     ELSE /\ loop' = [i |-> loop.i + 1, off |-> 0,
                                      total |-> loop.total + bytes_read]
                          /\ UNCHANGED <<pc, seg>>
      /\ UNCHANGED <<page_count, highmem_page_count, page_dir, thread, se_hdr, boot>>

(* What an iteration of vm_area_zero clears.  total_bytes_zeroed is never  *)
(* advanced, so every iteration asks for all of the length again.          *)
bytes_to_zero == Min({se_hdr.bss, PAGE_SIZE - loop.off})

(* An iteration of vm_area_zero.                                           *)
vm_area_zero ==
  /\ pc = "zero"
  /\ IF ~InArea(BssStart, se_hdr.bss)
       THEN NextSegment /\ UNCHANGED mem
       ELSE /\ mem' = Written(FrameAt(BssStart), loop.off, Zeros(bytes_to_zero))
            /\ IF loop.i + 1 = NumPagesOf(BssStart, se_hdr.bss)
                 THEN NextSegment
                 ELSE /\ loop' = [loop EXCEPT !.i = @ + 1, !.off = 0]
                      /\ UNCHANGED <<pc, seg>>
  /\ UNCHANGED <<page_count, highmem_page_count, page_dir, thread, se_hdr, boot>>

(* The end of task_load, and sched_set_current_thread in kernel_main.      *)
task_load_entry ==
  /\ pc = "start"
  /\ thread' = [thread EXCEPT !.eip = se_hdr.entry]
  /\ current_thread' = thread.id
  /\ pc' = "sched_yield"
  /\ UNCHANGED <<page_count, highmem_page_count, kernel_page_dir, page_dir, cr3, mem,
                 load, cpu>>

(* sched_yield: thread_switch loads the directory and esp0, do_task_switch *)
(* builds the frame for iret.                                              *)
thread_switch ==
  /\ pc = "sched_yield"
  /\ cr3' = "task"
  /\ current_thread' = thread.id
  /\ cpu' = [mode |-> "user", eip |-> thread.eip, esp |-> thread.esp,
             esp0 |-> thread.kernel_esp, eax |-> cpu.eax]
  /\ pc' = "user"
  /\ UNCHANGED <<page_count, highmem_page_count, kernel_page_dir, page_dir, mem, thread,
                 load>>

(* The gettid system call of the running task.                             *)
sys_gettid ==
  /\ pc = "user"
  /\ cpu' = [cpu EXCEPT !.eax = current_thread]
  /\ UNCHANGED <<pc, page_count, highmem_page_count, kernel_page_dir, page_dir, cr3, mem,
                 thread, load, current_thread>>

Next ==
  \/ vmm_page_init \/ task_create \/ thread_create
  \/ vm_area_create \/ vm_area_load \/ vm_area_zero
  \/ task_load_entry \/ thread_switch \/ sys_gettid

Spec == Init /\ [][Next]_vars
FairSpec == Spec /\ WF_vars(Next)

-----------------------------------------------------------------------------
(* Properties.                                                             *)

Bytes == {Junk, 0} \cup 1 .. se_hdr.execlen
Directories ==
  [pde : [Regions -> SUBSET Flags],
   pte : [Pages -> [frame : Frames, flags : SUBSET Flags]]]

(* The counters and addresses stay inside the machine, and a byte of user  *)
(* memory is one the boot loader left, a zero, or a byte of the file.      *)
TypeOK ==
  /\ pc \in {"vmm_kernel_init", "task_create", "thread_create", "create", "load", "zero",
             "start", "sched_yield", "user"}
  /\ page_count \in 0 .. NumPPF /\ highmem_page_count \in 1 .. NumPPF
  /\ kernel_page_dir \in Directories /\ page_dir \in Directories
  /\ cr3 \in {"none", "kernel", "task"}
  /\ mem \in [UserFrames -> [Offsets -> Bytes]]
  /\ thread \in [id : {0, 1}, kernel_esp : Addresses, esp : Addresses, eip : Addresses]
  /\ se_hdr \in Images /\ seg \in Segments
  /\ loop \in [i : 0 .. NumPages, off : Offsets, total : Nat]
  /\ current_thread \in {0, 1}
  /\ cpu \in [mode : {"kernel", "user"}, eip : Addresses, esp : Addresses,
              esp0 : Addresses, eax : {0, 1}]

(* The frames of the page directories and page tables: they are the first  *)
(* the boot takes.                                                         *)
TableFrames == UserMemStart .. UserMemStart + (1 + VMM_NUM_PDES(NumPPF)) + PGDIR_SIZE

(* Mapped by the task, at whatever privilege.                              *)
Mapped(page) == page_dir.pte[page].flags # {}

(* No two pages of the task share a frame, and no page that a user may     *)
(* touch lies on a page table or on the kernel: what the loader writes     *)
(* through one page is never seen, or destroyed, through another           *)
(* (vm_area_create, vmm_kernel_stack_init and vmm_thread_init each pick    *)
(* frames in their own way).                                               *)
FramesUnshared ==
  \A p \in Pages : Mapped(p) =>
    /\ \A q \in Pages \ {p} : Mapped(q) => page_dir.pte[q].frame # page_dir.pte[p].frame
    /\ "user" \in page_dir.pte[p].flags =>
         page_dir.pte[p].frame \in UserFrames \ TableFrames

ByteAt(addr) == mem[page_dir.pte[PageOf(addr)].frame][OffsetOf(addr)]

(* Once task_load is through, every byte of text, rodata and data is the   *)
(* byte of the file, or 0 where the file is too short, and every byte of   *)
(* the bss is 0, however the segments straddle and share pages.            *)
LoadedImage ==
  pc \in {"start", "sched_yield", "user"} =>
    /\ \A s \in Segments : \A k \in 0 .. se_hdr.len[s] - 1 :
         LET at == se_hdr.off[s] + k
         IN  ByteAt(se_hdr.start[s] + k) = IF at < se_hdr.execlen THEN at + 1 ELSE 0
    /\ \A k \in 0 .. se_hdr.bss - 1 :
         ByteAt(se_hdr.start["data"] + se_hdr.len["data"] + k) = 0

KernelStackPages ==
  NumPPF - PagesFor(StackSize) .. NumPPF - 1
UserStackPages ==
  {p \in Pages : \E k \in 1 .. PagesFor(StackSize) : p = NumPPF - PagesFor(StackSize) - 1 - k}

(* When the task runs, directory and table entries together grant what the *)
(* segments ask for and nothing else: code and constants can be read and   *)
(* not written unless they share a page with data, data and stack can be   *)
(* written, the kernel's part of memory cannot be reached, and nothing     *)
(* else is mapped.  vmm_map_page replaces the flags of a whole directory   *)
(* entry, so each mapping can undo another one's.                          *)
EffectivePermissions ==
  cpu.mode = "user" =>
    /\ cr3 = "task"
    /\ \A p \in AreaPages(se_hdr, "text") \cup AreaPages(se_hdr, "rodata") :
         /\ UserReads(page_dir, p)
         /\ p \notin AreaPages(se_hdr, "data") => ~UserWrites(page_dir, p)
    /\ \A p \in AreaPages(se_hdr, "data") \cup UserStackPages : UserWrites(page_dir, p)
    /\ \A p \in 0 .. UserMemStart - 1 :
         Present(page_dir, p) /\ ~UserReads(page_dir, p)
    /\ \A p \in Pages : Present(page_dir, p) =>
         p \in 0 .. UserMemStart - 1 \cup ImagePages(se_hdr) \cup UserStackPages
               \cup KernelStackPages

(* What the task finds at an address above the kernel's, and what the      *)
(* executable has for it.                                                  *)
Absent == -2
Found(addr) ==
  LET entry == page_dir.pte[PageOf(addr)]
  IN  IF entry.flags = {} \/ entry.frame < UserMemStart THEN Absent ELSE ByteAt(addr)
InFile(addr) ==
  LET at == {se_hdr.off[s] + addr - se_hdr.start[s] :
               s \in {t \in Segments : addr - se_hdr.start[t] \in 0 .. se_hdr.len[t] - 1}}
      here == {k \in at : k < se_hdr.execlen}
  IN  IF here = {} THEN 0 ELSE Min(here) + 1

(* The boot only ever fills the task's address space: the bytes of a page  *)
(* that segments share, and of the stacks, stay what they have become      *)
(* while page_dir and memory change underneath them.                       *)
Space == INSTANCE AddressSpace
           WITH space <- [a \in Addresses |-> Found(a)],
                final <- [a \in Addresses |-> InFile(a)]
ImplementsAddressSpace == Space!Spec

(* The kernel works on frames at their physical addresses, and handlers    *)
(* may run at any time: in the directory the processor uses, the kernel's  *)
(* part of memory, the kernel stack, and until the switch every frame that *)
(* was handed out, lie at their own address and can be written.            *)
KernelReaches ==
  LET At(dir, p) == /\ Present(dir, p) /\ Grants(dir, p, "write")
                    /\ dir.pte[p].frame = p
      Kernel == 0 .. UserMemStart - 1
      Taken == (UserMemStart .. NextLow - 1) \cup (NextHigh + 1 .. NumPPF - 1)
  IN  /\ cr3 = "kernel" => \A p \in Kernel \cup Taken : At(kernel_page_dir, p)
      /\ cr3 = "task" => \A p \in Kernel \cup KernelStackPages : At(page_dir, p)

(* When the task runs, all that its stack pointer, and the kernel's, may   *)
(* reach downwards is mapped, and beyond either stack is a page that       *)
(* faults.                                                                 *)
StacksSeparated ==
  cpu.mode = "user" =>
    LET room == StackSize - THREAD_STACK_MARGIN
        Below(esp) == {PageOf(a) : a \in esp - room + 1 .. esp}
        BelowStack(esp) == PageOf(esp) - PagesFor(StackSize)
    IN  /\ \A p \in Below(cpu.esp) : UserWrites(page_dir, p)
        /\ \A p \in Below(cpu.esp0) : Present(page_dir, p)
        /\ Below(cpu.esp) \cap Below(cpu.esp0) = {}
        /\ ~Mapped(BelowStack(cpu.esp)) /\ ~Mapped(BelowStack(cpu.esp0))

(* Whatever the executable, even one that is cut short, the boot ends in   *)
(* user mode at the entry point with a thread id the gettid call returns.  *)
UserReached == <>(cpu.mode = "user" /\ cpu.eip = se_hdr.entry /\ cpu.eax = thread.id)

(* vm_area_zero refuses a request that is out of the area's bounds: what   *)
(* an iteration clears lies in the area.                                   *)
ZeroStaysInArea ==
  (pc = "zero" /\ InArea(BssStart, se_hdr.bss)) =>
    \A o \in loop.off .. loop.off + bytes_to_zero - 1 :
      LoopPage(BssStart) * PAGE_SIZE + o
        \in Start .. Start + AreaSize(se_hdr, seg) - 1
=============================================================================
