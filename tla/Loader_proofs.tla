---------------------------- MODULE Loader_proofs ----------------------------
(***************************************************************************)
(* The loader, for every machine and every executable that lies above the  *)
(* kernel's part of memory.  First, TaskVM's type correctness: the         *)
(* counters stay inside the machine, the loops inside the address space,   *)
(* and memory only ever holds what the boot loader left, zeros, and bytes  *)
(* of the file.  Second, for an executable laid out as a linker lays it    *)
(* out, the task finds it in memory, byte for byte: what the page tables   *)
(* and frames, loops and counters of the boot amount to is an address      *)
(* space that is filled and never disturbed.                               *)
(***************************************************************************)
EXTENDS TaskVM_proofs

(* The loops stop: an iteration is one of the pages of its range, and      *)
(* vm_area_load never reads more than it was asked to.                     *)
IterationInv ==
  /\ pc = "load" => /\ loop.i < NumPagesOf(Start, se_hdr.len[seg])
                    /\ loop.total <= se_hdr.len[seg]
  /\ pc = "zero" => loop.i < NumPagesOf(BssStart, se_hdr.bss)

DataInv ==
  /\ cr3 \in {"none", "kernel", "task"}
  /\ kernel_page_dir \in Directories
  /\ mem \in [UserFrames -> [Offsets -> Bytes]]
  /\ thread \in [id : {0, 1}, kernel_esp : Addresses, esp : Addresses, eip : Addresses]
  /\ pc \in Early => thread.id = 0
  /\ loop \in [i : 0 .. NumPages, off : Offsets, total : Nat]
  /\ current_thread \in {0, 1}
  /\ cpu \in [mode : {"kernel", "user"}, eip : Addresses, esp : Addresses,
              esp0 : Addresses, eax : {0, 1}]

TInv == IterationInv /\ DataInv

-----------------------------------------------------------------------------
LEMMA MinOfTwo ==
  ASSUME NEW a \in Int, NEW b \in Int
  PROVE  Min({a, b}) = IF a <= b THEN a ELSE b
<1>1. CASE a <= b
  BY <1>1 DEF Min
<1>2. CASE ~(a <= b)
  BY <1>2 DEF Min
<1> QED BY <1>1, <1>2

LEMMA ModRange == \A n \in Nat \ {0} : \A a \in Int : a % n \in 0 .. n - 1
OBVIOUS

(* The header's fields, and what is computed from them.                    *)
LEMMA HeaderTypes ==
  ASSUME IInv
  PROVE  /\ se_hdr.len[seg] \in Nat /\ se_hdr.off[seg] \in Nat /\ se_hdr.bss \in Nat
         /\ se_hdr.execlen \in Nat /\ se_hdr.entry \in Addresses
         /\ Start \in Nat /\ BssStart \in Nat
         /\ OffsetOf(Start) \in Offsets /\ OffsetOf(BssStart) \in Offsets
<1>1. /\ se_hdr.len[seg] \in Nat /\ se_hdr.off[seg] \in Nat /\ se_hdr.bss \in Nat
      /\ se_hdr.execlen \in Nat /\ se_hdr.entry \in Addresses /\ Start \in Addresses
  BY TaskVMAssumption DEF IInv, HeaderInv, Start
<1>2. Start \in Nat /\ BssStart \in Nat
  BY <1>1 DEF Addresses, BssStart
<1>3. \A a \in Nat : OffsetOf(a) \in Offsets
  BY TaskVMAssumption, ModRange DEF OffsetOf, Offsets
<1> QED BY <1>1, <1>2, <1>3

(* A number of pages is at least 1 and at most that of the address space,  *)
(* wherever the range lies.                                                *)
LEMMA NumPagesRange ==
  ASSUME NEW start \in Nat, NEW size \in Nat
  PROVE  NumPagesOf(start, size) \in 1 .. NumPages
<1>1. AddressSpace \in Nat \ {0} /\ PAGE_SIZE \in Nat \ {0} /\ NumPages \in Nat \ {0}
  <2>1. \A a, b \in Nat \ {0} : a * b \in Nat \ {0}
    OBVIOUS
  <2> QED BY <2>1, TaskVMAssumption, NumPagesPositive DEF AddressSpace
<1> DEFINE last == (start + size - 1) % AddressSpace
<1>2. last \in Nat
  <2>1. start + size - 1 \in Int
    OBVIOUS
  <2> QED BY <1>1, <2>1, ModRange
<1> HIDE DEF last
<1>3. PageOf(start) \in Nat /\ PageOf(last) \in Nat
  BY <1>1, <1>2, DivMul DEF PageOf
<1>4. Distance(PageOf(start), PageOf(last)) \in 0 .. NumPages - 1
  BY <1>1, <1>3, ModRange DEF Distance
<1> QED BY <1>1, <1>4 DEF NumPagesOf, last

(* The two addresses thread_create computes.                               *)
LEMMA EspAddresses ==
  ASSUME IInv
  PROVE  UserEsp \in Addresses /\ KernelEsp \in Addresses /\ 0 \in Addresses
<1>1. \A t \in Nat \ {0} : t <= NumPages => t * PAGE_SIZE - 1 - THREAD_STACK_MARGIN \in Addresses
  <2> SUFFICES ASSUME NEW t \in Nat \ {0}, t <= NumPages
               PROVE  t * PAGE_SIZE - 1 - THREAD_STACK_MARGIN \in Addresses
    OBVIOUS
  <2>1. PAGE_SIZE \in Nat \ {0} /\ THREAD_STACK_MARGIN \in 0 .. PAGE_SIZE - 1 /\ NumPages \in Nat
    BY TaskVMAssumption, NumPagesPositive
  <2>2. t * PAGE_SIZE \in Nat /\ PAGE_SIZE <= t * PAGE_SIZE
        /\ t * PAGE_SIZE <= NumPages * PAGE_SIZE /\ NumPages * PAGE_SIZE \in Nat
    BY <2>1
  <2> QED BY <2>1, <2>2 DEF Addresses, AddressSpace
<1>2. NumPPF - StackPages - 1 \in Nat \ {0} /\ NumPPF - StackPages - 1 <= NumPages
      /\ NumPPF \in Nat \ {0} /\ NumPPF <= NumPages
  BY RoomForStacks, NumPagesPositive
<1>3. 0 \in Addresses
  <2>1. \A a, b \in Nat \ {0} : 0 \in 0 .. a * b - 1
    OBVIOUS
  <2> QED BY <2>1, TaskVMAssumption, NumPagesPositive DEF Addresses, AddressSpace
<1> QED BY <1>1, <1>2, <1>3 DEF UserEsp, KernelEsp

-----------------------------------------------------------------------------
(* Memory.                                                                 *)

LEMMA ClearedType ==
  ASSUME mem \in [UserFrames -> [Offsets -> Bytes]], NEW frames
  PROVE  Cleared(frames) \in [UserFrames -> [Offsets -> Bytes]]
BY DEF Cleared, Bytes

LEMMA WrittenType ==
  ASSUME mem \in [UserFrames -> [Offsets -> Bytes]], NEW f, NEW off, NEW bytes,
         \A k \in DOMAIN bytes : bytes[k] \in Bytes
  PROVE  Written(f, off, bytes) \in [UserFrames -> [Offsets -> Bytes]]
<1>1. CASE f \in UserFrames
  <2> DEFINE row == [o \in Offsets |-> IF o - off \in DOMAIN bytes THEN bytes[o - off]
                                                                   ELSE mem[f][o]]
  <2>1. row \in [Offsets -> Bytes]
    BY <1>1
  <2>2. Written(f, off, bytes) = [mem EXCEPT ![f] = row]
    BY <1>1 DEF Written
  <2> HIDE DEF row
  <2> QED BY <2>1, <2>2
<1>2. CASE f \notin UserFrames
  BY <1>2 DEF Written
<1> QED BY <1>1, <1>2

(* What vm_area_load copies is in the file.                                *)
LEMMA FileBytesType ==
  ASSUME IInv, NEW offset \in Nat, NEW size \in Nat
  PROVE  /\ getbytes(offset, size) \in 0 .. size
         /\ \A k \in DOMAIN FileBytes(offset, getbytes(offset, size)) :
              FileBytes(offset, getbytes(offset, size))[k] \in Bytes
<1> DEFINE n == getbytes(offset, size)
<1>1. se_hdr.execlen \in Nat
  BY HeaderTypes
<1>2. n \in 0 .. size /\ (n # 0 => offset + n <= se_hdr.execlen)
  <2>1. CASE offset >= se_hdr.execlen
    BY <2>1 DEF getbytes
  <2>2. CASE ~(offset >= se_hdr.execlen)
    BY <1>1, <2>2, MinOfTwo DEF getbytes
  <2> QED BY <2>1, <2>2
<1> HIDE DEF n
<1>3. ASSUME NEW k \in 0 .. n - 1
      PROVE  offset + k + 1 \in Bytes
  BY <1>1, <1>2, <1>3 DEF Bytes
<1> QED BY <1>2, <1>3 DEF FileBytes, n

-----------------------------------------------------------------------------
(* The directories.                                                        *)

(* What the invariant says of frames bounds those of the task's directory. *)
LEMMA TaskDirectoryType == IInv => page_dir \in Directories
<1> SUFFICES ASSUME IInv
             PROVE  page_dir \in Directories
  OBVIOUS
<1>1. page_dir \in PageDirectories
  BY DEF IInv, DirInv
<1>2. ASSUME NEW p \in Pages
      PROVE  page_dir.pte[p].frame \in Frames
  <2>1. CASE ~Mapped(p)
    <3>1. page_dir.pte[p].frame = 0
      BY <2>1 DEF IInv, DirInv, Unmapped
    <3> QED BY <3>1, Sizes DEF Frames
  <2>2. CASE OfKernel(p)
    BY <2>2, FramesArePages DEF OfKernel
  <2>3. CASE OfKernelStack(p)
    BY <2>3, FramesArePages DEF OfKernelStack
  <2>4. CASE OfLowFrame(p)
    BY <2>4, LowBound, RoomForStacks DEF OfLowFrame, Frames
  <2> QED BY <2>1, <2>2, <2>3, <2>4 DEF IInv, PlacedInv
<1> QED BY <1>1, <1>2 DEF PageDirectories, Directories

LEMMA EmptyDirectory ==
  ASSUME NEW n \in Nat
  PROVE  vmm_create_tables(n) \in Directories
<1>1. 0 \in Frames
  BY Sizes DEF Frames
<1> QED BY <1>1 DEF vmm_create_tables, Directories, Unmapped, SU_RW, Flags

(* The kernel's maps no page beyond memory.                                *)
LEMMA KernelDirectoryType ==
  vmm_map_pages(vmm_create_tables(VMM_NUM_PDES(NumPPF)), 0, 0, NumPPF, SU_RW) \in Directories
<1> DEFINE dir == vmm_create_tables(VMM_NUM_PDES(NumPPF))
<1>1. dir \in Directories
  BY EmptyDirectory, Sizes
<1>2. SU_RW \in SUBSET Flags
  BY DEF SU_RW, Flags
<1>3. ASSUME NEW p \in Pages, Distance(0, p) < NumPPF
      PROVE  0 + Distance(0, p) \in Frames
  <2>1. 0 \in Pages /\ p \in Nat
    BY NumPagesPositive DEF Pages
  <2>2. Distance(0, p) = p
    BY <2>1, DistanceCases
  <2> QED BY <1>3, <2>1, <2>2, Sizes DEF Frames
<1> HIDE DEF dir
<1>4. vmm_map_pages(dir, 0, 0, NumPPF, SU_RW) \in Directories
  BY <1>1, <1>2, <1>3 DEF vmm_map_pages, Directories
<1> QED BY <1>4 DEF dir

-----------------------------------------------------------------------------
(* The steps.                                                              *)

LEMMA TypeInit ==
  ASSUME \A im \in Loadable : AboveKernel(im), Init
  PROVE  TInv
<1>1. IInv
  BY InitInv
<1>2. mem \in [UserFrames -> [Offsets -> Bytes]]
  BY DEF Init, Bytes
<1>3. 0 \in Addresses /\ 0 \in 0 .. NumPages /\ 0 \in Offsets
  BY <1>1, EspAddresses, TaskVMAssumption, NumPagesPositive DEF Offsets
<1>4. kernel_page_dir \in Directories
  BY EmptyDirectory DEF Init, NoDir
<1>5. IterationInv
  BY DEF Init, IterationInv
<1> QED BY <1>2, <1>3, <1>4, <1>5 DEF Init, TInv, DataInv, NoLoop, Early

LEMMA TypePageInit ==
  ASSUME IInv, TInv, vmm_page_init
  PROVE  TInv'
<1>1. /\ pc = "vmm_kernel_init" /\ pc' = "task_create" /\ cr3' = "kernel"
      /\ UNCHANGED <<thread, se_hdr, seg, loop, current_thread, cpu>>
  BY DEF vmm_page_init, load
<1>2. mem' \in [UserFrames -> [Offsets -> Bytes]]
  BY ClearedType DEF vmm_page_init, TInv, DataInv
<1>3. kernel_page_dir' \in Directories
  BY KernelDirectoryType DEF vmm_page_init
<1> QED BY <1>1, <1>2, <1>3 DEF TInv, DataInv, IterationInv, Bytes, Early

LEMMA TypeTaskCreate ==
  ASSUME IInv, TInv, task_create
  PROVE  TInv'
<1>1. /\ pc = "task_create" /\ pc' = "thread_create"
      /\ UNCHANGED <<thread, se_hdr, seg, loop, current_thread, cpu, cr3, kernel_page_dir>>
  BY DEF task_create, load, boot
<1>2. mem' \in [UserFrames -> [Offsets -> Bytes]]
  BY ClearedType DEF task_create, TInv, DataInv
<1> QED BY <1>1, <1>2 DEF TInv, DataInv, IterationInv, Bytes, Early

LEMMA TypeThreadCreate ==
  ASSUME IInv, TInv, thread_create
  PROVE  TInv'
<1>1. /\ pc = "thread_create" /\ pc' = "create"
      /\ UNCHANGED <<se_hdr, seg, loop, current_thread, cpu, cr3, kernel_page_dir>>
  BY DEF thread_create, load, boot
<1>2. mem' \in [UserFrames -> [Offsets -> Bytes]]
  BY ClearedType DEF thread_create, TInv, DataInv
<1>3. thread' \in [id : {0, 1}, kernel_esp : Addresses, esp : Addresses, eip : Addresses]
  <2>1. thread.id = 0
    BY <1>1 DEF TInv, DataInv, Early
  <2>2. /\ thread' = [id |-> thread.id + 1, kernel_esp |-> thread'.kernel_esp,
                      esp |-> thread'.esp, eip |-> 0]
    BY DEF thread_create
  <2> QED BY <2>1, <2>2, StackPointers, EspAddresses
<1> QED BY <1>1, <1>2, <1>3 DEF TInv, DataInv, IterationInv, Bytes, Early

(* A loop begins at its first page, which there is.                        *)
LEMMA LoopBegins ==
  ASSUME NEW off \in Offsets
  PROVE  [NoLoop EXCEPT !.off = off] \in [i : 0 .. NumPages, off : Offsets, total : Nat]
BY NumPagesPositive DEF NoLoop

LEMMA TypeVmAreaCreate ==
  ASSUME IInv, TInv, vm_area_create
  PROVE  TInv'
<1> DEFINE n == NumPagesOf(Start, AreaSize(se_hdr, seg))
<1>1. /\ pc = "create" /\ pc' \in {"create", "load"}
      /\ UNCHANGED <<thread, se_hdr, seg, current_thread, cpu, cr3, kernel_page_dir>>
      /\ mem' \in {mem, Cleared({NextLow})}
      /\ \/ pc' = pc /\ loop' = [loop EXCEPT !.i = @ + 1] /\ loop.i + 1 < n
         \/ pc' = "load" /\ loop' = [NoLoop EXCEPT !.off = OffsetOf(Start)]
  BY DEF vm_area_create, boot
<1>2. mem' \in [UserFrames -> [Offsets -> Bytes]]
  BY <1>1, ClearedType DEF TInv, DataInv
<1>3. n \in 1 .. NumPages /\ loop.i \in 0 .. NumPages
  <2>1. Start \in Addresses /\ AreaSize(se_hdr, seg) \in Nat
    BY AreaSizes DEF IInv, HeaderInv, Start
  <2> QED BY <2>1, NumPagesOfArea DEF TInv, DataInv
<1> HIDE DEF n
<1>4. loop' \in [i : 0 .. NumPages, off : Offsets, total : Nat]
  <2>1. CASE loop' = [loop EXCEPT !.i = @ + 1] /\ loop.i + 1 < n
    BY <1>3, <2>1, NumPagesPositive DEF TInv, DataInv
  <2>2. CASE loop' = [NoLoop EXCEPT !.off = OffsetOf(Start)]
    BY <2>2, HeaderTypes, LoopBegins
  <2> QED BY <1>1, <2>1, <2>2
<1>5. IterationInv'
  <2>1. CASE pc' = "create"
    BY <2>1 DEF IterationInv
  <2>2. CASE pc' = "load" /\ loop' = [NoLoop EXCEPT !.off = OffsetOf(Start)]
    <3>1. loop'.i = 0 /\ loop'.total = 0
      BY <2>2 DEF NoLoop
    <3>2. Start' = Start
      BY <1>1 DEF Start
    <3>3. se_hdr.len[seg] \in Nat /\ NumPagesOf(Start, se_hdr.len[seg]) \in 1 .. NumPages
      BY HeaderTypes, NumPagesRange
    <3> QED BY <1>1, <2>2, <3>1, <3>2, <3>3, NumPagesPositive DEF IterationInv
  <2> QED BY <1>1, <2>1, <2>2
<1> QED BY <1>1, <1>2, <1>4, <1>5 DEF TInv, DataInv, Bytes, Early

(* The steps between the loops.                                            *)
LEMMA TypeEndOfLoad ==
  ASSUME IInv, UNCHANGED se_hdr, EndOfLoad \/ NextSegment
  PROVE  /\ IterationInv' /\ pc' \notin Early
         /\ loop' \in [i : 0 .. NumPages, off : Offsets, total : Nat]
<1>1. CASE NextSegment
  <2>1. pc' \in {"create", "start"} /\ loop' = NoLoop
    BY <1>1 DEF NextSegment
  <2>2. 0 \in Offsets /\ 0 \in 0 .. NumPages
    BY TaskVMAssumption, NumPagesPositive DEF Offsets
  <2> QED BY <2>1, <2>2 DEF NoLoop, IterationInv, Early
<1>2. CASE EndOfLoad /\ seg = "data"
  <2>1. /\ pc' = "zero" /\ seg' = seg
        /\ loop' = [NoLoop EXCEPT !.off = OffsetOf(BssStart)]
    BY <1>2 DEF EndOfLoad
  <2>2. BssStart' = BssStart /\ loop'.i = 0
    BY <2>1 DEF BssStart, Start, NoLoop
  <2>3. NumPagesOf(BssStart, se_hdr.bss) \in 1 .. NumPages
    BY HeaderTypes, NumPagesRange
  <2>4. IterationInv'
    BY <2>1, <2>2, <2>3, NumPagesPositive DEF IterationInv
  <2> QED BY <2>1, <2>4, HeaderTypes, LoopBegins DEF Early
<1> QED BY <1>1, <1>2 DEF EndOfLoad

(* vm_area_load neither goes past its last page nor counts more bytes than *)
(* it was asked for.                                                       *)
LEMMA TypeVmAreaLoad ==
  ASSUME IInv, TInv, vm_area_load
  PROVE  TInv'
<1> DEFINE len == se_hdr.len[seg]
           from == se_hdr.off[seg] + loop.total
           asked == Min({len - loop.total, PAGE_SIZE - loop.off})
           read == getbytes(from, asked)
           next == [i |-> loop.i + 1, off |-> 0, total |-> loop.total + read]
<1>1. /\ pc = "load"
      /\ UNCHANGED <<thread, se_hdr, current_thread, cpu, cr3, kernel_page_dir>>
      /\ mem' \in {mem, Written(FrameAt(Start), loop.off, FileBytes(from, read))}
      /\ \/ EndOfLoad
         \/ /\ loop' = next /\ read = asked /\ loop.i + 1 # NumPagesOf(Start, len)
            /\ UNCHANGED <<pc, seg>>
  BY DEF vm_area_load, boot
<1>2. /\ loop.i \in Nat /\ loop.off \in Offsets /\ loop.total \in Nat
      /\ loop.total <= len /\ loop.i < NumPagesOf(Start, len)
  BY <1>1 DEF TInv, DataInv, IterationInv
<1>3. len \in Nat /\ from \in Nat /\ NumPagesOf(Start, len) \in 1 .. NumPages
  <2>1. len \in Nat /\ se_hdr.off[seg] \in Nat /\ Start \in Nat
    BY HeaderTypes
  <2>2. NumPagesOf(Start, len) \in 1 .. NumPages
    BY <2>1, NumPagesRange
  <2> QED BY <1>2, <2>1, <2>2
<1>4. asked \in 0 .. len - loop.total
  <2>1. len - loop.total \in Nat /\ PAGE_SIZE - loop.off \in Nat
    BY <1>2, <1>3, TaskVMAssumption DEF Offsets
  <2> QED BY <2>1, MinOfTwo
<1>5. asked \in Nat
  BY <1>2, <1>3, <1>4
<1> HIDE DEF asked, from, len
<1>6. mem' \in [UserFrames -> [Offsets -> Bytes]]
  <2>1. /\ \A k \in DOMAIN FileBytes(from, read) : FileBytes(from, read)[k] \in Bytes
    BY <1>3, <1>5, FileBytesType
  <2>2. Written(FrameAt(Start), loop.off, FileBytes(from, read))
          \in [UserFrames -> [Offsets -> Bytes]]
    BY <2>1, WrittenType DEF TInv, DataInv
  <2> QED BY <1>1, <2>2 DEF TInv, DataInv
<1> HIDE DEF read
<1>7. CASE EndOfLoad
  BY <1>1, <1>6, <1>7, TypeEndOfLoad DEF TInv, DataInv, Bytes
<1>8. CASE loop' = next /\ read = asked /\ loop.i + 1 # NumPagesOf(Start, len)
           /\ UNCHANGED <<pc, seg>>
  <2>1. loop'.i = loop.i + 1 /\ loop'.total = loop.total + asked /\ loop'.off = 0
    BY <1>8
  <2>2. loop.i + 1 < NumPagesOf(Start, len) /\ loop.i + 1 \in 0 .. NumPages
    BY <1>2, <1>3, <1>8, NumPagesPositive
  <2>3. loop' \in [i : 0 .. NumPages, off : Offsets, total : Nat]
    <3>1. 0 \in Offsets
      BY TaskVMAssumption DEF Offsets
    <3> QED BY <1>2, <1>5, <1>8, <2>2, <3>1
  <2>4. IterationInv'
    <3>1. loop'.i < NumPagesOf(Start, len) /\ loop'.total <= len
      BY <1>2, <1>3, <1>4, <2>1, <2>2
    <3>2. Start' = Start /\ pc' = "load"
      BY <1>1, <1>8 DEF Start
    <3> QED BY <1>1, <1>8, <3>1, <3>2 DEF IterationInv, len
  <2> QED BY <1>1, <1>6, <1>8, <2>3, <2>4 DEF TInv, DataInv, Bytes, Early
<1> QED BY <1>1, <1>7, <1>8

(* vm_area_zero stops at its last page.                                    *)
LEMMA TypeVmAreaZero ==
  ASSUME IInv, TInv, vm_area_zero
  PROVE  TInv'
<1> DEFINE n == NumPagesOf(BssStart, se_hdr.bss)
<1>1. /\ pc = "zero"
      /\ UNCHANGED <<thread, se_hdr, current_thread, cpu, cr3, kernel_page_dir>>
      /\ mem' \in {mem, Written(FrameAt(BssStart), loop.off, Zeros(bytes_to_zero))}
      /\ \/ NextSegment
         \/ /\ loop' = [loop EXCEPT !.i = @ + 1, !.off = 0] /\ loop.i + 1 # n
            /\ UNCHANGED <<pc, seg>>
  BY DEF vm_area_zero, boot
<1>2. loop.i < n /\ n \in 1 .. NumPages /\ loop.i \in Nat
  BY <1>1, HeaderTypes, NumPagesRange DEF TInv, DataInv, IterationInv
<1>3. mem' \in [UserFrames -> [Offsets -> Bytes]]
  <2>1. Written(FrameAt(BssStart), loop.off, Zeros(bytes_to_zero))
          \in [UserFrames -> [Offsets -> Bytes]]
    BY WrittenType DEF TInv, DataInv, Zeros, Bytes
  <2> QED BY <1>1, <2>1 DEF TInv, DataInv
<1>4. CASE NextSegment
  BY <1>1, <1>3, <1>4, TypeEndOfLoad DEF TInv, DataInv, Bytes
<1>5. CASE loop' = [loop EXCEPT !.i = @ + 1, !.off = 0] /\ loop.i + 1 # n /\ UNCHANGED <<pc, seg>>
  <2>1. loop.i + 1 < n /\ loop.i + 1 \in 0 .. NumPages /\ 0 \in Offsets
    BY <1>2, <1>5, TaskVMAssumption, NumPagesPositive DEF Offsets
  <2> HIDE DEF n
  <2>2. /\ loop' \in [i : 0 .. NumPages, off : Offsets, total : Nat]
        /\ loop'.i = loop.i + 1
    BY <1>5, <2>1 DEF TInv, DataInv
  <2>3. IterationInv'
    <3>1. BssStart' = BssStart /\ pc' = "zero"
      BY <1>1, <1>5 DEF BssStart, Start
    <3> QED BY <1>1, <2>1, <2>2, <3>1 DEF IterationInv, n
  <2> QED BY <1>1, <1>3, <1>5, <2>2, <2>3 DEF TInv, DataInv, Bytes, Early
<1> QED BY <1>1, <1>4, <1>5

LEMMA TypeNext == IInv /\ TInv /\ [Next]_vars => TInv'
<1> SUFFICES ASSUME IInv, TInv, [Next]_vars
             PROVE  TInv'
  OBVIOUS
<1>1. CASE task_load_entry
  <2>1. /\ pc' = "sched_yield"
        /\ UNCHANGED <<se_hdr, seg, loop, mem, cpu, cr3, kernel_page_dir>>
        /\ current_thread' = thread.id /\ thread' = [thread EXCEPT !.eip = se_hdr.entry]
    BY <1>1 DEF task_load_entry, load
  <2>2. thread' \in [id : {0, 1}, kernel_esp : Addresses, esp : Addresses, eip : Addresses]
    BY <2>1, HeaderTypes DEF TInv, DataInv
  <2>3. thread.id \in {0, 1}
    BY DEF TInv, DataInv
  <2> QED BY <2>1, <2>2, <2>3 DEF TInv, DataInv, IterationInv, Bytes, Early
<1>2. CASE thread_switch
  <2>1. /\ pc' = "user" /\ cr3' = "task"
        /\ UNCHANGED <<se_hdr, seg, loop, mem, thread, kernel_page_dir>>
        /\ current_thread' = thread.id
        /\ cpu' = [mode |-> "user", eip |-> thread.eip, esp |-> thread.esp,
                   esp0 |-> thread.kernel_esp, eax |-> cpu.eax]
    BY <1>2 DEF thread_switch, load
  <2> QED BY <2>1 DEF TInv, DataInv, IterationInv, Bytes, Early
<1>3. CASE sys_gettid
  <2>1. /\ pc = "user" /\ cpu' = [cpu EXCEPT !.eax = current_thread]
        /\ UNCHANGED <<pc, se_hdr, seg, loop, mem, thread, kernel_page_dir, cr3,
                       current_thread>>
    BY <1>3 DEF sys_gettid, load
  <2> QED BY <2>1 DEF TInv, DataInv, IterationInv, Bytes, Early
<1>4. CASE UNCHANGED vars
  BY <1>4 DEF vars, TInv, DataInv, IterationInv, Bytes, Start, BssStart
<1> QED BY <1>1, <1>2, <1>3, <1>4, TypePageInit, TypeTaskCreate, TypeThreadCreate,
           TypeVmAreaCreate, TypeVmAreaLoad, TypeVmAreaZero DEF Next

(* The counters stay in the machine.                                       *)
LEMMA TypeImplies == IInv /\ TInv => TypeOK
<1> SUFFICES ASSUME IInv, TInv
             PROVE  TypeOK
  OBVIOUS
<1>1. page_count \in 0 .. NumPPF /\ highmem_page_count \in 1 .. NumPPF
  <2>1. CASE pc \in Early
    <3>1. /\ page_count \in {0, 1 + VMM_NUM_PDES(NumPPF), NumTables}
          /\ highmem_page_count = 1
      BY <2>1 DEF IInv, CountInv, Early
    <3>2. 1 + VMM_NUM_PDES(NumPPF) <= NumTables /\ NumTables <= FirstFree
      BY Sizes, PagingAssumption DEF NumTables, FirstFree
    <3>3. NumTables \in Nat /\ VMM_NUM_PDES(NumPPF) \in Nat /\ FirstFree <= NumPPF
      BY RoomForStacks, Sizes
    <3> QED BY <3>1, <3>2, <3>3, RoomForStacks
  <2>2. CASE pc \notin Early
    BY <2>2, RoomForStacks, LowBound, Sizes DEF IInv, CountInv, NextLow
  <2> QED BY <2>1, <2>2
<1> QED BY <1>1, TaskDirectoryType DEF IInv, HeaderInv, TInv, DataInv, TypeOK, Early

-----------------------------------------------------------------------------
(* From the first step to the last, for every executable that lies above   *)
(* the kernel: the loops of vm_area.c end inside their areas' pages, the   *)
(* allocator's counters inside memory, and user memory holds nothing but   *)
(* what the boot loader left, zeros, and bytes the file really has.        *)
THEOREM BootTypeCorrect ==
  ASSUME \A im \in Loadable : AboveKernel(im)
  PROVE  Spec => []TypeOK
<1>1. Init => IInv /\ TInv
  BY InitInv, TypeInit
<1> QED BY <1>1, NextInv, TypeNext, TypeImplies, PTL DEF Spec

-----------------------------------------------------------------------------
(* The contents of the executable in memory.                               *)

(* Code, constants, data and bss follow each other; the ends of two of     *)
(* them may share a page.                                                  *)
Linked(im) ==
  /\ im.start["text"] + im.len["text"] <= im.start["rodata"]
  /\ im.start["rodata"] + im.len["rodata"] <= im.start["data"]
  /\ im.start["data"] + im.len["data"] + im.bss <= AddressSpace

-----------------------------------------------------------------------------
(* The inductive invariant: what every byte the task can reach above the   *)
(* kernel holds, and how the loops' counts and pages go together.          *)

(* How many bytes of segment s are loaded, or given up for lost.           *)
Loaded(s) ==
  IF s \in Before[seg] \/ (s = seg /\ pc \in {"zero", "start", "sched_yield", "user"})
    THEN se_hdr.len[s]
    ELSE IF s = seg /\ pc = "load" THEN loop.total ELSE 0

FileByte(s, k) ==
  IF se_hdr.off[s] + k < se_hdr.execlen THEN se_hdr.off[s] + k + 1 ELSE 0

IsLoaded(s, addr) == addr - se_hdr.start[s] \in 0 .. Loaded(s) - 1

InReach(addr) == Mapped(PageOf(addr)) /\ PageOf(addr) \notin Kernel

Holds(addr) ==
  /\ \A s \in Segments :
       IsLoaded(s, addr) => ByteAt(addr) = FileByte(s, addr - se_hdr.start[s])
  /\ (\A s \in Segments : ~IsLoaded(s, addr)) => ByteAt(addr) = 0

ContentInv == pc \notin Early => \A addr \in Addresses : InReach(addr) => Holds(addr)

(* vm_area_load is at the byte that loop.total says, and vm_area_zero does *)
(* not begin in front of the bss.                                          *)
PlaceInv ==
  /\ Linked(se_hdr)
  /\ pc = "load" => Start + loop.total = (PageOf(Start) + loop.i) * PAGE_SIZE + loop.off
  /\ pc = "zero" /\ loop.i = 0 => loop.off = OffsetOf(BssStart)

CInv == ContentInv /\ PlaceInv

-----------------------------------------------------------------------------
(* Addresses: a page and an offset.                                        *)

LEMMA PageAndOffset ==
  /\ PAGE_SIZE \in Nat \ {0}
  /\ \A a \in Nat : /\ PageOf(a) \in Nat /\ OffsetOf(a) \in Offsets
                    /\ a = PageOf(a) * PAGE_SIZE + OffsetOf(a)
  /\ \A q \in Nat, o \in Offsets :
       /\ q * PAGE_SIZE \in Nat
       /\ PageOf(q * PAGE_SIZE + o) = q /\ OffsetOf(q * PAGE_SIZE + o) = o
<1>1. PAGE_SIZE \in Nat \ {0}
  BY TaskVMAssumption
<1>2. \A n \in Nat \ {0} : \A a \in Nat :
        a \div n \in Nat /\ a % n \in 0 .. n - 1 /\ a = (a \div n) * n + (a % n)
  <2>1. \A n \in Nat \ {0} : \A a \in Nat : a \div n \in Nat /\ a % n \in 0 .. n - 1
    OBVIOUS
  <2>2. \A n \in Nat \ {0} : \A a \in Nat : a = (a \div n) * n + (a % n)
    OBVIOUS
  <2> QED BY <2>1, <2>2
<1>3. \A n \in Nat \ {0} : \A q \in Nat : \A o \in 0 .. n - 1 :
        q * n \in Nat /\ (q * n + o) \div n = q /\ (q * n + o) % n = o
  <2> SUFFICES ASSUME NEW n \in Nat \ {0}, NEW q \in Nat, NEW o \in 0 .. n - 1
               PROVE  q * n \in Nat /\ (q * n + o) \div n = q /\ (q * n + o) % n = o
    OBVIOUS
  <2> DEFINE a == q * n + o
             d == a \div n
  <2>1. q * n \in Nat /\ a \in Nat
    OBVIOUS
  <2>2. d \in Nat /\ a % n \in 0 .. n - 1 /\ a = d * n + (a % n)
    BY <1>2, <2>1
  <2>3. \A k, l \in Nat : k < l => k * n + n <= l * n
    OBVIOUS
  <2> HIDE DEF d
  <2>4. q * n <= a /\ a < q * n + n
    BY <2>1
  <2>5. d = q
    <3> HIDE DEF a
    <3>1. \A k \in Nat : k * n \in Nat
      OBVIOUS
    <3>2. d * n \in Nat
      BY <2>2, <3>1
    <3>3. d * n <= a /\ a < d * n + n
      BY <2>1, <2>2, <3>2
    <3> QED BY <2>1, <2>2, <2>3, <2>4, <3>2, <3>3
  <2>6. a % n = o
    BY <2>1, <2>2, <2>5
  <2> QED BY <2>1, <2>5, <2>6 DEF d
<1> QED BY <1>1, <1>2, <1>3 DEF PageOf, OffsetOf, Offsets

(* Addresses are ordered as their pages are.                               *)
LEMMA PageOrder ==
  /\ \A a, b \in Nat : a <= b => PageOf(a) <= PageOf(b)
  /\ \A a, q \in Nat : a < q * PAGE_SIZE <=> PageOf(a) < q
<1>1. \A n \in Nat \ {0} : \A a, b \in Nat : a <= b => a \div n <= b \div n
  OBVIOUS
<1>2. \A n \in Nat \ {0} : \A a, q \in Nat : a < q * n <=> a \div n < q
  OBVIOUS
<1> QED BY <1>1, <1>2, TaskVMAssumption DEF PageOf

LEMMA AddressSpaceSize ==
  AddressSpace \in Nat \ {0} /\ Addresses = 0 .. AddressSpace - 1
<1>1. \A a, b \in Nat \ {0} : a * b \in Nat \ {0}
  OBVIOUS
<1> QED BY <1>1, TaskVMAssumption, NumPagesPositive DEF AddressSpace, Addresses

(* A range of bytes that does not go around the end of the address space   *)
(* lies on the pages between those of its first and its last byte.         *)
LEMMA FlatRange ==
  ASSUME NEW start \in Nat, NEW size \in Nat \ {0}, start + size <= AddressSpace
  PROVE  /\ PageOf(start) \in Pages /\ PageOf(start + size - 1) \in Pages
         /\ NumPagesOf(start, size) = PageOf(start + size - 1) - PageOf(start) + 1
         /\ \A a \in start .. start + size - 1 :
              /\ a \in Addresses /\ PageOf(a) \in Pages
              /\ Distance(PageOf(start), PageOf(a)) < NumPagesOf(start, size)
         /\ \A i \in Nat : i < NumPagesOf(start, size) =>
              (PageOf(start) + i) % NumPages = PageOf(start) + i
<1>1. start + size - 1 \in Addresses /\ start \in Addresses
  BY AddressSpaceSize
<1>2. \A a \in start .. start + size - 1 : a \in Addresses /\ PageOf(a) \in Pages
  BY AddressSpaceSize, PageOfAddress
<1>3. (start + size - 1) % AddressSpace = start + size - 1
  <2>1. \A n \in Nat \ {0} : \A a \in 0 .. n - 1 : a % n = a
    OBVIOUS
  <2> QED BY <1>1, <2>1, AddressSpaceSize
<1>4. PageOf(start) \in Pages /\ PageOf(start + size - 1) \in Pages
  BY <1>1, PageOfAddress
<1>5. \A a \in start .. start + size - 1 :
        /\ PageOf(start) <= PageOf(a) /\ PageOf(a) <= PageOf(start + size - 1)
        /\ Distance(PageOf(start), PageOf(a)) = PageOf(a) - PageOf(start)
  <2> SUFFICES ASSUME NEW a \in start .. start + size - 1
               PROVE  /\ PageOf(start) <= PageOf(a) /\ PageOf(a) <= PageOf(start + size - 1)
                      /\ Distance(PageOf(start), PageOf(a)) = PageOf(a) - PageOf(start)
    OBVIOUS
  <2>1. PageOf(start) <= PageOf(a) /\ PageOf(a) <= PageOf(start + size - 1)
    BY PageOrder
  <2>2. PageOf(a) \in Pages
    BY <1>2
  <2> QED BY <1>4, <2>1, <2>2, DistanceCases
<1>6. start + size - 1 \in start .. start + size - 1
  OBVIOUS
<1>7. NumPagesOf(start, size) = PageOf(start + size - 1) - PageOf(start) + 1
  BY <1>3, <1>5, <1>6 DEF NumPagesOf
<1>8. \A i \in Nat : i < NumPagesOf(start, size) =>
        (PageOf(start) + i) % NumPages = PageOf(start) + i
  <2>1. \A n \in Nat \ {0} : \A a \in 0 .. n - 1 : a % n = a
    OBVIOUS
  <2> QED BY <1>4, <1>7, <2>1, NumPagesPositive DEF Pages
<1>9. \A a \in start .. start + size - 1 :
        Distance(PageOf(start), PageOf(a)) < NumPagesOf(start, size)
  <2>1. PageOf(start) \in Int /\ PageOf(start + size - 1) \in Int
        /\ \A a \in start .. start + size - 1 : PageOf(a) \in Int
    BY <1>2, <1>4 DEF Pages
  <2> QED BY <1>5, <1>7, <2>1
<1> QED BY <1>2, <1>4, <1>7, <1>8, <1>9

-----------------------------------------------------------------------------
(* Segments.                                                               *)

LEMMA SegmentTypes ==
  ASSUME IInv, PlaceInv, NEW s \in Segments
  PROVE  /\ se_hdr.start[s] \in Nat /\ se_hdr.len[s] \in Nat /\ se_hdr.off[s] \in Nat
         /\ se_hdr.execlen \in Nat /\ se_hdr.bss \in Nat
         /\ AreaSize(se_hdr, s) \in Nat /\ se_hdr.len[s] <= AreaSize(se_hdr, s)
         /\ se_hdr.start[s] + AreaSize(se_hdr, s) <= AddressSpace
<1>1. \A t \in Segments : /\ se_hdr.start[t] \in Nat /\ se_hdr.len[t] \in Nat
                          /\ se_hdr.off[t] \in Nat
  BY TaskVMAssumption, AddressSpaceSize DEF IInv, HeaderInv
<1>2. se_hdr.execlen \in Nat /\ se_hdr.bss \in Nat
  BY HeaderTypes
<1>3. "text" \in Segments /\ "rodata" \in Segments /\ "data" \in Segments
  BY DEF Segments
<1>4. CASE s = "data"
  BY <1>1, <1>2, <1>4, AddressSpaceSize DEF PlaceInv, Linked, AreaSize
<1>5. CASE s # "data"
  <2>1. AreaSize(se_hdr, s) = se_hdr.len[s]
    BY <1>1, <1>5 DEF AreaSize
  <2>2. s = "text" \/ s = "rodata"
    BY <1>5 DEF Segments
  <2>3. \A t \in {"text", "rodata", "data"} : se_hdr.start[t] \in Nat /\ se_hdr.len[t] \in Nat
    BY <1>1, <1>3
  <2>4. /\ se_hdr.start["text"] + se_hdr.len["text"] <= AddressSpace
        /\ se_hdr.start["rodata"] + se_hdr.len["rodata"] <= AddressSpace
    <3>1. /\ se_hdr.start["text"] + se_hdr.len["text"] <= se_hdr.start["rodata"]
          /\ se_hdr.start["rodata"] + se_hdr.len["rodata"] <= se_hdr.start["data"]
          /\ se_hdr.start["data"] + se_hdr.len["data"] + se_hdr.bss <= AddressSpace
      BY DEF PlaceInv, Linked
    <3>2. AddressSpace \in Nat
      BY AddressSpaceSize
    <3> QED BY <1>2, <2>3, <3>1, <3>2
  <2> QED BY <1>1, <1>2, <2>1, <2>2, <2>4
<1> QED BY <1>4, <1>5

(* A byte of the file has one place.                                       *)
LEMMA SegmentsApart ==
  ASSUME IInv, PlaceInv, NEW s \in Segments, NEW t \in Segments, NEW addr \in Nat,
         addr - se_hdr.start[s] \in 0 .. se_hdr.len[s] - 1,
         addr - se_hdr.start[t] \in 0 .. se_hdr.len[t] - 1
  PROVE  s = t
<1>1. \A u \in Segments : se_hdr.start[u] \in Nat /\ se_hdr.len[u] \in Nat
  BY SegmentTypes
<1>2. "text" \in Segments /\ "rodata" \in Segments /\ "data" \in Segments
  BY DEF Segments
<1>3. /\ se_hdr.start["text"] + se_hdr.len["text"] <= se_hdr.start["rodata"]
      /\ se_hdr.start["rodata"] + se_hdr.len["rodata"] <= se_hdr.start["data"]
  BY DEF PlaceInv, Linked
<1>4. \A u \in {s, t} : /\ se_hdr.start[u] <= addr
                        /\ addr < se_hdr.start[u] + se_hdr.len[u]
  BY <1>1
<1> QED BY <1>1, <1>2, <1>3, <1>4 DEF Segments

LEMMA LoadedRange ==
  ASSUME IInv, TInv, PlaceInv, NEW s \in Segments
  PROVE  Loaded(s) \in 0 .. se_hdr.len[s]
BY SegmentTypes DEF Loaded, TInv, DataInv, IterationInv

-----------------------------------------------------------------------------
(* Frames and bytes.                                                       *)

(* Above the kernel the task's pages lie on frames of user memory.         *)
LEMMA ReachFrame ==
  ASSUME IInv, NEW addr \in Addresses, InReach(addr)
  PROVE  /\ PageOf(addr) \in Pages /\ OffsetOf(addr) \in Offsets /\ addr \in Nat
         /\ pc \notin Early /\ page_dir.pte[PageOf(addr)].frame \in UserFrames
<1> DEFINE p == PageOf(addr)
<1>1. p \in Pages /\ addr \in Nat /\ OffsetOf(addr) \in Offsets
  BY PageOfAddress, PageAndOffset, AddressSpaceSize
<1>2. OfKernelStack(p) \/ OfLowFrame(p)
  BY <1>1 DEF InReach, IInv, PlacedInv, OfKernel
<1>3. pc \notin Early
  BY <1>2 DEF OfKernelStack, OfLowFrame
<1> HIDE DEF p
<1>4. CASE OfKernelStack(p)
  <2>1. page_dir.pte[p].frame \in NumPPF - StackPages .. NumPPF - 1
    BY <1>4 DEF OfKernelStack, KernelStackPages, StackPages
  <2> QED BY <1>1, <1>3, <2>1, RoomForStacks DEF UserFrames, p
<1>5. CASE OfLowFrame(p)
  <2>1. page_dir.pte[p].frame \in FirstFree .. NextLow - 1
    BY <1>5 DEF OfLowFrame
  <2> QED BY <1>1, <1>3, <2>1, RoomForStacks, LowBound DEF UserFrames, p
<1> QED BY <1>2, <1>4, <1>5

(* The bytes of a segment that vm_area_create has been through are mapped. *)
LEMMA AreaInReach ==
  ASSUME IInv, PermInv, PlaceInv, pc \notin Early, NEW s \in Segments,
         s \in Before[seg] \/ (s = seg /\ pc # "create"),
         NEW addr \in Nat, addr - se_hdr.start[s] \in 0 .. AreaSize(se_hdr, s) - 1
  PROVE  addr \in Addresses /\ InReach(addr)
<1> DEFINE start == se_hdr.start[s]
           size == AreaSize(se_hdr, s)
           p == PageOf(addr)
<1>1. /\ start \in Nat /\ size \in Nat \ {0} /\ start + size <= AddressSpace
      /\ addr \in start .. start + size - 1
  BY SegmentTypes
<1>2. /\ addr \in Addresses /\ p \in Pages
      /\ Distance(PageOf(start), p) < NumPagesOf(start, size)
  BY <1>1, FlatRange
<1>3. p \in AreaPages(se_hdr, s)
  BY <1>2 DEF AreaPages
<1>4. p \in Created(s)
  BY <1>3 DEF Created
<1>5. p \notin Kernel
  BY <1>3 DEF IInv, HeaderInv, AboveKernel, ImagePages
<1>6. FlagsOf(p) = USR_RO \/ FlagsOf(p) = USR_RW
  BY <1>4 DEF PermInv, SegmentFlags, Segments
<1>7. Mapped(p)
  BY <1>6 DEF Mapped, FlagsOf, USR_RO, USR_RW
<1> QED BY <1>2, <1>5, <1>7 DEF InReach

(* What is written through one page is seen through no other.              *)
LEMMA WriteSeen ==
  ASSUME IInv, mem \in [UserFrames -> [Offsets -> Bytes]],
         NEW q \in Pages, Mapped(q), NEW off \in Int, NEW bytes,
         mem' = Written(page_dir.pte[q].frame, off, bytes), UNCHANGED page_dir,
         NEW addr \in Addresses, InReach(addr)
  PROVE  ByteAt(addr)' =
           IF PageOf(addr) = q /\ OffsetOf(addr) - off \in DOMAIN bytes
             THEN bytes[OffsetOf(addr) - off] ELSE ByteAt(addr)
<1> DEFINE p == PageOf(addr)
           f == page_dir.pte[q].frame
           g == page_dir.pte[p].frame
           o == OffsetOf(addr)
<1>1. p \in Pages /\ o \in Offsets /\ g \in UserFrames
  BY ReachFrame
<1>2. p # q => f # g
  BY <1>1 DEF InReach, IInv, UnsharedInv
<1>3. ByteAt(addr)' = mem'[g][o] /\ ByteAt(addr) = mem[g][o]
  BY DEF ByteAt
<1>4. CASE p = q
  BY <1>1, <1>3, <1>4 DEF Written
<1>5. CASE p # q
  BY <1>1, <1>2, <1>3, <1>5 DEF Written
<1> QED BY <1>4, <1>5

(* The same, of the state a step leads to.                                 *)
FramesInReach ==
  IInv => \A addr \in Addresses : InReach(addr) =>
    /\ PageOf(addr) \in Pages /\ OffsetOf(addr) \in Offsets
    /\ page_dir.pte[PageOf(addr)].frame \in UserFrames

LEMMA FramesInReachHolds == FramesInReach
BY ReachFrame DEF FramesInReach

LEMMA ReachFramePrime == FramesInReach'
BY FramesInReachHolds, PTL

-----------------------------------------------------------------------------
(* The steps before the loader: nothing is loaded, and every frame that is *)
(* mapped has been cleared.                                                *)

LEMMA ContentInit ==
  ASSUME \A im \in Loadable : Linked(im), Init
  PROVE  CInv
BY DEF Init, CInv, ContentInv, PlaceInv, Early, Loadable

(* A byte keeps what it holds when nothing is loaded.                      *)
LEMMA HoldsKept ==
  ASSUME NEW addr, Holds(addr), ByteAt(addr)' = ByteAt(addr), UNCHANGED se_hdr,
         \A s \in Segments : Loaded(s)' = Loaded(s)
  PROVE  Holds(addr)'
<1>1. \A s \in Segments : IsLoaded(s, addr)' <=> IsLoaded(s, addr)
  BY DEF IsLoaded
<1> QED BY <1>1 DEF Holds, FileByte

LEMMA ContentKept ==
  ASSUME CInv, UNCHANGED <<page_dir, mem, se_hdr>>,
         pc \notin Early, \A s \in Segments : Loaded(s)' = Loaded(s)
  PROVE  ContentInv'
<1> SUFFICES ASSUME NEW addr \in Addresses, InReach(addr)'
             PROVE  Holds(addr)'
  BY DEF ContentInv
<1>1. InReach(addr) /\ ByteAt(addr)' = ByteAt(addr)
  BY DEF InReach, Mapped, ByteAt
<1> QED BY <1>1, HoldsKept DEF CInv, ContentInv

(* A byte that is 0, of which nothing is loaded.                           *)
LEMMA HoldsZero ==
  ASSUME NEW addr, ByteAt(addr) = 0, \A s \in Segments : ~IsLoaded(s, addr)
  PROVE  Holds(addr)
BY DEF Holds

LEMMA ContentThreadCreate ==
  ASSUME IInv, IInv', PermInv, CInv, thread_create
  PROVE  CInv'
<1>1. /\ pc = "thread_create" /\ pc' = "create" /\ seg' = seg
      /\ UNCHANGED se_hdr
      /\ mem' = Cleared((KernelBase(StackPages) .. NextHigh)
                          \cup (NextLow .. NextLow + StackPages - 1))
      /\ page_count' = page_count + StackPages
  BY DEF thread_create, load, StackPages
<1>2. page_count = NumTables /\ NextHigh = NumPPF - 1 /\ NextLow = FirstFree
  BY <1>1, Sizes DEF IInv, CountInv, Early, NextHigh, NextLow, FirstFree
<1>3. pc' \notin Early /\ seg = "text"
  BY <1>1 DEF Early, PermInv, PhaseInv
<1>4. ASSUME NEW s \in Segments, NEW addr
      PROVE  ~IsLoaded(s, addr)'
  <2>1. Loaded(s)' = 0
    BY <1>1, <1>3 DEF Loaded, Before
  <2> QED BY <2>1 DEF IsLoaded
<1>5. ASSUME NEW addr \in Addresses, InReach(addr)'
      PROVE  ByteAt(addr)' = 0
  <2> DEFINE p == PageOf(addr)
             f == page_dir'.pte[p].frame
  <2>1. p \in Pages /\ OffsetOf(addr) \in Offsets /\ f \in UserFrames
    BY <1>5, ReachFramePrime DEF FramesInReach
  <2>2. OfKernelStack(p)' \/ OfLowFrame(p)'
    BY <1>5, <2>1 DEF InReach, IInv, PlacedInv, OfKernel
  <2>3. f \in (KernelBase(StackPages) .. NextHigh) \cup (NextLow .. NextLow + StackPages - 1)
    <3>1. CASE OfKernelStack(p)'
      <4>1. f \in NumPPF - StackPages .. NumPPF - 1
        BY <3>1 DEF OfKernelStack, KernelStackPages, StackPages
      <4>2. KernelBase(StackPages) = NumPPF - StackPages
        BY <1>2, RoomForStacks DEF KernelBase
      <4> QED BY <1>2, <4>1, <4>2
    <3>2. CASE OfLowFrame(p)'
      <4>1. f \in FirstFree .. NextLow' - 1
        BY <3>2 DEF OfLowFrame
      <4>2. NextLow' = FirstFree + StackPages
        BY <1>1, <1>2, Sizes DEF NextLow, FirstFree
      <4> QED BY <1>2, <4>1, <4>2, RoomForStacks
    <3> QED BY <2>2, <3>1, <3>2
  <2>4. mem'[f][OffsetOf(addr)] = 0
    BY <1>1, <2>1, <2>3 DEF Cleared
  <2> QED BY <2>4 DEF ByteAt
<1>6. ContentInv'
  <2> SUFFICES ASSUME NEW addr \in Addresses, InReach(addr)'
               PROVE  Holds(addr)'
    BY DEF ContentInv
  <2>1. ByteAt(addr)' = 0 /\ \A s \in Segments : ~IsLoaded(s, addr)'
    BY <1>4, <1>5
  <2> QED BY <2>1 DEF Holds
<1>7. PlaceInv'
  BY <1>1 DEF CInv, PlaceInv
<1> QED BY <1>6, <1>7 DEF CInv

-----------------------------------------------------------------------------
(* vm_area_create: a page that is new has nothing loaded, for what is      *)
(* loaded is mapped; all others keep their frame.                          *)
LEMMA ContentCreate ==
  ASSUME IInv, IInv', TInv, PermInv, CInv, vm_area_create
  PROVE  CInv'
<1>1. /\ pc = "create" /\ pc' \in {"create", "load"} /\ UNCHANGED <<se_hdr, seg>>
      /\ pc \notin Early /\ pc' \notin Early
      /\ pc' = "load" => loop' = [NoLoop EXCEPT !.off = OffsetOf(Start)]
  BY DEF vm_area_create, Early
<1>2. PICK page \in Pages : page = LoopPage(Start) /\ page \notin Kernel
  BY <1>1, CreatePage DEF IInv
<1> DEFINE entry == page_dir.pte[page]
           fresh == entry = Unmapped
           frame == IF fresh THEN NextLow ELSE entry.frame
<1>3. /\ page_dir \in PageDirectories /\ \A r \in Regions : page_dir.pde[r] # {}
      /\ VMM_GET_PDE(page) \in Regions
  BY <1>1, <1>2, PdeOfPage DEF IInv, DirInv, Early
<1>4. vmm_get_mapping(page_dir, page) = entry
  BY <1>3 DEF vmm_get_mapping
<1>5. /\ page_dir' = vmm_map_page(page_dir, page, frame, SegFlags)
      /\ mem' = IF fresh THEN Cleared({NextLow}) ELSE mem
  BY <1>2, <1>4 DEF vm_area_create
<1>6. \A p \in Pages : page_dir'.pte[p] = IF p = page THEN [frame |-> frame, flags |-> SegFlags]
                                                     ELSE page_dir.pte[p]
  BY <1>2, <1>3, <1>5 DEF vmm_map_page, PageDirectories
<1>7. SegFlags # {}
  BY DEF SegFlags, USR_RO, USR_RW
<1>8. \A s \in Segments : Loaded(s)' = Loaded(s)
  <2>1. CASE pc' = "create"
    BY <1>1, <2>1 DEF Loaded
  <2>2. CASE pc' = "load"
    <3>1. loop'.total = 0
      BY <1>1, <2>2 DEF NoLoop
    <3> QED BY <1>1, <2>2, <3>1 DEF Loaded
  <2> QED BY <1>1, <2>1, <2>2
<1>9. ASSUME NEW addr \in Addresses, PageOf(addr) = page, fresh
      PROVE  Holds(addr)'
  <2>1. InReach(addr)'
    BY <1>2, <1>6, <1>7, <1>9 DEF InReach, Mapped
  <2>2. page_dir'.pte[page].frame \in UserFrames /\ OffsetOf(addr) \in Offsets
    BY <1>9, <2>1, ReachFramePrime DEF FramesInReach
  <2>3. NextLow \in UserFrames
    BY <1>2, <1>6, <1>9, <2>2
  <2>4. ByteAt(addr)' = 0
    BY <1>2, <1>5, <1>6, <1>9, <2>2, <2>3 DEF ByteAt, Cleared
  <2>5. ASSUME NEW s \in Segments, IsLoaded(s, addr)'
        PROVE  FALSE
    <3>1. addr \in Nat
      BY AddressSpaceSize
    <3>2. addr - se_hdr.start[s] \in 0 .. Loaded(s) - 1
      BY <1>1, <1>8, <2>5 DEF IsLoaded
    <3>3. Loaded(s) \in 0 .. se_hdr.len[s] /\ Loaded(s) # 0 /\ se_hdr.start[s] \in Nat
      BY <3>2, LoadedRange, SegmentTypes DEF CInv
    <3>4. s \in Before[seg]
      BY <1>1, <3>3 DEF Loaded
    <3>5. addr - se_hdr.start[s] \in 0 .. AreaSize(se_hdr, s) - 1
      BY <3>1, <3>2, <3>3, SegmentTypes DEF CInv
    <3>6. InReach(addr)
      BY <1>1, <3>1, <3>4, <3>5, AreaInReach DEF CInv
    <3> QED BY <1>9, <3>6 DEF InReach, Mapped, Unmapped
  <2>6. ByteAt(addr)' = 0 /\ \A s \in Segments : ~IsLoaded(s, addr)'
    BY <2>4, <2>5
  <2> QED BY <2>6 DEF Holds
<1>10. ASSUME NEW addr \in Addresses, InReach(addr)', PageOf(addr) = page => ~fresh
       PROVE  Holds(addr)'
  <2> DEFINE p == PageOf(addr)
  <2>1. p \in Pages /\ OffsetOf(addr) \in Offsets /\ page_dir'.pte[p].frame \in UserFrames
    BY <1>10, ReachFramePrime DEF FramesInReach
  <2>2. page_dir'.pte[p].frame = page_dir.pte[p].frame /\ InReach(addr)
    <3>1. CASE p = page
      BY <1>2, <1>6, <1>10, <3>1 DEF InReach, IInv, DirInv
    <3>2. CASE p # page
      BY <1>6, <1>10, <2>1, <3>2 DEF InReach, Mapped
    <3> QED BY <3>1, <3>2
  <2>3. fresh => page_dir'.pte[p].frame # NextLow
    <3>1. fresh => Mapped(page)' /\ page_dir'.pte[page].frame = NextLow /\ page # p
      BY <1>2, <1>6, <1>7, <1>10 DEF Mapped
    <3> QED BY <1>2, <1>10, <2>1, <3>1 DEF IInv, UnsharedInv, InReach
  <2>4. ByteAt(addr)' = ByteAt(addr)
    <3>1. mem'[page_dir.pte[p].frame] = mem[page_dir.pte[p].frame]
      BY <1>5, <2>1, <2>2, <2>3 DEF Cleared
    <3> QED BY <2>2, <3>1 DEF ByteAt
  <2>5. Holds(addr)
    BY <1>1, <2>2 DEF CInv, ContentInv
  <2> QED BY <1>1, <1>8, <2>4, <2>5, HoldsKept
<1>11. ContentInv'
  BY <1>9, <1>10 DEF ContentInv
<1>12. PlaceInv'
  <2>1. CASE pc' = "create"
    BY <1>1, <2>1 DEF CInv, PlaceInv
  <2>2. CASE pc' = "load"
    <3>1. loop'.total = 0 /\ loop'.i = 0 /\ loop'.off = OffsetOf(Start)
      BY <1>1, <2>2 DEF NoLoop
    <3>2. Start' = Start /\ Start \in Nat
      BY <1>1, HeaderTypes DEF Start
    <3>3. Start = PageOf(Start) * PAGE_SIZE + OffsetOf(Start) /\ PageOf(Start) \in Nat
      BY <3>2, PageAndOffset
    <3>4. Start + 0 = (PageOf(Start) + 0) * PAGE_SIZE + OffsetOf(Start)
      BY <3>2, <3>3
    <3> QED BY <1>1, <2>2, <3>1, <3>2, <3>4 DEF CInv, PlaceInv
  <2> QED BY <1>1, <2>1, <2>2
<1> QED BY <1>11, <1>12 DEF CInv

-----------------------------------------------------------------------------
(* vm_area_load.                                                           *)

(* getbytes: no more than is asked for and the file has, and all of it     *)
(* unless the file ends.                                                   *)
LEMMA GetbytesRange ==
  ASSUME IInv, NEW offset \in Nat, NEW size \in Nat
  PROVE  /\ getbytes(offset, size) \in 0 .. size
         /\ getbytes(offset, size) # 0 => offset + getbytes(offset, size) <= se_hdr.execlen
         /\ getbytes(offset, size) # size => se_hdr.execlen <= offset + getbytes(offset, size)
<1>1. se_hdr.execlen \in Nat
  BY HeaderTypes
<1>2. CASE offset >= se_hdr.execlen
  BY <1>1, <1>2 DEF getbytes
<1>3. CASE ~(offset >= se_hdr.execlen)
  BY <1>1, <1>3, MinOfTwo DEF getbytes
<1> QED BY <1>2, <1>3

LEMMA WriteNothing ==
  ASSUME mem \in [UserFrames -> [Offsets -> Bytes]], NEW f, NEW off, NEW bytes,
         DOMAIN bytes = {}
  PROVE  Written(f, off, bytes) = mem
<1>1. CASE f \in UserFrames
  <2>1. Written(f, off, bytes) = [mem EXCEPT ![f] = [o \in Offsets |-> mem[f][o]]]
    BY <1>1 DEF Written
  <2>2. [o \in Offsets |-> mem[f][o]] = mem[f]
    BY <1>1
  <2> QED BY <2>1, <2>2
<1>2. CASE f \notin UserFrames
  BY <1>2 DEF Written
<1> QED BY <1>1, <1>2

(* Where an iteration is: at the byte it counts, whose page is mapped.     *)
LEMMA LoadPage ==
  ASSUME IInv, TInv, PermInv, CInv, pc = "load", loop.total < se_hdr.len[seg]
  PROVE  /\ Start + loop.total \in Addresses /\ InReach(Start + loop.total)
         /\ LoopPage(Start) = PageOf(Start + loop.total)
         /\ loop.off = OffsetOf(Start + loop.total)
         /\ PageOf(Start + loop.total) = PageOf(Start) + loop.i
<1> DEFINE x == Start + loop.total
           q == PageOf(Start) + loop.i
<1>1. /\ loop.i \in Nat /\ loop.off \in Offsets /\ loop.total \in Nat
  BY DEF TInv, DataInv
<1>2. seg \in Segments /\ Start \in Nat /\ se_hdr.len[seg] \in Nat
  BY HeaderTypes DEF IInv, HeaderInv
<1>3. PageOf(Start) \in Nat /\ q \in Nat /\ x \in Nat
  BY <1>1, <1>2, PageAndOffset
<1>4. x - Start \in 0 .. AreaSize(se_hdr, seg) - 1
  BY <1>1, <1>2, SegmentTypes DEF CInv
<1>5. x \in Addresses /\ InReach(x)
  BY <1>2, <1>3, <1>4, AreaInReach DEF CInv, Start, Early
<1>6. x = q * PAGE_SIZE + loop.off
  BY DEF CInv, PlaceInv
<1>7. PageOf(x) = q /\ OffsetOf(x) = loop.off
  BY <1>1, <1>3, <1>6, PageAndOffset
<1>8. q \in 0 .. NumPages - 1
  BY <1>5, <1>7, PageOfAddress DEF Pages
<1>9. q % NumPages = q
  <2>1. \A n \in Nat \ {0} : \A a \in 0 .. n - 1 : a % n = a
    OBVIOUS
  <2> QED BY <1>8, <2>1, NumPagesPositive
<1> QED BY <1>5, <1>7, <1>9 DEF LoopPage

(* The last iteration: the segment ends on its page.                       *)
LEMMA LoadPages ==
  ASSUME IInv, TInv, PermInv, CInv, pc = "load", loop.total < se_hdr.len[seg]
  PROVE  loop.i + 1 = NumPagesOf(Start, se_hdr.len[seg])
           <=> se_hdr.len[seg] - loop.total <= PAGE_SIZE - loop.off
<1> DEFINE len == se_hdr.len[seg]
           x == Start + loop.total
           q == PageOf(x)
           last == Start + len - 1
<1>1. /\ loop.i \in Nat /\ loop.off \in Offsets /\ loop.total \in Nat
      /\ loop.i < NumPagesOf(Start, len)
  BY DEF TInv, DataInv, IterationInv
<1>2. seg \in Segments /\ Start \in Nat /\ len \in Nat \ {0}
  BY <1>1, HeaderTypes DEF IInv, HeaderInv
<1>3. Start + len <= AddressSpace
  BY <1>2, SegmentTypes, AddressSpaceSize DEF CInv, Start
<1>4. /\ NumPagesOf(Start, len) = PageOf(last) - PageOf(Start) + 1
      /\ PageOf(Start) \in Nat /\ PageOf(last) \in Nat
  <2> HIDE DEF len
  <2>1. NumPagesOf(Start, len) = PageOf(last) - PageOf(Start) + 1
    BY <1>2, <1>3, FlatRange
  <2>2. last \in Nat
    BY <1>2
  <2> QED BY <1>2, <2>1, <2>2, PageAndOffset
<1>5. q = PageOf(Start) + loop.i /\ loop.off = OffsetOf(x) /\ q \in Nat /\ x \in Nat
  BY <1>1, <1>2, <1>4, LoadPage
<1>6. /\ q * PAGE_SIZE \in Nat /\ x = q * PAGE_SIZE + loop.off
      /\ (q + 1) * PAGE_SIZE = q * PAGE_SIZE + PAGE_SIZE /\ PAGE_SIZE \in Nat
  <2>1. \A k, n \in Nat : k * n \in Nat /\ (k + 1) * n = k * n + n
    OBVIOUS
  <2> QED BY <1>5, <2>1, PageAndOffset
<1>7. last < (q + 1) * PAGE_SIZE <=> PageOf(last) < q + 1
  <2>1. last \in Nat /\ q + 1 \in Nat
    BY <1>2, <1>5
  <2> HIDE DEF q, last
  <2> QED BY <2>1, PageOrder
<1>8. last < (q + 1) * PAGE_SIZE <=> len - loop.total <= PAGE_SIZE - loop.off
  <2> HIDE DEF q
  <2>1. loop.off \in Nat
    BY <1>1 DEF Offsets
  <2> QED BY <1>1, <1>2, <1>6, <2>1
<1>9. loop.i + 1 = NumPagesOf(Start, len) <=> PageOf(last) < q + 1
  <2> HIDE DEF last, len
  <2> QED BY <1>1, <1>4, <1>5
<1> QED BY <1>7, <1>8, <1>9

(* What the end of a loop does to the counts.                              *)
LEMMA LoadedNext ==
  ASSUME IInv, UNCHANGED se_hdr,
         \/ pc = "load" /\ EndOfLoad
         \/ pc = "zero" /\ seg = "data" /\ NextSegment,
         NEW s \in Segments
  PROVE  Loaded(s)' = IF s = seg THEN se_hdr.len[s] ELSE Loaded(s)
<1>1. seg \in Segments
  BY DEF IInv, HeaderInv
<1>2. CASE pc = "load" /\ seg = "data"
  <2>1. pc' = "zero" /\ seg' = seg
    BY <1>2 DEF EndOfLoad
  <2> QED BY <1>2, <2>1 DEF Loaded, Before, Segments
<1>3. CASE pc = "load" /\ seg # "data"
  <2>1. pc' = "create" /\ seg' = IF seg = "text" THEN "rodata" ELSE "data"
    BY <1>1, <1>3 DEF EndOfLoad, NextSegment, Segments
  <2>2. CASE seg = "text"
    BY <1>3, <2>1, <2>2 DEF Loaded, Before, Segments
  <2>3. CASE seg = "rodata"
    BY <1>3, <2>1, <2>3 DEF Loaded, Before, Segments
  <2> QED BY <1>1, <1>3, <2>2, <2>3 DEF Segments
<1>4. CASE pc = "zero" /\ seg = "data" /\ NextSegment
  <2>1. pc' = "start" /\ seg' = seg
    BY <1>4 DEF NextSegment
  <2> QED BY <1>4, <2>1 DEF Loaded, Before, Segments
<1> QED BY <1>2, <1>3, <1>4

LEMMA ContentLoad ==
  ASSUME IInv, TInv, PermInv, CInv, vm_area_load
  PROVE  CInv'
<1> DEFINE len == se_hdr.len[seg]
           total == loop.total
           from == se_hdr.off[seg] + total
           asked == Min({len - total, PAGE_SIZE - loop.off})
           read == getbytes(from, asked)
           next == [i |-> loop.i + 1, off |-> 0, total |-> total + read]
<1>1. /\ pc = "load" /\ pc \notin Early
      /\ UNCHANGED <<se_hdr, page_dir>>
      /\ mem' \in {mem, Written(FrameAt(Start), loop.off, FileBytes(from, read))}
      /\ InArea(Start, len) =>
           mem' = Written(FrameAt(Start), loop.off, FileBytes(from, read))
      /\ \/ EndOfLoad /\ (InArea(Start, len) => \/ read = 0 \/ read # asked
                                                 \/ loop.i + 1 = NumPagesOf(Start, len))
         \/ /\ loop' = next /\ read = asked /\ read # 0
            /\ loop.i + 1 # NumPagesOf(Start, len)
            /\ UNCHANGED <<pc, seg>>
  BY DEF vm_area_load, Early
<1>2. /\ seg \in Segments /\ Start \in Nat /\ len \in Nat /\ se_hdr.off[seg] \in Nat
      /\ loop.i \in Nat /\ loop.off \in Offsets /\ total \in Nat /\ total <= len
      /\ PAGE_SIZE \in Nat
  BY <1>1, HeaderTypes, PageAndOffset DEF IInv, HeaderInv, TInv, DataInv, IterationInv
<1>3. InArea(Start, len)
  BY <1>2, SegmentTypes DEF CInv, InArea, Start
<1>4. from \in Nat /\ asked \in 0 .. len - total /\ asked \in 0 .. PAGE_SIZE - loop.off
      /\ (asked = len - total \/ asked = PAGE_SIZE - loop.off)
      /\ (asked = 0 => len - total = 0)
  <2>1. len - total \in Nat /\ PAGE_SIZE - loop.off \in Nat \ {0}
    BY <1>2 DEF Offsets
  <2> QED BY <1>2, <2>1, MinOfTwo
<1>5. /\ read \in 0 .. asked /\ (read # 0 => from + read <= se_hdr.execlen)
      /\ (read # asked => se_hdr.execlen <= from + read)
  <2> HIDE DEF asked, from
  <2>1. asked \in Nat
    BY <1>2, <1>4
  <2> QED BY <1>4, <2>1, GetbytesRange
<1> HIDE DEF len, total, from, asked, read
<1>6. total + read \in Nat /\ total + read <= len /\ se_hdr.execlen \in Nat
  BY <1>2, <1>4, <1>5, HeaderTypes
(* What is written is the file's, and goes where the segment has it.       *)
<1>7. ASSUME NEW addr \in Addresses, InReach(addr)
      PROVE  ByteAt(addr)' = IF addr - Start \in total .. total + read - 1
                               THEN FileByte(seg, addr - Start) ELSE ByteAt(addr)
  <2>1. CASE read = 0
    <3>1. DOMAIN FileBytes(from, read) = {}
      BY <2>1 DEF FileBytes
    <3>2. mem' = mem
      BY <1>1, <3>1, WriteNothing DEF TInv, DataInv
    <3>3. ByteAt(addr)' = ByteAt(addr)
      BY <1>1, <3>2 DEF ByteAt
    <3> QED BY <1>2, <2>1, <3>3
  <2>2. CASE read # 0
    <3> DEFINE x == Start + total
    <3>1. total < len /\ x \in Nat /\ addr \in Nat
      BY <1>2, <1>4, <1>5, <2>2, AddressSpaceSize
    <3>2. /\ x \in Addresses /\ InReach(x) /\ LoopPage(Start) = PageOf(x)
          /\ loop.off = OffsetOf(x)
      BY <1>1, <3>1, LoadPage DEF total, len
    <3> HIDE DEF x
    <3>3. PICK q \in Pages : q = PageOf(x)
      BY <3>2, PageOfAddress
    <3>4. Mapped(q) /\ FrameAt(Start) = page_dir.pte[q].frame
      <4>1. page_dir.pde[VMM_GET_PDE(q)] # {}
        BY <1>1, <3>3, PdeOfPage DEF IInv, DirInv, Early
      <4> QED BY <3>2, <3>3, <4>1 DEF InReach, FrameAt, vmm_get_mapping
    <3>5. PICK off \in Offsets : off = loop.off
      BY <1>2
    <3>6. off \in Int /\ off \in Nat
      BY <1>2, <3>5 DEF Offsets
    <3>7. PICK bytes : bytes = FileBytes(from, read)
      OBVIOUS
    <3>8. ByteAt(addr)' = IF PageOf(addr) = q /\ OffsetOf(addr) - off \in DOMAIN bytes
                            THEN bytes[OffsetOf(addr) - off] ELSE ByteAt(addr)
      <4>1. mem' = Written(page_dir.pte[q].frame, off, bytes)
        BY <1>1, <1>3, <3>4, <3>5, <3>7
      <4> QED BY <1>1, <1>7, <3>4, <3>6, <4>1, WriteSeen DEF TInv, DataInv
    <3>9. PageOf(addr) = q /\ OffsetOf(addr) - off \in 0 .. read - 1
            <=> addr - Start \in total .. total + read - 1
      <4>1. /\ addr = PageOf(addr) * PAGE_SIZE + OffsetOf(addr) /\ OffsetOf(addr) \in Offsets
            /\ PageOf(addr) \in Nat /\ x = q * PAGE_SIZE + off /\ q * PAGE_SIZE \in Nat
            /\ q \in Nat
        BY <3>1, <3>2, <3>3, <3>5, PageAndOffset
      <4>2. off + read <= PAGE_SIZE /\ off \in Nat /\ read \in Nat
        BY <1>2, <1>4, <1>5, <3>5 DEF Offsets
      <4>3. addr - Start \in total .. total + read - 1 <=> addr \in x .. x + read - 1
        BY <1>2, <3>1, <4>2 DEF x
      <4>4. ASSUME PageOf(addr) = q, OffsetOf(addr) - off \in 0 .. read - 1
            PROVE  addr \in x .. x + read - 1
        BY <4>1, <4>2, <4>4 DEF Offsets
      <4>5. ASSUME addr \in x .. x + read - 1
            PROVE  PageOf(addr) = q /\ OffsetOf(addr) - off \in 0 .. read - 1
        <5>1. PICK d \in 0 .. read - 1 : addr = x + d
          <6>1. addr - x \in 0 .. read - 1 /\ addr = x + (addr - x)
            BY <3>1, <4>2, <4>5
          <6> QED BY <6>1
        <5>2. addr = q * PAGE_SIZE + (off + d) /\ off + d \in Offsets
          BY <1>2, <4>1, <4>2, <5>1 DEF Offsets
        <5>3. PageOf(addr) = q /\ OffsetOf(addr) = off + d
          BY <4>1, <5>2, PageAndOffset
        <5> QED BY <4>2, <5>1, <5>3
      <4> QED BY <4>3, <4>4, <4>5
    <3>10. ASSUME addr - Start \in total .. total + read - 1
           PROVE  bytes[OffsetOf(addr) - off] = FileByte(seg, addr - Start)
      <4>1. PageOf(addr) = q /\ OffsetOf(addr) - off \in 0 .. read - 1
        BY <3>9, <3>10
      <4>2. bytes[OffsetOf(addr) - off] = from + (OffsetOf(addr) - off) + 1
        BY <3>7, <4>1 DEF FileBytes
      <4>3. addr - Start = total + (OffsetOf(addr) - off)
        <5>1. /\ addr = PageOf(addr) * PAGE_SIZE + OffsetOf(addr)
              /\ x = q * PAGE_SIZE + off /\ q * PAGE_SIZE \in Nat /\ OffsetOf(addr) \in Nat
          BY <3>1, <3>2, <3>3, <3>5, PageAndOffset DEF Offsets
        <5> QED BY <1>2, <3>1, <3>6, <4>1, <5>1 DEF x
      <4>4. se_hdr.off[seg] + (addr - Start) = from + (OffsetOf(addr) - off)
        BY <1>2, <4>1, <4>3 DEF from, total
      <4>5. from + (OffsetOf(addr) - off) < se_hdr.execlen
        BY <1>4, <1>5, <1>6, <2>2, <4>1
      <4> QED BY <4>2, <4>4, <4>5 DEF FileByte
    <3> QED BY <3>7, <3>8, <3>9, <3>10 DEF FileBytes
  <2> QED BY <2>1, <2>2
<1>8. PICK cur \in Segments : cur = seg
  BY <1>2
(* A loop that ends leaves nothing of the file behind.                     *)
<1>9. ASSUME EndOfLoad, NEW k \in total + read .. len - 1
      PROVE  FileByte(cur, k) = 0
  <2>1. k \in Nat /\ total < len
    BY <1>2, <1>5, <1>6, <1>9
  <2>2. CASE read # asked
    <3>1. se_hdr.execlen <= se_hdr.off[cur] + k
      <4>1. se_hdr.execlen <= se_hdr.off[cur] + total + read
        BY <1>5, <1>8, <2>2 DEF from, total
      <4> QED BY <1>2, <1>4, <1>5, <1>6, <1>8, <1>9, <4>1
    <3> QED BY <1>2, <1>6, <1>8, <2>1, <3>1 DEF FileByte
  <2>3. CASE read = asked
    <3>1. asked # 0
      BY <1>2, <1>4, <2>1
    <3>2. loop.i + 1 = NumPagesOf(Start, len)
      <4>1. pc' # pc
        BY <1>1, <1>9 DEF EndOfLoad, NextSegment
      <4> QED BY <1>1, <1>3, <2>3, <3>1, <4>1
    <3>3. len - total <= PAGE_SIZE - loop.off
      BY <1>1, <2>1, <3>2, LoadPages DEF len, total
    <3>4. asked = len - total
      BY <1>2, <1>4, <3>3 DEF Offsets
    <3> QED BY <1>2, <1>9, <2>3, <3>4
  <2> QED BY <2>2, <2>3
<1>10. /\ Loaded(cur) = total
       /\ Loaded(cur)' \in Nat /\ total + read <= Loaded(cur)' /\ Loaded(cur)' <= len
       /\ \A k \in total + read .. Loaded(cur)' - 1 : FileByte(cur, k) = 0
       /\ \A s \in Segments \ {cur} : Loaded(s)' = Loaded(s)
  <2>1. Loaded(cur) = total
    BY <1>1, <1>8 DEF Loaded, Before, Segments, total
  <2>2. CASE EndOfLoad
    <3>1. Loaded(cur)' = len /\ \A s \in Segments \ {cur} : Loaded(s)' = Loaded(s)
      BY <1>1, <1>8, <2>2, LoadedNext DEF len
    <3> QED BY <1>2, <1>6, <1>9, <2>1, <2>2, <3>1
  <2>3. CASE loop' = next /\ UNCHANGED <<pc, seg>>
    <3>1. loop'.total = total + read
      BY <2>3
    <3>2. Loaded(cur)' = total + read
      BY <1>1, <1>8, <2>3, <3>1 DEF Loaded, Before, Segments
    <3>3. \A s \in Segments \ {cur} : Loaded(s)' = Loaded(s)
      BY <1>1, <1>8, <2>3 DEF Loaded
    <3> QED BY <1>2, <1>6, <2>1, <3>2, <3>3
  <2> QED BY <1>1, <2>2, <2>3
<1>11. ContentInv'
  <2> SUFFICES ASSUME NEW addr \in Addresses, InReach(addr)'
               PROVE  Holds(addr)'
    BY DEF ContentInv
  <2> DEFINE d == addr - se_hdr.start[cur]
  <2>1. InReach(addr) /\ addr \in Nat
    BY <1>1, AddressSpaceSize DEF InReach, Mapped
  <2>2. Holds(addr)
    BY <1>1, <2>1 DEF CInv, ContentInv
  <2>3. ByteAt(addr)' = IF d \in total .. total + read - 1 THEN FileByte(cur, d) ELSE ByteAt(addr)
    BY <1>7, <1>8, <2>1 DEF Start
  <2>4. \A s \in Segments : FileByte(s, addr - se_hdr.start[s])' = FileByte(s, addr - se_hdr.start[s])
    BY <1>1 DEF FileByte
  <2>5. IsLoaded(cur, addr)' <=> d \in 0 .. Loaded(cur)' - 1
    BY <1>1 DEF IsLoaded
  <2>6. IsLoaded(cur, addr) <=> d \in 0 .. total - 1
    BY <1>10 DEF IsLoaded
  <2>7. \A s \in Segments \ {cur} : IsLoaded(s, addr)' <=> IsLoaded(s, addr)
    BY <1>1, <1>10 DEF IsLoaded
  <2>8. ASSUME d \in 0 .. len - 1, NEW s \in Segments \ {cur}
        PROVE  ~IsLoaded(s, addr)
    <3>1. Loaded(s) \in 0 .. se_hdr.len[s]
      BY LoadedRange DEF CInv
    <3>2. IsLoaded(s, addr) => addr - se_hdr.start[s] \in 0 .. se_hdr.len[s] - 1
      BY <3>1, SegmentTypes DEF IsLoaded, CInv
    <3>3. d \in 0 .. se_hdr.len[cur] - 1
      BY <1>8, <2>8 DEF len
    <3> QED BY <2>1, <3>2, <3>3, SegmentsApart DEF CInv
  <2>9. d \in Int
    BY <2>1, SegmentTypes DEF CInv
  <2> HIDE DEF d
  <2>10. CASE d \in total .. total + read - 1
    <3>1. d \in 0 .. len - 1 /\ d \in 0 .. Loaded(cur)' - 1
      BY <1>2, <1>5, <1>6, <1>10, <2>9, <2>10
    <3>2. ByteAt(addr)' = FileByte(cur, d)'
      BY <2>3, <2>4, <2>10 DEF d
    <3> QED BY <1>1, <2>3, <2>4, <2>5, <2>7, <2>8, <2>10, <3>1 DEF Holds, d
  <2>11. CASE d \in total + read .. Loaded(cur)' - 1
    <3>1. d \in 0 .. len - 1 /\ d \notin 0 .. total - 1 /\ d \notin total .. total + read - 1
      BY <1>2, <1>5, <1>6, <1>10, <2>9, <2>11
    <3>2. ByteAt(addr)' = 0
      BY <2>2, <2>3, <2>6, <2>8, <3>1 DEF Holds
    <3>3. FileByte(cur, d) = 0
      BY <1>10, <2>11
    <3> QED BY <1>1, <2>4, <2>5, <2>7, <2>8, <3>1, <3>2, <3>3 DEF Holds, d
  <2>12. CASE d \notin total .. Loaded(cur)' - 1
    <3>1. d \notin total .. total + read - 1
      BY <1>2, <1>5, <1>6, <1>10, <2>9, <2>12
    <3>2. d \in 0 .. total - 1 <=> d \in 0 .. Loaded(cur)' - 1
      BY <1>2, <1>5, <1>6, <1>10, <2>9, <2>12
    <3>3. \A s \in Segments : IsLoaded(s, addr)' <=> IsLoaded(s, addr)
      BY <2>5, <2>6, <2>7, <3>2
    <3>4. ByteAt(addr)' = ByteAt(addr)
      BY <2>3, <3>1
    <3> QED BY <1>1, <2>2, <2>4, <3>3, <3>4 DEF Holds
  <2> QED BY <1>2, <1>5, <1>6, <1>10, <2>9, <2>10, <2>11, <2>12
<1>12. PlaceInv'
  <2>1. CASE EndOfLoad
    <3>1. /\ pc' \in {"zero", "create", "start"}
          /\ pc' = "zero" => /\ loop' = [NoLoop EXCEPT !.off = OffsetOf(BssStart)] /\ seg' = seg
      BY <2>1 DEF EndOfLoad, NextSegment
    <3>2. pc' = "zero" => loop'.off = OffsetOf(BssStart) /\ BssStart' = BssStart
      BY <1>1, <3>1 DEF NoLoop, BssStart, Start
    <3> QED BY <1>1, <3>1, <3>2 DEF CInv, PlaceInv
  <2>2. CASE /\ loop' = next /\ read = asked /\ read # 0
             /\ loop.i + 1 # NumPagesOf(Start, len) /\ UNCHANGED <<pc, seg>>
    <3>1. loop'.i = loop.i + 1 /\ loop'.off = 0 /\ loop'.total = total + read /\ Start' = Start
      BY <1>1, <2>2 DEF Start
    <3>2. total < len
      BY <1>2, <1>4, <1>5, <2>2
    <3>3. PAGE_SIZE - loop.off < len - total
      BY <1>1, <1>2, <2>2, <3>2, LoadPages DEF len, total, Offsets
    <3>4. read = PAGE_SIZE - loop.off
      BY <1>2, <1>4, <2>2, <3>3 DEF Offsets
    <3>5. Start + total = (PageOf(Start) + loop.i) * PAGE_SIZE + loop.off
      BY <1>1 DEF CInv, PlaceInv, total
    <3>6. /\ (PageOf(Start) + (loop.i + 1)) * PAGE_SIZE
                = (PageOf(Start) + loop.i) * PAGE_SIZE + PAGE_SIZE
          /\ (PageOf(Start) + loop.i) * PAGE_SIZE \in Nat
      <4>1. \A p, i, n \in Nat : /\ (p + (i + 1)) * n = (p + i) * n + n
                                 /\ (p + i) * n \in Nat
        OBVIOUS
      <4>2. PageOf(Start) \in Nat
        BY <1>2, PageAndOffset
      <4> QED BY <1>2, <4>1, <4>2
    <3>7. Start + (total + read) = (PageOf(Start) + (loop.i + 1)) * PAGE_SIZE + 0
      BY <1>2, <3>4, <3>5, <3>6 DEF Offsets
    <3> QED BY <1>1, <2>2, <3>1, <3>7 DEF CInv, PlaceInv
  <2> QED BY <1>1, <2>1, <2>2
<1> QED BY <1>11, <1>12 DEF CInv

-----------------------------------------------------------------------------
(* vm_area_zero: what it clears, even behind the area, is 0 already.       *)

(* Where an iteration is: on a mapped page, not in front of the bss.       *)
LEMMA ZeroPage ==
  ASSUME IInv, TInv, PermInv, CInv, pc = "zero", se_hdr.bss # 0
  PROVE  \E q \in Pages :
           /\ q = LoopPage(BssStart) /\ Mapped(q)
           /\ BssStart <= q * PAGE_SIZE + loop.off
<1> DEFINE bss == se_hdr.bss
           first == PageOf(BssStart)
           q == first + loop.i
           last == BssStart + bss - 1
<1>1. /\ seg = "data" /\ pc \notin Early
  BY DEF PermInv, PhaseInv, Early
<1>2. /\ loop.i \in Nat /\ loop.off \in Offsets /\ loop.i < NumPagesOf(BssStart, bss)
      /\ loop.i = 0 => loop.off = OffsetOf(BssStart)
  BY DEF TInv, DataInv, IterationInv, CInv, PlaceInv
<1>3. /\ BssStart \in Nat /\ bss \in Nat \ {0} /\ BssStart + bss <= AddressSpace
      /\ se_hdr.len["data"] \in Nat /\ se_hdr.start["data"] \in Nat
      /\ BssStart = se_hdr.start["data"] + se_hdr.len["data"]
      /\ AreaSize(se_hdr, "data") = se_hdr.len["data"] + bss
  <2>1. "data" \in Segments
    BY DEF Segments
  <2> QED BY <1>1, <2>1, HeaderTypes, SegmentTypes DEF CInv, PlaceInv, Linked, BssStart, Start,
             AreaSize
<1> HIDE DEF bss
<1>4. /\ first \in Nat /\ PageOf(last) \in Nat /\ last \in Nat /\ q \in Nat
      /\ NumPagesOf(BssStart, bss) = PageOf(last) - first + 1
      /\ (first + loop.i) % NumPages = first + loop.i
  <2>1. last \in Nat
    BY <1>3
  <2>2. first \in Nat /\ PageOf(last) \in Nat
    BY <1>3, <2>1, PageAndOffset
  <2> QED BY <1>2, <1>3, <2>1, <2>2, FlatRange
<1>5. LoopPage(BssStart) = q
  BY <1>4 DEF LoopPage
<1>6. q <= PageOf(last)
  <2> HIDE DEF first, last
  <2> QED BY <1>2, <1>4
<1>7. q * PAGE_SIZE \in Nat /\ q * PAGE_SIZE <= last
  <2>1. \A k, n \in Nat : k * n \in Nat
    OBVIOUS
  <2> HIDE DEF q, last
  <2> QED BY <1>4, <1>6, <2>1, PageAndOffset, PageOrder
(* An address of the bss on that page.                                     *)
<1>8. \E x \in BssStart .. last : PageOf(x) = q /\ x <= q * PAGE_SIZE + loop.off
  <2>1. CASE loop.i = 0
    <3>1. q = first
      BY <1>4, <2>1
    <3>2. BssStart = first * PAGE_SIZE + OffsetOf(BssStart)
      BY <1>3, PageAndOffset
    <3>3. BssStart \in BssStart .. last
      BY <1>3
    <3>4. BssStart = q * PAGE_SIZE + loop.off
      BY <1>2, <2>1, <3>1, <3>2
    <3>5. BssStart <= BssStart
      BY <1>3
    <3> QED BY <3>1, <3>3, <3>4, <3>5
  <2>2. CASE loop.i # 0
    <3> HIDE DEF last
    <3>1. first < q
      BY <1>2, <1>4, <2>2
    <3> HIDE DEF q
    <3>2. BssStart < q * PAGE_SIZE
      <4> HIDE DEF first
      <4> QED BY <1>3, <1>4, <3>1, PageOrder DEF first
    <3>3. q * PAGE_SIZE \in BssStart .. last
      BY <1>3, <1>4, <1>7, <3>2
    <3>4. PageOf(q * PAGE_SIZE + 0) = q /\ 0 \in Offsets
      BY <1>4, PageAndOffset DEF Offsets
    <3>5. q * PAGE_SIZE + 0 = q * PAGE_SIZE /\ q * PAGE_SIZE <= q * PAGE_SIZE + loop.off
      BY <1>2, <1>7 DEF Offsets
    <3> QED BY <3>3, <3>4, <3>5
  <2> QED BY <2>1, <2>2
<1>9. PICK x \in BssStart .. last : PageOf(x) = q /\ x <= q * PAGE_SIZE + loop.off
  BY <1>8
<1>10. x \in Nat /\ x - se_hdr.start["data"] \in 0 .. AreaSize(se_hdr, "data") - 1
  BY <1>3, <1>9
<1>11. x \in Addresses /\ InReach(x)
  <2>1. "data" \in Segments
    BY DEF Segments
  <2> QED BY <1>1, <1>10, <2>1, AreaInReach DEF CInv
<1>12. q \in Pages /\ Mapped(q)
  BY <1>9, <1>11, PageOfAddress DEF InReach
<1>13. BssStart <= q * PAGE_SIZE + loop.off
  BY <1>2, <1>3, <1>7, <1>9 DEF Offsets
<1> HIDE DEF q
<1> QED BY <1>5, <1>12, <1>13

LEMMA ContentZero ==
  ASSUME IInv, TInv, PermInv, CInv, vm_area_zero
  PROVE  CInv'
<1>1. /\ pc = "zero" /\ pc \notin Early /\ UNCHANGED <<page_dir, se_hdr>>
      /\ mem' \in {mem, Written(FrameAt(BssStart), loop.off, Zeros(bytes_to_zero))}
      /\ \/ NextSegment
         \/ loop' = [loop EXCEPT !.i = @ + 1, !.off = 0] /\ UNCHANGED <<pc, seg>>
  BY DEF vm_area_zero, Early
<1>2. /\ loop.i \in Nat /\ loop.off \in Offsets /\ seg = "data"
      /\ loop \in [i : 0 .. NumPages, off : Offsets, total : Nat]
  BY <1>1 DEF TInv, DataInv, PermInv, PhaseInv
<1>3. \A s \in Segments : Loaded(s)' = Loaded(s)
  <2>1. CASE NextSegment
    <3>1. \A s \in Segments : Loaded(s)' = IF s = seg THEN se_hdr.len[s] ELSE Loaded(s)
      BY <1>1, <1>2, <2>1, LoadedNext
    <3> QED BY <1>1, <3>1 DEF Loaded
  <2>2. CASE UNCHANGED <<pc, seg>>
    BY <1>1, <2>2 DEF Loaded
  <2> QED BY <1>1, <2>1, <2>2
<1>4. ASSUME NEW addr \in Addresses, InReach(addr)
      PROVE  ByteAt(addr)' = ByteAt(addr)
  <2>1. CASE mem' = mem
    BY <1>1, <2>1 DEF ByteAt
  <2>2. CASE mem' = Written(FrameAt(BssStart), loop.off, Zeros(bytes_to_zero)) /\ se_hdr.bss = 0
    <3>1. bytes_to_zero = 0
      BY <1>2, <2>2, MinOfTwo, TaskVMAssumption DEF bytes_to_zero, Offsets
    <3>2. DOMAIN Zeros(bytes_to_zero) = {}
      BY <3>1 DEF Zeros
    <3>3. mem' = mem
      BY <2>2, <3>2, WriteNothing DEF TInv, DataInv
    <3> QED BY <1>1, <3>3 DEF ByteAt
  <2>3. CASE mem' = Written(FrameAt(BssStart), loop.off, Zeros(bytes_to_zero)) /\ se_hdr.bss # 0
    <3>1. PICK q \in Pages : /\ q = LoopPage(BssStart) /\ Mapped(q)
                             /\ BssStart <= q * PAGE_SIZE + loop.off
      BY <1>1, <2>3, ZeroPage
    <3>2. FrameAt(BssStart) = page_dir.pte[q].frame
      <4>1. page_dir.pde[VMM_GET_PDE(q)] # {}
        BY <1>1, <3>1, PdeOfPage DEF IInv, DirInv, Early
      <4> QED BY <3>1, <4>1 DEF FrameAt, vmm_get_mapping
    <3>3. PICK off \in Offsets : off = loop.off
      BY <1>2
    <3>4. PICK bytes : bytes = Zeros(bytes_to_zero)
      OBVIOUS
    <3>5. off \in Int /\ off \in Nat
      BY <3>3 DEF Offsets
    <3>6. ByteAt(addr)' = IF PageOf(addr) = q /\ OffsetOf(addr) - off \in DOMAIN bytes
                            THEN bytes[OffsetOf(addr) - off] ELSE ByteAt(addr)
      <4>1. mem' = Written(page_dir.pte[q].frame, off, bytes)
        BY <2>3, <3>2, <3>3, <3>4
      <4> QED BY <1>1, <1>4, <3>1, <3>5, <4>1, WriteSeen DEF TInv, DataInv
    <3>7. ASSUME PageOf(addr) = q, OffsetOf(addr) - off \in DOMAIN bytes
          PROVE  bytes[OffsetOf(addr) - off] = 0 /\ ByteAt(addr) = 0
      <4>1. bytes[OffsetOf(addr) - off] = 0 /\ OffsetOf(addr) - off \in 0 .. bytes_to_zero - 1
        BY <3>4, <3>7 DEF Zeros
      <4>2. bytes_to_zero \in Int
        <5>1. se_hdr.bss \in Nat
          BY HeaderTypes
        <5> QED BY <1>2, <5>1, MinOfTwo, TaskVMAssumption DEF bytes_to_zero, Offsets
      <4>3. /\ addr \in Nat /\ addr = q * PAGE_SIZE + OffsetOf(addr) /\ q * PAGE_SIZE \in Nat
            /\ OffsetOf(addr) \in Nat /\ off <= OffsetOf(addr)
        <5>1. addr \in Nat
          BY AddressSpaceSize
        <5>2. /\ addr = q * PAGE_SIZE + OffsetOf(addr) /\ OffsetOf(addr) \in Offsets
              /\ q \in Nat
          BY <3>7, <5>1, PageAndOffset
        <5>3. q * PAGE_SIZE \in Nat /\ OffsetOf(addr) \in Nat
          BY <5>2, PageAndOffset DEF Offsets
        <5> QED BY <3>5, <4>1, <4>2, <5>1, <5>2, <5>3
      <4>4. BssStart <= addr /\ BssStart \in Nat
        BY <3>1, <3>3, <3>5, <4>3, HeaderTypes
      <4>5. ASSUME NEW s \in Segments
            PROVE  ~IsLoaded(s, addr)
        <5>1. Loaded(s) \in 0 .. se_hdr.len[s] /\ se_hdr.len[s] \in Nat /\ se_hdr.start[s] \in Nat
          BY LoadedRange, SegmentTypes DEF CInv
        <5>2. se_hdr.start[s] + se_hdr.len[s] <= BssStart
          <6>1. \A t \in {"text", "rodata", "data"} :
                  se_hdr.len[t] \in Nat /\ se_hdr.start[t] \in Nat
            BY SegmentTypes DEF CInv, Segments
          <6>2. BssStart = se_hdr.start["data"] + se_hdr.len["data"]
            BY <1>2 DEF BssStart, Start
          <6>3. /\ se_hdr.start["text"] + se_hdr.len["text"] <= se_hdr.start["rodata"]
                /\ se_hdr.start["rodata"] + se_hdr.len["rodata"] <= se_hdr.start["data"]
            BY DEF CInv, PlaceInv, Linked
          <6> QED BY <6>1, <6>2, <6>3 DEF Segments
        <5> QED BY <4>3, <4>4, <5>1, <5>2 DEF IsLoaded
      <4>6. Holds(addr)
        BY <1>1, <1>4 DEF CInv, ContentInv
      <4> QED BY <4>1, <4>5, <4>6 DEF Holds
    <3> QED BY <3>6, <3>7
  <2> QED BY <1>1, <2>1, <2>2, <2>3
<1>5. ContentInv'
  <2> SUFFICES ASSUME NEW addr \in Addresses, InReach(addr)'
               PROVE  Holds(addr)'
    BY DEF ContentInv
  <2>1. InReach(addr)
    BY <1>1 DEF InReach, Mapped
  <2>2. Holds(addr)
    BY <1>1, <2>1 DEF CInv, ContentInv
  <2> QED BY <1>1, <1>3, <1>4, <2>1, <2>2, HoldsKept
<1>6. PlaceInv'
  <2>1. CASE NextSegment
    <3>1. pc' = "start"
      BY <1>2, <2>1 DEF NextSegment
    <3> QED BY <1>1, <3>1 DEF CInv, PlaceInv
  <2>2. CASE loop' = [loop EXCEPT !.i = @ + 1, !.off = 0] /\ UNCHANGED <<pc, seg>>
    <3>1. loop'.i # 0 /\ pc' = "zero"
      BY <1>1, <1>2, <2>2
    <3> QED BY <1>1, <3>1 DEF CInv, PlaceInv
  <2> QED BY <1>1, <2>1, <2>2
<1> QED BY <1>5, <1>6 DEF CInv

-----------------------------------------------------------------------------
LEMMA ContentNext ==
  IInv /\ IInv' /\ TInv /\ PermInv /\ CInv /\ [Next]_vars => CInv'
<1> SUFFICES ASSUME IInv, IInv', TInv, PermInv, CInv, [Next]_vars
             PROVE  CInv'
  OBVIOUS
<1>1. CASE vmm_page_init \/ task_create
  <2>1. pc' \in Early /\ UNCHANGED se_hdr /\ pc' \notin {"load", "zero"}
    BY <1>1 DEF vmm_page_init, task_create, load, Early
  <2> QED BY <2>1 DEF CInv, ContentInv, PlaceInv
<1>2. CASE task_load_entry \/ thread_switch \/ sys_gettid
  <2>1. /\ UNCHANGED <<page_dir, mem, se_hdr, seg>>
        /\ pc \in {"start", "sched_yield", "user"} /\ pc' \in {"sched_yield", "user"}
    BY <1>2 DEF task_load_entry, thread_switch, sys_gettid, load
  <2>2. \A s \in Segments : Loaded(s)' = Loaded(s)
    BY <2>1 DEF Loaded
  <2>3. ContentInv'
    BY <2>1, <2>2, ContentKept DEF Early
  <2> QED BY <2>1, <2>3 DEF CInv, PlaceInv
<1>3. CASE UNCHANGED vars
  <2>1. UNCHANGED <<page_dir, mem, se_hdr, seg, pc, loop>>
    BY <1>3 DEF vars
  <2>2. \A s \in Segments : Loaded(s)' = Loaded(s)
    BY <2>1 DEF Loaded
  <2>3. ContentInv'
    <3>1. CASE pc \in Early
      BY <2>1, <3>1 DEF ContentInv
    <3>2. CASE pc \notin Early
      BY <2>1, <2>2, <3>2, ContentKept
    <3> QED BY <3>1, <3>2
  <2> QED BY <2>1, <2>3 DEF CInv, PlaceInv, Start, BssStart
<1> QED BY <1>1, <1>2, <1>3, ContentThreadCreate, ContentCreate, ContentLoad, ContentZero
        DEF Next

(* The invariants that the contents rest on, and theirs.                   *)
AllInv == IInv /\ TInv /\ PermInv /\ CInv

LEMMA AllInvariant ==
  ASSUME \A im \in Loadable : OwnTables(im) /\ Linked(im)
  PROVE  Spec => []AllInv
<1>1. \A im \in Loadable : OwnRegions(im)
  BY DEF OwnTables, OwnRegions, RegionsOf
<1>2. \A im \in Loadable : AboveKernel(im)
  BY <1>1 DEF OwnRegions, RegionsOf, AboveKernel
<1>3. Init => AllInv
  BY <1>2, InitInv, TypeInit, PermInit, ContentInit DEF AllInv
<1>4. AllInv /\ [Next]_vars => AllInv'
  BY NextInv, TypeNext, PermNext, ContentNext DEF AllInv
<1> QED BY <1>3, <1>4, PTL DEF Spec

LEMMA ContentImplies == AllInv => LoadedImage
<1> SUFFICES ASSUME AllInv, pc \in {"start", "sched_yield", "user"}
             PROVE  /\ \A s \in Segments : \A k \in 0 .. se_hdr.len[s] - 1 :
                         ByteAt(se_hdr.start[s] + k) = FileByte(s, k)
                    /\ \A k \in 0 .. se_hdr.bss - 1 :
                         ByteAt(se_hdr.start["data"] + se_hdr.len["data"] + k) = 0
  BY DEF LoadedImage, FileByte
<1>1. /\ seg = "data" /\ pc \notin Early /\ pc # "create" /\ IInv /\ PermInv /\ PlaceInv
      /\ ContentInv
  BY DEF AllInv, PermInv, PhaseInv, Early, CInv
<1>2. \A s \in Segments : /\ Loaded(s) = se_hdr.len[s]
                          /\ s \in Before[seg] \/ (s = seg /\ pc # "create")
  BY <1>1 DEF Loaded, Before, Segments
<1>3. ASSUME NEW s \in Segments, NEW k \in 0 .. se_hdr.len[s] - 1
      PROVE  ByteAt(se_hdr.start[s] + k) = FileByte(s, k)
  <2> DEFINE addr == se_hdr.start[s] + k
  <2>1. /\ addr \in Nat /\ addr - se_hdr.start[s] = k
        /\ k \in 0 .. AreaSize(se_hdr, s) - 1
    BY <1>1, SegmentTypes
  <2> HIDE DEF addr
  <2>2. addr \in Addresses /\ InReach(addr)
    BY <1>1, <1>2, <2>1, AreaInReach
  <2>3. IsLoaded(s, addr)
    BY <1>2, <2>1 DEF IsLoaded
  <2>4. Holds(addr)
    BY <1>1, <2>2 DEF ContentInv
  <2>5. ByteAt(addr) = FileByte(s, k)
    BY <2>1, <2>3, <2>4 DEF Holds
  <2> QED BY <2>5 DEF addr
<1>4. ASSUME NEW k \in 0 .. se_hdr.bss - 1
      PROVE  ByteAt(se_hdr.start["data"] + se_hdr.len["data"] + k) = 0
  <2> DEFINE addr == se_hdr.start["data"] + se_hdr.len["data"] + k
  <2>1. "data" \in Segments
    BY DEF Segments
  <2>2. \A t \in {"text", "rodata", "data"} : se_hdr.len[t] \in Nat /\ se_hdr.start[t] \in Nat
    BY <1>1, SegmentTypes DEF Segments
  <2>3. /\ addr \in Nat /\ se_hdr.bss \in Nat
        /\ addr - se_hdr.start["data"] \in 0 .. AreaSize(se_hdr, "data") - 1
    BY <1>1, <2>1, <2>2, HeaderTypes DEF AreaSize
  <2>4. \A s \in Segments : ~IsLoaded(s, addr)
    <3>1. /\ se_hdr.start["text"] + se_hdr.len["text"] <= se_hdr.start["rodata"]
          /\ se_hdr.start["rodata"] + se_hdr.len["rodata"] <= se_hdr.start["data"]
      BY <1>1 DEF PlaceInv, Linked
    <3>2. \A t \in {"text", "rodata", "data"} : Loaded(t) = se_hdr.len[t]
      BY <1>2 DEF Segments
    <3> QED BY <2>2, <2>3, <3>1, <3>2 DEF IsLoaded, Segments
  <2> HIDE DEF addr
  <2>5. addr \in Addresses /\ InReach(addr)
    BY <1>1, <1>2, <2>1, <2>3, AreaInReach
  <2>6. ByteAt(addr) = 0
    BY <1>1, <2>4, <2>5 DEF ContentInv, Holds
  <2> QED BY <2>6 DEF addr
<1> QED BY <1>3, <1>4

(* When task_load is through, every byte of code, constants and data is    *)
(* the file's, or 0 where the file is cut short, and the bss is 0: however *)
(* the segments lie to pages and share them, and although vm_area_zero     *)
(* asks for its whole length at every page and clears beyond the area.     *)
THEOREM ImageIsLoaded ==
  ASSUME \A im \in Loadable : OwnTables(im) /\ Linked(im)
  PROVE  Spec => []LoadedImage
BY AllInvariant, ContentImplies, PTL

-----------------------------------------------------------------------------
(* The address space.                                                      *)

SpaceInv == AllInv /\ ReachInv

(* What the task finds is what is in reach.                                *)
LEMMA FoundInReach ==
  ASSUME SpaceInv, NEW addr \in Addresses
  PROVE  Found(addr) = IF InReach(addr) THEN ByteAt(addr) ELSE Absent
<1> DEFINE p == PageOf(addr)
<1>1. IInv /\ ReachInv /\ p \in Pages
  BY PageOfAddress DEF SpaceInv, AllInv
<1>2. CASE InReach(addr)
  <2>1. page_dir.pte[p].frame \in UserFrames /\ page_dir.pte[p].flags # {}
    BY <1>1, <1>2, ReachFrame DEF InReach, Mapped
  <2>2. ~(page_dir.pte[p].frame < UserMemStart)
    BY <2>1, Sizes DEF UserFrames
  <2> QED BY <1>2, <2>1, <2>2 DEF Found
<1>3. CASE ~Mapped(p)
  BY <1>3 DEF InReach, Found, Mapped
<1>4. CASE Mapped(p) /\ p \in Kernel
  <2>1. page_dir.pte[p].frame = p
    <3>1. CASE pc \in Early
      BY <1>1, <1>4, <3>1 DEF IInv, PlacedInv, OfKernel, OfKernelStack, OfLowFrame
    <3>2. CASE pc \notin Early
      BY <1>1, <1>4, <3>2 DEF ReachInv, AtOwnFrame
    <3> QED BY <3>1, <3>2
  <2>2. page_dir.pte[p].frame < UserMemStart
    BY <1>4, <2>1, Sizes DEF Kernel
  <2> QED BY <1>4, <2>2 DEF Found, InReach
<1> QED BY <1>2, <1>3, <1>4 DEF InReach

(* The executable has one byte for an address.                             *)
LEMMA InFileIs ==
  ASSUME SpaceInv, NEW addr \in Addresses, NEW s \in Segments,
         addr - se_hdr.start[s] \in 0 .. se_hdr.len[s] - 1
  PROVE  InFile(addr) = FileByte(s, addr - se_hdr.start[s])
<1> DEFINE k == se_hdr.off[s] + addr - se_hdr.start[s]
           at == {se_hdr.off[u] + addr - se_hdr.start[u] :
                    u \in {t \in Segments : addr - se_hdr.start[t] \in 0 .. se_hdr.len[t] - 1}}
           here == {n \in at : n < se_hdr.execlen}
<1>1. addr \in Nat /\ IInv /\ PlaceInv
  BY AddressSpaceSize DEF SpaceInv, AllInv, CInv
<1>2. \A t \in Segments : addr - se_hdr.start[t] \in 0 .. se_hdr.len[t] - 1 => t = s
  BY <1>1, SegmentsApart
<1>3. at = {k}
  BY <1>2
<1>4. /\ k \in Int /\ k = se_hdr.off[s] + (addr - se_hdr.start[s]) /\ se_hdr.execlen \in Nat
  BY <1>1, SegmentTypes
<1> HIDE DEF k, at
<1>5. InFile(addr) = IF here = {} THEN 0 ELSE Min(here) + 1
  BY DEF InFile, at
<1>6. CASE k < se_hdr.execlen
  <2>1. here = {k} /\ here # {}
    BY <1>3, <1>6
  <2>2. Min({k, k}) = k
    BY <1>4, MinOfTwo
  <2> QED BY <1>4, <1>5, <1>6, <2>1, <2>2 DEF FileByte
<1>7. CASE ~(k < se_hdr.execlen)
  <2>1. here = {}
    BY <1>3, <1>7
  <2> QED BY <1>4, <1>5, <1>7, <2>1 DEF FileByte
<1> QED BY <1>6, <1>7

(* What is loaded stays loaded, and is in reach.                           *)
LEMMA LoadedGrows ==
  ASSUME IInv, TInv, PermInv, CInv, [Next]_vars, NEW s \in Segments
  PROVE  Loaded(s) <= Loaded(s)'
<1>1. Loaded(s) \in Nat /\ Loaded(s) <= se_hdr.len[s] /\ se_hdr.len[s] \in Nat
  BY LoadedRange, SegmentTypes DEF CInv
<1>2. CASE vmm_page_init \/ task_create \/ thread_create
  <2>1. /\ pc \in Early /\ seg = "text" /\ seg' = seg /\ UNCHANGED se_hdr
        /\ pc' \in {"task_create", "thread_create", "create"}
    BY <1>2 DEF vmm_page_init, task_create, thread_create, load, Early, PermInv, PhaseInv
  <2>2. Loaded(s) = 0 /\ Loaded(s)' = 0
    BY <2>1 DEF Loaded, Before, Early
  <2> QED BY <2>2
<1>3. CASE vm_area_create
  <2>1. /\ pc = "create" /\ UNCHANGED <<se_hdr, seg>>
        /\ pc' = pc \/ (pc' = "load" /\ loop'.total = 0)
    BY <1>3 DEF vm_area_create, NoLoop
  <2>2. Loaded(s)' = Loaded(s)
    BY <2>1 DEF Loaded
  <2> QED BY <1>1, <2>2
<1>4. CASE vm_area_load
  <2> DEFINE from == se_hdr.off[seg] + loop.total
             asked == Min({se_hdr.len[seg] - loop.total, PAGE_SIZE - loop.off})
             read == getbytes(from, asked)
  <2>1. /\ pc = "load" /\ UNCHANGED se_hdr
        /\ EndOfLoad \/ (UNCHANGED <<pc, seg>> /\ loop'.total = loop.total + read)
    BY <1>4 DEF vm_area_load
  <2>2. CASE EndOfLoad
    BY <1>1, <2>1, <2>2, LoadedNext
  <2>3. CASE UNCHANGED <<pc, seg>> /\ loop'.total = loop.total + read
    <3>1. /\ loop.off \in Offsets /\ loop.total \in Nat /\ se_hdr.len[seg] \in Nat
          /\ loop.total <= se_hdr.len[seg] /\ se_hdr.off[seg] \in Nat
      BY <2>1, HeaderTypes DEF TInv, DataInv, IterationInv
    <3>2. from \in Nat /\ asked \in Nat
      BY <3>1, MinOfTwo, TaskVMAssumption DEF Offsets
    <3>3. read \in Nat
      BY <3>2, GetbytesRange
    <3> HIDE DEF read
    <3>4. CASE s = seg /\ s \notin Before[seg]
      BY <2>1, <2>3, <3>1, <3>3, <3>4 DEF Loaded
    <3>5. CASE ~(s = seg /\ s \notin Before[seg])
      <4>1. Loaded(s)' = Loaded(s)
        BY <2>1, <2>3, <3>5 DEF Loaded
      <4> QED BY <1>1, <4>1
    <3> QED BY <3>4, <3>5
  <2> QED BY <2>1, <2>2, <2>3
<1>5. CASE vm_area_zero
  <2>1. /\ pc = "zero" /\ UNCHANGED se_hdr /\ seg = "data"
        /\ NextSegment \/ UNCHANGED <<pc, seg>>
    BY <1>5 DEF vm_area_zero, PermInv, PhaseInv
  <2>2. CASE NextSegment
    BY <1>1, <2>1, <2>2, LoadedNext
  <2>3. CASE UNCHANGED <<pc, seg>>
    <3>1. Loaded(s)' = Loaded(s)
      BY <2>1, <2>3 DEF Loaded
    <3> QED BY <1>1, <3>1
  <2> QED BY <2>1, <2>2, <2>3
<1>6. CASE task_load_entry \/ thread_switch \/ sys_gettid \/ UNCHANGED vars
  <2>1. /\ UNCHANGED <<se_hdr, seg, loop>>
        /\ pc' = pc \/ (pc \in {"start", "sched_yield"} /\ pc' \in {"sched_yield", "user"})
    BY <1>6 DEF task_load_entry, thread_switch, sys_gettid, load, vars
  <2>2. Loaded(s)' = Loaded(s)
    BY <2>1 DEF Loaded
  <2> QED BY <1>1, <2>2
<1> QED BY <1>2, <1>3, <1>4, <1>5, <1>6 DEF Next

LEMMA LoadedInReach ==
  ASSUME AllInv, NEW addr \in Addresses, NEW s \in Segments, IsLoaded(s, addr)
  PROVE  /\ InReach(addr) /\ pc \notin Early
         /\ addr - se_hdr.start[s] \in 0 .. se_hdr.len[s] - 1
<1>1. IInv /\ TInv /\ PermInv /\ CInv /\ PlaceInv /\ addr \in Nat
  BY AddressSpaceSize DEF AllInv, CInv
<1>2. /\ addr - se_hdr.start[s] \in 0 .. Loaded(s) - 1
      /\ Loaded(s) \in 0 .. se_hdr.len[s] /\ Loaded(s) # 0
      /\ se_hdr.len[s] <= AreaSize(se_hdr, s)
      /\ se_hdr.len[s] \in Nat /\ AreaSize(se_hdr, s) \in Nat /\ se_hdr.start[s] \in Nat
  BY <1>1, LoadedRange, SegmentTypes DEF IsLoaded
<1>3. s \in Before[seg] \/ (s = seg /\ pc \in {"load", "zero", "start", "sched_yield", "user"})
  BY <1>2 DEF Loaded
<1>4. pc \notin Early
  BY <1>1, <1>3 DEF PermInv, PhaseInv, Before, Early
<1>5. addr - se_hdr.start[s] \in 0 .. AreaSize(se_hdr, s) - 1
  BY <1>1, <1>2
<1>6. InReach(addr)
  BY <1>1, <1>3, <1>4, <1>5, AreaInReach
<1> QED BY <1>1, <1>2, <1>4, <1>6

(* The task's directory only grows, and a page that is new has nothing     *)
(* loaded.                                                                 *)
LEMMA ReachGrows ==
  ASSUME SpaceInv, SpaceInv', [Next]_vars, NEW addr \in Addresses
  PROVE  /\ InReach(addr) => InReach(addr)'
         /\ InReach(addr)' /\ ~InReach(addr) => \A s \in Segments : ~IsLoaded(s, addr)'
<1> DEFINE p == PageOf(addr)
<1>1. IInv /\ TInv /\ PermInv /\ CInv /\ AllInv /\ p \in Pages
  BY PageOfAddress DEF SpaceInv, AllInv
<1>2. InReach(addr) => pc \notin Early
  BY <1>1, ReachFrame
<1>3. CASE UNCHANGED page_dir
  BY <1>3 DEF InReach, Mapped
<1>4. CASE task_create
  <2>1. pc \in Early /\ pc' = "thread_create" /\ seg = "text" /\ seg' = seg
    BY <1>1, <1>4 DEF task_create, load, Early, PermInv, PhaseInv
  <2>2. \A s \in Segments : Loaded(s)' = 0
    BY <2>1 DEF Loaded, Before
  <2> QED BY <1>2, <2>1, <2>2 DEF IsLoaded
<1>5. CASE thread_create
  <2>1. pc \in Early /\ pc' = "create" /\ seg = "text" /\ seg' = seg
    BY <1>1, <1>5 DEF thread_create, load, Early, PermInv, PhaseInv
  <2>2. \A s \in Segments : Loaded(s)' = 0
    BY <2>1 DEF Loaded, Before
  <2> QED BY <1>2, <2>1, <2>2 DEF IsLoaded
<1>6. CASE vm_area_create
  <2>1. /\ pc = "create" /\ UNCHANGED <<se_hdr, seg>>
        /\ pc' = pc \/ (pc' = "load" /\ loop'.total = 0)
    BY <1>6 DEF vm_area_create, NoLoop
  <2>2. \A s \in Segments : IsLoaded(s, addr)' <=> IsLoaded(s, addr)
    BY <2>1 DEF Loaded, IsLoaded
  <2>3. ASSUME InReach(addr)
        PROVE  InReach(addr)'
    <3>1. LoopPage(Start) \in Pages /\ SegFlags # {} /\ page_dir \in PageDirectories
      BY <1>1, <2>1, CreatePage DEF IInv, DirInv, SegFlags, USR_RO, USR_RW
    <3>2. \E frame : page_dir' = vmm_map_page(page_dir, LoopPage(Start), frame, SegFlags)
      BY <1>6 DEF vm_area_create
    <3>3. page_dir'.pte[p].flags \in {page_dir.pte[p].flags, SegFlags}
      BY <1>1, <3>1, <3>2 DEF vmm_map_page, PageDirectories
    <3> QED BY <2>3, <3>1, <3>3 DEF InReach, Mapped
  <2>4. ASSUME ~InReach(addr)
        PROVE  \A s \in Segments : ~IsLoaded(s, addr)'
    BY <1>1, <2>2, <2>4, LoadedInReach
  <2> QED BY <2>3, <2>4
<1>7. UNCHANGED page_dir \/ task_create \/ thread_create \/ vm_area_create
  BY DEF Next, vars, vmm_page_init, vm_area_load, vm_area_zero, task_load_entry,
         thread_switch, sys_gettid
<1> QED BY <1>3, <1>4, <1>5, <1>6, <1>7

(* FoundInReach, InFileIs and LoadedInReach of the state a step leads to.  *)
Tells ==
  SpaceInv => \A addr \in Addresses :
    /\ Found(addr) = IF InReach(addr) THEN ByteAt(addr) ELSE Absent
    /\ InReach(addr) => Holds(addr)
    /\ \A s \in Segments :
         IsLoaded(s, addr) => FileByte(s, addr - se_hdr.start[s]) = InFile(addr)

LEMMA TellsHolds == Tells
<1> SUFFICES ASSUME SpaceInv, NEW addr \in Addresses
             PROVE  /\ Found(addr) = IF InReach(addr) THEN ByteAt(addr) ELSE Absent
                    /\ InReach(addr) => Holds(addr)
                    /\ \A s \in Segments :
                         IsLoaded(s, addr) => FileByte(s, addr - se_hdr.start[s]) = InFile(addr)
  BY DEF Tells
<1>1. IInv /\ ContentInv /\ AllInv
  BY DEF SpaceInv, AllInv, CInv
<1>2. InReach(addr) => Holds(addr)
  BY <1>1, ReachFrame DEF ContentInv
<1> QED BY <1>1, <1>2, FoundInReach, LoadedInReach, InFileIs

LEMMA TellsPrime == Tells'
BY TellsHolds, PTL

(* A count of bytes is a number, also after a step.                        *)
LoadedNatural == SpaceInv => \A s \in Segments : Loaded(s) \in Nat

LEMMA LoadedIsNatural == LoadedNatural
BY LoadedRange, SegmentTypes DEF LoadedNatural, SpaceInv, AllInv, CInv

LEMMA LoadedNat == LoadedNatural'
BY LoadedIsNatural, PTL

LEMMA FillStep ==
  ASSUME SpaceInv, SpaceInv', [Next]_vars, NEW addr \in Addresses
  PROVE  /\ InFile(addr)' = InFile(addr)
         /\ \/ Found(addr)' = Found(addr)
            \/ Found(addr) = Absent /\ Found(addr)' = 0
            \/ Found(addr) = 0 /\ Found(addr)' = InFile(addr)
<1>1. UNCHANGED se_hdr
  BY DEF Next, vars, load, vmm_page_init, task_create, thread_create, vm_area_create,
         vm_area_load, vm_area_zero, task_load_entry, thread_switch, sys_gettid
<1>2. InFile(addr)' = InFile(addr)
  BY <1>1 DEF InFile
<1>3. /\ Found(addr) = IF InReach(addr) THEN ByteAt(addr) ELSE Absent
      /\ InReach(addr) => Holds(addr)
      /\ \A s \in Segments :
           IsLoaded(s, addr) => FileByte(s, addr - se_hdr.start[s]) = InFile(addr)
  BY TellsHolds DEF Tells
<1>4. /\ Found(addr)' = IF InReach(addr)' THEN ByteAt(addr)' ELSE Absent
      /\ InReach(addr)' => Holds(addr)'
      /\ \A s \in Segments :
           IsLoaded(s, addr)' => FileByte(s, addr - se_hdr.start[s])' = InFile(addr)'
  BY TellsPrime DEF Tells
<1>5. CASE ~InReach(addr)'
  <2>1. ~InReach(addr)
    BY <1>5, ReachGrows
  <2> QED BY <1>2, <1>3, <1>4, <1>5, <2>1
<1>6. CASE InReach(addr)' /\ ~InReach(addr)
  <2>1. \A s \in Segments : ~IsLoaded(s, addr)'
    BY <1>6, ReachGrows
  <2>2. ByteAt(addr)' = 0
    BY <1>4, <1>6, <2>1 DEF Holds
  <2> QED BY <1>2, <1>3, <1>4, <1>6, <2>2
<1>7. CASE InReach(addr)' /\ InReach(addr)
  <2>1. CASE \E s \in Segments : IsLoaded(s, addr)
    <3>1. PICK s \in Segments : IsLoaded(s, addr)
      BY <2>1
    <3>2. ByteAt(addr) = InFile(addr)
      BY <1>3, <1>7, <3>1 DEF Holds
    <3>3. IsLoaded(s, addr)'
      <4>1. /\ Loaded(s) <= Loaded(s)' /\ Loaded(s) \in Nat
            /\ addr - se_hdr.start[s] \in 0 .. Loaded(s) - 1
        BY <3>1, LoadedGrows, LoadedRange, SegmentTypes DEF IsLoaded, SpaceInv, AllInv, CInv
      <4>2. Loaded(s)' \in Nat
        BY LoadedNat DEF SpaceInv, LoadedNatural
      <4> QED BY <1>1, <4>1, <4>2 DEF IsLoaded
    <3>4. ByteAt(addr)' = InFile(addr)'
      BY <1>4, <1>7, <3>3 DEF Holds
    <3> QED BY <1>2, <1>3, <1>4, <1>7, <3>2, <3>4
  <2>2. CASE \A s \in Segments : ~IsLoaded(s, addr)
    <3>1. ByteAt(addr) = 0
      BY <1>3, <1>7, <2>2 DEF Holds
    <3>2. ByteAt(addr)' = 0 \/ ByteAt(addr)' = InFile(addr)'
      BY <1>4, <1>7 DEF Holds
    <3> QED BY <1>2, <1>3, <1>4, <1>7, <3>1, <3>2
  <2> QED BY <2>1, <2>2
<1> QED BY <1>2, <1>5, <1>6, <1>7

(* TaskVM implements AddressSpace: while directories, frames and counters  *)
(* change below it, the task's address space only fills, pages with zeros  *)
(* and zeros with the bytes of the file, and nothing in place is disturbed.*)
THEOREM BootFillsAddressSpace ==
  ASSUME \A im \in Loadable : OwnTables(im) /\ Linked(im)
  PROVE  Spec => ImplementsAddressSpace
<1>1. \A im \in Loadable : OwnRegions(im)
  BY DEF OwnTables, OwnRegions, RegionsOf
<1>2. Init => Space!Init
  <2> SUFFICES ASSUME Init, NEW addr \in Addresses
               PROVE  Found(addr) = Absent
    BY DEF Space!Init
  <2>1. PageOf(addr) \in Pages
    BY PageOfAddress
  <2> QED BY <2>1 DEF Init, NoDir, vmm_create_tables, Unmapped, Found
<1>3. SpaceInv /\ SpaceInv' /\ [Next]_vars => Space!Next
  <2> SUFFICES ASSUME SpaceInv, SpaceInv', [Next]_vars
               PROVE  Space!Next
    OBVIOUS
  <2>1. ASSUME NEW addr \in Addresses
        PROVE  Space!Fill(addr)
    BY FillStep DEF Space!Fill
  <2>2. [a \in Addresses |-> InFile(a)]' = [a \in Addresses |-> InFile(a)]
    BY FillStep
  <2> QED BY <2>1, <2>2 DEF Space!Next
<1>4. Spec => []AllInv
  BY AllInvariant
<1>5. Spec => []ReachInv
  <2>1. \A im \in Loadable : AboveKernel(im)
    BY <1>1 DEF OwnRegions, RegionsOf, AboveKernel
  <2>2. Init => IInv /\ ReachInv
    BY <1>1, <2>1, InitInv, ReachInit
  <2> QED BY <2>2, NextInv, ReachNext, PTL DEF Spec
<1>6. AllInv /\ ReachInv => SpaceInv
  BY DEF SpaceInv
<1> QED BY <1>2, <1>3, <1>4, <1>5, <1>6, PTL DEF Spec, ImplementsAddressSpace, Space!Spec
==============================================================================
