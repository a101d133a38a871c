# A TLA+ model of AOSKernel

AOSKernel is a small x86 teaching kernel (15-410 style): it boots, sets up
interrupts, paging and one task, loads an executable and runs it in user mode.
This directory holds TLA+ modules that model its parts, TLC configurations
that check them on small instances, and proofs, checked by TLAPS, of the
properties of all that keep state for every size.

Run, in this directory:

    tlc -config MCFrameAlloc.cfg MCFrameAlloc      # and likewise for each .cfg
    tlapm FrameAlloc_proofs.tla

`PROJECT.json` lists the runs, maps every modelling definition to the lines it
stands for, and lists the hazards of the code with the properties that cover
them. Operators named `Mutant...` are not part of any specification: each is a
plausible bug in the definition next to it, and records that the property it is
paired with in `PROJECT.json` does fail when that bug is made.

## 1. Inventory

All of it runs on one processor. There is one task with one thread, and the
only concurrency is that of interrupts with what they interrupt.

| Component | Source | State | Operations | Interacts with |
|---|---|---|---|---|
| Frame allocator | `kern/vmm_page.c`, `malloc_wrappers.c` | `page_count`, `highmem_page_count`, the two ends of the pool | `vmm_ppf(s)_alloc`, `vmm_ppfs_highmem_alloc`, `vmm_pt_alloc`, `malloc`; the frees are empty | called by paging, stacks, loader |
| Paging structures | `kern/vmm_page.c` | page directories and page tables, `cr3` | `vmm_create_tables`, `vmm_map_page(s)`, `vmm_get_mapping`, `vmm_page_init` | takes frames; read by the processor |
| Task VM and loader | `kern/vmm.c`, `vm_area.c`, `task.c`, `loader.c` | the task's directory, stack pointers, the contents of its pages | `task_create`, `thread_create`, `task_load`, `vm_area_create/load/zero`, `thread_switch` | paging, frames, the executable's table of contents |
| Scheduler | `kern/sched.c` | `current_thread` | set, get, yield; `sched_save_state` has no caller | `thread_switch`, `sys_gettid` |
| Keyboard | `kern/keyboard.c` | the circular scancode buffer | interrupt handler adds, `readchar` removes | interrupt and foreground share the buffer without a lock |
| Timer | `kern/timer.c`, `kernel_timer.c` | `numTicks`, the callback | handler | interrupt controller |
| Interrupt entry | `kern/handler_install.c`, `*_wrapper.S` | IDT, interrupt flag, the stack of interrupted contexts | install, enter, save and restore, acknowledge, return, `do_task_switch` | all of the above |
| Console | `kern/console.c` | software cursor, colour, display memory, cursor register | `putbyte(s)`, `draw_char`, `set_cursor`, ... | called from the boot's main line |
| Exceptions | `kern/kernel_exceptions.c`, `exception_wrappers.*` | none | log and return | IDT, whatever raised them |
| System calls | `kern/gettid_wrapper.S`, `kernel.c` | none | `gettid` | scheduler, user library |
| User library | `user/libsyscall` | the program's stack and registers | twelve stubs, one wrapper with a table of traps | system calls |
| Variable queue | `vq_challenge/` | - | macros with empty bodies | - |

What is hard here, and what correctness means for each part:

* **Frames.** Two counters consume one pool from its two ends and nothing
  compares them; nothing is ever given back. Correct: no frame belongs to two
  holders, a frame is zero when it is handed out and only then cleared.
* **Paging.** The flags of a directory entry are shared by the 1024 pages
  below it, and `vmm_map_page` replaces them. Correct: once the task runs, the
  two levels together grant what each page needs and no more.
* **Loading.** Segments begin and end inside pages and share pages; loops
  track an offset, a page and a total. Correct: what the task sees is the file,
  followed by zeros, even for a file that is cut short.
* **Keyboard buffer.** An interrupt may come between any two instructions of
  `readchar`. Correct: a bounded queue.
* **Interrupts.** The gates are trap gates, which leave interrupts enabled, so
  handlers nest; only the interrupt controller keeps a handler from being
  entered half way, and the acknowledgement names no interrupt. Correct: never
  two unacknowledged activations, registers kept, ticks in order, no byte of
  the keyboard read twice or forgotten.
* **Entry and exit.** Wrappers, the library and `do_task_switch` move words
  between registers and three stacks by hand, with interrupts enabled; what a
  gate admits and what `iret` pops depends on words pushed long before.
  Correct: whatever was interrupted goes on as it was, a library call returns
  with the program's registers intact and the kernel's answer, and its argument
  reaches the kernel.
* **Console.** Boundaries (last column, last row), and two copies of the
  cursor. Correct: it behaves as a page of text.

The complete list, with lines, is under `hazards` in `PROJECT.json`.

## 2. The modules

| Module | What it is |
|---|---|
| `PhysicalFrames` | abstract: what a frame allocator promises |
| `FrameAlloc` | the two-ended allocator; implements `PhysicalFrames` |
| `FrameAlloc_proofs` | inductive invariant, safety, refinement |
| `ScancodeQueue` | abstract: a bounded first-in first-out queue |
| `ScancodeBuffer` | the circular buffer, interrupt and `readchar`; implements `ScancodeQueue` |
| `ScancodeBuffer_proofs` | type correctness, absence of stale reads, refinement |
| `Interrupts` | nested handlers; instantiates `ScancodeBuffer` for the foreground and implements `ScancodeQueue` again |
| `Interrupts_proofs` | handlers acknowledge their own interrupt, bytes and ticks are accounted for, the buffer is a queue, at every depth |
| `Paging` | page directories as values, with the operators of `vmm_page.c` |
| `Paging_proofs` | the closed form of `vmm_map_pages` is the loop of the code |
| `TaskVM` | from `vmm_kernel_init` to user mode; uses `Paging`; implements `AddressSpace` |
| `AddressSpace` | abstract: an address space that is filled and never disturbed |
| `TaskVM_proofs` | frames stay unshared, the kernel stays reachable, effective permissions, room around the stacks |
| `Loader_proofs` | extends it: type correctness, the executable is loaded, the refinement of `AddressSpace` |
| `UserLib` | the stubs of the user library and `syscall_wrapper.S` as code, and the layout of its table |
| `KernelEntry` | the processor running the wrappers, the library and a program; implements `SystemCalls` |
| `KernelEntry_proofs` | contexts resume, user mode, arguments, types, the refinement of `SystemCalls`, at every depth |
| `SystemCalls` | abstract: what a program in user mode sees of the kernel |
| `Terminal` | abstract: a page of text with a cursor |
| `Console` | the console driver; implements `Terminal` |
| `Console_proofs` | the cursor and the writes stay on the screen, the refinement |
| `MC*` | values of the constants for TLC |

### FrameAlloc

One action per allocator call. An address is a frame number;
`highmem_ppf_start`, in the code the last byte of memory, is the frame behind
it. A call for n frames is one step, since only the kernel's main line
allocates. `grants`, `live` and `dirty` are history: the runs handed out, those
nobody freed, and the frames whose content is not all zero. Memory starts with
any content. `vmm_ppf_free` and `free` change no variable of the code.
`malloc(0)` asks for 2^20 pages, as the unsigned wrap in the code does
(`MallocPages`).

### ScancodeBuffer and Interrupts

`ScancodeBuffer` lets the interrupt come between any two accesses of `readchar`
to the buffer: the test for empty, the load of the scancode, the store of
`scancode_buffer_begin`. The interrupt is one step. `Interrupts` justifies that:
there every handler is a sequence of steps (`pusha`, the statements of the C
function, the acknowledgement, `popa`, `iret`), handlers are on a stack, and the
controller delivers a request whenever its rules allow it. `OneInService` says
that `keyb_add_scancode` never runs twice at a time, and the foreground never
runs while a handler is open. The register `eax` carries the value each context
works on; all contexts share it and `pusha`/`popa` keep it.

External, and modelled from how the code uses them: the interrupt controller
(fixed priority, fully nested, `INT_ACK_CURRENT` ends the service of the highest
priority in service), the timer, the keyboard controller (one byte, the next one
only after the last was read), and `process_scancode`, which may answer
anything. A request made before `enable_interrupts` stays pending; what
`interrupt_setup` does to such a request is outside the repository.

### Paging and TaskVM

A directory is a record of the flags of its entries and the page table entries
of all pages. Which frame holds which page table never changes after
`vmm_create_tables`, so it is not recorded; that these frames are not handed
out again is `FrameAlloc`'s business, and that no user page maps them is part of
`FramesUnshared`. `vmm_map_pages` is written in closed form.

`TaskVM` follows `kernel_main`: `vmm_page_init`, `task_create`,
`thread_create`, then `task_load`, where each iteration of the loops in
`vm_area.c` is a step on memory modelled byte by byte (byte k of the file is the
number k + 1). `task_load` ignores the result of every load, and so does the
model. The user frames come from the counters of `FrameAlloc`.

Images are taken as a linker lays them out (text, rodata, data and bss in
ascending order, below the stacks), on a machine with memory for them
(`FitsMemory`). A segment of size 0 that starts on a page boundary makes
`vm_area_create` loop over the whole address space; no machine fits that, so
such images are left out, as are executables that do not exist.

The kernel stack is mapped with user permissions (`vmm.c:76`). That is what the
model says too; `EffectivePermissions` does not speak of these pages.

What the task finds at an address is `Found`: nothing while the page is not
mapped above the kernel, else the byte of the frame. `ImplementsAddressSpace`
says that this map is only ever filled, 0 first and then the byte of the file,
while directories and frames change below it: no step of the boot moves,
clears or overwrites a byte that is in place.

### UserLib, KernelEntry and SystemCalls

`UserLib` and the first part of `KernelEntry` are the assembler sources, an
instruction a tuple with its operands in source order (`movl $n` is `set`, a
`movl` with base and index `load`, `cmpl` with `jz` together `jeq`, the eight
instructions that compute a table entry `lookup`). The second part is the
processor: one action per kind of instruction, `Enter` for the delivery through
a gate, `iret`. A word is a pair of a kind and a number, so that an argument
taken for a selector or an address shows; a stack is the sequence of its words
and an address in it the number of words up to there. C functions are one step
that overwrites `eax`, `ecx`, `edx`. `trail` is history, the interrupted
contexts, and `call` the library call in progress with the program's registers
at its start. It begins where `thread_switch` calls `do_task_switch`.

The program calls any stub and raises any exception of `Faults`. An interrupt
may come between any two instructions. Which one the controller lets through is
the subject of `Interrupts`, so here either may come, and `MaxDepth` bounds how
many are active.

The table of `syscall_wrapper.S` is laid out as an assembler lays it out: a jump
of more than 127 bytes takes five bytes, a shorter one two (`LongEntries`,
computed from the sizes of the instructions between the table and
`syscall_wrapper_end`). Only the size of an entry matters to the properties.

External, and modelled from how the code uses it: the processor; the flags in
`idt_gate_desc_t` (an interrupt gate masks interrupts, only the system call's
gate may be used from user mode); the interrupt numbers; the vectors with an
error code; that `int3` and `into` need the gate's permission as `int` does and
end in a general protection fault (`Delivered`). Two facts about the processor decide what happens after an
exception with an error code: the wrapper's `iret` takes the error code for the
return address and the return address for a code selector; that its low sixteen
bits are the selector of a code segment is left out, so it is a general
protection fault, which has an error code itself. The faults go deeper until the
kernel stack, of `KernelWords` words, is full, and the page below it is not
mapped: neither the page fault nor the double fault can be delivered and the
machine resets (`down`).

### Console and Terminal

A call is a step. Display memory is a function from cell numbers to character
and colour, with a further row behind the screen to see writes that leave it.
The C library's `memcpy` is external: `cons_scroll` calls it with overlapping
ranges, which the C standard leaves undefined; the model takes it to copy
upwards. `Terminal` states what the comments of `inc/kernel.h` promise, with
rows as sequences and no memory, and `ImplementsTerminal` maps `fb`, the cursor
variables and the cursor register to it.

## 3. The runs

| Run | States | Bounds | Shows |
|---|---|---|---|
| `frames` | 74,944 | 8 frames of 4 bytes, requests of 0-2 frames and of 0, 1, 5, 8 bytes | types, no double grant, pool, holders' data, refinement |
| `frames_short` | - | the same with less memory than demand | violation: the low allocator returns a frame that is held |
| `keyboard` | 4,983 | buffer of 4, scancodes on both sides of 127 | no stale removal, refinement, progress |
| `keyboard_readchar_doc` | - | same | violation of a comment |
| `interrupts` | 538,356 | buffer of 2, one scancode, ticks modulo 3, 3 nested handlers | entries ready, one in service, bytes owed, ticks in order, refinement, every byte read |
| `task_vm` | 7,741 | 32 pages of 4 bytes, 4 entries per table, about 400 images | aliasing, contents, permissions, stacks, kernel mapped in both directories, user mode reached, refinement |
| `entry` | 31,170 | eleven stubs (all but `ls`), exceptions 0, 3 and 14, 40 words of kernel stack, 2 active interrupts | contexts resume, arguments, segments, refinement, calls return, error codes end the machine |
| `syscall_table` | - | all twelve stubs, 1 active interrupt | violation: the table address computed for `ls` is not an entry's |
| `vm_area_zero_bounds` | - | same | violation: clears behind the area |
| `console` | 17,498 | 3 rows of 2 columns, one printable character besides space, 2 colours | cursor register, no write off screen, refinement |
| `console_draw_char_doc`, `console_putbytes_null_doc` | - | same | violations of two comments |

Why these bounds suffice. *Frames*: three or four runs of different sizes from
both ends are enough for any two runs to meet. *Keyboard*: a buffer of four
wraps, fills and empties. *Interrupts*: two interrupts in service at once are the
most the controller allows, and a third level shows a handler entered again after
its acknowledgement; a buffer of two is full after one scancode, so every second
byte is dropped; three tick values tell a repeated and a skipped number from the
next one. *TaskVM*: a segment may end before, at or behind a page's end, share its
last page with the next one or not, span up to three pages, and cross a page
table's boundary; the file may end in any segment. *Entry*: stubs with none, one
and more arguments, implemented and not; a vector without and one with an error
code, which are all the wrapper distinguishes, and `int3`, which the gate does
not admit from user mode; two interrupts are one inside the
other, at every instruction of every wrapper; forty words hold a system call with
two interrupts and leave room for several rounds of the faults that fill the
stack. *Console*: three rows tell the
first, a middle and the last one apart, two columns the first and the last.

`frames`, `entry` and `syscall_table` do not check for deadlock: the first system
really stops when the demand is used up and nothing is live, the others when the
machine has reset.

### Fairness

* `keyboard`: weak fairness of `readchar` - a caller that polls for ever. No
  code in the kernel calls `readchar` at present; the property is about whoever
  does. Nothing is assumed of the interrupt.
* `interrupts`: `HandlersAreShort` says that again and again no handler is
  active and no tick is due. A handler takes microseconds and the timer expires
  every ten milliseconds. With it, weak fairness of the boot and strong
  fairness of the delivery of the keyboard's request, which the controller
  makes as soon as nothing of higher priority is due or in service.
* `task_vm`: weak fairness of the boot's only thread of control.
* `entry`: weak fairness of the processor executing its next instruction (the
  program need not call or raise anything), and again `HandlersAreShort`, with
  strong fairness of an instruction while no interrupt is active: between two
  interrupts, what they interrupted gets on.

### Findings

Six runs end in a violation, each of something the repository says:

* the low allocator's "first available page" (`vmm_page.c:52`) may be one the
  high allocator has handed out before, when memory is short;
* `readchar` returns -1 although the buffer was not empty when it was called
  (`inc/kernel.h:36`): the scancode it took carries no character;
* `vm_area_zero` never advances its total and clears behind the area's end;
* the "fake entries, to ensure table addressing works"
  (`user/libsyscall/syscall_wrapper.S:88`) do not: entries near the end of the
  table are shorter than the first one, whose size the code multiplies with, and
  `ls` returns without having trapped;
* `draw_char` and `putbytes` do not check what `inc/kernel.h:158` and `:76` say
  they check. For `putbytes` the bytes at address 0 are ones that no caller
  prints, so that a call with NULL is told from every other.

A disagreement too small for a run of its own: the comment on who writes
`begin` and `end` (`keyboard.c:10`) has them swapped; its conclusion, that no
protection is needed, is what the run `keyboard` checks.

What `FaultShutsDown` states is no disagreement, for nothing in the repository
says what an exception is to do: a page fault of the program, the commonest
exception there is, resets the machine instead of being reported once.

## 4. What is proved

All theorems are about every value of the constants that satisfies the named
assumptions of the module.

**FrameAlloc_proofs**, under `Room` (`UserMemStart + Demand <= NumPPF`: the
machine has the memory the calls ask for, which nothing in the code checks; the
run `frames_short` shows that without it the two ends meet and `NoDoubleGrant`
fails).
`NoDoubleGrant` is not inductive: it says nothing of the counters. The invariant
adds that every run handed out lies either below `UserMemStart + page_count` or
at or above `NumPPF - highmem_page_count + 1`, and that what was handed out never
exceeds `Demand`, so the two parts cannot meet. From it follow `NeverGrantedTwice`,
`AlwaysInPool`, `HoldersSafe` (an action property) and `Refinement`
(`FrameAlloc` implements `PhysicalFrames`).

**ScancodeBuffer_proofs**, for every buffer size above 1. The invariant says
that the indices are slots, and that while `readchar` is between its test and
its update the buffer is not empty and the code it loaded is in the slot at
`begin`. It holds although the interrupt runs in between because the interrupt
writes only the slot at `end` and only while that leaves `begin` alone. From it
follow `TypeCorrect`, `NeverStale` and `Refinement` (`ScancodeBuffer` implements
`ScancodeQueue`), the latter with lemmas on how `Contents` changes when an
index advances around the end of the array.

**Paging_proofs**, for every size of page tables and directories. `Paging`
writes `vmm_map_pages` in closed form (the pages at a distance below `n` from the
first get the frames at the same distance), because a loop written as recursion
would keep the modules that use it away from the provers. `MapNoPages` and
`MapPagesStep` show that this is the loop: nothing changes for no pages, and
`n + 1` pages are `n` pages followed by one `vmm_map_page`, modulo the address
space. The heart of it is that exactly one page is at each distance from the
first (`AtDistance`). `MapPagesStep` assumes non-empty flags, which every caller
passes: `Paging` keeps only the flags of a directory entry and stands for the
entry 0 with no flags, so it could not tell an entry mapped with the flags 0, which
in the code keeps its frame, from a missing one. `MapPageLocal` bounds what one
call changes. `DirectoriesClosed` shows that what `vmm_create_tables` returns,
and what the other two make of it, is a directory in the sense the theorems
assume.

**Interrupts_proofs**, for every depth of nesting, buffer size and tick
modulus. None of the properties is inductive: that a handler acknowledges its
own interrupt depends on the acknowledgement, which names none, ending the right
service. The invariant `IInv` says why it does: an activation is open until it
has acknowledged, open activations have higher and higher priorities from the
outermost to the innermost (`Nesting`), and what is in service is what they
serve (`InService`); the innermost open activation therefore has the smallest
number in service. `Owed` says that an unread byte is known to the controller or
to a handler, and not to both. From `IInv` follow `AcknowledgesItsOwn`
(`OneInService`), `ByteIsOwed` and `EntriesAreReady`. `TickInvariant` adds that
an open timer handler is always the innermost, so that the register it counts in
is its own, and yields `TicksAreInOrder`, an action property.

`Refinement` (`Interrupts` implements `ScancodeQueue`) rests on a layer more,
`BufferInv`. One register serves `readchar` and all handlers, so what matters is
what each context will find in it once the handlers above it have returned:
`Finds` says that, from the register and the words the handlers have saved, and
that no step of a handler changes what the contexts below find (`Restores`) is
proved action by action. `Kept` then says that `readchar` will find the code it
loaded and a keyboard handler the byte it read, and `Tested` that what either has
tested about the buffer still holds. The lemmas on the circular buffer are those of
`ScancodeBuffer_proofs`, through an instance of that module. `TypeCorrect` adds the
types of what is left (`TypeInv`).

**TaskVM_proofs, Loader_proofs**, for every size of pages, tables, memory and stacks, and every executable the machine has
memory for (`FitsMemory`). Nothing in the code checks how an executable lies in
memory, so the theorems state what they need of it:

| Hypothesis | Says of an executable | Theorems |
|---|---|---|
| `AboveKernel` | no segment in the kernel's part of memory | `FramesStayUnshared`, `BootTypeCorrect` |
| `OwnRegions` | no page table shared with the kernel's part or its stack | `KernelStaysReachable` |
| `OwnTables` | no page table shared with either stack or the kernel's part | `PermissionsHold` |
| `StackBuffers` | no segment on the page below a stack, besides `OwnTables` | `StacksStaySeparated` |
| `Linked` | text, rodata, data, bss in this order, not around the end of the address space, besides `OwnTables` | `ImageIsLoaded`, `BootFillsAddressSpace` |

User programs are linked at 16 MB (`-Ttext 1000000`, `Makefile.apk:157`), which is
`USER_MEM_START` and a multiple of the 4 MB one page table maps, and the stacks are
at the top of physical memory: an executable that ends 4 MB below them satisfies
them all. TLC found that the 402 images of the run `task_vm` that fit do.
`AboveKernel` also excludes the area of all 2^20 pages that
`vm_area_create` makes of an empty segment on a page boundary.

None of the properties is inductive. One invariant is built in layers:

* `IInv` (`TaskVM_proofs`) classifies the frame of every mapped page: the
  kernel's own, the kernel stack's, or one taken from the bottom of the pool after
  the page tables (`PlacedInv`). `CountInv` bounds `page_count` by the page tables,
  the user stack and one frame for each page of the executable mapped so far. It
  is this count, and `FitsMemory`, that keep the two ends of the pool apart:
  `vm_area_create` takes no frame for a page another segment has mapped.
* `ReachInv` (`TaskVM_proofs`): the loader's mappings, which replace the flags of whole
  directory entries, are below other entries than the kernel's.
* `PermInv` (`TaskVM_proofs`) says how far each segment has got and what its
  entries hold meanwhile. Data is mapped last, so that its flags are the ones that
  stay on a page, or in a directory entry, it shares with code; it is this
  order that `SegmentFlags` rests on.
* `TInv` (`Loader_proofs`): an iteration is one of the pages of its range, so offsets and
  frames stay inside the machine.
* `CInv` (`Loader_proofs`): every byte in the task's reach is the file's if the loops
  have come by it and 0 otherwise (`ContentInv`), and the number of bytes loaded
  agrees with the iteration and the offset (`PlaceInv`). `vm_area_zero` clears beyond
  its area (the run `vm_area_zero_bounds`); this does no harm only because bss is
  last and what lies behind it is still zero.

`BootFillsAddressSpace` takes these together: a step that maps a page makes its
bytes go from absent to 0, one of `vm_area_load` makes zeros into bytes of the
file, and all others leave `Found` alone.

**Console_proofs**, for every size of the screen that the unsigned short of the
cursor's offset can count (`CONSOLE_HEIGHT * CONSOLE_WIDTH < 65536`), every
character set and every string. `TypeOK` and `CursorShown` are inductive together
(`Invariant`); they hold even for callers of `draw_char` that name a row the screen
does not have. The other two theorems assume that no caller does
(`DrawRows \subseteq 0 .. CONSOLE_HEIGHT - 1`; the run `console_draw_char_doc` shows
that the code does not check): `WritesStayOnScreen`, an action property, and
`Refinement` (`Console` implements `Terminal`). `PutbyteAbs` is the heart of it:
one character does to memory, row and column what it does to the page, a scroll of
the flat memory being `Append(Tail(page), EmptyRow)`. For strings both sides recur:
`putbytes` is a fold, a recursive function on the sets of positions of the string,
and `Terminal`'s `TypeAll` a recursive function on strings. That they exist at all,
and agree, needs induction. The library's induction theorems take an operator as
a parameter, which the installed provers cannot instantiate; `Induction` states
the principle for a set of numbers instead, and is proved from the pigeonhole
theorem of `FiniteSetTheorems`. `FoldSteps` turns the fold into the texts it goes
through, one for each character, and `TypeAllAbs` shows that their abstractions
satisfy the recursive equation of `TypeAll`, which has only one solution.

**KernelEntry_proofs**, for every program (any of the library's functions, any
exceptions), every size of the kernel stack and every depth of nested
interrupts; the only assumption is the module's own, `KernelEntryAssumption`. The
properties speak of the moment a handler returns or a call arrives, which is
what tens of instructions have prepared, so none is inductive. The invariant `IInv`
describes the machine as a pile of contexts (`Shape`): at the bottom
`do_task_switch`, or the program and the library function it is in (`BootAt`,
`UserAt`), above it one handler for each entry of `trail`. Of every handler it says
that what lies under its words on the stack is the interrupted context, word for
word (`Frame`), and states the discipline of its code at its instruction
(`Active`): how many words it has pushed, that they are the registers as they
were when it was entered, and which registers still hold what they held. That is
three small tables, `Order`, `Depth` and `Same`, over the assembler sources. A step
moves the topmost context only, so it is an instruction of one piece of code, a frame
put on top or the topmost one taken away, and the lemmas follow this: the discipline
under a push, a pop or a write (`ActivePush`, `ActivePop`, `ActiveSet`), each piece of
code against its tables, then entering (`EnterStep`) and returning (`ReturnUser`,
`ReturnKernel`). An exception with an error code never returns; its wrapper's `iret`
faults (`ErrorIret`). The layout of the call table is a fold over the sizes of its
entries, computed by `FoldSteps` as in `Console_proofs`, and `TableIs` gives the offset
of each. From `IInv` follow `ResumesHolds`, an action property, `UserModeHolds`,
`ArgumentsHold` and `TypeCorrect`.

`Refinement` (`KernelEntry` implements `SystemCalls`) needs more: that `eax` holds the
answer when the function of the library returns, and that the machine does not stop
meanwhile. `AInv` adds the first as `Answer`, about the bottom context: the call
that is implemented enters the table at its own entry, traps there once, and has its
result from then on. For the second, `Calm` says that as long as the program is in
such a call, or not yet started, there are only interrupts above it or above its
system call. `Heights` bounds the kernel stack under them: a handler of an interrupt
needs a frame of three words (five, out of user mode) and eight for its registers, the
system call five and four. So the theorem supposes `KernelWords >= 11 * MaxDepth + 9`;
TLC finds that with two nested interrupts 31 words do and 30 do not. The stack of the
code has 16384 (`kernel.c:54`), enough for 1488. Nothing of the kind is
supposed of exceptions and of calls that do not exist, which may fill any stack. `Steps`
then sorts the steps into six kinds, and `PromiseStep` takes each to a step of
`SystemCalls` or to one that is not seen.

Only model-checked: everything about liveness (`OldestTaken`, `KeyRead`,
`UserReached`, `CallReturns`, `FaultShutsDown`), which is out of the proof system's reach, as is
`ENABLED`; and that the properties of the runs that end in a violation fail.

## 5. What is not modelled

* Code that is never run: `sched_save_state`; `set_user_ds` and its kind in
  `inc/kernel_asm.h`, whose calls are commented out; `kern/gettid.c`,
  `kern/syscall_wrapper.S` and `task_idle.c`; `user/libsyscall/syscall.c`, a second
  set of stubs that `config.mk` does not list; the empty `malloc` of
  `user/libthread`; `test_console`, a fixed sequence of console calls.
* The variable queue: the macros of `vq_challenge/variable_queue.h` are empty.
* A second task or thread: there is no path that creates one or switches back.
* An executable that is not there: `task_load` then works on an uninitialised
  header, and any behaviour is possible.
* Output to the simulator's log; the memory below 16 MB the C library's own
  allocator manages; a request the controller loses before `interrupt_setup`.

## 6. Plan

Done: the modules above, with every safety invariant, every action property and every
refinement that a passing run checks proved. What remains worth doing:

* The order of all of `kernel_main`'s calls with interrupts arriving between them,
  on one directory and one stack: `TaskVM` has the order and no interrupts,
  `Interrupts` the interrupts of the boot and no memory.
