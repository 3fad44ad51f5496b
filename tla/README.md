# Eclipse OS in TLA+

A model of the Eclipse OS kernel (i386, one CPU) and of the allocator of its C
library: the boot of its memory and its initrd, the frame allocator, the address
spaces, the process table with its descriptors, the scheduler, the keyboard, the
terminal with the kernel debugger on it, and `malloc`. Every module is translated
from the sources under `kernel/arch/i386/` and `libc/`; `PROJECT.json` maps each
definition to the lines it models.

## The system

One kernel, booted by GRUB, runs programs from an initrd in user mode. There is
one CPU and no locking: what protects kernel data is the interrupt flag.

* Interrupts and system calls enter through interrupt gates, so IF is clear and
  the handler is atomic, unless it switches tasks. `switch_task` resumes every
  task with IF *set*. A handler that has yielded once therefore runs preemptibly
  from there to its `iret`. This is the source of the kernel's hard behaviours.
* The timer interrupt calls `yield` when the quantum is over.

| component | state | operations | meets the others through |
|---|---|---|---|
| physical memory (`pmm.c`) | frame bitmap, search hint | reservation over the memory map at boot, alloc, free | called by paging, fork, exec, sbrk, heap |
| address spaces (`paging.c`, `elf.c`, sbrk) | directories, tables, break | map, unmap, new, switch, free; load; sbrk; checks of user pointers | fork, exec, exit; cr3 in saved contexts |
| process table (`process.c`) | slots: state, pid, ppid, exit code, stack | create, fork, exec, exit, wait | scheduler ring, descriptors, directories |
| open files (`process.c`, `syscall.c`, `vfs.c`, `initrd.c`) | node, offset, refcount; descriptors | open, close, read; shared by fork, dropped by exit | process table |
| scheduler (`task.c`, `task_switch.S`, `fork_asm.S`, `timer.c`, `irq.c`, `tss.c`) | ring, running task, saved contexts, TSS | tick, yield, switch, add, remove | kernel stacks, trap frames, cr3 |
| kernel heap (`kheap.c`) | next free address | kmalloc, no free | one kernel stack per fork |
| keyboard (`keyboard.c`) | ring buffer, modifiers, prefix | key interrupt, read | interrupt handler against reader; enters the debugger |
| terminal, debugger (`tty.c`, `kdb.c`) | cells, cursor, anchor, line, history | print, edit, recall, clear | polls the keyboard itself |
| initrd (`initrd.c`, `vfs.c`) | file nodes and where their bytes lie | read the archive at boot, find, read | memory the loader filled, which the frame allocator must leave alone |
| libc (`malloc.c`, `stdio.c`, `printf.c`, strings) | free list, buffers | malloc, free, stdio | sbrk, write |
| boot (`kernel.c`), descriptor tables, PIC, serial | constant tables | once at boot, in a fixed order | |

What makes them correct: memory is never handed out twice or lost; each process
has private memory; every exit is reported to one wait, with the right code, and
every process has a live parent; an open file lives exactly as long as its
descriptors; a task is resumed only with its own context, stack and directory, and
is resumed again and again; what the loader left in memory survives; a key typed
is read once and in order. What makes that hard: preemption inside `wait` and
inside `yield`, interrupts between two steps of a reader, memory maps that do not
fit 32 bits, allocation failures in the middle of fork, exec and sbrk, reuse of
slots, frames and open files, and a TSS that is set lazily. The list of hazards in
`PROJECT.json` gives the line of each.

## Modules

| module | models |
|---|---|
| `FramePool` | abstract: what the frame allocator promises |
| `Boot` | pure: what `pmm_initialize` and `initrd_initialize` make of a machine |
| `Pmm` | the bitmap and the hint of `pmm.c`, from what boot left; implements `FramePool` |
| `Startup`, `MCStartup` | composes `Pmm` with the reading of the initrd in `kernel_main` |
| `UserMemory` | abstract: private memory for each process |
| `Vm`, `MCVm` | directories, tables, and the memory work of boot, fork, exec, exit and sbrk, and the checks of user pointers; implements `UserMemory` |
| `Proc`, `MCProc` | process table, wait, descriptors and open files |
| `Sched` | ring, contexts, TSS, kernel stacks, loaded directory |
| `KeyQueue` | abstract: the characters typed, first in first out |
| `Keyboard`, `MCKeyboard` | the interrupt handler, the ring buffer and `keyboard_getchar`; implements `KeyQueue` |
| `Console`, `MCConsole` | the terminal, and the line editor and history of the debugger |
| `Heap` | abstract: disjoint blocks of the size asked for |
| `Malloc`, `MCMalloc` | the block list of libc's allocator; implements `Heap` |
| `NatMin`, `StartupProofs`, `ProcProofs`, `SchedProofs`, `KeyboardProofs`, `VmProofs`, `ConsoleProofs`, `MallocProofs` | lemmas, theorems and their proofs |

Apart from `Startup`, which extends `Pmm`, the modules share no variables. They
cut the same system calls along what each property needs, and meet in named
assumptions: `Vm` takes the lowest free frame because `Pmm` is shown to hand it
out; `Proc` leaves open which process steps next, which `Sched` decides; `Sched`
lets any zombie be reaped, which is more than `Proc` allows, so what it shows
holds for the children that `Proc` selects.

**Boot, Pmm, Startup.** A machine is a record of the memory map and the modules
that a loader reports, with the archive in the first module. `Boot` computes from
it, in the arithmetic of the source (addresses of the map have 64 bits, `Cut`
takes them to 32), the frames that each pass of `pmm_initialize` clears and sets.
The bitmap is filled between pass 1 and the others, behind the kernel, wherever
the loader has put its data. So a machine also says where those lie (`info`,
`map`, `mods_addr`) and what passes 2 and 3 then read (`seen`): what was loaded if
the kernel's writes miss all of it (`Intact`), and anything otherwise. The writes
are the bitmap and, since `frame_set` and `frame_clear` test no index, the bytes
of the bits past its end (`Overwritten`). Not modelled is a walk over an
overwritten map that never ends. Headers of the archive are found by address:
where `initrd_initialize` looks is decided by its own rounding, where a header
lies by the format. `Pmm` starts from the bitmap that boot leaves, on any machine;
`bitmap` is the set of frames whose bit is set, `last_alloc` the hint. The two
loops of `pmm_alloc_frame` are `FirstFit`: the lowest clear bit from the hint up,
else the lowest below it. `held` records what callers have; they free only what
they hold, which `Vm` shows for the kernel's callers. `Startup` puts the initrd
between the allocations of paging and heap and those of everything later.
`init_initrd` runs after paging has been set up: reading struct multiboot_info,
the first descriptor or the archive outside of the identity map is a page fault,
in which the kernel stops (`phase = "fault"`). Where it reads something that has
been overwritten, or that is in a frame the pool may have handed out (nothing
reserves struct multiboot_info), anything can follow (`phase = "lost"`): no
property is claimed of what it finds.

**Proc.** A system call is one step, except that `process_wait` after its first
yield takes one step for each slot it visits and one for each of the two stores
that reclaim a zombie, in the order of the source. `due` is a history variable:
the exits that no wait has reported, each with the process that is owed the
report, which is the parent, or process 0 once the parent has exited. The two
out-of-memory exits of fork are nondeterministic here (`fork_no_memory`); `Vm` has
the memory behind them.

**Vm.** A call is a sequence of steps, one for each page, since any of its
allocations may be the one that fails; `op` says which call is under way. A frame
that is a directory or a table is its `ENTRIES` entries. Entry 0 of every
directory is the kernel's identity map; its frames are the reserved ones. Calls
that fail before they change any of this state (no slot, a break out of range, no
frame for the directory) are not steps. In the last case `paging_new_directory`,
which does not look at the frame it got, has by then mapped frame 0 in its scratch
slot and written a directory into it (and, in the very first such call, made it the
table of that slot as well): that frame is reserved, its contents are not kept, and
no program of `Spec` can reach it. The contents of a free frame are not
kept: everyone zeroes or fills a frame, apart from the user stack, whose first
contents are therefore arbitrary. `user_range_ok` and `user_string_ok` are
operators on the tables; addresses wrap at `AddressTop`, and all bytes of a page
have the value that `data` gives the page. That the segments of a program share no
page is an assumption on the programs (`Images` are functions from pages), which
nothing in the repository guarantees: `user.ld` does not align its sections to
pages, and `build-user.sh` does not use it. `elf_load` would map a page of two
segments twice and lose its first frame. After exit a slot can be reused at once;
`Proc` has the zombie in between.

**Sched.** Registers are reduced to whose flow they are, where it resumes, on
which stack and with which directory. `top[k]` is the flow whose trap frame lies
at the top of kernel stack k. `yield` with interrupts off is one step; with
interrupts on (in `process_wait` and `process_exit`) it is two, between which a
tick may come. A wait that has yielded frees a slot in two steps, `wait_free` and
`wait_clear`, with ticks before, between and after them; `reaping` is its local
variable `c` between the two. Fork and exec failures leave the scheduler untouched
and are left out.

**Keyboard.** An interrupt brings one byte. A key with a prefix sends two, and
other steps come between them. `keyboard_getchar` is five steps: call, test, halt,
read, advance. It has no caller in the repository; the model takes a reader that
runs with interrupts on, such as a kernel thread. A system call enters with
interrupts off, and one that called it would reach its `hlt` with IF clear and
never wake up. While the debugger runs (`mode = "kdb"`) interrupts are off and it
takes the bytes. `held`, the modifier keys under a finger, and `wire` belong to
the keyboard, not to the driver; `broke` is a history variable. Characters are
pairs of code and case, since Shift and Caps Lock only choose between two tables.
The bytes 0xFA and 0xFE, replies to the LED command, are ignored by the handler
and left out.

**Console.** The debugger runs with interrupts off and polls the keyboard, so a
step is what the code does between two scancodes. `tty` is the terminal as one
record; the functions of `tty.c` are operators from record to record. What a
command prints is any text of `Outputs`, and a nonempty line is any command. Three
history variables: `above`, the rows that stood above the debugger when it was
entered; `said`, the lines entered; and `left`, the cells that erased tabs have
left on the screen, since a tab is printed as four spaces and erased by one
backspace. `AboveKept` is about the rows above the one the debugger was entered
on: a program's unfinished text on that row, before the debugger's own, is blanked
by `clear`. `LineShown` is exact as long as `left` is 0. Files printed by `cat`
are taken to hold no backspace.

**Malloc.** Addresses count words of four bytes from the start of the heap, and
`list` is the chain of headers. `realloc` of NULL is `malloc`, and of size 0 is
`free`. The program gives back only pointers it holds. It may call `sbrk` itself,
so that two pages of the list need not be neighbours. From `SignLimit` on the
answer of `sys_sbrk` is a negative number, which `sbrk` takes for an error: the
break moves and `malloc` answers NULL. Sizes wrap around at `SizeMax`; a request
near that limit reaches `sys_sbrk` as a negative increment, and `Ordinary`
excludes it.

## Runs

| run | instance | states | shows |
|---|---|---|---|
| `pmm` | 46 machines of 16 frames: five memory maps by eight ways to load modules, and six with the loader's data misplaced | 3e4 | kernel and modules never handed out, pool is usable memory, archive served, exact bitmap, sound hint, lowest frame first, implements `FramePool` |
| `proc` | 4 slots, 4 kernel stacks, one descriptor each besides the console's, one open file | 1e5 | family tree, exits owed, interrupted scans, slot life cycle, wait returns, reference counts exact, free files clean |
| `sched` | 3 slots, 4 kernel stacks | 1e5 | ring, contexts, trap frames, directories, round robin |
| `vm` | 15 frames, 2 processes, 6 user pages in 2 tables | 7e4 | one owner per frame at every step, heaps backed, user pointers checked exactly, implements `UserMemory` |
| `keyboard` | a ring for 2 characters; a letter, Shift, both Ctrl keys, Caps Lock, an arrow | 5e5 | implements `KeyQueue`, a waiting reader gets its key, no modifier sticks after Ctrl+D |
| `malloc` | a heap of 40 words in pages of 16, headers of 3, alignment 2 | 2e5 | no word lost or in two blocks, room as asked, implements `Heap` |
| `console` | screen of 4 rows of 3, lines of up to 2 characters or tabs, 2 history entries | 5e5 | cursor and indices in range, screen and line agree, text above kept, history in order |
| `proc_reap_race` | 4 slots | | violated: a slot reused between the two stores of the reap |
| `sched_window` | 3 slots | | violated: a tick inside `yield` |
| `sched_tss` | 3 slots | | violated: process 0 on another process's kernel stack |
| `vm_oom` | as `vm` | | violated: frame 0 mapped when an unchecked allocation fails |
| `vm_sbrk` | as `vm` | | violated: the break taken down into the identity map |

The last five runs show defects of the code, each against a comment it carries
(`findings` in `PROJECT.json`). So that a defect does not hide the rest, the
passing runs leave out those behaviours: `QuietNext` has no tick between the two
halves of `yield`, lets a flow return to user mode only if the TSS does not point
to another live process's stack, and does not fork into a slot of which a reaper
has stored the state and not yet the stack, since such a child loses its stack and
the TSS would get 0; `Safe` has no unchecked allocation that fails and no break
inside the identity map. `vm` stops at those points, so it does not check for
deadlock. `WindowSpec`, `TssSpec`, `OomSpec` and `SbrkSpec` put one of them back;
`Proc`, which has no TSS, keeps the reap race in all its runs.

*Bounds.* Pmm: maps with a low region that ends inside a page, a hole that is not
usable, a top inside a page, a region up to 4 GiB and one above it; no module, the
flag alone with its table at 0 or elsewhere, one module with its table in low
memory, behind the bitmap and where nothing is mapped, two adjacent ones, one over
which the bitmap falls, one that leaves the identity map; struct multiboot_info
where nothing is mapped and in memory that is handed out; a table under the
bitmap, with four things the kernel may then read; and an archive with a
directory, an empty file, files that fill their last block or not, and more files
than the table holds. `PoolIsRam` speaks of maps that are `Regular` (below 4 GiB,
in whole pages above 1 MiB, no table of modules at 0) and of which the kernel
overwrites nothing before it reads it (`Intact`): on the other maps
`pmm_initialize` does clear frames without memory behind them or writes past its
bitmap. On a regular one it still loses the frame of an empty table of modules,
and the regions that end at 4 GiB. `InitrdServed` speaks of machines that are
`WellLoaded`: `Intact`, the module not under the bitmap and with all of the
archive in it, module, descriptor and struct multiboot_info inside the identity
map, and struct multiboot_info not in a frame of the pool. The kernel tests none
of this. The field of a size has three octal digits (`DIGITS`; 11 in the format),
of which the largest file needs two. `KernelSafe` has no condition for the
kernel's own memory, and needs `Intact` for the modules and their descriptors:
with the table under the bitmap, pass 3 reserves whatever the garbage says.
`Intact` is a little stronger than needed, since it counts every byte the kernel
writes, also one that is written after it was read. The properties of the
allocator have no condition. `pmm` does not check for deadlock, since the kernel
stops in a page fault.

Proc: four slots are enough for a grandchild, an orphan and a sibling at once; the
heap bounds the forks of a run (the kernel heap has no free, so every behaviour of
the code is so bounded), and with more stacks than free slots a slot is reused.
The open file is shared by up to four processes, both tables fill up, and a read
reaches the end of the file. The system may stop: process 0 can wait for ever or
exit. Sched: three tasks are the smallest ring in which removing one leaves a ring
in which order matters, and with four stacks a slot is reused. Vm: memory for one
process and a copy, so that fork, exec and sbrk succeed, fail at their first
allocation, and fail in the middle; pages of two bytes and steps of three, so that
the break is inside a page and on its edge; 17 wraps the address space; a heap
that crosses into a second table; a range over several pages, and one so long that
only a wrapped end looks acceptable. Keyboard: the ring is empty, full and wrapped
at every position; the two Ctrl keys are down together, and a breakpoint comes
between the two bytes of a key. Malloc: two pages with a gap or without one; one
request takes nearly a page, and the others leave rests that are split off and
rests that are too small for it; one array of `calloc` wraps around; `sbrk` first
grants, then grants what looks like an error, then fails. `malloc` does not check
for deadlock: a program that holds nothing in a heap it has used up with `sbrk`
gets NULL for everything. Console: a full line takes more than a row with its
prompt, the debugger is entered on every row with and without text above, and its
own lines scroll; the ring of the history wraps, repeats and is recalled while
full.

*Fairness.* `WaitReturns` assumes weak fairness of the steps of `process_wait`
after its yield: nothing in them blocks, and the ring gives every task the CPU
again. That is `Scheduled`, which in turn assumes the timer keeps ticking (weak
fairness of `tick_user`, `tick_kernel`) and that the CPU finishes a switch or an
`iret` it has begun. `KeyRead` assumes that a reader inside `keyboard_getchar`
goes on while the debugger does not run, and that the timer ticks, at 100 Hz since
boot (`kernel.c`); without the tick a key that comes between the test and the
`hlt` would wait for the next key. No fairness is assumed of programs.

## Proofs

`tlapm` checks the following for every value of the constants.

* `StartupProofs`, the allocator: `TypeOK`, `Exact`, `HintSound`, `LowestFirst`,
  and that `Pmm` implements `FramePool`. The inductive invariant is `TypeOK /\
  Exact /\ HintSound`: that a request fails only when nothing is free, and takes
  the lowest frame, follows from the hint. That frame 0 is reserved, so that 0 can
  mean failure, comes from pass 3 of `pmm_initialize` for every map. A corollary
  for the reader of the code: the wrap-around loop never finds anything.
* `StartupProofs`, the start: `KernelSafe`, for every memory map and any modules,
  and `PoolIsRam`, for every regular one, with the condition `Intact` inside both.
  Each byte of what must be kept lies in a frame that the loops of pass 3 reach
  (`PageInRange`, where the rounding of both ends matters), pass 3 comes last, so
  its bits stay set (`KeptIsSet`), and by `Exact` a reserved frame is never held.
  Start-up implements the specification of `Pmm` (`StartupUsesPmm`), which is what
  lets the theorems about the allocator be used. For the pool both directions are
  needed: pass 2 goes through whole frames of its region and through all of them
  (`ClearedIsRam`, `RamIsCleared`, where the alignment matters), and pass 3 sets
  no frame without a byte to keep (`SetIsKept`). The proof showed one exception
  that the property had not named: when the loader sets the flag for modules and
  has none, the loop over their table still sets one frame.
* `StartupProofs`, the initrd: `InitrdServed`, for every archive, with files of
  any size, in a module that is well loaded (which also keeps the two reads of
  `init_initrd` from faulting and from finding something else). The inductive
  invariant `InitrdInv` says that `ptr` stands at the header of an entry, or after
  the last, and that the files found are those of the entries before it, each at
  its place (`FilesUpTo`). It needs that `octal_to_int` reads back what the format
  writes (`SizeRead`: after `i` digits the loop has the size without its last
  `DIGITS - i` digits, which the cut to 32 bits leaves alone), that the kernel's
  step from header to header is the format's (`StepIs`, `HeadersFollow`), and that
  two headers never lie at one address (`HeadersAscend`), so that the header found
  is the entry expected (`HeaderFound`). That the bytes of a file stay untouched
  is `KernelSafe`.
* `ProcProofs`: `FamilyTree`, `ZombiesDue`, `EchildSound`, `SlotLifecycle`. The
  inductive invariant `PInv` adds to them that slot 0 always runs with pid 0 (so
  that it can adopt), that pids are below `next_pid` (so that a new one is fresh),
  and `ScanSound`: a waiter in the middle of a scan has counted a child or has one
  at or above the slot it is at. The last is why an interrupted scan cannot miss
  every child: a child becomes free only at the hands of its parent, and fork of
  that parent cannot happen during its own wait. `SlotLifecycle` says who reaps:
  the slot is given up in the very step in which the exit that was owed to the
  parent leaves `due`. On top of it (`FInv`) come `RefcountExact`, `FilesClean`
  and `TypeOK`: that a free slot has no descriptors is a hypothesis there. The
  counting is on the set of pairs of slot and descriptor.
* `SchedProofs`: `TypeOK`, `RingOK`, `ContextOwn`, `FramesIntact` and
  `AddressSpaces`, for any number of slots. The inductive invariant `SInv` adds
  who is on the CPU (`CpuOK`: `running_task` is the flow that runs, except inside
  a yield with interrupts on), where the others stopped (`SavedOK`), whose stack
  is whose (`StackOK`), what the TSS points to (`TssOK`), and that the slot a
  reaper has in hand between its two stores is still free (`PendingOK`), so that
  the stack it clears is nobody's. The delicate one is process 0: yield sets no
  TSS stack for it, so its traps go to the stack the TSS happens to hold
  (`Stack0`), and the invariant is that this is no live process's. That the ring
  stays one ring is proved with closed sets of tasks instead of paths: a set
  closed under `next` that holds task 0 holds all of `Ring`.
* `KeyboardProofs`: `NoneStuck` and that `Keyboard` implements `KeyQueue`, for any
  size of the ring. `NoneStuck` needs what `down` will be when the rest of a
  two-byte code has arrived (`Pending`), each modifier of which is backed by a key
  that is held. The refinement rests on arithmetic modulo the size of the buffer:
  the characters from tail to head are a sequence (`Contents`), the handler
  appends to it or drops the character, the reader takes its first.
* `VmProofs`: `TypeOK`, `FramesExact`, `HeapBacked`, `PointersChecked`, at every
  step of every call and along its failure paths. The inductive invariant `VInv`
  says that directories, tables and pages form a `Forest` (no entry of two holds
  the same frame and no frame is of two kinds), that the frames in use are those,
  the kernel's, the copies of a fork and the scratch table (`Parts`), where a call
  is (`CallOK`: the pages its loop has still to handle are not mapped, those it
  has handled are) and that heaps are mapped in the middle of calls too (`Heap`).
  One lemma says what `paging_map` does to a forest, one what freeing a directory
  does and one what unmapping pages does; the actions follow from them.
  `PointersChecked` is the arithmetic of pages and of addresses that wrap. That
  `Vm` implements `UserMemory` (`MemoryTheorem`) needs one thing more, `Contents`:
  what has been loaded or copied so far, in a directory or frame that no process
  shows yet, is what the image or the parent has there. Then every step is one of
  `UserMemory` or is seen by nobody.
* `ConsoleProofs`: `HistoryOrder`, `InBounds`, `AboveKept` and `LineShown`, for
  any size of the ring, of the line buffer and of the screen, and any texts. For
  the history, the inductive invariant `HistInv` adds that the line, and every
  entry of the ring, is shorter than the buffer (so that a recalled line fits) and
  that the indices of the ring and of the recalled entry are inside their ranges.
  The argument is the arithmetic of the ring: after an entry every slot is one
  line older, and the slot that is overwritten is none of those that are kept
  (`OneOlder`), so that pushing on the ring is pushing on the sequence it stands
  for (`Pushed`). For the screen, `ScreenInv` counts its cells from the top left,
  so that a character stores one cell and shifts the others by nothing or by a row
  (`GlyphIs`), and says three things of them: nothing stands at or after the
  cursor (`Clean`); the rows above the anchor are the ones kept, and the cursor is
  at least as many cells below them as the line has characters (`Kept`, which is
  why erasing the line never touches them); and the cells before the cursor are
  the line's, with the prompt before them and before what erased tabs have left
  (`Shown`). `Shown` survives scrolling because the prompt and a full line fit
  above the last row (`ShownGrows`), and a recall is as many backspaces as the old
  line has characters (`LineErased`) and then the new line (`LineTyped`). That
  `terminal_write` and `Cells` compute what their recursive definitions say, for a
  text of any length, is proved from the least number at which it would fail
  (`CountUp`, `WriteIs`, `CellsLaid`).
* `MallocProofs`: `Tiling`, `Honoured` and that `Malloc` implements `Heap`, for
  any sizes of headers and pages, any requests that are `Ordinary`, any break that
  fails and any sequence of calls. The inductive invariant `MallocInv` says that
  the list is laid out over the words of `got` (`Laid`: in order, below the break,
  every word of `got` in a block and no other) and that its blocks in use are the
  pointers of the program (`HoldsBut`, which can leave one block out: the one
  malloc is about to take). No sum over the list is needed. When malloc takes a
  block, every block of the new list is cut from one of the old (`CutFrom`), and
  order and words follow (`Taken`); when free merges blocks, the word `x` of the
  merged block lies in the last of its parts that starts at or before `x`
  (`WordOfPart`). That calloc's division finds every product that wraps is
  `ProductFits`; that rounding twice does not wrap is `Rounded`, and needs sizes
  that `sbrk` takes for a growth.
* `NatMin`: the least and the greatest element of a finite set of naturals, where
  every first-fit loop of the kernel stops, and facts on quotients and remainders
  that the solver does not find by itself.

The assumptions are the ones stated in the modules: positive sizes, a machine with
some usable memory and modules with a first and a last byte, lengths of files that
are numbers and that fit into their field of the archive; no key has the code of
the prefix byte 0xE0; programs lie below the break's limit and the stack above it,
and the lengths given to system calls have 32 bits; the sizes asked of malloc are
ones that `sbrk`, whose increment is signed, takes for a growth; what is printed
are sequences of characters, and the prompt and a full line of tabs fit above the
last row of the screen. TLC evaluates them in every run. `Vm`'s theorems are about
`Spec`, in which the allocations the code does not check succeed and the break
stays above the identity map, and `Sched`'s about `QuietSpec`, in which no
interrupt comes inside yield, nobody goes to user mode with another live process's
stack in the TSS, and no fork takes a slot that is not yet cleared; the runs that
expect a violation show what happens otherwise.

Only model-checked: the liveness properties (`WaitReturns`, `Scheduled`,
`KeyRead`), which are out of the prover's reach. Every safety property of a
passing run is proved.

## Not modelled

* `stdio` and `printf`: formatting is layout; a stream's buffer is private to one
  process and filled and flushed by one sequential loop. That `fork` duplicates an
  unflushed buffer is what it does to all memory (`Vm`).
* Strings and conversions of libc: loops over bytes without state.
* ELF headers and relocations: checks that lead to the failure path `Vm` has
  (`exec_fails`, also with frames free), and words rewritten in pages the loader
  has just filled.
* Descriptor tables, PIC, serial port, LEDs, the debugger's printing commands:
  constant tables and port I/O.
* Exceptions, a page fault among them, print and then stop the whole kernel; the
  breakpoint, which returns, is in `Keyboard`.
* The walk over memory map entries of varying size is taken as a set of entries,
  and the names of files are atoms.

## Plan

All components that keep state of their own are modelled, and every safety
property of a passing run is proved.
