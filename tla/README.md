# TLA+ models of the POLER-OS 64-bit kernel

POLER-OS is an x86-64 kernel in Zig and assembly. Its own code is
`src/zig-kernel/src64/` (about 13,500 lines; paths below are relative to it
unless they begin with `src/`). The image is built in Debug mode, so an integer
overflow is a panic, not a wrap. The rest of the repository is an older 32-bit
kernel, a Linux module experiment, a web tool, and vendored tools and images.

Contents: [inventory](#inventory) · [modules](#modules-and-the-code) ·
[runs](#runs) · [findings](#findings) · [proofs](#proofs) ·
[not modelled](#not-modelled) · [plan](#plan)

## Inventory

One CPU runs everything. `main64.zig` initialises, in order: hal (GDT, IDT,
APIC timer, interrupts on), ACPI, pmm, vmm, heap, PCI, virtio-blk, FAT32, cpio,
system calls, scheduler; it creates two tasks and halts in a loop. From then on
control moves by interrupts, system calls and faults only.

| component | state | operations | called by | hard part |
|---|---|---|---|---|
| physical memory, `pmm64.zig` | bitmap, count, next-fit hint | init, allocPage, freePage, alloc/freeContiguousPages, getStats | vmm, heap, ELF loader, drivers | hint, bitmap and count are updated separately by four operations |
| kernel heap, `heap64.zig` | list of blocks in memory, heap_end, tags in front of payloads | alloc, resize, free (allocator interface), kmalloc, kfree | kernel code | splitting, merging, over-aligned payloads, expansion that fails half-way |
| virtual memory, `vmm64.zig` | page-table trees | init, mapPage, unmapPage, createUserPML4, mapPageInPML4 | heap, ELF loader, drivers | trees share subtrees; failures in the middle of a walk |
| scheduler, `scheduler.zig` | tasks[], current task, stacks | init, createTask, createUserTask, killTask, exitCurrentTask, schedule | timer interrupt, kernel_main, system calls | pre-emption between any two instructions |
| system calls and faults, `hal.zig`, `isr64.S` | user_rsp, TSS, current kernel stack | entry, print, read key, clear, exit, yield, sysret; exceptions | tasks | one saved stack pointer for all tasks |
| virtio block driver, `virtio_blk.zig` | descriptors, rings, DMA slots | init, readSectors, writeSectors | FAT32, shell | the device works concurrently; polling times out |
| FAT32, `fat32.zig` | one cached FAT sector, mounted volume, disk | init, openFile, readFile, writeFile, createFile, createDir, deleteFile, listDir | shell | several sector writes per operation; write errors; power loss |
| ELF loader, `elf_loader.zig` | none of its own | loadElf, loadElfIntoPML4 | nobody yet | undoing a half-loaded program |
| processor start, `smp.zig`, `boot_smp.S` | trampoline block, state bytes | init, the processors' entry | nobody yet | processors share one data block |
| keyboard ring, `hal.zig` | 256 bytes, two indices | IRQ 1 pushes, system call 2 pops | interrupt, tasks | producer interrupts consumer |
| firewall, mixing, cipher, `poler_core.zig` | counters, key state | arithmetic, evaluate | shell, self-tests | 32-bit arithmetic |
| readers: `acpi.zig`, `pci.zig`, `multiboot2.zig`, `cpio.zig` | tables filled once | parse | boot | none that is stateful |

What makes each correct:

- physical memory: a frame has one owner, the count is exact, null means that
  no run exists, every search ends.
- heap: blocks tile the heap, buffers never overlap, what was handed out can be
  freed, once, and nothing is lost.
- scheduler: CPU, TSS, page tables and task table agree after every switch; a
  task resumes from its own frame, on its own stack; killed tasks stay killed;
  every ready task runs.
- block driver: the answer to a request is about that request; no path loses a
  descriptor or slot; every call returns.
- virtual memory and loader: a frame is mapped where its owner believes, is
  freed once, and no root keeps a table that is gone.
- FAT32: chains are acyclic and disjoint, the cached sector is written before it
  is replaced, a crash leaks clusters at worst, a file holds what was answered.
- processor start: each processor runs with the data meant for it.

`PROJECT.json` lists the hazards of this code line by line, with the properties
that cover each, or why none does yet.

## Modules and the code

Definitions have the source's names; `PROJECT.json` maps each one to its lines.
Definitions named `Faulty...` are not the code's: each is a plausible mistake in
the definition after it, and shows that a property would notice it.

### Physical memory: `PageAllocator`, `PMM`, `PMMProofs`, `MCPMM`

`PMM` keeps the three variables of `pmm64.zig` and the call in progress with the
locals of its loop: each iteration of a search or of a contiguous free is one
step. `Init` ranges over every memory map and every place of the multiboot
information, marked again as in `init`. `held` and `reserved` are history: who
was given what, and what the boot map kept. Callers may return a frame twice as
long as it is still free (the code ignores that), or an address that is none;
returning another component's frame is their breach of contract and left out.
`PageAllocator` is the promise: n adjacent free frames, or null and there are
none. It knows neither hint nor search.

### Heap: `MemoryAllocator`, `Heap`, `HeapProofs`, `MCHeap`

`Heap` keeps the block list as a function from header addresses to fields, in
units of 16 bytes, to which the code rounds. A header is two units (the struct
has 32 bytes), the tag and the back pointer of an over-aligned payload one.
`Alloc`, `Take`, `Expand` and `ExpandFails` are the search, its success, the
expansion after which `alloc` calls itself, and the ways the expansion ends
early, with some pages already mapped. `Free` and `Coalesce` are `freeInternal`
and one merge each; `Shrink` and `GrowInPlace` the two successful branches of
`resize` (a failing one changes nothing). The SipHash of a header is the tuple
it is computed from: two tags are equal exactly if the fields are, which leaves
out collisions of 32-bit hashes. `live` is history, the buffers callers have.
The memory callers write to is not modelled: the words in front of payloads
(`marks`) change only by `alloc`, so nothing callers write looks like a mark.
The code switches interrupts off in each call, so calls do not interleave.
`MemoryAllocator` is the promise: aligned, in existing memory, no overlap,
buffers do not move.

Two constants widen what callers do. `ResizeAligned` lets them resize
over-aligned buffers; `FreeInside` lets them free a second time a buffer whose
block now holds an over-aligned one. The passing run has both off; each has a
run of its own that shows what goes wrong.

### Scheduler and system calls: `Scheduler`, `SchedulerProofs`, `MCScheduler`

Task 0 is `kernel_main`. A stack is a task's kernel stack (`Kernel(t)`; that of task 0 is
the boot stack) or its ring 3 stack (`User(t)`), a saved frame says whose context it is
and which stack it lies on, page tables are those of a task, and `pc` says where
each context stands: ring 3, in `syscall_entry` with interrupts off, in the
handler with interrupts on, popping registers (`sysret`), back on the ring 3 stack but
still in ring 0 (`returning`), in the exit loop, in the idle loop
after a fault. `TimerTick` is the interrupt: it pushes a frame where `FrameStack` says, and
runs `schedule` if the callback is set.

Two places push frames on stacks that are not the task's own. Between `isr64.S:460` and
`:463` (`SwitchBack`, `SyscallReturn`) the CPU is in ring 0 on whatever stack `user_rsp`
named, with interrupts on: a tick saves the frame on a user stack, and `schedule`, which
runs on that stack, takes it away when it loads another root (`LosesStack`); if the root in
CR3 does not map the stack, the frame cannot be pushed at all (`TickWithoutStack`). User
stacks are at addresses such as 0x100081000, which only the roots of user tasks map, and
two roots may or may not map the same address, so both outcomes are possible there. The idle
loop after a fault (`hal.zig:457`) runs from 0x10b000, inside the boot stack
(`linker64.ld:43-48`), and frames pushed there may write over the frame of `kernel_main`;
whether they do depends on how deep it sleeps, so each tick chooses which of the frames it
`Threatened` are `overwritten`. A context that is resumed from such a frame, or loses its
stack, leaves the CPU `Astray`, and what it then executes is not modelled. Other damage to the
contents of stacks is recorded only as `smashed`. Interrupts other than the timer's push the
same frames, and return to where they came from.

`schedule` is one step, interrupts being off
in it; `createTask` is three (`CreateReserve`, `CreateFill`, `CreateFrame`),
because a tick may come between its lines. `SyscallEntry` to `SyscallReturn` and
`HandlerExits` follow `isr64.S` and `zig_syscall_handler`, `UserFault` and
`KernelFault` follow `handleException`.

`TimerCallbackRegistered` is FALSE in the tree as it is: `hal.zig` declares
`timerTickCallback` and calls it if it is set, and nothing sets it. With FALSE no
task is ever switched and all properties about switches would hold of nothing,
so the main run sets it TRUE, which is what `hal.zig:6` describes; a run of its
own shows the tree as it is.

### Block driver: `BlockDevice`, `VirtioBlk`, `Iteration`, `VirtioBlkProofs`, `MCVirtioBlk`

`VirtioBlk` keeps the descriptor table with its free list, both rings, the DMA
slots and the call in progress, and the device on the other side: it takes
entries from the avail ring, reads the chain as the table has it at that moment,
moves the data, and reports, each a step of its own, in any order if it has
several requests, or never. The device is external: it is modelled from what
the driver hands it. `Refuse` stands for all early returns (too many sectors, a
write to a read-only device). `Timeout` may fire whenever the driver polls: the
bound of the loop is in iterations, not related to the device's speed. The
ring index is checked arithmetic on 16 bits: `Panic` is the overflow.
`BlockDevice` is the promise, one request at a time, which holds until the
first timeout (`trusted`).

### FAT32: `FileStore`, `Fat32`, `Fat32Proofs`, `Fat32LeakProofs`, `MCFat32`

`Fat32` is the driver as the shell's `touch`, `mkdir`, `write`, `cat` and `rm` use
it. The disk is `fat`, the first copy of the FAT (the others are written after it
and never read), and `disk`, the clusters, each of one sector of `UNITS` entries
or pieces of text. `cache` is the one cached FAT sector with its dirty flag. `pc`
says which loop the command is in: look-up (`Look`), the scan for a free cluster
(`Scan`, `Commit`, `Zero`), `addDirEntry`, `writeFile` (`NextUnits` to `Wrote`),
`updateDirEntry`, `deleteFile` (`Mark`, `FreeCluster`, `Freed`). `Search` is the
loop over a directory's clusters that five functions of the code repeat. One step
does at most one write to the disk, so `Crash` comes between any two writes. The
FAT operations are functions to sets of outcomes, because a load may flush the
cache first and each of the two requests may fail.

A read that fails changes nothing. A write that fails may have been carried out all the
same, since a late or faulty answer says nothing about the disk (`VirtioBlk` shows it):
`FailsWith` leaves both open for every write of a sector. A failed write of the FAT is
only logged, as in `flushFatCache`, and if it was not carried out the change is lost.

What searches of a directory take for an entry is decided by what stands in the cluster, not
by who wrote it (`fat32.zig:691-720`). A piece of text is 32 bytes, and its twelfth
character is read as attributes. `Text` stands for pieces that are then passed over
(that character marks a volume label, `fat32.zig:703`); a piece that reads as a file or
directory is itself an entry, such as `Posing` in `MCFat32`, eleven characters and zeros,
which reads as an empty file. Pieces that read as an entry leading outside the disk are
left out: what the driver does with such a number concerns no cluster of the model. Pieces matter
while a directory is linked to a cluster that held them and is not yet zeroed (`Unzeroed`);
if power is lost there, or the zeros cannot be written, they stay as entries.

`lost` is history: the driver and the disk have parted. It records three events, a FAT
write that failed and was not carried out, the write of a new directory's entry that failed
and was carried out (`createDir` then frees the cluster the entry leads to,
`fat32.zig:1092`), and the exposure of old contents just described. `Damaged` adds to it that more
than one request has failed. After any of these the file system can break in the code, and
the properties that say `~ Damaged` promise nothing.

`rm` of a name with a single slash in front is refused by the code: `openFile` skips the
slash, `deleteFile` keeps it in the name it looks for (`fat32.zig:1203`). The `slash` of a
command says so, and `Mark` finds no such entry.

Names are a base and an extension, as short names are; time stamps, read-only devices, the
page that `cat` reads into, `MAX_CLUSTER_CHAIN` and the FAT's other copies are
left out. Commands write to files, never to a directory, which `cmd_write` does
not refuse.

`FileStore` is the promise: contents of files change only by the command that
runs, from front to back, an answer is true when it is given, and what was
answered survives a power loss. `Contents` reads the files from the disk alone, as
the next mount would, except that the cluster a directory is just growing by counts as
zeroed, which it is by the next step or the disk is `lost`. `FileStore` promises nothing
after a request has failed or a power loss has exposed old contents, and it says of `rm`
with a slash that it may be refused.

### Virtual memory and loader: `Vmm`, `ElfLoader`, `ElfLoaderProofs`, `MCElfLoader`

`Vmm` keeps page tables as memory has them, four levels, `table[t][i]` the frame
that entry i of frame t points to, for the kernel's root and for the roots that
`createUserPML4` returned. `mapPage`, `mapPageInPML4` and `unmapPage` are functions
on `[free, table]` with their errors; `Walk` goes down three times (`Descend`) and
makes the missing tables, `Undone` is the clean-up of `mapPage` (`mapPageInPML4` has
none). The actions are the kernel's
uses: the test at boot, the heap's first page and its growth, new address spaces.
`ElfLoader` adds `loadElf` (the kernel's root) and `loadElfIntoPML4` (another root,
and the kernel's as well for copying), a page and a segment at a time, with
everything else in between. `content` says whose bytes a frame has, `dropped` the
frames that a failed load lost.

`pmm` gives the lowest free frame here: it searches from a hint that a freed frame
pulls back to itself, which comes to the same while frames are taken one by one.
Left out: access rights, the TLB, huge pages (addresses in the identity map).
Each program is loaded once. In the run, and for the proofs, no two programs share
a page (`ProgramsApart`).

## Runs

| run | instance | result | states |
|---|---|---|---|
| `pmm` | 6 frames, 1 of the kernel, 2 owners, all memory maps | pass | 774 k |
| `heap` | 3 pages of 4 units, lengths 1 and 3, alignments 1 and 4 | pass | 97 k |
| `sched` | 3 slots, callback set | pass | 18 k |
| `virtio` | 6 descriptors, 2 slots, 3 requests until the index overflows, 2 sectors, 2 values | pass | 534 k |
| `fat32` | 4 clusters of 2 units in 2 FAT sectors, 2 files, 2 directories, text that reads as an entry, 1 failed request (carried out or not) or power loss | pass | 650 k |
| `vm` | 3 to 21 frames, 2 address spaces, 2 heap pages, 2 programs | pass | 174 k |
| `sched_as_built` | as `sched`, callback not set | violated | |
| `sched_sysret` | as `sched` | violated | |
| `virtio_timeout` | as `virtio` | violated | |
| `heap_resize` | as `heap`, over-aligned buffers resized | violated | |
| `heap_stale_free` | as `heap`, buffers freed twice | violated | |
| `fat32_update` | a write to `log.txt`, nothing fails | violated | |

Properties of the passing runs, besides one type invariant each (which carries
the bounds the code relies on without checking: bitmap index, ring index, end of
the heap's range):

- `pmm`: `Ownership`, `CountExact`, `ScanKnows` (the loop invariants of the three
  searches), `ImplementsAllocator` (refinement), `CallsReturn`.
- `heap`: `Tiled`, `BuffersOwnBlocks`, `KfreeFindsHeader`, `StaleFreeRefused`,
  `KeepsPromise` (refinement), `CallsReturn`.
- `sched`: `CpuFollowsTask`, `FramesOwned`, `UserStacksPrivate`, `BoundedWait`,
  `NoResurrection`, `CreatedTaskRuns`.
- `virtio`: `DescriptorsAccounted`, `NothingHeldBetweenCalls`, `InStep`,
  `KeepsPromise` (refinement), `CallsReturn`.
- `fat32`: `FilesApart` (also after power loss or a failed request, but for the events
  `lost` records), `NothingLeaks` (nothing failed), `CacheAgrees` (the one difference
  between a clean cache and the disk is what `allocCluster` undoes in the buffer alone),
  `DirectoriesSound` (also after power loss, unless it exposed old contents),
  `KeepsPromise` (refinement), `CommandsReturn`.
- `vm`: `TablesSound`, `FramesAccounted`, `HeapEverywhere`, `ProgramsIntact`,
  `TranslationsStay`.

Why the bounds are enough. Six frames hold two runs of two with a gap, a hint
before, in and after a run, and a wrapped search. The hint leaves free frames
behind only by a run taken past a single free frame, and the search has to fail
in front of it: kernel, single, marked, two of a run, marked makes six. Three
pages hold up to four blocks, with expansion by one page and by two, and
expansions that fail after none or one; alignment 4 equals the page, so padding both does and does
not force another page. Three slots are `kernel_main`, a task that is switched
away from and one that is switched to, killed or under creation at the same time;
the round robin passes over each position. One request of the driver uses three
of six descriptors and one of two slots, so a chain in the device's hands and
the next one coexist after a timeout; three requests suffice to reverse the
free list twice and to reach the overflow.

Four clusters in two FAT sectors: a file of two clusters, a directory that grows
by a second one, and a disk that is full, with links that cross from one FAT
sector to the other, so that the cache is replaced while dirty. Two units per
cluster: the root is full with two entries, a new directory with its dots alone,
and a file of three units ends inside a sector. The names in `fat32` are those
`updateDirEntry` recognises (`log.log`, `tmp.tmp`; see finding 6); with others no
write would ever be recorded. The run has one mishap, which comes at any point.
With `MaxMishaps = 2` (10 million states, too long for every day) the
invariants hold as well, among them `FilesApart` after two power losses, or a
power loss and a failed request.

Frame numbers from 3 to 21, one of them held by others or not: memory ends at every
allocation of a boot, a heap, two address spaces and two programs, and 21 frames
suffice for all of it. Program A has two segments in one page
and lies under the kernel's first entry, where all roots share tables; B lies
under another entry, where an address space has tables of its own or those the
kernel had when it was made.

Deadlock is checked where the system cannot stop (`pmm`, `heap`). The scheduler
can (a kernel fault halts the CPU), and so can the driver (`Panic`) and the kernel
of `vm` (a page fault at boot or while a segment is copied, or everything done).

Fairness. A call that was entered keeps executing: weak fairness of `Step` or
`Proceed` (a command, in `Fat32`), because the loops wait for nothing and run with no preemption in the
tree as it is. For the scheduler, strong fairness of `TimerTick \/ TickWithoutStack`: the local APIC
keeps a tick pending while interrupts are off and delivers it when they are on
again; weak fairness of `HandlerStarts` and of a `createTask` that was begun:
straight-line kernel code proceeds. Nothing is assumed of the device, of user
programs or of callers.

## Findings

1. `sched_as_built`. Nothing assigns `timerTickCallback`, so `schedule` never
   runs and a created task stays Ready for ever (`hal.zig:8`; the comment in
   line 6 says the scheduler registers it at init).
2. `sched_sysret`. `syscall_entry` saves the stack pointer in the one word
   `user_rsp`. The handler runs with interrupts on; if another task makes a
   system call meanwhile, the first returns on the second's stack
   (`isr64.S:460`). It takes effect once the callback is registered.
3. `virtio_timeout`. A request that times out gives its chain and slot back
   while the device still has them; the next call takes the late completion for
   its own and returns another sector's data as success (`virtio_blk.zig:683`).
4. `heap_resize`. `resize` computes a new tag for the header but not for the copy
   in front of an over-aligned payload, and compares the length with a size that
   includes the padding; the buffer can then no longer be freed
   (`heap64.zig:505`). No caller in the tree resizes over-aligned buffers yet.
5. `heap_stale_free`. `getBlockFromPayload` accepts a header right in front of the
   pointer even when its padding says that its buffer starts elsewhere, so
   double-free detection misses a buffer whose block was reused for an
   over-aligned one (`heap64.zig:304`).

6. `fat32_update`. `updateDirEntry` compares the letters of the extension with the
   first letters of the entry's name, not with the entry's extension
   (`fat32.zig:1316`), so for almost any file the first cluster and size that
   `writeFile` made are never stored: the write is reported, the file stays empty
   and its clusters are lost.

What the models leave out on purpose or stop at, and what happens there:

- Two programs at the same page: `loadElfIntoPML4` copies through the kernel's
  mapping of the address, which is the first program's, so the second load
  overwrites the first program and leaves its own frame without its text
  (`elf_loader.zig:379`; `ProgramsIntact` fails at once when B is given a page of A).
  The loader has no caller yet.
- A lost FAT write lets two files share clusters, or a chain go round; and so do
  two failed reads of a directory. The searches pass over a cluster they cannot
  read (`fat32.zig:690`): `write` then creates an entry for a name that is there,
  and `rm` opens one of the two entries but, if another read fails, marks the
  other, so that the first keeps clusters that are free. `FilesApart` and
  `CommandsReturn` therefore claim nothing of a disk that is `Damaged`.
- A new directory whose entry was written but reported as failed: `createDir` frees the
  cluster the entry leads to (`fat32.zig:1092`), and the next allocation shares it.
- Power loss between linking a cluster to a directory and zeroing it
  (`fat32.zig:449-467`), or a failed write of the zeros, leaves what was in the cluster
  before as entries: files appear, names are there twice, entries lead anywhere.
- `rm /name` answers failure and leaves the file (`fat32.zig:1203`).
- The idle loop after a user fault may write over the saved frame of `kernel_main`
  (`hal.zig:457`), and a tick between `isr64.S:460` and `:463` saves a ring 0 frame on a
  ring 3 stack, after which the machine is lost. `FramesOwned` names both, with the tick
  inside `createTask`, as the only ways to resume a wrong context.
- `write` on a directory writes text over its entries (`main64.zig:1179`).

## Proofs

`tlapm` checks every step; there are no unproved assumptions except the named
assumptions on the constants, which TLC evaluates in each run.

**`PMMProofs`**, for any number of frames, memory map and set of owners, under
`PagesAssumption` and `NullAssumption`. The inductive invariant is
`TypeOK /\ Ownership /\ CountExact /\ ScanKnows`. `ScanKnows` is what makes it
inductive: `ContiguousTake` marks a whole run at the end of a search that looked
at the frames one by one, and only the loop invariant says that the frames
passed earlier are free; `AllocPageFail` refines a refusal only because a
wrapped scan has seen every frame. Theorems: `TypeCorrect`, `OwnershipHolds`,
`CountHolds`, `KnowledgeHolds`, and `Implements`, the refinement of
`PageAllocator`. `Owner` need not be finite: what is counted is a subset of the
frames.

**`HeapProofs`**, for any header, page and heap size and all lengths and alignments,
under `SizesAssumption`, `RequestsAssumption`, `CallersAssumption` and
`NullAssumption`. What is proved comes in two parts. `Structure` is inductive
whatever callers do, also in the two runs that expect a violation: the list is a
tiling of `0 .. heap_end - 1` in increasing order (`Layout`: each block ends where
its `next` begins and the last at the top at most), and each header in use has the
tag of its own fields. From it follow `TypeCorrect` and `BlocksTile`. The rest is proved of callers
that keep to the rules, `CallersKeepRules == ~ ResizeAligned /\ ~ FreeInside`,
which are what the passing run assumes; with either constant on, findings 4 and 5 are
counterexamples. For them `BuffersOwnBlocks` alone is not inductive. `free`
finds the header from what is in front of the payload, so the invariant has to
say what the marks in memory are worth: `MarksSound` (a mark is worth
something only where it stands, because the padding it was hashed with is its
distance from its block, and an over-aligned buffer has the mark of its own
block) and `PaddingInside` (the buffer lies in its block). With them `OwnBlocks`,
`HeadersFound`, `StaleRefused` and `HeapIsAllocator`, the refinement of
`MemoryAllocator`, step by step.

**`VirtioBlkProofs`**, for every queue of three descriptors or more, any number of
slots, any width of the index and any disk, under the module's assumptions.
`InStep` and `NothingHeldBetweenCalls` become inductive with five parts:
`LinksInOrder`, `ChainInOrder`, `CallInOrder` (each call uses descriptors 0, 1
and 2, upwards or downwards, and only while it lasts do they describe anything),
`DeviceInOrder` (each entry is worked on once), and `TrustInOrder`, by which an
answer is about the request as long as none has timed out. A chain that the
device accepts is the chain of the call in progress whatever entry led to it
(`AcceptedChain`), also after a timeout. Theorems: `Invariant`, `TypeCorrect`,
`CallsGiveBack`, `DriverAndDeviceInStep`, `NoDescriptorLost`, and `DriverIsBlockDevice`, the refinement
of `BlockDevice`. The free list is a recursive function; `Iteration` says what
such a walk along links finds. It does induction over a set of numbers, from the
library's theorem that a nonempty set of numbers has a least element, because the
provers cannot instantiate the library's induction theorems.

**`SchedulerProofs`**, for any number of task slots, callback set or not, under
`TasksAssumption` and `CallbackAssumption`. The inductive invariant adds three
parts to the properties: `SlotsInOrder` (a slot under creation is the last
one counted, has no frame and no context, and was not killed, and nothing was pushed onto its stack),
`ContextsInOrder` (which contexts can stand where; every task but `kernel_main`
has its own interrupt stack in the TSS while it runs, not only in ring 3, which a
`sysret` to ring 3 needs), and `StacksInOrder` (only ring 0 tasks leave a kernel stack in
`user_rsp`, so that a frame pushed between `SwitchBack` and `SyscallReturn` lies on a user
stack or a ring 0 task's, and only frames on the latter are written over). One lemma per action. Theorems: `TypeCorrect`,
`CpuFollowsTaskHolds`, `FramesOwnedHolds`, `UserStacksPrivateHolds`,
`NoResurrectionHolds`, and `WaitBounded`. `BoundedWait` follows from `WaitInOrder`:
the switches that passed a ready task over, and the slots the round-robin loop still
looks at before its own, are together fewer than `MAX_TASKS`. A switch to another task
brings it nearer (`Nearer`), and a slot that is added at the end of the table is
created while `kernel_main`, the first, is on the CPU.

**`ElfLoaderProofs`**, for any size of memory and of a table, any
number of address spaces and heap pages, and any programs without a page in common,
under the assumptions of `Vmm` and `ElfLoader`. The first part speaks of tables as values.
`Tree(tb, L)` says that `L[1]` to `L[5]` are the roots, the three lower levels of
tables, and the frames mapped: no frame is on two levels, what is under two roots is
at one index, and what is further down has one entry that leads to it. `TreeGrows`
and `TreeShrinks` are about one entry; from them follow what `Descend` and `Walk` make,
that `Undone` restores the tables the walk found (`UndoneRestores`), what
`mapPage` and `mapPageInPML4` leave on each outcome, what `unmapPage` gives back
(`UnmapPageUnmaps`), and that a copied root sees what the kernel's did (`RootAdded`). The
levels of a state are unions over its tables; the lemmas name the new levels
instead, and `LevelsNext` says that there are no others.

The inductive invariant is `MemoryInOrder` (a tree, nothing in
use is free, `FramesAccounted`) with what a load in progress has done.
`TranslationsStay` and `TablesSound` are about memory alone, but depend on the loads:
after `AlreadyMapped` `loadElfIntoPML4` frees the frame and still offers it to the kernel's
`mapPage` (`elf_loader.zig:353`). That is harmless only if the kernel has the page too. So
`PagesBegin` says that a page of a program is the same in every address space until
its load has come to it, `PagesLoading` that what the running load has mapped has
the same frame in the kernel or none yet, and `PagesLoaded` that what was loaded stays
and keeps its bytes. They need `ProgramsApart`, that different programs have no page in
common; where two have one, the second overwrites the first (see
[findings](#findings)), so the theorems state it as a hypothesis. TLC checked the invariant in the `vm` instance
for memories of 5, 8, 11 and 14 frames. Theorems: `Invariant`, `TypeCorrect`, `TablesAreSound`,
`NoFrameLost`, `HeapIsEverywhere`, `ProgramsStayIntact`, and `PagesStay`, the action
property.

**`Fat32Proofs`**, for every disk, set of commands and number of failed requests and
power losses, under `GeometryAssumption`, `FaultAssumption` and `CommandAssumption`.
The first part says what reading the FAT, setting an entry and claiming a cluster may
make of the FAT and its cache (`Reads`, `Sets`, `Claims`), whichever requests fail.
`Typed`, the types and where the cache may be dirty, gives `TypeOK`.

`FilesApart`, `DirectoriesSound` and `CacheAgrees` speak of chains that recursive functions read from
the disk, between commands and within them, so none is inductive. The inductive
invariant `Promise` says, as long as the disk is not `Damaged`, that there is a witness
of how the clusters lie in chains: to each cluster the first cluster of its chain and
its distance from it, and which chains are directories. `Structure` is what the witness,
the FAT, as it is on the disk and as the driver sees it, and the entries have to do with
each other: chains have no branches, no two entries have one chain, free clusters and
those of files hold no entries (the search for one could end in them, if a directory got
the cluster), the driver sees the chains as they are. `Control` is what each step of a
command relies on: what a search has passed over does not have the name, a file that is
written or deleted has the one entry the name leads to, a second look-up stops where the
first did, no end mark was passed over on the way to where an entry is added. A failed
read makes a search pass over a cluster, once; that is why `Promise` says of one failed
request less than of none. While a directory is linked to a cluster with old contents
(`Awaiting`) all this holds of the disk as it will be once that cluster is zeroed (`Zeroed`). `InitPromise` and `StepPromise` are the induction, with a
lemma per action; `ChainIs` and `UnitsOfIs` then read chains and directories off the
witness, with the walks of `Iteration`. The theorems have a hypothesis, `NamesTold`, of
the commands: no file is written that has a directory's name (`cmd_write` would write
over the directory), and `updateDirEntry`, which compares the wrong letters (finding 6),
takes no other name for one that is written. The commands of `fat32` satisfy it.
Theorems: `TypeCorrect`, `CacheKeptCorrect`, `FilesApartCorrect`,
`DirectoriesSoundCorrect`.

**`Fat32LeakProofs`**, under the same assumptions. `NothingLeaks` is an equation between
commands, and within one neither side of it stands still. Its inductive invariant is `Kept`,
as long as nothing has failed, on top of `Promise`. The first part, `Reached`, is about two sets of clusters (`Keeps(D, S)`): `D` has the root,
and with a directory the clusters it is linked to and the directories it lists; `S` has
`D`, what is `Pending`, and whatever links of the FAT, as the driver sees it, and entries in
`D` lead to. Then every cluster that is not free is in `S`. Two sets, because only clusters
of directories are read as entries: the text of a file may look like one. The witness of
`Fat32Proofs` shows that the clusters of directories are such a `D` (`Inside`, `Tied`). `Pending` is
what the running command has allocated and no entry records yet, or has still to free: a
new directory's cluster until its entry is added or it is given back, a file's first cluster
until `updateDirEntry` has been, the rest of the chain that `freeClusterChain` is freeing.
Sets closed under links say what can be reached without counting the steps, so that most
steps need no induction: a step is described by what it detaches (`Changes`), and
`ReachedBut` and `ReachedStays` do the rest. `Ends` says that a cluster is linked only behind
the end of a chain, and that what is pending leads nowhere while the first cluster alone is.
`Stands` says that the file that is written has an entry in its directory. `InitKept` and
`StepKept` are the induction, a lemma per action. `NoneLost` then needs that the chains,
units and lists that are read from the disk are complete (`ChainIsAll`, by the pigeonhole
principle, `UnitsAreAll`, `ListedAll`), where `Fat32Proofs` needs only that what they have
is right. Besides `NamesTold` the theorem has the hypothesis `NamesFound`: the name of a file
that is written has equal base and extension, so that `updateDirEntry` finds it. Without it the
property is false, by finding 6: the clusters of a write are never recorded. The commands
of `fat32` satisfy both, and TLC checked `Kept` there with nothing failing. Theorem:
`NothingLeaksCorrect`.

Only model-checked: the liveness properties (`CallsReturn` in three modules,
`CreatedTaskRuns`, `CommandsReturn`), which are out of the prover's reach;
and the refinement of `FileStore` by `Fat32`, whose `Contents` are read off the disk by
recursion along a path and a chain.

## Not modelled

Processor start and the keyboard ring are in the plan; the former is not linked
into the image and imports a file (`spinlock.zig`) that is not in the tree. Not
planned: register programming (APIC, PIC, serial, GDT, IDT), which keeps no state
of its own; the parsers of firmware and archive data, which pass over their input
once; framebuffer; the POLER mixing and cipher and RSA-OAEP, whose subject is
arithmetic on words and large numbers; the 32-bit kernel, which the image does not
contain; the Linux module (the only C of the project's own), whose calls run one
after the other under one mutex around that arithmetic; the web tool; vendored
files, which are nearly all of the repository's C.

Inside modelled components: failures of `heap.init`, after which there is no
allocator; PCI discovery and feature negotiation of the block driver; what system
calls print; contents of stacks and registers; the interrupt flag that `alloc`
and `free` switch on unconditionally when they return; the checks of ELF headers;
`listDir`, which only reads; and, as said above, huge pages and access rights.

## Plan

1. Done: `PMM`, `VirtioBlk` and `Heap`, each with a refinement, `Scheduler`, and `Vmm` with
   `ElfLoader`, all with their safety properties proved; `Fat32` with a refinement,
   model-checked, and proofs of its invariants.
2. The refinement of `FileStore` by `Fat32` as a theorem. It has to say what every file
   contains, step by step; the witness of `Fat32Proofs` says where.
3. `Keyboard`: the ring with an interrupting producer, as a bounded queue, composed
   with the system call of `Scheduler`. `SmpBoot`: boot processor and two
   application processors over one trampoline block, once it is linked.
