# TLA+ models of Koros

Models, model-checking runs and machine-checked proofs for the operating-system
workspace in `src/`. Paths below are relative to it. `PROJECT.json` ties every
definition to the lines it translates and lists components, runs, hazards and theorems.

## The system

| Part | Where | What it does |
|---|---|---|
| scheduler | `base/kor-sched/src/lib.rs` | SMP, preemptive, one shared FIFO ready queue; sleepers, zombies, wait queues |
| synchronisation | `base/kor-sched/src/{lib,sync}.rs` | `Semaphore`, `Mutex2`, `sync::Mutex`, `Channel` |
| memory | `kor/src/{regions,frame}.rs`, `base/kor-alloc`, `base/kor-mmu` | boot regions, frames, slab heap, page tables |
| devices | `base/kor-virtio` | virtio block and network over `virtio-drivers` |
| filesystems | `filesystems/kor-{fs,ext2,ramfs}` | block cache, paths, mount table; ext2; RAM filesystem |
| architecture | `base/kor-arch` | traps, timers, context switch, page-table entries on three architectures |
| korix | `apps/korix` | a Linux-compatible kernel: processes, signals, user memory, files, sockets |
| korhv | `apps/korhv` | a hypervisor for two guests |
| koros | `apps/koros` | a demonstration kernel |

How they interact: traps of an application call `timer_tick`/`preempt`; blocking I/O goes
system call → filesystem → `BlockCache` → `VirtioBlock` → `Semaphore` → scheduler → the
device's interrupt → `post`; heap, page tables and user pages all take frames from the one
allocator that the boot code fills from the firmware's memory map.

## Modules

| Module | Models | State |
|---|---|---|
| `Sched` | `kor-sched`: all of it that changes state | per CPU: `current`, `prev`, `slice`, the stack it executes on, its address space; the queues; per task: `state`, wake tick, program counter |
| `Semaphore` | `Semaphore::wait`/`post` over what `Sched` promises | count, raw lock, queue, a task's phase |
| `Mutex` | `Mutex2`, `sync::Mutex` | + who is in `lock()` or holds the guard |
| `Channel`, `Fifo` | `Channel` in detail; the atomic queue it implements | + queue, what was sent and received |
| `VirtioBlock` | the interrupt-driven requests of `VirtioBlock` | + who owns the device's descriptors, the used ring, the interrupt line |
| `BlockCache` | `kor-fs` block cache over a device with a volatile cache | cache, access order, device before and after a power failure; history |
| `Ext2Blocks` | ext2's cached and bulk block I/O, extends `BlockCache` | + the transaction lock, pending bulk transfers; history of blocks a bulk write put at odds with the cache |
| `Ext2Mount` | open, mount, sync and unmount of ext2, extends `BlockCache` | + superblock and descriptors in memory, the cache accesses left of the current call |
| `Ext2Dir` | `dir.rs`: linear directories as blocks of records | none: functions |
| `Ext2Inode` | `bitmap.rs`, block trees, truncation and attributes of `inode.rs`, the inode cache | none: functions from a filesystem to a set of outcomes |
| `Ext2Meta` | the calls of `Ext2INode` that change metadata | the filesystem on the device and in memory; the calls still to be made |
| `Regions` | `RegionCollector`, `clip_region` | the array; history of what was added |
| `FrameAllocator` | `FrameAllocator` | regions, bitmap, counts; who owns what |
| `PhysMemory` | the boot code that joins the two | the image, the regions and pieces still to be registered, the phase of the boot |
| `SlabHeap` | the kernel heap, extends `PhysMemory` | free lists by class, where each task is in `alloc`; history of live objects |
| `PageTable` | `kor-mmu` tables and the walks of `kor-arch` | none: functions on frames |
| `AddressSpace` | korix `mm/mod.rs` and the mapping half of `elf.rs` | none: functions on frames and a space |
| `UserMemory` | brk, mmap, munmap, mremap, mprotect, fork, execve, exit and user copies | frames, each process's space, the range operation it is inside of; history of what its pages show |
| `Process` | korix processes, signals and futexes | the process table, tokens of the two event semaphores, masks, pending signals, nested handler frames, program counter |
| `RamFs` | `kor-ramfs`, one operator per lock section | none: functions on a tree |
| `Path` | the mount table's lookup, `path.rs`, korix's absolute paths | none: functions |
| `Net` | korix `net.rs` | none: functions on the socket table |
| `Files`, `FileCalls` | korix descriptors, open files, path, socket and waiting calls over `RamFs`, `Path`, `Net` | descriptor tables, open files with their locks, the tree, sockets, where each process is in its call |
| `GuestDevices` | what korhv gives a guest: stage-2 memory, `Vgic`, `Vuart`, the forwarded disk | none: functions |
| `Hypervisor` | korhv's run loop on AArch64 | both `Guest` structures, the CPU's registers, where `run()` is, console, disk queues, pending interrupts |

`MC*` modules and `.cfg` files instantiate them (`Channel.cfg` and `Ext2Blocks.cfg` do so
without an `MC` module). The modules named `*Lemmas` and `*Proofs` hold the
proofs.
Definitions introduced by "A slip:" are deliberately wrong variants of the definition that
follows; the property named with them in `PROJECT.json` ("mutants") fails when the one
replaces the other.

### How actions correspond to code

*Scheduler.* A CPU is always on the stack of some task, at that task's `pc`. A critical
section of a spin lock is one step; everything between two of them, on different CPUs,
interleaves. `schedule()` is three steps: `Schedule` (pick, record `prev`, publish
`current`, activate the address space), `ContextSwitch`, and `FinishSwitch`, which the
incoming task runs. `Tick` is the timer trap with `timer_tick` and `preempt`; it needs
interrupts enabled, which is a matter of `pc`. Wait queues keep their raw lock across the
switch, as in the code. `wait` is `wait_if` with a predicate that is true.

*Blocking primitives.* `Semaphore` keeps from `Sched` only that a blocking task holds the
raw lock until it is queued, that a popped task runs again later, and that queues are FIFO.

*Block cache.* Each operation runs under the cache's lock and is one action, with a
disjunct for each point where a device write or flush may fail. The device acknowledges
writes into a volatile cache (`vol`), may persist any of them at any time (`Persist`), and
must persist all on a barrier (the contract of `BlockDevice::flush`).

*ext2.* In `Ext2Blocks` the cache's lock is released between the flush or invalidation of a
range and the device request; writers hold the transaction, `read_at` holds nothing. Two
things go wrong there in the code, and history variables name the blocks they hit: `lost`,
blocks that were dirty when a bulk write dropped them, until they are written again; and
`stale`, entries that a reader cached in the middle of a bulk write. In
`Ext2Meta` a call holds the transaction and is one step. What a Rust function does is a set
of outcomes: where it uses `?`, the failing step has an outcome of its own in which what was
done before stays done. In `Ext2Mount` a call is a list of cache accesses taken one by one,
so that failures and power cuts come between any two.

*Frames and heap.* `find_free_run` is specified by the first aligned free run; its skipping
scan is translated separately (`Scan`), and `ScanFindsFirst` compares the two. `PhysMemory`
follows the boot code of the kernels: collect, find the image, cut it out of one collected
region at a time and `add_region` what is left of that region piece by piece, serve. The
assertions of `add_region` are the operator `CanAdd`; `BootSucceeds` says
they hold. Ranges may overlap. `clash` records that one reached into a region that `add()` does
not join with it, after which the assertions may fail. The heap's `alloc` finds a dry
list, takes frames and adds them in three steps, as its lock is not held in between.

*Processes.* Each section under the lock of `PROCESSES` or of one process is a step:
`clone` allocates, fills in, then spawns; `exit_current` marks the zombie and then posts;
`wait4` looks, sleeps on the semaphore, finds and reaps. Signal frames on the user stack are
reduced to the masks they save. Each process makes the calls its program lists, in any order.

*User memory.* Table pages and user pages are the same frames, and any allocation may fail.
`unmap_range`, `replace_zeroed` and `protect_range` go page by page, and within a page from
the release of an emptied table page to the clearing of its entry (`OpUnmap`, `OpClear`), one
step each, interleaved with the other process; so do the rollbacks. The remaining calls are one
step under the process lock. `Leaf` keeps what the architecture grants for the permissions
asked for. `gone` names the pages that a failed call could not put back, `view` what each page
should show.

*Files.* A call that takes a path resolves it, acts on the inode and enters the result in
separate steps; another process runs in between. An open file has a lock of its own.

*Hypervisor.* `Enter` switches contexts and enters a guest, an exit brings the CPU back,
`Poll` reads one serial byte, and one `Handle*` action serves the exit. The guests are
external: each does any operation its program lists, in any order. The branch of `run()` for
a current guest that is done while the other is not has no action: `OnTurn` is proved, and it
says that the branch is never taken. `spi` has the lines of devices that are up: an EOI does
not lower them, the guest's acknowledgement does (`HandleAck`). An interrupt number that is
spurious by the time it is read stops the guest (`HandleSpurious`).

## Runs

All runs pass. Each property has a mutant: a slip in the model, of the kind a slip in the
code would be, that the same run refutes.

| Run | Properties | Shows |
|---|---|---|
| `sched` | `NoSharedStack`, `ParkedIsSaved`, `ReadyRuns`, `SleeperWakes` | no two CPUs on one stack; a task that can be found has been saved; ready tasks run and sleepers wake |
| `mutex` | `MutualExclusion`, `FreeIsNoticed`, `LockReturns` | exclusion and no lost wakeup although a woken task may be overtaken; `lock()` returns |
| `channel` | `ImplementsFifo`, `AllReceived` | item and token move in separate steps, and still refine an atomic queue; delivery |
| `virtio_block` | `BuffersLive`, `RequestReturns` | the device holds the buffers of exactly the request that waits for it, never of one that has returned; requests return in spite of stale completion tokens |
| `ext2_blocks` | `BypassCoherent`, `BulkReadSeesLatest`, `Recoverable` | cached and bulk transfers of two tasks agree, outside `lost` and `stale`; what a barrier covered survives a power cut |
| `phys_memory` | `BootSucceeds`, `MemoryExact`, `Exclusive`, `ScanFindsFirst`, `HeapSound` | from reported ranges to frames to heap blocks: nothing lost at boot, nothing given out twice; the skipping scan is right |
| `process` | `NoLostWakeup`, `TableIsSound`, `MaskIsKept`, `ZombieIsReaped` | fork/exit/wait trees and signals: no wakeup lost, the `expect`s on the process table hold, masks are given back, zombies are found |
| `user_memory` | `NoFrameShared`, `HardwareIsKnown`, `PagesKeepBytes` | with frames running out: a frame has one user, page tables agree with the page map outside `gone`, a page shows what its process wrote or zeros |
| `files` | `DescriptorsSound`, `ExclusiveCreate`, `SharedWrites`, `NameIsKept`, `RecvEnds` | descriptors, `O_EXCL`, shared offsets, renames and receiving sockets under races of two processes |
| `ext2_meta` | `Accounted`, `LinksMatch`, `DirectoriesFormTree`, `DirectoriesSound` | bitmaps and counters match what is reachable, link counts match entries, directories stay a well-formed tree |
| `ext2_mount` | `CleanIsConsistent`, `UnmountIsDurable` | an image marked clean is consistent; a successful unmount is on the disk, through failures and power cuts |
| `hypervisor` | `ContextIsOwn`, `TimerKept`, `TimerTaken` | each guest runs with its own registers, tables and timer; an idling guest gets its timer interrupt |

Deadlock is checked in `sched`, `mutex`, `virtio_block` and `ext2_blocks`. Elsewhere the
system may stop: senders finish and receivers wait, all processes have exited or sleep with
no one to wake them, a plan of calls is used up, a machine has no memory left, both guests
are done.

### Bounds

- `sched`: 2 CPUs, 2 threads, 1 wait queue, slices of 2 ticks, sleeps to 2. Every pair of
  steps races: a task leaving one CPU and found by the other, with one more (and the idle
  tasks) to switch to. The theorems hold for any number.
- `mutex`: 4 tasks (one inside, one woken, one overtaking, one queued). `channel`: 2 + 2
  tasks, 2 items. `virtio_block`: 2 tasks, the handler, 2 stale tokens.
- `ext2_blocks`: 2 tasks (a reader in the middle of a writer's transfer), 2 blocks, 2 values,
  capacity 1. Every miss evicts, an interval may be partly cached, an old block differs from a
  new one. The theorems hold for any number of each.
- `phys_memory`: pages 0..5, 3 ranges, 4 regions, extents to 4: every way in which ranges
  touch, overlap, join and meet the image, unaligned region starts, extents that fit one region only.
  The heap has pages of 2 units, grows by 2 pages, and is used by 2 tasks (symmetric) with 3
  live objects of 4 layouts: both classes, a large and an over-aligned object. It is
  exercised on one memory of four pages (`MCHeapMemory`), which two growing tasks use up.
- `process`: 3 processes, signals 9 and 17 (one of which cannot be blocked, one of which is
  ignored by default), two handlers, the empty and the full mask, 1 extra token, 1 nested
  frame, x86_64. Two programs: all three fork and wait; one does every signal call while the
  other kills. `MaskIsKept` for deeper nests is proved.
- `user_memory`: 12 frames, 2 processes, 2 levels of tables with fanout 4, x86_64, four
  pairs of programs. Twelve frames are fewer than two full spaces need, so allocations fail.
- `files`: 6 nodes, 5 names, two mounts, 2 sockets, 6 descriptors, 2 processes and nine
  pairs of programs: appending, racing opens, a mover and a maker of names, descriptors,
  sockets, waiting, the remaining calls.
- `ext2_meta`: 10 blocks in groups of 5, 4 inodes in groups of 2, 1 direct pointer and two
  levels of indirection with 2 pointers each, plans of up to 5 calls. Failing writes are in
  plans of their own (`MCFaulty`), with one failure. One plan starts from an image, as Linux
  would have written it, in which two inodes share an attribute block.
- `ext2_mount`: a superblock with one backup, one descriptor block, 2 bitmaps, a cache of 3,
  2 units that are allocated and freed any number of times, 2 failures.
- `hypervisor`: 5 pairs of guest programs, register values 0..1, 1 byte on the line, 2 in a
  receive buffer, two places for a disk queue: in the guest's own memory, and in the block of its device tree.

`MaxSleep`, `MaxItems`, `MaxStale`, `MaxAdds`, `MaxCount`, `MaxFrame`, `MaxLive`,
`MaxTokens`, `MaxFrames`, `MaxPid`, `MaxNode`, `MaxOpen`, `MaxBytes`, `MaxFaults`,
`MaxValue`, `MaxLine` bound the models. `TimeSlice`, `MaxBlocks`,
`MaxRegions`, `MaxFd`, `MaxSymlinkDepth`, `Page`, `GrowPages`, `Levels`, `Fanout`, `MaxRx`
are small values of the code's constants.

### Fairness

- *Scheduler.* A CPU inside the scheduler goes on (`WF`): interrupts are off and nothing
  there waits but for spin locks. Timer interrupts are latched, so `Tick` is strongly fair. A
  CPU spinning for a raw lock gets it if it is free again and again (`SF`); the code's
  test-and-set locks guarantee this only on hardware with fair arbitration.
- *Mutex, channel, device.* Calls by tasks are never assumed: `LockReturns` is for the case
  that new callers stop, because a woken task may be overtaken for ever otherwise. Receivers
  are assumed to call `recv` in `AllReceived`. The device completes requests in
  `RequestReturns`, and its latched interrupt is taken.
- *Processes.* A process inside the kernel goes on (`WF` of `Kernel(p)`), which is what
  `ReadyRuns` gives. Nothing is assumed of what programs do.
- *Files.* A waiting call polls again and time passes (`WF` of `Turn`, `Tick`): the loops of
  `recv`, `ppoll` and `select` keep polling the device and spin in between (`net.rs:381`), with
  the lock of the stack free. Such a loop takes its next turn whenever its task has a CPU, and
  that the task gets one is what `ReadyRuns` says.
- *Hypervisor.* The host goes on (`WF`). Of a guest it is assumed, strongly, that it idles
  again and again and acknowledges an interrupt it was given, as long as no device's line
  keeps throwing it out (`spi = {}`), and that an expired timer interrupts it. Without the first the other guest starves, as the code does not slice time.

## Proofs

*Scheduler* (`SchedProofs`, for every set of CPUs, threads and queues and every time
slice): `IInv` is inductive, and gives type correctness, `NoSharedStack`, `StateIsPlace`,
`ParkedIsSaved`, `LockCrossesSwitchOnly` and `RunsAsItself`. None of these is inductive
alone. `NoSharedStack` needs that a task in a queue is parked, which needs that a state
names a unique place (`StateIsPlace`), which needs to know of each CPU which of the three
phases of a switch it is in: settled (`current` is on its own stack), leaving (`prev` is
recorded, `current` is already the next task) or arriving (`prev` not yet disposed of);
`CpuInv` says so, `TaskInv` ties a task's program counter to its place and `LockInv` says
who holds a raw lock. Lemmas on sequences and on the places come first, then one lemma per
action: the calls of tasks, then the steps of a switch. Assumptions: `SchedAssumption` (the boot CPU
exists, idle tasks are not threads).

*Synchronisation* (`SyncProofs`). The three users of `Semaphore` share the lemmas about its
steps: what a wait, a post and the switch away from a task do to counts, queues and phases.
- Mutex (any set of tasks): `MutexInv` (the token is in the semaphore or with the one task
  inside; the queue has exactly the blocked callers, once each; a free mutex with waiters has
  an awake one) is inductive and gives `MutualExclusion` and `FreeIsNoticed`.
- Channel (any finite sets of senders and receivers, any number of items): `ChannelIsFifo` is
  the refinement, `Spec => F!Spec`: initial states are initial, a push or a pop is a step of
  `Fifo`, all else stutters. A pop is one only if the queue has an item, which `Counted` gives
  (items in the queue = tokens in the semaphore + tokens receivers have taken + tokens senders
  owe). The same invariant gives `ItemIsThere` (the `expect` of `recv` holds) and `Guarded`
  (one task at a time is in the deque).
- Block device (any set of tasks, any number of stale tokens): `VirtioInv` gives `BuffersLive`
  and `NoLostCompletion` (a task asleep on a completed request has its interrupt pending or
  its handler about to post). It needs the token of `op_lock` (`OpToken`), who is on which
  wait queue (`VirtioWaiting`), and that a completed request is announced by the interrupt,
  the handler or a token until its requester looks (`Announced`).

*Processes* (`AppProofs`, any number of processes, any signals, handlers, masks,
programs and each architecture, under `ProcessAssumption`): `IInv` is inductive and gives
`NoLostWakeup` and `TableIsSound`; with it every step satisfies `MaskIsKept`. The two
invariants need `Birth`: a number not yet given out is unused, and a child that is being made
is listed under the parent making it and has not run. Without it, a new process could
take over a table entry or a zombie. `NeverBlocked` (SIGKILL and SIGSTOP are in no mask, in
force or saved) is what makes a mask restored by sigreturn or sigsuspend equal to the one
saved, since both remove these signals again. There is one lemma per action for each
conjunct the action can disturb; `Core` collects the part of the state the table depends
on, so that the signal calls, which leave it alone, are dealt with together.

*Hypervisor* (`AppProofs`, any guest programs and register values): `HvInv` is
inductive and gives `ContextIsOwn` and `TimerKept`. `ContextIsOwn` speaks of the guest that
runs; it needs `ContextKept`, which says of both guests where their registers are: on the
CPU, still on the CPU after an exit (`prev`), or in the `Guest` structure. With
`HvInv`, `OnTurn` is inductive: every branch that stops a guest passes the CPU on.

*Memory* (`MemoryLemmas`, `MemoryProofs`, any size of memory, any ranges and any image, any use of the
heap): `FrameInv /\ BootInv` is an invariant of `HeapSpec`, the specification that is
model-checked, and gives `Exclusive`, `BootSucceeds`, `MemoryExact`, and `FreesSucceed` and
`NothingLeaks` (the assertions of `free_frames` hold for whatever `alloc_frames` returned, and
`available_frames` is the number of unmarked frames). `FrameInv` adds that regions share
neither frames nor bits of the bitmap and that a hint stays inside its region; without it two
regions could set the same bit. `BootInv` says why the boot cannot fail without a `clash`: the
collected list is sorted and disjoint (with one it is still ascending, and has every page), so regions are registered in the order of their addresses and everything
registered lies below what is to come (`InOrder`); and only one region can have the image
inside it, so there is room for one piece more than there are regions (`Room`).
`Whereabouts` says that every usable page is managed, in a piece, or in a region to be cut.
The lemmas are about least elements, powers of two and alignment, extents and their bits,
insertion into and merging of sorted lists, and the pieces of a cut region. Assumptions:
`FrameAssumption`, `BootAssumption` (fewer ranges than the allocator has regions),
`SlabAssumption`.

*Heap* (the same modules; any page size, growth and layouts, any tasks):
`HeapInv` is inductive and gives `HeapSound`. `HeapSound` says that nothing overlaps, which a
step of `alloc` keeps only because a block of a class is a multiple of the class on a page
that has no other class (`BlocksPlaced`), is once in a free list or with one object
(`BlocksOnce`), and because the extents behind these pages, those of large objects and those
a task has taken and not yet cut up are different ones (`ExtentsSound`). Two tasks that grow
one class at once are covered. That two blocks do not overlap is then arithmetic: a power of
two divides a larger one, so a block does not cross a page; a large object begins at a
multiple of its extent, and its alignment divides that.

*Search* (lemma `ScanOp` of `MemoryLemmas`): the loop of `find_free_run`, a recursive function
that skips past the first used frame of a run, returns the first aligned free run. The
recursion has a solution, because every turn is further on and comes to an aligned offset,
where `FindFreeRun` is the value; and in a solution there is no last aligned offset that has
another value (the least distance from the end, by `WFMin`, which takes a relation and not an
operator). `ScanFindsFirst` follows for every reachable state.

*Block cache and ext2* (`CacheProofs`, any blocks, values, capacity and order of eviction):
- `CacheInv` (a block reads as it was last stored; a clean entry is what the device has; what
  the device has, now or after a power failure, dates from the last barrier or later) is an
  invariant of the cache and gives `Recoverable`. It does not mention the access order. It is
  `CacheBut` with no exceptions; every operation keeps `CacheBut` for any two sets of blocks
  taken out, as `lost` and `stale` are.
- `Ext2Inv` adds that a block of a bulk write in flight is not dirty, and that a bulk reader's
  `seen` has what the device has and what is to come. It gives `BypassCoherent`,
  `BulkReadSeesLatest` and `Recoverable` for `Ext2Spec`, for any number of tasks.
- `MountInv` gives `CleanIsConsistent` and `UnmountIsDurable`, for any number of copies,
  units and failures. `Ordered` says that a call ends with its only barrier, with every copy
  stored or still to be stored before it; `Marked`, that the marker is off wherever it may
  be read from while the filesystem is mounted, up to the last part of an unmount;
  `Counted`, that the counters in memory are those of the bitmaps and that outside of a mount
  nothing the device can still bring back says otherwise. The last is what a power failure
  between two writes of a call depends on. Assumption: `Ext2MountAssumption` (superblocks,
  descriptors and bitmaps are in different blocks).

*Files* (`FileLemmas`, and `FileProofs` for the writes and the theorems; any number of
processes, descriptors, open files and inodes, any programs and paths): `FilesInv` is inductive and gives `DescriptorsSound`, `ExclusiveCreate`
and `SharedWrites`; with it every step satisfies `NameIsKept`. Its conjuncts:
- `Descriptors`: every descriptor, also of a process that is gone, refers to an open file
  that is in use, and a process that has begun to open a file still has a free descriptor at
  the end (only the process itself uses its table, however long the call takes).
- `Created`: the inode an exclusive open has made is in use, so `NextIno` gives the next such
  call another one.
- `Moving`: with one process that removes names, what its rename has found stays at the old
  name until it is also at the new one. `Bare` (only directories in use have entries) is
  needed for a new inode to start without any.
- `Sharing`: in programs that append, the offset of the shared open file is the end of the
  file, except for the one process that holds its lock and has written one byte that is not
  counted yet; each process has as many bytes in the file as it was told.

The lemmas are about trees (what each call of `RamFs` does to kinds and names), about the
descriptor tables, and about the members of a sequence to which one is appended; then there is one
lemma per call and conjunct. Paths are not opened up: the proofs hold for whatever a path
resolves to. Assumption: `FilesAssumption` (the tree at the start is a tree, with an empty file
to share). `NextIno` and `lowest_free_fd` are least elements, which
the lemma `MinOp` derives from the well-foundedness of `<`.

Only model-checked:
- liveness (`ReadyRuns`, `SleeperWakes`, `LockReturns`, `AllReceived`, `RequestReturns`,
  `ZombieIsReaped`, `RecvEnds`, `TimerTaken`), which is outside the prover's reach;
- the properties of `UserMemory` and `Ext2Meta`: page tables and block trees are walked by
  recursive operators, as in the code, in modules the prover then does not handle, and what
  a walk returns for every depth needs induction over it.

## Known disagreements

What the code does where a comment, a document or a caller's expectation says otherwise, met
while modelling. Each is outside the passing properties, whose statements or bounds say so;
the hazards in `PROJECT.json` carry the lines.

*Scheduler and memory*
- `kor-sched/src/lib.rs:359`: the suspended `schedule()` frame of an exited task keeps an
  `Arc` of another task, whose stacks are then not freed (cf. the comment at 398).
- `kor-arch/src/lib.rs:243`: every CPU advances the one tick count, so with n CPUs `sleep`
  is n times too short (`lib.rs:373`: "Sleep the current task for at least `duration`.").
- `kor/src/regions.rs:50`: a range that reaches into a region starting at or after it is not
  joined with that region, and the assertion of `add_region` stops the boot
  (`kor/verify/frame_allocator.rs`: "add_region maintains sorted, non-overlapping, page-aligned
  region list").
- `kor-mmu/src/page_table.rs:451`: an emptied table page is freed before its entry is cleared;
  until then the hardware may walk a frame that another processor has.
- `kor/src/frame.rs:115`: a free extent that straddles `next_hint` is not found.
- `kor/src/frame.rs:236`: the allocator's lock is taken with interrupts enabled (the comment
  at 227 says disabled), so an allocating timer interrupt spins on its own CPU's lock. The
  heap's lock is the same.
- `kor-alloc/src/slab_heap.rs:296`: two tasks may both grow a class; `alloc` may return null
  although a block was freed meanwhile.

*Block cache and ext2*
- `kor-fs/src/block_cache.rs:130`: failed evictions let the cache grow past its capacity
  (41: "Maximum number of blocks the cache may hold.").
- `kor-ext2/src/lib.rs:299`: a bulk write drops dirty entries and may then fail, which loses a
  write that was acknowledged (`block_cache.rs:157`: "the caller is about to overwrite those
  blocks in full, so any cached (even dirty) copies are stale and should simply be discarded").
- `kor-ext2/src/lib.rs:299`: a reader may re-cache old contents during another task's bulk
  write, and the entry stays (`block_cache.rs:137`: "Cached entries are kept (and remain valid,
  matching the device)").
- An unmount that fails after the marker was set may leave an image marked clean on the disk
  (`kor-ext2/src/lib.rs`, around 551); `CleanIsConsistent` excludes it (`exposed`). Opening
  never looks at the marker.
- A change may overlap an unmount (`kor-fs/src/mount.rs:172`); the model has none that does.
- Two copies of an inode that is open and unlinked disagree: writing through one leaks or
  overwrites blocks (`kor-ext2/src/lib.rs:70`). `UseDetached = FALSE` keeps such writes out.
- `dir.rs:387` panics where the comment at 293 announces an error. A fast symlink with an
  attribute block is read as a slow one (`inode.rs:815`, 1118). Truncation to 0 forgets the
  attribute block in `i_blocks`. Unlinking a device node frees the block numbered as its device
  (`inode.rs:1121`); the properties of `Ext2Meta` are for images without that (`struck`).
  `rename` counts the directory moved in the groups of its parents, not in its own.
- Failing half-way: `create_child` leaks the inode when the entry cannot be added; `mkdir`
  frees an inode whose entry is written; `rename` removes the destination before the add may
  fail; `store_xattr` leaks a block; `alloc_block_goal` leaves a bit set and counters as they
  were. These are outcomes of the model. `Accounted`, `LinksMatch` and `DirectoriesFormTree` are
  about images on which no call failed half-way; `DirectoriesSound` is about all.

*korix*
- A signal sent between `alloc_process` and the child's set-up is lost; `execve` clears
  pending signals, SIGKILL too; stale tokens make `sigsuspend` return early; it restores the
  old mask before delivery. `wait4` without children sleeps for ever; orphans are never
  reaped. Futex queues are keyed by pid and a process has
  one task, so no other task wakes one in `FUTEX_WAIT`.
- Locks can form a cycle of three: `matching_zombie` (`PROCESSES`, then a process), `mmap` (a
  process, then an open file, `syscall/mod.rs:2407`), `fstat` (an open file, then `PROCESSES`,
  2228).
- Closing a socket closes it for every duplicate; `dup2` over a socket and `exit` leak it.
  `connect` spins up to 10 s under the stack's lock, and a timed-out connection goes on being
  made. A UDP socket that cannot be bound stays in the socket set (`net.rs:208`). `O_TMPFILE` files share a name.
  `openat("/dev/null")` returns 3 whatever 3 is. `select` starts its deadline anew.
- An exited process keeps its address space. `replace_zeroed` leaks fresh frames when a
  mapping fails, and `replace_zeroed` and `protect_range` leave out pages whose rollback fails:
  they stay in the map, and every later attempt to unmap or replace them fails as well. A page
  without permissions on riscv64 is not a leaf; on x86_64 it is readable and executable, on
  aarch64 readable (`syscall/mod.rs:2366`: "Linux anonymous mappings without explicit PROT bits
  are inaccessible"). `mmap` with no fitting
  gap loops with the process's lock held.
- `kor-ramfs` sets a file's size after releasing its content, and renames in two lock sections.

*korhv*
- No time slicing: the header of `hyp.rs` (7) promises slices by PPI 30, which is never
  enabled (449–451), so a guest that does not idle starves the other. The stage-2 TLB is
  flushed on first entry only (cf. line 4); VMIDs keep the guests apart.
- A device's interrupt goes to whichever guest is current (1087), and again and again until its
  own guest lowers the line: the EOI (1092) does not. QueuePFN
  is translated when it is written (799) and, read back from the device, again at a notify
  (726), where guest 1's fails to translate and stops it. Descriptors are restored also when the poll timed out (786).
- WFI and getchar read the serial port past the multiplexer (1099–1129). The console stays
  with a guest that is done, and drops input past 256 bytes. A spurious interrupt number
  stops the guest (1076, 1150). Only the registers that the code switches are in
  `ContextIsOwn`: ELR_EL1 and SPSR_EL1 are not among them.

## Not modelled

- *Data and layout*: register and descriptor layouts, assembly, parsers (FDT, ELF headers,
  command line), console output, field offsets, timestamps, permissions, the htree flag.
- *Straight-line code*: device discovery, PCI and DMA set-up, boot of the consoles and
  registries, benchmarks, self-tests; the polled virtio path (one critical section).
- *External*: the TCP/IP stack (`smoltcp`) and `virtio-drivers`, modelled by their use.
- *Unused code*: `kor-fs/src/fd.rs` (no application uses it), `korhv`'s `gic.rs`.
- *korhv on x86_64*: one guest in a sequential loop; what can go wrong there is in VMCS
  fields and bit layouts.
- *Files*: calls that fail without a change, calls that only read (`fstat`, `readlinkat`,
  `getcwd`), terminals, mounting at run time (ENOSYS). The two directories of `linkat` and
  `renameat` are resolved in one step. `NameIsKept` is for one mover.
- *ext2*: operations on removed directories that are still open, read-only mounts, handles
  to anything but regular files.
- *Page tables*: larger leaves and their splits, and per-page locks against other CPUs: a space is used under
  its process's lock.
- *Weak memory*: shared state is reached under locks or by atomics whose acquire/release
  pairs bracket it; the models are sequentially consistent.
