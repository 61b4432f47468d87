# A TLA+ model of the ucore kernel

This directory models the kernel of the repository: ucore, a teaching operating
system for RISC-V, kept as nine versions `lab0` to `lab8` of one program. It says
what the kernel's data structures and protocols are meant to keep true, checks
that with TLC on small instances, and proves the core of it with TLAPS for every
size.

`lab8` is the last and largest version and is the reference. Its code is followed
line by line where it is complete. Where `lab8` leaves an exercise open (a body
that says "YOUR CODE"), either an earlier lab holds the complete code, and that
is modelled (the round-robin class of `lab7/kern/schedule/default_sched_c.c`,
`lab2/kern/mm/best_fit_pmm.c`), or the hint comments of the exercise say what
the body has to do, step by step, and they are followed, with the code around it
that depends on the outcome (`do_fork`, `alloc_proc`, `proc_run`), or the part is
left out and named below.

Contents: [the system](#the-system) - [the modules](#the-modules) -
[the runs](#the-runs) - [fairness](#fairness) - [the proofs](#the-proofs) -
[what the code does not keep](#what-the-code-does-not-keep) -
[what is not modelled](#what-is-not-modelled) - [the plan](#the-plan)

## The system

One processor. User processes enter the kernel through a trap, and interrupts
stay off until they return to user mode; kernel threads (`initproc`, the threads of
`check_sync`) run with interrupts on except where the code saves and clears the
flag. The kernel is not preemptive: `trap()` calls `schedule()` only on the way back
to user mode. So concurrency is this: any order of processes at the points where
they block or return to user mode, and the timer interrupt at almost any
instruction of a kernel thread. It is enough to make wakeups, timers and kills hard.

| component | state | operations | what makes it hard | what makes it right |
|---|---|---|---|---|
| Scheduler (`schedule/sched.c`, round robin) | run queue, `time_slice`, `need_resched`, `current` | `schedule`, `wakeup_proc`, `RR_*`, the tick | a timer wakes the process that has just marked itself SLEEPING and is still `current` | the run queue is exactly the RUNNABLE processes off the processor; nobody starves |
| Timers (`sched.c`) | a list of differences | `add_timer`, `del_timer`, `run_timer_list`, `do_sleep` | additions and deletions by sleepers that are killed; two timers due at once | nobody's due time changes; no assertion fails |
| Processes (`process/proc.c`) | `state`, `wait_state`, `flags`, `parent`, `nr_process` | `do_fork`, `do_wait`, `do_exit`, `do_kill`, `do_yield`, `init_main` | a child dies while its parent decides to sleep; orphans; kills at any point | no wakeup lost, every zombie is reaped, `initproc` ends last |
| Process tree, pids | `proc_list`, `hash_list`, `cptr/yptr/optr`, `last_pid`, `next_safe` | `set_links`, `remove_links`, `get_pid`, `find_proc` | pointers in a half-changed tree; a bound on safe pids that gets old; wrap around | pids unique, the tree is a tree, `get_pid` ends |
| Semaphores, wait queues (`sync/sem.c`, `wait.c`) | `value`, queue of `wait_t`, `wakeup_flags` | `__down`, `__up`, `wakeup_wait`, `wakeup_queue` | the interrupt between `wait_current_set` and `schedule`; a kill of a waiter | units are neither lost nor made up, first come first served |
| Page allocators (`mm/default_pmm.c`, `lab2 best_fit_pmm.c`) | free list through the `Page` structs, `property`, `PG_property`, `nr_free` | `init_memmap`, `alloc_pages`, `free_pages` | split and merge on a list kept by address | list, marks and count describe the free pages |
| File blocks (`fs/sfs/sfs_inode.c`, `bitmap.c`) | `freemap`, `unused_blocks`, direct and indirect blocks, `din` and disk, `dirty` | growing and emptying a file, load, fsync, reclaim | a full disk halfway; an inode read again that was never written back | no block lost or shared, no hole |
| Open files (`fs/file.c`, `fs/fs.c`, `vfs/inode.c`) | tables of entries, `files_count`, `ref_count`, `open_count` | open, close, dup, copies at fork, closing at exec and exit | an entry closed by two paths or by none; an exec that fails halfway | counts are the references there are |
| Keyboard (`fs/devs/dev_stdin.c`) | ring, `p_rpos`, `p_wpos`, wait queue | read, the interrupt that writes | all readers woken at once; a reader killed while its `wait_t` is in the queue; a full ring | no reader sleeps past a character; each is read once |
| Virtual memory (`mm/vmm.c`, `mm/pmm.c`, `process/proc.c`) | areas of an mm, page tables, frames and `ref`, `mm_count` | `mm_map`, `load_icode`, `copy_mm`, `do_pgfault`, `exit_mmap`, `put_pgdir` | tables taken down area by area; an exec that fails halfway; an area that runs into another | every frame has one use, a process sees what it wrote |
| Page replacement (`lab3 swap.c`, `swap_fifo.c`, `swap_clock.c`, `swap_lru.c`, `vmm.c`) | page table entries, swap slots, the managers' lists, `curr_ptr`, `visited`, `lru_use` | `do_pgfault`, `alloc_pages`, `swap_out`, `swap_in`, `*_map_swappable`, `*_swap_out_victim` | a slot is found again from `pra_vaddr`; where the clock's hand rests; counts that get old | a page is in memory or in its slot; the list is the frames in use |
| Kernel heap (`mm/kmalloc.c`) | circular list of free units | `slob_alloc`, `slob_free` | merge with both neighbours in a circular list | planned |

How they interact: `do_sleep`, `do_wait`, `__down` and `dev_stdin_read` mark the
current process SLEEPING with a reason (`wait_state`) and call `schedule()`; the
timer interrupt, `do_exit`, `__up` and `dev_stdin_write` call `wakeup_proc`, and so
does `do_kill` for any reason that has the bit WT_INTERRUPTED. `do_fork`, `do_execve`
and `do_exit` call the file tables, which count references to inodes; an inode
whose count reaches zero is reclaimed by the file system, which writes it back. The same
three build, copy and take down address spaces, whose frames come from the page
allocator; a page fault takes frames too, and in `lab3` asks the swap manager for a
victim when there is none.

`PROJECT.json` lists all components, also those without a model, and under
"hazards" each place in the code where these things bite, with the properties
that cover it.

## The modules

| module | models | composed with |
|---|---|---|
| `Sched` | run queue, round robin, `schedule`, `wakeup_proc`, timer list, tick | extended by `Kernel` and `Stdin` |
| `Kernel` | processes, traps, fork/wait/exit/kill/sleep, semaphores | `Sched`; refines `SemSpec` |
| `SemSpec` | abstract: what `up` and `down` promise | |
| `KernelInv` | the inductive invariant of `Kernel` | |
| `MCKernel` | small instances of `Kernel` for TLC | `KernelInv` |
| `KernelProofs` | proofs of `Kernel` | `KernelInv`, `SemSpec` |
| `GetPid` | `get_pid`, one list element per step | refines `PidSpec` |
| `PidSpec` | abstract: an allocator of unique identifiers | |
| `ProcTree` | pointers of the process tree, pid hash, `do_fork`, `do_exit`, `do_wait` on them | extends `GetPid`; refines `FamilySpec` |
| `FamilySpec` | abstract: who is whose parent, exits and reaps in one step | |
| `MCProcTree`, `ProcTreeProofs` | instance, proofs | `ProcTree` |
| `PagePool` | first fit and best fit on the pointers of the free list | |
| `PagePoolProofs` | invariants and proofs of `PagePool` | `PagePool` |
| `SfsBlocks`, `MCSfsBlocks` | blocks of files on a disk that may be full | |
| `SfsProofs` | invariant and proofs of `SfsBlocks` | `SfsBlocks` |
| `Files`, `MCFiles` | tables of open files, counts of inodes | |
| `Stdin` | keyboard ring and its readers | `Sched` |
| `StdinProofs` | invariants and proofs of `Stdin` | `Stdin` |
| `FilesProofs` | invariant and proofs of `Files` | `Files` |
| `MemSpec` | abstract: a page changes only when its process asks for it, a fork copies | |
| `Vmm`, `MCVmm` | areas, page tables, frames and their counts, `load_icode`, fork, exit, page faults | refines `MemSpec` |
| `VmmProofs` | invariant and proofs of `Vmm` | `Vmm`, `MemSpec` |
| `Swap` | page faults with the FIFO, clock and LRU managers and the swap device | refines `MemSpec` |
| `SwapProofs` | invariant and proofs of `Swap` | `Swap` |

Definitions keep the source's names where they are names of TLA+ at all, and
`PROJECT.json` "map" gives the lines of each. A definition called `Mut...` is a
plausible mistake in the definition that follows it: put in its place, it breaks a
property of a run, which shows that the property depends on that line of code.

**Sched.** `current` changes only in `schedule`. A process that has called
`schedule()` and not yet disabled interrupts is in a state of its own,
`in_sched`, because a kernel thread can take an interrupt there. `run_timer_list`
runs with interrupts off, one turn of its loop per step (`TimerInterrupt`,
`ExpireTimer`, `ProcTick`), as does `add_timer` (`PassTimer`, `PlaceTimer`). A failed
`assert` sets `halt`, which stops everything. `state = "NONE"` is a slot with no
process.

**Kernel.** A slot is a process that may come and go; kernel threads and user
processes have slots of their own, since they differ in when they can be
interrupted. `pc` names the places in the kernel between which another process or
an interrupt can come; the code between two of them is one step. `user_main` and
`execve` are passed over: `initproc` may fork user processes itself. Semaphores are
numbered in lock order and a process takes them in that order, as the kernel's
locks are nested; a user process "takes locks" inside a system call and releases
them before it returns. `do_fork`, `alloc_proc` and `proc_run` follow the hints of
their exercises. `do_wait`'s search of the children and its decision to sleep are
one step though interrupts are on: no handler of an interrupt makes a zombie.

**GetPid, ProcTree.** Interrupts are off in `get_pid`, so nothing comes between its
steps but itself; they are separate steps to show that the loop that starts over
ends. A process is known by its pid. `do_exit`'s loop over the children is one
child a step, the half-moved tree being where pointers go wrong. The hash function
is a constant, any function of pids to buckets. Links of a freed process are set to
`Nil`, so that following a stale one shows.

**PagePool.** The list is modelled with its pointers (`next`, `prev` of `free_list` and
of every page) and each turn of each loop is a step: the defect below needs
both. Callers free any run of pages they own, not only the runs they got, which
is what the kernel does with blocks it splits. An allocation of more than `nr_free`
pages changes nothing and is left out. `best_fit` starts its search with a bound
of 999999 pages, more than any machine here has, and it is read as "none yet". The
history variable `doubled` says that a block was linked twice at the tail.

**SfsBlocks.** Operations do not overlap: the disk is a memory disk and answers at
once, and the kernel is not preemptive, so the semaphores of the file system are
never contended. Each turn of `sfs_truncfile`'s loops is a step. A block's content
matters only as a table of block numbers, including the arbitrary table that a block
of file data is if it is taken as an indirect block. Sizes are in bytes with blocks
of two. There is no unlink, so link counts never reach zero. Writing data is an
exercise with no body (`sfs_io_nolock`); files grow by `seek`.

**Files.** Each process has its own table: no program passes CLONE_FS. Each turn of the
loops that copy and close tables is a step. What is a reference to an inode is an
entry, the working directory of a table, `bootfs_node` and the device list.
`load_icode` is an exercise: it may close the program or leave that to the exit.
An open that fails and gives its reference back, and a fork without memory, change
nothing; creating a file is an operation the file system lacks. Two losses the
code has are in the model, bounded, and recorded in `lost` and `abandoned`
(see below).

**Stdin.** Characters are numbered in the order they are typed, at most one per tick,
and come after the timers of that tick (`trap.c:151-152`). The readers are user
processes with interrupts off in `dev_stdin_read`. What `do_exit` does after
the process has become a zombie is `Kernel`'s matter. A read of more bytes than
`sysfile_read`'s buffer is several reads.

**Vmm.** An operation (exec, fork, exit, page fault) runs to its end before another one
begins, since nothing in it blocks; each turn of its loops over areas, tables and
pages is a step, `op` being where it is. A frame holds a page table or a value, and the three
levels of a table are walked as `get_pte` walks them, with `NENTRY` entries in each
where the hardware has 512. `New` is the place of an mm under construction, which
belongs to nobody until `Attach`. `load_icode` is `lab7`'s, `copy_range` follows the hints of its
exercise. What a frame holds after it was freed is `Junk`, and the last value of a page
written is in `Written`. Out of memory stops the kernel (`OutOfMemory`: `alloc_pages` asks
for a victim of a mm that is NULL), and so does an access outside all areas or a write to
what may only be read (`WrongAccess`: `do_pgfault` fails and the handler panics, or takes
the entry for one of the swap device and follows a NULL page). `lost` records the page
tables nothing refers to any more, and `asked` what a process asked for in the last step: a write to
a page it may write to, an exit, or an execve.

**Swap.** There is one mm, `check_mm_struct`, and its client reads and writes pages as
`check_swap` does; `_page_use` is called by the client, as in `_lru_check_swap`, for any page of
`Used`, in memory or not: `_lru_check_swap` itself "uses" page 6 (`swap_lru.c:165`), which it has
not touched. `lru_use` has a count for all pages of `Counted`, more than the area has. Each turn of
`alloc_pages`' loop and of the clock's is a step (`ChooseVictim`, `SwapOut`), and the fault ends
with `MapPage`. The three managers are one module, `manager` being fixed by `Init`. The
clock's list is circular and its head is not a page: `visited[HEAD]` is whatever lies
before it in memory, and `halt = "wild"` says that the head was taken as the victim.
`arrived` and `uses` are history variables, for what the policies promise, and so is `asked`,
the client's write if the last step was one.

**MemSpec** is what both refine: the memory of a process maps pages to values. `asked` ties each
change to a request: a page that holds something changes in a step in which its process asks to
write that value, and is taken away when it asks for its exit or an execve. Without a request the kernel
may only let pages appear: one that is touched for the first time, all those of a program that was loaded, or a
copy of the parent's, and of one process at a time. So a step that swaps, maps or frees
must leave everything that is there as it is. Frames, tables, slots and victims are invisible.

## The runs

| run | question | instance |
|---|---|---|
| `kernel_locks` | Do scheduler, timers, kills, exits and a contended semaphore keep the kernel's state right? Can a process be lost in the tree, or a parent sleep past a death? | `initproc`, one kernel thread, two user processes, one mutex, sleeps of 1 or 2 ticks, quantum 1 |
| `kernel_live` | Does everybody get the processor, the lock, its reaper? | `initproc`, one kernel thread, one user process, two semaphores |
| `kernel_kill` | Does a killed process exit? (no) | `initproc`, two user processes |
| `proc_tree` | Are pids unique and pointers right, for every history of forks, exits and waits? | MAX_PID 6, MAX_PROCESS 5, two hash buckets |
| `page_pool` | Are list and answers of both allocators right up to the first double link? | 4 pages |
| `page_pool_tail` | ... and after it? (no) | 3 pages |
| `sfs_blocks` | Is any block lost, shared or missing, on a disk that fills up? | 2 files, 4 blocks, 1 direct block, 3 entries in an indirect one |
| `sfs_size` | Do size and blocks agree after a growth that failed? (no) | the same |
| `stdin` | Does a reader miss, lose or repeat a character? | 3 readers, ring of 2, 4 characters, reads of up to 2 |
| `files` | Are the counts of inodes exact through open, dup, fork, exec, exit? | 3 processes, 4 tables of 4 entries, one file, one device, one loss of each kind |
| `vmm` | Is any frame lost, shared or miscounted, and does a process see only its own writes? | 2 processes, 8 pages, 2 entries in a table, 24 frames, 6 programs good and bad |
| `swap` | Is a page found again wherever it was, and is the victim the right one? | 4 pages, 3 frames, 3 managers, counts up to 3, also of a page the client does not have |

What the properties say, by the run that checks them:

* `kernel_locks`. `AssertionsHold`: no `assert` of `sched.c`, `wait.c`, `sem.c` or the
  round-robin class fails. `RunQueueExact`: the run queue is the RUNNABLE processes off
  the processor, each once. `SleeperHasWaker`: whoever sleeps is in the queue of its
  semaphore, has a timer, or has a living child. `SemAccounting`: units free, held
  and handed over add up. `SleepCutShort`: a sleep ends early only by a kill.
  `TimersKeepTime` (an action property): no operation on the list moves anyone
  else's due time. `Lineage`: every process has a parent that can still reap it.
  `InitprocLast`: `init_main`'s assertions at its end. `IInv`: the inductive invariant of
  the proofs, of which `TypeOK` is a part.
* `kernel_live`. `RunnableRuns`, `LockGranted`, `OrphansReaped`; `SemaphoresFair`, the
  refinement of `SemSpec` (no overtaking, direct hand-over).
* `proc_tree`. `PidInv` (unique pids, a true `next_safe`), `ListsExact` (child lists,
  `yptr` where it may be followed, hash chains), the refinements `ImplementsPidSpec` and `ImplementsFamilySpec`, and
  `GetPidReturns`.
* `page_pool`. `FreeListExact`: between operations the list is sorted, maximally
  merged, agrees with itself, with `nr_free` and with the pages nobody owns.
  `AllocAnswers`: first fit and best fit find what they promise, and fail only when
  there is no such run. `OperationsEnd`.
* `sfs_blocks`. `BlocksExact`: a block is free or has one place in one file.
  `NoHoles`, `BlockAssertsHold`.
* `stdin`. `ReaderAsleep`: outside the interrupt, readers wait only for an empty
  ring, each once in the queue. `CharsOnce`: what was typed was read once, in
  order, or is in the ring, or was overwritten in a full ring. `InputReachesReader`.
* `files`. `CountsExact`: `open_count` and `ref_count` of every inode are the number of
  entries, directories and other pins that refer to it. `TablesOwned`: a table in use
  is one live process's, or was left by an exec that failed. `FileAssertsHold`: no
  assertion on counts fails, no device is reclaimed.
* `vmm`. `FramesExact`: every frame is free, or has one use and a count of 1, or is a table
  known to be lost. `VmasExact`: areas are sorted and disjoint, and nothing is mapped
  outside them. `AssertsOnlyOnOverlap` and `LossOnlyWhenSpread`: the two defects below show
  only when they say so. The refinement `ImplementsMemSpec`.
* `swap`. `ListExact`: the manager's list is the frames in use, each with the page it
  holds. `VictimPolicy`: FIFO takes the oldest page, the clock never the newest one, "LRU"
  one used least often. `StopsOnly`: a search goes wrong in three cases only. The refinement
  `ImplementsMemSpec`, and `FaultEnds`.

The type invariants of `ProcTree`, `PagePool`, `SfsBlocks`, `Files` and `Stdin` are the first
conjunct of the main invariant of each.

Bounds. Two user processes and a kernel thread are the smallest instance where one
process holds a lock, one waits and one kills; timers of 1 and 2 ticks give equal,
earlier and later insertions, and three sleepers give a head, a middle and a tail.
In `proc_tree`, four processes give a child list with a first, a middle and a last element, and five
pids for four processes make pids wrap around and meet pids still in use. In `page_pool`, four pages
hold two free blocks with a used page between them, so a freed block meets a lower
neighbour, an upper one, and both. Four disk blocks with one direct block fill the
disk before the indirect block is full, and leave room for the failure between the
indirect block and its first entry. A ring of two is overrun by three characters, and
three readers make one that is woken for nothing. Entries 0 and 1 of a table, which
exec keeps, and two that it closes are all the kinds there are. With two entries in a
table, eight pages make four page tables under two directories; the stack has a directory of its own. The
six programs are one for each way through `load_icode`: `Apart`, whose data need another page table of the
directory of its text, so that its exits lose a table; `Big`, whose text needs both, so that its exits lose none; one whose
second segment begins inside the first; one whose second segment runs into the first from below, where
the assertion fails; a malformed header; and a file that is no program. 24 frames hold two
processes of `Apart` that have touched all of their stacks, or one of `Apart` and one of `Big`, and memory
runs out beyond. Three frames are the fewest where the clock skips a page and still has a
choice, and a fourth page makes each of its faults swap; writes go to that page
only, since the others behave as it does and all are read. The client counts its uses of pages 1 to 3 and
of page 5, which is outside its area, so that a resident page without a count and a count without a
resident page both happen; counts go around after 3 instead of 9999. Bounds on data are
constants (`MaxSleep`, `MaxTyped`, `MaxRead`, `MaxLost`, `Position`); the one bound on
behaviours is the constraint `FirstDoubling` of `page_pool`, after which its
properties say nothing. Symmetry is used for user processes, files and tables, in
runs of safety properties only.

`MCFiles.cfg`, `MCSfsBlocks*.cfg`, `MCVmm.cfg` and `MCSwap.cfg` do not check for deadlock:
there the model stops when a bound is reached or `halt` is set, or when all processes
have exited. The
other runs do check it; the kernel has a step for the state it stops in (`Halted`), and
`initproc` or `idleproc` can always go on otherwise.

## Fairness

* The handler of an interrupt runs to its end: weak fairness of `Expire`/`TickEnd`
  and of the steps of the keyboard's part. It runs with interrupts off.
* The timer goes off again and again: strong fairness of `Tick`. Interrupts are not
  always enabled, but a pending one stays pending until they are.
* The kernel makes progress between two ticks: strong fairness of `KernelStep`, the
  steps that leave no choice to a program. A tick comes every 10 ms, and a critical
  section is a few hundred instructions.
* In `kernel_live`, critical sections end (`Release`, `Leave`), and a kernel thread's
  function blocks or returns now and then: kernel threads are not preempted, so
  without this one of them could keep the processor for ever, and the code relies
  on it. Nothing is assumed of user programs: they may loop, never wait, never exit.
* `GetPid`, `ProcTree`, `PagePool`: an operation runs with interrupts off, so once begun it
  takes its next step (weak fairness of `Step`, `Busy`, `Turn`). None is ever forced to
  begin. `Swap`: the same for a page fault (weak fairness of `KernelStep`), whose disk
  answers at once.

## The proofs

All constants are arbitrary, under the assumptions next to their declarations
(`SchedAssumption`, `KernelAssumption`, `FiniteAssumption`, `PidAssumption`,
`TreeAssumption`, `PoolAssumption`, `SfsAssumption`, `DiskIsSmall`, `SwapAssumption`,
`StdinAssumption`, `FilesAssumption`, `VmmAssumption`): any number of processes, semaphores, initial
values, quanta, sleeps, pids, frames, pages, entries of a page table, programs and segments, blocks, positions, readers, characters, slots of the
ring, files, tables and entries of a table. Two of them are more than a
type or an order. `DiskIsSmall`: a disk has fewer blocks than one file has entries, as `sfs.h` and the
disk image have it, so that the disk is full before the entries run out. And in
`VmmAssumption`: the pages of a stack fit one page table (256 of 512).

* `KernelProofs`: `Spec => []IInv`, and from it `TypeOK`, `AssertionsHold` and
  `RunQueueExact`. None of the three is inductive. That a wakeup never finds its process
  in the run queue already needs to know what each sleeping process is doing
  (`PcState`), that a waiter's `wait_t` is in one queue and it sleeps in `__down`
  (`Waiters`, `InDown`), that the owner of a timer is in `do_sleep` and has no second timer
  (`TimerOwners`), that the timer at the head is due later than now outside the
  interrupt (`HeadLater`), that the cursor of `add_timer` stays on the list
  (`AddTimerAlone`), which process can be interrupted where (`OnProcessor`), and
  that there is a parent to wake (`Parents`). `KernelInv` states these parts and the run
  `kernel_locks` checks their conjunction. There is one lemma per action, with a step
  for each part that the action disturbs. The facts about sequences that this and three
  other modules rest on (removal, insertion, injectivity) are at the head of each.
* `KernelProofs`, the semaphores: `up` and `down` implement `SemSpec`, and `SemAccounting`, by the invariant
  that the units of a semaphore and the owners of it are a partition of its initial
  value, on top of `IInv`.
* `KernelProofs`, who waits for whom: `Lineage`, `InitprocLast`, `SleeperHasWaker` and `SleepCutShort`, by two more
  invariants on top of `IInv`. `FamilyInv` adds to `Lineage` that nobody else runs between the
  stages of `do_exit` (`ExitRuns`), so the process that gives its children away meets no new
  ones, and that no set of processes without `initproc` is closed under `parent` (`NoCycle`).
  That is the induction along the tree in a form that needs none: applied to the set of all
  other processes, it says that if nobody is a child of `initproc`, nobody else is left, which is
  what `init_main` asserts. `SleepInv` says of each process where it is while it waits for each
  reason, and of whom it waits for that it has not passed its `wakeup_proc` yet (`Waits`). Two
  frame lemmas (`OthersWait`, `KinWait`) leave each action with only the processes it touches.
* `KernelProofs`, the timers: `TimersKeepTime`, on top of `IInv`. The tick a timer is due at is
  the sum of the delays up to it (`Sums`); that such a function exists, and that there is
  one only, is shown by a least counterexample, which stands for the induction. Then there
  is one lemma per change of the list, on these sums alone (`DueTick`, `DueExpire`,
  `DuePlace`, `DueDelete`): a tick takes one from all of them, a new timer takes from its
  successor what it has itself, a deleted one gives that back. `Nearer` says so of the
  processes instead of the places in the list, and `Later` adds the timer that `add_timer` still
  carries along the list.
* `ProcTreeProofs`: `PidInv` is inductive for `GetPid`; `GetPid` implements `PidSpec`; and
  every step of `ProcTree` is a step of `GetPid` or leaves its variables alone, so both
  hold of the process table. `ListsExact` rests on `TreeInv`: for every process there is a
  sequence of its children that `cptr` and `optr` run through and `yptr` runs back
  through (`IsList`, `Lists`); who may be in the middle of `do_fork` or `do_exit`
  (`Callers`); and a parent is dead only while it hands its children over
  (`ParentsLive`). Each action changes the sequences of at most two processes, by a new head,
  a missing first element or an element taken out. What the walk of the model's
  `Child` computes is compared with the sequence by a least counterexample (`ChildAt`),
  which stands for the induction. The refinement of `FamilySpec` maps each step of the
  hand-over to a stutter and its last to the exit.
* `PagePoolProofs`: `FreeListExact` and `AllocAnswers`, under both allocators. As the list is
  sorted, its links are a function of the set of its blocks (`Linked`), so that the proof
  of each action needs neither sequences nor induction: `LinkIn` and `LinkOut` say once what
  `list_add` and `list_del` do to such a circle. The rest of `PoolShape` says that blocks do
  not touch, except a freed one before it is merged (`Apart`, `Merging`), that a page is
  in use or in a block (`Cover`, `Counted`), and that the search has so far found what its
  policy takes (`Best`). The walk from the head meets the blocks in the order of their ranks
  (`BlockKth`), and so adds up to `nr_free` (`TotalCard`). All this ends when a block is
  linked twice; what is left even then (types, ranges, and that no page is counted twice)
  is a second invariant, `PoolBounds`.
* `SfsProofs`: `BlocksExact`, `NoHoles` and `BlockAssertsHold`, from `SfsInv`. The places of an
  inode that may refer to a block are numbered, direct ones, entries of the indirect
  block and the indirect block itself, and each action is followed on this one map
  (`RefMap`): it puts a free block into an empty place or empties one (`Puts`), or leaves the
  map alone (`SameFile`). `Exact` says that no two places have one block and the free map is
  what is left, `Filled` that the places below the count of blocks are taken, `Sized` how
  many blocks a file has while it grows or shrinks, and `OnDisk` that what would be loaded
  again is no less true than what is dropped. That the disk is full before the entries
  run out (`GrowthInRange`) is a pigeonhole on that map (`RoomLeft`).
* `SwapProofs`: `Spec => []SwapInv`, and from it `ListExact`, `VictimPolicy`, `StopsOnly` and
  the refinement of `MemSpec`, under all three managers. The parts of `SwapInv` and why
  each is needed: the frame of a victim is off the list but still in use (`Listed`); page
  table and `pra_vaddr` are inverse to each other (`Placed`), so that no two pages have one
  frame and a slot is found again; the page that faulted stays away while a victim is
  looked for (`Faulting`); FIFO's list is the history backwards (`FifoOrder`); a count equals
  the uses since the page last left memory, whether it is back or not, and that of a victim on its way out
  is unset again (`CountsTrue`), so as long as one resident page has a count, the least count belongs to a page that was
  really used that little, on the list or not in memory (`LeastIsTrusted`). For the
  clock, `HandRests` says that the hand leaves the head at the first turn of the first
  search and never comes back, though `map_swappable` puts pages before it, and
  `NewestSpared` that the search meets the newest page only after the next one on the
  list has lost its mark, with at least three frames. The refinement is a lemma per
  action on what one page shows (`Seen`): `MapPage` and `SwapOut` move a page and show
  the same (`NothingSeen`), or touch it for the first time, and only `Write` changes a page that
  shows something (`OneSeen`).
* `StdinProofs`: `ReaderAsleep` and `CharsOnce`. The first rests on `SInv`: the run queue
  holds the RUNNABLE readers (`Runnables`), a reader sleeps only while its `wait_t` is in the
  device's queue (`InQueue`), where nobody was told of a character yet, and the timer
  interrupts a reader in user mode only (`OnCpu`), so no character comes between the last
  look at the ring and `schedule()`. For `CharsOnce` the proof follows one sequence, `Out`: what
  was read and then what waits in the ring. A reader that takes characters does not change
  it, a character joins its end, and in a full ring takes the place of its first waiting
  one. That the slots are the right ones is arithmetic of `%` for a ring of any size
  (`SlotsApart`, `SlotAgain`).
* `FilesProofs`: `CountsExact`, `TablesOwned` and `FileAssertsHold`, from the invariant `FInv`. It
  says who owns each table (`Ownership`), what the operation that runs may rely on
  (`RunningOp`: the table of a child that is being forked is nobody's yet, and the entry of the
  program that `load_icode` reads is open), that every directory is the root (`InRoot`), and
  that the counts of each inode are exact (`Exact`). The assertions follow: an entry that is
  closed is itself one of those that are counted, so neither count is zero, and the last
  reference to a device is never an entry's, because the list of devices has one.
  `UseStep` and `CloseStep` prove once that opening or closing any entry of any table in use
  keeps the counts of all inodes exact, by adding an element to a finite set or taking it away.
* `VmmProofs`: `FramesExact`, `VmasExact`, `AssertsOnlyOnOverlap` and the refinement of `MemSpec`,
  from `IInv`. The page tables of all mms are trees of places: a root, directories, tables
  and pages, each place below one entry of the place above (`Place`, `Under`). `Uses` relates the
  memory to two functions inverse to each other, the use of each frame (a place, spare, lost, or
  in a process's kernel stack) and the frame at each place. So "every frame has one use" is
  the shape of a function, and an operation on tables is one of a few changes of it: a place
  is filled (`AddUses`), a set of places is given up (`PruneUses`), a root comes
  (`RootUses`) or a tree gets another owner (`MoveUses`). On top of these there is one lemma per
  operation of the code (`MapFits`, `RemoveFits`, `LeaveFits`, `DropFits`...), which says what it
  does to the contents of each page (`Contents`) and keeps `Fits`, "there is such a pair". The
  frames stay right when the kernel stops; the control state need not.
  `Phase` says of the control state what holds between two steps of an operation: an mm that
  is taken down (`Tearing`: its pages are gone up to `op.la`, and later all of them), one that is
  built (`Loading`, `Copying`: the areas so far come from the segments so far, or are the last
  ones of the parent, and the pages still to come are not mapped), and which mms there are
  and with which count meanwhile. Without "not mapped", `page_insert` would overwrite an entry and
  a frame would get lost. That areas stay sorted through `InsertAt`, unless the assertions of
  `check_vma_overlap` fail, and which overlap makes them fail, is a matter of sequences
  (`InsertSorted`, `OverlapFound`). `FramesExact` counts: the entries it lists correspond one to
  one to the places that are not empty (`Label`, `EntryPlace`, `PlaceEntry`), the roots to the mms,
  and the frames of the kernel stacks to processes times offsets (`Partition`). For the
  refinement `Made` adds to `IInv` what the new mm holds so far (`Filled` from the program, or the
  `Same` as the parent), so that the step that attaches it shows the image or the copy at once.
  Steps that answer a request change one page as asked (`Wrote`) or give up a space (`GaveUp`), and all others
  only bring pages (`Comes`, `Answered`).

Only model-checked: all liveness (`RunnableRuns`, `LockGranted`, `OrphansReaped`,
`OperationsEnd`, `InputReachesReader`, `FaultEnds`, `GetPidReturns`), which needs fairness and ENABLED,
out of the prover's reach; and `LossOnlyWhenSpread`, which needs an invariant on which
tables exist (one only where an area covers a page of it, and none alone in a directory that
`exit_range` has passed) that the proofs about frames do not follow.

## What the code does not keep

Three runs expect a violation; `PROJECT.json` "findings" has the details.

* `kernel_kill` (`proc.c:733`): a process killed while it is in the run queue after
  `trap()` has looked at PF_EXITING, which then waits for a child, sleeps as long as
  the child lives. A second kill does nothing.
* `page_pool_tail` (`default_pmm.c:148`, also `best_fit_pmm.c`): the loop that inserts a
  block has no `break` after the insertion at the tail. Its next turn links the block to
  itself; a page allocated again stays on the list.
* `sfs_size` (`sfs_inode.c:914`): a growth that meets a full disk keeps its blocks and
  the old size, and a later truncation to that size fails an assertion.

Two losses are part of `Files`, since all other properties should hold in spite of
them. A process whose exec fails in `load_icode` has no address space any more, and
`do_exit` gives files back only under `mm != NULL` (`proc.c:503`), while the
comment at `proc.c:697` says that after `do_wait` all resources are free: its table
stays in use (`abandoned`). And `vfs_open` with O_CREAT and O_EXCL on a file that exists
returns without giving back the reference of `vfs_lookup` (`vfsfile.c:46`; `lost`).

Memory has more such places, which the model follows and the properties delimit.

* `exit_range` (`pmm.c:431`) frees a directory when the entries in the range of one area all
  had a table, though the comment above asks for all entries to be invalid. A page table may then be
  lost, but only if an area needs one in a directory it shares with an earlier area that does
  not need that table itself (`LossOnlyWhenSpread`): so it is with `Apart` of `MCVmm`, and not with `Big`, though
  that needs two tables of one directory as well.
* `mm_map` (`vmm.c:172`) looks for an area at the first page of the new one only. A
  segment that begins below an earlier one and runs into it fails an assertion of
  `check_vma_overlap`, where `mm_map` would return an error (`AssertsOnlyOnOverlap`).
* No caller of `alloc_page` ever sees NULL once swap is on: `alloc_pages` (`pmm.c:63`) calls
  `swap_out` with a NULL mm. A write to a read-only page follows a NULL pointer (`vmm.c:484`).
* The clock (`swap_clock.c:90`) never looks at the last page of its list, and at its first
  search looks at the head as if it were a page. What is called LRU
  (`swap_lru.c:78`) takes the page used least often; when no resident page was used, or their
  counts have gone up to 9999, or `_page_use` was called for a page that is not in memory
  (`swap_lru.c:165`) and whose count is the least, its search may not end, or take the head
  (`StopsOnly`: only then).

`Stdin` shows one more instance of the first finding's kind: a killed reader whose
`wait_t` is met by a character before it runs may go back to sleep (`dev_stdin.c:59`).

## What is not modelled

* Exercises without a body: the stride scheduler, monitors and the philosophers on
  condition variables, `sfs_io_nolock`. (`copy_range` has hints and `load_icode` is
  complete in `lab7`: both are in `Vmm`.)
* The kernel heap: planned. `Vmm` takes the structures of an mm and its areas as given.
* Address spaces shared by processes (CLONE_VM, which no program passes, and with it the
  lock of an mm), the TLB, `user_mem_check` and the copies to and from user memory, the
  boot time page tables. A swap device that fails: the memory disk does not.
* In the file system: path names, directories and their entries, the inode hash, mount
  and unmount, the positions and the data of reads and writes, copies from and to user
  memory.
* Drivers, console, boot, traps' assembly, the disk: copies and registers, with no
  state a property could be about. The disk answers at once.
* Libraries (strings, formatting, hashing), user programs, the tools that build the disk
  image, and the earlier labs, each of which is a stage of the same code.

## The plan

Done, in this order: scheduler, processes and semaphores with the proofs of their
invariants and refinement; pids and process tree with the proof of `get_pid`; page
allocators; file blocks; keyboard and open files with the proofs of their invariants; virtual
memory; page replacement with the proofs of its invariants and refinement; the proofs of
the timers, of virtual memory and of its refinement.

Next:

1. `Slob`: the kernel heap, as `PagePool`, with sizes in units and a circular list.
2. The philosophers of `check_sync.c` as a client of `SemSpec`: neighbours never eat
   together, and no deadlock.
3. `SfsDir`: directory slots, `sfs_lookup`, and the inode cache (`sfs_load_inode`), composed
   with `Files`.

Theorems to come: `LossOnlyWhenSpread`, by following which tables exist through the lemmas
of `VmmProofs`.
