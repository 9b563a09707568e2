# Verification project for OSN-M26: the xv6 kernel with an MLFQ scheduler, and c-shell

The repository holds two programs: a RISC-V **xv6** kernel whose round-robin
scheduler has been given a multi-level feedback queue (`src/xv6`, built with
`make SCHEDULER=MLFQ`), and **c-shell**, a POSIX shell with pipelines, job
control and a few "exotic" commands (`src/c-shell`). `src/mini-project1` is an
older, smaller copy of the shell and `src/test_folder` a copy of both programs;
neither is modelled apart.

This directory holds TLA+ specifications of that code, TLC configurations that
check them on small instances, and TLAPS proofs for every value of the
constants.

## 1. The system

### 1.1 xv6 kernel (`src/xv6/kernel`)

| Component | State | Operations | Talks to | What is hard |
|---|---|---|---|---|
| MLFQ scheduler (`proc.c`, `trap.c`) | `proc[NPROC]`: state, `queue_level`, `ticks_consumed`, `enter_time`, `lock`; `cpus[]`: `proc`; `ticks` | `scheduler`, `yield`, `sched`, tick code of `usertrap`/`kerneltrap`, `clockintr` with the boost | every blocking operation enters `sched` with `p->lock` held | lock handed across `swtch`; unlocked tick accounting against the boost; a scan that is not atomic |
| Round-robin scheduler (default build) | `proc[].state`, `cpus[]` | the `#else` branch of `scheduler`, `usertrap`, `kerneltrap` | same | same hand-over |
| Sleep / wakeup / kill (`proc.c`) | `chan`, `killed`, `state` | `sleep_prepare`, `sleep`, `wakeup`, `kkill`, `setkilled`, `killed` | every device, pipe, log, sleep-lock and `wait` | lost wakeups; a kill between the test and the sleep |
| Process life (`proc.c`) | `parent`, `state`, `xstate`, `pid`, `wait_lock` | `allocproc`, `kfork`, `kexit`, `reparent`, `kwait`, `freeproc` | sleep/wakeup, file table, inodes | orphan re-parenting against exit; the zombie still on its stack |
| Spinlock (`spinlock.c`) | `locked`, `cpu`, `noff`, `intena` | `acquire`, `release`, `push_off`, `pop_off`, `holding` | everything | interrupt handler taking a lock its hart holds |
| Sleep-lock (`sleeplock.c`) | `locked`, `pid`, inner spinlock | `acquiresleep`, `releasesleep`, `holdingsleep` | sleep/wakeup | waiting without losing a wakeup |
| Pipe (`pipe.c`) | `data[512]`, `nread`, `nwrite`, `readopen`, `writeopen` | `pipealloc`, `pipeclose`, `pipewrite`, `piperead` | file table, sleep/wakeup | full/empty waits, close while the other side sleeps, counter wrap |
| Write-ahead log (`log.c`) | header, `outstanding`, `committing`, `ncommit`, disk log | `begin_op`, `end_op`, `commit`, `log_write`, `recover_from_log`, `sys_sync` | buffer cache | a crash between any two block writes; group commit; log space |
| Buffer cache (`bio.c`) | LRU list, `refcnt`, `valid`, sleep-lock per buffer | `bget`, `bread`, `bwrite`, `brelse`, `bpin`, `bunpin` | virtio disk, log | one buffer per block while buffers are recycled |
| Virtio disk (`virtio_disk.c`) | descriptor free list, avail/used rings | `alloc3_desc`, `virtio_disk_rw`, `virtio_disk_intr` | device, sleep/wakeup | completion in any order, descriptors exhausted |
| Inodes (`fs.c`) | inode table `ref`/`valid`, on-disk inode `type`/`nlink` | `iget`, `idup`, `ilock`, `iput`, `ialloc`, `itrunc`, `ireclaim` | log, cache | the last `iput` against a new `iget`; orphans over a crash |
| Block allocator, `bmap`, `readi`/`writei` (`fs.c`) | bitmap, block addresses | `balloc`, `bfree`, `bmap`, `itrunc`, `readi`, `writei` | log | partial writes when the disk is full |
| Directories and paths (`fs.c`, `sysfile.c`) | directory entries, link counts | `dirlookup`, `dirlink`, `namex`, `link`, `unlink`, `create`, `open`, `mkdir` | inodes, log | lock order along a path, failure half-way |
| File table (`file.c`, `sysfile.c`) | `ref`, type, offset; each process's descriptors | `filealloc`, `filedup`, `fileclose`, `fileread`, `filewrite`, `open`, `dup`, `close` | pipes, inodes, console | one offset for all who share a file; last close; multi-transaction writes |
| Memory (`kalloc.c`, `vm.c`) | free list, page tables, `sz` | `kalloc`, `kfree`, `uvmalloc`, `uvmcopy`, `uvmdealloc`, `vmfault`, `sbrk` | fork, exec, exit, wait | failure half-way through a copy, lazy allocation |
| Exec (`exec.c`) | the address space that is being built | `kexec`, `sys_exec` | memory, inodes | eight places to fail before the commit point |
| Console, UART (`console.c`, `uart.c`) | input ring `r`/`w`/`e`, `tx_lock` | `consoleread`, `consolewrite`, `consoleintr`, `uartwrite`, `uartintr` | sleep/wakeup | ring indices, line editing while readers wait, echo against output |
| System call table, traps | - | `syscall`, `usertrap` | all | - |

The hard behaviours all come from the same three sources: harts that interleave
at every unlocked instruction, device and timer interrupts, and crashes between
two disk writes.

### 1.2 c-shell (`src/c-shell/src`)

| Component | State | Operations | What is hard |
|---|---|---|---|
| Jobs (`jobs.c`, `exotic.c`) | `jobs[MAX_JOBS]`: pid, state, group | `add_job`, `update_jobs_status`, `sigchld_handler`, `resume`, `ping` | the SIGCHLD handler reaps any child, at any instruction |
| Execution (`execute.c`) | children, pipes, process group, the terminal's group | `execute_pipeline` | foreground `waitpid` against the handler's; groups set on both sides of a fork; ends of pipes held by three processes |
| Lexer, builtins (`lexer.c`, `builtin.c`) | token buffer, `hop` database | `tokenize_input`, `execute_hop`, `record_hop`, `find_frecency_match` | limits of the fixed buffers |

As committed, `c-shell` does not build: `include/lexer.h:21` declares
`execute_pipeline` with two parameters while `execute.c` and `main.c` use three,
and `find_job_by_pgid` (`include/jobs.h:28`) is used but not defined. Its models
take the three-parameter form, and the missing function's name for its meaning.

## 2. The modules

| Module | Models | Instances | Proofs |
|---|---|---|---|
| `Mlfq` | the MLFQ scheduler, on every hart | `MCMlfq` | `MlfqProofs` |
| `SleepWakeup` | `sleep_prepare`, `sleep`, `wakeup`, `kkill`'s wakeup | - | - |
| `Mutex` | abstract: what a sleep-lock promises | - | - |
| `Sleeplock` | `sleeplock.c` over `SleepWakeup`; implements `Mutex` | `MCSleeplock` | `SleepProofs` |
| `ProcTree` | abstract: the tree of processes by pid | - | - |
| `ProcLife` | `kfork`, `kexit`, `kwait`, `kkill`; implements `ProcTree` | `MCProcLife` | `SleepProofs` |
| `Fifo` | abstract: a bounded byte queue | - | - |
| `Pipe` | `pipe.c` over `SleepWakeup`; implements `Fifo` | itself | `SleepProofs` |
| `AtomicDisk` | abstract: a disk that groups of calls change atomically | - | - |
| `Log` | `log.c` over `SleepWakeup`; implements `AtomicDisk` | `MCLog` | `LogProofs` |
| `Virtio` | `virtio_disk.c` and the device, over `SleepWakeup` | through `Bcache` | through `BcacheProofs` |
| `Bcache` | `bio.c`, composed with `Virtio` by `EXTENDS` | `MCBcache` | `BcacheProofs` |
| `Fs` | inodes, directories, paths and their system calls | `MCFs` | `FsProofs` |
| `Tty` | abstract: a line-edited terminal | - | - |
| `Console` | `console.c` and `uart.c` over `SleepWakeup`; implements `Tty` | through `FileIo` | `FileIoProofs` |
| `ByteFile` | abstract: files as sequences of bytes | - | - |
| `FileIo` | descriptors, the file table and inode contents, composed with `Console` by `INSTANCE`; implements `ByteFile` | `MCFileIo` | `FileIoProofs` |
| `Vm` | pages and address spaces: `kalloc`, `fork`, `exec`, `sbrk`, page faults, `exit`, `wait` | `MCVm` | `VmProofs` |
| `Shell` | c-shell's pipelines and jobs over a model of the kernel it runs on | `MCShell` | `ShellProofs` |

The modules stack as the code does. `Bcache` takes from `Mutex` what a
sleep-lock is, since `Sleeplock` is shown to implement it; `Fs` takes from
`AtomicDisk` what the log is, since `Log` is shown to implement that. `FileIo` is
the part of the file system `Fs` leaves out, the contents, and takes from `Mutex`
what an inode's lock is; behind a descriptor it has either such a file or the
console. `Mlfq`
treats sleep and wakeup as the change of state they are to the scheduler;
`SleepWakeup` in turn leaves out which hart a process runs on, and lets any
process that is RUNNABLE take the next step.

In every module an operator that carries the comment *seeded fault* is not part
of the specification: it is a variant of the operator below it with a plausible
mistake in it, and `PROJECT.json` (`mutants`) says which property notices.

### 2.1 Mlfq

The code has no queues. A process is "in queue l" when it is RUNNABLE with
`queue_level` l, and each hart finds the head by scanning the table. `pc[c]` says
where hart `c` is: in a scan (`scan`, with `pass`, `idx`, `best_p` for the three
locals), between the two sides of a `swtch` (`resume`, `sched`), in a process
(`run`), or in the trap code (`boost`, `clock`, `load`, `store`, `level`,
`compare`, `peek`, `peeklevel`, `yield`, `demote`).

| Action | Code |
|---|---|
| `ScanProc`, `NextPass`, `Select` | one iteration, the end of a pass, and the choice in `scheduler()`, `proc.c:440-468` |
| `Resume`, `SwitchBack` | the two ends of `swtch`, with the lock handed across |
| `Clock`, `BoostProc` (a slot a step), `ClockDone`; `OtherTimer` | `clockintr()` on hart 0 and on the others, `trap.c:217-245` |
| `TickLoad`, `TickStore`, `LevelTest`, `SliceUsed` | `ticks_consumed++` and the reads of `queue_level` in `usertrap()`, `kerneltrap()`, one memory access each, as none is under `p->lock` |
| `PeekState`, `PeekLevel` | the unlocked search for a process of a higher queue, `trap.c:100` |
| `YieldLock`, `Demote` | `yield()`, and its demotion of a process whose slice is used up |
| `Sleep`, `Wakeup`, `Kill`, `ForkAlloc`, `ForkRun`, `Exit`, `Reap` | what each of these does to the state, the level and the stamp of a slot |

A step is one critical section of a `p->lock`, or one unlocked access. The slice
lengths, the boost period and the width of `ticks` are constants.

### 2.2 SleepWakeup, Sleeplock

`sleep_prepare` registers the channel under `p->lock`, the caller then drops its
own lock, and `sleep` marks the process SLEEPING only if the channel is still
set. `wakeup` visits the table slot by slot (`scan[p]`), clearing the channel of
those that have only registered. `Sleeplock` composes these with the inner
spinlock `lk`: `pc` follows `acquiresleep`'s loop, including the window in which
the inner lock is free and the process not yet asleep.

### 2.3 ProcLife

`wait_lock` is explicit, and a `p->lock` section is one step. `scan[p]` is the
loop variable of `kwait`, `reparent`, `wakeup` or `kkill`; `arg[p]` is the child in
`kfork` or the pid in `kkill`. `bornTo` is a history variable (which pid forked
which). The abstract `ProcTree` knows pids only; a child whose parent has
committed to its exit belongs to init at once, which is the sense in which
`reparent()`'s walk through the table looks instantaneous. `MCProcLife`, like
`MCSleeplock`, only gives the module's variables names of their own, and its constants
their assumptions.

### 2.4 Pipe

`lock` is `pi->lock`; a step is one iteration of the loop of `pipewrite` or
`piperead`. `nread` and `nwrite` wrap at `Wrap`. Several readers and writers share
the ends; an end closes with its last reference, and the last of the two frees
the page, `freed`.

### 2.5 Log

The disk is `home`, `logdisk` and the header `head`; memory is `cache`, the
header `block` and `struct log`. One disk write is one step. `Boot` is what a
start or `Crash` makes of memory. `begin_op`/`BeginWaits`, `log_write`,
`EndOther`/`EndLast`, `WriteLog`, `WriteHead`, `Install`, `Erase`, `CommitDone` and
`sys_sync` are the functions' parts in program order; recovery is `ReadHead`,
`RecoverBlock`, `RecoverDone`, and can itself be cut short. `log.ncommit`, a count
that only grows, is kept as `due[p]`: has it reached what sync of `p` waits for.

### 2.6 Virtio, Bcache

`Virtio` has the descriptors, the device's set of requests `avail`, the ring
entries `used` it has answered, and the interrupt. The device finishes any
request at any time. The interrupt handler acknowledges first and then empties
the ring, and the device may add to the ring in between. `Bcache` adds
`blockno`, `refcnt`, `valid` and the buffer's sleep-lock `owner`, and uses them as
the file system and the log do: read, change and pin, write and unpin. Which of
the unused buffers `bget` recycles is left open, so that every property holds for
any replacement order, LRU included.

### 2.7 Fs

`type`, `nlink`, `ents` are the inodes in memory and in the cache; `committed` is
their image on the disk; `ref`, `valid`, `lock` are the inode table. Every call is
a walk (`Begin`, `WalkStep`, one lock at a time), then what the call does under the
locks it holds, up to the next lock it has to wait for; `iput` is four steps
(`PutRef`, `PutLast`, `Trunc`, `PutUnref`, then `ifree`), as it drops `itable.lock`
in the middle. `end_op` commits when no other call is under way. `Crash` keeps
`committed` only; `ireclaim` then frees the orphans before the first process runs.

### 2.8 Console

`cons.lock` is explicit, and a step is one iteration of a loop under it: a reader
that waits (`ReadWait`, `Unlock`, `Sleep`, `Relock`), takes a character or an end of
file (`ReadChar`, `ReadEof`), a sender that holds `tx_lock` and looks at the
transmitter between `sleep_prepare` and `sleep` (`Prepare`, `Status`, `Put`, `TxSleep`).
The interrupt handler is one more thread (`Acknowledge`, `WakeSender`, `NextChar`, then
`consoleintr`'s cases), since the interrupt controller gives the uart to one hart at
a time; its echo waits for the same transmitter. What is typed, and when the
transmitter is done, is external. `Tty` has two sequences, the line that may still
be edited and what readers may have; they are the windows `w..e` and `r..w` of the
ring.

### 2.9 FileIo

`ftable`, `ofile` are the file table and the descriptors; `mem`, `disk`, `iref`, `ilock` an
inode in its table and on disk; `block` the blocks that are marked in the bitmap and
what they hold. `call[p]` has the locals of `filewrite` (`i`, `n`) and of `readi` or
`writei` (`off`, `tot`, `n1`). `OpenLock`, `OpenFails`/`OpenDone`, `Dup` and `Filedup`, `Fork`,
`Close` and `CloseIput` change the table; `Transfer`, `Lock`, then per block
`Mapped`/`MapNew`/`MapFails` and `Copy`/`CopyFails`, then `WriteEnd` or `ReadEnd` move
bytes, and other processes move between any two of these. `MapNew` is taken twice where
`bmap` allocates an indirect block and then the block itself. `dirty` counts what
the transaction has to log. The bytes a process writes are its number, so that a
file shows who wrote each of its bytes; `ByteFile` lets a step write one run of one
process's bytes into one file, or truncate one.

### 2.10 Vm

`m` is memory: the pages allocated, named by what for, and the page tables, trees
of three levels with `FANOUT` entries. `Kalloc`, `Kfree`, `Walk`, `MapPages`, `Uvmunmap`,
`Freewalk` are operators from memory to memory that note a panic or a double free
where the code would have one. A call is a sequence of steps, one allocation each,
every one of which may fail: `Fork`, `CopyPage`, `Forked`; `ExecStart`, `FetchArg`,
`ExecOpen`, `LoadSegment`, `SegmentPage`, `LoadSeg`, `AllocStack`, `StackPage`, `Uvmclear`,
`Commit`, or `Bad`; `Sbrk` with `Shrink`, `GrowLazy`, `GrowEager`; `PageFault`; `Kexit`,
`Kwait`. A process has at most two address spaces, the one it runs in and the one
`exec` builds.

### 2.11 Shell

The kernel's side is what the shell can see of it: `st` of each child, the reports
not yet collected, groups, who holds which end of which pipe, the terminal's group,
a pending SIGCHLD. A child runs shell code at first (`Child`), with its own copy of
`pipeline_pgid` and `is_fg`, before or after the shell's own `setpgid` (`SetPgid`). The
main program is `UpdateJobs`, `EndLine`, `execute_pipeline`'s and `execute_resume`'s parts;
the handler (`HandlerStart`, `HandlerStep`) runs between any two steps of it, one
`waitpid` a step. `execute_ping` sends to the group of a job or to the pid that was
typed. Four variables are history: `stillborn` and `dropped`, the entries made after their
process was gone and the groups that found the table full; `lost`, the groups whose entry the
code removed while some of their processes may run; and `taker`, the child that took the
terminal last, if its pipeline had been left by then.

## 3. What is checked

Each run is one question. All of them explore their instance completely. `Inv` is in
each module the conjunction of its type invariant with the invariants named in
brackets, which are stated, and explained, one by one in the module; `TypeOK` of
`Mlfq` and `Sleeplock`, and `RunningIsOnCpu`, are not run, as they are proved.

| Run | Instance | Properties | Shows |
|---|---|---|---|
| `MlfqSafety` | 2 processes, 2 harts, 3 queues, slices 1, 2, 2, boost every 3, clock modulo 5 | `OneCpu`, `LockOrder`, `SliceBound`, `ScanPicksBest`, `PreemptionHonoured` | the lock handed over keeps a process on one hart; waits for `p->lock` are in ascending order; unlocked accounting never overruns a slice by more than the trap in progress; a scan's choice precedes whatever waited throughout it |
| `MlfqFair` | 1 hart, 3 processes, boost every 3, clock modulo 5 | `NoStarvation` | with `BoostPeriod` processes on a hart each runnable one runs again and again, also over wraps of the clock |
| `MlfqStarve` (violation) | 1 hart, 4 processes that compute | `NoStarvation` | with `BoostPeriod + 2` the highest slot starves |
| `Sleeplock` | 4 processes, all may be killed | `Exclusion`, `NoLostWakeup`, `IsMutex` | a sleep-lock is a mutex, with liveness: it does not stay free while it is wanted |
| `ProcLife` | 3 slots, 4 pids | `ParentsLive` (`ParentAlive`), `NoLostExit`, `IsProcTree` | parents never dangle though slots are reused, and `kwait` never sleeps beside a zombie |
| `Pipe` | 1 reader, 2 writers, one of each may be killed, 2 bytes, indices modulo 4, calls of up to 3 bytes | `Inv` (`FreedLast`), `Awake` (`ReaderAwake`, `WriterAwake`), `IsFifo` | FIFO over wrapped indices; nobody sleeps while there is something to do; freed once, after the last use |
| `Log` | two worlds: 2 processes, 3 blocks, 2 contents, a crash anywhere; 3 processes, 4 blocks, room for 2 calls, a kill | `Inv` (`NoCallInCommit`, `NeverTooBig`), `LogAwake`, `SyncDurable`, `IsAtomicDisk` | every group of calls reaches the disk whole or not at all; nobody is forgotten on the log's one channel; `sync` covers what ended before it |
| `BufCache` | 2 processes, 3 buffers, 4 blocks, 5 or 6 descriptors | `Inv` (`OneBuffer`, `RefExact`), `ReadsLatest`, `DeviceOwnsBuffer`, `NoLostCompletion` | one buffer per block under recycling, and the driver never gives a buffer back before the device has |
| `Fs` | 2 processes, 3 inodes, 2 names, two workloads: every call over 4 paths; and a disk that is full and a crash anywhere | `Inv` (`InUse`, `PutNeverSleeps`), `LinksExact`, `LocksDown`, `NoOrphan` | link counts and references are exact, no inode in use is freed, inode locks are taken down the tree; nothing without a name survives a restart unused |
| `FileIo` | 2 processes, 2 files of up to 3 blocks of 2 bytes, 4 blocks on the disk, 2 open files and 2 descriptors each; a ring of 2 characters; seven workloads | `Inv` (`RefsExact`, `BlocksOwned`, `NoHoles`, `OnDisk`, `LogFits`), `SharedOffset`, `IsByteFile`; `ConsoleAwake` (`ReaderAwake`, `WriterAwake`), `IsTty` | references and the bitmap are exact whatever fails half-way; no byte is read that was not written; an offset that is shared moves by one transfer at a time; a transaction fits; the console edits, hands over and wakes as it should |
| `Vm` | 2 processes, 6 user pages, pages of 2 bytes, any `kalloc` may fail; three workloads | `Inv` (`NoPanic`, `FitsSize`, `NoJunk`), `OwnedOnce`, `ForkCopies`, `ExecKeepsOld` | no page is lost, shared or freed twice on any failing path; no panic; a child has its parent's memory with its holes; a failed `exec` changes nothing |
| `Shell` | 3 children, lines of up to 3 commands, 2 job slots | `Inv` (`NoZombieLeft`), `TerminalBack`, `JobsKnown` (`NoJobForgotten`, `NoStaleJob`), `PipeEnds` | with the handler between any two steps every report is collected and every job that can be known is; where the code is known to fail (section 5) the property says exactly where |

### 3.1 Bounds, and why they are enough

- **Mlfq.** Two processes and two harts are what the hand-over, the lock order
  and the tick races need; slices 1, 2, 2 keep a queue where a slice is one tick,
  one where it is not, and one that demotes to itself. The proofs cover the rest.
  2^32 is no multiple of 48, and
  5 none of 3: the boost at the wrap comes early, after 2 ticks instead of 3. `MlfqFair` sits
  exactly at its limit. One process more and those that are killed in the tick of a boost,
  and so not charged for it (`KilledInTick`), can take every tick; if nobody is killed it takes
  two more (`MlfqStarve`).
- **Sleeplock.** Four: the holder, the releaser's choice, one between unlock and
  sleep, and one killed.
- **ProcLife.** Three slots: init, a parent and a child, which suffices for an
  orphan, for a slot that is reused, and for two siblings under init. `MaxPid`
  bounds the forks. The pids to kill exclude init's, whose exit is a panic.
- **Pipe.** `Wrap` is twice `PIPESIZE`, the smallest at which full and empty differ
  by the wrap; writes longer than the buffer block in the middle. Killed are the reader and
  one of the writers, so that a writer can leave its loop quietly while the other waits,
  begins, or closes the end. With a second reader there are 15 million states, which hold
  too but are no routine run; the theorem is for any number of readers.
- **Log.** The two worlds are `Next` with what the one does not need left out: no
  third process and fewer blocks where there are crashes, no crash and no change of
  contents where there is a crowd. A call logs up to `OpBlocks` blocks, here exactly
  `MAXOPBLOCKS`: the space is used to the last block, and the panic of `log.c:229-230` is
  reached. It is a state of the model (`TooBig`), and `NeverTooBig` says who alone can get
  there (see 5). Blocks and contents are symmetric, as `log.c`
  never compares them other than by equality.
- **BufCache.** A request takes 3 descriptors. With 5 one request fits and 2 stay
  over, as 8 = 2*3 + 2 does in the code; with 6 two are in flight. `N + MaxLogged`
  buffers always leave one to recycle, so the panic "bget: no buffers" is no
  action. The log holds at most `MaxLogged` blocks.
- **Fs.** A root and two more inodes allow a directory in a directory, a file with
  two names and an inode number that is reused. The paths include one through the
  directory the other process removes, and `..` from a working directory that was
  removed. One process makes all calls, the other those that change directories.
  The workload with crashes leaves out links and `chdir`, and lets the disk be full
  when a directory has to grow.
- **FileIo.** One direct block and an indirect one with two entries, so that a file
  has a block of every kind; two files want one block more each than the disk has.
  `MAXOPBLOCKS = 6` leaves a write one block, as the formula of `filewrite` has it, and
  the bitmap has a block for every two, so that an unaligned write reaches the
  reservation exactly; `MaxBytes` is two transactions. Each workload is one question: a
  shared file (`Shared`), a full disk (`Full`), truncation meanwhile (`Trunc`), the two
  tables (`Tables`), line editing and a kill (`Line`), two readers and an end of file
  (`Readers`), echo against output (`Echoes`). The ring holds 2 characters and its
  indices wrap at 4; a batch is one character.
- **Vm.** `FANOUT = 2` makes every level of the tree split within the six user pages.
  The programs have no segment, one, and two with a gap; `sbrk` asks for less and more
  than a page and for more than there is. The process that runs programs does not
  fork and the one that forks does not run programs, but its child may do both.
- **Shell.** Three children make a pipeline with a first, a middle and a last
  command, or jobs beside a foreground line; two slots fill up. No pid is used twice.

### 3.2 Fairness

Only two specifications state fairness.

- `Mlfq!Fairness`: each hart goes on (WF of its scheduler and trap steps), and the
  clock ticks (SF of the timer: a hart opens interrupts again and again, and the
  timer stays pending meanwhile). A process in user code need not do
  anything. In the fair runs a tick does not fall into a scan that has found
  something (`TickInScan = FALSE`): a scan takes microseconds, a tick 100 ms.
- `Sleeplock!Fairness`, for `IsMutex`: a process inside `acquiresleep` or `releasesleep`
  goes on, and whoever holds the lock gives it back in the end, as every caller in
  `bio.c` and `fs.c` does. Asking for the lock is never required.

The other modules are checked for safety only. There the progress that matters,
that nobody sleeps through what it waits for, is stated as an invariant: whoever
sleeps while its condition holds has a wakeup on its way (`NoLostWakeup`,
`NoLostExit`, `Awake`, `LogAwake`, `NoLostCompletion`, `ConsoleAwake`).
Deadlock is checked in every run.

## 4. What is proved

The theorems hold for every value of the constants that the named `ASSUME`s
admit (`NAssumption`, `SliceAssumption`, ...): any number of processes and harts,
any slice table, any boost period, any width of the tick counter.

**`MlfqProofs`.** `Invariance` proves `IInv` inductive, and the properties of
`MlfqSafety` follow, with `TypeOK` and `RunningIsOnCpu`. None of them is inductive alone; `IInv` adds

- `HartInv`: what each program counter implies for the hart's locals and locks (a
  hart in `resume` holds the lock of `cproc`, one in `scan` that of `best_p`);
- `LockInv`, `StateInv`, `ForkInv`: who may hold a `p->lock`, which states go with
  being on a hart, and that two forks never share an embryo slot;
- `OneCpu`, `SliceInv` (`SliceBound`, with the temporaries of the tick handler);
- `WaitInv`, `ScanInv`, `PreemptInv`: every process in the history set `waiting[c]`
  is RUNNABLE, is in the queue of the current pass or a lower one, and, if the
  pass has looked at it already, comes after `best_p`. This is the loop invariant
  of `scheduler()` while other harts change what it has looked at; `PreemptInv` is
  the same for the search loop of the tick handler.

The proof goes by action, and under each action by conjunct.

**`SleepProofs`, sleep-locks.** The three simplest users of `SleepWakeup` share a proof
module. It EXTENDS `Pipe` with `MCSleeplock`, where the lock is `SL`, and `MCProcLife`, where the
life of processes is `PL`. The inductive invariant of the sleep-lock, `LockIInv`, has `LockSpinInv` (the inner lock is held
exactly in the sections that hold it), `LockSleepInv` (a process is SLEEPING only in
`asleep`, on its channel) and `LockWaitInv`: for every process that has registered its
channel and is asleep, or will be unless it is woken (`LockCommitted`), the lock is
held or a waker's loop has still to pass it (`LockComing`). From it follow
`Exclusion`, `NoLostWakeup`, `TypeOK`, and `ImplementsMutex`: each step is a step of
`Mutex` or leaves it as it is. `Mutex`'s liveness stays with TLC.

**`SleepProofs`, pipes.** For any number of readers and writers, any `PIPESIZE` and any `Wrap`
that is a multiple of it (`SizeAssumption`; 2^32 is one of 512). `IInv` is `TypeOK` with

- `LockInv`, `RoleInv`: which sections hold `pi->lock`, who may be in them;
- `EndInv`, `LastInv`: an end stays open while anyone refers to it, and one process at
  a time closes it;
- `FreeInv`: at the `kfree` both ends are closed and everybody else is through.

`PipeSafe` (`Inv`) is part of it. `PipeIsFifo` (`IsFifo`) takes `Queue`, the bytes from
`nread` to `nwrite`, and shows that `data[nwrite++ % PIPESIZE] = ch` appends to it and
that the read takes its head; this rests on a little modular arithmetic (`ModShift`,
`ModDistinct`). For the sleepers the
invariant again speaks of more than those asleep: `Waits(p)` holds from `sleep_prepare`
on, and `ReaderInv`, `WriterInv` say that whoever waits has nothing to do, or somebody of
the other end is in a section that leads to its wakeup, or in a loop that has not
passed it (`scan[w] <= p`). `WritersAwake` holds as it stands. `NobodyForgotten` (`Awake`,
readers and writers) has no premise on who may be killed. A writer that is killed and leaves its
loop (`pipe.c:84-86`) does wake nobody, so readers may sleep beside its bytes; the history variable
`quiet` names the writer of the last byte until somebody calls `wakeup(&pi->nread)`, and the
property excepts exactly a killed one whose end is still open (`LeftQuietly`). `ReaderInv` carries
this through the loop: whoever is `quiet` and not killed is still on its way to the wakeup.

**`SleepProofs`, the life of processes.** For any number of slots and pids, and any set of
processes to kill. `LifeInvariance` proves `LifeIInv` inductive:

- `LifeLockInv`, `StateInv`: which sections hold `wait_lock`, and the state of a process in
  each section;
- `InitLives`: init is in its slot for ever and never exits;
- `PidInv`, `EmbryoInv`: pids are unique and only grow, and a slot between `allocproc` and
  the end of `kfork` belongs to one fork;
- `ChildInv`: a process in `reparent` has no child in the slots it has passed, and none at
  all once it is through, so the zombie leaves no child behind when its slot is freed;
- `ParentAlive`, the property itself (`ParentsLive`, by `ParentsAlive`).

For `ExitsNoticed`, `WaitInv` speaks of whoever waits from `sleep_prepare` on: a zombie child
is in a slot that its scan has still to see, or its parent's channel has still to be
passed by the wakeup of `kexit` or of `reparent`. `ImplementsTree` maps a slot to its pid
and needs, besides `LifeIInv`, that an embryo has no children (`BornInv`) and that init is given
children only by a process in `kexit` under `wait_lock` (`LateInv`).

**`LogProofs`.** For any number of processes, any disk, any `LOGBLOCKS`, `MAXOPBLOCKS` and
`OpBlocks` within `LogAssumption`, and a crash at any step. `Invariance` proves `IInv`:

- `CountInv`, `CommitInv`, `EmptyInv`: `outstanding` is the number of calls in progress; one
  process commits at a time, and only when that number is 0; the log is empty when
  nobody uses it;
- `HeadInv`: no block is twice in a log, and the header on disk is empty except from
  `write_head` to the end of the installation, when it is the log in memory;
- `CopyInv`, `HomeInv`, `CacheInv`: what `write_log` and `install_trans` have copied so far
  is what the calls wrote, and a block that is not pinned is as on disk.

`ImplementsAtomicDisk` follows: `Recovered`, what recovery would make of the disk, changes in
`WriteHead` only, where it becomes the cache; the writes of an installation fall on
blocks that the header covers (`RecHome`), and when the header is erased they are in place.
`RoomForCalls` (`Inv`) says that `log_write` panics (`log.c:229-230`) for no call but one that has
logged all of its `MAXOPBLOCKS` blocks. The panic is a step of the model, `TooBig`, that a call can
take whatever it has logged, and the process stays where it is. The proof counts the blocks
that the calls in progress may still log:
`Free` is the set of pairs of a call and a number from what it has logged to `MAXOPBLOCKS`, and
`RoomInv` says that the log has room for all of them; `begin_op` establishes this anew
from its own test, since `Free` is within `Ops \X (1..MAXOPBLOCKS)`. `SyncsAreDurable` needs
that what an ended call logged is in the log with its commit to come (`Owing`);
`NobodySleepsOn` (`LogAwake`) speaks, as above, of whoever waits from `sleep_prepare` on, and
rests on `DueInv`: the commit that a `sys_sync` waits for has begun or a call is in progress.

**`BcacheProofs`.** For any number of processes, buffers, descriptors and blocks, any bound
of the log, and kills of whoever sleeps; the assumptions are `NAssumption`,
`VirtioAssumption` and `BcacheAssumption` (0 and "none" name no buffer and no block; the
proofs do not use that there are enough buffers). `Invariance` proves `IInv`:

- `CallInv`: a call has a buffer of its block throughout, and its sleep-lock while it
  holds it; `valid` says how far it has come;
- `PinInv`, `InstallInv`, `RoomInv`: a logged block is in a buffer that is not recycled, no
  writer runs while the log installs, and what is logged or may still be fits into the log;
- `DescInv`, `ReqInv`, `IrqInv`: a descriptor is free or belongs to one request; a request is
  with the device or in the used ring, once, and its sender waits for it with the buffer
  locked; an entry of the used ring is announced by an interrupt or in the handler's hands;
- `BusyInv`, `ChanInv`: `b->disk` is set exactly while the request is somewhere, and whoever
  has registered a channel waits for something still to come;
- `DataInv`: a valid buffer has the last contents of its block, and so has the disk unless
  the block is logged; an answered request has made buffer and disk agree.

`CacheTable` (`Inv`: one buffer for a block, exact reference counts, the bound of the log) rests
on the first two groups, `DeviceOwnsIt` on `ReqInv`, `CompletionComes` on `ChanInv` and
`BusyInv`. `ReadsTheLatest` is the reason for the pin: when the device has read a block
into a buffer, the block is not in the log, as its only buffer is not valid (`PinInv` and
`OneBuffer`), so the disk has its last contents.

**`FsProofs`.** For any number of processes, inodes, names and paths, any set of calls for
each process, a disk that may be full in the middle of any call, and a crash at any step, also
inside `ireclaim`; `FsAssumption` asks for finitely many inodes and names, and that `..` is not
one of the names a directory gives. `Invariance` proves `IInv` inductive:

- `CallInv`: which of its two inodes and of its path a call has at each place; `Place(p)` looks
  through the `iput` it may be in to where it goes on;
- `BootInv`: until `ireclaim` is done there is one process;
- `RefInv`: `ref[i]` is how many working directories, open files and variables of calls point
  to `i`, and an inode that is pointed to is not free;
- `LockInv`, `FreeInv`: exactly who holds an inode's lock, and what a process that is freeing an
  inode has made sure of: no links, one reference, and nobody else freeing it;
- `TreeInv`: names lead down from the root and `..` leads back, a removed directory is empty, and
  `nlink` is the number of entries that lead to an inode plus the links that calls owe it. A
  `link` owes one from `ip->nlink++` until its entry is written or the count is taken back; an
  `unlink` owes one from the erasure of the entry until `ip->nlink--`. Between these two a
  directory that is being removed is not yet without links but no longer part of the tree
  (`Removing`);
- `Sound(committed)`: the image on the disk is such a tree with nothing owed. `end_op`
  preserves it because it commits only when no call is under way; a crash then restores it;
- `NodeInv`: what a call may still rely on after it has let go of a lock: that `cur` is a
  directory, that the name it found is there while it holds the directory, that a directory it is
  about to remove has stayed empty, that what it links is not a directory;
- `OrphanInv`: an inode without links is in use and has been read (`valid`, without which `iput`
  would not free it), or is being freed, or `ireclaim` has still to come to it.

Link counts are sizes of sets of directory entries, `Into`; for each change that a call makes to the
tree a lemma says what it does to these sets. `TableOk`
(`Inv`) has exact reference counts and shows that `iput` never sleeps inside `itable.lock`: with one
reference, its own, nobody else can hold the lock, as every holder has a reference of its own.
`LinksStayExact`, `LocksGoDown` and `NoOrphanStays` state the other three properties of the run.
That names lead from the root to *every* directory needs induction over paths and is not
proved; none of the properties asks for it.

**`FileIoProofs`.** The console first, for any number of processes, any `INPUT_BUF_SIZE`, any
`Wrap` that is a multiple of it (`BufAssumption`) and any characters typed. `FileIo` instantiates
`Console`, so these theorems are about `Con!Spec`, and `DrivesConsole` shows that `FileIo`'s
`Spec` implies it: a step of a file's leaves the console alone and a step of a device's is one of
`Console`'s. `ConsoleInvariance` proves `ConsoleInv`:

- the indices are in a row, `Ready <= Held <= INPUT_BUF_SIZE` (how far `w` and `e` are ahead of
  `r`, modulo `Wrap`), and between the test of `consoleintr` and its store nobody has
  taken the room away;
- whoever is in a section of `tx_lock` holds it, and the transmitter has at most one
  character of a sender and one of an echo (`tx <= 2`);
- a process sleeps only where it has registered the channel it sleeps on; whoever has
  registered as a reader still finds `r = w`, and whoever has registered as a sender has
  an interrupt to come, pending, or in the handler before its look at the status.

`ConsoleOrdered` and, from the last group, `ReadersAwake` and `SendersAwake` follow; together they
are the run's `ConsoleAwake`, which is `ConsoleStaysAwake`. `DescriptorIsTty` (`IsTty`) takes the finished and the unfinished
line of `Tty` to be the pieces of the ring from `r` to `w` and from `w` to `e`: typing appends to
the second, erasing takes its last character, the store of an end of line moves the second to the
first, and reading takes the head of the first, wherever the indices wrap.

Then files, for any number of processes, open files, descriptors, inodes and blocks, any size
of a block and of the two parts of `addrs` (`SizeAssumption`: the log has room for one block a
write), and any workload with a process in it (`WorkAssumption`). `Invariance` proves `IInv`:

- `CallInv`, `CountInv`: whoever transfers still has the descriptor it came with, and `dup`, between
  its two steps, has two of the file. A file is counted once for each descriptor less
  once for each `dup` under way; these are fewer than the descriptors (`FewerDupers`), so the
  count is 0 only when nobody names the file, and the last `close` is alone with it;
- `LockInv`, `ValidInv`, `DiskInv`: which calls have an inode's lock; an inode is in memory as long
  as somebody refers to it, and there as on disk unless somebody writes it;
- `BlockInv`: the blocks in use are the ones at the places (`Spots`) for block numbers, each at
  one. An indirect block brings new places with it and truncation takes an inode's away;
- `HoleInv`, `ChunkInv`: bytes below the size, and below where a writer is, have a block; a
  transfer is where it began plus what it has done, at the beginning of a block unless it
  is in its first, and within the longest file;
- `LogInv`: what a transaction has logged, block by block (`Cost`): two for each block of data (itself
  and the bitmap's), but one for the first if the write begins within it, for `HoleInv` says that
  this block is there, and two for the indirect block. With `maxWrite` this leaves room for the inode;
- `ByteInv`: what lies beyond the size and has been passed by a writer is the writer's.

`FilesAndBlocks` is the run's `Inv` and `OffsetShared` its `SharedOffset`.

`FilesAreBytes` says that `FileIo` implements `ByteFile` under the refinement mapping `Contents`. A
file's bytes stay (`Kept`) when its size does and every byte below it is found where it was,
or in a block that holds the same; so a block that `bmap` adds changes no file (`GrowsKept`). Only
three steps do. `Copy` writes its bytes below the size, and what it puts beyond is not
seen yet; `WriteEnd` then moves the size over bytes that `ByteInv` says are all the writer's;
and `OpenDone` truncates. `BlockInv` is why no other file changes in any of them.

**`ShellProofs`.** For any number of children, any number of slots and any command lines, with
SIGCHLD handled between any two steps and children that stop, go on and end when they please.
`Invariance` proves `IInv`; a step gives birth to one child or makes nobody younger (`Ages`), and
what has not been born has left no trace (`BirthInv`). Its other parts:

- `LineInv`: the pipeline that is executed. Its leader is the first child it forked, its pids are of
  the leader's pipeline, and there are pids for the commands still to come;
- `ReportInv`: a report that nobody has taken has a SIGCHLD that is pending or being handled, or
  `update_jobs_status()` is about to ask;
- `JobInv`: an entry names the first process of a pipeline, and never that of the one that is executed
  until that is left; `execute_resume` works on an entry whose process no other active
  entry names, although the handler may have removed that entry under it;
- `KnownInv`: every process of every pipeline that has not ended is accounted for: its pipeline is
  being executed, or is in the table, or found it full, or is recorded in `lost`. While the
  pipeline is executed every process of it that is alive is still to be waited for (`Awaited`),
  even if the handler took the reports of others; that is why a pipeline left without an entry
  has nobody alive;
- `TermInv`: away from a foreground resume, the terminal is the shell's, or that of the foreground
  pipeline in execution, or `taker` has it, a child whose pipeline had been left when it got to run.
  After the last wait of a pipeline the shell's `tcsetpgrp` therefore suffices, for pipelines
  of any length;
- `EndsInv`: the ends of a pipe are with the shell only between `pipe` and `close`, with its writer,
  and with the next command of the line (`NextCommand`); a writer keeps the end it would read
  only until it is started. That a third command does not inherit the first pipe rests on the
  order of the pids: the shell has closed the pipe of every child but the last (`Last`).

`NothingUnreported` (`Inv`), `TerminalComesBack`, `JobsStayKnown` and `PipesEnd` are the four
properties of the run.

**`VmProofs`.** For any number of processes, any size of a page and any branching of the
page tables from 2 on, any sizes asked of `sbrk`, any program files, any workload, and `kalloc`
failing at any call. `VmAssumption` gives the constants their types. `ImageAssumption` asks that
`filesz <= memsz`, which `kexec` tests, and that a program and its stack end below the trap frame,
which it does not: there the memory of the machine would be used up long before (section 5).
`Invariance` proves `IInv` inductive:

- `Exact(m, Others)`: the pages given out are those of the address spaces and `Others`, the
  trap frames and argument pages; each page of an address space is the one named for its place, is
  not junk, and a table page is zero. Since places differ, no page has two users. The same
  predicate describes memory inside a call, with what the call holds added to `Others`; there is
  a lemma for each operator of `vm.c` that says how it changes `Exact`;
- `CallOf`: what `sbrk`, `exec` and `fork` know in their loops: how far `uvmalloc` has come and
  from where, that the address space which `exec` builds has no hole below there (`Solid`), as
  `loadseg` and the final `uvmclear` would panic at one, and that a slot being forked is
  one process's;
- `SpaceOf`: a free slot has no memory; the second address space of a process exists
  only while `exec` builds it; and nothing is mapped above the size, except by the loop of
  an `sbrk`;
- `Copied`: below where `uvmcopy` is, parent and child have the same pages, permissions,
  contents and holes.

Each step is one process's, so a lemma (`OwnStep`, and `OwnStepExec` for `exec`) carries all
that is said of the others (`Unmoved`), and the proof of a step shows what it does to its own. The
three ways out of `exec` meet in `ExecFailsStep`. `SpacesSound` is the run's `Inv`,
`PagesOwnedOnce` its `OwnedOnce`. `ExecKeeps` (`ExecKeepsOld`) comes out of the same steps: they
show with `IInv'` that the old address space still holds what it held (`ExecFrame`).
`ChildCopies` (`ForkCopies`) is `Copied` in the step where the loop has come to the end of the size.

Only model-checked: liveness (TLAPS does not do fairness or ENABLED here), that is
`NoStarvation` and the fairness of `IsMutex`.

## 5. Findings and observations

One run finds the code in disagreement with what it says of itself:

- **`MlfqStarve`.** `src/xv6/README.md:53` promises that the boost prevents
  starvation. The boost gives every process queue 0 and the same stamp; each takes
  a whole tick to leave queue 0; ties go to the lower slot. On one hart
  `BoostPeriod + 2` processes that compute (50 of the 64 slots) leave the highest
  slots without a tick between boosts, and after the boost everything repeats.

Read or met while modelling, and not made into runs, as nothing in the
repository says otherwise in so many words:

- Ranks between processes are approximate: the scan passes from slot to slot
  (`proc.c:445`), so a process that enters a higher queue behind it waits for the
  next scan (`README.md:51` speaks of strict priority); `kkill` leaves the stamp a
  sleeper had (`proc.c:641`); a child's stamp is that of `allocproc`
  (`proc.c:151`), not of its becoming RUNNABLE; processes stamped in one tick are
  ordered by slot (`proc.c:450`, `proc.c:529`).
- 2^32 is not a multiple of 48, so one boost comes 32 ticks early when `ticks`
  wraps, and stamps from before compare as later until then.
- `usertrap` looks at `killed` before it charges the tick (`trap.c:83-89`), so one that
  ends there has run for nothing. With a child that is forked anew and killed in the tick of each
  boost, one process fewer than in `MlfqStarve` suffices to keep another from running.
- `log_write` panics with "too big a transaction" on a full log before it looks
  whether the block is in the log already (`log.c:229`): a call that has used its
  `MAXOPBLOCKS` and writes one of the blocks again is refused.
- `NBUF` equals `LOGBLOCKS` (`param.h`): a log full of pinned blocks leaves no buffer
  for the next `bread` (`bio.c:87`).
- A free slot has pid 0, so `kkill(0)` finds one and sets its `killed`;
  `allocproc` does not clear it (`proc.c:636`, `proc.c:125`), and the next process
  forked there exits at its first trap.
- Processes that wait for descriptors share one channel with those that free them
  in `alloc3_desc`'s failure path: with 2 descriptors left over, waiters wake each
  other (`virtio_disk.c:205-213`), which costs time and loses nothing.
- A process killed between `killed(p)` and `sleep` sleeps on (`proc.c:412`, `418`), like
  in `pipe.c`, `console.c` and `sysproc.c`.
- A writer killed after it has written part of its data returns from the middle of
  the loop (`pipe.c:84`) without the `wakeup` at its end: the reader sleeps beside the
  data until the next `wakeup` of a writer or of the last close, which the exit may be. `Pipe`'s
  `Awake` excepts exactly this (`LeftQuietly`).
- `sbrk` of a negative amount beyond the size wraps (`proc.c:253`) and succeeds without
  doing anything. `kexec` does not compare a segment's end with the trap frame's
  address: only the size of physical memory keeps `mappages` from its panic.
- A truncation between two transactions of one `write` leaves the offset beyond the
  end: the rest of the write fails, though each part alone would be legal
  (`file.c:155`, `fs.c:549`).
- After a write whose copy fails, or that meets a full disk, the blocks that `bmap`
  added beyond the size stay with the inode until it is truncated (`fs.c:557`).

And in c-shell, which promises little in writing; the properties of `Shell` except
exactly these cases:

- The handler waits for any child (`jobs.c:84`). When it takes the report that the
  foreground `waitpid` waits for, the status that is then tested was never written
  (`execute.c:171`), and after a Ctrl-Z the shell waits on while the job is stopped.
- A job that ends before `add_job` leaves an entry that nothing removes
  (`execute.c:164`, `173`); when the table is full the job is dropped without a word.
- A job is its first process (`jobs.c:67`): a pipeline is forgotten when its first
  command ends, whatever the others do, and other members of a pipeline have no entry. A
  foreground `resume` waits for any one of the group and takes the entry out when that one
  ended (`exotic.c:103-114`). Both are recorded in `lost`, and `JobsKnown` excepts those groups
  and no other.
- Each child takes the terminal for its group when it gets to run
  (`execute.c:137`): after the shell has gone back to its prompt if the wait was left
  early.
- If the group's leader was reaped before a later child's `setpgid`, that child stays
  in the shell's group (`execute.c:134`, `153`).
- `is_running` of a job that `resume` continues may be wrong after a race with the
  handler (`exotic.c:90`). `snoop` loops for ever when its child dies by a signal, or the
  handler takes its reports (`exotic.c:170-176`).
- A builtin as the first command of a pipeline runs in the shell, with all tokens
  as its arguments (`main.c:93`; `execute.c:62-63` says otherwise of the child). A
  failed `fork` is waited for as pid -1.

## 6. What is not modelled

- Within the modelled parts: the exit status; the directory of a fork; failures of
  `pipealloc` and the two descriptors of `sys_pipe`; `fstat`; killing init (a panic);
  overflow of `nextpid`; `mknod`, `NLINK_MAX` and a full inode table; a copy that fails
  within a block; the time between `filealloc` and `fileclose` of an `open` that finds no
  descriptor; the ^P of the console; the kernel's own page table and the TLB.
- Paths that end in a panic or a failure and that no property tells apart: `allocproc` that
  fails in `Mlfq` (`proc.c:129-140`; `Vm` has it), `bget` without a buffer (`bio.c:87`, see 3.1),
  an error status of the disk (`virtio_disk.c:322`), a store to a page that is mapped
  read-only (`vmfault` refuses it and the process ends, as by `Kexit`). `Uvmclear` in `Vm` panics on
  a leaf that is not mapped, which `vm.c:336` would not notice: `NoPanic` is the stronger for it.
- Steps that are one here and several in the code, where nothing between them is seen by another
  process: the two reads of `queue_level` in the search of the tick handler (`PeekLevel`; whichever
  is read first, `yield` tests the slice again under the lock); `killed(p)` and `sleep_prepare`
  in `kwait` (`WaitPrepare`; a kill between them does what a kill after them does, since the process
  is not asleep yet, and that is a step); `iget` and `ilock` in `open` (`OpenLock`) and the `bfree`s of
  `itrunc` (`Truncated`), under the inode's lock; and what a child does before `exec`
  (`Child`, `execute.c:133-147`), which concerns its own group, terminal and descriptors.
- Crashes are in `Log` and `Fs`. `FileIo` counts what a transaction writes, and that
  it fits; that a transaction is atomic is `Log`'s.
- c-shell: redirection and the search of PATH (inside a child), `snoop`, the lexer,
  `hop` with its file of visits, and what only prints. The lexer turns characters into
  tokens without state between lines.
- The round-robin scheduler: the default build's `#else` branches take processes in
  table order; the hand-over of `p->lock` is `Mlfq`'s. Spinlocks: a critical section is
  one step here, so `amoswap` and the nesting of `push_off` are below the grain.
- Boot, register save and restore, the interrupt controller, `printk` and the
  string functions, `sys_pause`: no state that anything here depends on.

Of the repository's C code about half is `src/test_folder`, the same files once more,
and `src/mini-project1`; of the rest, user programs and tests (`usertests.c` alone has
3500 lines) are clients of the kernel. The kernel and the shell proper are where
`PROJECT.json`'s map points.

## 7. Plan

Done, in this order: `Mlfq` with its proofs, `SleepWakeup` and `Sleeplock` with
proofs, `ProcLife` and `Pipe` with theirs, `Log` with its proofs, `Virtio` and `Bcache` with
theirs, `Shell` and `Vm`, `Console` and `FileIo` with their proofs, `Fs` with its proofs, `Shell`'s
proofs, and `Vm`'s. Every safety property of the runs is now a theorem.

Next modules: `Spinlock` (`noff`, `intena`), `RoundRobin`, and the lexer as a pure
algorithm against a reference definition.
