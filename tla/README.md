# A verification project for xv6-riscv

TLA+ models of the kernel in `src/kernel`, of the shell and the process exercises
in `src/user` and of the image that `src/mkfs` makes, model-checked with TLC on
small instances. TLAPS proofs, for every value of the constants, cover the
scheduler with sleep and wakeup, the life cycle of processes, the redo log, the
buffer cache, the disk driver, pipes, and the serial line in both directions.

## 1. The system and its parts

xv6 is a small Unix for RISC-V multiprocessors. From the hardware upwards:

| Part | Source | Model |
|---|---|---|
| spin-locks, interrupts on and off | `spinlock.c`, parts of `trap.c` | `SleepWakeup`, proved in `ProcessProofs` |
| scheduler, sleep and wakeup | `proc.c`, `swtch.S` | `SleepWakeup`, proved in `ProcessProofs` |
| process life cycle: fork, exit, wait, kill | `proc.c`, `sysproc.c` | `Procs`, proved in `ProcessProofs` |
| physical pages, page tables, exec, sbrk | `kalloc.c`, `vm.c`, `exec.c`, `proc.c` | `Memory` |
| disk driver | `virtio_disk.c` | `VirtioDisk`, proved in `VirtioDiskLemmas` and `VirtioDiskProofs` |
| buffer cache and sleep-locks | `bio.c`, `sleeplock.c` | `BufCache` implements `BlockStore`, proved in `BufCacheProofs` |
| redo log | `log.c` | `Log` implements `AtomicDisk`, proved in `LogProofs` |
| inodes, block allocation, file contents | `fs.c`, `file.c` | `Inodes`, `FileData` |
| directories, path names, file system calls | `fs.c`, `sysfile.c` | `FileSystem` on `Inodes` |
| the file system image | `mkfs/mkfs.c` | `Mkfs`, the initial disk of `FileData` |
| pipes | `pipe.c`, a part of `file.c` | `Pipe` implements `Fifo`, proved in `PipeProofs` |
| console input | `console.c` | `Console` implements `LineInput`, proved in `SerialProofs` |
| serial port, output | `uart.c` | `Uart`; its buffer implements `Fifo`, proved in `SerialProofs` |
| open files and descriptors | `file.c`, `sysfile.c` | `UserSys` |
| init and the shell | `user/init.c`, `user/sh.c` | `Shell` on `UserSys` |
| pingpong, devine, oxo, psync_tst, phierarchy_tst, pmem_test | `user/` | `Programs` on `UserSys` |
| system call dispatch, printf, strings, boot | `syscall.c`, `printf.c`, `string.c`, `main.c`, `start.c` | not modelled |
| other tools and tests | `user/` | not modelled, except cat and echo |

`PROJECT.json` lists every part with its status, the hazards of the code at the
line where they bite, the source lines of each definition (`map`), and for each
property a mutation of the model that breaks it.

How the parts interact. A file system call brackets its writes with `begin_op()`
and `end_op()` of the log. The log pins the buffers that it has to write home,
so the cache does not recycle them. The cache hands out a buffer under its
sleep-lock and calls the disk driver, which sleeps until the interrupt handler
finds the completion. Every one of these waits is a `sleep()` under a spin-lock.

The models are layered the same way. Each takes from the layer below what that
layer is shown to promise:

* `SleepWakeup` shows that `sleep()` under a lock misses no `wakeup()`. The modules
  above it treat "release the lock and go to sleep" and `wakeup()` as one step each.
* `Log` shows that a group of operations becomes durable in one step
  (`AtomicDisk`). `Inodes`, `FileSystem` and `FileData` keep a second copy of the
  disk (`stable`), which the disk replaces when the last active operation ends and
  to which a crash returns. In `FileData` only the blocks that were logged replace it,
  and a buffer whose block is not in the log may return to it at any time.
* `Pipe` shows that a pipe is a bounded queue with two ends (`Fifo`), and `Procs` that
  no exit is missed. `UserSys` has pipes as byte sequences and `wait()` as a step
  that is enabled when a child has exited.

## 2. Modules

Each component module has the state as `VARIABLES`, one action per step of the
code, `Next`, `Spec`, a fair specification where a run needs one, and the
properties at its end. Definitions whose comment begins with *Mutant* are
plausible bugs, used to show that a property can fail. `MC*.tla` holds what TLC
needs: symmetry sets, workloads, and where two or three components share a run,
their disjoint sum. `ProcTable` and `ConsoleInput` are `Procs` and `Console` under names that
let them stand beside another component, in a run or in a module of proofs.

**The grain of a step.** A critical section under one spin-lock is one step,
unless something can happen inside it without that lock: the device in
`VirtioDisk`, `kill()` in `Pipe` and `Console`, `uartputc_sync()` in `Uart`. In
those modules the lock has an explicit holder and each iteration of a loop is a
step. Sleep-locks outlive steps and always have explicit holders.

* `SleepWakeup`: `acquire`/`release` with `push_off`/`pop_off`, `scheduler`,
  `sched`, `yield`, `sleep`, `wakeup`, `forkret`, device, clock and timer
  interrupts, and `kill`. `p->lock` travels from a thread through `swtch()` to the
  scheduler, so its holder is a CPU.
* `Procs`: `allocproc`, `fork` and its failure, `exit` with `reparent`, `wait`,
  `freeproc`, `kill`, `getppid`. `wait_lock` is explicit. `exit()` keeps `p->lock`
  until the thread is off its stack (`pc = "exit_sched"`).
* `Memory`: `kalloc`, `kfree`, `walk`, `mappages`, `uvmunmap`, `uvmalloc`, `uvmdealloc`,
  `uvmcopy`, `freewalk`, `proc_pagetable` and `exec` as operators on a record of pages
  and tables; `fork`, `sbrk`, `exec`, a store and the freeing of a zombie as actions.
  Processes meet in `kalloc()` only. A call is therefore one step in which
  `kalloc()` succeeds any number of times and then fails, which covers every point
  where the others may have taken the last page. Sizes wrap like 64-bit words.
* `Log`: `begin_op`, `log_write` (absorption and pinning), `end_op`, each disk
  write of `write_log`, `write_head` and `install_trans`, recovery, and a `Crash`
  that may come between any two steps, during recovery too. `Bread` and `Recycle`
  are what the rest of the kernel may do to the cache. Block writes are atomic,
  as the code assumes.
* `AtomicDisk`: groups of operations become durable in one step, when none is
  half done; a crash returns to the last such state.
* `BufCache`: `bget` (hit, recycle in LRU order, panic), `bread`, `bwrite`,
  `brelse`, `bpin`, `bunpin`, `acquiresleep`, `releasesleep`. `BlockStore`: a block
  has one value, which only its owner changes. Two rules of the callers are
  assumed: a changed buffer is written or pinned before `brelse()`, and unpinned
  after it was written. A process uses one buffer at a time.
* `VirtioDisk`: descriptor allocation, both rings with wrapping indexes,
  notification, the interrupt handler and the device. The device finishes
  requests in any order and reports no errors. The constant `Ring` is `NUM` in the
  code; it is separate so that TLC need not enumerate stale ring entries.
* `Inodes`: the table of inodes in memory (`iget`, `idup`, `ilock`, `iunlock`, `iput`)
  over the inodes on disk (`ialloc`, `iupdate`). `iput()` looks at the reference count
  and takes the sleep-lock under `itable.lock`, frees the inode without it, and
  takes it again.
* `FileSystem`: `namex`, `dirlookup`, `dirlink`, `create`, `open`, `link`, `unlink`,
  `mkdir`, `mknod`, `chdir` and `close`, one step for each stretch between two
  locks, and `Crash`. A path is a sequence of names; a process has one open file
  and a current directory.
* `FileData`: `balloc`, `bfree`, `bmap` with the indirect block, `itrunc`, `readi`,
  `writei`, and the loops of `fileread()` and `filewrite()` that cut a write into
  transactions. One turn of `writei()` is a step. `fs.bytes` is the abstract content of
  each file, which the blocks have to agree with. A copy from user memory may fail
  behind any byte. What it has copied stays in the buffer, unlogged: it is lost when
  the buffer is recycled (`Recycle`), unless the block is in the log or gets there by
  another write. So `fs.bytes` has a set of bytes for each place: the one written last,
  and those that failed copies have brought since.
* `Mkfs`: `ialloc`, `iappend`, `balloc` and `main` of mkfs as operators; the image they
  make is where `FileData` starts.
* `Pipe`: `pipewrite`, `piperead`, `pipeclose` through `fileclose`, `kill`, failing
  `copyin`/`copyout`, and counters that wrap. `Fifo`: a bounded queue with two
  ends that can be closed.
* `Console`: `consoleread` and `consoleintr`. `LineInput`: a line that can be
  edited until it is ready. Echo is left out.
* `Uart`: `uartputc`, `uartstart`, `uartintr`, `uartputc_sync` and the device with
  its transmit queue, which `uartinit()` switches on.
* `Shell`: the tokens and the recursive-descent parser of `sh.c` (`gettoken`, `peek`,
  `parseline`, `parsepipe`, `parseexec`, `parseredirs`, `parseblock`), and `runcmd` and
  `main` as lists of system calls yet to be made.
* `Programs`: init, echo, cat and the exercise programs in the same form, with the
  decisions of devine (bisection) and oxo (moves, lines, draw).
* `UserSys`: `fork`, `exit`, `wait`, `exec`, `kill`, `open`, `dup`, `pipe`, `close`,
  `read` and `write` over the process table, the file table with its reference
  counts and the pipes. Every process runs one of the programs; a step is a system
  call and the computation up to the next. Calls can find no memory. `open()`,
  `pipealloc()` and `sys_pipe()` allocate file by file and descriptor by descriptor, and
  give back what they have when one is missing (`Undo`); that `pipe()` cannot copy the
  two numbers to its caller is left out. The meaning of a
  command tree (`Meaning`) is defined independently of the parser and of `runcmd`: which
  standard input and output each program has, and after which others it runs.

## 3. Runs

| Run | Instance (distinct states) | Shows |
|---|---|---|
| `sched` | 2 CPUs, 2 processes (129,168) | no lost wakeup; `SchedInv`: one CPU per thread, `p->lock` is handed over and `sched()` never panics, no handler spins on a lock of its own CPU, and interrupts follow the thread; every runnable process runs |
| `log` | 2 processes, 2 blocks, 2 values, 2 data blocks in the log (72,304) | crash atomicity (refinement), durability on return, balanced pins, sleepers in `begin_op()` are woken |
| `procs` | 4 slots, 4 pids, kill of pid 2 (122,560) | `ProcsInv`: live parents, no process freed on its stack; no missed zombie; init frees orphans |
| `pipe` | 2 readers, 2 writers, 2 bytes, wrap 4, one reader may be killed (278,400) | queue (refinement); `PipeInv`: readers not forgotten, page freed last; blocked writers are woken |
| `bufcache` | 2 processes, 3 blocks, 2 buffers, 1 pin (96,688) | `CacheInv`: one buffer per block, references counted; contents kept (refinement); everyone who waits gets the buffer |
| `drivers` | disk: 2 processes, 6 descriptors, rings of 2, wrap 4; console: 2 readers, 3 characters, wrap 6 (628,413) | `DiskInv`: descriptors divided, buffers busy exactly while submitted; data moved in the right direction; line editing (refinement), console readers not forgotten, `^D` |
| `drivers_live` | disk: 3 processes, 4 descriptors; serial port: 2 writers, printf and echo, 2 bytes, wrap 4 (123,531) | every disk request returns: no completion and no waiter for descriptors is lost; output queue (refinement), nothing lost, no stall, sleeping writers are woken |
| `resources` | see below (769,048) | what the kernel hands out comes back: inodes and names, disk blocks, pages |
| `user` | 20 sessions at the console (131,944) | descriptors counted, programs wired and ordered as the command line says, oxo's winner and devine's number of tries, every command ends |

**`resources`** picks one of three components; they do not interact in the model.

* *Names* (`FileSystem`): four inodes, two processes with up to three calls each, and a
  crash at any point. In one workload a process makes and removes a directory and
  a file in it, while the other links into it, removes from it and has it as its
  current directory. The other workload collects the refusals. `TableInv`: reference
  counts are right, an inode is in the table once, and nothing in use is freed.
  `NoPanic`: `ilock()`, `unlink()` and `iput()` reach no panic, and `iput()` never waits
  under `itable.lock`, in workloads whose paths do not contain `..`. `StableTree`: after a crash at any point the tree is whole and
  link counts cover the entries. `NeverStuck`: no circular waiting for inode locks.
* *Data* (`FileData`): two processes, three files, eleven blocks of two bytes, one
  direct block a file. The disk and the bitmap's blocks fill up, writes need the
  indirect block, are cut into transactions, fail half-way, also in the middle of a
  block, and crash. `BlocksOwnedOnce`: after a reboot every block has one owner and the
  bitmap agrees, and no free block is freed. `FileIsBytes`: every file, in the cache and
  after a reboot, has the length that was written, and at every place the byte written
  there last; only where a copy failed may it be one that this copy had brought.
  `WithinReservation`: no write and no truncation logs more than `MAXOPBLOCKS`.
* *Memory*: two slots and 16 pages, with every call failing at every allocation.
  `PagesOnce`: no page is lost or used twice. `ImageIsSize`: an address space is what
  `p->sz` says, and no panic of `vm.c` is reached. `Isolation`: no call changes the memory
  of another process, a failing call changes none, a child starts as a copy. States
  that differ only in which physical page serves for what count as one (`MCView`);
  the view contains the truth of both invariants, and all that `Isolation` compares.

**`user`** types command trees that `Unparse` has written as lines: pipelines,
redirections, lists, blocks, background commands, missing programs and files, lines
that are no commands, and each exercise program. In some sessions a call finds no
memory, and in some the tables of files and descriptors are so small that `open()`,
`dup()` and `pipe()` fail at each of their allocations. `FileRefs`: reference counts equal
descriptors, failed calls included, and no program uses a closed
one. `WiredAsWritten` and `RunsInOrder` compare what runs with `Meaning`. `GamesRight`:
oxo ends with the winning move or a full board and announces which; devine finds its
number within the depth of the search, and announces "not found" in two cases only: when
it was not found, and behind "found" when the last try did it. `CommandsEnd`: no process waits for ever for a pipe or a child.

**Bounds.** Each resource is smaller than what its users can ask for together, so
that it runs out: log space, descriptors, pipe and console buffers, buffers of the
cache, disk blocks, pages. Indexes wrap at a small multiple of the buffer, so that
wrapping happens with the buffer full and empty. Two values tell a lost write from a
kept one. Two actors of each kind race with each other. `MaxPid` bounds the number of
forks, `MaxCalls` the calls of a process.

What the bounds leave out.

* `sched` has two processes: no third one interferes while two CPUs are busy.
  `log` has two blocks. `procs` has few slots. Buffers, rings and descriptors are few
  in `bufcache`, `pipe`, `drivers` and `drivers_live`. Larger instances of the safety
  properties of all of these are covered by the proofs of section 4.
* In `drivers_live` the descriptors suffice for one request, so the liveness of
  overlapping requests is not checked.
* In `log` and `bufcache` a panic (log full, no buffers) is reachable; the properties of
  those runs hold up to it and say nothing about how likely it is. `SleepersWoken`
  therefore reads: woken, or the kernel has panicked.
* In `user` a pipe holds more than any program writes before it is read, so that no
  writer blocks; `Pipe` covers that. File contents are not in `UserSys`. The
  closing of all descriptors in `exit()` is one step. Guesses go up to 5.
* In `resources` there are as many entries in the table of inodes as inodes, so
  `iget()` always finds one. A process has one open file. No path goes through `..`.

**Symmetry** is used in `drivers`, which has only safety properties and whose
actors are interchangeable, and in `log_reserve`.

**Deadlock** is checked except in `bufcache`, where a panicked kernel stops, and in
`resources` and `user`, where the calls and the typed lines are used up. In these
two `NeverStuck` and `CommandsEnd` say that it is not for another reason.

**Mutations.** Each property has at least one mutation that breaks it. A property with
several conjuncts is broken in one or two of them; the others have no mutation of
their own.

### Disagreements between code and text

Three runs end in a violation; each is a finding in `PROJECT.json`.

* `log_reserve`: three operations that use everything `begin_op()` reserves
  (`MAXOPBLOCKS` each, `LOGSIZE` together) panic with "too big a transaction". The
  log has room for `LOGSIZE - 1` data blocks, because mkfs counts the header in.
* `procs_kill0`: `kill(0)` marks the first free slot, and the next process born in
  it dies.
* `pipe_killed`: a killed writer returns without waking the readers, which sleep
  next to the bytes that it wrote. For this reason `pipe` kills a reader only.

More were met while modelling and have no run of their own.

* `wait()` tests `killed(p)` (`proc.c:427`) and then sleeps; a process killed in
  between sleeps although it is killed, until a child exits.
* `sys_getppid()` (`sysproc.c:110`) uses `p->parent` without `wait_lock`, against
  `proc.h:95`, and may read a slot that has been freed.
* The comment of `proctree()` (`proc.c:688`) says that `^T` runs it; `consoleintr()`
  has no such case and stores `^T` as input.
* `..` of a removed directory may name a free inode. A process that has `a/b` as its
  current directory after both `a/b` and `a` were removed, and opens `..`, meets
  panic("ilock: no type") (`fs.c:315`). The workloads of `resources` avoid `..`, so
  `NoPanic` is not claimed for it.
* mkfs rounds the size of the root directory up (`mkfs.c:166`); when its entries fill
  their blocks exactly, the size includes a block that the directory does not have.
* devine prints "number not found" also when its last try has found the number
  (`devine.c:89`), after it said so. `GamesRight` says that a false "not found" is
  announced in no other case.
* `writei()` (`fs.c:522`) releases a buffer into which a copy that failed has brought
  some bytes. `write()` counts none of them, and neither logs the buffer nor restores
  it. A `read()` sees them until the buffer is recycled, and for ever if another write to
  the block logs it first. "Returns the number of bytes successfully written"
  (`fs.c:502`) is then not all that was written. `FileIsBytes` allows these bytes, and
  no others, at the places they were copied to.
* Of two redirections of one descriptor the first wins, since `parseredirs()` wraps
  the later one around the earlier; `a & b` on a line is a syntax error.
* init exits, and the kernel panics, when its `fork()` fails (`CommandsEnd` allows it).

### Fairness

* A thread inside the kernel that waits for nothing goes on (weak fairness): the
  timer preempts others, and the scheduler visits all processes (`RunnableRuns`).
* A thread that spins on a lock which is free again and again gets it (strong
  fairness). The code does not guarantee this: spin-locks are unfair test-and-set
  locks. It is the usual assumption about the hardware, and the liveness results
  of `procs`, `pipe`, `bufcache` and `drivers_live` depend on it.
* Devices work, and pending interrupts are taken once interrupts are enabled.
* `sched`: timer interrupts keep coming (strong fairness per CPU). With as many CPUs
  as processes the schedulers hardly compete; `RunnableRuns` is not claimed for more
  processes than CPUs.
* `procs`: init calls `wait()` for ever, as `user/init.c` does; it neither exits nor
  is killed. `init.c` does exit when `fork()` fails, which is listed as a hazard.
* `pipe`: readers read until they close. A woken writer may find the pipe full again
  because another writer was faster, so that a given `write()` ends is not claimed.
* `log`: an operation that began calls `end_op()`, a commit goes on, and recovery runs
  after a crash (weak fairness). That a woken process gets into the log is not
  claimed: others may take the space first.
* `bufcache`: the holder of a buffer writes and releases it.
* The serial port in `drivers_live` is conditional: printf and echo bypass the buffer,
  and if they never stop they can keep the device busy for ever.
* `user`: every process that can make its call makes it (weak fairness, written with the
  enabling condition `CanStep` so that TLC need not compute it).

## 4. Proofs

Six modules prove safety properties of the runs for every value of the constants. Two
more hold lemmas: `RingLemmas` has what three of the six need about circular buffers, and
`VirtioDiskLemmas` has the steps of the driver. In each the property is not inductive as it
stands: a step preserves it only because of where the other threads are. The work lies in the strengthening, which TLC checked
before it was proved. There is one lemma per action; the theorems then follow by
temporal reasoning.

### The redo log (`LogProofs`)

For any finite set of processes, any blocks and values, and any `MAXOPBLOCKS` > 0,
`LOGSIZE`, `NLOG` and `OPBLOCKS` (`LogAssumption`):

| Theorem | Statement |
|---|---|
| `LogInvariant` | `Spec => []LogInv` |
| `TypeCorrect` | `Spec => []TypeOK` |
| `PinsBalanced` | `Spec => []PinnedExactlyWhilePending` |
| `CommitIsDurable` | `Spec => []DurableOnReturn` |
| `LogIsAtomic` | `Spec => CrashAtomicity`: `Log` implements `AtomicDisk` |

The argument. What a reboot would find is the disk overlaid with the log blocks
that the header on disk names (`Recovered`). Only two steps could change it:
writing the header, which is the abstract `Commit`, and erasing it, by when every
log block has been copied home. To show that no other step does, the invariant has
to say where everybody is and what the disk holds at each point, which
`CrashAtomicity` alone does not:

* `ControlInv`: `outstanding` counts the operations, one process commits at a time,
  and none is inside an operation then;
* `ShapeInv`: both headers name each block once and fit into the log;
* `DiskInv`: the header on disk is empty except while it is being installed, and
  then the log holds the contents of every block it names; blocks before `tail` are
  already copied;
* `CacheInv`: a block that is still to go home is in the cache, any other cached
  block equals its home block;
* `PinnedExactlyWhilePending`: that is why the cache cannot have recycled it.

There are lemmas about `Overlay`, and one lemma per group of actions for the
refinement step.

### Scheduling, sleep and wakeup (`ProcessProofs`, first part)

For any set of CPUs, any number of processes and any bound on waiting events
(`SleepWakeupAssumption`):

| Theorem | Statement |
|---|---|
| `Handover` | `Spec => []HandoverInv` |
| `ThreadsHandedOver` | `Spec => []SchedInv` |
| `NoWakeupLost` | `Spec => []NoLostWakeup` |

The argument. `HandoverInv` ties each lock to the place in the code where its holder is:

* `LockInv`: `p->lock` is held exactly when a CPU executes the thread between the
  scheduler's `acquire()` and its `release()`, on whichever side of `swtch()`; the
  condition lock exactly by a handler in `wakeup()` or a thread that tests the condition;
* `CountInv`: what `noff`, `intena` and the interrupt flag are at each point, so that the
  locks a CPU holds can be counted (`HeldLocks`);
* `StateInv`: what `p->state` is on a CPU and off it. It makes `LockInv` inductive: a
  process that `scheduler()` finds RUNNABLE with its lock free is on no CPU;
* `WakeInv`: whoever sleeps, or has released the condition lock in order to, either has
  a false condition or has a `wakeup()` under way that has not reached its slot yet. This is
  the reason no wakeup is lost, and `NoLostWakeup` is what it says while the lock is free.

### The life cycle of processes (`ProcessProofs`, second part)

The second part is about `Table`, the instance of `Procs` in `ProcTable`. For any size of the
process table (`TableAssumption`), any number of pids and any set of pids that is killed:

| Theorem | Statement |
|---|---|
| `FamilyTree` | `Table!Spec => []FamilyTreeInv` |
| `ParentsLive` | `Table!Spec => []ProcsInv` |
| `ZombiesNoticed` | `Table!Spec => []NoZombieMissed` |

The argument:

* `ControlInv`: who holds `wait_lock`, and what `p->state` is in the middle of a call;
* `ForkInv`: a process in `fork()` has a slot of its own, which is nobody's child until
  `fork()` links it;
* `FamilyInv`: init lives, and a process in `exit()` that has called `reparent()` gets no
  new children before it is a zombie. That is why a parent is never a freed slot;
* `StackInv`: a zombie whose lock is free is off its stack;
* `WaitInv`: a parent that sleeps has no zombie, and none of its children is between its
  `wakeup()` and the change to ZOMBIE, because `wait_lock` covers both.

### The buffer cache (`BufCacheProofs`)

For any finite set of processes, any blocks and values, any `NBUF` and any limit on pins
(`BufCacheAssumption`):

| Theorem | Statement |
|---|---|
| `BuffersInvariant` | `Spec => []BufInv` |
| `OneCopy` | `Spec => []CacheInv` |
| `CacheIsBlockStore` | `Spec => IsBlockStore`: `BufCache` implements `BlockStore` |

The argument. `CacheInv` says that a block has one buffer and that `refcnt` counts its
users. It is not inductive, and it does not say where the contents of a block are.

* `UseInv`: from `bget()` to `brelse()` a process has a buffer of the block it asked for,
  so `refcnt` is not zero and the buffer is not recycled; whoever holds `b->lock` is past
  `acquiresleep()`;
* `CleanInv`: a valid buffer differs from the disk only while it is pinned or held. That is
  why recycling one loses nothing, and why the abstract contents of a block (`Store`)
  change in no step but the write of its holder.

### Circular buffers (`RingLemmas`)

The pipe, the serial port, the console and the virtio queue all have a ring of `m` entries and
free-running indexes that wrap at a multiple `W` of `m`: 2^32 and `PIPESIZE`, 2^64 and
`UART_TX_BUF_SIZE`, 2^32 and `INPUT_BUF_SIZE`, 2^16 and `NUM`. The lemmas are about the sequence
between two indexes (`RingSeq`): what an entry added at one end, or removed at either, does to it
(`RingPut`, `RingGet`, `RingDrop`), that a write outside of it leaves it alone
(`RingUntouched`), and that two adjacent ones make one (`RingJoin`). They rest on `m` dividing
`W`, so that two indexes less than `m` apart never fall on one entry.

### Pipes (`PipeProofs`)

For any readers and writers, any `PIPESIZE` and any width of the counters that it divides
(`PipeAssumption`):

| Theorem | Statement |
|---|---|
| `PipeInvariant` | `Spec => []SafeInv` |
| `FreedLast` | `Spec => []NoUseAfterFree` |
| `NoReaderForgotten` | `Victim \subseteq Reader => (Spec => []PipeInv)` |
| `PipeIsFifo` | `Spec => IsFifo`: `Pipe` implements `Fifo` |

The hypothesis of `NoReaderForgotten` is needed: a writer that is killed does forget the
readers (run `pipe_killed`). The other three hold whoever is killed.

The argument: `LockInv` says who is inside the critical section; `EndsInv`, that an end is closed
by its last process after all others, and that the page is freed after both; `CountInv`, that
at most `PIPESIZE` bytes are in the pipe, which is why `RingPut` applies; `WakeInv`, that a sleeping
reader has nothing to read or a writer is in the critical section, which it leaves
through `wakeup()`.

### The disk driver (`VirtioDiskLemmas`, `VirtioDiskProofs`)

For any processes and values, any `NUM` of at least 3 descriptors, and any ring that has room for
the requests that fit into them (`VirtioAssumption`):

| Theorem | Statement |
|---|---|
| `QueueInvariant` | `Spec => []QueueInv` |
| `QueueSafe` | `Spec => []DiskInv` |
| `DataMoved` | `Spec => []TransferredWhenDone` |

The argument:

* `Linked`, `Separate`, `CountInv`: a request is three linked descriptors, filled in as its
  process wants it, and shares none of them; free ones and three for each request add up to `NUM`;
* `ControlInv`: who has a request, who holds `vdisk_lock`, whose buffer can be busy;
* `Apart`, `Owned`, `Awaited`: a request is in one place (avail ring, device, used ring), once, it is
  the one of a process, and it is there exactly as long as `b->disk` is set. So the entries of a
  ring belong to different processes, there are at most `NUM / 3` of them (`QueueBound`, a pigeonhole
  argument over the owners), and neither ring overruns although the driver never tests
  for that;
* `DataInv`: the buffer holds what is to be written until the device has moved it, and then the
  two agree.

`VirtioDiskLemmas` has the steps of `virtio_disk_rw()`; its lemmas about numbers of
elements assume `Counting`, a list of facts about finite sets. `VirtioDiskProofs` proves that list
from the library (`FiniteSetFacts`) and has the steps of the device and of the handler, and the
theorems, which assume nothing but `VirtioAssumption`.

### The serial line (`SerialProofs`)

The constants of `Uart` and `Console` are constrained by operators, not by assumptions, because
runs and proofs put these modules beside others; the theorems have them as hypotheses. They are what the code
takes for granted: sizes that are not zero and divide the width of the indexes, threads that
differ, and finitely many that bypass the lock.

| Theorem | Statement |
|---|---|
| `UartInvariant` | `UartConstants => (Spec => []SafeInv)` |
| `UartSafe` | `UartConstants => (Spec => []UartInv)` |
| `UartIsFifo` | `UartConstants => (Spec => IsFifo)`: `uart_tx_buf` implements `Fifo` |
| `ConsoleInvariant` | `Input!ConsoleConstants => (Input!Spec => []InputInv)` |
| `NoLineMissed` | `Input!ConsoleConstants => (Input!Spec => []ConsoleInv)` |
| `EofOnce` | `Input!ConsoleConstants => (Input!Spec => EofAnswersZero)` |
| `ConsoleIsLineInput` | `Input!ConsoleConstants => (Input!Spec => IsLineInput)`: `Console` implements `LineInput` |

The last four are about `Input`, the instance of `Console` in `ConsoleInput`.

Output. `RoomInv` bounds what the device holds together with the threads that have
seen it empty and are about to write to it: at most one more than there are threads in
`uartputc_sync()`, since the others write under the lock. So no byte is lost if the device has room for
that many (`NothingLost` says so; `FifoSize` is 16 in the hardware). `SendInv` says who sends the
bytes that wait: the device is busy and will interrupt, an interrupt is on its way, or
somebody is in `uartstart()`.

Input. `OrderInv` says that `r`, `w` and `e` keep their order around the ring and at most
`INPUT_BUF_SIZE` characters are between `r` and `e`. `LineInv` says that the part between `w` and `e`
contains no end of a line, so that `^U` (which stops at a newline) removes all of it, and
backspace never reaches what is ready. `WakeInv` says that readers sleep only while nothing is ready.

### Only model-checked

* All liveness properties: they are beyond the proof system.
* `FileSystem` and `Inodes`. `NoPanic` depends on which calls are made (`..` breaks it).
  `StableTree` and `NeverStuck` are about reachability in a graph, which needs induction.
  `TableInv` needs neither and has no proof yet.
* `FileData` and `Memory`: their operators walk over blocks and page tables with recursive functions
  and folds, and what these compute needs induction over data.
* `UserSys`, `Shell` and `Programs`, which rest on RECURSIVE operators (the parser, `Meaning`).

## 5. Not modelled

* Registers, the trap frame's contents and the trampoline: data without concurrency of
  its own.
* Formatting and `printf()` wording, string functions, system call dispatch, boot.
* `ps` and `pstree` read-outs (`proc.c`), `filestat`: they copy state out and change
  nothing.
* The kernel page table and the translation by the hardware, the argument strings of
  `exec()` (a count here), the split of path names into elements character by character.
* umalloc, grep, find and the other tools: sequential programs over their own data.
* Compositions of `BufCache` with `VirtioDisk`, and of `Log` with `BufCache`: the product
  of two components with crashes and pins is beyond TLC at sizes where both are
  interesting. The layers meet in the abstract specifications instead.
* Memory ordering below the level of locks: critical sections are taken to be
  sequentially consistent, and the fences of `virtio_disk.c` to work.
* Torn block writes and disk errors: the code has no handling for them.
* Overflow of `nextpid`, which may repeat a live pid after 2^31 forks.
* Room for the log and the buffers in practice: the log pins up to `LOGSIZE - 1` of
  the `NBUF = LOGSIZE` buffers, and no property says that the callers leave enough.
* Panics of `virtio_disk_intr()` on a bad status: the device reports no errors.
* Files that are unlinked but open when the machine stops stay allocated on disk: xv6 has
  no recovery for them. `StableTree` speaks of the inodes that the tree reaches.
* The kernel after a panic.

## 6. Where to go on

1. A proof of `TableInv` (`FileSystem`), which needs neither reachability nor a restriction on
   the calls.
2. `..` of removed directories, once the code settles what it should mean.
3. `Log` over `BlockStore` instead of a cache of its own.
