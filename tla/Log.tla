-------------------------------- MODULE Log ---------------------------------
(***************************************************************************)
(* The redo log of kernel/log.c: begin_op, log_write, end_op, the steps of *)
(* commit, and recovery after a crash, over the disk and the part of the   *)
(* buffer cache (kernel/bio.c) that the log relies on.                     *)
(*                                                                         *)
(* Every block write to the disk is one step, so a crash can fall between  *)
(* any two of them, also during recovery.  Each critical section under     *)
(* log.lock is one step; sleep(&log, &log.lock) releases the lock and goes *)
(* to sleep in one step (module SleepWakeup is about that).                *)
(***************************************************************************)
EXTENDS Integers, Sequences, FiniteSets

CONSTANTS Proc, Block, Value,
          Absent,       \* marks a block that is not in the buffer cache
          MAXOPBLOCKS,  \* what begin_op reserves for one operation
          LOGSIZE,      \* entries of the header's block array
          NLOG,         \* sb.nlog: blocks of the on-disk log, its header included
          OPBLOCKS      \* distinct blocks an operation may really log

ASSUME LogAssumption ==
  /\ IsFiniteSet(Proc)
  /\ Absent \notin Value
  /\ MAXOPBLOCKS \in Nat \ {0}
  /\ LOGSIZE \in Nat /\ NLOG \in Nat /\ OPBLOCKS \in Nat

VARIABLES
  disk,         \* home blocks on the disk
  dhead,        \* header block on the disk: the logged block numbers
  dlog,         \* data blocks of the on-disk log
  kernel,       \* "read_head", "install" (booting), "up" or "panic"
  cache,        \* valid buffers: Block -> Value, or Absent
  pin,          \* bpin() references of the log on the buffer of a block
  lh,           \* log.lh: block numbers of the current transaction
  outstanding,  \* log.outstanding
  committing,   \* log.committing
  tail,         \* loop variable of write_log() and install_trans()
  pc,           \* where each process is in its file system call
  wrote         \* blocks logged by the operation of each process

diskVars == <<disk, dhead, dlog>>
logVars  == <<lh, outstanding, committing, tail>>
procVars == <<pc, wrote>>
vars == <<disk, dhead, dlog, kernel, cache, pin, lh, outstanding, committing,
          tail, pc, wrote>>

LogSlot == 1 .. (NLOG - 1)

Logged == {lh[i] : i \in 1 .. Len(lh)}

TypeOK ==
  /\ disk \in [Block -> Value]
  /\ dhead \in Seq(Block)
  /\ dlog \in [LogSlot -> Value]
  /\ kernel \in {"read_head", "install", "up", "panic"}
  /\ cache \in [Block -> Value \cup {Absent}]
  /\ pin \in [Block -> Nat]
  /\ lh \in Seq(Block)
  /\ outstanding \in Nat
  /\ committing \in {0, 1}
  /\ tail \in Nat
  /\ pc \in [Proc -> {"out", "begin", "asleep", "in", "write_log",
                      "install", "done"}]
  /\ wrote \in [Proc -> SUBSET Block]

-----------------------------------------------------------------------------
(* Boot: the state of the kernel before initlog() has run.                 *)

\* A file system image made by mkfs: an empty log.
Init ==
  /\ disk \in [Block -> Value]
  /\ dhead = <<>>
  /\ \E v \in Value : dlog = [i \in LogSlot |-> v]
  /\ kernel = "read_head"
  /\ cache = [b \in Block |-> Absent]
  /\ pin = [b \in Block |-> 0]
  /\ lh = <<>>
  /\ outstanding = 0
  /\ committing = 0
  /\ tail = 0
  /\ pc = [p \in Proc |-> "out"]
  /\ wrote = [p \in Proc |-> {}]

\* A power failure at any moment: memory is lost, the disk is not.
Crash ==
  /\ kernel' = "read_head"
  /\ cache' = [b \in Block |-> Absent]
  /\ pin' = [b \in Block |-> 0]
  /\ lh' = <<>>
  /\ outstanding' = 0
  /\ committing' = 0
  /\ tail' = 0
  /\ pc' = [p \in Proc |-> "out"]
  /\ wrote' = [p \in Proc |-> {}]
  /\ UNCHANGED diskVars

\* read_head(): the header block on disk becomes log.lh.
ReadHead ==
  /\ kernel = "read_head"
  /\ lh' = dhead
  /\ tail' = 0
  /\ kernel' = "install"
  /\ UNCHANGED <<diskVars, cache, pin, outstanding, committing, procVars>>

\* One iteration of install_trans(): log block tail is copied over the
\* buffer of its home block, which is then written to the disk.
InstallBlock ==
  LET b == lh[tail + 1]
      v == dlog[tail + 1]
  IN  /\ tail < Len(lh)
      /\ disk' = [disk EXCEPT ![b] = v]
      /\ cache' = [cache EXCEPT ![b] = v]
      /\ tail' = tail + 1

\* lh.n = 0; write_head(): the log on disk is erased.
EraseLog ==
  /\ lh' = <<>>
  /\ dhead' = <<>>

RecoverBlock ==
  /\ kernel = "install"
  /\ InstallBlock
  /\ UNCHANGED <<dhead, dlog, kernel, pin, lh, outstanding, committing, procVars>>

RecoverClear ==
  /\ kernel = "install"
  /\ tail = Len(lh)
  /\ EraseLog
  /\ kernel' = "up"
  /\ UNCHANGED <<disk, dlog, cache, pin, outstanding, committing, tail, procVars>>

-----------------------------------------------------------------------------
(* The buffer cache, as far as the log depends on it.                      *)

\* bread() of a block by anyone, inside or outside an operation.
Bread(b) ==
  /\ kernel = "up"
  /\ cache[b] = Absent
  /\ cache' = [cache EXCEPT ![b] = disk[b]]
  /\ UNCHANGED <<diskVars, kernel, pin, logVars, procVars>>

\* bget() of some other block recycles the buffer of b, which is possible
\* only while its reference count is zero.
Recycle(b) ==
  /\ kernel = "up"
  /\ cache[b] # Absent
  /\ pin[b] = 0
  /\ cache' = [cache EXCEPT ![b] = Absent]
  /\ UNCHANGED <<diskVars, kernel, pin, logVars, procVars>>

-----------------------------------------------------------------------------
(* A file system call of process p.                                        *)

SyscallBegin(p) ==
  /\ kernel = "up"
  /\ pc[p] = "out"
  /\ pc' = [pc EXCEPT ![p] = "begin"]
  /\ UNCHANGED <<diskVars, kernel, cache, pin, logVars, wrote>>

MustWait ==
  \/ committing = 1
  \/ Len(lh) + (outstanding + 1) * MAXOPBLOCKS > LOGSIZE

BeginOpSleep(p) ==
  /\ kernel = "up"
  /\ pc[p] = "begin"
  /\ MustWait
  /\ pc' = [pc EXCEPT ![p] = "asleep"]
  /\ UNCHANGED <<diskVars, kernel, cache, pin, logVars, wrote>>

BeginOpEnter(p) ==
  /\ kernel = "up"
  /\ pc[p] = "begin"
  /\ ~MustWait
  /\ outstanding' = outstanding + 1
  /\ pc' = [pc EXCEPT ![p] = "in"]
  /\ wrote' = [wrote EXCEPT ![p] = {}]
  /\ UNCHANGED <<diskVars, kernel, cache, pin, lh, committing, tail>>

\* The caller: an operation stays within OPBLOCKS distinct blocks.
WithinBudget(p, b) ==
  b \in wrote[p] \/ Cardinality(wrote[p]) < OPBLOCKS

TooBig == Len(lh) >= LOGSIZE \/ Len(lh) >= NLOG - 1

\* Mutant: bpin() also for a block that is absorbed.
LogWrite_PinsTwice(p, b, v) ==
  /\ kernel = "up"
  /\ pc[p] = "in"
  /\ WithinBudget(p, b)
  /\ ~TooBig
  /\ outstanding >= 1
  /\ cache' = [cache EXCEPT ![b] = v]
  /\ wrote' = [wrote EXCEPT ![p] = @ \cup {b}]
  /\ lh' = IF b \in Logged THEN lh ELSE Append(lh, b)
  /\ pin' = [pin EXCEPT ![b] = @ + 1]
  /\ UNCHANGED <<diskVars, kernel, outstanding, committing, tail, pc>>

\* bread(); modify b->data; log_write(); brelse(), under the sleep-lock of
\* the buffer: a block logged before is absorbed, a new one is pinned.
LogWrite(p, b, v) ==
  /\ kernel = "up"
  /\ pc[p] = "in"
  /\ WithinBudget(p, b)
  /\ ~TooBig
  /\ outstanding >= 1
  /\ cache' = [cache EXCEPT ![b] = v]
  /\ wrote' = [wrote EXCEPT ![p] = @ \cup {b}]
  /\ \/ /\ b \in Logged
        /\ UNCHANGED <<lh, pin>>
     \/ /\ b \notin Logged
        /\ lh' = Append(lh, b)
        /\ pin' = [pin EXCEPT ![b] = @ + 1]
  /\ UNCHANGED <<diskVars, kernel, outstanding, committing, tail, pc>>

\* The two panics of log_write().
LogWritePanic(p, b) ==
  /\ kernel = "up"
  /\ pc[p] = "in"
  /\ WithinBudget(p, b)
  /\ TooBig \/ outstanding < 1
  /\ kernel' = "panic"
  /\ UNCHANGED <<diskVars, cache, pin, logVars, procVars>>

Woken(f) == [q \in Proc |-> IF f[q] = "asleep" THEN "begin" ELSE f[q]]

\* Mutant: end_op() leaves the commit to a later operation.
EndOp_NoCommit(p) ==
  /\ kernel = "up"
  /\ pc[p] = "in"
  /\ outstanding' = outstanding - 1
  /\ \/ /\ outstanding' = 0
        /\ committing' = 1
        /\ pc' = [pc EXCEPT ![p] = "done"]
     \/ /\ outstanding' # 0
        /\ pc' = Woken([pc EXCEPT ![p] = "out"])
        /\ UNCHANGED committing
  /\ UNCHANGED <<diskVars, kernel, cache, pin, lh, tail, wrote>>

\* end_op() up to its first release(): the last operation commits.  NoPanic
\* states that panic("log.committing") does not happen here.
EndOp(p) ==
  /\ kernel = "up"
  /\ pc[p] = "in"
  /\ outstanding' = outstanding - 1
  /\ \/ /\ outstanding' = 0
        /\ committing' = 1
        /\ tail' = 0
        /\ pc' = [pc EXCEPT ![p] = IF lh = <<>> THEN "done" ELSE "write_log"]
     \/ /\ outstanding' # 0
        /\ pc' = Woken([pc EXCEPT ![p] = "out"])
        /\ UNCHANGED <<committing, tail>>
  /\ UNCHANGED <<diskVars, kernel, cache, pin, lh, wrote>>

\* One iteration of write_log(): a cached block goes to its log block.
WriteLogBlock(p) ==
  /\ kernel = "up"
  /\ pc[p] = "write_log"
  /\ tail < Len(lh)
  /\ LET b == lh[tail + 1]
         v == IF cache[b] = Absent THEN disk[b] ELSE cache[b]
     IN  /\ cache' = [cache EXCEPT ![b] = v]
         /\ dlog' = [dlog EXCEPT ![tail + 1] = v]
  /\ tail' = tail + 1
  /\ UNCHANGED <<disk, dhead, kernel, pin, lh, outstanding, committing, procVars>>

\* Mutant: the header is written before the log blocks.
WriteHead_First(p) ==
  /\ kernel = "up"
  /\ pc[p] = "write_log"
  /\ dhead' = lh
  /\ tail' = 0
  /\ pc' = [pc EXCEPT ![p] = "install"]
  /\ UNCHANGED <<disk, dlog, kernel, cache, pin, lh, outstanding, committing, wrote>>

\* write_head() with the whole log on disk: the transaction commits.
WriteHead(p) ==
  /\ kernel = "up"
  /\ pc[p] = "write_log"
  /\ tail = Len(lh)
  /\ dhead' = lh
  /\ tail' = 0
  /\ pc' = [pc EXCEPT ![p] = "install"]
  /\ UNCHANGED <<disk, dlog, kernel, cache, pin, lh, outstanding, committing, wrote>>

\* One iteration of install_trans(0), bunpin() included.
CommitInstall(p) ==
  /\ kernel = "up"
  /\ pc[p] = "install"
  /\ InstallBlock
  /\ pin' = [pin EXCEPT ![lh[tail + 1]] = @ - 1]
  /\ UNCHANGED <<dhead, dlog, kernel, lh, outstanding, committing, procVars>>

CommitErase(p) ==
  /\ kernel = "up"
  /\ pc[p] = "install"
  /\ tail = Len(lh)
  /\ EraseLog
  /\ pc' = [pc EXCEPT ![p] = "done"]
  /\ UNCHANGED <<disk, dlog, kernel, cache, pin, outstanding, committing, tail, wrote>>

\* Mutant: no wakeup(&log) after the commit.
CommitDone_Silent(p) ==
  /\ kernel = "up"
  /\ pc[p] = "done"
  /\ committing' = 0
  /\ pc' = [pc EXCEPT ![p] = "out"]
  /\ UNCHANGED <<diskVars, kernel, cache, pin, lh, outstanding, tail, wrote>>

\* The end of end_op(): committing = 0 and wakeup(&log).
CommitDone(p) ==
  /\ kernel = "up"
  /\ pc[p] = "done"
  /\ committing' = 0
  /\ pc' = Woken([pc EXCEPT ![p] = "out"])
  /\ UNCHANGED <<diskVars, kernel, cache, pin, lh, outstanding, tail, wrote>>

-----------------------------------------------------------------------------

Recover == ReadHead \/ RecoverBlock \/ RecoverClear

CommitStep(p) ==
  WriteLogBlock(p) \/ WriteHead(p) \/ CommitInstall(p) \/ CommitErase(p) \/ CommitDone(p)

OpStep(p) ==
  \/ SyscallBegin(p) \/ BeginOpSleep(p) \/ BeginOpEnter(p) \/ EndOp(p)
  \/ \E b \in Block : LogWritePanic(p, b)
  \/ \E b \in Block, v \in Value : LogWrite(p, b, v)

Next ==
  \/ Crash
  \/ Recover
  \/ \E b \in Block : Bread(b) \/ Recycle(b)
  \/ \E p \in Proc : OpStep(p) \/ CommitStep(p)

Spec == Init /\ [][Next]_vars

\* The kernel boots when it can; a process that is inside a file system
\* call, or has been woken, runs; every operation reaches its end_op().
FairSpec ==
  /\ Spec
  /\ WF_vars(Recover)
  /\ \A p \in Proc : WF_vars(CommitStep(p))
  /\ \A p \in Proc : WF_vars(BeginOpSleep(p) \/ BeginOpEnter(p) \/ EndOp(p))

-----------------------------------------------------------------------------
(* Properties.                                                             *)

\* Disk blocks d overlaid with the log blocks l that header h names.
Overlay(d, h, l) ==
  [b \in Block |-> IF \E i \in 1 .. Len(h) : h[i] = b
                  THEN l[CHOOSE i \in 1 .. Len(h) : h[i] = b]
                  ELSE d[b]]

\* The disk that recovery would produce if the machine stopped now.
Recovered == Overlay(disk, dhead, dlog)

\* What bread() returns now.
Contents ==
  [b \in Block |-> IF cache[b] = Absent THEN disk[b] ELSE cache[b]]

Booted == kernel \in {"up", "panic"}

Visible == IF Booted THEN Contents ELSE Recovered

Active == {p \in Proc : pc[p] = "in"}

Abstract == INSTANCE AtomicDisk WITH
  stable <- Recovered, volatile <- Visible, active <- Active

\* log.c implements AtomicDisk: whatever is interrupted by a crash, a reboot
\* finds all of the writes of a group of complete operations or none of
\* them, and between crashes readers see every write (commit(),
\* recover_from_log() and the pinning in log_write()).
CrashAtomicity == Abstract!ASpec

\* When the end_op() that committed is about to return, everything written
\* so far is what a reboot would find: the call is durable on return.
DurableOnReturn ==
  \A p \in Proc :
    Booted /\ pc[p] = "done" => Recovered = Contents

Distinct(s) == \A i, j \in 1 .. Len(s) : s[i] = s[j] => i = j

Committer(p) == pc[p] \in {"write_log", "install", "done"}

\* Entry i of log.lh is logged but not yet written to its home block.
Pending(i) == tail < i \/ \A p \in Proc : pc[p] # "install"

\* Who may be where: operations are counted, one process commits at a time
\* and then no operation is running.
ControlInv ==
  /\ outstanding = Cardinality(Active)
  /\ committing = 1 => Active = {}
  /\ \A p \in Proc : Committer(p) => committing = 1
  /\ \A p, q \in Proc : Committer(p) /\ Committer(q) => p = q
  /\ \A p \in Proc : pc[p] = "done" => lh = <<>>
  /\ ~Booted => /\ \A p \in Proc : pc[p] = "out"
               /\ committing = 0
  /\ kernel = "read_head" => lh = <<>>

\* Both headers name each block once and fit in the on-disk log.
ShapeInv ==
  /\ Distinct(lh) /\ Distinct(dhead)
  /\ \A i \in 1 .. Len(lh) : i \in LogSlot
  /\ \A i \in 1 .. Len(dhead) : i \in LogSlot

\* The header on disk is empty except while its blocks are being installed;
\* then the log holds the contents of every block that it names.
DiskInv ==
  /\ kernel = "install" =>
       /\ dhead = lh
       /\ \A i \in 1 .. Len(lh) : i <= tail => disk[lh[i]] = dlog[i]
  /\ Booted =>
       /\ (\A p \in Proc : pc[p] # "install") => dhead = <<>>
       /\ \A p \in Proc : pc[p] = "install" =>
            /\ dhead = lh
            /\ \A i \in 1 .. Len(lh) : Contents[lh[i]] = dlog[i]
            /\ \A i \in 1 .. Len(lh) : i <= tail => disk[lh[i]] = dlog[i]
       /\ \A p \in Proc : pc[p] = "write_log" =>
            \A i \in 1 .. Len(lh) : i <= tail => dlog[i] = cache[lh[i]]

\* A block that is still to be written home is in the cache, and any other
\* cached block equals its home block.
CacheInv ==
  /\ Booted => \A i \in 1 .. Len(lh) : Pending(i) => cache[lh[i]] # Absent
  /\ \A b \in Block :
       (\A i \in 1 .. Len(lh) : ~Booted \/ lh[i] # b \/ ~Pending(i))
         => cache[b] \in {Absent, disk[b]}

\* The log holds one reference to the buffer of every block that it has yet
\* to write home, so that bget() cannot recycle it, and no other: log_write()
\* pins a block once, install_trans(0) unpins it and recovery does neither.
PinnedExactlyWhilePending ==
  \A b \in Block :
    pin[b] = IF Booted /\ \E i \in 1 .. Len(lh) : lh[i] = b /\ Pending(i)
             THEN 1 ELSE 0

\* An operation that logs no more than OPBLOCKS blocks never runs into
\* log_write()'s "too big a transaction", nor end_op()'s "log.committing":
\* the reservation made by begin_op() is enough.
NoPanic ==
  /\ kernel # "panic"
  /\ \A p \in Proc : pc[p] = "in" => committing = 0

\* The same for operations that use all that begin_op() reserves for them,
\* MAXOPBLOCKS, the "max # of blocks any FS op writes" (kernel/param.h).
ReservationSuffices == OPBLOCKS <= MAXOPBLOCKS => NoPanic

\* A process asleep in begin_op() is woken again: end_op() wakes the sleepers
\* both when it gives back reserved space and when a commit is over.  After a
\* panic nobody is woken.
SleepersWoken ==
  \A p \in Proc : pc[p] = "asleep" ~> pc[p] # "asleep" \/ kernel = "panic"
=============================================================================
