------------------------------ MODULE LogProofs -----------------------------
(***************************************************************************)
(* Proofs about Log for every number of processes, blocks and values and   *)
(* every log size.                                                         *)
(***************************************************************************)
EXTENDS Log, FiniteSetTheorems, TLAPS

\* The inductive invariant.  ControlInv says who may be where, ShapeInv that
\* the headers fit, DiskInv and CacheInv relate disk, log and cache.
LogInv == TypeOK /\ ControlInv /\ ShapeInv /\ DiskInv /\ CacheInv /\ PinnedExactlyWhilePending

\* The processes between begin_op() and end_op() can be counted, as
\* log.outstanding does.
LEMMA ActiveFinite == TypeOK => IsFiniteSet(Active) /\ Cardinality(Active) \in Nat
BY LogAssumption, FS_Subset, FS_CardinalityType DEF Active

\* A crash loses memory only; the disk alone satisfies what recovery needs.
LEMMA CrashInv ==
  ASSUME LogInv, Crash
  PROVE  LogInv'
<1> USE DEF LogInv
<1>1. TypeOK'
  BY DEF TypeOK, Crash, diskVars
<1>2. ControlInv'
  <2>1. Active' = {}
    BY DEF Crash, Active
  <2> QED BY <2>1, FS_EmptySet DEF Crash, ControlInv, Committer
<1>3. ShapeInv'
  BY DEF Crash, diskVars, ShapeInv, Distinct
<1>5. DiskInv'
  BY DEF Crash, DiskInv, Booted
<1>6. CacheInv'
  BY DEF Crash, CacheInv
<1>4. PinnedExactlyWhilePending'
  BY DEF Crash, PinnedExactlyWhilePending
<1> QED BY <1>1, <1>2, <1>3, <1>4, <1>5, <1>6

\* read_head() brings the header on disk into memory.
LEMMA ReadHeadInv ==
  ASSUME LogInv, ReadHead
  PROVE  LogInv'
<1> USE DEF LogInv
<1>1. TypeOK'
  BY DEF TypeOK, ReadHead, diskVars, procVars
<1>2. ControlInv'
  BY DEF ReadHead, procVars, ControlInv, Active, Committer, Booted
<1>3. ShapeInv'
  BY DEF ReadHead, diskVars, ShapeInv
<1>5. DiskInv'
  BY DEF ReadHead, diskVars, DiskInv, Booted
<1>6. CacheInv'
  BY DEF ReadHead, diskVars, CacheInv, Booted
<1>4. PinnedExactlyWhilePending'
  BY DEF ReadHead, Booted, PinnedExactlyWhilePending
<1> QED BY <1>1, <1>2, <1>3, <1>4, <1>5, <1>6

\* install_trans(1) copies a log block home and pins nothing.
LEMMA RecoverBlockInv ==
  ASSUME LogInv, RecoverBlock
  PROVE  LogInv'
<1> USE DEF LogInv
<1>1. TypeOK'
  BY DEF TypeOK, RecoverBlock, InstallBlock, procVars, ShapeInv
<1>2. ControlInv'
  BY DEF RecoverBlock, procVars, ControlInv, Active, Committer, Booted
<1>3. ShapeInv'
  BY DEF RecoverBlock, ShapeInv
<1>5. DiskInv'
  BY DEF TypeOK, RecoverBlock, InstallBlock, ShapeInv, Distinct, DiskInv, Booted
<1>6. CacheInv'
  BY DEF TypeOK, RecoverBlock, InstallBlock, CacheInv, Booted
<1>4. PinnedExactlyWhilePending'
  BY DEF RecoverBlock, Booted, PinnedExactlyWhilePending
<1> QED BY <1>1, <1>2, <1>3, <1>4, <1>5, <1>6

\* recover_from_log() erases the log after all blocks are home.
LEMMA RecoverClearInv ==
  ASSUME LogInv, RecoverClear
  PROVE  LogInv'
<1> USE DEF LogInv
<1>1. TypeOK'
  BY DEF TypeOK, RecoverClear, EraseLog, procVars
<1>2. ControlInv'
  BY DEF RecoverClear, procVars, ControlInv, Active, Committer, Booted
<1>3. ShapeInv'
  BY DEF RecoverClear, EraseLog, ShapeInv, Distinct
<1>5. DiskInv'
  BY DEF RecoverClear, EraseLog, DiskInv
<1>6. CacheInv'
  BY DEF RecoverClear, EraseLog, CacheInv, Booted
<1>4. PinnedExactlyWhilePending'
  BY DEF RecoverClear, EraseLog, DiskInv, Pending, PinnedExactlyWhilePending
<1> QED BY <1>1, <1>2, <1>3, <1>4, <1>5, <1>6

\* bread() caches what is on the disk.
LEMMA BreadInv ==
  ASSUME LogInv, NEW b \in Block, Bread(b)
  PROVE  LogInv'
<1> USE DEF LogInv
<1>1. TypeOK'
  BY DEF TypeOK, Bread, diskVars, logVars, procVars
<1>2. ControlInv'
  BY DEF Bread, logVars, procVars, ControlInv, Active, Committer, Booted
<1>3. ShapeInv'
  BY DEF Bread, diskVars, logVars, ShapeInv
<1>5. DiskInv'
  <2>1. Contents' = Contents
    BY DEF Bread, Contents, diskVars
  <2>2. \A i \in 1 .. Len(lh), p \in Proc :
          kernel = "up" /\ pc[p] = "write_log" => cache'[lh[i]] = cache[lh[i]]
    BY DEF Bread, CacheInv, ControlInv, Committer, Pending
  <2> QED BY <2>1, <2>2 DEF Bread, diskVars, logVars, procVars, Booted, DiskInv
<1>6. CacheInv'
  BY DEF Bread, diskVars, logVars, procVars, CacheInv, Booted, Pending
<1>4. PinnedExactlyWhilePending'
  BY DEF Bread, logVars, procVars, Booted, Pending, PinnedExactlyWhilePending
<1> QED BY <1>1, <1>2, <1>3, <1>4, <1>5, <1>6

\* bget() recycles only buffers that the log has not pinned.
LEMMA RecycleInv ==
  ASSUME LogInv, NEW b \in Block, Recycle(b)
  PROVE  LogInv'
<1> USE DEF LogInv
<1>1. TypeOK'
  BY DEF TypeOK, Recycle, diskVars, logVars, procVars
<1>2. ControlInv'
  BY DEF Recycle, logVars, procVars, ControlInv, Active, Committer, Booted
<1>3. ShapeInv'
  BY DEF Recycle, diskVars, logVars, ShapeInv
<1>0. \A i \in 1 .. Len(lh) : lh[i] # b \/ ~Pending(i)
  BY DEF Recycle, Booted, PinnedExactlyWhilePending
<1>5. DiskInv'
  <2>1. Contents' = Contents
    BY <1>0 DEF Recycle, Contents, diskVars, CacheInv
  <2>2. \A i \in 1 .. Len(lh), p \in Proc :
          kernel = "up" /\ pc[p] = "write_log" => cache'[lh[i]] = cache[lh[i]]
    BY <1>0 DEF Recycle, ControlInv, Committer, Pending
  <2> QED BY <2>1, <2>2 DEF Recycle, diskVars, logVars, procVars, Booted, DiskInv
<1>6. CacheInv'
  BY <1>0 DEF Recycle, diskVars, logVars, procVars, CacheInv, Booted, Pending
<1>4. PinnedExactlyWhilePending'
  BY DEF Recycle, logVars, procVars, Booted, Pending, PinnedExactlyWhilePending
<1> QED BY <1>1, <1>2, <1>3, <1>4, <1>5, <1>6

\* A process that enters a file system call touches nothing of the log.
LEMMA SyscallBeginInv ==
  ASSUME LogInv, NEW p \in Proc, SyscallBegin(p)
  PROVE  LogInv'
<1> USE DEF LogInv
<1>1. TypeOK'
  BY DEF TypeOK, SyscallBegin, diskVars, logVars
<1>2. ControlInv'
  BY Zenon DEF TypeOK, SyscallBegin, logVars, ControlInv, Active, Committer, Booted
<1>3. ShapeInv'
  BY DEF SyscallBegin, diskVars, logVars, ShapeInv
<1>5. DiskInv'
  BY DEF SyscallBegin, diskVars, logVars, DiskInv, Booted, Contents
<1>6. CacheInv'
  BY DEF SyscallBegin, diskVars, logVars, CacheInv, Booted, Pending
<1>4. PinnedExactlyWhilePending'
  BY DEF SyscallBegin, logVars, Booted, Pending, PinnedExactlyWhilePending
<1> QED BY <1>1, <1>2, <1>3, <1>4, <1>5, <1>6

\* begin_op() that has to wait changes only where the process is.
LEMMA BeginOpSleepInv ==
  ASSUME LogInv, NEW p \in Proc, BeginOpSleep(p)
  PROVE  LogInv'
<1> USE DEF LogInv
<1>1. TypeOK'
  BY DEF TypeOK, BeginOpSleep, diskVars, logVars
<1>2. ControlInv'
  BY Zenon DEF TypeOK, BeginOpSleep, logVars, ControlInv, Active, Committer, Booted
<1>3. ShapeInv'
  BY DEF BeginOpSleep, diskVars, logVars, ShapeInv
<1>5. DiskInv'
  BY DEF BeginOpSleep, diskVars, logVars, DiskInv, Booted, Contents
<1>6. CacheInv'
  BY DEF BeginOpSleep, diskVars, logVars, CacheInv, Booted, Pending
<1>4. PinnedExactlyWhilePending'
  BY DEF BeginOpSleep, logVars, Booted, Pending, PinnedExactlyWhilePending
<1> QED BY <1>1, <1>2, <1>3, <1>4, <1>5, <1>6

\* begin_op() counts the new operation; nobody commits at that moment.
LEMMA BeginOpEnterInv ==
  ASSUME LogInv, NEW p \in Proc, BeginOpEnter(p)
  PROVE  LogInv'
<1> USE DEF LogInv
<1>1. TypeOK'
  BY DEF TypeOK, BeginOpEnter, diskVars
<1>2. ControlInv'
  <2>1. Active' = Active \cup {p} /\ p \notin Active
    BY DEF TypeOK, BeginOpEnter, Active
  <2>2. Cardinality(Active') = Cardinality(Active) + 1
    BY <2>1, ActiveFinite, FS_AddElement
  <2> QED BY <2>2 DEF BeginOpEnter, MustWait, ControlInv, Committer, Booted
<1>3. ShapeInv'
  BY DEF BeginOpEnter, diskVars, ShapeInv
<1>5. DiskInv'
  BY DEF BeginOpEnter, diskVars, DiskInv, Booted, Contents
<1>6. CacheInv'
  BY DEF BeginOpEnter, diskVars, CacheInv, Booted, Pending
<1>4. PinnedExactlyWhilePending'
  BY DEF BeginOpEnter, Booted, Pending, PinnedExactlyWhilePending
<1> QED BY <1>1, <1>2, <1>3, <1>4, <1>5, <1>6

\* end_op() counts down, and the last operation becomes the only committer.
LEMMA EndOpInv ==
  ASSUME LogInv, NEW p \in Proc, EndOp(p)
  PROVE  LogInv'
<1> USE DEF LogInv
<1>0. /\ committing = 0
      /\ outstanding >= 1
      /\ outstanding' = outstanding - 1
      /\ Active' = Active \ {p}
      /\ outstanding' = Cardinality(Active')
      /\ \A q \in Proc : ~Committer(q)
  <2>1. committing = 0 /\ p \in Active
    BY DEF TypeOK, EndOp, ControlInv, Active
  <2>2. Active' = Active \ {p}
    BY DEF TypeOK, EndOp, Active, Woken
  <2>3. Cardinality(Active') = Cardinality(Active) - 1
    BY <2>1, <2>2, ActiveFinite, FS_RemoveElement
  <2>4. Cardinality(Active') \in Nat
    BY <2>2, ActiveFinite, FS_RemoveElement, FS_CardinalityType
  <2> QED BY <2>1, <2>2, <2>3, <2>4 DEF TypeOK, EndOp, ControlInv
<1>1. TypeOK'
  <2>1. pc' \in [Proc -> {"out", "begin", "asleep", "in", "write_log", "install", "done"}]
    BY Zenon DEF TypeOK, EndOp, Woken
  <2>2. outstanding' \in Nat /\ committing' \in {0, 1} /\ tail' \in Nat /\ kernel' = kernel
    BY <1>0 DEF TypeOK, EndOp
  <2> QED BY <2>1, <2>2 DEF TypeOK, EndOp, diskVars
<1>7. /\ kernel' = kernel
      /\ \A q \in Proc : pc[q] # "install" /\ pc'[q] # "install"
      /\ \A q \in Proc : pc'[q] = "write_log" => tail' = 0
  <2>1. kernel' = kernel
    BY DEF EndOp
  <2>2. \A q \in Proc : pc[q] # "install" /\ pc[q] # "write_log"
    BY <1>0 DEF Committer
  <2>3. CASE outstanding' = 0
    BY <2>2, <2>3 DEF TypeOK, EndOp
  <2>4. CASE outstanding' # 0
    BY <2>2, <2>4 DEF EndOp, Woken
  <2> QED BY <2>3, <2>4
<1>2. ControlInv'
  <2>1. CASE outstanding' = 0
    <3>1. Active' = {}
      BY Zenon, <1>0, <2>1, ActiveFinite, FS_RemoveElement, FS_EmptySet
    <3> QED BY <1>0, <2>1, <3>1 DEF TypeOK, EndOp, ControlInv, Committer, Booted
  <2>2. CASE outstanding' # 0
    <3>1. \A q \in Proc : ~Committer(q)' /\ committing' = 0
      BY <1>0, <2>2 DEF EndOp, Woken, Committer
    <3> QED BY <1>0, <3>1 DEF EndOp, ControlInv, Booted, Committer
  <2> QED BY <2>1, <2>2
<1>3. ShapeInv'
  BY DEF EndOp, diskVars, ShapeInv
<1>5. DiskInv'
  <2>1. Contents' = Contents
    BY DEF EndOp, Contents, diskVars
  <2> QED BY <1>7 DEF EndOp, diskVars, Booted, DiskInv
<1>6. CacheInv'
  BY <1>7 DEF EndOp, diskVars, Booted, CacheInv, Pending
<1>4. PinnedExactlyWhilePending'
  BY <1>7 DEF EndOp, Booted, Pending, PinnedExactlyWhilePending
<1> QED BY <1>1, <1>2, <1>3, <1>4, <1>5, <1>6

\* A panic in log_write() leaves disk and log as they are.
LEMMA LogWritePanicInv ==
  ASSUME LogInv, NEW p \in Proc, NEW b \in Block, LogWritePanic(p, b)
  PROVE  LogInv'
<1> USE DEF LogInv
<1>1. TypeOK'
  BY DEF TypeOK, LogWritePanic, diskVars, logVars, procVars
<1>2. ControlInv'
  BY DEF LogWritePanic, logVars, procVars, ControlInv, Active, Committer, Booted
<1>3. ShapeInv'
  BY DEF LogWritePanic, diskVars, logVars, ShapeInv
<1>5. DiskInv'
  BY DEF LogWritePanic, diskVars, procVars, DiskInv, ControlInv, Active, Committer
<1>6. CacheInv'
  BY DEF LogWritePanic, diskVars, logVars, procVars, CacheInv, Booted, Pending
<1>4. PinnedExactlyWhilePending'
  BY DEF LogWritePanic, logVars, procVars, Booted, Pending, PinnedExactlyWhilePending
<1> QED BY <1>1, <1>2, <1>3, <1>4, <1>5, <1>6

\* log_write() absorbs a block that is logged, or appends it and pins its
\* buffer.  TooBig keeps the new entry within the on-disk log.
LEMMA LogWriteInv ==
  ASSUME LogInv, NEW p \in Proc, NEW b \in Block, NEW v \in Value, LogWrite(p, b, v)
  PROVE  LogInv'
<1> USE DEF LogInv
<1>0. /\ committing = 0
      /\ \A q \in Proc : ~Committer(q) /\ pc[q] # "install" /\ pc[q] # "write_log"
      /\ \A i \in 1 .. Len(lh) : Pending(i)
      /\ dhead = <<>>
  BY DEF TypeOK, LogWrite, ControlInv, Active, Committer, DiskInv, Pending
<1>8. CASE b \in Logged
  <2>1. lh' = lh /\ pin' = pin
    BY <1>8 DEF LogWrite
  <2>2. PICK k \in 1 .. Len(lh) : lh[k] = b
    BY <1>8 DEF Logged
  <2>3. TypeOK'
    BY <2>1 DEF TypeOK, LogWrite, diskVars
  <2>4. ControlInv'
    BY DEF LogWrite, ControlInv, Active, Committer, Booted
  <2>5. ShapeInv'
    BY <2>1 DEF LogWrite, diskVars, ShapeInv
  <2>6. DiskInv'
    BY <2>1, <1>0, LogAssumption DEF LogWrite, diskVars, DiskInv, Booted
  <2>7. CacheInv'
    BY SMTT(30), <2>1, <2>2, <1>0, LogAssumption DEF LogWrite, diskVars, CacheInv, Booted, Pending
  <2>8. PinnedExactlyWhilePending'
    BY SMTT(30), <2>1 DEF LogWrite, PinnedExactlyWhilePending, Booted, Pending
  <2> QED BY <2>3, <2>4, <2>5, <2>6, <2>7, <2>8
<1>9. CASE b \notin Logged
  <2>1. lh' = Append(lh, b) /\ pin' = [pin EXCEPT ![b] = @ + 1]
    BY <1>9 DEF LogWrite
  <2>2. /\ lh' \in Seq(Block)
        /\ Len(lh') = Len(lh) + 1
        /\ Len(lh) \in Nat
        /\ \A i \in 1 .. Len(lh) : lh'[i] = lh[i] /\ lh[i] # b
        /\ lh'[Len(lh) + 1] = b
        /\ \A i \in 1 .. Len(lh') : i \in 1 .. Len(lh) \/ i = Len(lh) + 1
        /\ Len(lh) + 1 \in 1 .. Len(lh')
        /\ \A i \in 1 .. Len(lh) : i \in 1 .. Len(lh')
    BY <1>9, <2>1 DEF TypeOK, Logged
  <2>3. TypeOK'
    BY <2>1 DEF TypeOK, LogWrite, diskVars
  <2>4. ControlInv'
    BY DEF LogWrite, ControlInv, Active, Committer, Booted
  <2>5. ShapeInv'
    <3>1. Distinct(lh)'
      BY <2>2 DEF ShapeInv, Distinct
    <3>2. \A i \in 1 .. Len(lh') : i \in LogSlot
      BY LogAssumption DEF LogWrite, TooBig, LogSlot
    <3> QED BY <3>1, <3>2 DEF LogWrite, diskVars, ShapeInv
  <2>6. DiskInv'
    BY SMTT(30), <1>0 DEF LogWrite, diskVars, DiskInv
  <2>7. \A i \in 1 .. Len(lh') : Pending(i)'
    BY <1>0 DEF LogWrite, Pending
  <2>8. CacheInv'
    <3>1. \A i \in 1 .. Len(lh') : cache'[lh'[i]] # Absent
      <4>1. cache'[b] = v /\ v # Absent /\ kernel = "up"
        BY LogAssumption DEF TypeOK, LogWrite
      <4>2. \A i \in 1 .. Len(lh) : cache'[lh'[i]] = cache[lh[i]]
        BY <2>2 DEF LogWrite
      <4>3. \A i \in 1 .. Len(lh) : cache[lh[i]] # Absent
        BY SMTT(30), <1>0, <4>1 DEF CacheInv, Booted
      <4> QED BY SMTT(30), <2>2, <4>1, <4>2, <4>3
    <3>2. \A c \in Block : (\A i \in 1 .. Len(lh') : lh'[i] # c) => cache'[c] \in {Absent, disk[c]}
      <4>1. \A c \in Block : c # b => cache'[c] = cache[c]
        BY DEF LogWrite
      <4>2. \A c \in Block : (\A i \in 1 .. Len(lh') : lh'[i] # c)
                => c # b /\ \A i \in 1 .. Len(lh) : lh[i] # c
        BY <2>2
      <4> QED BY <4>1, <4>2 DEF CacheInv
    <3> QED BY SMTT(30), <2>7, <3>1, <3>2 DEF LogWrite, diskVars, CacheInv, Booted
  <2>9. PinnedExactlyWhilePending'
    <3>1. \A c \in Block :
            (\E i \in 1 .. Len(lh') : lh'[i] = c) <=> c = b \/ \E i \in 1 .. Len(lh) : lh[i] = c
      BY SMTT(30), <2>2
    <3>2. pin[b] = 0
      BY <2>2 DEF PinnedExactlyWhilePending
    <3> QED BY <1>0, <2>1, <2>7, <3>1, <3>2 DEF TypeOK, LogWrite, PinnedExactlyWhilePending,
               Booted
  <2> QED BY <2>3, <2>4, <2>5, <2>6, <2>8, <2>9
<1> QED BY <1>8, <1>9

\* write_log() copies a cached block into its log block.
LEMMA WriteLogBlockInv ==
  ASSUME LogInv, NEW p \in Proc, WriteLogBlock(p)
  PROVE  LogInv'
<1> USE DEF LogInv
<1>1. TypeOK'
  BY DEF TypeOK, WriteLogBlock, procVars, ShapeInv
<1>2. ControlInv'
  BY DEF WriteLogBlock, procVars, ControlInv, Active, Committer, Booted
<1>3. ShapeInv'
  BY DEF WriteLogBlock, ShapeInv
<1>5. DiskInv'
  <2>1. /\ kernel = "up" /\ kernel' = kernel
        /\ tail + 1 \in 1 .. Len(lh) /\ tail + 1 \in LogSlot
        /\ lh[tail + 1] \in Block
        /\ pc' = pc /\ lh' = lh /\ dhead' = dhead /\ disk' = disk /\ tail' = tail + 1
    BY DEF TypeOK, WriteLogBlock, procVars, ShapeInv
  <2>2. \A q \in Proc : pc[q] # "install"
    BY DEF WriteLogBlock, ControlInv, Committer
  <2>3. cache[lh[tail + 1]] # Absent
    BY <2>1, <2>2 DEF CacheInv, Booted, Pending
  <2>4. /\ cache' = cache
        /\ dlog' = [dlog EXCEPT ![tail + 1] = cache[lh[tail + 1]]]
    BY <2>1, <2>3 DEF TypeOK, WriteLogBlock
  <2>5. \A i \in 1 .. Len(lh) : i <= tail => dlog[i] = cache[lh[i]]
    BY <2>1 DEF WriteLogBlock, DiskInv, Booted
  <2>6. \A i \in 1 .. Len(lh) : i <= tail + 1 => dlog'[i] = cache[lh[i]]
    BY <2>1, <2>4, <2>5 DEF TypeOK, ShapeInv
  <2> QED BY <2>1, <2>2, <2>4, <2>6 DEF DiskInv, Booted
<1>6. CacheInv'
  BY DEF WriteLogBlock, procVars, CacheInv, ControlInv, Committer, Booted, Pending
<1>4. PinnedExactlyWhilePending'
  BY DEF WriteLogBlock, procVars, ControlInv, Committer, Booted, Pending,
     PinnedExactlyWhilePending
<1> QED BY <1>1, <1>2, <1>3, <1>4, <1>5, <1>6

\* write_head(): from here on the header on disk names what was logged.
LEMMA WriteHeadInv ==
  ASSUME LogInv, NEW p \in Proc, WriteHead(p)
  PROVE  LogInv'
<1> USE DEF LogInv
<1>1. TypeOK'
  BY DEF TypeOK, WriteHead
<1>2. ControlInv'
  BY Zenon DEF TypeOK, WriteHead, ControlInv, Active, Committer, Booted
<1>3. ShapeInv'
  BY DEF WriteHead, ShapeInv
<1>5. DiskInv'
  BY LogAssumption DEF TypeOK, WriteHead, ShapeInv, DiskInv, Booted, Contents, LogSlot
<1>6. CacheInv'
  <2>1. \A i \in 1 .. Len(lh) : Pending(i) /\ Pending(i)'
    BY DEF WriteHead, Pending, ControlInv, Committer
  <2> QED BY <2>1 DEF WriteHead, CacheInv, Booted
<1>4. PinnedExactlyWhilePending'
  BY DEF WriteHead, ControlInv, Committer, Booted, Pending, PinnedExactlyWhilePending
<1> QED BY <1>1, <1>2, <1>3, <1>4, <1>5, <1>6

\* install_trans(0) writes one block home and unpins its buffer.
LEMMA CommitInstallInv ==
  ASSUME LogInv, NEW p \in Proc, CommitInstall(p)
  PROVE  LogInv'
<1> USE DEF LogInv
<1> DEFINE b == lh[tail + 1]
           v == dlog[tail + 1]
<1>0. /\ tail + 1 \in 1 .. Len(lh) /\ tail + 1 \in LogSlot
      /\ b \in Block /\ v \in Value
      /\ dhead = lh
      /\ cache[b] = v
      /\ pin[b] = 1
      /\ \A i \in 1 .. Len(lh) : i # tail + 1 => lh[i] # b
      /\ \A i \in 1 .. Len(lh) : Pending(i) <=> tail < i
      /\ \A i \in 1 .. Len(lh) : Pending(i)' <=> tail + 1 < i
      /\ \A q \in Proc : pc[q] # "write_log"
  <2>1. tail + 1 \in 1 .. Len(lh) /\ tail + 1 \in LogSlot /\ b \in Block /\ v \in Value
    BY DEF TypeOK, CommitInstall, InstallBlock, ShapeInv
  <2>2. /\ \A i \in 1 .. Len(lh) : Pending(i) <=> tail < i
        /\ \A i \in 1 .. Len(lh) : Pending(i)' <=> tail + 1 < i
        /\ \A q \in Proc : pc[q] # "write_log"
    BY DEF CommitInstall, InstallBlock, procVars, Pending, ControlInv, Committer
  <2>3. cache[b] # Absent /\ dhead = lh /\ Contents[b] = v
    BY <2>1, <2>2 DEF TypeOK, CommitInstall, CacheInv, DiskInv, Booted
  <2>4. pin[b] = 1
    BY <2>1, <2>2 DEF TypeOK, CommitInstall, PinnedExactlyWhilePending, Booted
  <2> QED BY <2>1, <2>2, <2>3, <2>4 DEF ShapeInv, Distinct, Contents
<1>1. TypeOK'
  BY <1>0 DEF TypeOK, CommitInstall, InstallBlock, procVars
<1>2. ControlInv'
  BY DEF CommitInstall, procVars, ControlInv, Active, Committer, Booted
<1>3. ShapeInv'
  BY DEF CommitInstall, ShapeInv
<1>5. DiskInv'
  <2>1. /\ disk' = [disk EXCEPT ![b] = v]
        /\ Contents' = Contents
        /\ dlog' = dlog /\ lh' = lh /\ tail' = tail + 1
        /\ dhead' = dhead /\ pc' = pc /\ kernel' = kernel
    BY <1>0, LogAssumption DEF CommitInstall, InstallBlock, procVars, Contents
  <2>2. \A i \in 1 .. Len(lh) : i <= tail + 1 => disk'[lh[i]] = dlog[i]
    BY <1>0, <2>1 DEF TypeOK, CommitInstall, DiskInv, Booted
  <2>3. \A i \in 1 .. Len(lh) : Contents[lh[i]] = dlog[i]
    BY SMTT(30) DEF CommitInstall, DiskInv, Booted
  <2> HIDE DEF b, v
  <2> QED BY <1>0, <2>1, <2>2 DEF DiskInv, Booted
<1>6. CacheInv'
  <2>1. \A c \in Block : c # b => cache'[c] = cache[c] /\ disk'[c] = disk[c]
    BY DEF CommitInstall, InstallBlock
  <2>2. cache'[b] = v /\ disk'[b] = v
    BY DEF TypeOK, CommitInstall, InstallBlock
  <2>3. lh' = lh /\ kernel' = kernel /\ kernel = "up" /\ tail' = tail + 1 /\ pc' = pc
    BY DEF CommitInstall, InstallBlock, procVars
  <2>4. ASSUME NEW i \in 1 .. Len(lh), Pending(i)'
        PROVE  cache'[lh[i]] # Absent
    <3>1. tail + 1 < i /\ lh[i] # b /\ lh[i] \in Block
      BY <1>0, <2>4 DEF TypeOK
    <3>2. Pending(i)
      BY <1>0, <3>1 DEF TypeOK
    <3>3. cache[lh[i]] # Absent
      BY <2>3, <3>2 DEF CacheInv, Booted
    <3> QED BY <2>1, <3>1, <3>3
  <2>5. ASSUME NEW c \in Block, \A i \in 1 .. Len(lh) : lh[i] # c \/ ~Pending(i)'
        PROVE  cache'[c] \in {Absent, disk'[c]}
    <3>1. CASE c = b
      BY <2>2, <3>1
    <3>2. CASE c # b
      <4>1. \A i \in 1 .. Len(lh) : lh[i] # c \/ ~Pending(i)
        BY <2>5, <3>2, <1>0 DEF TypeOK
      <4> QED BY <4>1, <3>2, <2>1 DEF CacheInv
    <3> QED BY <3>1, <3>2
  <2> QED BY <2>3, <2>4, <2>5 DEF CacheInv, Booted
<1>4. PinnedExactlyWhilePending'
  <2>1. pin' = [pin EXCEPT ![b] = @ - 1] /\ lh' = lh /\ kernel' = kernel /\ kernel = "up"
    BY DEF CommitInstall
  <2>2. \A c \in Block : c # b =>
          ((\E i \in 1 .. Len(lh) : lh[i] = c /\ Pending(i))
             <=> (\E i \in 1 .. Len(lh) : lh[i] = c /\ Pending(i)'))
    BY <1>0 DEF TypeOK
  <2>3. ~ \E i \in 1 .. Len(lh) : lh[i] = b /\ Pending(i)'
    BY SMTT(30), <1>0
  <2>4. pin'[b] = 0 /\ \A c \in Block : c # b => pin'[c] = pin[c]
    BY <1>0, <2>1 DEF TypeOK
  <2> HIDE DEF b, v
  <2> QED BY <2>1, <2>2, <2>3, <2>4 DEF PinnedExactlyWhilePending, Booted
<1> QED BY <1>1, <1>2, <1>3, <1>4, <1>5, <1>6

\* commit() erases the log after all blocks are home.
LEMMA CommitEraseInv ==
  ASSUME LogInv, NEW p \in Proc, CommitErase(p)
  PROVE  LogInv'
<1> USE DEF LogInv
<1>1. TypeOK'
  BY DEF TypeOK, CommitErase, EraseLog
<1>2. ControlInv'
  BY Zenon DEF TypeOK, CommitErase, EraseLog, ControlInv, Active, Committer, Booted
<1>3. ShapeInv'
  BY DEF CommitErase, EraseLog, ShapeInv, Distinct
<1>5. DiskInv'
  BY DEF CommitErase, EraseLog, DiskInv
<1>6. CacheInv'
  BY SMTT(30) DEF CommitErase, EraseLog, CacheInv, Pending
<1>4. PinnedExactlyWhilePending'
  BY SMTT(30) DEF CommitErase, EraseLog, Pending, PinnedExactlyWhilePending
<1> QED BY <1>1, <1>2, <1>3, <1>4, <1>5, <1>6

\* The end of end_op() lets other operations in again.
LEMMA CommitDoneInv ==
  ASSUME LogInv, NEW p \in Proc, CommitDone(p)
  PROVE  LogInv'
<1> USE DEF LogInv
<1>1. TypeOK'
  BY DEF TypeOK, CommitDone, Woken, diskVars
<1>2. ControlInv'
  BY Zenon DEF TypeOK, CommitDone, Woken, ControlInv, Active, Committer, Booted
<1>3. ShapeInv'
  BY DEF CommitDone, diskVars, ShapeInv
<1>5. DiskInv'
  BY DEF CommitDone, diskVars, DiskInv, ControlInv, LogSlot
<1>6. CacheInv'
  BY SMTT(30) DEF CommitDone, diskVars, CacheInv, ControlInv
<1>4. PinnedExactlyWhilePending'
  BY DEF CommitDone, diskVars, ControlInv, Committer, PinnedExactlyWhilePending
<1> QED BY <1>1, <1>2, <1>3, <1>4, <1>5, <1>6

\* The disk made by mkfs, and a kernel that has just started.
LEMMA InitInv == Init => LogInv
<1> SUFFICES ASSUME Init PROVE LogInv
  OBVIOUS
<1>1. TypeOK
  BY DEF Init, TypeOK
<1>2. Active = {}
  BY DEF Init, Active
<1>3. ControlInv
  BY <1>2, FS_EmptySet DEF Init, ControlInv, Committer
<1>4. ShapeInv
  BY DEF Init, ShapeInv, Distinct
<1>5. DiskInv
  BY DEF Init, DiskInv
<1>6. CacheInv
  BY DEF Init, CacheInv
<1>7. PinnedExactlyWhilePending
  BY DEF Init, PinnedExactlyWhilePending
<1> QED BY <1>1, <1>3, <1>4, <1>5, <1>6, <1>7 DEF LogInv

\* Every step of the system preserves the invariant.
LEMMA NextInv == LogInv /\ [Next]_vars => LogInv'
<1> SUFFICES ASSUME LogInv, [Next]_vars PROVE LogInv'
  OBVIOUS
<1>1. CASE UNCHANGED vars
  <2> USE <1>1 DEF LogInv, vars
  <2>1. TypeOK'
    BY DEF TypeOK
  <2>2. ControlInv'
    BY DEF ControlInv, Committer, Booted, Active
  <2>3. ShapeInv'
    BY DEF ShapeInv
  <2>4. DiskInv'
    BY DEF DiskInv, Booted, Contents
  <2>5. CacheInv'
    BY DEF CacheInv, Booted, Pending
  <2>6. PinnedExactlyWhilePending'
    BY DEF PinnedExactlyWhilePending, Booted, Pending
  <2> QED BY <2>1, <2>2, <2>3, <2>4, <2>5, <2>6
<1>2. CASE Crash
  BY <1>2, CrashInv
<1>3. CASE Recover
  BY <1>3, ReadHeadInv, RecoverBlockInv, RecoverClearInv DEF Recover
<1>4. CASE \E b \in Block : Bread(b) \/ Recycle(b)
  BY <1>4, BreadInv, RecycleInv
<1>5. ASSUME NEW p \in Proc, OpStep(p) PROVE LogInv'
  BY <1>5, SyscallBeginInv, BeginOpSleepInv, BeginOpEnterInv, EndOpInv, LogWritePanicInv,
     LogWriteInv DEF OpStep
<1>6. ASSUME NEW p \in Proc, CommitStep(p) PROVE LogInv'
  BY <1>6, WriteLogBlockInv, WriteHeadInv, CommitInstallInv, CommitEraseInv,
     CommitDoneInv DEF CommitStep
<1> QED BY <1>1, <1>2, <1>3, <1>4, <1>5, <1>6 DEF Next

\* The invariant of the log holds in every reachable state of log.c.
THEOREM LogInvariant == Spec => []LogInv
BY InitInv, NextInv, PTL DEF Spec

\* The variables of log.c and of its disk keep their types.
THEOREM TypeCorrect == Spec => []TypeOK
<1>1. LogInv => TypeOK
  BY DEF LogInv
<1> QED BY <1>1, LogInvariant, PTL

\* bpin() and bunpin() are balanced: the log references exactly the buffers
\* of the blocks that it still has to write home.
THEOREM PinsBalanced == Spec => []PinnedExactlyWhilePending
<1>1. LogInv => PinnedExactlyWhilePending
  BY DEF LogInv
<1> QED BY <1>1, LogInvariant, PTL

-----------------------------------------------------------------------------
(* The log implements an atomic disk.                                      *)

\* Two images of the disk are equal when all their blocks are.
LEMMA SameFunction ==
  ASSUME NEW S, NEW f, NEW g, f = [x \in S |-> f[x]], g = [x \in S |-> g[x]],
         \A x \in S : f[x] = g[x]
  PROVE  f = g
OBVIOUS

\* What recovery writes to the block that entry i of the header names.
LEMMA OverlayAt ==
  ASSUME NEW d \in [Block -> Value], NEW h \in Seq(Block), NEW l, Distinct(h)
  PROVE  /\ \A i \in 1 .. Len(h) : Overlay(d, h, l)[h[i]] = l[i]
         /\ \A b \in Block : (\A i \in 1 .. Len(h) : h[i] # b) => Overlay(d, h, l)[b] = d[b]
         /\ DOMAIN Overlay(d, h, l) = Block
<1>1. ASSUME NEW i \in 1 .. Len(h) PROVE Overlay(d, h, l)[h[i]] = l[i]
  <2>1. h[i] \in Block
    OBVIOUS
  <2>2. (CHOOSE j \in 1 .. Len(h) : h[j] = h[i]) = i
    OBVIOUS
  <2> QED BY Zenon, <2>1, <2>2 DEF Overlay
<1> QED BY Zenon, <1>1 DEF Overlay

\* An empty header leaves the disk as it is.
LEMMA OverlayEmpty ==
  ASSUME NEW d \in [Block -> Value], NEW l
  PROVE  Overlay(d, <<>>, l) = d
BY DEF Overlay

\* Installing a block of the log does not change what recovery produces.
LEMMA OverlayInstall ==
  ASSUME NEW d \in [Block -> Value], NEW h \in Seq(Block), NEW l,
         NEW k \in 1 .. Len(h), NEW e \in [Block -> Value],
         \A b \in Block : b # h[k] => e[b] = d[b]
  PROVE  Overlay(e, h, l) = Overlay(d, h, l)
BY DEF Overlay

\* Once every block is installed the log can be dropped.
LEMMA OverlayInstalled ==
  ASSUME NEW d \in [Block -> Value], NEW h \in Seq(Block), NEW l, Distinct(h),
         \A i \in 1 .. Len(h) : d[h[i]] = l[i]
  PROVE  Overlay(d, h, l) = d
<1> DEFINE o == Overlay(d, h, l)
<1>1. ASSUME NEW b \in Block PROVE o[b] = d[b]
  <2>1. CASE \E i \in 1 .. Len(h) : h[i] = b
    BY OverlayAt
  <2>2. CASE \A i \in 1 .. Len(h) : h[i] # b
    BY OverlayAt
  <2> QED BY <2>1, <2>2
<1>2. o = [b \in Block |-> o[b]]
  BY DEF Overlay
<1>3. d = [b \in Block |-> d[b]]
  OBVIOUS
<1>4. o = d
  <2> HIDE DEF o
  <2> QED BY <1>1, <1>2
<1> QED BY <1>4

AbstractStep == Abstract!ANext \/ UNCHANGED Abstract!avars

\* A step that changes none of the three abstract variables.
LEMMA Stutter ==
  ASSUME Recovered' = Recovered, Visible' = Visible, Active' = Active
  PROVE  AbstractStep
BY DEF AbstractStep, Abstract!avars

\* A crash is a loss of everything that was not committed.
LEMMA CrashStep ==
  ASSUME LogInv, Crash
  PROVE  AbstractStep
<1>1. Recovered' = Recovered
  BY DEF Crash, diskVars, Recovered
<1>2. Visible' = Recovered
  BY <1>1 DEF Crash, Visible, Booted
<1>3. Active' = {}
  BY DEF Crash, Active
<1> QED BY <1>1, <1>2, <1>3 DEF AbstractStep, Abstract!ANext, Abstract!Lose

\* The steps of recover_from_log() do not change what a reboot would find.
LEMMA RecoverStep ==
  ASSUME LogInv, Recover
  PROVE  AbstractStep
<1> USE DEF LogInv, TypeOK
<1>1. Active' = Active
  BY DEF Recover, ReadHead, RecoverBlock, RecoverClear, procVars, Active
<1>2. CASE ReadHead
  <2>1. Recovered' = Recovered /\ Visible' = Visible
    BY <1>2 DEF ReadHead, diskVars, Recovered, Visible, Booted
  <2> QED BY <1>1, <2>1, Stutter
<1>3. CASE RecoverBlock
  <2>1. tail + 1 \in 1 .. Len(dhead) /\ dhead = lh /\ dlog[tail + 1] \in Value
    BY <1>3 DEF RecoverBlock, InstallBlock, DiskInv, ShapeInv
  <2>2. Recovered' = Recovered
    <3>1. /\ disk' = [disk EXCEPT ![dhead[tail + 1]] = dlog[tail + 1]]
          /\ dhead' = dhead /\ dlog' = dlog
      BY <1>3, <2>1 DEF RecoverBlock, InstallBlock
    <3>2. Overlay(disk', dhead, dlog) = Overlay(disk, dhead, dlog)
      <4>1. disk \in [Block -> Value] /\ dhead \in Seq(Block)
        OBVIOUS
      <4>2. disk' \in [Block -> Value] /\ \A b \in Block : b # dhead[tail + 1] => disk'[b] = disk[b]
        BY <2>1, <3>1
      <4> QED BY ONLY <2>1, <4>1, <4>2, OverlayInstall
    <3> QED BY SMTT(30), <3>1, <3>2 DEF Recovered
  <2>3. Visible' = Visible
    BY <1>3, <2>2 DEF RecoverBlock, Visible, Booted
  <2> QED BY <1>1, <2>2, <2>3, Stutter
<1>4. CASE RecoverClear
  <2>1. /\ dhead = lh
        /\ \A i \in 1 .. Len(dhead) : disk[dhead[i]] = dlog[i]
        /\ Distinct(dhead)
    BY <1>4 DEF RecoverClear, DiskInv, ShapeInv
  <2>2. Recovered = disk
    BY Zenon, <2>1, OverlayInstalled DEF Recovered
  <2>3. Recovered' = disk
    BY Zenon, <1>4, OverlayEmpty DEF RecoverClear, EraseLog, Recovered
  <2>4. Visible' = disk
    <3>1. \A b \in Block : cache[b] \in {Absent, disk[b]}
      BY <1>4 DEF RecoverClear, CacheInv, Booted
    <3> QED BY <1>4, <3>1 DEF RecoverClear, Visible, Booted, Contents
  <2>5. Visible = disk
    BY <1>4, <2>2 DEF RecoverClear, Visible, Booted
  <2> QED BY <1>1, <2>2, <2>3, <2>4, <2>5, Stutter
<1> QED BY <1>2, <1>3, <1>4 DEF Recover

\* bread() and the recycling of a buffer are invisible.
LEMMA CacheStep ==
  ASSUME LogInv, NEW b \in Block, Bread(b) \/ Recycle(b)
  PROVE  AbstractStep
<1> USE DEF LogInv, TypeOK
<1>1. Recovered' = Recovered /\ Active' = Active
  BY DEF Bread, Recycle, diskVars, procVars, Recovered, Active
<1>2. Contents' = Contents
  <2>1. CASE Bread(b)
    BY <2>1 DEF Bread, Contents, diskVars
  <2>2. CASE Recycle(b)
    <3>1. \A i \in 1 .. Len(lh) : lh[i] # b \/ ~Pending(i)
      BY <2>2 DEF Recycle, Booted, PinnedExactlyWhilePending
    <3>2. cache[b] = disk[b]
      BY <2>2, <3>1 DEF Recycle, CacheInv
    <3> QED BY <2>2, <3>2 DEF Recycle, Contents, diskVars
  <2> QED BY <2>1, <2>2
<1>3. Visible' = Visible
  BY <1>2 DEF Bread, Recycle, Visible, Booted
<1> QED BY <1>1, <1>3, Stutter

\* begin_op(), log_write() and end_op() are the abstract operations.
LEMMA OperationStep ==
  ASSUME LogInv, NEW p \in Proc, OpStep(p)
  PROVE  AbstractStep
<1> USE DEF LogInv, TypeOK
<1>1. CASE SyscallBegin(p) \/ BeginOpSleep(p)
  BY SMTT(30), <1>1, Stutter DEF SyscallBegin, BeginOpSleep, diskVars, Recovered, Visible, Booted,
     Contents, Active
<1>2. CASE BeginOpEnter(p)
  <2>1. Recovered' = Recovered /\ Visible' = Visible
    BY <1>2 DEF BeginOpEnter, diskVars, Recovered, Visible, Booted, Contents
  <2>2. p \notin Active /\ Active' = Active \cup {p}
    BY <1>2 DEF BeginOpEnter, Active
  <2> QED BY <2>1, <2>2 DEF AbstractStep, Abstract!ANext, Abstract!Begin
<1>3. CASE EndOp(p)
  <2>1. committing = 0 /\ p \in Active
    BY <1>3 DEF EndOp, ControlInv, Active
  <2>2. Recovered' = Recovered /\ Visible' = Visible
    BY <1>3 DEF EndOp, diskVars, Recovered, Visible, Booted, Contents
  <2>3. Active' = Active \ {p}
    BY <1>3 DEF EndOp, Active, Woken
  <2> QED BY <2>1, <2>2, <2>3 DEF AbstractStep, Abstract!ANext, Abstract!End
<1>4. ASSUME NEW b \in Block, LogWritePanic(p, b) PROVE AbstractStep
  BY <1>4, Stutter DEF LogWritePanic, diskVars, procVars, Recovered, Visible, Booted,
     Contents, Active
<1>5. ASSUME NEW b \in Block, NEW v \in Value, LogWrite(p, b, v) PROVE AbstractStep
  <2>1. Recovered' = Recovered /\ Active' = Active /\ p \in Active
    BY <1>5 DEF LogWrite, diskVars, Recovered, Active
  <2>2. Visible' = [Visible EXCEPT ![b] = v]
    BY Zenon, <1>5, LogAssumption DEF LogWrite, diskVars, Visible, Booted, Contents
  <2> QED BY Zenon, <2>1, <2>2 DEF AbstractStep, Abstract!ANext, Abstract!Write
<1> QED BY <1>1, <1>2, <1>3, <1>4, <1>5 DEF OpStep

\* Of the steps of commit() only write_head() is visible: it commits.
LEMMA CommitmentStep ==
  ASSUME LogInv, NEW p \in Proc, CommitStep(p)
  PROVE  AbstractStep
<1> USE DEF LogInv, TypeOK
<1>1. CASE WriteLogBlock(p)
  <2>1. dhead = <<>> /\ cache[lh[tail + 1]] # Absent /\ Active' = Active
    BY SMTT(30), <1>1 DEF WriteLogBlock, procVars, ControlInv, Committer, DiskInv, CacheInv, Pending,
       Active
  <2>2. Recovered' = disk /\ Recovered = disk
    BY Zenon, <1>1, <2>1, OverlayEmpty DEF WriteLogBlock, Recovered
  <2>3. Visible' = Visible
    BY SMTT(30), <1>1 DEF WriteLogBlock, Visible, Booted, Contents
  <2> QED BY <2>1, <2>2, <2>3, Stutter
<1>2. CASE WriteHead(p)
  <2>1. Active = {} /\ Active' = {}
    BY SMTT(30), <1>2 DEF WriteHead, ControlInv, Committer, Active
  <2>2. Visible' = Visible /\ Visible = Contents
    BY SMTT(30), <1>2 DEF WriteHead, Visible, Booted, Contents
  <2>3. \A i \in 1 .. Len(lh) : Pending(i) /\ dlog[i] = Contents[lh[i]]
    BY SMTT(30), <1>2 DEF WriteHead, ControlInv, Committer, Pending, DiskInv, CacheInv, Contents
  <2>4. \A b \in Block : (\A i \in 1 .. Len(lh) : lh[i] # b) => Contents[b] = disk[b]
    BY DEF CacheInv, Contents
  <2>5. Overlay(disk, lh, dlog) = Contents
    <3> DEFINE o == Overlay(disk, lh, dlog)
    <3>1. ASSUME NEW b \in Block PROVE o[b] = Contents[b]
      <4>1. CASE \E i \in 1 .. Len(lh) : lh[i] = b
        BY SMTT(30), <4>1, <2>3, OverlayAt DEF ShapeInv
      <4>2. CASE \A i \in 1 .. Len(lh) : lh[i] # b
        <5>1. o[b] = disk[b]
          BY <4>2 DEF Overlay
        <5> QED BY SMTT(30), <4>2, <5>1, <2>4
      <4> QED BY SMTT(30), <4>1, <4>2
    <3>2. o = [b \in Block |-> o[b]]
      BY DEF Overlay
    <3>3. Contents = [b \in Block |-> Contents[b]]
      BY DEF Contents
    <3>4. o = Contents
      <4> HIDE DEF o
      <4> QED BY <3>1, <3>2, <3>3
    <3> QED BY <3>4
  <2>6. Recovered' = Visible
    BY <1>2, <2>2, <2>5 DEF WriteHead, Recovered
  <2> QED BY <2>1, <2>2, <2>6 DEF AbstractStep, Abstract!ANext, Abstract!Commit
<1>3. CASE CommitInstall(p)
  <2>1. /\ tail + 1 \in 1 .. Len(dhead) /\ dhead = lh /\ dlog[tail + 1] \in Value
        /\ Contents[lh[tail + 1]] = dlog[tail + 1]
        /\ Active' = Active
    BY SMTT(30), <1>3 DEF CommitInstall, InstallBlock, procVars, DiskInv, ShapeInv, Booted, Active
  <2>2. Recovered' = Recovered
    <3>1. /\ disk' = [disk EXCEPT ![dhead[tail + 1]] = dlog[tail + 1]]
          /\ dhead' = dhead /\ dlog' = dlog
      BY SMTT(30), <1>3, <2>1 DEF CommitInstall, InstallBlock
    <3>2. Overlay(disk', dhead, dlog) = Overlay(disk, dhead, dlog)
      <4>1. disk \in [Block -> Value] /\ dhead \in Seq(Block)
        OBVIOUS
      <4>2. disk' \in [Block -> Value] /\ \A b \in Block : b # dhead[tail + 1] => disk'[b] = disk[b]
        BY SMTT(30), <2>1, <3>1
      <4> QED BY ONLY SMTT(30), <2>1, <4>1, <4>2, OverlayInstall
    <3> QED BY SMTT(30), <3>1, <3>2 DEF Recovered
  <2>3. Visible' = Visible
    <3>1. Contents' = Contents
      BY SMTT(30), <1>3, <2>1 DEF CommitInstall, InstallBlock, Contents
    <3> QED BY <1>3, <3>1 DEF CommitInstall, Visible, Booted
  <2> QED BY SMTT(30), <2>1, <2>2, <2>3, Stutter
<1>4. CASE CommitErase(p)
  <2>1. /\ dhead = lh
        /\ \A i \in 1 .. Len(dhead) : disk[dhead[i]] = dlog[i]
        /\ Distinct(dhead)
    BY SMTT(30), <1>4 DEF CommitErase, DiskInv, ShapeInv, Booted
  <2>2. Recovered = disk
    BY Zenon, <2>1, OverlayInstalled DEF Recovered
  <2>3. Recovered' = disk
    BY Zenon, <1>4, OverlayEmpty DEF CommitErase, EraseLog, Recovered
  <2>4. Visible' = Visible /\ Active' = Active
    BY <1>4 DEF CommitErase, Visible, Booted, Contents, Active
  <2> QED BY <2>2, <2>3, <2>4, Stutter
<1>5. CASE CommitDone(p)
  BY <1>5, Stutter DEF CommitDone, Woken, diskVars, Recovered, Visible, Booted, Contents, Active
<1> QED BY <1>1, <1>2, <1>3, <1>4, <1>5 DEF CommitStep

\* log.c implements AtomicDisk: a crash at any point of any number of
\* operations, commits and recoveries leaves all of a committed group of
\* operations or none of it.
THEOREM LogIsAtomic == Spec => CrashAtomicity
<1>1. Init => Abstract!AInit
  <2> SUFFICES ASSUME Init PROVE Abstract!AInit
    OBVIOUS
  <2>1. Recovered = disk /\ Visible = Recovered /\ Active = {}
    BY OverlayEmpty DEF Init, Recovered, Visible, Booted, Active
  <2> QED BY <2>1 DEF Init, Abstract!AInit
<1>2. LogInv /\ [Next]_vars => [Abstract!ANext]_(Abstract!avars)
  <2> SUFFICES ASSUME LogInv, [Next]_vars PROVE AbstractStep
    BY DEF AbstractStep
  <2>1. CASE UNCHANGED vars
    BY SMTT(30), <2>1, Stutter DEF vars, Recovered, Visible, Booted, Contents, Active
  <2>2. CASE Next
    BY <2>2, CrashStep, RecoverStep, CacheStep, OperationStep, CommitmentStep DEF Next
  <2> QED BY <2>1, <2>2
<1> QED BY <1>1, <1>2, LogInvariant, PTL DEF Spec, CrashAtomicity, Abstract!ASpec

\* When the end_op() that committed returns, a reboot would find what the
\* buffer cache shows.
THEOREM CommitIsDurable == Spec => []DurableOnReturn
<1>1. LogInv => DurableOnReturn
  <2> SUFFICES ASSUME LogInv, NEW p \in Proc, Booted, pc[p] = "done"
               PROVE  Recovered = Contents
    BY DEF DurableOnReturn
  <2> USE DEF LogInv, TypeOK
  <2>1. lh = <<>> /\ dhead = <<>>
    BY DEF ControlInv, DiskInv
  <2>2. Recovered = disk
    BY <2>1, OverlayEmpty DEF Recovered
  <2>3. Contents = disk
    BY <2>1 DEF CacheInv, Contents
  <2> QED BY <2>2, <2>3
<1> QED BY <1>1, LogInvariant, PTL
=============================================================================
