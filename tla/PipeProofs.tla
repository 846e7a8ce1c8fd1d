----------------------------- MODULE PipeProofs -----------------------------
(***************************************************************************)
(* Proofs about Pipe for any number of readers and writers, any size of    *)
(* the buffer and any width of the counters.                               *)
(***************************************************************************)
EXTENDS Pipe, RingLemmas

WriterAt == {"user", "write_acquire", "write", "write_body", "write_sleep",
             "close_acquire", "closed"}
ReaderAt == {"user", "read_acquire", "read_test", "read_doze", "read_sleep", "read_copy",
             "close_acquire", "closed"}
Locked   == {"write", "write_body", "read_test", "read_doze", "read_copy"}

\* Readers read, writers write, and pi->lock is held by the process that is
\* inside the critical section.
LockInv ==
  /\ \A p \in Writer : pc[p] \in WriterAt
  /\ \A p \in Reader : pc[p] \in ReaderAt
  /\ \A p \in Process : lock = p <=> pc[p] \in Locked

\* The last process of an end closes it, after all others; the page is freed
\* when both ends are closed.
EndsInv ==
  /\ \A p \in Process : fd[p] = 0 <=> pc[p] \in {"close_acquire", "closed"}
  /\ \A p \in Process : pc[p] = "close_acquire" => \A q \in SameEnd(p) \ {p} : pc[q] = "closed"
  /\ readopen = 0 => \A p \in Reader : pc[p] = "closed"
  /\ writeopen = 0 => \A p \in Writer : pc[p] = "closed"
  /\ freed = 1 => readopen = 0 /\ writeopen = 0

\* The bytes in the pipe; the counters never run away from each other.
Length == (nwrite - nread) % Wrap

CountInv ==
  /\ Length \in 0 .. PIPESIZE
  /\ \A p \in Process : pc[p] = "write_body" => readopen = 1 /\ left[p] > 0

\* If no writer can be killed: a sleeping reader has nothing to read, or a
\* writer is in the critical section, which it leaves through wakeup().
WakeInv ==
  /\ \A p \in Process : killed[p] = 1 => p \in Victim
  /\ \A p \in Process : pc[p] = "read_doze" => Empty /\ writeopen = 1
  /\ Victim \subseteq Reader =>
       \A p \in Process : pc[p] = "read_sleep" =>
         \/ Empty /\ writeopen = 1
         \/ lock # None /\ pc[lock] \in {"write", "write_body"}

\* The inductive invariant.
SafeInv == TypeOK /\ LockInv /\ EndsInv /\ CountInv /\ WakeInv

-----------------------------------------------------------------------------
(* Each step of the code keeps the invariant.                              *)

\* None is no process, and nobody reads and writes.
LEMMA Apart == None \notin Process /\ Reader \cap Writer = {} /\ Victim \subseteq Process
BY PipeAssumption

\* The two sizes without the fact that one divides the other.
LEMMA Sizes == PIPESIZE \in Nat \ {0} /\ Wrap \in Nat \ {0} /\ PIPESIZE < Wrap
BY PipeAssumption

\* The buffer and its counters are a ring.
LEMMA PipeIsRing == IsRing(PIPESIZE, Wrap)
BY PipeAssumption DEF IsRing

\* A byte is added to a pipe that is not full.
LEMMA OneMore ==
  ASSUME TypeOK, CountInv, ~Full, nwrite' = (nwrite + 1) % Wrap, nread' = nread
  PROVE  nwrite' \in 0 .. Wrap - 1 /\ Length < PIPESIZE /\ Length' = Length + 1
<1>1. nwrite = (nread + PIPESIZE) % Wrap <=> Length = PIPESIZE
  <2>1. nread \in 0 .. Wrap - 1 /\ nwrite \in 0 .. Wrap - 1 /\ Wrap \in Nat /\ PIPESIZE \in Nat
    BY Sizes DEF TypeOK
  <2> QED BY Zenon, <2>1, Sizes, FullDistance DEF Length
<1>2. Length < PIPESIZE /\ Length # Wrap - 1
  BY <1>1, Sizes DEF CountInv, Full
<1>3. (((nwrite + 1) % Wrap) - nread) % Wrap = Length + 1
  BY <1>2, Sizes, DistanceAdded DEF TypeOK, Length
<1>4. (nwrite + 1) % Wrap \in 0 .. Wrap - 1
  BY Sizes DEF TypeOK
<1>5. Length' = (((nwrite + 1) % Wrap) - nread) % Wrap
  BY DEF Length
<1> QED BY <1>2, <1>3, <1>4, <1>5

\* A byte is taken from a pipe that is not empty.
LEMMA OneLess ==
  ASSUME TypeOK, CountInv, ~Empty, nread' = (nread + 1) % Wrap, nwrite' = nwrite
  PROVE  nread' \in 0 .. Wrap - 1 /\ Length > 0 /\ Length' = Length - 1
<1>1. Length = IF nwrite >= nread THEN nwrite - nread ELSE nwrite - nread + Wrap
  BY Sizes, Distance DEF TypeOK, Length
<1>2. Length > 0
  BY <1>1, Sizes DEF TypeOK, Empty
<1>3. (nwrite - ((nread + 1) % Wrap)) % Wrap = Length - 1
  BY Sizes, DistanceRemoved DEF TypeOK, Empty, Length
<1>4. (nread + 1) % Wrap \in 0 .. Wrap - 1
  BY Sizes DEF TypeOK
<1>5. Length' = (nwrite - ((nread + 1) % Wrap)) % Wrap
  BY DEF Length
<1> QED BY <1>2, <1>3, <1>4, <1>5

\* write() is called.
LEMMA WriteCallKeeps ==
  ASSUME SafeInv, NEW p \in Process, NEW n \in 1 .. MaxLen, WriteCall(p, n)
  PROVE  SafeInv'
<1> USE Apart DEF SafeInv, WriteCall, Goto, pipeVars
<1>1. TypeOK'
  BY DEF TypeOK
<1>2. LockInv'
  BY DEF TypeOK, LockInv, WriterAt, Locked
<1>3. EndsInv'
  BY DEF TypeOK, EndsInv
<1>4. CountInv'
  BY DEF TypeOK, CountInv, Length
<1>5. WakeInv'
  BY DEF TypeOK, WakeInv, Empty
<1> QED BY <1>1, <1>2, <1>3, <1>4, <1>5

\* pipewrite() gets the lock.
LEMMA WriteAcquireKeeps ==
  ASSUME SafeInv, NEW p \in Process, WriteAcquire(p)
  PROVE  SafeInv'
<1> USE Apart DEF SafeInv, WriteAcquire, Goto, Acquire, pipeVars
<1>1. TypeOK'
  BY DEF TypeOK
<1>2. LockInv'
  BY DEF TypeOK, LockInv, WriterAt, ReaderAt, Locked
<1>3. EndsInv'
  BY DEF TypeOK, EndsInv
<1>4. CountInv'
  BY DEF TypeOK, CountInv, Length
<1>5. WakeInv'
  BY DEF TypeOK, WakeInv, Empty
<1> QED BY <1>1, <1>2, <1>3, <1>4, <1>5

\* pipewrite() goes on.
LEMMA WriteTestKeeps ==
  ASSUME SafeInv, NEW p \in Process, WriteTest(p)
  PROVE  SafeInv'
<1> USE DEF SafeInv, WriteTest, Goto, pipeVars
<1>1. TypeOK'
  BY DEF TypeOK
<1>2. LockInv'
  BY DEF TypeOK, LockInv, WriterAt, ReaderAt, Locked
<1>3. EndsInv'
  BY DEF TypeOK, EndsInv
<1>4. CountInv'
  BY DEF TypeOK, CountInv, Length
<1>5. WakeInv'
  BY DEF TypeOK, WakeInv, Empty
<1> QED BY <1>1, <1>2, <1>3, <1>4, <1>5

\* pipewrite() returns without a wakeup(): no reader is left, or the writer was killed.
LEMMA WriteAbortKeeps ==
  ASSUME SafeInv, NEW p \in Process, WriteAbort(p)
  PROVE  SafeInv'
<1> USE Apart DEF SafeInv, WriteAbort, Goto, pipeVars
<1>1. TypeOK'
  BY PipeAssumption DEF TypeOK
<1>2. LockInv'
  BY DEF TypeOK, LockInv, WriterAt, ReaderAt, Locked
<1>3. EndsInv'
  BY DEF TypeOK, EndsInv
<1>4. CountInv'
  BY DEF TypeOK, CountInv, Length
<1>5. WakeInv'
  BY DEF TypeOK, Process, LockInv, WriterAt, ReaderAt, Locked, EndsInv, WakeInv, Empty
<1> QED BY <1>1, <1>2, <1>3, <1>4, <1>5

\* pipewrite() wakes the readers and sleeps.
LEMMA WriteSleepKeeps ==
  ASSUME SafeInv, NEW p \in Process, WriteSleep(p)
  PROVE  SafeInv'
<1> USE Apart DEF SafeInv, WriteSleep, WakeReaders, pipeVars
<1>1. TypeOK'
  BY DEF TypeOK
<1>2. LockInv'
  BY DEF TypeOK, Process, LockInv, WriterAt, ReaderAt, Locked
<1>3. EndsInv'
  BY DEF TypeOK, Process, EndsInv, SameEnd
<1>4. CountInv'
  BY DEF TypeOK, CountInv, Length
<1>5. WakeInv'
  BY DEF TypeOK, WakeInv, Empty
<1> QED BY <1>1, <1>2, <1>3, <1>4, <1>5

\* pipewrite() stores a byte.
LEMMA WriteByteKeeps ==
  ASSUME SafeInv, NEW p \in Process, NEW b \in Byte, WriteByte(p, b)
  PROVE  SafeInv'
<1> USE Apart DEF SafeInv, WriteByte, Goto, pipeVars
<1>1. TypeOK'
  <2>1. nwrite' \in 0 .. Wrap - 1
    BY OneMore
  <2>2. data' \in [0 .. PIPESIZE - 1 -> Byte]
    BY DEF TypeOK
  <2>3. left' \in [Process -> 0 .. MaxLen]
    BY PipeAssumption DEF TypeOK, CountInv
  <2> QED BY <2>1, <2>2, <2>3 DEF TypeOK
<1>2. LockInv'
  BY DEF TypeOK, LockInv, WriterAt, ReaderAt, Locked
<1>3. EndsInv'
  BY DEF TypeOK, EndsInv
<1>4. CountInv'
  <2>1. Length' \in 0 .. PIPESIZE
    <3> HIDE DEF Length
    <3> QED BY OneMore, PipeAssumption DEF CountInv
  <2> QED BY <2>1 DEF CountInv, TypeOK
<1>5. WakeInv'
  BY DEF TypeOK, LockInv, Locked, WakeInv
<1> QED BY <1>1, <1>2, <1>3, <1>4, <1>5

\* pipewrite() wakes the readers and returns.
LEMMA WriteReturnKeeps ==
  ASSUME SafeInv, NEW p \in Process, WriteReturn(p)
  PROVE  SafeInv'
<1> USE Apart DEF SafeInv, WriteReturn, WakeReaders, pipeVars
<1>1. TypeOK'
  BY PipeAssumption DEF TypeOK
<1>2. LockInv'
  BY DEF TypeOK, Process, LockInv, WriterAt, ReaderAt, Locked
<1>3. EndsInv'
  BY DEF TypeOK, Process, EndsInv, SameEnd
<1>4. CountInv'
  BY DEF TypeOK, CountInv, Length
<1>5. WakeInv'
  BY DEF TypeOK, WakeInv, Empty
<1> QED BY <1>1, <1>2, <1>3, <1>4, <1>5

\* read() is called.
LEMMA ReadCallKeeps ==
  ASSUME SafeInv, NEW p \in Process, NEW n \in 1 .. MaxLen, ReadCall(p, n)
  PROVE  SafeInv'
<1> USE Apart DEF SafeInv, ReadCall, Goto, pipeVars
<1>1. TypeOK'
  BY DEF TypeOK
<1>2. LockInv'
  BY DEF TypeOK, LockInv, ReaderAt, Locked
<1>3. EndsInv'
  BY DEF TypeOK, EndsInv
<1>4. CountInv'
  BY DEF TypeOK, CountInv, Length
<1>5. WakeInv'
  BY DEF TypeOK, WakeInv, Empty
<1> QED BY <1>1, <1>2, <1>3, <1>4, <1>5

\* piperead() gets the lock.
LEMMA ReadAcquireKeeps ==
  ASSUME SafeInv, NEW p \in Process, ReadAcquire(p)
  PROVE  SafeInv'
<1> USE Apart DEF SafeInv, ReadAcquire, Goto, Acquire, pipeVars
<1>1. TypeOK'
  BY DEF TypeOK
<1>2. LockInv'
  BY DEF TypeOK, LockInv, WriterAt, ReaderAt, Locked
<1>3. EndsInv'
  BY DEF TypeOK, EndsInv
<1>4. CountInv'
  BY DEF TypeOK, CountInv, Length
<1>5. WakeInv'
  BY DEF TypeOK, WakeInv, Empty
<1> QED BY <1>1, <1>2, <1>3, <1>4, <1>5

\* piperead() was killed.
LEMMA ReadAbortKeeps ==
  ASSUME SafeInv, NEW p \in Process, ReadAbort(p)
  PROVE  SafeInv'
<1> USE Apart DEF SafeInv, ReadAbort, Goto, pipeVars
<1>1. TypeOK'
  BY PipeAssumption DEF TypeOK
<1>2. LockInv'
  BY DEF TypeOK, LockInv, WriterAt, ReaderAt, Locked
<1>3. EndsInv'
  BY DEF TypeOK, EndsInv
<1>4. CountInv'
  BY DEF TypeOK, CountInv, Length
<1>5. WakeInv'
  BY DEF TypeOK, WakeInv, Empty
<1> QED BY <1>1, <1>2, <1>3, <1>4, <1>5

\* piperead() finds nothing to read.
LEMMA ReadTestKeeps ==
  ASSUME SafeInv, NEW p \in Process, ReadTest(p)
  PROVE  SafeInv'
<1> USE DEF SafeInv, ReadTest, Goto, pipeVars
<1>1. TypeOK'
  BY DEF TypeOK
<1>2. LockInv'
  BY DEF TypeOK, LockInv, WriterAt, ReaderAt, Locked
<1>3. EndsInv'
  BY DEF TypeOK, EndsInv
<1>4. CountInv'
  BY DEF TypeOK, CountInv, Length
<1>5. WakeInv'
  BY DEF TypeOK, WakeInv, Empty
<1> QED BY <1>1, <1>2, <1>3, <1>4, <1>5

\* piperead() sleeps.
LEMMA ReadSleepKeeps ==
  ASSUME SafeInv, NEW p \in Process, ReadSleep(p)
  PROVE  SafeInv'
<1> USE Apart DEF SafeInv, ReadSleep, Goto, pipeVars
<1>1. TypeOK'
  BY DEF TypeOK
<1>2. LockInv'
  BY DEF TypeOK, LockInv, WriterAt, ReaderAt, Locked
<1>3. EndsInv'
  BY DEF TypeOK, EndsInv
<1>4. CountInv'
  BY DEF TypeOK, CountInv, Length
<1>5. WakeInv'
  BY DEF TypeOK, WakeInv, Empty
<1> QED BY <1>1, <1>2, <1>3, <1>4, <1>5

\* piperead() finds bytes or the end of the file.
LEMMA ReadStartKeeps ==
  ASSUME SafeInv, NEW p \in Process, ReadStart(p)
  PROVE  SafeInv'
<1> USE DEF SafeInv, ReadStart, Goto, pipeVars
<1>1. TypeOK'
  BY DEF TypeOK
<1>2. LockInv'
  BY DEF TypeOK, LockInv, WriterAt, ReaderAt, Locked
<1>3. EndsInv'
  BY DEF TypeOK, EndsInv
<1>4. CountInv'
  BY DEF TypeOK, CountInv, Length
<1>5. WakeInv'
  BY DEF TypeOK, WakeInv
<1> QED BY <1>1, <1>2, <1>3, <1>4, <1>5

\* piperead() takes a byte.
LEMMA ReadByteKeeps ==
  ASSUME SafeInv, NEW p \in Process, ReadByte(p)
  PROVE  SafeInv'
<1> USE Apart DEF SafeInv, ReadByte, pipeVars
<1>1. TypeOK'
  <2>1. nread' \in 0 .. Wrap - 1
    BY OneLess
  <2>2. left[p] - 1 \in 0 .. MaxLen /\ 0 \in 0 .. MaxLen
    BY PipeAssumption DEF TypeOK
  <2>3. left' \in [Process -> 0 .. MaxLen]
    BY <2>2 DEF TypeOK
  <2> QED BY <2>1, <2>3 DEF TypeOK
<1>2. LockInv'
  BY DEF TypeOK, LockInv
<1>3. EndsInv'
  BY DEF TypeOK, EndsInv
<1>4. CountInv'
  <2>1. Length' \in 0 .. PIPESIZE
    BY OneLess, PipeAssumption DEF CountInv
  <2> QED BY <2>1 DEF CountInv, LockInv, Locked
<1>5. WakeInv'
  BY DEF TypeOK, WakeInv
<1> QED BY <1>1, <1>2, <1>3, <1>4, <1>5

\* piperead() wakes the writers and returns.
LEMMA ReadReturnKeeps ==
  ASSUME SafeInv, NEW p \in Process, ReadReturn(p)
  PROVE  SafeInv'
<1> USE Apart DEF SafeInv, ReadReturn, WakeWriters, pipeVars
<1>1. TypeOK'
  BY PipeAssumption DEF TypeOK
<1>2. LockInv'
  BY DEF TypeOK, Process, LockInv, WriterAt, ReaderAt, Locked
<1>3. EndsInv'
  BY DEF TypeOK, Process, EndsInv, SameEnd
<1>4. CountInv'
  BY DEF TypeOK, CountInv, Length
<1>5. WakeInv'
  BY DEF TypeOK, LockInv, WriterAt, Locked, EndsInv, WakeInv, Empty
<1> QED BY <1>1, <1>2, <1>3, <1>4, <1>5

\* fileclose().
LEMMA FilecloseKeeps ==
  ASSUME SafeInv, NEW p \in Process, Fileclose(p)
  PROVE  SafeInv'
<1> USE Apart DEF SafeInv, Fileclose, Goto, SameEnd, pipeVars
<1>1. TypeOK'
  BY DEF TypeOK
<1>2. LockInv'
  BY DEF TypeOK, LockInv, WriterAt, ReaderAt, Locked
<1>3. EndsInv'
  BY DEF TypeOK, Process, EndsInv
<1>4. CountInv'
  BY DEF TypeOK, CountInv, Length
<1>5. WakeInv'
  BY DEF TypeOK, WakeInv, Empty
<1> QED BY <1>1, <1>2, <1>3, <1>4, <1>5

\* pipeclose().
LEMMA PipecloseKeeps ==
  ASSUME SafeInv, NEW p \in Process, Pipeclose(p)
  PROVE  SafeInv'
<1> USE Apart DEF SafeInv, Pipeclose, WakeReaders, WakeWriters, pipeVars
<1>1. TypeOK'
  BY DEF TypeOK
<1>2. LockInv'
  BY DEF TypeOK, Process, LockInv, WriterAt, ReaderAt, Locked
<1>3. EndsInv'
  BY DEF TypeOK, Process, LockInv, WriterAt, ReaderAt, Locked, EndsInv, SameEnd
<1>4. CountInv'
  BY DEF TypeOK, CountInv, Length, LockInv, Locked
<1>5. WakeInv'
  BY DEF TypeOK, Process, LockInv, Locked, WakeInv, Empty
<1> QED BY <1>1, <1>2, <1>3, <1>4, <1>5

\* kill() wakes a process.
LEMMA KillKeeps ==
  ASSUME SafeInv, NEW p \in Victim, Kill(p)
  PROVE  SafeInv'
<1> USE Apart DEF SafeInv, Kill, pipeVars
<1>1. TypeOK'
  BY DEF TypeOK
<1>2. LockInv'
  BY DEF TypeOK, LockInv, WriterAt, ReaderAt, Locked
<1>3. EndsInv'
  BY DEF TypeOK, EndsInv
<1>4. CountInv'
  BY DEF TypeOK, CountInv, Length
<1>5. WakeInv'
  BY DEF TypeOK, WakeInv, Empty
<1> QED BY <1>1, <1>2, <1>3, <1>4, <1>5

\* pipealloc() establishes the invariant.
LEMMA InitKeeps == Init => SafeInv
<1> SUFFICES ASSUME Init PROVE SafeInv
  OBVIOUS
<1> USE PipeAssumption DEF Init
<1>1. TypeOK
  BY DEF TypeOK
<1>2. CountInv
  <2>1. Length = 0
    BY DEF Length
  <2> QED BY <2>1 DEF CountInv
<1>3. LockInv /\ EndsInv /\ WakeInv
  BY DEF LockInv, EndsInv, WakeInv, WriterAt, ReaderAt, Locked, Process
<1> QED BY <1>1, <1>2, <1>3 DEF SafeInv

\* Every step keeps the invariant.
LEMMA NextKeeps == SafeInv /\ [Next]_vars => SafeInv'
<1> SUFFICES ASSUME SafeInv, [Next]_vars PROVE SafeInv'
  OBVIOUS
<1>1. CASE UNCHANGED vars
  BY <1>1 DEF vars, SafeInv, TypeOK, LockInv, EndsInv, CountInv, Length, WakeInv, Empty
<1>2. ASSUME NEW p \in Process, WriteStep(p) PROVE SafeInv'
  BY <1>2, WriteAcquireKeeps, WriteTestKeeps, WriteAbortKeeps, WriteSleepKeeps, WriteByteKeeps,
     WriteReturnKeeps
  DEF WriteStep
<1>3. ASSUME NEW p \in Process, ReadStep(p) PROVE SafeInv'
  BY <1>3, ReadAcquireKeeps, ReadAbortKeeps, ReadTestKeeps, ReadSleepKeeps, ReadStartKeeps,
     ReadByteKeeps, ReadReturnKeeps
  DEF ReadStep
<1> QED BY <1>1, <1>2, <1>3, WriteCallKeeps, ReadCallKeeps, FilecloseKeeps, PipecloseKeeps,
          KillKeeps
  DEF Next

-----------------------------------------------------------------------------
(* The theorems.                                                           *)

\* What is true at each point of pipewrite(), piperead() and pipeclose().
THEOREM PipeInvariant == Spec => []SafeInv
BY InitKeeps, NextKeeps, PTL DEF Spec

\* The page of the pipe is freed once both ends are closed and after the last
\* use, whoever is killed.
THEOREM FreedLast == Spec => []NoUseAfterFree
<1>1. SafeInv => NoUseAfterFree
  BY DEF SafeInv, EndsInv, NoUseAfterFree, Process
<1> QED BY <1>1, PipeInvariant, PTL

\* If no writer is killed, no reader sleeps next to bytes or after the last
\* writer has closed.
THEOREM NoReaderForgotten == Victim \subseteq Reader => (Spec => []PipeInv)
<1> SUFFICES ASSUME Victim \subseteq Reader PROVE Spec => []PipeInv
  OBVIOUS
<1>1. SafeInv => PipeInv
  BY DEF SafeInv, EndsInv, WakeInv, PipeInv, NoUseAfterFree, ReadersNotForgotten, Process
<1> QED BY <1>1, PipeInvariant, PTL

-----------------------------------------------------------------------------
(* The refinement.                                                         *)

\* The bytes of the pipe are the contents of a ring.
LEMMA ContentsRing == Contents = RingSeq(data, nread, nwrite, PIPESIZE, Wrap)
BY DEF Contents, RingSeq

\* The contents are a sequence of bytes.
LEMMA ContentsSeq ==
  ASSUME TypeOK
  PROVE  Contents \in Seq(Byte) /\ Len(Contents) = Length
<1>1. Lists(RingSeq(data, nread, nwrite, PIPESIZE, Wrap), Byte, data, nread,
            (nwrite - nread) % Wrap, PIPESIZE)
  BY PipeIsRing, RingSeqIs DEF TypeOK
<1> QED BY <1>1, ContentsRing DEF Lists, Length

\* pipewrite() appends a byte and overwrites none.
LEMMA ByteAppended ==
  ASSUME SafeInv, SafeInv', NEW p \in Process, NEW b \in Byte, WriteByte(p, b)
  PROVE  Len(Contents) < PIPESIZE /\ Contents' = Append(Contents, b)
<1> USE DEF SafeInv
<1>1. Len(Contents) = (nwrite - nread) % Wrap /\ (nwrite - nread) % Wrap < PIPESIZE
  BY OneMore, ContentsSeq DEF WriteByte, Length
<1>2. /\ data \in [0 .. PIPESIZE - 1 -> Byte] /\ data' \in [0 .. PIPESIZE - 1 -> Byte]
      /\ nread \in 0 .. Wrap - 1 /\ nwrite \in 0 .. Wrap - 1
  BY DEF TypeOK
<1>3. Writes(data, data', nwrite % PIPESIZE, PIPESIZE) /\ data'[nwrite % PIPESIZE] = b
  BY <1>2 DEF WriteByte, Writes
<1>4. IsPut(RingSeq(data', nread, (nwrite + 1) % Wrap, PIPESIZE, Wrap),
            RingSeq(data, nread, nwrite, PIPESIZE, Wrap), data'[nwrite % PIPESIZE])
  BY <1>1, <1>2, <1>3, PipeIsRing, RingPut
<1>5. Contents' = RingSeq(data', nread, (nwrite + 1) % Wrap, PIPESIZE, Wrap)
  <2>1. Contents' = RingSeq(data', nread', nwrite', PIPESIZE, Wrap)
    BY DEF Contents, RingSeq
  <2> QED BY <2>1 DEF WriteByte
<1> QED BY <1>1, <1>3, <1>4, <1>5, ContentsRing DEF IsPut

\* piperead() takes the oldest byte.
LEMMA ByteTaken ==
  ASSUME SafeInv, NEW p \in Process, ReadByte(p)
  PROVE  Contents # <<>> /\ Contents' = Tail(Contents)
<1>1. IsTake(RingSeq(data, (nread + 1) % Wrap, nwrite, PIPESIZE, Wrap),
             RingSeq(data, nread, nwrite, PIPESIZE, Wrap), data[nread % PIPESIZE])
  BY PipeIsRing, RingGet DEF SafeInv, TypeOK, ReadByte, Empty
<1>2. Contents' = RingSeq(data, (nread + 1) % Wrap, nwrite, PIPESIZE, Wrap)
  <2>1. Contents' = RingSeq(data', nread', nwrite', PIPESIZE, Wrap)
    BY DEF Contents, RingSeq
  <2> QED BY <2>1 DEF ReadByte
<1> QED BY <1>1, <1>2, ContentsRing DEF IsTake

AbstractStep == [Abstract!FNext]_(Abstract!fvars)

\* A step that leaves the bytes and the ends alone is a stutter.
LEMMA Stutter ==
  ASSUME UNCHANGED <<data, nread, nwrite, readopen, writeopen>>
  PROVE  AbstractStep
<1>1. Contents' = Contents
  BY DEF Contents
<1> QED BY <1>1 DEF AbstractStep, Abstract!fvars

\* pipeclose() closes an end that was open.
LEMMA CloseStep ==
  ASSUME SafeInv, NEW p \in Process, Pipeclose(p)
  PROVE  AbstractStep
<1>1. Contents' = Contents
  BY DEF Contents, Pipeclose
<1>2. p \in Reader => readopen = 1
  BY DEF SafeInv, TypeOK, EndsInv, Pipeclose
<1>3. p \in Writer => writeopen = 1
  BY DEF SafeInv, TypeOK, EndsInv, Pipeclose
<1> QED BY <1>1, <1>2, <1>3 DEF Pipeclose, AbstractStep, Abstract!FNext, Abstract!CloseRead,
           Abstract!CloseWrite

\* Each step of the pipe is a step or a stutter of the queue.
LEMMA MapsStep ==
  ASSUME SafeInv, SafeInv', Next
  PROVE  AbstractStep
<1>1. ASSUME NEW p \in Process, NEW b \in Byte, WriteByte(p, b) PROVE AbstractStep
  <2>1. readopen = 1 /\ writeopen = 1
    BY <1>1 DEF WriteByte, SafeInv, TypeOK, CountInv, EndsInv, LockInv, ReaderAt, Process
  <2>2. Len(Contents) < PIPESIZE /\ Contents' = Append(Contents, b)
    BY <1>1, ByteAppended
  <2> QED BY <1>1, <2>1, <2>2 DEF WriteByte, AbstractStep, Abstract!FNext, Abstract!Put
<1>2. ASSUME NEW p \in Process, ReadByte(p) PROVE AbstractStep
  <2>1. readopen = 1
    BY <1>2 DEF ReadByte, SafeInv, TypeOK, EndsInv, LockInv, WriterAt, Process
  <2>2. Contents # <<>> /\ Contents' = Tail(Contents)
    BY <1>2, ByteTaken
  <2> QED BY <1>2, <2>1, <2>2 DEF ReadByte, AbstractStep, Abstract!FNext, Abstract!Get
<1>3. ASSUME NEW p \in Process, WriteStep(p) PROVE AbstractStep
  <2>1. CASE \E b \in Byte : WriteByte(p, b)
    BY <1>1, <2>1
  <2>2. CASE WriteAcquire(p) \/ WriteTest(p) \/ WriteAbort(p) \/ WriteSleep(p) \/ WriteReturn(p)
    BY <2>2, Stutter DEF WriteAcquire, WriteTest, WriteAbort, WriteSleep, WriteReturn, pipeVars
  <2> QED BY <1>3, <2>1, <2>2 DEF WriteStep
<1>4. ASSUME NEW p \in Process, ReadStep(p) PROVE AbstractStep
  <2>1. CASE \/ ReadAcquire(p) \/ ReadTest(p) \/ ReadAbort(p)
             \/ ReadSleep(p) \/ ReadStart(p) \/ ReadReturn(p)
    BY <2>1, Stutter
    DEF ReadAcquire, ReadTest, ReadAbort, ReadSleep, ReadStart, ReadReturn, pipeVars
  <2> QED BY <1>2, <1>4, <2>1 DEF ReadStep
<1>5. ASSUME NEW p \in Process, NEW n \in 1 .. MaxLen, WriteCall(p, n) \/ ReadCall(p, n)
      PROVE  AbstractStep
  BY <1>5, Stutter DEF WriteCall, ReadCall, pipeVars
<1>6. ASSUME NEW p \in Process, Fileclose(p) \/ Kill(p) PROVE AbstractStep
  BY <1>6, Stutter DEF Fileclose, Kill, pipeVars
<1>7. CASE UNCHANGED vars
  BY <1>7, Stutter DEF vars
<1> QED BY <1>3, <1>4, <1>5, <1>6, <1>7, CloseStep, Apart DEF Next

\* pipe.c implements a bounded queue for every size of its buffer and every
\* width of its counters that the buffer divides: no byte is overwritten,
\* lost, duplicated or reordered when the counters or the buffer wrap.
THEOREM PipeIsFifo == Spec => IsFifo
<1>1. Init => Abstract!FInit
  <2> SUFFICES ASSUME Init PROVE Abstract!FInit
    OBVIOUS
  <2>1. TypeOK /\ Length = 0
    BY InitKeeps, Sizes, Distance DEF SafeInv, Init, Length
  <2>2. Contents = <<>>
    BY <2>1, ContentsSeq
  <2> QED BY <2>2 DEF Init, Abstract!FInit
<1>2. SafeInv /\ [Next]_vars => [Abstract!FNext]_(Abstract!fvars)
  <2> SUFFICES ASSUME SafeInv, [Next]_vars PROVE AbstractStep
    BY DEF AbstractStep
  <2>1. CASE UNCHANGED vars
    BY <2>1, Stutter DEF vars
  <2>2. CASE Next
    BY <2>2, NextKeeps, MapsStep
  <2> QED BY <2>1, <2>2
<1> QED BY <1>1, <1>2, PipeInvariant, PTL DEF Spec, IsFifo, Abstract!FSpec

=============================================================================
