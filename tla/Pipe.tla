-------------------------------- MODULE Pipe --------------------------------
(***************************************************************************)
(* The pipe of kernel/pipe.c, shared by several readers and several        *)
(* writers that hold its two files (the reference counts of kernel/file.c).*)
(*                                                                         *)
(* pi->lock has an explicit holder and every iteration of a loop under it  *)
(* is one step, because kill() needs no pi->lock and may fall in between.  *)
(* The counters nread and nwrite are unsigned and wrap at Wrap (2^32 in C).*)
(***************************************************************************)
EXTENDS Integers, Sequences, FiniteSets

CONSTANTS Reader, Writer,
          Byte,
          PIPESIZE,
          Wrap,     \* the counters are modulo Wrap
          MaxLen,   \* longest read() or write()
          Victim,   \* processes that may be killed
          None

Process == Reader \cup Writer

ASSUME PipeAssumption ==
  /\ PIPESIZE \in Nat \ {0} /\ Wrap \in Nat /\ MaxLen \in Nat
  /\ PIPESIZE < Wrap /\ Wrap % PIPESIZE = 0
  /\ Reader \cap Writer = {} /\ None \notin Process
  /\ Victim \subseteq Process

VARIABLES
  data, nread, nwrite, readopen, writeopen,  \* struct pipe
  freed,   \* 1 after kfree(pi)
  lock,    \* holder of pi->lock
  pc,      \* where each process is
  left,    \* bytes that its read() or write() has still to transfer
  killed,  \* p->killed
  fd       \* 1 while the process has its file open

pipeVars == <<data, nread, nwrite, readopen, writeopen, freed>>
vars == <<data, nread, nwrite, readopen, writeopen, freed, lock, pc, left, killed, fd>>

TypeOK ==
  /\ data \in [0 .. PIPESIZE - 1 -> Byte]
  /\ nread \in 0 .. Wrap - 1 /\ nwrite \in 0 .. Wrap - 1
  /\ readopen \in {0, 1} /\ writeopen \in {0, 1} /\ freed \in {0, 1}
  /\ lock \in Process \cup {None}
  /\ pc \in [Process -> {"user", "write_acquire", "write", "write_body", "write_sleep",
                         "read_acquire", "read_test", "read_doze", "read_sleep", "read_copy",
                         "close_acquire", "closed"}]
  /\ left \in [Process -> 0 .. MaxLen]
  /\ killed \in [Process -> {0, 1}]
  /\ fd \in [Process -> {0, 1}]

\* pipealloc() succeeded and fork() has shared the two files; the page that
\* kalloc() returned is filled with one byte.
Init ==
  /\ \E b \in Byte : data = [i \in 0 .. PIPESIZE - 1 |-> b]
  /\ nread = 0 /\ nwrite = 0
  /\ readopen = 1 /\ writeopen = 1
  /\ freed = 0
  /\ lock = None
  /\ pc = [p \in Process |-> "user"]
  /\ left = [p \in Process |-> 0]
  /\ killed = [p \in Process |-> 0]
  /\ fd = [p \in Process |-> 1]

Goto(p, label) == pc' = [pc EXCEPT ![p] = label]

Acquire(p) == lock = None /\ lock' = p

\* Where wakeup(&pi->nread) and wakeup(&pi->nwrite) leave the processes.
WakeReaders(f) == [p \in Process |-> IF f[p] = "read_sleep" THEN "read_acquire" ELSE f[p]]
WakeWriters(f) == [p \in Process |-> IF f[p] = "write_sleep" THEN "write_acquire" ELSE f[p]]

Empty == nread = nwrite
\* Mutant: the pipe is full one byte too late.
Full_Late == nwrite = (nread + PIPESIZE + 1) % Wrap

Full  == nwrite = (nread + PIPESIZE) % Wrap

-----------------------------------------------------------------------------
(* pipewrite()                                                             *)

WriteCall(p, n) ==
  /\ p \in Writer /\ pc[p] = "user" /\ fd[p] = 1 /\ killed[p] = 0
  /\ left' = [left EXCEPT ![p] = n]
  /\ Goto(p, "write_acquire")
  /\ UNCHANGED <<pipeVars, lock, killed, fd>>

WriteAcquire(p) ==
  /\ pc[p] = "write_acquire"
  /\ Acquire(p)
  /\ Goto(p, "write")
  /\ UNCHANGED <<pipeVars, left, killed, fd>>

\* The tests at the top of the loop let it go on.
WriteTest(p) ==
  /\ pc[p] = "write" /\ left[p] > 0
  /\ readopen = 1 /\ killed[p] = 0
  /\ Goto(p, "write_body")
  /\ UNCHANGED <<pipeVars, lock, left, killed, fd>>

\* The read end is closed or the process was killed: return -1.
WriteAbort(p) ==
  /\ pc[p] = "write" /\ left[p] > 0
  /\ readopen = 0 \/ killed[p] = 1
  /\ lock' = None
  /\ left' = [left EXCEPT ![p] = 0]
  /\ Goto(p, "user")
  /\ UNCHANGED <<pipeVars, killed, fd>>

WriteSleep(p) ==
  /\ pc[p] = "write_body" /\ Full
  /\ lock' = None
  /\ pc' = WakeReaders([pc EXCEPT ![p] = "write_sleep"])
  /\ UNCHANGED <<pipeVars, left, killed, fd>>

WriteByte(p, b) ==
  /\ pc[p] = "write_body" /\ ~Full
  /\ data' = [data EXCEPT ![nwrite % PIPESIZE] = b]
  /\ nwrite' = (nwrite + 1) % Wrap
  /\ left' = [left EXCEPT ![p] = @ - 1]
  /\ Goto(p, "write")
  /\ UNCHANGED <<nread, readopen, writeopen, freed, lock, killed, fd>>

\* Mutant: no wakeup(&pi->nread) at the end of the loop.
WriteReturn_Silent(p) ==
  /\ (pc[p] = "write" /\ left[p] = 0) \/ (pc[p] = "write_body" /\ ~Full)
  /\ lock' = None
  /\ left' = [left EXCEPT ![p] = 0]
  /\ Goto(p, "user")
  /\ UNCHANGED <<pipeVars, killed, fd>>

\* The end of the loop: all bytes written, or copyin() failed.
WriteReturn(p) ==
  /\ (pc[p] = "write" /\ left[p] = 0) \/ (pc[p] = "write_body" /\ ~Full)
  /\ lock' = None
  /\ left' = [left EXCEPT ![p] = 0]
  /\ pc' = WakeReaders([pc EXCEPT ![p] = "user"])
  /\ UNCHANGED <<pipeVars, killed, fd>>

-----------------------------------------------------------------------------
(* piperead()                                                              *)

ReadCall(p, n) ==
  /\ p \in Reader /\ pc[p] = "user" /\ fd[p] = 1 /\ killed[p] = 0
  /\ left' = [left EXCEPT ![p] = n]
  /\ Goto(p, "read_acquire")
  /\ UNCHANGED <<pipeVars, lock, killed, fd>>

ReadAcquire(p) ==
  /\ pc[p] = "read_acquire"
  /\ Acquire(p)
  /\ Goto(p, "read_test")
  /\ UNCHANGED <<pipeVars, left, killed, fd>>

\* Empty, a writer is left, and killed: return -1.
ReadAbort(p) ==
  /\ pc[p] = "read_test" /\ Empty /\ writeopen = 1
  /\ killed[p] = 1
  /\ lock' = None
  /\ left' = [left EXCEPT ![p] = 0]
  /\ Goto(p, "user")
  /\ UNCHANGED <<pipeVars, killed, fd>>

\* Empty, a writer is left, not killed: decide to sleep ...
ReadTest(p) ==
  /\ pc[p] = "read_test" /\ Empty /\ writeopen = 1
  /\ killed[p] = 0
  /\ Goto(p, "read_doze")
  /\ UNCHANGED <<pipeVars, lock, left, killed, fd>>

\* ... and sleep(&pi->nread, &pi->lock).
ReadSleep(p) ==
  /\ pc[p] = "read_doze"
  /\ lock' = None
  /\ Goto(p, "read_sleep")
  /\ UNCHANGED <<pipeVars, left, killed, fd>>

ReadStart(p) ==
  /\ pc[p] = "read_test"
  /\ ~Empty \/ writeopen = 0
  /\ Goto(p, "read_copy")
  /\ UNCHANGED <<pipeVars, lock, left, killed, fd>>

ReadByte(p) ==
  /\ pc[p] = "read_copy" /\ left[p] > 0 /\ ~Empty
  /\ nread' = (nread + 1) % Wrap
  /\ \/ left' = [left EXCEPT ![p] = @ - 1]
     \/ left' = [left EXCEPT ![p] = 0]  \* copyout() failed: the byte is lost
  /\ UNCHANGED <<data, nwrite, readopen, writeopen, freed, lock, pc, killed, fd>>

\* Mutant: no wakeup(&pi->nwrite) at the end.
ReadReturn_Silent(p) ==
  /\ pc[p] = "read_copy"
  /\ left[p] = 0 \/ Empty
  /\ lock' = None
  /\ left' = [left EXCEPT ![p] = 0]
  /\ Goto(p, "user")
  /\ UNCHANGED <<pipeVars, killed, fd>>

ReadReturn(p) ==
  /\ pc[p] = "read_copy"
  /\ left[p] = 0 \/ Empty
  /\ lock' = None
  /\ left' = [left EXCEPT ![p] = 0]
  /\ pc' = WakeWriters([pc EXCEPT ![p] = "user"])
  /\ UNCHANGED <<pipeVars, killed, fd>>

-----------------------------------------------------------------------------
(* fileclose() and pipeclose(); kill()                                     *)

SameEnd(p) == IF p \in Reader THEN Reader ELSE Writer

\* fileclose(): only the last reference of an end closes the pipe.
Fileclose(p) ==
  /\ pc[p] = "user" /\ fd[p] = 1
  /\ fd' = [fd EXCEPT ![p] = 0]
  /\ Goto(p, IF \A q \in SameEnd(p) \ {p} : fd[q] = 0 THEN "close_acquire" ELSE "closed")
  /\ UNCHANGED <<pipeVars, lock, left, killed>>

\* Mutant: the first end that is closed frees the pipe.
Pipeclose_Frees(p) ==
  /\ pc[p] = "close_acquire"
  /\ lock = None
  /\ \/ p \in Writer /\ writeopen' = 0 /\ UNCHANGED readopen
     \/ p \in Reader /\ readopen' = 0 /\ UNCHANGED writeopen
  /\ pc' = WakeReaders(WakeWriters([pc EXCEPT ![p] = "closed"]))
  /\ freed' = 1
  /\ UNCHANGED <<data, nread, nwrite, lock, left, killed, fd>>

\* pipeclose(): the critical section, and kfree() by the second of the ends.
Pipeclose(p) ==
  /\ pc[p] = "close_acquire"
  /\ lock = None
  /\ \/ /\ p \in Writer
        /\ writeopen' = 0 /\ UNCHANGED readopen
        /\ pc' = WakeReaders([pc EXCEPT ![p] = "closed"])
     \/ /\ p \in Reader
        /\ readopen' = 0 /\ UNCHANGED writeopen
        /\ pc' = WakeWriters([pc EXCEPT ![p] = "closed"])
  /\ freed' = IF readopen' = 0 /\ writeopen' = 0 THEN 1 ELSE freed
  /\ UNCHANGED <<data, nread, nwrite, lock, left, killed, fd>>

Kill(p) ==
  /\ killed[p] = 0
  /\ killed' = [killed EXCEPT ![p] = 1]
  /\ pc' = [pc EXCEPT ![p] = IF @ = "read_sleep" THEN "read_acquire"
                             ELSE IF @ = "write_sleep" THEN "write_acquire" ELSE @]
  /\ UNCHANGED <<pipeVars, lock, left, fd>>

-----------------------------------------------------------------------------

WriteStep(p) ==
  \/ WriteAcquire(p) \/ WriteTest(p) \/ WriteAbort(p) \/ WriteSleep(p) \/ WriteReturn(p)
  \/ \E b \in Byte : WriteByte(p, b)

ReadStep(p) ==
  \/ ReadAcquire(p) \/ ReadTest(p) \/ ReadAbort(p) \/ ReadSleep(p)
  \/ ReadStart(p) \/ ReadByte(p) \/ ReadReturn(p)

Next ==
  \/ \E p \in Process :
       \/ WriteStep(p) \/ ReadStep(p)
       \/ \E n \in 1 .. MaxLen : WriteCall(p, n) \/ ReadCall(p, n)
       \/ Fileclose(p) \/ Pipeclose(p)
  \/ \E p \in Victim : Kill(p)
  \/ /\ \A p \in Process : pc[p] = "closed"  \* everybody is done
     /\ UNCHANGED vars

Spec == Init /\ [][Next]_vars

\* A process inside a system call goes on, and gets pi->lock in the end; the
\* readers read until they close.
FairSpec ==
  /\ Spec
  /\ \A p \in Process :
       SF_vars(WriteStep(p) \/ ReadStep(p) \/ Pipeclose(p))
  /\ \A p \in Reader : WF_vars(Fileclose(p) \/ \E n \in 1 .. MaxLen : ReadCall(p, n))

-----------------------------------------------------------------------------
(* Properties.                                                             *)

\* The bytes in the pipe, oldest first.
Contents ==
  [i \in 1 .. (nwrite - nread) % Wrap |-> data[(nread + i - 1) % PIPESIZE]]

Abstract == INSTANCE Fifo WITH Capacity <- PIPESIZE, queue <- Contents

\* pipe.c implements Fifo, across the wrap-around of its two counters and of
\* its buffer: no byte is overwritten, duplicated or reordered.
IsFifo == Abstract!FSpec

\* The page is given back only when nobody can use it any more.
NoUseAfterFree ==
  freed = 1 => \A p \in Process : pc[p] = "closed"

\* A reader sleeps only while the pipe is empty and a writer is left.
ReadersNotForgotten ==
  \A p \in Reader : pc[p] = "read_sleep" /\ lock = None => Empty /\ writeopen = 1

\* The variables have their types, the page is not used after kfree(), and no
\* reader is forgotten (pipeclose(), pipewrite(), piperead()).
PipeInv == TypeOK /\ NoUseAfterFree /\ ReadersNotForgotten

\* A writer that sleeps because the pipe is full is woken, as long as the
\* readers read or close.  (It may find the pipe full again, when another
\* writer was faster.)
WritersWoken ==
  \A p \in Writer : pc[p] = "write_sleep" ~> pc[p] # "write_sleep"
=============================================================================
