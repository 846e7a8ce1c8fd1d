------------------------------ MODULE BufCache ------------------------------
(***************************************************************************)
(* The buffer cache of kernel/bio.c and the sleep-locks of                 *)
(* kernel/sleeplock.c that it hands buffers out with.                      *)
(*                                                                         *)
(* A critical section under bcache.lock, or under the spin-lock inside a   *)
(* sleep-lock, is one step.  A process uses one buffer at a time.  The     *)
(* callers keep two rules: a buffer that was changed is written or pinned  *)
(* before brelse() (log_write() pins), and unpinned only after it was      *)
(* written (install_trans()).                                              *)
(***************************************************************************)
EXTENDS Integers, Sequences, FiniteSets

CONSTANTS Proc, Block, Value,
          NBUF,
          MaxPins,  \* buffers that the log may have pinned at the same time
          None

Buf == 1 .. NBUF

ASSUME BufCacheAssumption ==
  /\ NBUF \in Nat /\ MaxPins \in Nat
  /\ IsFiniteSet(Proc)
  /\ None \notin Proc /\ None \notin Block /\ None \notin Buf

VARIABLES
  disk,
  blockno, valid, refcnt, data,  \* struct buf
  lock,    \* the process that holds b->lock
  lru,     \* the list from bcache.head.next to bcache.head.prev
  pins,    \* references taken by bpin()
  pc,
  want,    \* the block that the process asked for
  target   \* the buffer that bget() chose for it

bufVars  == <<blockno, valid, refcnt, data>>
procVars == <<pc, want, target>>
vars == <<disk, blockno, valid, refcnt, data, lock, lru, pins, pc, want, target>>

TypeOK ==
  /\ disk \in [Block -> Value]
  /\ blockno \in [Buf -> Block \cup {None}]
  /\ valid \in [Buf -> {0, 1}]
  /\ refcnt \in [Buf -> Nat]
  /\ data \in [Buf -> Value]
  /\ lock \in [Buf -> Proc \cup {None}]
  /\ lru \in [1 .. NBUF -> Buf]
  /\ pins \in [Buf -> Nat]
  /\ pc \in [Proc -> {"out", "acquiresleep", "asleep", "bread", "held", "brelse", "panic"}]
  /\ want \in [Proc -> Block \cup {None}]
  /\ target \in [Proc -> Buf \cup {None}]

\* binit(): the list is in the reverse order of the array.
Init ==
  /\ disk \in [Block -> Value]
  /\ blockno = [b \in Buf |-> None]
  /\ valid = [b \in Buf |-> 0]
  /\ refcnt = [b \in Buf |-> 0]
  /\ \E v \in Value : data = [b \in Buf |-> v]
  /\ lock = [b \in Buf |-> None]
  /\ lru = [i \in 1 .. NBUF |-> NBUF + 1 - i]
  /\ pins = [b \in Buf |-> 0]
  /\ pc = [p \in Proc |-> "out"]
  /\ want = [p \in Proc |-> None]
  /\ target = [p \in Proc |-> None]

-----------------------------------------------------------------------------
(* bget() and bread()                                                      *)

\* A process that has nothing asks for block n and is given buffer b.
Chosen(p, n, b) ==
  /\ want' = [want EXCEPT ![p] = n]
  /\ target' = [target EXCEPT ![p] = b]
  /\ pc' = [pc EXCEPT ![p] = "acquiresleep"]

\* Mutant: the lookup misses buffers that are not valid yet.
Cached_Valid(n) == {b \in Buf : blockno[b] = n /\ valid[b] = 1}

Cached(n) == {b \in Buf : blockno[b] = n}

\* Mutant: a hit does not count the new user.
BgetHit_Uncounted(p, n) ==
  /\ pc[p] = "out"
  /\ \E b \in Cached(n) : Chosen(p, n, b)
  /\ UNCHANGED <<disk, bufVars, lock, lru, pins>>

BgetHit(p, n) ==
  /\ pc[p] = "out"
  /\ \E b \in Cached(n) :
       /\ refcnt' = [refcnt EXCEPT ![b] = @ + 1]
       /\ Chosen(p, n, b)
  /\ UNCHANGED <<disk, blockno, valid, data, lock, lru, pins>>

\* The unused buffer that is last in the list.
LeastRecent(b) ==
  \E i \in 1 .. NBUF :
    /\ lru[i] = b /\ refcnt[b] = 0
    /\ \A j \in i + 1 .. NBUF : refcnt[lru[j]] # 0

\* Mutant: valid is not reset.
BgetRecycle_Valid(p, n) ==
  /\ pc[p] = "out"
  /\ Cached(n) = {}
  /\ \E b \in Buf :
       /\ LeastRecent(b)
       /\ blockno' = [blockno EXCEPT ![b] = n]
       /\ refcnt' = [refcnt EXCEPT ![b] = 1]
       /\ Chosen(p, n, b)
  /\ UNCHANGED <<disk, valid, data, lock, lru, pins>>

BgetRecycle(p, n) ==
  /\ pc[p] = "out"
  /\ Cached(n) = {}
  /\ \E b \in Buf :
       /\ LeastRecent(b)
       /\ blockno' = [blockno EXCEPT ![b] = n]
       /\ valid' = [valid EXCEPT ![b] = 0]
       /\ refcnt' = [refcnt EXCEPT ![b] = 1]
       /\ Chosen(p, n, b)
  /\ UNCHANGED <<disk, data, lock, lru, pins>>

\* panic("bget: no buffers")
BgetPanic(p, n) ==
  /\ pc[p] = "out"
  /\ Cached(n) = {}
  /\ ~\E b \in Buf : LeastRecent(b)
  /\ pc' = [pc EXCEPT ![p] = "panic"]
  /\ UNCHANGED <<disk, bufVars, lock, lru, pins, want, target>>

AcquiresleepTake(p) ==
  /\ pc[p] = "acquiresleep"
  /\ lock[target[p]] = None
  /\ lock' = [lock EXCEPT ![target[p]] = p]
  /\ pc' = [pc EXCEPT ![p] = "bread"]
  /\ UNCHANGED <<disk, bufVars, lru, pins, want, target>>

AcquiresleepSleep(p) ==
  /\ pc[p] = "acquiresleep"
  /\ lock[target[p]] # None
  /\ pc' = [pc EXCEPT ![p] = "asleep"]
  /\ UNCHANGED <<disk, bufVars, lock, lru, pins, want, target>>

\* bread() reads the disk unless the buffer is valid.
Bread(p) ==
  /\ pc[p] = "bread"
  /\ LET b == target[p]
     IN  /\ data' = [data EXCEPT ![b] = IF valid[b] = 1 THEN @ ELSE disk[blockno[b]]]
         /\ valid' = [valid EXCEPT ![b] = 1]
  /\ pc' = [pc EXCEPT ![p] = "held"]
  /\ UNCHANGED <<disk, blockno, refcnt, lock, lru, pins, want, target>>

-----------------------------------------------------------------------------
(* What a process does with its buffer b.                                  *)

Holds(p, b) == pc[p] = "held" /\ target[p] = b

Modify(p, b, v) ==
  /\ Holds(p, b)
  /\ data' = [data EXCEPT ![b] = v]
  /\ UNCHANGED <<disk, blockno, valid, refcnt, lock, lru, pins, procVars>>

Bwrite(p, b) ==
  /\ Holds(p, b)
  /\ disk' = [disk EXCEPT ![blockno[b]] = data[b]]
  /\ UNCHANGED <<bufVars, lock, lru, pins, procVars>>

Pinned == {b \in Buf : pins[b] > 0}

\* log_write() pins a block once per transaction.
Bpin(p, b) ==
  /\ Holds(p, b)
  /\ pins[b] = 0 /\ Cardinality(Pinned) < MaxPins
  /\ pins' = [pins EXCEPT ![b] = @ + 1]
  /\ refcnt' = [refcnt EXCEPT ![b] = @ + 1]
  /\ UNCHANGED <<disk, blockno, valid, data, lock, lru, procVars>>

Bunpin(p, b) ==
  /\ Holds(p, b)
  /\ pins[b] > 0 /\ data[b] = disk[blockno[b]]
  /\ pins' = [pins EXCEPT ![b] = @ - 1]
  /\ refcnt' = [refcnt EXCEPT ![b] = @ - 1]
  /\ UNCHANGED <<disk, blockno, valid, data, lock, lru, procVars>>

\* Mutant: releasesleep() without its wakeup().
Releasesleep_Silent(p, b) ==
  /\ Holds(p, b)
  /\ pins[b] > 0 \/ data[b] = disk[blockno[b]]
  /\ lock' = [lock EXCEPT ![b] = None]
  /\ pc' = [pc EXCEPT ![p] = "brelse"]
  /\ UNCHANGED <<disk, bufVars, lru, pins, want, target>>

\* brelse(): releasesleep() first ...
Releasesleep(p, b) ==
  /\ Holds(p, b)
  /\ pins[b] > 0 \/ data[b] = disk[blockno[b]]
  /\ lock' = [lock EXCEPT ![b] = None]
  /\ pc' = [q \in Proc |-> IF q = p THEN "brelse"
                           ELSE IF pc[q] = "asleep" /\ target[q] = b THEN "acquiresleep"
                           ELSE pc[q]]
  /\ UNCHANGED <<disk, bufVars, lru, pins, want, target>>

\* The list with b moved to its head.
MovedToHead(b) ==
  LET k == CHOOSE i \in 1 .. NBUF : lru[i] = b
  IN  [i \in 1 .. NBUF |-> IF i = 1 THEN b ELSE IF i <= k THEN lru[i - 1] ELSE lru[i]]

\* ... then the reference is dropped under bcache.lock.
Brelse(p) ==
  /\ pc[p] = "brelse"
  /\ LET b == target[p]
     IN  /\ refcnt' = [refcnt EXCEPT ![b] = @ - 1]
         /\ lru' = IF refcnt[b] = 1 THEN MovedToHead(b) ELSE lru
  /\ pc' = [pc EXCEPT ![p] = "out"]
  /\ want' = [want EXCEPT ![p] = None]
  /\ target' = [target EXCEPT ![p] = None]
  /\ UNCHANGED <<disk, blockno, valid, data, lock, pins>>

-----------------------------------------------------------------------------

Step(p) ==
  \/ AcquiresleepTake(p) \/ AcquiresleepSleep(p) \/ Bread(p) \/ Brelse(p)
  \/ \E b \in Buf : Releasesleep(p, b)

Next ==
  \E p \in Proc :
    \/ Step(p)
    \/ \E n \in Block : BgetHit(p, n) \/ BgetRecycle(p, n) \/ BgetPanic(p, n)
    \/ \E b \in Buf :
         Bwrite(p, b) \/ Bpin(p, b) \/ Bunpin(p, b) \/ \E v \in Value : Modify(p, b, v)

Spec == Init /\ [][Next]_vars

\* A process that holds a buffer writes it back and releases it; one that
\* finds a sleep-lock free again and again gets it.
FairSpec ==
  /\ Spec
  /\ \A p \in Proc :
       /\ WF_vars(AcquiresleepSleep(p) \/ Bread(p) \/ Brelse(p))
       /\ SF_vars(AcquiresleepTake(p))
       /\ SF_vars(\E b \in Buf : Releasesleep(p, b))
       /\ SF_vars(\E b \in Buf : Bwrite(p, b))

-----------------------------------------------------------------------------
(* Properties.                                                             *)

\* "only one copy of a disk block in the cache": bget() looks the block up
\* and recycles a buffer in one critical section.
OneBufferPerBlock ==
  \A b, c \in Buf : blockno[b] = blockno[c] /\ blockno[b] # None => b = c

Users(b) == {p \in Proc : target[p] = b}

\* refcnt counts the processes that use or wait for a buffer, and the log.
RefcntCounts ==
  \A b \in Buf : refcnt[b] = Cardinality(Users(b)) + pins[b]

\* The variables have their types, a block has one buffer and refcnt keeps it
\* from being recycled (bget(), brelse(), bpin(), bunpin()).
CacheInv == TypeOK /\ OneBufferPerBlock /\ RefcntCounts

\* The contents of the block of an invalid or missing buffer are on the disk.
Store ==
  [n \in Block |->
     IF \E b \in Buf : blockno[b] = n /\ valid[b] = 1
     THEN data[CHOOSE b \in Buf : blockno[b] = n /\ valid[b] = 1]
     ELSE disk[n]]

Owner ==
  [n \in Block |->
     IF \E p \in Proc : pc[p] = "held" /\ want[p] = n
     THEN CHOOSE p \in Proc : pc[p] = "held" /\ want[p] = n
     ELSE None]

Abstract == INSTANCE BlockStore WITH store <- Store, owner <- Owner

\* The cache implements BlockStore: reading, writing, recycling and pinning
\* never change what a block contains, only its owner does.
IsBlockStore == Abstract!SSpec

\* bread() returns: whoever waits for a buffer gets it.
BreadReturns ==
  \A p \in Proc : pc[p] = "acquiresleep" ~> pc[p] = "held"
=============================================================================
