--------------------------- MODULE BufCacheProofs ---------------------------
(***************************************************************************)
(* Proofs about BufCache for every number of processes, blocks and buffers *)
(* and for every limit on the pinned buffers.                              *)
(***************************************************************************)
EXTENDS BufCache, FiniteSetTheorems, TLAPS

\* A process has a buffer, of the block that it asked for, from bget() to
\* brelse().  b->lock is held by the process that is past acquiresleep().
UseInv ==
  /\ \A p \in Proc :
       target[p] # None <=> pc[p] \in {"acquiresleep", "asleep", "bread", "held", "brelse"}
  /\ \A p \in Proc :
       target[p] # None => want[p] \in Block /\ blockno[target[p]] = want[p]
  /\ \A p \in Proc : pc[p] \in {"bread", "held"} => lock[target[p]] = p
  /\ \A b \in Buf :
       lock[b] # None => target[lock[b]] = b /\ pc[lock[b]] \in {"bread", "held"}

\* Where the contents of a block are: a valid buffer may differ from the disk
\* only while it is pinned or a process holds it.
CleanInv ==
  /\ \A p \in Proc : pc[p] = "held" => valid[target[p]] = 1
  /\ \A b \in Buf : pins[b] > 0 => valid[b] = 1
  /\ \A b \in Buf : valid[b] = 1 =>
       /\ blockno[b] \in Block
       /\ \/ data[b] = disk[blockno[b]]
          \/ pins[b] > 0
          \/ lock[b] # None /\ pc[lock[b]] = "held"

\* The inductive invariant.
BufInv == CacheInv /\ UseInv /\ CleanInv


-----------------------------------------------------------------------------
(* How the users of the buffers are counted.                               *)

\* None is no process, no block and no buffer.
LEMMA NoneApart == None \notin Proc /\ None \notin Block /\ None \notin Buf
BY BufCacheAssumption

\* The users of a buffer can be counted; a buffer without references is not
\* pinned and nobody uses it or waits for it.
LEMMA CountedUsers ==
  ASSUME CacheInv, NEW b \in Buf
  PROVE  /\ IsFiniteSet(Users(b)) /\ Cardinality(Users(b)) \in Nat
         /\ refcnt[b] = 0 => pins[b] = 0 /\ Users(b) = {}
<1>1. IsFiniteSet(Users(b))
  BY BufCacheAssumption, FS_Subset DEF Users
<1>2. Cardinality(Users(b)) \in Nat
  BY <1>1, FS_CardinalityType
<1>3. refcnt[b] = 0 => pins[b] = 0 /\ Cardinality(Users(b)) = 0
  BY <1>2 DEF CacheInv, RefcntCounts, TypeOK
<1> QED BY <1>1, <1>2, <1>3, FS_EmptySet

\* A process that had no buffer becomes one more user of b.
LEMMA UserAdded ==
  ASSUME CacheInv, NEW p \in Proc, NEW b \in Buf,
         target[p] = None, target' = [target EXCEPT ![p] = b]
  PROVE  /\ Cardinality(Users(b)') = Cardinality(Users(b)) + 1
         /\ \A c \in Buf \ {b} : Users(c)' = Users(c)
<1> USE NoneApart DEF CacheInv, TypeOK, Users
<1>1. Users(b)' = Users(b) \cup {p} /\ p \notin Users(b)
  OBVIOUS
<1>2. \A c \in Buf \ {b} : Users(c)' = Users(c)
  OBVIOUS
<1>3. Cardinality(Users(b) \cup {p}) = Cardinality(Users(b)) + 1
  BY <1>1, CountedUsers, FS_AddElement
<1> QED BY <1>1, <1>2, <1>3

\* A user of b lets go of it.
LEMMA UserRemoved ==
  ASSUME CacheInv, NEW p \in Proc, NEW b \in Buf,
         target[p] = b, target' = [target EXCEPT ![p] = None]
  PROVE  /\ Cardinality(Users(b)') = Cardinality(Users(b)) - 1
         /\ Cardinality(Users(b)) \in Nat \ {0}
         /\ \A c \in Buf \ {b} : Users(c)' = Users(c)
<1> USE NoneApart DEF CacheInv, TypeOK, Users
<1>1. Users(b)' = Users(b) \ {p} /\ p \in Users(b)
  OBVIOUS
<1>2. \A c \in Buf \ {b} : Users(c)' = Users(c)
  OBVIOUS
<1>3. Cardinality(Users(b) \ {p}) = Cardinality(Users(b)) - 1
  <2> HIDE DEF Users
  <2> QED BY <1>1, CountedUsers, FS_RemoveElement
<1>4. Cardinality(Users(b)) \in Nat \ {0}
  BY <1>1, CountedUsers, FS_EmptySet
<1> QED BY <1>1, <1>2, <1>3, <1>4

-----------------------------------------------------------------------------
(* Each step of the code keeps the invariant.                              *)


\* bget() finds the block.
LEMMA BgetHitKeeps ==
  ASSUME BufInv, NEW p \in Proc, NEW n \in Block, BgetHit(p, n)
  PROVE  BufInv'
<1> USE NoneApart DEF BufInv, CacheInv
<1>1. PICK b \in Cached(n) : refcnt' = [refcnt EXCEPT ![b] = @ + 1] /\ Chosen(p, n, b)
  BY DEF BgetHit
<1>2. b \in Buf /\ blockno[b] = n /\ target[p] = None
  BY DEF BgetHit, Cached, UseInv
<1> USE <1>1, <1>2 DEF BgetHit, Chosen
<1>3. TypeOK'
  BY DEF TypeOK
<1>4. OneBufferPerBlock'
  BY DEF OneBufferPerBlock
<1>5. RefcntCounts'
  <2>1. Cardinality(Users(b)') = Cardinality(Users(b)) + 1
        /\ \A c \in Buf \ {b} : Users(c)' = Users(c)
    BY UserAdded
  <2>2. Cardinality(Users(b)) \in Nat
    BY CountedUsers
  <2>3. refcnt'[b] = Cardinality(Users(b)') + pins'[b]
    BY <2>1, <2>2 DEF RefcntCounts, TypeOK
  <2>4. \A c \in Buf \ {b} : refcnt'[c] = Cardinality(Users(c)') + pins'[c]
    BY <2>1 DEF RefcntCounts
  <2> QED BY <2>3, <2>4 DEF RefcntCounts
<1>6. UseInv'
  BY DEF TypeOK, UseInv
<1>7. CleanInv'
  BY DEF TypeOK, CleanInv
<1> QED BY <1>3, <1>4, <1>5, <1>6, <1>7

\* bget() recycles a buffer that nobody uses and that is clean.
LEMMA BgetRecycleKeeps ==
  ASSUME BufInv, NEW p \in Proc, NEW n \in Block, BgetRecycle(p, n)
  PROVE  BufInv'
<1> USE NoneApart DEF BufInv, CacheInv
<1>1. PICK b \in Buf :
        /\ LeastRecent(b)
        /\ blockno' = [blockno EXCEPT ![b] = n]
        /\ valid' = [valid EXCEPT ![b] = 0]
        /\ refcnt' = [refcnt EXCEPT ![b] = 1]
        /\ Chosen(p, n, b)
  BY DEF BgetRecycle
<1>2. target[p] = None /\ pins[b] = 0 /\ Users(b) = {}
  BY <1>1, CountedUsers DEF BgetRecycle, UseInv, LeastRecent
<1>3. \A q \in Proc : target[q] # b
  BY <1>2 DEF Users
<1> USE <1>1, <1>2 DEF BgetRecycle, Chosen
<1>4. TypeOK'
  BY DEF TypeOK
<1>5. OneBufferPerBlock'
  BY DEF OneBufferPerBlock, Cached
<1>6. RefcntCounts'
  <2>1. Cardinality(Users(b)') = Cardinality(Users(b)) + 1
        /\ \A c \in Buf \ {b} : Users(c)' = Users(c)
    BY UserAdded
  <2>2. Cardinality(Users(b)) = 0
    BY FS_EmptySet
  <2> QED BY <2>1, <2>2 DEF RefcntCounts, TypeOK
<1>7. UseInv'
  BY <1>3 DEF TypeOK, UseInv
<1>8. CleanInv'
  BY <1>3 DEF TypeOK, CleanInv
<1> QED BY <1>4, <1>5, <1>6, <1>7, <1>8

\* bget() finds no buffer.
LEMMA BgetPanicKeeps ==
  ASSUME BufInv, NEW p \in Proc, NEW n \in Block, BgetPanic(p, n)
  PROVE  BufInv'
<1> USE DEF BufInv, CacheInv, BgetPanic, bufVars
<1>1. TypeOK'
  BY DEF TypeOK
<1>2. OneBufferPerBlock'
  BY DEF TypeOK, OneBufferPerBlock
<1>3. RefcntCounts'
  BY DEF TypeOK, RefcntCounts, Users
<1>4. UseInv'
  BY DEF TypeOK, UseInv
<1>5. CleanInv'
  BY DEF TypeOK, CleanInv
<1> QED BY <1>1, <1>2, <1>3, <1>4, <1>5

\* acquiresleep() takes a free buffer.
LEMMA AcquiresleepTakeKeeps ==
  ASSUME BufInv, NEW p \in Proc, AcquiresleepTake(p)
  PROVE  BufInv'
<1> USE NoneApart DEF BufInv, CacheInv, AcquiresleepTake, bufVars, procVars
<1>1. TypeOK'
  BY DEF TypeOK
<1>2. OneBufferPerBlock'
  BY DEF TypeOK, OneBufferPerBlock
<1>3. RefcntCounts'
  BY DEF TypeOK, RefcntCounts, Users
<1>4. UseInv'
  BY DEF TypeOK, UseInv
<1>5. CleanInv'
  BY DEF TypeOK, CleanInv
<1> QED BY <1>1, <1>2, <1>3, <1>4, <1>5

\* acquiresleep() sleeps.
LEMMA AcquiresleepSleepKeeps ==
  ASSUME BufInv, NEW p \in Proc, AcquiresleepSleep(p)
  PROVE  BufInv'
<1> USE DEF BufInv, CacheInv, AcquiresleepSleep, bufVars
<1>1. TypeOK'
  BY DEF TypeOK
<1>2. OneBufferPerBlock'
  BY DEF TypeOK, OneBufferPerBlock
<1>3. RefcntCounts'
  BY DEF TypeOK, RefcntCounts, Users
<1>4. UseInv'
  BY DEF TypeOK, UseInv
<1>5. CleanInv'
  BY DEF TypeOK, CleanInv
<1> QED BY <1>1, <1>2, <1>3, <1>4, <1>5

\* bread() fills an invalid buffer.
LEMMA BreadKeeps ==
  ASSUME BufInv, NEW p \in Proc, Bread(p)
  PROVE  BufInv'
<1> USE DEF BufInv, CacheInv, Bread
<1>1. TypeOK'
  <2>1. target[p] \in Buf /\ blockno[target[p]] \in Block
    BY DEF TypeOK, UseInv
  <2> QED BY <2>1 DEF TypeOK
<1>2. OneBufferPerBlock'
  BY DEF TypeOK, OneBufferPerBlock
<1>3. RefcntCounts'
  BY DEF TypeOK, RefcntCounts, Users
<1>4. UseInv'
  BY DEF TypeOK, UseInv
<1>5. CleanInv'
  BY DEF TypeOK, UseInv, CleanInv
<1> QED BY <1>1, <1>2, <1>3, <1>4, <1>5

\* The holder of a buffer changes it.
LEMMA ModifyKeeps ==
  ASSUME BufInv, NEW p \in Proc, NEW b \in Buf, NEW v \in Value, Modify(p, b, v)
  PROVE  BufInv'
<1> USE NoneApart DEF BufInv, CacheInv, Modify, Holds, procVars
<1>1. TypeOK'
  BY DEF TypeOK
<1>2. OneBufferPerBlock'
  BY DEF TypeOK, OneBufferPerBlock
<1>3. RefcntCounts'
  BY DEF TypeOK, RefcntCounts, Users
<1>4. UseInv'
  BY DEF TypeOK, UseInv
<1>5. CleanInv'
  BY DEF TypeOK, UseInv, CleanInv
<1> QED BY <1>1, <1>2, <1>3, <1>4, <1>5

\* The holder of a buffer writes it to the disk.
LEMMA BwriteKeeps ==
  ASSUME BufInv, NEW p \in Proc, NEW b \in Buf, Bwrite(p, b)
  PROVE  BufInv'
<1> USE NoneApart DEF BufInv, CacheInv, Bwrite, Holds, bufVars, procVars
<1>1. TypeOK'
  BY DEF TypeOK
<1>2. OneBufferPerBlock'
  BY DEF TypeOK, OneBufferPerBlock
<1>3. RefcntCounts'
  BY DEF TypeOK, RefcntCounts, Users
<1>4. UseInv'
  BY DEF TypeOK, UseInv
<1>5. CleanInv'
  <2>1. \A c \in Buf : c # b /\ blockno[c] \in Block => blockno[c] # blockno[b]
    BY DEF OneBufferPerBlock
  <2>2. blockno[b] \in Block
    BY DEF UseInv
  <2> QED BY <2>1 DEF CleanInv
<1> QED BY <1>1, <1>2, <1>3, <1>4, <1>5

\* bpin() counts a reference of the log.
LEMMA BpinKeeps ==
  ASSUME BufInv, NEW p \in Proc, NEW b \in Buf, Bpin(p, b)
  PROVE  BufInv'
<1> USE NoneApart DEF BufInv, CacheInv, Bpin, Holds, bufVars, procVars
<1>1. TypeOK'
  BY DEF TypeOK
<1>2. OneBufferPerBlock'
  BY DEF TypeOK, OneBufferPerBlock
<1>3. RefcntCounts'
  <2>1. \A c \in Buf : Cardinality(Users(c)) \in Nat /\ Users(c)' = Users(c)
    BY CountedUsers DEF Users
  <2> QED BY <2>1 DEF RefcntCounts, TypeOK
<1>4. UseInv'
  BY DEF TypeOK, UseInv
<1>5. CleanInv'
  BY DEF TypeOK, CleanInv
<1> QED BY <1>1, <1>2, <1>3, <1>4, <1>5

\* bunpin() drops the reference of the log, once the block is home.
LEMMA BunpinKeeps ==
  ASSUME BufInv, NEW p \in Proc, NEW b \in Buf, Bunpin(p, b)
  PROVE  BufInv'
<1> USE NoneApart DEF BufInv, CacheInv, Bunpin, Holds, bufVars, procVars
<1>1. TypeOK'
  <2>1. refcnt[b] > 0
    BY CountedUsers DEF TypeOK
  <2> QED BY <2>1 DEF TypeOK
<1>2. OneBufferPerBlock'
  BY DEF TypeOK, OneBufferPerBlock
<1>3. RefcntCounts'
  <2>1. \A c \in Buf : Cardinality(Users(c)) \in Nat /\ Users(c)' = Users(c)
    BY CountedUsers DEF Users
  <2> QED BY <2>1 DEF RefcntCounts, TypeOK
<1>4. UseInv'
  BY DEF TypeOK, UseInv
<1>5. CleanInv'
  BY DEF TypeOK, CleanInv
<1> QED BY <1>1, <1>2, <1>3, <1>4, <1>5

\* brelse() lets go of a buffer that is clean or pinned.
LEMMA ReleasesleepKeeps ==
  ASSUME BufInv, NEW p \in Proc, NEW b \in Buf, Releasesleep(p, b)
  PROVE  BufInv'
<1> USE DEF BufInv, CacheInv, Releasesleep, Holds, bufVars
<1>1. TypeOK'
  BY DEF TypeOK
<1>2. OneBufferPerBlock'
  BY DEF TypeOK, OneBufferPerBlock
<1>3. RefcntCounts'
  BY DEF TypeOK, RefcntCounts, Users
<1>4. UseInv'
  BY DEF TypeOK, UseInv
<1>5. CleanInv'
  BY DEF TypeOK, UseInv, CleanInv
<1> QED BY <1>1, <1>2, <1>3, <1>4, <1>5

\* brelse() drops the reference.
LEMMA BrelseKeeps ==
  ASSUME BufInv, NEW p \in Proc, Brelse(p)
  PROVE  BufInv'
<1> USE NoneApart DEF BufInv, CacheInv
<1>1. PICK b \in Buf : b = target[p]
  BY DEF Brelse, UseInv, TypeOK
<1>2. /\ Cardinality(Users(b)') = Cardinality(Users(b)) - 1
      /\ Cardinality(Users(b)) \in Nat \ {0}
      /\ \A c \in Buf \ {b} : Users(c)' = Users(c)
  <2>1. target' = [target EXCEPT ![p] = None]
    BY DEF Brelse
  <2> QED BY <1>1, <2>1, UserRemoved
<1>3. refcnt[b] > 0 /\ refcnt[b] = Cardinality(Users(b)) + pins[b]
  BY <1>2 DEF RefcntCounts, TypeOK
<1>4. refcnt' = [refcnt EXCEPT ![b] = @ - 1] /\ (lru' = MovedToHead(b) \/ lru' = lru)
  BY <1>1 DEF Brelse
<1>5. TypeOK'
  <2>1. MovedToHead(b) \in [1 .. NBUF -> Buf]
    <3> DEFINE k == CHOOSE i \in 1 .. NBUF : lru[i] = b
    <3> HIDE DEF k
    <3>1. \A i \in 1 .. NBUF : i # 1 => i - 1 \in 1 .. NBUF
      BY BufCacheAssumption
    <3>2. \A i \in 1 .. NBUF :
            (IF i = 1 THEN b ELSE IF i <= k THEN lru[i - 1] ELSE lru[i]) \in Buf
      BY <1>1, <3>1 DEF TypeOK
    <3> QED BY <3>2 DEF MovedToHead, k
  <2> QED BY <1>1, <1>3, <2>1 DEF Brelse, TypeOK
<1>6. OneBufferPerBlock'
  BY DEF OneBufferPerBlock, Brelse
<1>7. RefcntCounts'
  <2>1. refcnt'[b] = Cardinality(Users(b)') + pins'[b]
    BY <1>2, <1>3, <1>4 DEF Brelse, TypeOK
  <2>2. \A c \in Buf \ {b} : refcnt'[c] = Cardinality(Users(c)') + pins'[c]
    BY <1>2, <1>4 DEF Brelse, RefcntCounts
  <2> QED BY <2>1, <2>2 DEF RefcntCounts
<1>8. UseInv'
  BY DEF TypeOK, UseInv, Brelse
<1>9. CleanInv'
  BY DEF TypeOK, CleanInv, Brelse
<1> QED BY <1>5, <1>6, <1>7, <1>8, <1>9

\* binit() establishes the invariant.
LEMMA InitKeeps == Init => BufInv
<1> SUFFICES ASSUME Init PROVE BufInv
  OBVIOUS
<1> USE NoneApart DEF Init
<1>1. TypeOK
  BY BufCacheAssumption DEF TypeOK, Buf
<1>2. RefcntCounts
  <2>1. \A b \in Buf : Users(b) = {}
    BY DEF Users
  <2>2. \A b \in Buf : Cardinality(Users(b)) = 0
    BY <2>1, FS_EmptySet
  <2> QED BY <2>2 DEF RefcntCounts
<1>3. OneBufferPerBlock /\ UseInv /\ CleanInv
  BY DEF OneBufferPerBlock, UseInv, CleanInv
<1> QED BY <1>1, <1>2, <1>3 DEF BufInv, CacheInv

\* Every step keeps the invariant.
LEMMA NextKeeps == BufInv /\ [Next]_vars => BufInv'
<1> SUFFICES ASSUME BufInv, [Next]_vars PROVE BufInv'
  OBVIOUS
<1>1. CASE UNCHANGED vars
  BY <1>1 DEF vars, BufInv, CacheInv, TypeOK, OneBufferPerBlock, RefcntCounts, Users, UseInv,
     CleanInv
<1>2. CASE Next
  BY <1>2, BgetHitKeeps, BgetRecycleKeeps, BgetPanicKeeps, AcquiresleepTakeKeeps,
     AcquiresleepSleepKeeps, BreadKeeps, ModifyKeeps, BwriteKeeps, BpinKeeps, BunpinKeeps,
     ReleasesleepKeeps, BrelseKeeps
  DEF Next, Step
<1> QED BY <1>1, <1>2

-----------------------------------------------------------------------------
(* The theorems.                                                           *)

\* What is true at each point of bread(), bwrite() and brelse(): who has which
\* buffer and where the contents of a block are.
THEOREM BuffersInvariant == Spec => []BufInv
BY InitKeeps, NextKeeps, PTL DEF Spec

\* For any number of processes, blocks and buffers, a block has at most one
\* buffer, and refcnt counts its users and its pin, so that bget() recycles
\* no buffer in use.
THEOREM OneCopy == Spec => []CacheInv
<1>1. BufInv => CacheInv
  BY DEF BufInv
<1> QED BY <1>1, BuffersInvariant, PTL

-----------------------------------------------------------------------------
(* The refinement: where Store and Owner find a block and its holder, and  *)
(* which step of BlockStore each step of the cache is.                     *)

Filled(b, n) == blockno[b] = n /\ valid[b] = 1
HasBlock(p, n) == pc[p] = "held" /\ want[p] = n

\* Store and Owner without the choices in their definitions.
Mapped ==
  /\ Store \in [Block -> Value]
  /\ Owner \in [Block -> Proc \cup {None}]
  /\ \A n \in Block :
       /\ \A b \in Buf : Filled(b, n) => Store[n] = data[b]
       /\ (\A b \in Buf : ~Filled(b, n)) => Store[n] = disk[n]
       /\ \A p \in Proc : HasBlock(p, n) => Owner[n] = p
       /\ (\A p \in Proc : ~HasBlock(p, n)) => Owner[n] = None

\* A block is held by the one process that holds the lock of its one buffer.
LEMMA OneHolder ==
  ASSUME BufInv, NEW p \in Proc, NEW q \in Proc, NEW n \in Block,
         pc[p] \in {"bread", "held"}, want[p] = n,
         pc[q] \in {"bread", "held"}, want[q] = n
  PROVE  p = q
<1>1. target[p] = target[q] /\ target[p] \in Buf
  BY NoneApart DEF BufInv, CacheInv, UseInv, OneBufferPerBlock, TypeOK
<1> QED BY <1>1 DEF BufInv, UseInv

\* The invariant makes the choices in Store and Owner unique.
LEMMA Unambiguous == BufInv => Mapped
<1> SUFFICES ASSUME BufInv PROVE Mapped
  OBVIOUS
<1> USE DEF Filled, HasBlock
<1>1. ASSUME NEW n \in Block
      PROVE  /\ \A b \in Buf : Filled(b, n) => Store[n] = data[b]
             /\ (\A b \in Buf : ~Filled(b, n)) => Store[n] = disk[n]
  <2>1. \A b, c \in Buf : Filled(b, n) /\ Filled(c, n) => b = c
    BY NoneApart DEF BufInv, CacheInv, OneBufferPerBlock
  <2>2. Store[n] = IF \E b \in Buf : blockno[b] = n /\ valid[b] = 1
                   THEN data[CHOOSE b \in Buf : blockno[b] = n /\ valid[b] = 1]
                   ELSE disk[n]
    BY DEF Store
  <2> QED BY <2>1, <2>2
<1>2. ASSUME NEW n \in Block
      PROVE  /\ \A p \in Proc : HasBlock(p, n) => Owner[n] = p
             /\ (\A p \in Proc : ~HasBlock(p, n)) => Owner[n] = None
  <2>1. \A p, q \in Proc : HasBlock(p, n) /\ HasBlock(q, n) => p = q
    BY OneHolder
  <2>2. Owner[n] = IF \E p \in Proc : pc[p] = "held" /\ want[p] = n
                   THEN CHOOSE p \in Proc : pc[p] = "held" /\ want[p] = n
                   ELSE None
    BY DEF Owner
  <2> QED BY <2>2
<1>3. Store \in [Block -> Value]
  <2>1. \A n \in Block : Store[n] \in Value
    BY <1>1 DEF BufInv, CacheInv, TypeOK
  <2> QED BY <2>1 DEF Store
<1>4. Owner \in [Block -> Proc \cup {None}]
  <2>1. \A n \in Block : Owner[n] \in Proc \cup {None}
    BY <1>2
  <2> QED BY DEF Owner
<1> QED BY <1>1, <1>2, <1>3, <1>4 DEF Mapped

\* The owners stay while the same processes hold the same blocks.
LEMMA OwnerKept ==
  ASSUME Mapped, Mapped',
         \A p \in Proc, n \in Block : HasBlock(p, n)' <=> HasBlock(p, n)
  PROVE  Owner' = Owner
<1> QED BY DEF Mapped

\* The blocks keep their contents while buffers and disk stay.
LEMMA StoreKept ==
  ASSUME UNCHANGED <<disk, blockno, valid, data>>
  PROVE  Store' = Store
BY DEF Store

AbstractStep == [Abstract!SNext]_(Abstract!svars)

\* bget(), acquiresleep(), bpin(), bunpin() and the end of brelse() leave the
\* buffers of the blocks, their contents and their holders as they are.
LEMMA QuietStep ==
  ASSUME BufInv, Mapped, Mapped', NEW p \in Proc,
         \/ AcquiresleepTake(p) \/ AcquiresleepSleep(p) \/ Brelse(p)
         \/ \E n \in Block : BgetHit(p, n) \/ BgetPanic(p, n)
         \/ \E b \in Buf : Bpin(p, b) \/ Bunpin(p, b)
  PROVE  AbstractStep
<1> USE DEF AcquiresleepTake, AcquiresleepSleep, Brelse, BgetHit, BgetPanic, Bpin, Bunpin,
        Chosen,
            bufVars, procVars
<1>1. Store' = Store
  BY StoreKept
<1>2. \A q \in Proc, n \in Block : HasBlock(q, n)' <=> HasBlock(q, n)
  BY DEF HasBlock, BufInv, CacheInv, TypeOK
<1>3. Owner' = Owner
  BY <1>2, OwnerKept
<1> QED BY <1>1, <1>3 DEF AbstractStep, Abstract!svars

\* bget() recycles a buffer: the block that loses it is on the disk.
LEMMA RecycleStep ==
  ASSUME BufInv, Mapped, Mapped', NEW p \in Proc, NEW n \in Block, BgetRecycle(p, n)
  PROVE  AbstractStep
<1>1. PICK b \in Buf :
        /\ LeastRecent(b)
        /\ blockno' = [blockno EXCEPT ![b] = n]
        /\ valid' = [valid EXCEPT ![b] = 0]
        /\ Chosen(p, n, b)
  BY DEF BgetRecycle
<1>2. pins[b] = 0 /\ \A q \in Proc : target[q] # b
  BY <1>1, CountedUsers DEF LeastRecent, Users, BufInv
<1>3. valid[b] = 1 => data[b] = disk[blockno[b]]
  <2>1. lock[b] = None
    BY <1>2 DEF BufInv, CacheInv, TypeOK, UseInv
  <2> QED BY <1>2, <2>1 DEF BufInv, CleanInv
<1>4. ASSUME NEW m \in Block
      PROVE  Store'[m] = Store[m]
  <2>1. CASE \E c \in Buf \ {b} : Filled(c, m)
    <3>1. PICK c \in Buf \ {b} : Filled(c, m)
      BY <2>1
    <3>2. Filled(c, m)' /\ data'[c] = data[c]
      BY <1>1, <3>1 DEF BgetRecycle, Filled
    <3> QED BY <3>1, <3>2 DEF Mapped
  <2>2. CASE \A c \in Buf \ {b} : ~Filled(c, m)
    <3>1. Store'[m] = disk[m]
      BY <1>1, <2>2 DEF BgetRecycle, Mapped, Filled, BufInv, CacheInv, TypeOK
    <3>2. Store[m] = disk[m]
      BY <1>3, <2>2 DEF Mapped, Filled
    <3> QED BY <3>1, <3>2
  <2> QED BY <2>1, <2>2
<1>5. Store' = Store
  BY <1>4 DEF Mapped
<1>6. \A q \in Proc, m \in Block : HasBlock(q, m)' <=> HasBlock(q, m)
  BY DEF BgetRecycle, Chosen, HasBlock
<1>7. Owner' = Owner
  BY <1>6, OwnerKept
<1> QED BY <1>5, <1>7 DEF AbstractStep, Abstract!svars

\* bwrite() writes what the block contains anyway.
LEMMA BwriteStep ==
  ASSUME BufInv, Mapped, Mapped', NEW p \in Proc, NEW b \in Buf, Bwrite(p, b)
  PROVE  AbstractStep
<1> USE DEF Bwrite, Holds, bufVars, procVars, BufInv, CacheInv, TypeOK
<1>1. Filled(b, blockno[b]) /\ blockno[b] \in Block
  BY DEF CleanInv, Filled
<1>2. ASSUME NEW m \in Block
      PROVE  Store'[m] = Store[m]
  <2>1. CASE \E c \in Buf : Filled(c, m)
    BY <2>1 DEF Mapped, Filled
  <2>2. CASE \A c \in Buf : ~Filled(c, m)
    BY <1>1, <2>2 DEF Mapped, Filled
  <2> QED BY <2>1, <2>2
<1>3. Store' = Store
  BY <1>2 DEF Mapped
<1>4. Owner' = Owner
  BY DEF Owner
<1> QED BY <1>3, <1>4 DEF AbstractStep, Abstract!svars

\* bread() returns the block with its contents, and it had no owner.
LEMMA BreadStep ==
  ASSUME BufInv, Mapped, Mapped', NEW p \in Proc, Bread(p)
  PROVE  AbstractStep
<1> USE DEF Bread, BufInv, CacheInv, TypeOK
<1>1. PICK n \in Block, b \in Buf : n = want[p] /\ b = target[p] /\ blockno[b] = n
  BY DEF UseInv
<1>2. \A q \in Proc : ~HasBlock(q, n)
  BY <1>1, OneHolder DEF HasBlock
<1>3. Owner' = [Owner EXCEPT ![n] = p]
  <2>1. \A m \in Block : Owner'[m] = IF m = n THEN p ELSE Owner[m]
    BY <1>1 DEF Mapped, HasBlock
  <2> QED BY <2>1 DEF Mapped
<1>4. ASSUME NEW m \in Block
      PROVE  Store'[m] = Store[m]
  <2>1. CASE \E c \in Buf \ {b} : Filled(c, m)
    BY <2>1 DEF Mapped, Filled
  <2>2. CASE (\A c \in Buf \ {b} : ~Filled(c, m)) /\ m # n
    <3>1. \A c \in Buf : ~Filled(c, m) /\ ~Filled(c, m)'
      BY <1>1, <2>2 DEF Filled
    <3> QED BY <3>1 DEF Mapped
  <2>3. CASE (\A c \in Buf \ {b} : ~Filled(c, m)) /\ m = n
    BY <1>1, <2>3 DEF Mapped, Filled
  <2> QED BY <2>1, <2>2, <2>3
<1>5. Store' = Store
  BY <1>4 DEF Mapped
<1>6. Owner[n] = None
  BY <1>2 DEF Mapped
<1> QED BY <1>3, <1>5, <1>6 DEF AbstractStep, Abstract!SNext, Abstract!Take

\* The owner of a block changes it, and no other block.
LEMMA ModifyStep ==
  ASSUME BufInv, Mapped, Mapped', NEW p \in Proc, NEW b \in Buf, NEW v \in Value, Modify(p, b, v)
  PROVE  AbstractStep
<1> USE DEF Modify, Holds, procVars, BufInv, CacheInv, TypeOK
<1>1. PICK n \in Block : n = want[p] /\ Filled(b, n)
  BY DEF UseInv, CleanInv, Filled
<1>2. \A m \in Block : Store'[m] = IF m = n THEN v ELSE Store[m]
  <2>1. Store'[n] = v
    BY <1>1 DEF Mapped, Filled
  <2>2. ASSUME NEW m \in Block \ {n}
        PROVE  Store'[m] = Store[m]
    <3>1. CASE \E c \in Buf : Filled(c, m)
      BY <1>1, <3>1 DEF Mapped, Filled
    <3>2. CASE \A c \in Buf : ~Filled(c, m)
      BY <3>2 DEF Mapped, Filled
    <3> QED BY <3>1, <3>2
  <2> QED BY <2>1, <2>2
<1>3. Store' = [Store EXCEPT ![n] = v]
  BY <1>2 DEF Mapped
<1>4. Owner' = Owner
  BY DEF Owner
<1>5. Owner[n] = p
  BY <1>1 DEF Mapped, HasBlock
<1> QED BY <1>3, <1>4, <1>5 DEF AbstractStep, Abstract!SNext, Abstract!Update

\* brelse() gives the block up.
LEMMA ReleasesleepStep ==
  ASSUME BufInv, Mapped, Mapped', NEW p \in Proc, NEW b \in Buf, Releasesleep(p, b)
  PROVE  AbstractStep
<1> USE DEF Releasesleep, Holds, bufVars, BufInv, CacheInv, TypeOK
<1>1. PICK n \in Block : n = want[p]
  BY DEF UseInv
<1>2. \A q \in Proc : HasBlock(q, n) => q = p
  BY <1>1, OneHolder DEF HasBlock
<1>3. Owner' = [Owner EXCEPT ![n] = None]
  <2>1. \A q \in Proc, m \in Block : HasBlock(q, m)' <=> HasBlock(q, m) /\ q # p
    BY DEF HasBlock
  <2>2. \A m \in Block : Owner'[m] = IF m = n THEN None ELSE Owner[m]
    <3> SUFFICES ASSUME NEW m \in Block PROVE Owner'[m] = IF m = n THEN None ELSE Owner[m]
      OBVIOUS
    <3>1. CASE m = n
      BY <1>2, <2>1, <3>1 DEF Mapped
    <3>2. CASE m # n /\ \E q \in Proc : HasBlock(q, m)
      BY <1>1, <2>1, <3>2 DEF Mapped, HasBlock
    <3>3. CASE m # n /\ \A q \in Proc : ~HasBlock(q, m)
      BY <2>1, <3>3 DEF Mapped
    <3> QED BY <3>1, <3>2, <3>3
  <2> QED BY <2>2 DEF Mapped
<1>4. Store' = Store
  BY StoreKept
<1>5. Owner[n] = p
  BY <1>1 DEF Mapped, HasBlock
<1> QED BY <1>3, <1>4, <1>5 DEF AbstractStep, Abstract!SNext, Abstract!Give

\* The buffer cache implements BlockStore for any number of processes, blocks
\* and buffers: hits, recycling, reads, writes and pins never change what a
\* block contains, and a block has one owner, who alone changes it.
THEOREM CacheIsBlockStore == Spec => IsBlockStore
<1>1. Init => Abstract!SInit
  <2> SUFFICES ASSUME Init PROVE Abstract!SInit
    OBVIOUS
  <2>1. Store = disk
    BY DEF Init, Store
  <2>2. Owner = [n \in Block |-> None]
    BY DEF Init, Owner
  <2> QED BY <2>1, <2>2 DEF Init, Abstract!SInit
<1>2. (BufInv => Mapped)'
  BY Unambiguous, PTL
<1>3. BufInv /\ [Next]_vars => [Abstract!SNext]_(Abstract!svars)
  <2> SUFFICES ASSUME BufInv, [Next]_vars PROVE AbstractStep
    BY DEF AbstractStep
  <2>1. Mapped /\ Mapped'
    BY <1>2, Unambiguous, NextKeeps
  <2>2. CASE UNCHANGED vars
    BY <2>2 DEF vars, Store, Owner, AbstractStep, Abstract!svars
  <2>3. CASE Next
    BY <2>1, <2>3, QuietStep, RecycleStep, BwriteStep, BreadStep, ModifyStep, ReleasesleepStep
    DEF Next, Step
  <2> QED BY <2>2, <2>3
<1> QED BY <1>1, <1>3, BuffersInvariant, PTL DEF Spec, IsBlockStore, Abstract!SSpec

=============================================================================
