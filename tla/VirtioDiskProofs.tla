-------------------------- MODULE VirtioDiskProofs --------------------------
(***************************************************************************)
(* Proofs about VirtioDisk for any number of processes and descriptors and *)
(* any width of the indexes.                                               *)
(***************************************************************************)
EXTENDS VirtioDiskLemmas, FiniteSetTheorems

\* The facts of counting, from the library.
LEMMA FiniteSetFacts == Counting
<1>1. \A S : IsFiniteSet(S) => Cardinality(S) \in Nat /\ (Cardinality(S) = 0 <=> S = {})
  BY FS_CardinalityType, FS_EmptySet
<1>2. \A S : IsFiniteSet(S) =>
        \A x \in S : IsFiniteSet(S \ {x}) /\ Cardinality(S \ {x}) = Cardinality(S) - 1
  BY FS_RemoveElement
<1>3. \A S : IsFiniteSet(S) =>
        \A x : x \notin S =>
          IsFiniteSet(S \cup {x}) /\ Cardinality(S \cup {x}) = Cardinality(S) + 1
  BY FS_AddElement
<1>4. \A S : IsFiniteSet(S) => \A T \in SUBSET S : IsFiniteSet(T)
  BY FS_Subset
<1>5. \A n \in Nat : IsFiniteSet(1 .. n) /\ Cardinality(1 .. n) = n
  BY FS_Interval
<1>6. \A n \in Nat : IsFiniteSet(0 .. n - 1) /\ Cardinality(0 .. n - 1) = n
  BY FS_Interval
<1>7. IsFiniteSet({}) /\ Cardinality({}) = 0
  BY FS_EmptySet
<1>8. \A S, T : \A f \in [S -> T] :
        IsFiniteSet(S) /\ IsFiniteSet(T) /\ Cardinality(T) < Cardinality(S) =>
          \E x, y \in S : x # y /\ f[x] = f[y]
  BY FS_PigeonHole
<1>9. ASSUME NEW S \in SUBSET Nat, S # {}
      PROVE  \E x \in S : \A y \in S : x <= y
  <2>1. PICK x \in S : \A y \in S : ~(<<y, x>> \in OpToRel(<, Nat))
    BY <1>9, NatLessThanWellFounded, WFMin, Zenon
  <2>2. \A y \in S : ~(y < x)
    BY <2>1, Zenon DEF OpToRel
  <2> QED BY <2>2
<1>10. SetSizes
  BY <1>1, <1>2, <1>3, <1>4, Zenon DEF SetSizes
<1>11. IntervalSizes /\ PigeonHole /\ LeastNumber
  BY <1>5, <1>6, <1>7, <1>8, <1>9, Zenon DEF IntervalSizes, PigeonHole, LeastNumber
<1> QED BY <1>10, <1>11, Zenon DEF Counting

-----------------------------------------------------------------------------
(* The steps of the device                                                 *)

\* A request that moves from one place to the next stays one of those on
\* their way.
LEMMA MovePlaces ==
  ASSUME Owned, Awaited, OnItsWay' = OnItsWay, UNCHANGED <<chainVars, busy, head>>, pc' = pc
  PROVE  Owned' /\ Awaited'
<1>1. Owners' = Owners /\ info' = info
  BY OwnersSame DEF chainVars
<1> QED BY <1>1 DEF Owned, Awaited

\* A step of the device or of the handler that leaves the processes alone.
LEMMA ControlSame ==
  ASSUME ControlInv, UNCHANGED <<availVars, busy, lock, pc, head>>
  PROVE  ControlInv'
<1>1. Owners' = Owners
  BY OwnersSame
<1> QED BY <1>1 DEF ControlInv, ControlFor, availVars

\* The device reads the avail ring.
LEMMA FetchKeeps ==
  ASSUME QueueInv, Fetch
  PROVE  QueueInv'
<1> USE DEF QueueInv
<1>1. PICK h \in Desc : h = avail[seenIdx % Ring]
  <2>1. seenIdx % Ring \in 0 .. Ring - 1
    <3>1. seenIdx \in Nat
      BY DEF RingTypes, Index
    <3> QED BY <3>1, Sizes
  <2> QED BY <2>1 DEF RingTypes
<1>2. /\ inflight' = inflight \cup {h} /\ seenIdx' = (seenIdx + 1) % Wrap
      /\ UNCHANGED <<finished, avail, availIdx>>
  BY <1>1 DEF Fetch, availVars
<1>3. RingTypes'
  <2>1. (seenIdx + 1) % Wrap \in Index
    BY Sizes DEF RingTypes, Index
  <2> QED BY <1>2, <2>1 DEF Fetch, RingTypes, usedVars
<1>4. ProcTypes'
  BY DEF Fetch, ProcTypes
<1>5. DescTypes' /\ Linked' /\ Separate' /\ CountInv' /\ ControlInv'
  BY DescTypesSame, ChainSame, CountSame, ControlSame DEF Fetch
<1>6. IsTake(AvailQueue', AvailQueue, h)
  <2>1. seenIdx \in 0 .. Wrap - 1 /\ availIdx \in 0 .. Wrap - 1 /\ IsRing(Ring, Wrap)
    BY Sizes DEF RingTypes, Index
  <2>2. avail \in [0 .. Ring - 1 -> Desc] /\ seenIdx # availIdx
    BY DEF RingTypes, Fetch
  <2>3. IsTake(RingSeq(avail, (seenIdx + 1) % Wrap, availIdx, Ring, Wrap), AvailQueue,
               avail[seenIdx % Ring])
    BY <2>1, <2>2, RingGet, Zenon DEF AvailQueue
  <2>4. AvailQueue' = RingSeq(avail, (seenIdx + 1) % Wrap, availIdx, Ring, Wrap)
    BY <1>2 DEF AvailQueue
  <2> QED BY <1>1, <2>3, <2>4
<1>7. UsedQueue' = UsedQueue
  BY UsedSame DEF Fetch, usedVars
<1>8. /\ h \in Range(AvailQueue) /\ Range(AvailQueue') = Range(AvailQueue) \ {h}
      /\ IsInjective(AvailQueue')
  BY <1>6, QueueTypes, TailSet DEF Apart, IsTake
<1>9. OnItsWay' = OnItsWay
  BY <1>2, <1>7, <1>8 DEF OnItsWay
<1>10. Apart'
  BY <1>2, <1>7, <1>8 DEF Apart
<1>11. Owned' /\ Awaited'
  BY <1>9, MovePlaces DEF Fetch
<1>12. DataInv'
  BY <1>7, DataSame DEF Fetch
<1> QED BY <1>3, <1>4, <1>5, <1>10, <1>11, <1>12

\* A request that the device has in hand is one of a process that waits.
LEMMA RequestOf ==
  ASSUME QueueInv, NEW h \in OnItsWay
  PROVE  \E p \in Owners :
           /\ p = info[h] /\ h = head[p] /\ p \in Proc /\ h \in Desc /\ busy[p] = 1
           /\ pc[p] # "notify" /\ pc[p] # "out"
           /\ addr[next[h]] = p /\ ops[h] = Request(p)
           /\ \A q \in Owners \ {p} : head[q] # h
<1>1. PICK p \in Owners : p = info[h] /\ h = head[p]
  BY DEF QueueInv, Owned
<1>2. p \in Proc /\ h \in Desc
  BY <1>1 DEF Owners, QueueInv, ProcTypes
<1>3. busy[p] = 1 /\ pc[p] # "notify"
  BY <1>1 DEF QueueInv, Awaited
<1>4. pc[p] # "out"
  BY <1>2 DEF QueueInv, ControlInv, ControlFor
<1>5. addr[next[h]] = p /\ ops[h] = Request(p)
  BY <1>1 DEF QueueInv, Linked, LinkedFor, Mid
<1>6. \A q \in Owners \ {p} : head[q] # h
  BY <1>1 DEF QueueInv, Linked, LinkedFor
<1> QED BY <1>1, <1>2, <1>3, <1>4, <1>5, <1>6, Zenon

\* The device moves the data.
LEMMA TransferKeeps ==
  ASSUME QueueInv, NEW h \in Desc, Transfer(h)
  PROVE  QueueInv'
<1> USE DEF QueueInv
<1>1. h \in inflight /\ h \in OnItsWay
  BY DEF Transfer, OnItsWay
<1>2. PICK p \in Owners :
        /\ h = head[p] /\ p \in Proc /\ busy[p] = 1 /\ pc[p] # "out"
        /\ addr[next[h]] = p /\ ops[h] = Request(p)
        /\ \A q \in Owners \ {p} : head[q] # h
  BY <1>1, RequestOf
<1>3. inflight' = inflight \ {h} /\ finished' = finished \cup {h}
  BY DEF Transfer
<1>4. UNCHANGED <<pc, write, busy, head>>
  BY DEF Transfer
<1>5. \/ write[p] = None /\ data' = [data EXCEPT ![p] = disk[p]] /\ disk' = disk
      \/ /\ write[p] # None /\ data[p] # None
         /\ disk' = [disk EXCEPT ![p] = data[p]] /\ data' = data
  <2>1. /\ Request(p).sector = p
        /\ Request(p).type = IF write[p] = None THEN "in" ELSE "out"
    BY DEF Request
  <2> QED BY <1>2, <2>1 DEF Transfer
<1>6. disk \in [Proc -> Value] /\ data \in [Proc -> Value \cup {None}]
  BY DEF ProcTypes
<1>7. ProcTypes'
  <2>1. disk' \in [Proc -> Value] /\ data' \in [Proc -> Value \cup {None}]
    BY <1>2, <1>5, <1>6
  <2> QED BY <2>1 DEF Transfer, ProcTypes
<1>8. RingTypes'
  BY <1>3 DEF Transfer, RingTypes, availVars, usedVars
<1>9. DescTypes'
  BY DEF Transfer, DescTypes, chainVars
<1>10. Linked' /\ Separate' /\ CountInv' /\ ControlInv'
  BY ChainSame, CountSame, ControlSame DEF Transfer
<1>11. AvailQueue' = AvailQueue /\ UsedQueue' = UsedQueue
  BY AvailSame, UsedSame DEF Transfer, availVars, usedVars
<1>12. OnItsWay' = OnItsWay
  BY <1>1, <1>3, <1>11 DEF OnItsWay
<1>13. Apart'
  BY <1>1, <1>3, <1>11 DEF Apart
<1>14. Owned' /\ Awaited'
  BY <1>12, MovePlaces DEF Transfer
<1>15. Owners' = Owners
  BY <1>4, OwnersSame
<1>16. DataInv'
  <2>1. h \notin finished \cup Range(UsedQueue)
    BY <1>1 DEF Apart
  <2>2. Moved(p)' /\ ~Moved(p)
    BY <1>2, <1>3, <1>4, <1>15, <2>1 DEF Moved
  <2>3. DataFor(p)
    BY <1>2 DEF DataInv
  <2>4. write[p] \in {None, data[p]}
    BY <1>2, <2>2, <2>3 DEF DataFor
  <2>5. data'[p] = disk'[p] /\ write[p] \in {None, disk'[p]}
    BY <1>2, <1>5, <1>6, <2>4
  <2>6. DataFor(p)'
    BY <1>4, <2>2, <2>5 DEF DataFor
  <2>7. ASSUME NEW q \in Proc, q # p
        PROVE  DataFor(q)'
    <3>1. Moved(q)' = Moved(q)
      BY <1>2, <1>3, <1>4, <1>11, <1>15, <2>7 DEF Moved
    <3>2. disk'[q] = disk[q] /\ data'[q] = data[q]
      BY <1>5, <1>6, <2>7
    <3>3. DataFor(q)
      BY DEF DataInv
    <3> QED BY <1>4, <3>1, <3>2, <3>3 DEF DataFor
  <2> QED BY <2>6, <2>7 DEF DataInv
<1> QED BY <1>7, <1>8, <1>9, <1>10, <1>13, <1>14, <1>16

\* The device puts a request into the used ring.
LEMMA CompleteKeeps ==
  ASSUME QueueInv, NEW h \in Desc, Complete(h)
  PROVE  QueueInv'
<1> USE DEF QueueInv
<1>1. h \in finished /\ h \in OnItsWay
  BY DEF Complete, OnItsWay
<1>2. h \notin Range(UsedQueue)
  BY <1>1 DEF Apart
<1>3. used' = [used EXCEPT ![usedIdx % Ring] = h] /\ usedIdx' = (usedIdx + 1) % Wrap
  BY DEF Complete
<1>4. finished' = finished \ {h} /\ UNCHANGED <<inflight, used_idx>>
  BY DEF Complete
<1>5. used \in [0 .. Ring - 1 -> Desc] /\ used' \in [0 .. Ring - 1 -> Desc]
  <2>1. used \in [0 .. Ring - 1 -> Desc]
    BY DEF RingTypes
  <2> QED BY <1>3, <2>1, Zenon
<1>6. RingTypes'
  <2>1. (usedIdx + 1) % Wrap \in Index
    BY Sizes DEF RingTypes, Index
  <2> QED BY <1>5, <2>1 DEF Complete, RingTypes, availVars
<1>7. ProcTypes'
  BY DEF Complete, ProcTypes
<1>8. DescTypes' /\ Linked' /\ Separate' /\ CountInv' /\ ControlInv'
  BY DescTypesSame, ChainSame, CountSame, ControlSame DEF Complete
<1>9. AvailQueue' = AvailQueue
  BY AvailSame DEF Complete, availVars
<1>10. IsPut(UsedQueue', UsedQueue, h)
  <2>1. PICK p \in Owners : h = head[p]
    BY <1>1 DEF Owned
  <2>2. (usedIdx - used_idx) % Wrap < Ring
    BY <1>2, <2>1, RoomForOne, FiniteSetFacts
  <2>3. used_idx \in 0 .. Wrap - 1 /\ usedIdx \in 0 .. Wrap - 1 /\ IsRing(Ring, Wrap)
    BY Sizes DEF RingTypes, Index
  <2>4. usedIdx % Ring \in 0 .. Ring - 1
    BY <2>3, Sizes
  <2>5. Writes(used, used', usedIdx % Ring, Ring) /\ used'[usedIdx % Ring] = h
    BY <1>3, <1>5, <2>4 DEF Writes
  <2>6. IsPut(RingSeq(used', used_idx, (usedIdx + 1) % Wrap, Ring, Wrap), UsedQueue,
              used'[usedIdx % Ring])
    BY <1>5, <2>2, <2>3, <2>5, RingPut, Zenon DEF UsedQueue
  <2>7. UsedQueue' = RingSeq(used', used_idx, (usedIdx + 1) % Wrap, Ring, Wrap)
    BY <1>3, <1>4 DEF UsedQueue
  <2> QED BY <2>5, <2>6, <2>7
<1>11. Range(UsedQueue') = Range(UsedQueue) \cup {h} /\ IsInjective(UsedQueue')
  <2>1. UsedQueue \in Seq(Desc) /\ IsInjective(UsedQueue) /\ UsedQueue' = Append(UsedQueue, h)
    BY <1>10, QueueTypes DEF Apart, IsPut
  <2> QED BY <1>2, <2>1, AppendSet
<1>12. OnItsWay' = OnItsWay
  BY <1>1, <1>4, <1>9, <1>11 DEF OnItsWay
<1>13. Apart'
  BY <1>1, <1>4, <1>9, <1>11 DEF Apart
<1>14. Owned' /\ Awaited'
  BY <1>12, MovePlaces DEF Complete
<1>15. DataInv'
  <2>1. finished' \cup Range(UsedQueue') = finished \cup Range(UsedQueue)
    BY <1>1, <1>4, <1>11
  <2>2. UNCHANGED <<pc, write, busy, head, data, disk>> /\ Owners' = Owners
    BY OwnersSame DEF Complete
  <2>3. \A q \in Proc : Moved(q)' = Moved(q)
    BY <2>1, <2>2 DEF Moved
  <2> QED BY <2>2, <2>3 DEF DataInv, DataFor
<1> QED BY <1>6, <1>7, <1>8, <1>13, <1>14, <1>15

-----------------------------------------------------------------------------
(* The steps of virtio_disk_intr()                                         *)

\* A request leaves those on their way, and its buffer is no longer busy.
LEMMA DonePlaces ==
  ASSUME Apart, Owned, Awaited, NEW p \in Owners, NEW h, h = head[p], h \in Range(UsedQueue),
         Range(UsedQueue') = Range(UsedQueue) \ {h}, IsInjective(UsedQueue'),
         AvailQueue' = AvailQueue, UNCHANGED <<inflight, finished>>, UNCHANGED <<info, head>>,
         busy'[p] = 0,
         \A q \in Owners \ {p} : head[q] # h /\ busy'[q] = busy[q] /\ pc'[q] = pc[q]
  PROVE  Apart' /\ Owned' /\ Awaited'
<1>1. Owners' = Owners
  BY OwnersSame
<1>2. OnItsWay' = OnItsWay \ {h}
  BY DEF OnItsWay, Apart
<1>3. Apart'
  BY DEF Apart
<1>4. Owned'
  BY <1>1, <1>2 DEF Owned
<1>5. Awaited'
  BY <1>1, <1>2 DEF Awaited
<1> QED BY <1>3, <1>4, <1>5

\* virtio_disk_intr() acknowledges the interrupt,
LEMMA IntrAckKeeps ==
  ASSUME QueueInv, IntrAck
  PROVE  QueueInv'
<1>1. ProcTypes'
  BY DEF IntrAck, QueueInv, ProcTypes
<1>2. ControlInv'
  <2>1. Owners' = Owners
    BY OwnersSame DEF IntrAck
  <2>2. \A q \in Proc : lock # q /\ lock' # q
    BY VirtioAssumption DEF IntrAck
  <2> QED BY <2>1, <2>2 DEF IntrAck, QueueInv, ControlInv, ControlFor, availVars
<1> QED BY <1>1, <1>2, QuietKeeps DEF IntrAck

\* The buffer of the request is done, and its process is woken up.
LEMMA IntrEntryIs ==
  ASSUME IntrEntry, NEW p, p = info[used[used_idx % Ring]]
  PROVE  /\ busy' = [busy EXCEPT ![p] = 0]
         /\ pc' = [pc EXCEPT ![p] = IF pc[p] = "wait_sleep" THEN "wait" ELSE pc[p]]
BY Zenon DEF IntrEntry

\* One process is woken up.
LEMMA WakesOne ==
  ASSUME ProcTypes, NEW p \in Proc, busy' = [busy EXCEPT ![p] = 0],
         pc' = [pc EXCEPT ![p] = IF pc[p] = "wait_sleep" THEN "wait" ELSE pc[p]]
  PROVE  /\ busy' \in [Proc -> {0, 1}] /\ pc' \in [Proc -> Place] /\ busy'[p] = 0
         /\ pc'[p] = pc[p] \/ (pc[p] = "wait_sleep" /\ pc'[p] = "wait")
         /\ \A q \in Proc \ {p} : busy'[q] = busy[q] /\ pc'[q] = pc[q]
<1>1. busy \in [Proc -> {0, 1}] /\ pc \in [Proc -> Place]
  BY DEF ProcTypes
<1>2. busy' \in [Proc -> {0, 1}] /\ busy'[p] = 0 /\ \A q \in Proc \ {p} : busy'[q] = busy[q]
  BY <1>1
<1>3. PICK w \in Place : /\ pc' = [pc EXCEPT ![p] = w]
                         /\ w = pc[p] \/ (pc[p] = "wait_sleep" /\ w = "wait")
  BY <1>1, Zenon DEF Place
<1>4. pc' \in [Proc -> Place] /\ pc'[p] = w /\ \A q \in Proc \ {p} : pc'[q] = pc[q]
  BY <1>1, <1>3
<1> QED BY <1>2, <1>3, <1>4

\* A process whose request is done still has it,
LEMMA DoneControl ==
  ASSUME ControlInv, NEW p \in Proc, p \in Owners, pc[p] # "notify", busy'[p] = 0,
         pc'[p] = pc[p] \/ (pc[p] = "wait_sleep" /\ pc'[p] = "wait"),
         \A q \in Proc \ {p} : busy'[q] = busy[q] /\ pc'[q] = pc[q],
         UNCHANGED <<avail, availIdx, head, lock>>
  PROVE  ControlInv'
<1>1. Owners' = Owners
  BY OwnersSame
<1>2. ControlFor(p)'
  BY <1>1 DEF ControlInv, ControlFor
<1>3. ASSUME NEW q \in Proc \ {p}
      PROVE  ControlFor(q)'
  <2>1. ControlFor(q) /\ busy'[q] = busy[q] /\ pc'[q] = pc[q]
    BY DEF ControlInv
  <2> QED BY <1>1, <2>1 DEF ControlFor
<1> QED BY <1>2, <1>3 DEF ControlInv

\* and its data stays where it is.
LEMMA DoneData ==
  ASSUME DataInv, NEW p \in Proc, p \in Owners, pc[p] # "out", busy'[p] = 0,
         head[p] \in Range(UsedQueue), Range(UsedQueue') = Range(UsedQueue) \ {head[p]},
         \A q \in Owners \ {p} : head[q] # head[p],
         \A q \in Proc \ {p} : busy'[q] = busy[q] /\ pc'[q] = pc[q],
         UNCHANGED <<finished, head, disk, data, write>>
  PROVE  DataInv'
<1>1. Owners' = Owners
  BY OwnersSame
<1>2. Moved(p) /\ Moved(p)'
  BY <1>1 DEF Moved
<1>3. DataFor(p)'
  BY <1>2 DEF DataInv, DataFor
<1>4. ASSUME NEW q \in Proc \ {p}
      PROVE  DataFor(q)'
  <2>1. DataFor(q) /\ busy'[q] = busy[q] /\ pc'[q] = pc[q]
    BY DEF DataInv
  <2>2. Moved(q)' = Moved(q)
    BY <1>1, <2>1 DEF Moved
  <2> QED BY <2>1, <2>2 DEF DataFor
<1> QED BY <1>3, <1>4 DEF DataInv

\* handles an entry of the used ring,
LEMMA IntrEntryKeeps ==
  ASSUME QueueInv, IntrEntry
  PROVE  QueueInv'
<1> USE DEF QueueInv
<1>1. PICK h \in Desc : h = used[used_idx % Ring]
  <2>1. used_idx % Ring \in 0 .. Ring - 1
    <3>1. used_idx \in Nat
      BY DEF RingTypes, Index
    <3> QED BY <3>1, Sizes
  <2> QED BY <2>1 DEF RingTypes
<1>2. used_idx' = (used_idx + 1) % Wrap /\ UNCHANGED <<used, usedIdx, inflight, finished>>
  BY Zenon DEF IntrEntry, usedVars, deviceVars
<1>3. UNCHANGED <<avail, availIdx, info, head, lock>> /\ UNCHANGED <<disk, data, write>>
  BY Zenon DEF IntrEntry, availVars, chainVars
<1>4. IsTake(UsedQueue', UsedQueue, h)
  <2>1. used_idx \in 0 .. Wrap - 1 /\ usedIdx \in 0 .. Wrap - 1 /\ IsRing(Ring, Wrap)
    BY Sizes DEF RingTypes, Index
  <2>2. used \in [0 .. Ring - 1 -> Desc] /\ used_idx # usedIdx
    BY Zenon DEF RingTypes, IntrEntry
  <2>3. IsTake(RingSeq(used, (used_idx + 1) % Wrap, usedIdx, Ring, Wrap), UsedQueue,
               used[used_idx % Ring])
    BY <2>1, <2>2, RingGet, Zenon DEF UsedQueue
  <2>4. UsedQueue' = RingSeq(used, (used_idx + 1) % Wrap, usedIdx, Ring, Wrap)
    BY <1>2, Zenon DEF UsedQueue
  <2> QED BY <1>1, <2>3, <2>4, Zenon
<1>5. /\ h \in Range(UsedQueue) /\ Range(UsedQueue') = Range(UsedQueue) \ {h}
      /\ IsInjective(UsedQueue')
  BY <1>4, QueueTypes, TailSet DEF Apart, IsTake
<1>6. PICK p \in Owners :
        /\ p = info[h] /\ h = head[p] /\ p \in Proc /\ pc[p] # "notify" /\ pc[p] # "out"
        /\ \A q \in Owners \ {p} : head[q] # h
  <2>1. h \in OnItsWay
    BY <1>5 DEF OnItsWay
  <2> QED BY <2>1, RequestOf
<1>7. /\ p \in Proc /\ pc[p] # "notify" /\ pc[p] # "out"
      /\ h = head[p] /\ \A q \in Owners \ {p} : head[q] # h
  BY <1>6, Zenon
<1>8. /\ busy' \in [Proc -> {0, 1}] /\ pc' \in [Proc -> Place] /\ busy'[p] = 0
      /\ pc'[p] = pc[p] \/ (pc[p] = "wait_sleep" /\ pc'[p] = "wait")
      /\ \A q \in Proc \ {p} : busy'[q] = busy[q] /\ pc'[q] = pc[q]
  <2>1. p = info[used[used_idx % Ring]]
    BY <1>1, <1>6, Zenon
  <2> QED BY <1>7, <2>1, IntrEntryIs, WakesOne, Zenon
<1>9. RingTypes'
  <2>1. (used_idx + 1) % Wrap \in Index
    BY Sizes DEF RingTypes, Index
  <2>2. /\ UNCHANGED <<avail, availIdx, seenIdx, inflight, finished>>
        /\ UNCHANGED <<used, usedIdx>>
    BY Zenon DEF IntrEntry, availVars, usedVars, deviceVars
  <2> QED BY <1>2, <2>1, <2>2 DEF RingTypes
<1>10. ProcTypes'
  <2>1. irq' = irq
    BY Zenon DEF IntrEntry
  <2> QED BY <1>3, <1>8, <2>1 DEF ProcTypes
<1>11. DescTypes' /\ Linked' /\ Separate' /\ CountInv'
  <2>1. UNCHANGED <<chainVars, status, write, head>>
    BY Zenon DEF IntrEntry
  <2> QED BY <2>1, DescTypesSame, ChainSame, CountSame
<1>12. ControlInv'
  BY <1>3, <1>7, <1>8, DoneControl
<1>13. AvailQueue' = AvailQueue
  <2>1. UNCHANGED <<availVars, deviceVars>>
    BY Zenon DEF IntrEntry
  <2> QED BY <2>1, AvailSame DEF availVars, deviceVars
<1>14. Apart' /\ Owned' /\ Awaited'
  <2>1. \A q \in Owners \ {p} : head[q] # h /\ busy'[q] = busy[q] /\ pc'[q] = pc[q]
    BY <1>7, <1>8 DEF Owners
  <2> QED BY <1>2, <1>3, <1>5, <1>7, <1>8, <1>13, <2>1, DonePlaces
<1>15. DataInv'
  BY <1>2, <1>3, <1>5, <1>7, <1>8, DoneData
<1> QED BY <1>9, <1>10, <1>11, <1>12, <1>14, <1>15

\* and returns.
LEMMA IntrDoneKeeps ==
  ASSUME QueueInv, IntrDone
  PROVE  QueueInv'
<1>1. ProcTypes'
  BY DEF IntrDone, QueueInv, ProcTypes
<1>2. ControlInv'
  <2>1. Owners' = Owners
    BY OwnersSame DEF IntrDone
  <2>2. \A q \in Proc : lock # q /\ lock' # q
    BY VirtioAssumption DEF IntrDone
  <2> QED BY <2>1, <2>2 DEF IntrDone, QueueInv, ControlInv, ControlFor, availVars
<1> QED BY <1>1, <1>2, QuietKeeps DEF IntrDone

-----------------------------------------------------------------------------
(* The theorems                                                            *)

\* The invariant holds at first.
LEMMA InitKeeps ==
  ASSUME Init
  PROVE  QueueInv
<1>1. 0 \in Index /\ 0 \in Desc
  BY VirtioAssumption DEF Index, Desc
<1>2. DescTypes /\ RingTypes
  BY <1>1 DEF Init, DescTypes, RingTypes
<1>3. ProcTypes
  BY DEF Init, ProcTypes, Place
<1>4. Owners = {}
  BY DEF Init, Owners
<1>5. AvailQueue = <<>> /\ UsedQueue = <<>>
  <2>1. (0 - 0) % Wrap = 0
    BY Sizes
  <2>2. Len(AvailQueue) = 0 /\ Len(UsedQueue) = 0
    BY <1>2, <2>1, QueueTypes DEF Init
  <2> QED BY <1>2, <2>2, QueueTypes
<1>6. Range(AvailQueue) = {} /\ Range(UsedQueue) = {}
  BY <1>5 DEF Range
<1>7. Linked /\ Separate
  BY <1>4 DEF Linked, Separate
<1>8. CountInv
  <2>1. Cardinality(free) = NUM
    <3>1. Cardinality(0 .. NUM - 1) = IF 0 > NUM - 1 THEN 0 ELSE (NUM - 1) - 0 + 1
      BY Sizes, FS_Interval
    <3> QED BY <3>1, VirtioAssumption DEF Init, Desc
  <2> QED BY <1>4, <2>1, Sizes, FS_EmptySet DEF CountInv
<1>9. ControlInv
  BY <1>4, VirtioAssumption DEF Init, ControlInv, ControlFor
<1>10. OnItsWay = {} /\ Apart
  BY <1>5, <1>6 DEF Init, OnItsWay, Apart, IsInjective
<1>11. Owned /\ Awaited
  BY <1>4, <1>10 DEF Owned, Awaited
<1>12. DataInv
  BY DEF Init, DataInv, DataFor
<1> QED BY <1>2, <1>3, <1>7, <1>8, <1>9, <1>10, <1>11, <1>12 DEF QueueInv

\* Every step keeps the invariant.
LEMMA NextKeeps ==
  ASSUME QueueInv, Next
  PROVE  QueueInv'
<1>1. ASSUME NEW p \in Proc, Step(p)
      PROVE  QueueInv'
  BY <1>1, Alloc3Keeps, Alloc3FailsKeeps, NotifyKeeps, ReacquireKeeps, SleepKeeps,
     FinishKeeps, FiniteSetFacts DEF Step
<1>2. ASSUME NEW p \in Proc, NEW v \in Value, Call(p, None, v) \/ Call(p, v, v)
      PROVE  QueueInv'
  BY <1>2, CallKeeps
<1>3. ASSUME Device
      PROVE  QueueInv'
  BY <1>3, FetchKeeps, TransferKeeps, CompleteKeeps DEF Device
<1>4. ASSUME Handler
      PROVE  QueueInv'
  BY <1>4, IntrAckKeeps, IntrEntryKeeps, IntrDoneKeeps DEF Handler
<1> QED BY <1>1, <1>2, <1>3, <1>4, KillKeeps DEF Next

\* The invariant of the queue: three descriptors a request, no request twice
\* in the rings (alloc3_desc(), virtio_disk_rw(), virtio_disk_intr()).
THEOREM QueueInvariant == Spec => []QueueInv
<1>1. Init => QueueInv
  BY InitKeeps
<1>2. QueueInv /\ [Next]_vars => QueueInv'
  <2> SUFFICES ASSUME QueueInv, [Next]_vars PROVE QueueInv'
    OBVIOUS
  <2>1. CASE UNCHANGED vars
    <3>1. /\ UNCHANGED <<chainVars, status, availVars, usedVars, used_idx, deviceVars>>
          /\ UNCHANGED <<disk, data, busy, write, head>> /\ UNCHANGED <<pc, lock, irq>>
      BY <2>1 DEF vars, chainVars, availVars, usedVars, deviceVars
    <3>2. ProcTypes'
      BY <3>1 DEF QueueInv, ProcTypes
    <3>3. ControlInv'
      BY <3>1, ControlSame DEF QueueInv
    <3> QED BY <3>1, <3>2, <3>3, QuietKeeps
  <2>2. CASE Next
    BY <2>2, NextKeeps
  <2> QED BY <2>1, <2>2
<1> QED BY <1>1, <1>2, PTL DEF Spec

\* The descriptors are divided between the requests and the free list, and
\* b->disk is set exactly while a request is on its way (virtio_disk_rw(),
\* free_desc(), virtio_disk_intr()).
THEOREM QueueSafe == Spec => []DiskInv
<1>1. QueueInv => DiskInv
  <2> SUFFICES ASSUME QueueInv PROVE DiskInv
    OBVIOUS
  <2>1. TypeOK
    BY DEF QueueInv, DescTypes, RingTypes, ProcTypes, Place, TypeOK
  <2>2. DescriptorsDivided
    <3>1. \A p \in Owners : Chain(head[p]) = Parts(p) /\ Cardinality(Parts(p)) = 3
      BY ChainIsParts, PartsCounted, FiniteSetFacts DEF QueueInv
    <3>2. /\ \A p \in Owners : Parts(p) \cap free = {}
          /\ \A p, q \in Owners : p # q => Parts(p) \cap Parts(q) = {}
      BY DEF QueueInv, Separate
    <3>3. Cardinality(free) + 3 * Cardinality(Owners) = NUM
      BY DEF QueueInv, CountInv
    <3> QED BY <3>1, <3>2, <3>3, Zenon DEF DescriptorsDivided
  <2>3. Submitted \cup Unseen = OnItsWay
    <3>1. /\ seenIdx \in 0 .. Wrap - 1 /\ availIdx \in 0 .. Wrap - 1 /\ IsRing(Ring, Wrap)
          /\ used_idx \in 0 .. Wrap - 1 /\ usedIdx \in 0 .. Wrap - 1
          /\ avail \in [0 .. Ring - 1 -> Desc] /\ used \in [0 .. Ring - 1 -> Desc]
      BY Sizes DEF QueueInv, RingTypes, Index
    <3>2. IsWindow(Range(AvailQueue), avail, seenIdx, (availIdx - seenIdx) % Wrap, Ring)
      BY <3>1, RingSet, Zenon DEF AvailQueue
    <3>3. IsWindow(Range(UsedQueue), used, used_idx, (usedIdx - used_idx) % Wrap, Ring)
      BY <3>1, RingSet, Zenon DEF UsedQueue
    <3>4. Submitted = Range(AvailQueue) \cup inflight \cup finished
      BY <3>2 DEF Submitted, IsWindow
    <3>5. Unseen = Range(UsedQueue)
      BY <3>3 DEF Unseen, IsWindow
    <3> QED BY <3>4, <3>5 DEF OnItsWay
  <2>4. BusyWhileSubmitted
    BY <2>3 DEF BusyWhileSubmitted, QueueInv, ControlInv, ControlFor, Awaited
  <2> QED BY <2>1, <2>2, <2>4 DEF DiskInv
<1> QED BY <1>1, QueueInvariant, PTL

\* When virtio_disk_rw() finds b->disk cleared, the data has been moved.
THEOREM DataMoved == Spec => []TransferredWhenDone
<1>1. QueueInv => TransferredWhenDone
  BY DEF QueueInv, TransferredWhenDone, DataInv, DataFor, ControlInv, ControlFor, Moved, Owners
<1> QED BY <1>1, QueueInvariant, PTL

=============================================================================
