-------------------------- MODULE VirtioDiskLemmas --------------------------
(***************************************************************************)
(* The inductive invariant of VirtioDisk, what the operators it is built   *)
(* from do, and that the steps of virtio_disk_rw() keep it.                *)
(***************************************************************************)
EXTENDS VirtioDisk, RingLemmas, Functions

-----------------------------------------------------------------------------
(* The inductive invariant                                                 *)

\* The types, in three parts: of the descriptors,
DescTypes ==
  /\ free \subseteq Desc
  /\ addr \in [Desc -> Proc \cup {None}]
  /\ next \in [Desc -> Desc \cup {None}]
  /\ ops \in [Desc -> [type : {"in", "out"}, sector : Proc] \cup {None}]
  /\ info \in [Desc -> Proc \cup {None}]
  /\ status \in [Desc -> {0, 255}]

\* of the rings and the device,
RingTypes ==
  /\ avail \in [0 .. Ring - 1 -> Desc] /\ used \in [0 .. Ring - 1 -> Desc]
  /\ availIdx \in Index /\ usedIdx \in Index /\ used_idx \in Index /\ seenIdx \in Index
  /\ inflight \subseteq Desc /\ finished \subseteq Desc

\* and of the processes.
Place == {"out", "alloc", "alloc_sleep", "notify", "test", "wait", "wait_sleep"}

ProcTypes ==
  /\ irq \in {0, 1}
  /\ disk \in [Proc -> Value] /\ data \in [Proc -> Value \cup {None}]
  /\ busy \in [Proc -> {0, 1}]
  /\ lock \in Proc \cup {Intr, None}
  /\ pc \in [Proc -> Place]
  /\ write \in [Proc -> Value \cup {None}]
  /\ head \in [Proc -> Desc \cup {None}]

\* The entries of the avail ring that the device has not read, and those of
\* the used ring that the handler has not read, oldest first.
AvailQueue == RingSeq(avail, seenIdx, availIdx, Ring, Wrap)
UsedQueue  == RingSeq(used, used_idx, usedIdx, Ring, Wrap)

\* The second and the third descriptor of a request.
Mid(p) == next[head[p]]
End(p) == next[next[head[p]]]

\* The descriptors of p's request.
Parts(p) == {head[p], Mid(p), End(p)}

\* p's request is three descriptors, linked and filled in as p wants it,
LinkedFor(p) ==
  /\ Mid(p) \in Desc /\ End(p) \in Desc /\ next[End(p)] = None
  /\ head[p] # Mid(p) /\ head[p] # End(p) /\ Mid(p) # End(p)
  /\ info[head[p]] = p /\ addr[Mid(p)] = p /\ ops[head[p]] = Request(p)

Linked == \A p \in Owners : LinkedFor(p)

\* and shares none of them.
Separate ==
  /\ \A p \in Owners : Parts(p) \cap free = {}
  /\ \A p, q \in Owners : p # q => Parts(p) \cap Parts(q) = {}

CountInv ==
  /\ IsFiniteSet(Owners)
  /\ Cardinality(free) + 3 * Cardinality(Owners) = NUM

\* Who has a request, who holds vdisk_lock, and whose buffer can be busy.
ControlFor(p) ==
  /\ p \in Owners <=> pc[p] \in {"notify", "test", "wait", "wait_sleep"}
  /\ lock = p <=> pc[p] \in {"notify", "test"}
  /\ busy[p] = 1 => p \in Owners
  /\ pc[p] = "notify" => busy[p] = 1 /\ avail[availIdx % Ring] = head[p]

ControlInv == \A p \in Proc : ControlFor(p)

\* The requests on their way, from the avail ring to the handler.
OnItsWay == Range(AvailQueue) \cup inflight \cup finished \cup Range(UsedQueue)

\* A request is on its way in one place,
Apart ==
  /\ IsInjective(AvailQueue) /\ IsInjective(UsedQueue)
  /\ Range(AvailQueue) \cap (inflight \cup finished \cup Range(UsedQueue)) = {}
  /\ inflight \cap (finished \cup Range(UsedQueue)) = {}
  /\ finished \cap Range(UsedQueue) = {}

\* it is one of a process,
Owned == \A h \in OnItsWay : info[h] \in Owners /\ head[info[h]] = h

\* and it is on its way as long as its buffer is busy.
Awaited ==
  \A p \in Owners : head[p] \in OnItsWay <=> busy[p] = 1 /\ pc[p] # "notify"

\* The device has moved p's data.
Moved(p) == p \in Owners /\ (busy[p] = 0 \/ head[p] \in finished \cup Range(UsedQueue))

\* The buffer holds what is written until it is on the disk, and then the
\* two agree.
DataFor(p) ==
  pc[p] # "out" =>
    IF Moved(p) THEN data[p] = disk[p] /\ write[p] \in {None, disk[p]}
                ELSE write[p] \in {None, data[p]}

DataInv == \A p \in Proc : DataFor(p)

QueueInv ==
  /\ DescTypes /\ RingTypes /\ ProcTypes
  /\ Linked /\ Separate /\ CountInv
  /\ ControlInv
  /\ Apart /\ Owned /\ Awaited
  /\ DataInv

-----------------------------------------------------------------------------
(* Rings as sets                                                           *)

\* The contents as a set.
IsWindow(S, f, lo, d, m) == S = {f[(lo + k) % m] : k \in 0 .. d - 1}

\* The entries of a ring as a set.
LEMMA RingSet ==
  ASSUME NEW B, NEW m, NEW W, IsRing(m, W), NEW lo \in 0 .. W - 1, NEW hi \in 0 .. W - 1,
         NEW f \in [0 .. m - 1 -> B]
  PROVE  IsWindow(Range(RingSeq(f, lo, hi, m, W)), f, lo, (hi - lo) % W, m)
<1> DEFINE d == (hi - lo) % W
           s == RingSeq(f, lo, hi, m, W)
<1>1. d \in Nat /\ lo \in Int
  <2>1. d \in 0 .. W - 1
    BY RingSizes, Distance
  <2> QED BY <2>1, RingSizes
<1>2. s \in Seq(B) /\ Len(s) = d /\ \A i \in 1 .. d : s[i] = f[(lo + i - 1) % m]
  <2>1. Lists(s, B, f, lo, d, m)
    BY RingSeqIs, Zenon
  <2> QED BY <2>1, Zenon DEF Lists
<1> HIDE DEF d, s
<1>3. ASSUME NEW k \in 0 .. d - 1
      PROVE  f[(lo + k) % m] \in Range(s)
  <2>1. k + 1 \in 1 .. d /\ lo + (k + 1) - 1 = lo + k
    BY <1>1
  <2>2. k + 1 \in DOMAIN s
    BY <1>1, <1>2, <2>1
  <2>3. s[k + 1] = f[(lo + k) % m]
    BY <1>2, <2>1
  <2> QED BY <2>2, <2>3, Zenon DEF Range
<1>4. ASSUME NEW x \in Range(s)
      PROVE  \E k \in 0 .. d - 1 : x = f[(lo + k) % m]
  <2>1. PICK i \in DOMAIN s : x = s[i]
    BY Zenon DEF Range
  <2>2. i \in 1 .. d
    BY <1>1, <1>2
  <2>3. i - 1 \in 0 .. d - 1 /\ lo + (i - 1) = lo + i - 1
    BY <1>1, <2>2
  <2> QED BY <1>2, <2>1, <2>2, <2>3
<1>5. {f[(lo + k) % m] : k \in 0 .. d - 1} = Range(s)
  BY <1>3, <1>4, Zenon
<1> QED BY <1>5, Zenon DEF d, s, IsWindow

-----------------------------------------------------------------------------
(* Queues without repetitions                                              *)

\* One more entry in a queue without repetitions,
LEMMA AppendSet ==
  ASSUME NEW B, NEW s \in Seq(B), NEW b \in B
  PROVE  /\ Range(Append(s, b)) = Range(s) \cup {b}
         /\ IsInjective(s) /\ b \notin Range(s) => IsInjective(Append(s, b))
<1> DEFINE t == Append(s, b)
<1>1. /\ DOMAIN s = 1 .. Len(s) /\ DOMAIN t = 1 .. Len(s) + 1 /\ Len(s) \in Nat
      /\ t[Len(s) + 1] = b /\ \A i \in 1 .. Len(s) : t[i] = s[i]
  OBVIOUS
<1> HIDE DEF t
<1>2. Range(t) = Range(s) \cup {b}
  BY <1>1 DEF Range
<1>3. ASSUME IsInjective(s), b \notin Range(s)
      PROVE  IsInjective(t)
  <2>1. \A i, j \in 1 .. Len(s) : s[i] = s[j] => i = j
    BY <1>1, <1>3 DEF IsInjective
  <2>2. \A i \in 1 .. Len(s) : s[i] # b
    BY <1>1, <1>3 DEF Range
  <2>3. \A i, j \in 1 .. Len(s) + 1 : t[i] = t[j] => i = j
    BY <1>1, <2>1, <2>2
  <2> QED BY <1>1, <2>3 DEF IsInjective
<1> QED BY <1>2, <1>3 DEF t

\* and one less.
LEMMA TailSet ==
  ASSUME NEW B, NEW s \in Seq(B), s # <<>>, IsInjective(s)
  PROVE  /\ s[1] \in Range(s) /\ Range(Tail(s)) = Range(s) \ {s[1]}
         /\ IsInjective(Tail(s))
<1> DEFINE t == Tail(s)
<1>1. /\ DOMAIN s = 1 .. Len(s) /\ Len(s) \in Nat /\ Len(s) > 0 /\ DOMAIN t = 1 .. Len(s) - 1
      /\ \A i \in 1 .. Len(s) - 1 : t[i] = s[i + 1]
  OBVIOUS
<1> HIDE DEF t
<1>2. \A i, j \in 1 .. Len(s) : s[i] = s[j] => i = j
  BY <1>1 DEF IsInjective
<1>3. s[1] \in Range(s)
  BY <1>1 DEF Range
<1>4. ASSUME NEW x \in Range(t)
      PROVE  x \in Range(s) \ {s[1]}
  <2>1. PICK i \in 1 .. Len(s) - 1 : x = t[i]
    BY <1>1 DEF Range
  <2>2. i + 1 \in 1 .. Len(s) /\ i + 1 # 1 /\ 1 \in 1 .. Len(s)
    BY <1>1
  <2> QED BY <1>1, <1>2, <2>1, <2>2 DEF Range
<1>5. ASSUME NEW x \in Range(s), x # s[1]
      PROVE  x \in Range(t)
  <2>1. PICK i \in 1 .. Len(s) : x = s[i]
    BY <1>1 DEF Range
  <2>2. i # 1
    BY <1>5, <2>1
  <2>3. i - 1 \in 1 .. Len(s) - 1 /\ (i - 1) + 1 = i
    BY <1>1, <2>2
  <2>4. t[i - 1] = x
    BY <1>1, <2>1, <2>3
  <2> QED BY <1>1, <2>3, <2>4 DEF Range
<1>6. \A i, j \in 1 .. Len(s) - 1 : t[i] = t[j] => i = j
  BY <1>1, <1>2
<1>7. IsInjective(t)
  BY <1>1, <1>6 DEF IsInjective
<1>8. Range(t) = Range(s) \ {s[1]}
  BY <1>4, <1>5
<1> QED BY <1>3, <1>7, <1>8 DEF t

-----------------------------------------------------------------------------
(* Counting                                                                *)

\* What the proofs use of finite sets and of least numbers: library facts,
\* which module VirtioDiskProofs cites.
SetSizes ==
  \A S : IsFiniteSet(S) =>
    /\ Cardinality(S) \in Nat /\ (Cardinality(S) = 0 <=> S = {})
    /\ \A x \in S : IsFiniteSet(S \ {x}) /\ Cardinality(S \ {x}) = Cardinality(S) - 1
    /\ \A x : x \notin S =>
         IsFiniteSet(S \cup {x}) /\ Cardinality(S \cup {x}) = Cardinality(S) + 1
    /\ \A T \in SUBSET S : IsFiniteSet(T)

IntervalSizes ==
  /\ \A n \in Nat : IsFiniteSet(1 .. n) /\ Cardinality(1 .. n) = n
  /\ \A n \in Nat : IsFiniteSet(0 .. n - 1) /\ Cardinality(0 .. n - 1) = n
  /\ IsFiniteSet({}) /\ Cardinality({}) = 0

PigeonHole ==
  \A S, T : \A f \in [S -> T] :
    IsFiniteSet(S) /\ IsFiniteSet(T) /\ Cardinality(T) < Cardinality(S) =>
      \E x, y \in S : x # y /\ f[x] = f[y]

LeastNumber == \A S \in SUBSET Nat : S # {} => \E x \in S : \A y \in S : x <= y

Counting == SetSizes /\ IntervalSizes /\ PigeonHole /\ LeastNumber

\* What Counting says of one set.
LEMMA Counted ==
  ASSUME Counting, NEW S, IsFiniteSet(S)
  PROVE  Cardinality(S) \in Nat /\ (Cardinality(S) = 0 <=> S = {})
BY DEF Counting, SetSizes

\* A function into a smaller set takes a value twice.
LEMMA ValueTwice ==
  ASSUME Counting, NEW S, NEW T, NEW f \in [S -> T], IsFiniteSet(S), IsFiniteSet(T),
         Cardinality(T) < Cardinality(S)
  PROVE  \E x, y \in S : x # y /\ f[x] = f[y]
BY Zenon DEF Counting, PigeonHole

\* A queue whose entries belong to different members of T is no longer than
\* T has members.
LEMMA QueueBound ==
  ASSUME Counting, NEW B, NEW s \in Seq(B), IsInjective(s), NEW g, NEW T, IsFiniteSet(T),
         \A h \in Range(s) : g[h] \in T,
         \A h, k \in Range(s) : g[h] = g[k] => h = k
  PROVE  Len(s) <= Cardinality(T)
<1> DEFINE f == [i \in 1 .. Len(s) |-> g[s[i]]]
<1>1. DOMAIN s = 1 .. Len(s) /\ Len(s) \in Nat
  OBVIOUS
<1>2. \A i \in 1 .. Len(s) : s[i] \in Range(s)
  BY <1>1 DEF Range
<1>3. f \in [1 .. Len(s) -> T]
  BY <1>2
<1>4. \A i, j \in 1 .. Len(s) : f[i] = f[j] => i = j
  BY <1>1, <1>2 DEF IsInjective
<1>5. IsFiniteSet(1 .. Len(s)) /\ Cardinality(1 .. Len(s)) = Len(s)
  BY <1>1 DEF Counting, IntervalSizes
<1>6. Cardinality(T) \in Nat
  BY Counted
<1>7. CASE Cardinality(T) < Len(s)
  <2> HIDE DEF f
  <2>1. Cardinality(T) < Cardinality(1 .. Len(s))
    BY <1>5, <1>7
  <2>2. \E i, j \in 1 .. Len(s) : i # j /\ f[i] = f[j]
    BY <1>3, <1>5, <2>1, ValueTwice
  <2> QED BY <1>4, <2>2
<1> QED BY <1>1, <1>6, <1>7

-----------------------------------------------------------------------------
(* Descriptors                                                             *)

\* What the proofs use of the sizes.
LEMMA Sizes ==
  /\ IsRing(Ring, Wrap) /\ Ring \in Nat \ {0} /\ Wrap \in Nat \ {0}
  /\ NUM \in Nat /\ 3 * Ring >= NUM - 2
BY VirtioAssumption DEF IsRing

\* Free descriptors can be counted.
LEMMA FreeFinite ==
  ASSUME Counting, DescTypes
  PROVE  IsFiniteSet(free) /\ Cardinality(free) \in Nat
<1>1. IsFiniteSet(Desc)
  BY Sizes DEF Counting, IntervalSizes, Desc
<1> QED BY <1>1, Counted DEF Counting, SetSizes, DescTypes

\* One element fewer.
LEMMA OneLess ==
  ASSUME Counting, NEW S, IsFiniteSet(S), NEW x \in S
  PROVE  IsFiniteSet(S \ {x}) /\ Cardinality(S \ {x}) = Cardinality(S) - 1
BY DEF Counting, SetSizes

\* One element more.
LEMMA OneMore ==
  ASSUME Counting, NEW S, IsFiniteSet(S), NEW x, x \notin S
  PROVE  IsFiniteSet(S \cup {x}) /\ Cardinality(S \cup {x}) = Cardinality(S) + 1
BY DEF Counting, SetSizes

\* Three elements fewer, and three more.
LEMMA ThreeLess ==
  ASSUME Counting, NEW S, IsFiniteSet(S),
         NEW x \in S, NEW y \in S, NEW z \in S, x # y, x # z, y # z
  PROVE  Cardinality(S \ {x, y, z}) = Cardinality(S) - 3
<1>1. IsFiniteSet(S \ {x}) /\ Cardinality(S \ {x}) = Cardinality(S) - 1
  BY OneLess
<1>2. /\ IsFiniteSet((S \ {x}) \ {y})
      /\ Cardinality((S \ {x}) \ {y}) = Cardinality(S \ {x}) - 1
  <2>1. y \in S \ {x}
    OBVIOUS
  <2> QED BY OneLess
<1>3. Cardinality(((S \ {x}) \ {y}) \ {z}) = Cardinality((S \ {x}) \ {y}) - 1
  <2>1. z \in (S \ {x}) \ {y}
    OBVIOUS
  <2> QED BY <1>2, OneLess
<1>4. Cardinality(S) \in Nat
  BY Counted
<1> QED BY <1>1, <1>2, <1>3, <1>4

\* Three elements more.
LEMMA ThreeMore ==
  ASSUME Counting, NEW S, IsFiniteSet(S), NEW x, NEW y, NEW z,
         x \notin S, y \notin S, z \notin S, x # y, x # z, y # z
  PROVE  Cardinality(S \cup {x, y, z}) = Cardinality(S) + 3
<1>1. IsFiniteSet(S \cup {x}) /\ Cardinality(S \cup {x}) = Cardinality(S) + 1
  BY OneMore
<1>2. /\ IsFiniteSet((S \cup {x}) \cup {y})
      /\ Cardinality((S \cup {x}) \cup {y}) = Cardinality(S \cup {x}) + 1
  <2>1. y \notin S \cup {x}
    OBVIOUS
  <2> QED BY OneMore
<1>3. Cardinality(((S \cup {x}) \cup {y}) \cup {z}) = Cardinality((S \cup {x}) \cup {y}) + 1
  <2>1. z \notin (S \cup {x}) \cup {y}
    OBVIOUS
  <2> QED BY <1>2, OneMore
<1>4. ((S \cup {x}) \cup {y}) \cup {z} = S \cup {x, y, z}
  OBVIOUS
<1>5. Cardinality(S) \in Nat
  BY Counted
<1> QED BY <1>1, <1>2, <1>3, <1>4, <1>5

\* alloc_desc() finds a free descriptor when there is one.
LEMMA AllocDescFree ==
  ASSUME Counting, DescTypes, NEW taken, free \ taken # {}
  PROVE  AllocDesc(taken) \in free \ taken
<1>1. free \ taken \in SUBSET Nat
  <2>1. \A i \in Desc : i \in Nat
    BY DEF Desc
  <2> QED BY <2>1 DEF DescTypes
<1>2. \E i \in free \ taken : \A j \in free \ taken : i <= j
  BY <1>1, Zenon DEF Counting, LeastNumber
<1> QED BY <1>2 DEF AllocDesc

\* alloc3_desc() takes three different free descriptors.
LEMMA ThreeDescriptors ==
  ASSUME Counting, DescTypes, Cardinality(free) >= 3
  PROVE  LET i0 == AllocDesc({})
             i1 == AllocDesc({i0})
             i2 == AllocDesc({i0, i1})
         IN  /\ i0 \in free /\ i1 \in free /\ i2 \in free /\ i0 # i1 /\ i0 # i2 /\ i1 # i2
             /\ Cardinality(free \ {i0, i1, i2}) = Cardinality(free) - 3
<1> DEFINE i0 == AllocDesc({})
           i1 == AllocDesc({i0})
           i2 == AllocDesc({i0, i1})
<1> HIDE DEF i0, i1, i2
<1>1. IsFiniteSet(free) /\ Cardinality(free) \in Nat
  BY FreeFinite
<1>2. free \ {} # {}
  BY <1>1, Counted
<1>3. i0 \in free
  BY <1>2, AllocDescFree DEF i0
<1>4. IsFiniteSet(free \ {i0}) /\ Cardinality(free \ {i0}) = Cardinality(free) - 1
  BY <1>1, <1>3, OneLess
<1>5. free \ {i0} # {}
  BY <1>1, <1>4, Counted
<1>6. i1 \in free \ {i0}
  BY <1>5, AllocDescFree DEF i1
<1>7. /\ IsFiniteSet((free \ {i0}) \ {i1})
      /\ Cardinality((free \ {i0}) \ {i1}) = Cardinality(free \ {i0}) - 1
  BY <1>4, <1>6, OneLess
<1>8. (free \ {i0}) \ {i1} = free \ {i0, i1}
  OBVIOUS
<1>9. free \ {i0, i1} # {}
  <2>1. Cardinality((free \ {i0}) \ {i1}) # 0
    BY <1>4, <1>7
  <2> QED BY <1>7, <1>8, <2>1, Counted, Zenon
<1>10. i2 \in free \ {i0, i1}
  BY <1>9, AllocDescFree DEF i2
<1>11. Cardinality(free \ {i0, i1, i2}) = Cardinality(free) - 3
  BY <1>1, <1>3, <1>6, <1>10, ThreeLess
<1> QED BY <1>3, <1>6, <1>10, <1>11 DEF i0, i1, i2

\* free_chain() frees the descriptors of the request.
LEMMA ChainIsParts ==
  ASSUME ProcTypes, Linked, NEW p \in Owners
  PROVE  Chain(head[p]) = Parts(p) /\ Parts(p) \subseteq Desc
<1>1. /\ head[p] \in Desc /\ Mid(p) \in Desc /\ End(p) \in Desc
      /\ head[p] # Mid(p) /\ head[p] # End(p) /\ Mid(p) # End(p)
  BY DEF ProcTypes, Linked, LinkedFor, Owners
<1>2. next[head[p]] # None /\ next[head[p]] = Mid(p) /\ next[next[head[p]]] = End(p)
  BY <1>1, VirtioAssumption DEF Mid, End
<1>3. Chain(head[p]) = Parts(p)
  BY <1>1, <1>2 DEF Chain, Parts
<1> QED BY <1>1, <1>3 DEF Parts

\* A request takes three descriptors.
LEMMA PartsCounted ==
  ASSUME Counting, Linked, NEW p \in Owners
  PROVE  Cardinality(Parts(p)) = 3
<1>1. {} \cup {head[p], Mid(p), End(p)} = Parts(p)
  BY DEF Parts
<1>2. Cardinality({} \cup {head[p], Mid(p), End(p)}) = Cardinality({}) + 3
  <2>1. head[p] # Mid(p) /\ head[p] # End(p) /\ Mid(p) # End(p)
    BY DEF Linked, LinkedFor
  <2>2. IsFiniteSet({})
    BY DEF Counting, IntervalSizes
  <2>3. head[p] \notin {} /\ Mid(p) \notin {} /\ End(p) \notin {}
    OBVIOUS
  <2> QED BY <2>1, <2>2, <2>3, ThreeMore, Zenon
<1>3. Cardinality({}) = 0
  BY DEF Counting, IntervalSizes
<1> QED BY <1>1, <1>2, <1>3

-----------------------------------------------------------------------------
(* The rings                                                               *)

\* The queues hold descriptors, as many as their indexes are apart.
LEMMA QueueTypes ==
  ASSUME RingTypes
  PROVE  /\ AvailQueue \in Seq(Desc) /\ Len(AvailQueue) = (availIdx - seenIdx) % Wrap
         /\ UsedQueue \in Seq(Desc) /\ Len(UsedQueue) = (usedIdx - used_idx) % Wrap
<1>1. IsRing(Ring, Wrap)
  BY Sizes
<1>2. Lists(AvailQueue, Desc, avail, seenIdx, (availIdx - seenIdx) % Wrap, Ring)
  <2>1. /\ seenIdx \in 0 .. Wrap - 1 /\ availIdx \in 0 .. Wrap - 1
        /\ avail \in [0 .. Ring - 1 -> Desc]
    BY DEF RingTypes, Index
  <2> QED BY <1>1, <2>1, RingSeqIs, Zenon DEF AvailQueue
<1>3. Lists(UsedQueue, Desc, used, used_idx, (usedIdx - used_idx) % Wrap, Ring)
  <2>1. /\ used_idx \in 0 .. Wrap - 1 /\ usedIdx \in 0 .. Wrap - 1
        /\ used \in [0 .. Ring - 1 -> Desc]
    BY DEF RingTypes, Index
  <2> QED BY <1>1, <2>1, RingSeqIs, Zenon DEF UsedQueue
<1> QED BY <1>2, <1>3 DEF Lists

\* There are no more requests than entries in a ring.
LEMMA FewOwners ==
  ASSUME Counting, DescTypes, CountInv
  PROVE  /\ Cardinality(Owners) \in Nat /\ Cardinality(Owners) <= Ring
         /\ Cardinality(free) >= 3 => Cardinality(Owners) < Ring
         /\ \A p \in Owners : /\ IsFiniteSet(Owners \ {p})
                              /\ Cardinality(Owners \ {p}) < Ring
<1>1. Cardinality(Owners) \in Nat
  BY Counted DEF CountInv
<1>2. Cardinality(free) \in Nat
  BY FreeFinite
<1>3. /\ Cardinality(Owners) <= Ring
      /\ Cardinality(free) >= 3 => Cardinality(Owners) < Ring
  BY <1>1, <1>2, Sizes DEF CountInv
<1>4. ASSUME NEW p \in Owners
      PROVE  IsFiniteSet(Owners \ {p}) /\ Cardinality(Owners \ {p}) < Ring
  <2>1. IsFiniteSet(Owners \ {p}) /\ Cardinality(Owners \ {p}) = Cardinality(Owners) - 1
    BY OneLess DEF CountInv
  <2> QED BY <1>1, <1>3, <2>1, Sizes
<1> QED BY <1>1, <1>3, <1>4

\* Entries of different owners are different.
LEMMA RingsHaveRoom ==
  ASSUME Counting, RingTypes, Apart, Owned, NEW T, IsFiniteSet(T), Cardinality(T) < Ring
  PROVE  /\ (\A h \in Range(AvailQueue) : info[h] \in T) => (availIdx - seenIdx) % Wrap < Ring
         /\ (\A h \in Range(UsedQueue) : info[h] \in T) => (usedIdx - used_idx) % Wrap < Ring
<1>1. \A h, k \in OnItsWay : info[h] = info[k] => h = k
  BY DEF Owned
<1>2. \A h, k \in Range(AvailQueue) : info[h] = info[k] => h = k
  BY <1>1 DEF OnItsWay
<1>3. \A h, k \in Range(UsedQueue) : info[h] = info[k] => h = k
  BY <1>1 DEF OnItsWay
<1>4. Cardinality(T) \in Nat
  BY Counted
<1>5. ASSUME \A h \in Range(AvailQueue) : info[h] \in T
      PROVE  Len(AvailQueue) <= Cardinality(T)
  BY <1>2, <1>5, QueueTypes, QueueBound DEF Apart
<1>6. ASSUME \A h \in Range(UsedQueue) : info[h] \in T
      PROVE  Len(UsedQueue) <= Cardinality(T)
  BY <1>3, <1>6, QueueTypes, QueueBound DEF Apart
<1> QED BY <1>4, <1>5, <1>6, QueueTypes, Sizes

\* The same, of the process whose request is put into a ring.
LEMMA RoomForOne ==
  ASSUME Counting, DescTypes, RingTypes, CountInv, Apart, Owned, NEW p \in Owners
  PROVE  /\ head[p] \notin Range(AvailQueue) => (availIdx - seenIdx) % Wrap < Ring
         /\ head[p] \notin Range(UsedQueue) => (usedIdx - used_idx) % Wrap < Ring
<1>1. \A h \in OnItsWay : h # head[p] => info[h] \in Owners \ {p}
  BY DEF Owned
<1>2. head[p] \notin Range(AvailQueue) => \A h \in Range(AvailQueue) : info[h] \in Owners \ {p}
  BY <1>1 DEF OnItsWay
<1>3. head[p] \notin Range(UsedQueue) => \A h \in Range(UsedQueue) : info[h] \in Owners \ {p}
  BY <1>1 DEF OnItsWay
<1>4. IsFiniteSet(Owners \ {p}) /\ Cardinality(Owners \ {p}) < Ring
  BY FewOwners
<1> QED BY <1>2, <1>3, <1>4, RingsHaveRoom

-----------------------------------------------------------------------------
(* Steps that leave a part of the state alone                              *)

\* Steps that leave the rings and the device alone leave their types alone.
LEMMA RingTypesSame ==
  ASSUME RingTypes, UNCHANGED <<availVars, usedVars, used_idx, deviceVars>>
  PROVE  RingTypes'
BY DEF RingTypes, availVars, usedVars, deviceVars

\* The same for the descriptors.
LEMMA DescTypesSame ==
  ASSUME DescTypes, UNCHANGED <<chainVars, status>>
  PROVE  DescTypes'
BY DEF DescTypes, chainVars

\* Steps that leave a ring and its indexes alone leave its queue alone.
LEMMA AvailSame ==
  ASSUME UNCHANGED <<avail, availIdx, seenIdx>>
  PROVE  AvailQueue' = AvailQueue
BY DEF AvailQueue

\* The same for the used ring.
LEMMA UsedSame ==
  ASSUME UNCHANGED <<used, usedIdx, used_idx>>
  PROVE  UsedQueue' = UsedQueue
BY DEF UsedQueue

\* The chains depend on the descriptors and on who has them.
LEMMA ChainSame ==
  ASSUME Linked, Separate, UNCHANGED <<chainVars, head>>,
         \A p \in Owners : write'[p] = write[p]
  PROVE  Linked' /\ Separate'
<1>1. UNCHANGED <<free, addr, next, ops, info, head>> /\ Owners' = Owners
  BY DEF Owners, chainVars
<1>2. \A p : Mid(p)' = Mid(p) /\ End(p)' = End(p) /\ Parts(p)' = Parts(p)
  BY <1>1 DEF Mid, End, Parts
<1>3. ASSUME NEW p \in Owners
      PROVE  LinkedFor(p)'
  <2>1. Request(p)' = Request(p)
    BY DEF Request
  <2> QED BY <1>1, <1>2, <2>1 DEF Linked, LinkedFor
<1>4. Separate'
  BY <1>1, <1>2 DEF Separate
<1> QED BY <1>1, <1>3, <1>4 DEF Linked

\* Who has a request depends on head.
LEMMA OwnersSame ==
  ASSUME head' = head
  PROVE  Owners' = Owners
BY DEF Owners

\* The count depends on who has requests and on what is free.
LEMMA CountSame ==
  ASSUME CountInv, UNCHANGED <<chainVars, head>>
  PROVE  CountInv'
BY OwnersSame DEF CountInv, chainVars

\* Where the requests are depends on the rings, the device and b->disk.
LEMMA PlaceSame ==
  ASSUME Apart, Owned, Awaited,
         AvailQueue' = AvailQueue, UsedQueue' = UsedQueue, UNCHANGED deviceVars,
         UNCHANGED <<chainVars, busy, head>>,
         \A p \in Owners : pc'[p] = "notify" <=> pc[p] = "notify"
  PROVE  Apart' /\ Owned' /\ Awaited'
<1>1. UNCHANGED <<inflight, finished, info>> /\ Owners' = Owners
  BY OwnersSame DEF deviceVars, chainVars
<1>2. OnItsWay' = OnItsWay
  BY <1>1 DEF OnItsWay
<1>3. Apart'
  BY <1>1 DEF Apart
<1>4. Owned'
  BY <1>1, <1>2 DEF Owned
<1>5. Awaited'
  BY <1>1, <1>2 DEF Awaited
<1> QED BY <1>3, <1>4, <1>5

\* What the data rests on stays as it is.
LEMMA DataSame ==
  ASSUME DataInv, UNCHANGED <<finished, disk, data, write, busy, head>>, UsedQueue' = UsedQueue,
         \A p \in Proc : pc'[p] # "out" => pc[p] # "out"
  PROVE  DataInv'
<1>1. \A p \in Proc : Moved(p)' = Moved(p)
  BY DEF Moved, Owners
<1> QED BY <1>1 DEF DataInv, DataFor

\* A step of a process or of the handler that only goes from one place in
\* the code to another.
LEMMA QuietKeeps ==
  ASSUME QueueInv, ProcTypes', ControlInv',
         UNCHANGED <<chainVars, status, availVars, usedVars, used_idx, deviceVars>>,
         UNCHANGED <<disk, data, busy, write, head>>,
         \A p \in Proc : /\ pc'[p] = "notify" <=> pc[p] = "notify"
                         /\ pc'[p] # "out" => pc[p] # "out"
  PROVE  QueueInv'
<1>1. DescTypes' /\ RingTypes'
  BY DescTypesSame, RingTypesSame DEF QueueInv
<1>2. Linked' /\ Separate' /\ CountInv'
  BY ChainSame, CountSame DEF QueueInv
<1>3. AvailQueue' = AvailQueue /\ UsedQueue' = UsedQueue
  BY AvailSame, UsedSame DEF availVars, usedVars, deviceVars
<1>4. Apart' /\ Owned' /\ Awaited'
  BY <1>3, PlaceSame DEF QueueInv, Owners
<1>5. DataInv'
  BY <1>3, DataSame DEF QueueInv, deviceVars
<1> QED BY <1>1, <1>2, <1>4, <1>5 DEF QueueInv

-----------------------------------------------------------------------------
(* virtio_disk_rw() until the device is notified                           *)

\* virtio_disk_rw() is called.
LEMMA CallKeeps ==
  ASSUME QueueInv, NEW p \in Proc, NEW w \in Value \cup {None}, NEW v \in Value,
         w = None \/ w = v, Call(p, w, v)
  PROVE  QueueInv'
<1>1. p \notin Owners /\ \A q \in Owners : q \in Proc
  BY DEF Call, QueueInv, ControlInv, ControlFor, Owners
<1>2. Owners' = Owners
  BY OwnersSame DEF Call
<1>3. DescTypes' /\ RingTypes'
  BY DescTypesSame, RingTypesSame DEF Call, QueueInv
<1>4. ProcTypes'
  BY DEF Call, QueueInv, ProcTypes, Place
<1>5. \A q \in Proc \ {p} : write'[q] = write[q] /\ data'[q] = data[q] /\ pc'[q] = pc[q]
  BY DEF Call, QueueInv, ProcTypes
<1>6. pc[p] = "out" /\ pc'[p] = "alloc" /\ write'[p] = w /\ data'[p] = v
  BY DEF Call, QueueInv, ProcTypes
<1>7. Linked' /\ Separate' /\ CountInv'
  BY <1>1, <1>5, ChainSame, CountSame DEF Call, QueueInv
<1>8. ControlInv'
  BY <1>2, <1>5, <1>6 DEF Call, QueueInv, ControlInv, ControlFor, availVars
<1>9. AvailQueue' = AvailQueue /\ UsedQueue' = UsedQueue
  BY AvailSame, UsedSame DEF Call, availVars, usedVars, deviceVars
<1>10. Apart' /\ Owned' /\ Awaited'
  BY <1>1, <1>5, <1>9, PlaceSame DEF Call, QueueInv
<1>11. DataInv'
  <2>1. \A q \in Proc : Moved(q)' = Moved(q)
    BY <1>2, <1>9 DEF Call, Moved, deviceVars
  <2>2. DataFor(p)'
    BY <1>1, <1>6, <2>1 DEF DataFor, Moved
  <2>3. disk' = disk
    BY DEF Call
  <2>4. \A q \in Proc \ {p} : DataFor(q)'
    BY <1>5, <2>1, <2>3 DEF DataFor, QueueInv, DataInv
  <2> QED BY <2>2, <2>4 DEF DataInv
<1> QED BY <1>3, <1>4, <1>7, <1>8, <1>10, <1>11 DEF QueueInv

\* What alloc3_desc() and the formatting do to the descriptors, with names
\* for the three.
Formatted(p, i0, i1, i2) ==
  /\ i0 # i1 /\ i0 # i2 /\ i1 # i2
  /\ free' = free \ {i0, i1, i2}
  /\ ops' = [ops EXCEPT ![i0] = Request(p)]
  /\ next' = [next EXCEPT ![i0] = i1, ![i1] = i2, ![i2] = None]
  /\ addr' = [addr EXCEPT ![i1] = p]
  /\ status' = [status EXCEPT ![i0] = 255]
  /\ info' = [info EXCEPT ![i0] = p]
  /\ head' = [head EXCEPT ![p] = i0]

\* alloc3_desc() takes three free descriptors.
LEMMA Alloc3Is ==
  ASSUME Counting, DescTypes, NEW p \in Proc, Alloc3(p)
  PROVE  \E i0, i1, i2 \in free :
           /\ Formatted(p, i0, i1, i2)
           /\ avail' = [avail EXCEPT ![availIdx % Ring] = i0]
           /\ Cardinality(free') = Cardinality(free) - 3
<1> DEFINE i0 == AllocDesc({})
           i1 == AllocDesc({i0})
           i2 == AllocDesc({i0, i1})
<1>1. /\ i0 \in free /\ i1 \in free /\ i2 \in free /\ i0 # i1 /\ i0 # i2 /\ i1 # i2
      /\ Cardinality(free \ {i0, i1, i2}) = Cardinality(free) - 3
  BY ThreeDescriptors DEF Alloc3
<1>2. /\ free' = free \ {i0, i1, i2}
      /\ ops' = [ops EXCEPT ![i0] = Request(p)]
      /\ next' = [next EXCEPT ![i0] = i1, ![i1] = i2, ![i2] = None]
      /\ addr' = [addr EXCEPT ![i1] = p]
      /\ status' = [status EXCEPT ![i0] = 255]
      /\ info' = [info EXCEPT ![i0] = p]
      /\ avail' = [avail EXCEPT ![availIdx % Ring] = i0]
      /\ head' = [head EXCEPT ![p] = i0]
  BY DEF Alloc3
<1> HIDE DEF i0, i1, i2
<1> QED BY <1>1, <1>2, Zenon DEF Formatted

\* The types of the descriptors.
LEMMA FormattedTypes ==
  ASSUME DescTypes, NEW p \in Proc, NEW i0 \in Desc, NEW i1 \in Desc, NEW i2 \in Desc,
         Formatted(p, i0, i1, i2)
  PROVE  DescTypes'
<1>1. Request(p) \in [type : {"in", "out"}, sector : Proc]
  BY DEF Request
<1>2. ops' \in [Desc -> [type : {"in", "out"}, sector : Proc] \cup {None}]
  BY <1>1 DEF Formatted, DescTypes
<1>3. /\ free' \subseteq Desc /\ addr' \in [Desc -> Proc \cup {None}]
      /\ next' \in [Desc -> Desc \cup {None}] /\ info' \in [Desc -> Proc \cup {None}]
      /\ status' \in [Desc -> {0, 255}]
  BY DEF Formatted, DescTypes
<1> QED BY <1>2, <1>3 DEF DescTypes

\* The three descriptors are p's request; nobody else's changes.
LEMMA FormattedChains ==
  ASSUME DescTypes, ProcTypes, Linked, NEW p \in Proc, p \notin Owners,
         NEW i0 \in Desc, NEW i1 \in Desc, NEW i2 \in Desc, Formatted(p, i0, i1, i2),
         \A q \in Owners : Parts(q) \cap {i0, i1, i2} = {}
  PROVE  /\ Owners' = Owners \cup {p} /\ head'[p] = i0 /\ Mid(p)' = i1 /\ End(p)' = i2
         /\ next'[i2] = None /\ info'[i0] = p /\ addr'[i1] = p /\ ops'[i0] = Request(p)
         /\ \A q \in Owners :
              /\ head'[q] = head[q] /\ Mid(q)' = Mid(q) /\ End(q)' = End(q)
              /\ next'[End(q)] = next[End(q)] /\ info'[head[q]] = info[head[q]]
              /\ addr'[Mid(q)] = addr[Mid(q)] /\ ops'[head[q]] = ops[head[q]]
<1>1. head'[p] = i0 /\ \A q \in Proc \ {p} : head'[q] = head[q]
  BY DEF Formatted, ProcTypes
<1>2. Owners' = Owners \cup {p}
  <2>1. i0 # None
    BY VirtioAssumption
  <2> QED BY <1>1, <2>1 DEF Owners
<1>3. /\ next'[i0] = i1 /\ next'[i1] = i2 /\ next'[i2] = None
      /\ info'[i0] = p /\ addr'[i1] = p /\ ops'[i0] = Request(p)
  BY DEF Formatted, DescTypes
<1>4. Mid(p)' = i1 /\ End(p)' = i2
  BY <1>1, <1>3 DEF Mid, End
<1>5. ASSUME NEW d \in Desc, d \notin {i0, i1, i2}
      PROVE  next'[d] = next[d] /\ info'[d] = info[d] /\ addr'[d] = addr[d] /\ ops'[d] = ops[d]
  BY <1>5 DEF Formatted, DescTypes
<1>6. ASSUME NEW q \in Owners
      PROVE  /\ head'[q] = head[q] /\ Mid(q)' = Mid(q) /\ End(q)' = End(q)
             /\ next'[End(q)] = next[End(q)] /\ info'[head[q]] = info[head[q]]
             /\ addr'[Mid(q)] = addr[Mid(q)] /\ ops'[head[q]] = ops[head[q]]
  <2>1. Parts(q) \subseteq Desc /\ Parts(q) \cap {i0, i1, i2} = {}
    BY ChainIsParts
  <2>2. head[q] \in Parts(q) /\ Mid(q) \in Parts(q) /\ End(q) \in Parts(q)
    BY DEF Parts
  <2>3. head'[q] = head[q]
    BY <1>1 DEF Owners
  <2>4. Mid(q)' = Mid(q)
    BY <1>5, <2>1, <2>2, <2>3 DEF Mid
  <2>5. End(q)' = End(q)
    BY <1>5, <2>1, <2>2, <2>4 DEF Mid, End
  <2> QED BY <1>5, <2>1, <2>2, <2>3, <2>4, <2>5
<1> QED BY <1>1, <1>2, <1>3, <1>4, <1>6

\* The requests stay linked and share no descriptors.
LEMMA FormattedKeeps ==
  ASSUME DescTypes, ProcTypes, Linked, Separate, NEW p \in Proc, p \notin Owners,
         NEW i0 \in free, NEW i1 \in free, NEW i2 \in free, Formatted(p, i0, i1, i2),
         write' = write
  PROVE  /\ Linked' /\ Separate' /\ Owners' = Owners \cup {p} /\ head'[p] = i0
         /\ \A q \in Owners : head'[q] = head[q] /\ info'[head[q]] = info[head[q]]
<1>1. i0 \in Desc /\ i1 \in Desc /\ i2 \in Desc
  BY DEF DescTypes
<1>2. \A q \in Owners : Parts(q) \cap {i0, i1, i2} = {}
  BY DEF Separate
<1>3. /\ Owners' = Owners \cup {p} /\ head'[p] = i0 /\ Mid(p)' = i1 /\ End(p)' = i2
      /\ next'[i2] = None /\ info'[i0] = p /\ addr'[i1] = p /\ ops'[i0] = Request(p)
  BY <1>1, <1>2, FormattedChains
<1>4. \A q \in Owners :
        /\ head'[q] = head[q] /\ Mid(q)' = Mid(q) /\ End(q)' = End(q)
        /\ next'[End(q)] = next[End(q)] /\ info'[head[q]] = info[head[q]]
        /\ addr'[Mid(q)] = addr[Mid(q)] /\ ops'[head[q]] = ops[head[q]]
  BY <1>1, <1>2, FormattedChains
<1>5. free' = free \ {i0, i1, i2} /\ i0 # i1 /\ i0 # i2 /\ i1 # i2
  BY DEF Formatted
<1>6. \A q : Request(q)' = Request(q)
  BY DEF Request
<1>7. LinkedFor(p)'
  BY <1>1, <1>3, <1>5, <1>6 DEF LinkedFor
<1>8. ASSUME NEW q \in Owners
      PROVE  LinkedFor(q)'
  <2>1. LinkedFor(q)
    BY DEF Linked
  <2> QED BY <1>4, <1>6, <2>1 DEF LinkedFor
<1>9. Linked'
  BY <1>3, <1>7, <1>8 DEF Linked
<1>10. Parts(p)' = {i0, i1, i2} /\ \A q \in Owners : Parts(q)' = Parts(q)
  BY <1>3, <1>4 DEF Parts
<1>11. Separate'
  BY <1>2, <1>3, <1>5, <1>10 DEF Separate
<1> QED BY <1>3, <1>4, <1>9, <1>11

\* alloc3_desc() succeeds, and the chain is filled in.
LEMMA Alloc3Keeps ==
  ASSUME Counting, QueueInv, NEW p \in Proc, Alloc3(p)
  PROVE  QueueInv'
<1> USE DEF QueueInv
<1>1. PICK i0, i1, i2 \in free :
        /\ Formatted(p, i0, i1, i2)
        /\ avail' = [avail EXCEPT ![availIdx % Ring] = i0]
        /\ Cardinality(free') = Cardinality(free) - 3
  BY Alloc3Is
<1>2. pc[p] = "alloc" /\ lock = None /\ Cardinality(free) >= 3
  BY DEF Alloc3
<1>3. busy' = [busy EXCEPT ![p] = 1] /\ pc' = [pc EXCEPT ![p] = "notify"] /\ lock' = p
  BY DEF Alloc3
<1>4. UNCHANGED <<availIdx, seenIdx, inflight, finished, disk, data, write>>
  BY DEF Alloc3, deviceVars
<1>5. p \notin Owners
  BY <1>2 DEF ControlInv, ControlFor
<1>6. Linked' /\ Separate' /\ Owners' = Owners \cup {p} /\ head'[p] = i0
  BY <1>1, <1>4, <1>5, FormattedKeeps
<1>7. \A q \in Owners : head'[q] = head[q] /\ info'[head[q]] = info[head[q]]
  BY <1>1, <1>4, <1>5, FormattedKeeps
<1>8. i0 \in Desc /\ i1 \in Desc /\ i2 \in Desc
  BY DEF DescTypes
<1>9. DescTypes'
  BY <1>1, <1>8, FormattedTypes
<1>10. availIdx % Ring \in 0 .. Ring - 1
  <2>1. availIdx \in Nat
    BY DEF RingTypes, Index
  <2> QED BY <2>1, Sizes
<1>11. RingTypes'
  <2>1. avail \in [0 .. Ring - 1 -> Desc]
    BY DEF RingTypes
  <2>2. avail' \in [0 .. Ring - 1 -> Desc]
    BY <1>1, <1>8, <2>1, Zenon
  <2> QED BY <2>2 DEF Alloc3, RingTypes, usedVars, deviceVars
<1>12. ProcTypes'
  <2>1. head' = [head EXCEPT ![p] = i0]
    BY <1>1 DEF Formatted
  <2> QED BY <1>8, <2>1 DEF Alloc3, ProcTypes, Place
<1>13. CountInv'
  <2>1. IsFiniteSet(Owners') /\ Cardinality(Owners') = Cardinality(Owners) + 1
    BY <1>5, <1>6, OneMore DEF CountInv
  <2>2. Cardinality(free) \in Nat /\ Cardinality(Owners) \in Nat
    BY FreeFinite, FewOwners
  <2> QED BY <1>1, <2>1, <2>2 DEF CountInv
<1>14. busy'[p] = 1 /\ pc'[p] = "notify"
  BY <1>3 DEF ProcTypes
<1>15. \A q \in Proc \ {p} : busy'[q] = busy[q] /\ pc'[q] = pc[q]
  BY <1>3 DEF ProcTypes
<1>16. ControlInv'
  <2>1. ControlFor(p)'
    <3>1. avail'[availIdx' % Ring] = i0
      BY <1>1, <1>4, <1>10 DEF RingTypes
    <3> QED BY <1>3, <1>6, <1>14, <3>1 DEF ControlFor
  <2>2. ASSUME NEW q \in Proc, q # p
        PROVE  ControlFor(q)'
    <3>1. lock # q /\ lock' # q
      BY <1>2, <1>3, <2>2, VirtioAssumption
    <3>2. q \in Owners' <=> q \in Owners
      BY <1>6, <2>2
    <3>3. ControlFor(q)
      BY DEF ControlInv
    <3> QED BY <1>15, <2>2, <3>1, <3>2, <3>3 DEF ControlFor
  <2> QED BY <2>1, <2>2 DEF ControlInv
<1>17. AvailQueue' = AvailQueue
  <2>1. (availIdx - seenIdx) % Wrap < Ring
    <3>1. \A h \in Range(AvailQueue) : info[h] \in Owners
      BY DEF Owned, OnItsWay
    <3>2. IsFiniteSet(Owners) /\ Cardinality(Owners) < Ring
      BY <1>2, FewOwners DEF CountInv
    <3> QED BY <3>1, <3>2, RingsHaveRoom
  <2>2. seenIdx \in 0 .. Wrap - 1 /\ availIdx \in 0 .. Wrap - 1 /\ IsRing(Ring, Wrap)
    BY Sizes DEF RingTypes, Index
  <2>3. Writes(avail, avail', availIdx % Ring, Ring)
    BY <1>1 DEF RingTypes, Writes
  <2>4. RingSeq(avail', seenIdx, availIdx, Ring, Wrap) = AvailQueue
    BY <2>1, <2>2, <2>3, RingUntouched DEF AvailQueue
  <2> QED BY <1>4, <2>4 DEF AvailQueue
<1>18. UsedQueue' = UsedQueue
  BY UsedSame DEF Alloc3, usedVars
<1>19. OnItsWay' = OnItsWay
  BY <1>4, <1>17, <1>18 DEF OnItsWay
<1>20. i0 \notin OnItsWay
  <2>1. \A h \in OnItsWay : h \in Parts(info[h]) /\ info[h] \in Owners
    BY DEF Owned, Parts
  <2> QED BY <2>1 DEF Separate
<1>21. Apart'
  BY <1>4, <1>17, <1>18 DEF Apart
<1>22. Owned'
  <2>1. \A h \in OnItsWay : info[h] \in Owners /\ head[info[h]] = h
    BY DEF Owned
  <2> QED BY <1>6, <1>7, <1>19, <2>1 DEF Owned
<1>23. Awaited'
  <2>1. \A q \in Owners : head[q] \in OnItsWay <=> busy[q] = 1 /\ pc[q] # "notify"
    BY DEF Awaited
  <2>2. \A q \in Owners : q \in Proc \ {p}
    BY <1>5 DEF Owners
  <2> QED BY <1>6, <1>7, <1>14, <1>15, <1>19, <1>20, <2>1, <2>2 DEF Awaited
<1>24. DataInv'
  <2>1. finished' \cup Range(UsedQueue') = finished \cup Range(UsedQueue)
    BY <1>4, <1>18
  <2>2. i0 \notin finished \cup Range(UsedQueue)
    BY <1>20 DEF OnItsWay
  <2>3. ~Moved(p) /\ ~Moved(p)'
    BY <1>5, <1>6, <1>14, <2>1, <2>2 DEF Moved
  <2>4. \A q \in Proc \ {p} : Moved(q)' = Moved(q)
    BY <1>6, <1>7, <1>15, <2>1 DEF Moved
  <2>5. \A q \in Proc : DataFor(q)
    BY DEF DataInv
  <2>6. DataFor(p)'
    BY <1>2, <1>4, <2>3, <2>5 DEF DataFor
  <2>7. \A q \in Proc \ {p} : DataFor(q)'
    BY <1>4, <1>15, <2>4, <2>5 DEF DataFor
  <2> QED BY <2>6, <2>7 DEF DataInv
<1> QED BY <1>6, <1>9, <1>11, <1>12, <1>13, <1>16, <1>21, <1>22, <1>23, <1>24

\* alloc3_desc() finds too few descriptors.
LEMMA Alloc3FailsKeeps ==
  ASSUME QueueInv, NEW p \in Proc, Alloc3Fails(p)
  PROVE  QueueInv'
<1>1. pc \in [Proc -> Place] /\ WakeAllocators(pc) \in [Proc -> Place]
  BY DEF WakeAllocators, QueueInv, ProcTypes, Place
<1>2. \A q \in Proc : WakeAllocators(pc)[q] = IF pc[q] = "alloc_sleep" THEN "alloc" ELSE pc[q]
  BY DEF WakeAllocators
<1>3. \A q \in Proc : IF q = p THEN pc[q] = "alloc" /\ pc'[q] = "alloc_sleep"
                      ELSE pc'[q] = pc[q] \/ (pc[q] = "alloc_sleep" /\ pc'[q] = "alloc")
  BY <1>1, <1>2 DEF Alloc3Fails
<1>4. ProcTypes'
  <2>1. pc' \in [Proc -> Place]
    BY <1>1 DEF Alloc3Fails, Place
  <2> QED BY <2>1 DEF Alloc3Fails, QueueInv, ProcTypes
<1>5. ControlInv'
  <2>1. Owners' = Owners
    BY OwnersSame DEF Alloc3Fails
  <2> QED BY <1>3, <2>1 DEF Alloc3Fails, QueueInv, ControlInv, ControlFor, availVars
<1>6. \A q \in Proc : /\ pc'[q] = "notify" <=> pc[q] = "notify"
                      /\ pc'[q] # "out" => pc[q] # "out"
  BY <1>3
<1> QED BY <1>4, <1>5, <1>6, QuietKeeps DEF Alloc3Fails

\* The request joins those on their way.
LEMMA SubmitPlaces ==
  ASSUME Apart, Owned, Awaited, Linked, NEW p \in Owners, busy[p] = 1, head[p] \notin OnItsWay,
         Range(AvailQueue') = Range(AvailQueue) \cup {head[p]}, IsInjective(AvailQueue'),
         UsedQueue' = UsedQueue, UNCHANGED <<inflight, finished>>,
         UNCHANGED <<info, head, busy>>,
         pc'[p] # "notify", \A q \in Owners \ {p} : pc'[q] = pc[q] /\ head[q] # head[p]
  PROVE  Apart' /\ Owned' /\ Awaited'
<1>1. Owners' = Owners
  BY OwnersSame
<1>2. OnItsWay' = OnItsWay \cup {head[p]}
  BY DEF OnItsWay
<1>3. head[p] \notin inflight \cup finished \cup Range(UsedQueue)
  BY DEF OnItsWay
<1>4. Apart'
  BY <1>3 DEF Apart
<1>5. info[head[p]] = p
  BY DEF Linked, LinkedFor
<1>6. Owned'
  BY <1>1, <1>2, <1>5 DEF Owned
<1>7. Awaited'
  BY <1>1, <1>2 DEF Awaited
<1> QED BY <1>4, <1>6, <1>7

\* avail->idx is advanced and the device notified.
LEMMA NotifyKeeps ==
  ASSUME Counting, QueueInv, NEW p \in Proc, Notify(p)
  PROVE  QueueInv'
<1> USE DEF QueueInv
<1>1. /\ pc[p] = "notify" /\ availIdx' = (availIdx + 1) % Wrap
      /\ UNCHANGED <<avail, inflight, finished, seenIdx, info, head, busy, lock>>
  BY DEF Notify, chainVars, deviceVars
<1>2. p \in Owners /\ busy[p] = 1 /\ avail[availIdx % Ring] = head[p] /\ lock = p
  BY <1>1 DEF ControlInv, ControlFor
<1>3. head[p] \in Desc /\ head[p] \notin OnItsWay
  BY <1>1, <1>2 DEF ProcTypes, Owners, Awaited
<1>4. pc'[p] = "test" /\ \A q \in Proc \ {p} : pc'[q] = pc[q]
  BY DEF Notify, ProcTypes
<1>5. DescTypes' /\ Linked' /\ Separate' /\ CountInv'
  BY DescTypesSame, ChainSame, CountSame DEF Notify
<1>6. ProcTypes'
  BY DEF Notify, ProcTypes, Place
<1>7. RingTypes'
  <2>1. (availIdx + 1) % Wrap \in Index
    BY Sizes DEF RingTypes, Index
  <2> QED BY <2>1 DEF Notify, RingTypes, usedVars, deviceVars
<1>8. Owners' = Owners
  BY <1>1, OwnersSame
<1>9. ControlInv'
  <2>1. ControlFor(p)'
    BY <1>1, <1>2, <1>4, <1>8 DEF ControlFor
  <2>2. ASSUME NEW q \in Proc, q # p
        PROVE  ControlFor(q)'
    <3>1. ControlFor(q) /\ pc[q] # "notify"
      BY <1>2, <2>2 DEF ControlInv, ControlFor
    <3> QED BY <1>1, <1>4, <1>8, <2>2, <3>1 DEF ControlFor
  <2> QED BY <2>1, <2>2 DEF ControlInv
<1>10. AvailQueue' = Append(AvailQueue, head[p])
  <2>1. (availIdx - seenIdx) % Wrap < Ring
    <3>1. head[p] \notin Range(AvailQueue)
      BY <1>3 DEF OnItsWay
    <3> QED BY <1>2, <3>1, RoomForOne
  <2>2. seenIdx \in 0 .. Wrap - 1 /\ availIdx \in 0 .. Wrap - 1 /\ IsRing(Ring, Wrap)
    BY Sizes DEF RingTypes, Index
  <2>3. avail \in [0 .. Ring - 1 -> Desc] /\ Writes(avail, avail, availIdx % Ring, Ring)
    BY DEF RingTypes, Writes
  <2>4. IsPut(RingSeq(avail, seenIdx, (availIdx + 1) % Wrap, Ring, Wrap), AvailQueue,
              avail[availIdx % Ring])
    BY <2>1, <2>2, <2>3, RingPut, Zenon DEF AvailQueue
  <2>5. AvailQueue' = RingSeq(avail, seenIdx, (availIdx + 1) % Wrap, Ring, Wrap)
    BY <1>1 DEF AvailQueue
  <2> QED BY <1>2, <2>4, <2>5 DEF IsPut
<1>11. Range(AvailQueue') = Range(AvailQueue) \cup {head[p]} /\ IsInjective(AvailQueue')
  <2>1. head[p] \notin Range(AvailQueue)
    BY <1>3 DEF OnItsWay
  <2> QED BY <1>3, <1>10, <2>1, QueueTypes, AppendSet DEF Apart
<1>12. UsedQueue' = UsedQueue
  BY UsedSame DEF Notify, usedVars
<1>13. \A q \in Owners \ {p} : pc'[q] = pc[q] /\ head[q] # head[p]
  BY <1>2, <1>4 DEF Owners, Linked, LinkedFor
<1>14. Apart' /\ Owned' /\ Awaited'
  BY <1>1, <1>2, <1>3, <1>4, <1>11, <1>12, <1>13, SubmitPlaces
<1>15. DataInv'
  <2>1. \A q \in Proc : pc'[q] # "out" => pc[q] # "out"
    BY <1>1, <1>4
  <2> QED BY <1>1, <1>12, <2>1, DataSame DEF Notify
<1> QED BY <1>5, <1>6, <1>7, <1>9, <1>14, <1>15

-----------------------------------------------------------------------------
(* virtio_disk_rw() until it returns                                       *)

\* A process that was woken takes vdisk_lock again.
LEMMA ReacquireKeeps ==
  ASSUME QueueInv, NEW p \in Proc, Reacquire(p)
  PROVE  QueueInv'
<1>1. ProcTypes'
  BY DEF Reacquire, QueueInv, ProcTypes, Place
<1>2. pc[p] = "wait" /\ pc'[p] = "test" /\ \A q \in Proc \ {p} : pc'[q] = pc[q]
  BY DEF Reacquire, QueueInv, ProcTypes
<1>3. ControlInv'
  <2>1. Owners' = Owners
    BY OwnersSame DEF Reacquire
  <2>2. \A q \in Proc : lock # q
    BY VirtioAssumption DEF Reacquire
  <2> QED BY <1>2, <2>1, <2>2 DEF Reacquire, QueueInv, ControlInv, ControlFor, availVars
<1> QED BY <1>1, <1>2, <1>3, QuietKeeps DEF Reacquire

\* A process waits for its request.
LEMMA SleepKeeps ==
  ASSUME QueueInv, NEW p \in Proc, Sleep(p)
  PROVE  QueueInv'
<1>1. ProcTypes'
  BY DEF Sleep, QueueInv, ProcTypes, Place
<1>2. pc[p] = "test" /\ pc'[p] = "wait_sleep" /\ \A q \in Proc \ {p} : pc'[q] = pc[q]
  BY DEF Sleep, QueueInv, ProcTypes
<1>3. ControlInv'
  <2>1. Owners' = Owners
    BY OwnersSame DEF Sleep
  <2>2. lock = p /\ \A q \in Proc : lock' # q
    BY <1>2, VirtioAssumption DEF Sleep, QueueInv, ControlInv, ControlFor
  <2> QED BY <1>2, <2>1, <2>2 DEF Sleep, QueueInv, ControlInv, ControlFor, availVars
<1> QED BY <1>1, <1>2, <1>3, QuietKeeps DEF Sleep

\* A process is killed, which does not end its sleep for good.
LEMMA KillKeeps ==
  ASSUME QueueInv, NEW p \in Proc, Kill(p)
  PROVE  QueueInv'
<1>1. ProcTypes'
  BY DEF Kill, QueueInv, ProcTypes, Place
<1>2. /\ \/ pc[p] = "alloc_sleep" /\ pc'[p] = "alloc"
         \/ pc[p] = "wait_sleep" /\ pc'[p] = "wait"
      /\ \A q \in Proc \ {p} : pc'[q] = pc[q]
  BY DEF Kill, QueueInv, ProcTypes
<1>3. ControlInv'
  <2>1. Owners' = Owners
    BY OwnersSame DEF Kill
  <2> QED BY <1>2, <2>1 DEF Kill, QueueInv, ControlInv, ControlFor, availVars
<1> QED BY <1>1, <1>2, <1>3, QuietKeeps DEF Kill

\* What free_chain() does to the descriptors.
Freed(p) ==
  /\ info' = [info EXCEPT ![head[p]] = None] /\ free' = free \cup Parts(p)
  /\ addr' = [i \in Desc |-> IF i \in Parts(p) THEN None ELSE addr[i]]
  /\ next' = [i \in Desc |-> IF i \in Parts(p) THEN None ELSE next[i]]
  /\ head' = [head EXCEPT ![p] = None]

\* The requests of the others stay as they are.
LEMMA FreedChains ==
  ASSUME DescTypes, ProcTypes, Linked, Separate, NEW p \in Owners, Freed(p)
  PROVE  /\ Owners' = Owners \ {p}
         /\ \A q \in Owners \ {p} :
              /\ head'[q] = head[q] /\ Mid(q)' = Mid(q) /\ End(q)' = End(q)
              /\ next'[End(q)] = next[End(q)] /\ info'[head[q]] = info[head[q]]
              /\ addr'[Mid(q)] = addr[Mid(q)]
<1>1. head'[p] = None /\ \A q \in Proc \ {p} : head'[q] = head[q]
  BY DEF Freed, ProcTypes, Owners
<1>2. Owners' = Owners \ {p}
  BY <1>1 DEF Owners
<1>3. ASSUME NEW d \in Desc, d \notin Parts(p)
      PROVE  next'[d] = next[d] /\ info'[d] = info[d] /\ addr'[d] = addr[d]
  <2>1. d # head[p]
    BY <1>3 DEF Parts
  <2> QED BY <1>3, <2>1 DEF Freed, DescTypes
<1>4. ASSUME NEW q \in Owners, q # p
      PROVE  /\ head'[q] = head[q] /\ Mid(q)' = Mid(q) /\ End(q)' = End(q)
             /\ next'[End(q)] = next[End(q)] /\ info'[head[q]] = info[head[q]]
             /\ addr'[Mid(q)] = addr[Mid(q)]
  <2>1. Parts(q) \subseteq Desc /\ Parts(q) \cap Parts(p) = {}
    BY <1>4, ChainIsParts DEF Separate
  <2>2. head[q] \in Parts(q) /\ Mid(q) \in Parts(q) /\ End(q) \in Parts(q)
    BY DEF Parts
  <2>3. head'[q] = head[q]
    BY <1>1, <1>4 DEF Owners
  <2>4. Mid(q)' = Mid(q)
    BY <1>3, <2>1, <2>2, <2>3 DEF Mid
  <2>5. End(q)' = End(q)
    BY <1>3, <2>1, <2>2, <2>4 DEF Mid, End
  <2> QED BY <1>3, <2>1, <2>2, <2>3, <2>4, <2>5
<1> QED BY <1>2, <1>4

\* The requests of the others stay linked and share no descriptors.
LEMMA FreedKeeps ==
  ASSUME DescTypes, ProcTypes, Linked, Separate, NEW p \in Owners, Freed(p),
         UNCHANGED <<ops, write>>
  PROVE  Linked' /\ Separate'
<1>1. Owners' = Owners \ {p}
  BY FreedChains
<1>2. \A q \in Owners \ {p} :
        /\ head'[q] = head[q] /\ Mid(q)' = Mid(q) /\ End(q)' = End(q)
        /\ next'[End(q)] = next[End(q)] /\ info'[head[q]] = info[head[q]]
        /\ addr'[Mid(q)] = addr[Mid(q)]
  BY FreedChains
<1>3. ASSUME NEW q \in Owners \ {p}
      PROVE  LinkedFor(q)'
  <2>1. LinkedFor(q)
    BY DEF Linked
  <2>2. Request(q)' = Request(q)
    BY DEF Request
  <2> QED BY <1>2, <2>1, <2>2 DEF LinkedFor
<1>4. \A q \in Owners \ {p} : Parts(q)' = Parts(q)
  BY <1>2 DEF Parts
<1>5. free' = free \cup Parts(p)
  BY DEF Freed
<1>6. Separate'
  BY <1>1, <1>4, <1>5 DEF Separate
<1> QED BY <1>1, <1>3, <1>6 DEF Linked

\* The count: three descriptors more, one request fewer.
LEMMA FreedCount ==
  ASSUME Counting, DescTypes, Linked, Separate, CountInv, NEW p \in Owners,
         free' = free \cup Parts(p), Owners' = Owners \ {p}
  PROVE  CountInv'
<1>1. IsFiniteSet(Owners') /\ Cardinality(Owners') = Cardinality(Owners) - 1
  BY OneLess DEF CountInv
<1>2. Cardinality(free) \in Nat /\ Cardinality(Owners) \in Nat /\ IsFiniteSet(free)
  BY FreeFinite, FewOwners
<1>3. /\ head[p] # Mid(p) /\ head[p] # End(p) /\ Mid(p) # End(p)
      /\ head[p] \notin free /\ Mid(p) \notin free /\ End(p) \notin free
  BY DEF Linked, LinkedFor, Separate, Parts
<1>4. Cardinality(free \cup {head[p], Mid(p), End(p)}) = Cardinality(free) + 3
  BY <1>2, <1>3, ThreeMore, Zenon
<1>5. Cardinality(free') = Cardinality(free) + 3
  BY <1>4 DEF Parts
<1> QED BY <1>1, <1>2, <1>5 DEF CountInv

\* A request that is done: free_chain().
LEMMA FinishKeeps ==
  ASSUME Counting, QueueInv, NEW p \in Proc, Finish(p)
  PROVE  QueueInv'
<1> USE DEF QueueInv
<1>1. pc[p] = "test" /\ busy[p] = 0 /\ lock' = None
  BY DEF Finish
<1>2. p \in Owners /\ lock = p
  BY <1>1 DEF ControlInv, ControlFor
<1>3. head[p] \in Desc /\ Parts(p) \subseteq Desc /\ Chain(head[p]) = Parts(p)
  BY <1>2, ChainIsParts DEF ProcTypes, Owners
<1>4. Freed(p)
  BY <1>3 DEF Finish, Freed
<1>5. UNCHANGED <<ops, status, avail, availIdx, inflight, finished, busy, write, disk>>
  BY DEF Finish, availVars, deviceVars
<1>6. Owners' = Owners \ {p}
  BY <1>2, <1>4, FreedChains
<1>7. \A q \in Owners \ {p} : head'[q] = head[q] /\ info'[head[q]] = info[head[q]]
  BY <1>2, <1>4, FreedChains
<1>8. Linked' /\ Separate'
  BY <1>2, <1>4, <1>5, FreedKeeps
<1>9. CountInv'
  <2>1. free' = free \cup Parts(p)
    BY <1>4 DEF Freed
  <2> QED BY <1>2, <1>6, <2>1, FreedCount
<1>10. DescTypes'
  BY <1>3, <1>4, <1>5 DEF Freed, DescTypes
<1>11. RingTypes'
  BY RingTypesSame DEF Finish
<1>12. pc \in [Proc -> Place] /\ WakeAllocators(pc) \in [Proc -> Place]
  BY DEF WakeAllocators, ProcTypes, Place
<1>13. ProcTypes'
  <2>1. pc' \in [Proc -> Place]
    BY <1>12 DEF Finish, Place
  <2> QED BY <2>1 DEF Finish, ProcTypes
<1>14. /\ pc'[p] = "out"
       /\ \A q \in Proc \ {p} : pc'[q] = pc[q] \/ (pc[q] = "alloc_sleep" /\ pc'[q] = "alloc")
  <2>1. \A q \in Proc : WakeAllocators(pc)[q] = IF pc[q] = "alloc_sleep" THEN "alloc" ELSE pc[q]
    BY DEF WakeAllocators
  <2> QED BY <1>12, <2>1 DEF Finish
<1>15. ControlInv'
  <2>1. ControlFor(p)'
    <3>1. lock' # p
      BY <1>1, VirtioAssumption
    <3> QED BY <1>1, <1>5, <1>6, <1>14, <3>1 DEF ControlFor
  <2>2. ASSUME NEW q \in Proc, q # p
        PROVE  ControlFor(q)'
    <3>1. lock # q /\ lock' # q
      BY <1>1, <1>2, <2>2, VirtioAssumption
    <3>2. ControlFor(q)
      BY DEF ControlInv
    <3>3. pc[q] # "notify" /\ pc'[q] # "notify"
      BY <1>14, <2>2, <3>1, <3>2 DEF ControlFor
    <3> QED BY <1>5, <1>6, <1>14, <2>2, <3>1, <3>2, <3>3 DEF ControlFor
  <2> QED BY <2>1, <2>2 DEF ControlInv
<1>16. AvailQueue' = AvailQueue /\ UsedQueue' = UsedQueue
  BY AvailSame, UsedSame DEF Finish, availVars, usedVars, deviceVars
<1>17. OnItsWay' = OnItsWay
  BY <1>5, <1>16 DEF OnItsWay
<1>18. Apart'
  BY <1>5, <1>16 DEF Apart
<1>19. Owned'
  <2>1. head[p] \notin OnItsWay
    BY <1>1, <1>2 DEF Awaited
  <2>2. \A h \in OnItsWay : info[h] \in Owners \ {p} /\ head[info[h]] = h
    BY <2>1 DEF Owned
  <2> QED BY <1>6, <1>7, <1>17, <2>2 DEF Owned
<1>20. Awaited'
  <2>1. \A q \in Owners \ {p} : pc'[q] = "notify" <=> pc[q] = "notify"
    BY <1>14 DEF Owners
  <2> QED BY <1>5, <1>6, <1>7, <1>17, <2>1 DEF Awaited
<1>21. DataInv'
  <2>1. data' = [data EXCEPT ![p] = None]
    BY DEF Finish
  <2>2. \A q \in Proc \ {p} : data'[q] = data[q]
    BY <2>1 DEF ProcTypes
  <2>3. \A q \in Proc \ {p} : Moved(q)' = Moved(q)
    BY <1>5, <1>6, <1>7, <1>16 DEF Moved
  <2>4. \A q \in Proc \ {p} : pc'[q] # "out" => pc[q] # "out"
    BY <1>14
  <2>5. \A q \in Proc \ {p} : DataFor(q)'
    BY <1>5, <2>2, <2>3, <2>4 DEF DataInv, DataFor
  <2>6. DataFor(p)'
    BY <1>14 DEF DataFor
  <2> QED BY <2>5, <2>6 DEF DataInv
<1> QED BY <1>8, <1>9, <1>10, <1>11, <1>13, <1>15, <1>18, <1>19, <1>20, <1>21

=============================================================================
