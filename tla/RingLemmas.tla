----------------------------- MODULE RingLemmas -----------------------------
(***************************************************************************)
(* Facts about the rings of the kernel: an array of m slots with two       *)
(* free-running indexes lo and hi that wrap at W, a multiple of m, as in   *)
(* pipe.c, console.c, uart.c and virtio_disk.c.                            *)
(***************************************************************************)
EXTENDS Integers, Sequences, TLAPS

\* What the code takes for granted of the two sizes.
IsRing(m, W) == m \in Nat \ {0} /\ W \in Nat \ {0} /\ m < W /\ W % m = 0

\* What is in the slots of f from lo up to hi, oldest first.
RingSeq(f, lo, hi, m, W) == [i \in 1 .. (hi - lo) % W |-> f[(lo + i - 1) % m]]

-----------------------------------------------------------------------------
(* Arithmetic                                                              *)

\* Quotient and remainder.
LEMMA DivMod ==
  ASSUME NEW m \in Nat \ {0}, NEW a \in Int
  PROVE  \E q \in Int, r \in 0 .. m - 1 : a = m * q + r
<1>1. a = m * (a \div m) + (a % m)
  OBVIOUS
<1>2. a \div m \in Int /\ a % m \in 0 .. m - 1
  OBVIOUS
<1> QED BY <1>1, <1>2

\* The remainder is the only one.
LEMMA ModIs ==
  ASSUME NEW m \in Nat \ {0}, NEW q \in Int, NEW r \in 0 .. m - 1
  PROVE  (m * q + r) % m = r
OBVIOUS

\* Multiples of the modulus do not matter.
LEMMA ModShift ==
  ASSUME NEW m \in Nat \ {0}, NEW q \in Int, NEW a \in Int
  PROVE  (m * q + a) % m = a % m
<1>1. PICK d \in Int, r \in 0 .. m - 1 : a = m * d + r
  BY DivMod
<1>2. m * q + a = m * (q + d) + r
  BY <1>1
<1>3. a % m = r
  BY <1>1, ModIs
<1>4. (m * (q + d) + r) % m = r
  BY ModIs
<1> QED BY <1>2, <1>3, <1>4

\* Fewer than m consecutive numbers have different remainders.
LEMMA ModApart ==
  ASSUME NEW m \in Nat \ {0}, NEW a \in Int, NEW d \in 1 .. m - 1
  PROVE  (a + d) % m # a % m
<1>1. PICK q \in Int, r \in 0 .. m - 1 : a = m * q + r
  BY DivMod
<1>2. a % m = r
  BY <1>1, ModIs
<1>3. CASE r + d < m
  <2>1. (m * q + (r + d)) % m = r + d
    BY <1>3, ModIs
  <2> QED BY <1>1, <1>2, <2>1
<1>4. CASE r + d >= m
  <2>1. (m * (q + 1) + (r + d - m)) % m = r + d - m
    <3>1. r + d - m \in 0 .. m - 1 /\ q + 1 \in Int
      BY <1>4
    <3> QED BY <3>1, ModIs
  <2>2. a + d = m * (q + 1) + (r + d - m)
    BY <1>1
  <2> QED BY <1>2, <2>1, <2>2
<1> QED BY <1>3, <1>4

\* The distance of two counters, and the one that comes after a counter.
LEMMA Distance ==
  ASSUME NEW W \in Nat \ {0}, NEW r \in 0 .. W - 1, NEW w \in 0 .. W - 1
  PROVE  /\ (w - r) % W = IF w >= r THEN w - r ELSE w - r + W
         /\ (w - r) % W \in 0 .. W - 1
         /\ (w + 1) % W = IF w + 1 = W THEN 0 ELSE w + 1
         /\ (w + 1) % W \in 0 .. W - 1
OBVIOUS

\* The producer's test for a full ring compares indexes; it says how far
\* they are apart.
LEMMA FullDistance ==
  ASSUME NEW W \in Nat, NEW m \in Nat, m < W, NEW r \in 0 .. W - 1, NEW w \in 0 .. W - 1
  PROVE  w = (r + m) % W <=> (w - r) % W = m
OBVIOUS

\* An entry more, unless the producer has gone all the way round.
LEMMA DistanceAdded ==
  ASSUME NEW W \in Nat \ {0}, NEW r \in 0 .. W - 1, NEW w \in 0 .. W - 1, (w - r) % W # W - 1
  PROVE  (((w + 1) % W) - r) % W = ((w - r) % W) + 1
OBVIOUS

\* An entry less, taken by the consumer.
LEMMA DistanceRemoved ==
  ASSUME NEW W \in Nat \ {0}, NEW r \in 0 .. W - 1, NEW w \in 0 .. W - 1, w # r
  PROVE  (w - ((r + 1) % W)) % W = ((w - r) % W) - 1
OBVIOUS

\* An entry less, taken back by the producer.
LEMMA DistanceBack ==
  ASSUME NEW W \in Nat \ {0}, NEW r \in 0 .. W - 1, NEW w \in 0 .. W - 1, w # r
  PROVE  (((w - 1) % W) - r) % W = ((w - r) % W) - 1 /\ (w - 1) % W \in 0 .. W - 1
OBVIOUS

\* The producer's index from the consumer's and the distance,
LEMMA DistanceEnd ==
  ASSUME NEW W \in Nat \ {0}, NEW r \in 0 .. W - 1, NEW w \in 0 .. W - 1
  PROVE  (r + ((w - r) % W)) % W = w
OBVIOUS

\* and the other way round.
LEMMA DistanceStart ==
  ASSUME NEW W \in Nat \ {0}, NEW r \in 0 .. W - 1, NEW w \in 0 .. W - 1
  PROVE  (w - ((w - r) % W)) % W = r
OBVIOUS

\* Several entries less, taken back by the producer.
LEMMA DistanceLess ==
  ASSUME NEW W \in Nat \ {0}, NEW r \in 0 .. W - 1, NEW w \in 0 .. W - 1,
         NEW d \in 0 .. (w - r) % W
  PROVE  (((w - d) % W) - r) % W = ((w - r) % W) - d
OBVIOUS

\* One index is behind another by d.
LEMMA DistanceIs ==
  ASSUME NEW W \in Nat \ {0}, NEW lo \in 0 .. W - 1, NEW d \in 0 .. W - 1
  PROVE  (((lo + d) % W) - lo) % W = d
OBVIOUS

-----------------------------------------------------------------------------
(* Slots and contents                                                      *)

\* The indexes wrap at a multiple of m, so that the slots go on where they
\* were.
LEMMA SlotShift ==
  ASSUME NEW m, NEW W, IsRing(m, W), NEW a \in Int
  PROVE  (W + a) % m = a % m
<1> USE DEF IsRing
<1>1. W = m * (W \div m) + (W % m)
  OBVIOUS
<1>2. W = m * (W \div m) /\ W \div m \in Int
  BY <1>1
<1>3. (m * (W \div m) + a) % m = a % m
  BY <1>2, ModShift
<1> QED BY <1>2, <1>3

\* The slot k places behind lo, whether the index has wrapped or not.
LEMMA SlotBehind ==
  ASSUME NEW m, NEW W, IsRing(m, W), NEW lo \in 0 .. W - 1, NEW d \in 0 .. W, NEW a \in Int
  PROVE  (((lo + d) % W) + a) % m = (lo + d + a) % m
<1>1. (lo + d) % W = IF lo + d < W THEN lo + d ELSE lo + d - W
  BY DEF IsRing
<1>2. W \in Nat
  BY DEF IsRing
<1>3. CASE lo + d < W
  BY <1>1, <1>3
<1>4. CASE lo + d >= W
  <2>1. lo + d - W + a \in Int
    BY <1>2
  <2>2. (W + (lo + d - W + a)) % m = (lo + d - W + a) % m
    BY <2>1, SlotShift
  <2>3. W + (lo + d - W + a) = lo + d + a /\ ((lo + d) % W) + a = lo + d - W + a
    BY <1>1, <1>2, <1>4
  <2> QED BY <2>2, <2>3
<1> QED BY <1>2, <1>3, <1>4

\* hi is the slot behind the last one.
LEMMA SlotOfEnd ==
  ASSUME NEW m, NEW W, IsRing(m, W), NEW lo \in 0 .. W - 1, NEW hi \in 0 .. W - 1
  PROVE  hi % m = (lo + ((hi - lo) % W)) % m
<1>1. (hi - lo) % W = IF hi >= lo THEN hi - lo ELSE hi - lo + W
  BY Distance DEF IsRing
<1>2. W \in Nat
  BY DEF IsRing
<1>3. CASE hi >= lo
  BY <1>1, <1>2, <1>3
<1>4. CASE hi < lo
  <2>1. (W + hi) % m = hi % m
    BY <1>2, SlotShift
  <2>2. lo + ((hi - lo) % W) = W + hi
    BY <1>1, <1>2, <1>4
  <2> QED BY <2>1, <2>2
<1> QED BY <1>2, <1>3, <1>4

\* No slot from lo to hi is the one of hi, while the ring is not full.
LEMMA SlotFree ==
  ASSUME NEW m, NEW W, IsRing(m, W), NEW lo \in 0 .. W - 1, NEW hi \in 0 .. W - 1,
         (hi - lo) % W < m, NEW k \in 0 .. ((hi - lo) % W) - 1
  PROVE  (lo + k) % m # hi % m
<1>1. PICK d \in 0 .. W - 1 : d = (hi - lo) % W
  BY Distance DEF IsRing
<1>2. d - k \in 1 .. m - 1 /\ lo + k \in Int /\ (lo + k) + (d - k) = lo + d
  BY <1>1 DEF IsRing
<1>3. ((lo + k) + (d - k)) % m # (lo + k) % m
  BY <1>2, ModApart DEF IsRing
<1>4. hi % m = (lo + d) % m
  <2>1. hi % m = (lo + ((hi - lo) % W)) % m
    BY SlotOfEnd
  <2> QED BY <1>1, <2>1
<1> QED BY <1>2, <1>3, <1>4

\* The sizes without what is known of their quotient.
LEMMA RingSizes ==
  ASSUME NEW m, NEW W, IsRing(m, W)
  PROVE  m \in Nat \ {0} /\ W \in Nat \ {0} /\ m < W
BY DEF IsRing

\* The contents are a sequence as long as the distance of the indexes.
Lists(s, B, f, lo, d, m) ==
  /\ s \in Seq(B) /\ Len(s) = d
  /\ \A i \in 1 .. d : s[i] = f[(lo + i - 1) % m] /\ (lo + i - 1) % m \in 0 .. m - 1

\* The entries of a ring as a sequence: which they are, in which order.
LEMMA RingSeqIs ==
  ASSUME NEW B, NEW m, NEW W, IsRing(m, W), NEW lo \in 0 .. W - 1, NEW hi \in 0 .. W - 1,
         NEW f \in [0 .. m - 1 -> B]
  PROVE  Lists(RingSeq(f, lo, hi, m, W), B, f, lo, (hi - lo) % W, m)
<1> DEFINE d == (hi - lo) % W
<1>1. d \in Nat /\ d < W
  <2>1. (hi - lo) % W \in 0 .. W - 1
    BY RingSizes, Distance
  <2> QED BY <2>1, RingSizes
<1> HIDE DEF d
<1>2. \A i \in 1 .. d : (lo + i - 1) % m \in 0 .. m - 1
  <2> TAKE i \in 1 .. d
  <2>1. lo + i - 1 \in Int
    BY RingSizes
  <2> QED BY <2>1, RingSizes
<1>3. \A i \in 1 .. d : f[(lo + i - 1) % m] \in B
  BY <1>2
<1>4. RingSeq(f, lo, hi, m, W) = [i \in 1 .. d |-> f[(lo + i - 1) % m]]
  BY Zenon DEF RingSeq, d
<1>5. /\ RingSeq(f, lo, hi, m, W) \in Seq(B)
      /\ Len(RingSeq(f, lo, hi, m, W)) = d
      /\ \A i \in 1 .. d : RingSeq(f, lo, hi, m, W)[i] = f[(lo + i - 1) % m]
  <2> HIDE DEF RingSeq
  <2> DEFINE g(i) == f[(lo + i - 1) % m]
  <2>1. RingSeq(f, lo, hi, m, W) = [i \in 1 .. d |-> g(i)] /\ \A i \in 1 .. d : g(i) \in B
    BY <1>3, <1>4
  <2>2. /\ RingSeq(f, lo, hi, m, W) \in Seq(B)
        /\ Len(RingSeq(f, lo, hi, m, W)) = d
        /\ \A i \in 1 .. d : RingSeq(f, lo, hi, m, W)[i] = g(i)
    BY <1>1, <2>1
  <2> QED BY <2>2 DEF g
<1> QED BY <1>2, <1>5, Zenon DEF Lists, d

-----------------------------------------------------------------------------
(* How the contents change                                                 *)

\* Functions that are a sequence with an element more or less, or two sequences.
LEMMA IsAppend ==
  ASSUME NEW S, NEW s \in Seq(S), NEW e \in S, NEW t \in [1 .. Len(s) + 1 -> S],
         \A i \in 1 .. Len(s) : t[i] = s[i], t[Len(s) + 1] = e
  PROVE  t = Append(s, e)
OBVIOUS

\* How to recognise the tail of a sequence,
LEMMA IsTail ==
  ASSUME NEW S, NEW s \in Seq(S), Len(s) > 0, NEW t \in [1 .. Len(s) - 1 -> S],
         \A i \in 1 .. Len(s) - 1 : t[i] = s[i + 1]
  PROVE  t = Tail(s)
OBVIOUS

\* the sequence without its last element,
LEMMA IsFront ==
  ASSUME NEW S, NEW s \in Seq(S), Len(s) > 0, NEW t \in [1 .. Len(s) - 1 -> S],
         \A i \in 1 .. Len(s) - 1 : t[i] = s[i]
  PROVE  t = SubSeq(s, 1, Len(s) - 1)
OBVIOUS

\* and two sequences put together.
LEMMA IsConcat ==
  ASSUME NEW S, NEW s \in Seq(S), NEW u \in Seq(S), NEW t \in [1 .. Len(s) + Len(u) -> S],
         \A i \in 1 .. Len(s) : t[i] = s[i], \A i \in 1 .. Len(u) : t[Len(s) + i] = u[i]
  PROVE  t = s \o u
OBVIOUS

\* An element goes behind the second of two sequences.
LEMMA AppendJoined ==
  ASSUME NEW S, NEW s \in Seq(S), NEW u \in Seq(S), NEW b
  PROVE  Append(s \o u, b) = s \o Append(u, b)
OBVIOUS

\* t is s with b put at its end, and s with b taken from its front.
IsPut(t, s, b)  == t = Append(s, b)
IsTake(t, s, b) == s # <<>> /\ b = s[1] /\ t = Tail(s)

\* g is f but for slot k.
Writes(f, g, k, m) == \A i \in 0 .. m - 1 : i # k => g[i] = f[i]

\* An element is put behind the last one, and no other is overwritten.
LEMMA RingPut ==
  ASSUME NEW B, NEW m, NEW W, IsRing(m, W), NEW lo \in 0 .. W - 1, NEW hi \in 0 .. W - 1,
         NEW f \in [0 .. m - 1 -> B], NEW g \in [0 .. m - 1 -> B], Writes(f, g, hi % m, m),
         (hi - lo) % W < m
  PROVE  IsPut(RingSeq(g, lo, (hi + 1) % W, m, W), RingSeq(f, lo, hi, m, W), g[hi % m])
<1> DEFINE b == g[hi % m]
<1> DEFINE d == (hi - lo) % W
           s == RingSeq(f, lo, hi, m, W)
           t == RingSeq(g, lo, (hi + 1) % W, m, W)
<1>1. d \in Nat /\ d < W /\ d # W - 1 /\ d < m
  <2>1. d \in 0 .. W - 1
    BY RingSizes, Distance
  <2> QED BY <2>1, RingSizes
<1>2. d + 1 = (((hi + 1) % W) - lo) % W
  BY <1>1, RingSizes, DistanceAdded
<1>3. (hi + 1) % W \in 0 .. W - 1 /\ hi % m \in 0 .. m - 1
  BY RingSizes, Distance
<1>4. /\ s \in Seq(B) /\ Len(s) = d
      /\ \A i \in 1 .. d : s[i] = f[(lo + i - 1) % m] /\ (lo + i - 1) % m \in 0 .. m - 1
  <2>1. Lists(s, B, f, lo, d, m)
    BY RingSeqIs
  <2> QED BY <2>1, Zenon DEF Lists
<1>5. b \in B
  BY <1>3
<1>6. /\ t \in Seq(B) /\ Len(t) = d + 1
      /\ \A i \in 1 .. d + 1 : t[i] = g[(lo + i - 1) % m]
  <2>1. Lists(t, B, g, lo, (((hi + 1) % W) - lo) % W, m)
    BY <1>3, RingSeqIs
  <2> HIDE DEF d, t
  <2>2. Lists(t, B, g, lo, d + 1, m)
    BY <1>2, <2>1, Zenon
  <2> QED BY <2>2, Zenon DEF Lists
<1>7. ASSUME NEW i \in 1 .. d
      PROVE  g[(lo + i - 1) % m] = s[i]
  <2>1. i - 1 \in 0 .. d - 1 /\ lo + (i - 1) = lo + i - 1
    BY <1>1, RingSizes
  <2>2. (lo + i - 1) % m # hi % m
    BY <1>1, <2>1, SlotFree
  <2> QED BY <1>4, <2>2 DEF Writes
<1>8. g[(lo + (d + 1) - 1) % m] = b
  <2>1. hi % m = (lo + d) % m
    BY SlotOfEnd
  <2>2. lo + (d + 1) - 1 = lo + d
    BY <1>1, RingSizes
  <2> QED BY <1>3, <2>1, <2>2
<1> HIDE DEF b, d, s, t
<1>9. t = Append(s, b)
  <2>1. t \in [1 .. Len(s) + 1 -> B]
    BY <1>1, <1>4, <1>6
  <2>2. \A i \in 1 .. Len(s) : t[i] = s[i]
    <3> TAKE i \in 1 .. Len(s)
    <3>1. i \in 1 .. d /\ i \in 1 .. d + 1
      BY <1>1, <1>4
    <3> QED BY <1>6, <1>7, <3>1, Zenon
  <2>3. t[Len(s) + 1] = b
    BY <1>1, <1>4, <1>6, <1>8
  <2> QED BY <1>4, <1>5, <2>1, <2>2, <2>3, IsAppend
<1> QED BY <1>9 DEF b, s, t, IsPut

\* The first element is taken away.
LEMMA RingGet ==
  ASSUME NEW B, NEW m, NEW W, IsRing(m, W), NEW lo \in 0 .. W - 1, NEW hi \in 0 .. W - 1,
         NEW f \in [0 .. m - 1 -> B], lo # hi
  PROVE  IsTake(RingSeq(f, (lo + 1) % W, hi, m, W), RingSeq(f, lo, hi, m, W), f[lo % m])
<1> DEFINE d == (hi - lo) % W
           s == RingSeq(f, lo, hi, m, W)
           t == RingSeq(f, (lo + 1) % W, hi, m, W)
<1>1. d \in Nat /\ d > 0 /\ d < W
  <2>1. d = (IF hi >= lo THEN hi - lo ELSE hi - lo + W)
    BY RingSizes, Distance
  <2> HIDE DEF d
  <2> QED BY <2>1, RingSizes
<1>2. d - 1 = (hi - ((lo + 1) % W)) % W
  BY RingSizes, DistanceRemoved
<1>3. (lo + 1) % W \in 0 .. W - 1
  BY RingSizes, Distance
<1>4. s \in Seq(B) /\ Len(s) = d /\ \A i \in 1 .. d : s[i] = f[(lo + i - 1) % m]
  <2>1. Lists(s, B, f, lo, d, m)
    BY RingSeqIs
  <2> QED BY <2>1, Zenon DEF Lists
<1>5. /\ t \in Seq(B) /\ Len(t) = d - 1
      /\ \A i \in 1 .. d - 1 : t[i] = f[(((lo + 1) % W) + i - 1) % m]
  <2>1. Lists(t, B, f, (lo + 1) % W, (hi - ((lo + 1) % W)) % W, m)
    BY <1>3, RingSeqIs
  <2> HIDE DEF d, t
  <2>2. Lists(t, B, f, (lo + 1) % W, d - 1, m)
    BY <1>2, <2>1, Zenon
  <2> QED BY <2>2, Zenon DEF Lists
<1>6. ASSUME NEW i \in 1 .. d - 1
      PROVE  t[i] = s[i + 1]
  <2>0. i \in Int /\ i - 1 \in Int /\ i + 1 \in 1 .. d
    BY <1>1
  <2>1. (((lo + 1) % W) + (i - 1)) % m = (lo + 1 + (i - 1)) % m
    <3>1. 1 \in 0 .. W
      BY RingSizes
    <3> QED BY <2>0, <3>1, SlotBehind
  <2>2. lo + 1 + (i - 1) = lo + (i + 1) - 1 /\ ((lo + 1) % W) + (i - 1) = ((lo + 1) % W) + i - 1
    BY <1>3, <2>0, RingSizes
  <2> QED BY <1>4, <1>5, <2>0, <2>1, <2>2
<1> HIDE DEF d, s, t
<1>7. t = Tail(s)
  <2>1. t \in [1 .. Len(s) - 1 -> B]
    BY <1>1, <1>4, <1>5
  <2> QED BY <1>1, <1>4, <1>6, <2>1, IsTail
<1>8. s # <<>> /\ s[1] = f[lo % m]
  <2>1. lo + 1 - 1 = lo
    BY RingSizes
  <2> QED BY <1>1, <1>4, <2>1
<1> QED BY <1>7, <1>8 DEF s, t, IsTake

\* A slot is written behind the contents.
LEMMA RingBefore ==
  ASSUME NEW m, NEW W, IsRing(m, W), NEW lo \in 0 .. W - 1, NEW mid \in 0 .. W - 1,
         NEW hi \in 0 .. W - 1, NEW f, NEW g, Writes(f, g, hi % m, m),
         (mid - lo) % W <= (hi - lo) % W, (hi - lo) % W < m
  PROVE  RingSeq(g, lo, mid, m, W) = RingSeq(f, lo, mid, m, W)
<1> DEFINE c == (mid - lo) % W
           d == (hi - lo) % W
<1>1. c \in Nat /\ d \in Nat /\ c <= d /\ d < m
  <2>1. c \in 0 .. W - 1 /\ d \in 0 .. W - 1
    BY RingSizes, Distance
  <2> QED BY <2>1, RingSizes
<1>2. ASSUME NEW i \in 1 .. c
      PROVE  g[(lo + i - 1) % m] = f[(lo + i - 1) % m]
  <2>1. i - 1 \in 0 .. d - 1 /\ lo + (i - 1) = lo + i - 1
    <3> HIDE DEF c, d
    <3> QED BY <1>1, RingSizes
  <2>2. (lo + i - 1) % m # hi % m
    BY <1>1, <2>1, SlotFree
  <2>3. (lo + i - 1) % m \in 0 .. m - 1
    <3>1. lo + i - 1 \in Int
      BY <1>1, RingSizes
    <3> QED BY <3>1, RingSizes
  <2> QED BY <2>2, <2>3 DEF Writes
<1> HIDE DEF c
<1>3. [i \in 1 .. c |-> g[(lo + i - 1) % m]] = [i \in 1 .. c |-> f[(lo + i - 1) % m]]
  BY <1>2, Zenon
<1> QED BY <1>3, Zenon DEF RingSeq, c

\* A slot is written before the index says so.
LEMMA RingUntouched ==
  ASSUME NEW m, NEW W, IsRing(m, W), NEW lo \in 0 .. W - 1, NEW hi \in 0 .. W - 1,
         NEW f, NEW g, Writes(f, g, hi % m, m), (hi - lo) % W < m
  PROVE  RingSeq(g, lo, hi, m, W) = RingSeq(f, lo, hi, m, W)
<1>1. (hi - lo) % W <= (hi - lo) % W
  <2>1. (hi - lo) % W \in 0 .. W - 1
    BY RingSizes, Distance
  <2> QED BY <2>1, RingSizes
<1> QED BY <1>1, RingBefore

\* Two indexes that meet.
LEMMA RingEmpty ==
  ASSUME NEW m, NEW W, IsRing(m, W), NEW lo \in 0 .. W - 1, NEW f
  PROVE  RingSeq(f, lo, lo, m, W) = <<>>
<1>1. (lo - lo) % W = 0
  BY RingSizes, Distance
<1>2. RingSeq(f, lo, lo, m, W) = [i \in 1 .. 0 |-> f[(lo + i - 1) % m]]
  BY <1>1, Zenon DEF RingSeq
<1> QED BY <1>2

\* t is s without its last element, and s followed by u.
IsDrop(t, s)    == s # <<>> /\ t = SubSeq(s, 1, Len(s) - 1)
IsJoin(t, s, u) == t = s \o u

\* The last element is taken away.
LEMMA RingDrop ==
  ASSUME NEW B, NEW m, NEW W, IsRing(m, W), NEW lo \in 0 .. W - 1, NEW hi \in 0 .. W - 1,
         NEW f \in [0 .. m - 1 -> B], lo # hi
  PROVE  IsDrop(RingSeq(f, lo, (hi - 1) % W, m, W), RingSeq(f, lo, hi, m, W))
<1> DEFINE d == (hi - lo) % W
           s == RingSeq(f, lo, hi, m, W)
           t == RingSeq(f, lo, (hi - 1) % W, m, W)
<1>1. d \in Nat /\ d > 0
  <2>1. d = (IF hi >= lo THEN hi - lo ELSE hi - lo + W)
    BY RingSizes, Distance
  <2> HIDE DEF d
  <2> QED BY <2>1, RingSizes
<1>2. d - 1 = (((hi - 1) % W) - lo) % W /\ (hi - 1) % W \in 0 .. W - 1
  BY RingSizes, DistanceBack
<1>3. s \in Seq(B) /\ Len(s) = d /\ \A i \in 1 .. d : s[i] = f[(lo + i - 1) % m]
  <2>1. Lists(s, B, f, lo, d, m)
    BY RingSeqIs
  <2> QED BY <2>1, Zenon DEF Lists
<1>4. t \in Seq(B) /\ Len(t) = d - 1 /\ \A i \in 1 .. d - 1 : t[i] = f[(lo + i - 1) % m]
  <2>1. Lists(t, B, f, lo, (((hi - 1) % W) - lo) % W, m)
    BY <1>2, RingSeqIs
  <2> HIDE DEF d, t
  <2>2. Lists(t, B, f, lo, d - 1, m)
    BY <1>2, <2>1, Zenon
  <2> QED BY <2>2, Zenon DEF Lists
<1> HIDE DEF d, s, t
<1>5. t = SubSeq(s, 1, Len(s) - 1)
  <2>1. t \in [1 .. Len(s) - 1 -> B]
    BY <1>1, <1>3, <1>4
  <2>2. \A i \in 1 .. Len(s) - 1 : t[i] = s[i]
    <3> TAKE i \in 1 .. Len(s) - 1
    <3>1. i \in 1 .. d /\ i \in 1 .. d - 1
      BY <1>1, <1>3
    <3> QED BY <1>3, <1>4, <3>1, Zenon
  <2> QED BY <1>1, <1>3, <2>1, <2>2, IsFront
<1> QED BY <1>1, <1>3, <1>5 DEF s, t, IsDrop

\* The contents are divided at an index between the two ends.
LEMMA RingJoin ==
  ASSUME NEW B, NEW m, NEW W, IsRing(m, W), NEW lo \in 0 .. W - 1, NEW mid \in 0 .. W - 1,
         NEW hi \in 0 .. W - 1, NEW f \in [0 .. m - 1 -> B],
         ((mid - lo) % W) + ((hi - mid) % W) = (hi - lo) % W
  PROVE  IsJoin(RingSeq(f, lo, hi, m, W), RingSeq(f, lo, mid, m, W), RingSeq(f, mid, hi, m, W))
<1> DEFINE c == (mid - lo) % W
           d == (hi - mid) % W
           t == RingSeq(f, lo, hi, m, W)
           s == RingSeq(f, lo, mid, m, W)
           u == RingSeq(f, mid, hi, m, W)
<1>1. c \in 0 .. W - 1 /\ d \in Nat /\ lo \in Int /\ mid \in Int
  <2>1. c \in 0 .. W - 1 /\ d \in 0 .. W - 1
    BY RingSizes, Distance
  <2> QED BY <2>1, RingSizes
<1>2. s \in Seq(B) /\ Len(s) = c /\ \A i \in 1 .. c : s[i] = f[(lo + i - 1) % m]
  <2>1. Lists(s, B, f, lo, c, m)
    BY RingSeqIs
  <2> QED BY <2>1, Zenon DEF Lists
<1>3. u \in Seq(B) /\ Len(u) = d /\ \A i \in 1 .. d : u[i] = f[(mid + i - 1) % m]
  <2>1. Lists(u, B, f, mid, d, m)
    BY RingSeqIs
  <2> QED BY <2>1, Zenon DEF Lists
<1>4. t \in Seq(B) /\ Len(t) = c + d /\ \A i \in 1 .. c + d : t[i] = f[(lo + i - 1) % m]
  <2>1. Lists(t, B, f, lo, (hi - lo) % W, m)
    BY RingSeqIs
  <2> HIDE DEF t
  <2>2. Lists(t, B, f, lo, c + d, m)
    BY <2>1, Zenon
  <2> QED BY <2>2, Zenon DEF Lists
<1>5. (lo + c) % W = mid
  BY RingSizes, DistanceEnd
<1> HIDE DEF c, d, s, t, u
<1>6. ASSUME NEW i \in 1 .. d
      PROVE  t[c + i] = u[i]
  <2>1. /\ i - 1 \in Int /\ c + i \in 1 .. c + d /\ c \in 0 .. W
        /\ lo + c + (i - 1) = lo + (c + i) - 1 /\ mid + (i - 1) = mid + i - 1
    BY <1>1, RingSizes
  <2>2. (((lo + c) % W) + (i - 1)) % m = (lo + c + (i - 1)) % m
    BY <2>1, SlotBehind
  <2>3. (mid + i - 1) % m = (lo + (c + i) - 1) % m
    BY <1>5, <2>1, <2>2
  <2>4. t[c + i] = f[(lo + (c + i) - 1) % m]
    BY <1>4, <2>1, Zenon
  <2> QED BY <1>3, <2>3, <2>4
<1>7. ASSUME NEW i \in 1 .. c
      PROVE  t[i] = s[i]
  <2>1. i \in 1 .. c + d
    BY <1>1
  <2> QED BY <1>2, <1>4, <2>1
<1>8. t = s \o u
  <2>1. t \in [1 .. Len(s) + Len(u) -> B]
    BY <1>1, <1>2, <1>3, <1>4
  <2>2. \A i \in 1 .. Len(s) : t[i] = s[i]
    BY <1>2, <1>7
  <2>3. \A i \in 1 .. Len(u) : t[Len(s) + i] = u[i]
    BY <1>2, <1>3, <1>6, Zenon
  <2> QED BY <1>2, <1>3, <2>1, <2>2, <2>3, IsConcat
<1> QED BY <1>8 DEF s, t, u, IsJoin
=============================================================================
