---------------------------- MODULE SerialProofs ----------------------------
(***************************************************************************)
(* Proofs about the serial line: console output (Uart) and console input   *)
(* (Input, an instance of Console), for any number of readers and writers, *)
(* any size of the buffers and any width of the indexes.                   *)
(***************************************************************************)
EXTENDS Uart, ConsoleInput, RingLemmas, FiniteSetTheorems

-----------------------------------------------------------------------------
(* Output: the invariant.                                                  *)

WriterAt == {"idle", "acquire", "full", "sleep", "start", "send"}
IntrAt   == {"idle", "acquire", "start", "send"}
SyncAt   == {"idle", "spin", "put"}
Locked   == {"full", "start", "send"}

\* uart_tx_lock is held by the thread that is inside the critical section,
\* and uartputc_sync() does without it.
LockInv ==
  /\ \A p \in Writer : pc[p] \in WriterAt
  /\ pc[Intr] \in IntrAt
  /\ \A s \in Sync : pc[s] \in SyncAt
  /\ \A t \in Thread : lock = t <=> pc[t] \in Locked

\* The bytes that wait; uartstart() sends one only if there is one.
Length == (tx_w - tx_r) % Wrap

CountInv ==
  /\ Length \in 0 .. UART_TX_BUF_SIZE
  /\ \A t \in Thread : pc[t] = "send" => ~Empty

\* The threads between the test of LSR and the write of THR.  The device was
\* empty at each of these tests, so it has room for all of them.
InFlight == {t \in Thread : pc[t] \in {"send", "put"}}

RoomInv ==
  /\ fifo + Cardinality(InFlight) <= Cardinality(Sync) + 1
  /\ NothingLost

\* While bytes wait, the device will interrupt, or an interrupt is on its
\* way, or somebody is in uartstart().
SendInv ==
  \/ Empty
  \/ fifo > 0 \/ irq = 1 \/ pc[Intr] = "acquire"
  \/ \E t \in Thread : pc[t] \in {"start", "send"}

\* The inductive invariant.
SafeInv == TypeOK /\ LockInv /\ CountInv /\ RoomInv /\ SendInv

-----------------------------------------------------------------------------
(* Sizes                                                                   *)

\* What the proofs use of the sizes.
LEMMA Sizes ==
  ASSUME UartConstants
  PROVE  /\ UART_TX_BUF_SIZE \in Nat \ {0} /\ Wrap \in Nat \ {0} /\ UART_TX_BUF_SIZE < Wrap
         /\ FifoSize \in Nat
BY DEF UartConstants

\* uart_tx_buf and its indexes are a ring.
LEMMA UartIsRing ==
  ASSUME UartConstants
  PROVE  IsRing(UART_TX_BUF_SIZE, Wrap)
BY DEF UartConstants, IsRing

\* The threads have different names.
LEMMA Apart ==
  ASSUME UartConstants
  PROVE  /\ Writer \cap Sync = {} /\ Intr \notin Writer \cup Sync /\ None \notin Thread
         /\ Thread = Writer \cup Sync \cup {Intr}
BY DEF UartConstants, Thread

\* A byte is added to a buffer that is not full.
LEMMA OneMore ==
  ASSUME UartConstants, TypeOK, CountInv, ~Full, tx_w' = (tx_w + 1) % Wrap, tx_r' = tx_r
  PROVE  tx_w' \in 0 .. Wrap - 1 /\ Length < UART_TX_BUF_SIZE /\ Length' = Length + 1
<1>1. tx_w = (tx_r + UART_TX_BUF_SIZE) % Wrap <=> Length = UART_TX_BUF_SIZE
  <2>1. /\ tx_r \in 0 .. Wrap - 1 /\ tx_w \in 0 .. Wrap - 1
        /\ Wrap \in Nat /\ UART_TX_BUF_SIZE \in Nat
    BY Sizes DEF TypeOK
  <2> QED BY Zenon, <2>1, Sizes, FullDistance DEF Length
<1>2. Length < UART_TX_BUF_SIZE /\ Length # Wrap - 1
  BY <1>1, Sizes DEF CountInv, Full
<1>3. (((tx_w + 1) % Wrap) - tx_r) % Wrap = Length + 1
  BY <1>2, Sizes, DistanceAdded DEF TypeOK, Length
<1>4. (tx_w + 1) % Wrap \in 0 .. Wrap - 1
  BY Sizes DEF TypeOK
<1>5. Length' = (((tx_w + 1) % Wrap) - tx_r) % Wrap
  BY DEF Length
<1> QED BY <1>2, <1>3, <1>4, <1>5

\* A byte is taken from a buffer that is not empty.
LEMMA OneLess ==
  ASSUME UartConstants, TypeOK, CountInv, ~Empty, tx_r' = (tx_r + 1) % Wrap, tx_w' = tx_w
  PROVE  tx_r' \in 0 .. Wrap - 1 /\ Length > 0 /\ Length' = Length - 1
<1>1. Length = IF tx_w >= tx_r THEN tx_w - tx_r ELSE tx_w - tx_r + Wrap
  BY Sizes DEF TypeOK, Length
<1>2. Length > 0
  BY <1>1, Sizes DEF TypeOK, Empty
<1>3. (tx_w - ((tx_r + 1) % Wrap)) % Wrap = Length - 1
  BY Sizes, DistanceRemoved DEF TypeOK, Empty, Length
<1>4. (tx_r + 1) % Wrap \in 0 .. Wrap - 1
  BY Sizes DEF TypeOK
<1>5. Length' = (tx_w - ((tx_r + 1) % Wrap)) % Wrap
  BY DEF Length
<1> QED BY <1>2, <1>3, <1>4, <1>5

\* The threads between the test and the write are the holder of the lock and
\* those of uartputc_sync().
Counted ==
  /\ IsFiniteSet(InFlight) /\ Cardinality(InFlight) \in Nat /\ Cardinality(Sync) \in Nat
  /\ Cardinality(InFlight) <= Cardinality(Sync) + 1

\* The threads about to write to the device can be counted.
LEMMA InFlightCounted == UartConstants /\ LockInv => Counted
<1> SUFFICES ASSUME UartConstants, LockInv PROVE Counted
  OBVIOUS
<1>1. InFlight \subseteq Sync \cup {lock}
  BY Apart DEF LockInv, InFlight, WriterAt, IntrAt, Locked
<1>2. IsFiniteSet(Sync)
  BY DEF UartConstants
<1>3. /\ IsFiniteSet(Sync \cup {lock}) /\ Cardinality(Sync) \in Nat
      /\ Cardinality(Sync \cup {lock}) <= Cardinality(Sync) + 1
  <2>1. /\ IsFiniteSet(Sync \cup {lock})
        /\ \/ Cardinality(Sync \cup {lock}) = Cardinality(Sync)
           \/ Cardinality(Sync \cup {lock}) = Cardinality(Sync) + 1
    BY <1>2, FS_AddElement
  <2>2. Cardinality(Sync) \in Nat
    BY <1>2, FS_CardinalityType
  <2> QED BY <2>1, <2>2
<1>4. IsFiniteSet(InFlight) /\ Cardinality(InFlight) <= Cardinality(Sync \cup {lock})
  BY <1>1, <1>3, FS_Subset
<1>5. Cardinality(InFlight) \in Nat /\ Cardinality(Sync \cup {lock}) \in Nat
  BY <1>3, <1>4, FS_CardinalityType
<1> QED BY <1>3, <1>4, <1>5 DEF Counted

\* A step between other places.
LEMMA RoomQuiet ==
  ASSUME RoomInv, InFlight' = InFlight, fifo' = fifo, lost' = lost
  PROVE  RoomInv'
BY DEF RoomInv, NothingLost

\* A test that found the device empty.
LEMMA RoomTested ==
  ASSUME UartConstants, RoomInv, LockInv', fifo = 0, fifo' = fifo, lost' = lost
  PROVE  RoomInv'
<1>1. (UartConstants /\ LockInv => Counted)'
  BY InFlightCounted, PTL
<1> QED BY <1>1 DEF Counted, RoomInv, NothingLost

\* A write.
LEMMA RoomWritten ==
  ASSUME UartConstants, TypeOK, LockInv, RoomInv, WriteTHR,
         NEW t \in InFlight, InFlight' = InFlight \ {t}
  PROVE  RoomInv' /\ fifo' \in 0 .. FifoSize /\ lost' \in {0, 1} /\ fifo' >= fifo
<1>1. Counted
  BY InFlightCounted
<1>2. Cardinality(InFlight') = Cardinality(InFlight) - 1
  BY <1>1, FS_RemoveElement DEF Counted
<1>3. fifo + Cardinality(InFlight) <= Cardinality(Sync) + 1 /\ Cardinality(InFlight') \in Nat
  <2>1. IsFiniteSet(InFlight')
    BY <1>1, FS_RemoveElement DEF Counted
  <2> QED BY <2>1, FS_CardinalityType DEF RoomInv
<1>4. fifo <= Cardinality(Sync)
  BY <1>1, <1>2, <1>3 DEF Counted, TypeOK
<1>5. FifoSize > Cardinality(Sync) => lost' = 0
  BY <1>1, <1>4, Sizes DEF Counted, WriteTHR, RoomInv, NothingLost
<1>6. fifo' \in 0 .. FifoSize /\ fifo' <= fifo + 1 /\ lost' \in {0, 1} /\ fifo' >= fifo
  BY Sizes DEF TypeOK, WriteTHR
<1>7. fifo' + Cardinality(InFlight') <= Cardinality(Sync) + 1
  BY <1>1, <1>2, <1>3, <1>6 DEF Counted, TypeOK
<1> QED BY <1>5, <1>6, <1>7 DEF RoomInv, NothingLost

-----------------------------------------------------------------------------
(* Each step of the code keeps the invariant.                              *)

\* The device sends a byte.
LEMMA TransmitKeeps ==
  ASSUME UartConstants, SafeInv, Transmit
  PROVE  SafeInv'
<1> USE DEF SafeInv, Transmit, txVars
<1>1. TypeOK'
  BY Sizes DEF TypeOK
<1>2. LockInv'
  BY DEF TypeOK, LockInv
<1>3. CountInv'
  BY DEF TypeOK, CountInv, Length, Empty
<1>4. RoomInv'
  <2>1. InFlight' = InFlight
    BY DEF InFlight
  <2>2. Counted
    BY InFlightCounted
  <2> QED BY <2>1, <2>2 DEF RoomInv, NothingLost, Counted, TypeOK
<1>5. SendInv'
  BY DEF TypeOK, SendInv
<1> QED BY <1>1, <1>2, <1>3, <1>4, <1>5

\* write() calls uartputc().
LEMMA CallKeeps ==
  ASSUME UartConstants, SafeInv, NEW p \in Writer, Call(p)
  PROVE  SafeInv'
<1> USE Apart DEF SafeInv, Call, Goto, txVars, devVars
<1>1. TypeOK'
  BY DEF TypeOK
<1>2. LockInv'
  BY DEF TypeOK, LockInv, WriterAt, Locked
<1>3. CountInv'
  BY DEF TypeOK, CountInv, Length, Empty
<1>4. RoomInv'
  <2>1. InFlight' = InFlight
    BY DEF TypeOK, InFlight
  <2> QED BY <2>1, RoomQuiet
<1>5. SendInv'
  BY DEF TypeOK, SendInv, Empty
<1> QED BY <1>1, <1>2, <1>3, <1>4, <1>5

\* uartputc() gets the lock.
LEMMA AcquireKeeps ==
  ASSUME UartConstants, SafeInv, NEW p \in Writer, Acquire(p)
  PROVE  SafeInv'
<1> USE Apart DEF SafeInv, Acquire, Goto, txVars, devVars
<1>1. TypeOK'
  BY DEF TypeOK
<1>2. LockInv'
  BY DEF TypeOK, LockInv, WriterAt, Locked
<1>3. CountInv'
  BY DEF TypeOK, CountInv, Length, Empty
<1>4. RoomInv'
  <2>1. InFlight' = InFlight
    BY DEF TypeOK, InFlight
  <2> QED BY <2>1, RoomQuiet
<1>5. SendInv'
  BY DEF TypeOK, SendInv, Empty
<1> QED BY <1>1, <1>2, <1>3, <1>4, <1>5

\* uartputc() finds the buffer full and sleeps.
LEMMA SleepKeeps ==
  ASSUME UartConstants, SafeInv, NEW p \in Writer, Sleep(p)
  PROVE  SafeInv'
<1> USE Apart DEF SafeInv, Sleep, Goto, txVars, devVars
<1>1. TypeOK'
  BY DEF TypeOK
<1>2. LockInv'
  BY DEF TypeOK, LockInv, WriterAt, Locked
<1>3. CountInv'
  BY DEF TypeOK, CountInv, Length, Empty
<1>4. RoomInv'
  <2>1. InFlight' = InFlight
    BY DEF TypeOK, InFlight
  <2> QED BY <2>1, RoomQuiet
<1>5. SendInv'
  BY DEF TypeOK, SendInv, Empty
<1> QED BY <1>1, <1>2, <1>3, <1>4, <1>5

\* uartputc() stores a byte.
LEMMA StoreKeeps ==
  ASSUME UartConstants, SafeInv, NEW p \in Writer, NEW b \in Byte, Store(p, b)
  PROVE  SafeInv'
<1> USE Apart DEF SafeInv, Store, Goto, devVars
<1>1. TypeOK'
  <2>1. tx_w' \in 0 .. Wrap - 1
    BY OneMore
  <2>2. buf' \in [Slot -> Byte]
    BY DEF TypeOK
  <2> QED BY <2>1, <2>2 DEF TypeOK
<1>2. LockInv'
  BY DEF TypeOK, LockInv, WriterAt, Locked
<1>3. CountInv'
  <2>1. Length' \in 0 .. UART_TX_BUF_SIZE
    BY OneMore, Sizes DEF CountInv
  <2>2. \A t \in Thread : pc'[t] # "send"
    BY DEF TypeOK, LockInv, Locked
  <2> QED BY <2>1, <2>2 DEF CountInv
<1>4. RoomInv'
  <2>1. InFlight' = InFlight
    BY DEF TypeOK, InFlight
  <2> QED BY <2>1, RoomQuiet
<1>5. SendInv'
  BY DEF TypeOK, SendInv
<1> QED BY <1>1, <1>2, <1>3, <1>4, <1>5

\* uartstart() has nothing to send, or the device is busy.
LEMMA StartReturnKeeps ==
  ASSUME UartConstants, SafeInv, NEW t \in Writer \cup {Intr}, StartReturn(t)
  PROVE  SafeInv'
<1> USE Apart DEF SafeInv, StartReturn, Goto, txVars, devVars
<1>1. TypeOK'
  BY DEF TypeOK
<1>2. LockInv'
  BY DEF TypeOK, LockInv, WriterAt, IntrAt, Locked
<1>3. CountInv'
  BY DEF TypeOK, CountInv, Length, Empty
<1>4. RoomInv'
  <2>1. InFlight' = InFlight
    BY DEF TypeOK, InFlight
  <2> QED BY <2>1, RoomQuiet
<1>5. SendInv'
  BY DEF TypeOK, SendInv, Empty, Idle
<1> QED BY <1>1, <1>2, <1>3, <1>4, <1>5

\* uartstart() finds the device idle.
LEMMA StartTestKeeps ==
  ASSUME UartConstants, SafeInv, NEW t \in Writer \cup {Intr}, StartTest(t)
  PROVE  SafeInv'
<1> USE Apart DEF SafeInv, StartTest, Goto, txVars, devVars
<1>1. TypeOK'
  BY DEF TypeOK
<1>2. LockInv'
  BY DEF TypeOK, LockInv, WriterAt, IntrAt, Locked
<1>3. CountInv'
  BY DEF TypeOK, CountInv, Length, Empty
<1>4. RoomInv'
  BY <1>2, RoomTested DEF Idle
<1>5. SendInv'
  BY DEF TypeOK, SendInv
<1> QED BY <1>1, <1>2, <1>3, <1>4, <1>5

\* uartstart() writes a byte and wakes the writers.
LEMMA StartSendKeeps ==
  ASSUME UartConstants, SafeInv, NEW t \in Writer \cup {Intr}, StartSend(t)
  PROVE  SafeInv'
<1> USE Apart DEF SafeInv, StartSend
<1>1. ~Empty /\ tx_r' \in 0 .. Wrap - 1
  BY OneLess DEF CountInv
<1>2. RoomInv' /\ fifo' \in 0 .. FifoSize /\ lost' \in {0, 1}
  <2>1. t \in InFlight /\ InFlight' = InFlight \ {t}
    BY DEF TypeOK, InFlight
  <2> QED BY <2>1, RoomWritten
<1>3. TypeOK'
  BY <1>1, <1>2 DEF TypeOK
<1>4. LockInv'
  BY DEF TypeOK, LockInv, WriterAt, IntrAt, SyncAt, Locked
<1>5. CountInv'
  <2>1. Length' \in 0 .. UART_TX_BUF_SIZE
    BY OneLess, Sizes DEF CountInv
  <2>2. \A u \in Thread : pc'[u] # "send"
    BY DEF TypeOK, LockInv, Locked
  <2> QED BY <2>1, <2>2 DEF CountInv
<1>6. RoomInv'
  BY <1>2
<1>7. SendInv'
  BY DEF TypeOK, SendInv
<1> QED BY <1>3, <1>4, <1>5, <1>6, <1>7

\* uartintr() is called.
LEMMA IntrStartKeeps ==
  ASSUME UartConstants, SafeInv, IntrStart
  PROVE  SafeInv'
<1> USE Apart DEF SafeInv, IntrStart, Goto, txVars
<1>1. TypeOK'
  BY DEF TypeOK
<1>2. LockInv'
  BY DEF TypeOK, LockInv, IntrAt, Locked
<1>3. CountInv'
  BY DEF TypeOK, CountInv, Length, Empty
<1>4. RoomInv'
  <2>1. InFlight' = InFlight
    BY DEF TypeOK, InFlight
  <2> QED BY <2>1, RoomQuiet
<1>5. SendInv'
  BY DEF TypeOK, SendInv
<1> QED BY <1>1, <1>2, <1>3, <1>4, <1>5

\* uartintr() gets the lock.
LEMMA IntrAcquireKeeps ==
  ASSUME UartConstants, SafeInv, IntrAcquire
  PROVE  SafeInv'
<1> USE Apart DEF SafeInv, IntrAcquire, Goto, txVars, devVars
<1>1. TypeOK'
  BY DEF TypeOK
<1>2. LockInv'
  BY DEF TypeOK, LockInv, IntrAt, Locked
<1>3. CountInv'
  BY DEF TypeOK, CountInv, Length, Empty
<1>4. RoomInv'
  <2>1. InFlight' = InFlight
    BY DEF TypeOK, InFlight
  <2> QED BY <2>1, RoomQuiet
<1>5. SendInv'
  BY DEF TypeOK, SendInv
<1> QED BY <1>1, <1>2, <1>3, <1>4, <1>5

\* uartputc_sync() is called.
LEMMA SyncCallKeeps ==
  ASSUME UartConstants, SafeInv, NEW s \in Sync, SyncCall(s)
  PROVE  SafeInv'
<1> USE Apart DEF SafeInv, SyncCall, Goto, txVars, devVars
<1>1. TypeOK'
  BY DEF TypeOK
<1>2. LockInv'
  BY DEF TypeOK, LockInv, SyncAt, Locked
<1>3. CountInv'
  BY DEF TypeOK, CountInv, Length, Empty
<1>4. RoomInv'
  <2>1. InFlight' = InFlight
    BY DEF TypeOK, InFlight
  <2> QED BY <2>1, RoomQuiet
<1>5. SendInv'
  BY DEF TypeOK, SendInv, Empty
<1> QED BY <1>1, <1>2, <1>3, <1>4, <1>5

\* uartputc_sync() finds the device idle.
LEMMA SyncTestKeeps ==
  ASSUME UartConstants, SafeInv, NEW s \in Sync, SyncTest(s)
  PROVE  SafeInv'
<1> USE Apart DEF SafeInv, SyncTest, Goto, txVars, devVars
<1>1. TypeOK'
  BY DEF TypeOK
<1>2. LockInv'
  BY DEF TypeOK, LockInv, SyncAt, Locked
<1>3. CountInv'
  BY DEF TypeOK, CountInv, Length, Empty
<1>4. RoomInv'
  BY <1>2, RoomTested DEF Idle
<1>5. SendInv'
  BY DEF TypeOK, SendInv, Empty
<1> QED BY <1>1, <1>2, <1>3, <1>4, <1>5

\* uartputc_sync() writes a byte.
LEMMA SyncPutKeeps ==
  ASSUME UartConstants, SafeInv, NEW s \in Sync, SyncPut(s)
  PROVE  SafeInv'
<1> USE Apart DEF SafeInv, SyncPut, Goto, txVars
<1>1. RoomInv' /\ fifo' \in 0 .. FifoSize /\ lost' \in {0, 1} /\ fifo' >= fifo
  <2>1. s \in InFlight /\ InFlight' = InFlight \ {s}
    BY DEF TypeOK, InFlight
  <2> QED BY <2>1, RoomWritten
<1>2. TypeOK'
  BY <1>1 DEF TypeOK
<1>3. LockInv'
  BY DEF TypeOK, LockInv, SyncAt, Locked
<1>4. CountInv'
  BY DEF TypeOK, CountInv, Length, Empty
<1>5. RoomInv'
  BY <1>1
<1>6. SendInv'
  BY <1>1 DEF TypeOK, SendInv, Empty
<1> QED BY <1>2, <1>3, <1>4, <1>5, <1>6

\* uartinit() establishes the invariant.
LEMMA InitKeeps == UartConstants /\ Init => SafeInv
<1> SUFFICES ASSUME UartConstants, Init PROVE SafeInv
  OBVIOUS
<1> USE Apart, Sizes DEF Init
<1>1. TypeOK
  BY DEF TypeOK
<1>2. LockInv
  BY DEF LockInv, WriterAt, IntrAt, SyncAt, Locked
<1>3. CountInv
  <2>1. Length = 0
    BY DEF Length
  <2> QED BY <2>1 DEF CountInv
<1>4. RoomInv
  BY <1>2, InFlightCounted DEF Counted, RoomInv, NothingLost
<1>5. SendInv
  BY DEF SendInv, Empty
<1> QED BY <1>1, <1>2, <1>3, <1>4, <1>5 DEF SafeInv

\* Every step keeps the invariant.
LEMMA NextKeeps == UartConstants /\ SafeInv /\ [Next]_vars => SafeInv'
<1> SUFFICES ASSUME UartConstants, SafeInv, [Next]_vars PROVE SafeInv'
  OBVIOUS
<1>1. CASE UNCHANGED vars
  BY <1>1
  DEF vars, SafeInv, TypeOK, LockInv, CountInv, Length, Empty, RoomInv, InFlight,
      NothingLost, SendInv
<1>2. ASSUME NEW t \in Writer \cup {Intr}, Start(t) PROVE SafeInv'
  BY <1>2, StartReturnKeeps, StartTestKeeps, StartSendKeeps DEF Start
<1>3. ASSUME NEW p \in Writer, Call(p) \/ Put(p) PROVE SafeInv'
  BY <1>2, <1>3, CallKeeps, AcquireKeeps, SleepKeeps, StoreKeeps DEF Put
<1>4. ASSUME NEW s \in Sync, SyncCall(s) \/ SyncTest(s) \/ SyncPut(s) PROVE SafeInv'
  BY <1>4, SyncCallKeeps, SyncTestKeeps, SyncPutKeeps
<1>5. CASE Handler
  BY <1>2, <1>5, IntrStartKeeps, IntrAcquireKeeps DEF Handler
<1> QED BY <1>1, <1>3, <1>4, <1>5, TransmitKeeps DEF Next

-----------------------------------------------------------------------------
(* The theorems.                                                           *)

\* What is true at each point of uartputc(), uartputc_sync() and uartintr().
THEOREM UartInvariant == UartConstants => (Spec => []SafeInv)
<1> SUFFICES ASSUME UartConstants PROVE Spec => []SafeInv
  OBVIOUS
<1>1. Init => SafeInv
  BY InitKeeps
<1>2. SafeInv /\ [Next]_vars => SafeInv'
  BY NextKeeps
<1> QED BY <1>1, <1>2, PTL DEF Spec

\* No byte is lost in the device if its queue is longer than the number of
\* activities in uartputc_sync(), and bytes never wait with nobody to send
\* them.
THEOREM UartSafe == UartConstants => (Spec => []UartInv)
<1> SUFFICES ASSUME UartConstants PROVE Spec => []UartInv
  OBVIOUS
<1>1. SafeInv => UartInv
  BY Apart DEF SafeInv, LockInv, Locked, RoomInv, SendInv, UartInv, NeverStalls
<1>2. Spec => []SafeInv
  BY UartInvariant
<1> QED BY <1>1, <1>2, PTL

-----------------------------------------------------------------------------
(* The refinement.                                                         *)

\* The contents are a sequence of bytes.
LEMMA ContentsSeq ==
  ASSUME UartConstants, TypeOK
  PROVE  Contents \in Seq(Byte) /\ Len(Contents) = Length
<1>1. Lists(RingSeq(buf, tx_r, tx_w, UART_TX_BUF_SIZE, Wrap), Byte, buf, tx_r,
            (tx_w - tx_r) % Wrap, UART_TX_BUF_SIZE)
  BY UartIsRing, RingSeqIs DEF TypeOK, Slot
<1>2. Contents = RingSeq(buf, tx_r, tx_w, UART_TX_BUF_SIZE, Wrap)
  BY DEF Contents, RingSeq
<1> QED BY <1>1, <1>2 DEF Lists, Length

\* uartputc() appends a byte and overwrites none.
LEMMA ByteAppended ==
  ASSUME UartConstants, SafeInv, SafeInv', NEW p \in Writer, NEW b \in Byte, Store(p, b)
  PROVE  Len(Contents) < UART_TX_BUF_SIZE /\ Contents' = Append(Contents, b)
<1> USE DEF SafeInv
<1>1. Len(Contents) = (tx_w - tx_r) % Wrap /\ (tx_w - tx_r) % Wrap < UART_TX_BUF_SIZE
  BY OneMore, ContentsSeq DEF Store, Length
<1>2. /\ buf \in [0 .. UART_TX_BUF_SIZE - 1 -> Byte]
      /\ buf' \in [0 .. UART_TX_BUF_SIZE - 1 -> Byte]
      /\ tx_r \in 0 .. Wrap - 1 /\ tx_w \in 0 .. Wrap - 1
  BY DEF TypeOK, Slot
<1>3. /\ Writes(buf, buf', tx_w % UART_TX_BUF_SIZE, UART_TX_BUF_SIZE)
      /\ buf'[tx_w % UART_TX_BUF_SIZE] = b
  BY <1>2 DEF Store, Writes
<1>4. IsPut(RingSeq(buf', tx_r, (tx_w + 1) % Wrap, UART_TX_BUF_SIZE, Wrap),
            RingSeq(buf, tx_r, tx_w, UART_TX_BUF_SIZE, Wrap), buf'[tx_w % UART_TX_BUF_SIZE])
  BY <1>1, <1>2, <1>3, UartIsRing, RingPut
<1>5. Contents = RingSeq(buf, tx_r, tx_w, UART_TX_BUF_SIZE, Wrap)
  BY DEF Contents, RingSeq
<1>6. Contents' = RingSeq(buf', tx_r', tx_w', UART_TX_BUF_SIZE, Wrap)
  BY DEF Contents, RingSeq
<1> QED BY <1>1, <1>3, <1>4, <1>5, <1>6 DEF IsPut, Store

\* uartstart() takes the oldest byte.
LEMMA ByteTaken ==
  ASSUME UartConstants, SafeInv, NEW t \in Thread, StartSend(t)
  PROVE  Contents # <<>> /\ Contents' = Tail(Contents)
<1>1. IsTake(RingSeq(buf, (tx_r + 1) % Wrap, tx_w, UART_TX_BUF_SIZE, Wrap),
             RingSeq(buf, tx_r, tx_w, UART_TX_BUF_SIZE, Wrap), buf[tx_r % UART_TX_BUF_SIZE])
  BY UartIsRing, RingGet DEF SafeInv, TypeOK, Slot, StartSend, CountInv, Empty
<1>2. Contents = RingSeq(buf, tx_r, tx_w, UART_TX_BUF_SIZE, Wrap)
  BY DEF Contents, RingSeq
<1>3. Contents' = RingSeq(buf', tx_r', tx_w', UART_TX_BUF_SIZE, Wrap)
  BY DEF Contents, RingSeq
<1> QED BY <1>1, <1>2, <1>3 DEF IsTake, StartSend

AbstractStep == [Abstract!FNext]_(Abstract!fvars)

\* A step that leaves the buffer alone is a stutter.
LEMMA Stutter ==
  ASSUME UNCHANGED txVars
  PROVE  AbstractStep
<1>1. Contents' = Contents
  BY DEF Contents, txVars
<1> QED BY <1>1 DEF AbstractStep, Abstract!fvars

\* Each step of the driver is a step or a stutter of the queue.
LEMMA MapsStep ==
  ASSUME UartConstants, SafeInv, SafeInv', Next
  PROVE  AbstractStep
<1>1. ASSUME NEW p \in Writer, NEW b \in Byte, Store(p, b) PROVE AbstractStep
  <2>1. Len(Contents) < UART_TX_BUF_SIZE /\ Contents' = Append(Contents, b)
    BY <1>1, ByteAppended
  <2> QED BY <2>1 DEF AbstractStep, Abstract!FNext, Abstract!Put
<1>2. ASSUME NEW t \in Thread, Start(t) PROVE AbstractStep
  <2>1. CASE StartSend(t)
    <3>1. Contents # <<>> /\ Contents' = Tail(Contents)
      BY <2>1, ByteTaken
    <3> QED BY <3>1 DEF AbstractStep, Abstract!FNext, Abstract!Get
  <2>2. CASE StartReturn(t) \/ StartTest(t)
    BY <2>2, Stutter DEF StartReturn, StartTest
  <2> QED BY <1>2, <2>1, <2>2 DEF Start
<1>3. ASSUME NEW p \in Writer, Call(p) \/ Put(p) PROVE AbstractStep
  BY <1>1, <1>2, <1>3, Stutter DEF Call, Put, Acquire, Sleep, Thread
<1>4. ASSUME NEW s \in Sync, SyncCall(s) \/ SyncTest(s) \/ SyncPut(s) PROVE AbstractStep
  BY <1>4, Stutter DEF SyncCall, SyncTest, SyncPut
<1>5. CASE Handler
  BY <1>2, <1>5, Stutter DEF Handler, IntrStart, IntrAcquire, Thread
<1>6. CASE Transmit
  BY <1>6, Stutter DEF Transmit
<1> QED BY <1>3, <1>4, <1>5, <1>6 DEF Next

\* uart.c implements a bounded queue for every size of its buffer and every
\* width of its counters that the buffer divides.
THEOREM UartIsFifo == UartConstants => (Spec => IsFifo)
<1> SUFFICES ASSUME UartConstants PROVE Spec => IsFifo
  OBVIOUS
<1>1. Init => Abstract!FInit
  <2> SUFFICES ASSUME Init PROVE Abstract!FInit
    OBVIOUS
  <2>1. TypeOK /\ Length = 0
    BY InitKeeps, Sizes, Distance DEF SafeInv, Init, Length
  <2>2. Contents = <<>>
    BY <2>1, ContentsSeq
  <2> QED BY <2>2 DEF Abstract!FInit
<1>2. SafeInv /\ [Next]_vars => [Abstract!FNext]_(Abstract!fvars)
  <2> SUFFICES ASSUME SafeInv, [Next]_vars PROVE AbstractStep
    BY DEF AbstractStep
  <2>1. CASE UNCHANGED vars
    BY <2>1, Stutter DEF vars, txVars
  <2>2. CASE Next
    BY <2>2, NextKeeps, MapsStep
  <2> QED BY <2>1, <2>2
<1>3. Spec => []SafeInv
  BY UartInvariant
<1> QED BY <1>1, <1>2, <1>3, PTL DEF Spec, IsFifo, Abstract!FSpec

-----------------------------------------------------------------------------
(* Input: the invariant.                                                   *)

\* The number of characters from index i to index j.
Dist(i, j) == (j - i) % InputWrap

\* cons.lock is held by the process that is inside consoleread(), and a
\* read() never returns more than it was asked for.
ReaderInv ==
  \A p \in Reader :
    /\ cLock = p <=> cPc[p] \in {"loop", "doze"}
    /\ left[p] <= target[p]

\* The indexes keep their order r, w, e, and their distance.
OrderInv ==
  /\ Dist(r, w) + Dist(w, e) = Dist(r, e)
  /\ Dist(r, e) <= INPUT_BUF_SIZE

\* There is no end of a line in the line that can still be edited.
LineInv ==
  \A k \in 0 .. Dist(w, e) - 1 : cBuf[(w + k) % INPUT_BUF_SIZE] \notin Input!Ends

\* Readers go to sleep, and sleep, only while nothing is ready.
WakeInv == \A p \in Reader : cPc[p] \in {"doze", "sleep"} => r = w

\* The inductive invariant.
InputInv == Input!TypeOK /\ ReaderInv /\ OrderInv /\ LineInv /\ WakeInv

-----------------------------------------------------------------------------
(* Distances                                                               *)

\* What the proofs use of the sizes.
LEMMA InputSizes ==
  ASSUME Input!ConsoleConstants
  PROVE  /\ INPUT_BUF_SIZE \in Nat \ {0} /\ InputWrap \in Nat \ {0}
         /\ INPUT_BUF_SIZE < InputWrap
         /\ MaxLen \in Nat /\ Nothing \notin Reader
BY DEF Input!ConsoleConstants

\* The buffer and its indexes are a ring.
LEMMA ConsoleIsRing ==
  ASSUME Input!ConsoleConstants
  PROVE  IsRing(INPUT_BUF_SIZE, InputWrap)
BY DEF Input!ConsoleConstants, IsRing

\* Distances between indexes, and what becomes of them when an index moves.
LEMMA Distances ==
  ASSUME Input!ConsoleConstants, NEW i \in Input!Index, NEW j \in Input!Index
  PROVE  /\ Dist(i, j) \in 0 .. InputWrap - 1
         /\ Dist(i, j) = 0 <=> i = j
         /\ (j + 1) % InputWrap \in Input!Index
         /\ Dist(i, j) # InputWrap - 1 => Dist(i, (j + 1) % InputWrap) = Dist(i, j) + 1
         /\ i # j => /\ Dist((i + 1) % InputWrap, j) = Dist(i, j) - 1
                     /\ Dist(i, (j - 1) % InputWrap) = Dist(i, j) - 1
                     /\ (j - 1) % InputWrap \in Input!Index
<1> USE InputSizes DEF Input!Index
<1>1. Dist(i, j) \in 0 .. InputWrap - 1
  BY DEF Dist
<1>2. Dist(i, j) = 0 <=> i = j
  BY DEF Dist
<1>3. Dist(i, j) # InputWrap - 1 => Dist(i, (j + 1) % InputWrap) = Dist(i, j) + 1
  BY DistanceAdded DEF Dist
<1>4. i # j => /\ Dist((i + 1) % InputWrap, j) = Dist(i, j) - 1
               /\ Dist(i, (j - 1) % InputWrap) = Dist(i, j) - 1
               /\ (j - 1) % InputWrap \in Input!Index
  BY DistanceRemoved, DistanceBack DEF Dist
<1> QED BY <1>1, <1>2, <1>3, <1>4

\* The test of consoleintr() for a full buffer.
LEMMA FullAfter ==
  ASSUME Input!ConsoleConstants, NEW i \in Input!Index, NEW j \in Input!Index
  PROVE  (j + 1 - i) % InputWrap = Dist(i, (j + 1) % InputWrap)
BY InputSizes DEF Input!Index, Dist

-----------------------------------------------------------------------------
(* Each step of the code keeps the invariant.                              *)

\* A character is stored: the order of the indexes.
LEMMA StoreOrder ==
  ASSUME Input!ConsoleConstants, InputInv, NEW c \in Input!Char, Input!StoreKey(c)
  PROVE  /\ e' \in Input!Index /\ w' \in Input!Index /\ Dist(r, e) < INPUT_BUF_SIZE
         /\ Dist(w, e) <= Dist(r, e) /\ Dist(r, w) <= Dist(r, e)
         /\ Dist(r, e') = Dist(r, e) + 1 /\ Dist(w, e') = Dist(w, e) + 1
         /\ Input!Completes(c) <=> c \in Input!Ends \/ Dist(r, e) + 1 = INPUT_BUF_SIZE
         /\ OrderInv'
<1> USE DEF InputInv
<1>1. r \in Input!Index /\ w \in Input!Index /\ e \in Input!Index
  BY DEF Input!TypeOK
<1>2. /\ Dist(r, w) \in 0 .. InputWrap - 1 /\ Dist(w, e) \in 0 .. InputWrap - 1
      /\ Dist(r, e) \in 0 .. InputWrap - 1 /\ Dist(r, e) < INPUT_BUF_SIZE
  BY <1>1, Distances DEF Input!StoreKey, Dist
<1>3. /\ Dist(w, e) <= Dist(r, e) /\ Dist(r, w) <= Dist(r, e)
      /\ Dist(w, e) # InputWrap - 1 /\ Dist(r, e) # InputWrap - 1
  BY <1>2, InputSizes DEF OrderInv
<1>4. /\ e' = (e + 1) % InputWrap /\ e' \in Input!Index
      /\ Dist(r, e') = Dist(r, e) + 1 /\ Dist(w, e') = Dist(w, e) + 1 /\ Dist(e', e') = 0
  <2>1. e' = (e + 1) % InputWrap
    BY DEF Input!StoreKey
  <2>2. (e + 1) % InputWrap \in Input!Index
    BY <1>1, Distances
  <2>3. Dist((e + 1) % InputWrap, (e + 1) % InputWrap) = 0
    BY <2>2, Distances
  <2> QED BY <1>1, <1>3, <2>1, Distances
<1>5. Input!Completes(c) <=> c \in Input!Ends \/ Dist(r, e) + 1 = INPUT_BUF_SIZE
  BY <1>1, <1>4, FullAfter DEF Input!Completes
<1>6. (w' = e' \/ w' = w) /\ r' = r
  BY DEF Input!StoreKey
<1>7. OrderInv'
  BY <1>2, <1>4, <1>6, InputSizes DEF OrderInv
<1> QED BY <1>1, <1>2, <1>3, <1>4, <1>5, <1>6, <1>7

\* It is no end of a line, or the line is no longer edited.
LEMMA StoreLine ==
  ASSUME Input!ConsoleConstants, InputInv, NEW c \in Input!Char, Input!StoreKey(c)
  PROVE  LineInv'
<1> USE DEF InputInv
<1>1. CASE Input!Completes(c)
  <2>1. w' = e' /\ e' \in Input!Index
    BY <1>1, StoreOrder DEF Input!StoreKey
  <2>2. Dist(w', e') = 0
    BY <2>1, Distances
  <2> QED BY <2>2 DEF LineInv
<1>2. CASE ~Input!Completes(c)
  <2>1. w' = w /\ Dist(w', e') = Dist(w, e) + 1 /\ c \notin Input!Ends
    BY <1>2, StoreOrder DEF Input!StoreKey
  <2>2. /\ w \in 0 .. InputWrap - 1 /\ e \in 0 .. InputWrap - 1 /\ Dist(w, e) \in Nat
        /\ (e - w) % InputWrap = Dist(w, e) /\ Dist(w, e) < INPUT_BUF_SIZE
    <3>1. w \in Input!Index /\ e \in Input!Index
      BY DEF Input!TypeOK
    <3>2. Dist(w, e) \in 0 .. InputWrap - 1 /\ Dist(r, e) \in 0 .. InputWrap - 1
      BY Distances DEF Input!TypeOK
    <3>3. Dist(w, e) < INPUT_BUF_SIZE /\ Dist(w, e) \in Nat
      BY <3>2, StoreOrder, InputSizes
    <3> QED BY <3>1, <3>3 DEF Input!Index, Dist
  <2>3. e % INPUT_BUF_SIZE \in Input!Slot /\ cBuf' = [cBuf EXCEPT ![e % INPUT_BUF_SIZE] = c]
    BY <2>2, InputSizes DEF Input!StoreKey, Input!Slot
  <2>4. ASSUME NEW k \in 0 .. Dist(w', e') - 1
        PROVE  cBuf'[(w' + k) % INPUT_BUF_SIZE] \notin Input!Ends
    <3>1. CASE k = Dist(w, e)
      <4>1. (w + k) % INPUT_BUF_SIZE = e % INPUT_BUF_SIZE
        BY <2>2, <3>1, ConsoleIsRing, SlotOfEnd
      <4> QED BY <2>1, <2>3, <4>1 DEF Input!TypeOK
    <3>2. CASE k \in 0 .. Dist(w, e) - 1
      <4>1. (w + k) % INPUT_BUF_SIZE # e % INPUT_BUF_SIZE
        BY <2>2, <3>2, ConsoleIsRing, SlotFree
      <4>2. (w + k) % INPUT_BUF_SIZE \in Input!Slot
        BY <2>2, InputSizes DEF Input!Slot
      <4>3. cBuf'[(w + k) % INPUT_BUF_SIZE] = cBuf[(w + k) % INPUT_BUF_SIZE]
        BY <2>3, <4>1
      <4> QED BY <2>1, <3>2, <4>3 DEF LineInv
    <3> QED BY <2>1, <2>2, <3>1, <3>2
  <2> QED BY <2>4 DEF LineInv
<1> QED BY <1>1, <1>2

\* consoleintr() stores a character.
LEMMA StoreKeyKeeps ==
  ASSUME Input!ConsoleConstants, InputInv, NEW c \in Input!Char, Input!StoreKey(c)
  PROVE  InputInv'
<1> USE InputSizes DEF InputInv
<1>1. Input!TypeOK'
  <2>1. e' \in Input!Index /\ w' \in Input!Index
    BY StoreOrder
  <2>2. cBuf' \in [Input!Slot -> Input!Char \cup {Nothing}]
    BY DEF Input!TypeOK, Input!StoreKey
  <2>3. cPc' \in [Reader -> {"user", "acquire", "loop", "doze", "sleep"}]
    BY DEF Input!TypeOK, Input!StoreKey, Input!WakeReaders
  <2> QED BY <2>1, <2>2, <2>3 DEF Input!TypeOK, Input!StoreKey
<1>2. ReaderInv'
  BY DEF Input!TypeOK, ReaderInv, Input!StoreKey, Input!WakeReaders
<1>3. OrderInv'
  BY StoreOrder
<1>4. LineInv'
  BY StoreLine
<1>5. WakeInv'
  BY DEF Input!TypeOK, ReaderInv, WakeInv, Input!StoreKey, Input!WakeReaders
<1> QED BY <1>1, <1>2, <1>3, <1>4, <1>5

\* Characters are removed from the end of the line.
LEMMA Shortened ==
  ASSUME Input!ConsoleConstants, InputInv, NEW x \in Input!Index, Dist(w, x) <= Dist(w, e),
         Dist(r, x) = Dist(r, w) + Dist(w, x), e' = x,
         UNCHANGED <<cBuf, r, w, cLock, cPc, target, left, killed>>
  PROVE  InputInv'
<1> USE DEF InputInv
<1>1. /\ Dist(r, w) \in Nat /\ Dist(w, e) \in Nat /\ Dist(w, x) \in Nat
      /\ Dist(r, e) \in Nat /\ Dist(r, x) \in Nat
  BY Distances DEF Input!TypeOK
<1>2. Input!TypeOK' /\ ReaderInv' /\ WakeInv'
  BY DEF Input!TypeOK, ReaderInv, WakeInv
<1>3. OrderInv'
  BY <1>1, InputSizes DEF OrderInv
<1>4. LineInv'
  BY <1>1 DEF LineInv
<1> QED BY <1>2, <1>3, <1>4

\* ^H
LEMMA BackspaceKeeps ==
  ASSUME Input!ConsoleConstants, InputInv, Input!Backspace
  PROVE  InputInv'
<1> USE DEF InputInv
<1>1. r \in Input!Index /\ w \in Input!Index /\ e \in Input!Index /\ e # w
  BY DEF Input!TypeOK, Input!Backspace
<1>2. /\ (e - 1) % InputWrap \in Input!Index /\ Dist(w, (e - 1) % InputWrap) = Dist(w, e) - 1
      /\ Dist(w, e) \in Nat /\ Dist(w, e) # 0 /\ Dist(r, e) \in Nat /\ Dist(r, w) \in Nat
  BY <1>1, Distances
<1>3. e # r
  BY <1>1, Distances DEF OrderInv
<1>4. Dist(r, (e - 1) % InputWrap) = Dist(r, e) - 1
  BY <1>1, <1>3, Distances
<1>5. Dist(r, (e - 1) % InputWrap) = Dist(r, w) + Dist(w, (e - 1) % InputWrap)
  BY <1>2, <1>4 DEF OrderInv
<1> QED BY <1>2, <1>5, Shortened DEF Input!Backspace

\* ^U removes all of the line: it stops at the write index.
LEMMA KillStops ==
  ASSUME Input!ConsoleConstants, InputInv, NEW x \in Input!Index, Input!KillStop(x)
  PROVE  x = w
<1> USE DEF InputInv
<1> SUFFICES ASSUME x # w PROVE FALSE
  OBVIOUS
<1> DEFINE d == Dist(x, e)
           D == Dist(w, e)
<1>1. /\ w \in Input!Index /\ e \in Input!Index /\ x \in Input!Index
      /\ d \in 0 .. InputWrap - 1 /\ D \in 0 .. InputWrap - 1
  BY Distances DEF Input!TypeOK
<1>2. cBuf[(x - 1) % INPUT_BUF_SIZE] = "newline"
  BY DEF Input!KillStop
<1>3. \A k \in 0 .. d - 1 : (e - k) % InputWrap # w
  BY DEF Input!KillStop, Dist
<1>4. (e - D) % InputWrap = w
  BY <1>1, InputSizes DEF Input!Index, Dist
<1>5. (e - d) % InputWrap = x
  BY <1>1, InputSizes DEF Input!Index, Dist
<1> HIDE DEF d, D
<1>6. d < D
  <2>1. ~(D <= d - 1)
    BY <1>1, <1>3, <1>4
  <2>2. d # D
    BY <1>4, <1>5
  <2> QED BY <1>1, <2>1, <2>2
<1>7. Dist(w, x) = D - d
  <2>1. (((e - d) % InputWrap) - w) % InputWrap = ((e - w) % InputWrap) - d
    <3>1. d \in 0 .. (e - w) % InputWrap
      BY <1>1, <1>6 DEF D, Dist
    <3> QED BY <1>1, <3>1, InputSizes, DistanceLess DEF Input!Index
  <2> QED BY <1>5, <2>1 DEF D, Dist
<1>8. (x - 1) % INPUT_BUF_SIZE = (w + (D - d - 1)) % INPUT_BUF_SIZE
  <2>1. /\ D - d \in 0 .. InputWrap /\ -1 \in Int /\ x + (-1) = x - 1
        /\ w + (D - d) + (-1) = w + (D - d - 1)
    BY <1>1, <1>6, InputSizes DEF Input!Index
  <2>2. (w + (D - d)) % InputWrap = x
    BY <1>1, <1>7, InputSizes, DistanceEnd DEF Input!Index, Dist
  <2>3. (((w + (D - d)) % InputWrap) + (-1)) % INPUT_BUF_SIZE
          = (w + (D - d) + (-1)) % INPUT_BUF_SIZE
    <3>1. w \in 0 .. InputWrap - 1
      BY <1>1 DEF Input!Index
    <3> QED BY <2>1, <3>1, ConsoleIsRing, SlotBehind
  <2> QED BY <2>1, <2>2, <2>3
<1>9. D - d - 1 \in 0 .. D - 1
  BY <1>1, <1>6
<1> QED BY <1>2, <1>8, <1>9 DEF LineInv, D, Input!Ends

\* ^U
LEMMA KillLineKeeps ==
  ASSUME Input!ConsoleConstants, InputInv, Input!KillLine
  PROVE  InputInv' /\ e' = w
<1> USE DEF InputInv
<1>1. e' = w /\ w \in Input!Index /\ r \in Input!Index /\ e \in Input!Index
  BY KillStops DEF Input!KillLine, Input!TypeOK
<1>2. Dist(w, w) = 0 /\ Dist(w, e) \in Nat /\ Dist(r, w) \in Nat
  BY <1>1, Distances
<1>3. Dist(w, w) <= Dist(w, e) /\ Dist(r, w) = Dist(r, w) + Dist(w, w)
  BY <1>2
<1> QED BY <1>1, <1>3, Shortened DEF Input!KillLine

\* consoleread() leaves the indexes alone, or takes a character that is ready.
LEMMA InputLeft ==
  ASSUME InputInv, UNCHANGED Input!inputVars
  PROVE  OrderInv' /\ LineInv'
BY DEF InputInv, OrderInv, LineInv, Input!inputVars

\* A reader takes a character.
LEMMA InputTaken ==
  ASSUME Input!ConsoleConstants, InputInv,
         r # w, r' = (r + 1) % InputWrap, UNCHANGED <<cBuf, w, e>>
  PROVE  r' \in Input!Index /\ OrderInv' /\ LineInv'
<1> USE DEF InputInv
<1>1. r \in Input!Index /\ w \in Input!Index /\ e \in Input!Index
  BY DEF Input!TypeOK
<1>2. /\ (r + 1) % InputWrap \in Input!Index /\ Dist((r + 1) % InputWrap, w) = Dist(r, w) - 1
      /\ Dist(r, w) \in Nat /\ Dist(r, w) # 0 /\ Dist(r, e) \in Nat /\ Dist(w, e) \in Nat
  BY <1>1, Distances
<1>3. r # e
  BY <1>1, Distances DEF OrderInv
<1>4. Dist((r + 1) % InputWrap, e) = Dist(r, e) - 1
  BY <1>1, <1>3, Distances
<1>5. OrderInv'
  BY <1>2, <1>4, InputSizes DEF OrderInv
<1> QED BY <1>2, <1>5 DEF LineInv

\* read() is called.
LEMMA ReadCallKeeps ==
  ASSUME Input!ConsoleConstants, InputInv,
         NEW p \in Reader, NEW n \in 0 .. MaxLen, Input!ReadCall(p, n)
  PROVE  InputInv'
<1> USE DEF InputInv, Input!ReadCall, Input!inputVars
<1>1. OrderInv' /\ LineInv'
  BY InputLeft
<1>2. Input!TypeOK'
  BY DEF Input!TypeOK
<1>3. ReaderInv'
  BY DEF Input!TypeOK, ReaderInv
<1>4. WakeInv'
  BY DEF Input!TypeOK, WakeInv
<1> QED BY <1>1, <1>2, <1>3, <1>4

\* consoleread() gets the lock.
LEMMA ReadAcquireKeeps ==
  ASSUME Input!ConsoleConstants, InputInv, NEW p \in Reader, Input!ReadAcquire(p)
  PROVE  InputInv'
<1> USE InputSizes DEF InputInv, Input!ReadAcquire, Input!inputVars
<1>1. OrderInv' /\ LineInv'
  BY InputLeft
<1>2. Input!TypeOK'
  BY DEF Input!TypeOK
<1>3. ReaderInv'
  BY DEF Input!TypeOK, ReaderInv
<1>4. WakeInv'
  BY DEF Input!TypeOK, WakeInv
<1> QED BY <1>1, <1>2, <1>3, <1>4

\* consoleread() finds nothing ready, and the process killed.
LEMMA ReadKilledKeeps ==
  ASSUME Input!ConsoleConstants, InputInv, NEW p \in Reader, Input!ReadKilled(p)
  PROVE  InputInv'
<1> USE InputSizes DEF InputInv, Input!ReadKilled, Input!Return, Input!inputVars
<1>1. OrderInv' /\ LineInv'
  BY InputLeft
<1>2. Input!TypeOK'
  BY DEF Input!TypeOK
<1>3. ReaderInv'
  BY DEF Input!TypeOK, ReaderInv
<1>4. WakeInv'
  BY DEF Input!TypeOK, WakeInv
<1> QED BY <1>1, <1>2, <1>3, <1>4

\* consoleread() finds nothing ready.
LEMMA ReadWaitKeeps ==
  ASSUME Input!ConsoleConstants, InputInv, NEW p \in Reader, Input!ReadWait(p)
  PROVE  InputInv'
<1> USE DEF InputInv, Input!ReadWait, Input!inputVars
<1>1. OrderInv' /\ LineInv'
  BY InputLeft
<1>2. Input!TypeOK'
  BY DEF Input!TypeOK
<1>3. ReaderInv'
  BY DEF Input!TypeOK, ReaderInv
<1>4. WakeInv'
  BY DEF Input!TypeOK, WakeInv
<1> QED BY <1>1, <1>2, <1>3, <1>4

\* consoleread() sleeps.
LEMMA ReadSleepKeeps ==
  ASSUME Input!ConsoleConstants, InputInv, NEW p \in Reader, Input!ReadSleep(p)
  PROVE  InputInv'
<1> USE InputSizes DEF InputInv, Input!ReadSleep, Input!inputVars
<1>1. OrderInv' /\ LineInv'
  BY InputLeft
<1>2. Input!TypeOK'
  BY DEF Input!TypeOK
<1>3. ReaderInv'
  BY DEF Input!TypeOK, ReaderInv
<1>4. WakeInv'
  BY DEF Input!TypeOK, WakeInv
<1> QED BY <1>1, <1>2, <1>3, <1>4

\* consoleread() meets ^D.
LEMMA ReadEofKeeps ==
  ASSUME Input!ConsoleConstants, InputInv, NEW p \in Reader, Input!ReadEof(p)
  PROVE  InputInv'
<1> USE InputSizes DEF InputInv, Input!ReadEof, Input!Return
<1>1. r' \in Input!Index /\ OrderInv' /\ LineInv'
  <2>1. CASE r' = r
    BY <2>1, InputLeft DEF Input!inputVars, Input!TypeOK
  <2>2. CASE r' = (r + 1) % InputWrap
    BY <2>2, InputTaken
  <2> QED BY <2>1, <2>2
<1>2. Input!TypeOK'
  BY <1>1 DEF Input!TypeOK
<1>3. ReaderInv'
  BY DEF Input!TypeOK, ReaderInv
<1>4. WakeInv'
  BY DEF Input!TypeOK, WakeInv
<1> QED BY <1>1, <1>2, <1>3, <1>4

\* consoleread() copies a character.
LEMMA ReadCharKeeps ==
  ASSUME Input!ConsoleConstants, InputInv, NEW p \in Reader, Input!ReadChar(p)
  PROVE  InputInv'
<1> USE InputSizes DEF InputInv, Input!ReadChar, Input!Return
<1>1. r' \in Input!Index /\ OrderInv' /\ LineInv'
  BY InputTaken
<1>2. Input!TypeOK'
  BY <1>1 DEF Input!TypeOK
<1>3. ReaderInv'
  BY DEF Input!TypeOK, ReaderInv
<1>4. WakeInv'
  BY DEF Input!TypeOK, WakeInv
<1> QED BY <1>1, <1>2, <1>3, <1>4

\* either_copyout() fails.
LEMMA ReadFaultKeeps ==
  ASSUME Input!ConsoleConstants, InputInv, NEW p \in Reader, Input!ReadFault(p)
  PROVE  InputInv'
<1> USE InputSizes DEF InputInv, Input!ReadFault, Input!Return
<1>1. r' \in Input!Index /\ OrderInv' /\ LineInv'
  BY InputTaken
<1>2. Input!TypeOK'
  BY <1>1 DEF Input!TypeOK
<1>3. ReaderInv'
  BY DEF Input!TypeOK, ReaderInv
<1>4. WakeInv'
  BY DEF Input!TypeOK, WakeInv
<1> QED BY <1>1, <1>2, <1>3, <1>4

\* consoleread() has all it was asked for.
LEMMA ReadDoneKeeps ==
  ASSUME Input!ConsoleConstants, InputInv, NEW p \in Reader, Input!ReadDone(p)
  PROVE  InputInv'
<1> USE InputSizes DEF InputInv, Input!ReadDone, Input!Return, Input!inputVars
<1>1. OrderInv' /\ LineInv'
  BY InputLeft
<1>2. Input!TypeOK'
  BY DEF Input!TypeOK
<1>3. ReaderInv'
  BY DEF Input!TypeOK, ReaderInv
<1>4. WakeInv'
  BY DEF Input!TypeOK, WakeInv
<1> QED BY <1>1, <1>2, <1>3, <1>4

\* kill() wakes a reader.
LEMMA KillKeeps ==
  ASSUME Input!ConsoleConstants, InputInv, NEW p \in Reader, Input!Kill(p)
  PROVE  InputInv'
<1> USE DEF InputInv, Input!Kill, Input!inputVars
<1>1. OrderInv' /\ LineInv'
  BY InputLeft
<1>2. Input!TypeOK'
  BY DEF Input!TypeOK
<1>3. ReaderInv'
  BY DEF Input!TypeOK, ReaderInv
<1>4. WakeInv'
  BY DEF Input!TypeOK, WakeInv
<1> QED BY <1>1, <1>2, <1>3, <1>4

\* consoleinit() establishes the invariant.
LEMMA InputInitKeeps == Input!ConsoleConstants /\ Input!Init => InputInv
<1> SUFFICES ASSUME Input!ConsoleConstants, Input!Init PROVE InputInv
  OBVIOUS
<1> USE InputSizes DEF Input!Init
<1>1. Input!TypeOK
  BY DEF Input!TypeOK, Input!Index
<1>2. Dist(0, 0) = 0
  BY Distances DEF Input!Index
<1>3. ReaderInv /\ OrderInv /\ LineInv /\ WakeInv
  BY <1>2 DEF ReaderInv, OrderInv, LineInv, WakeInv
<1> QED BY <1>1, <1>3 DEF InputInv

\* Every step keeps the invariant.
LEMMA InputNextKeeps ==
  Input!ConsoleConstants /\ InputInv /\ [Input!Next]_(Input!vars) => InputInv'
<1> SUFFICES ASSUME Input!ConsoleConstants, InputInv, [Input!Next]_(Input!vars) PROVE InputInv'
  OBVIOUS
<1>1. CASE UNCHANGED Input!vars
  BY <1>1 DEF Input!vars, InputInv, Input!TypeOK, ReaderInv, OrderInv, LineInv, WakeInv
<1>2. CASE Input!Consoleintr
  BY <1>1, <1>2, StoreKeyKeeps, BackspaceKeeps, KillLineKeeps
  DEF Input!Consoleintr, Input!IgnoreKey
<1>3. ASSUME NEW p \in Reader, Input!ReadStep(p) PROVE InputInv'
  BY <1>3, ReadAcquireKeeps, ReadKilledKeeps, ReadWaitKeeps, ReadSleepKeeps, ReadEofKeeps,
     ReadCharKeeps, ReadFaultKeeps, ReadDoneKeeps
  DEF Input!ReadStep
<1> QED BY <1>1, <1>2, <1>3, ReadCallKeeps, KillKeeps DEF Input!Next

-----------------------------------------------------------------------------
(* The theorems.                                                           *)

\* What is true at each point of consoleread() and between two keys.
THEOREM ConsoleInvariant == Input!ConsoleConstants => (Input!Spec => []InputInv)
<1> SUFFICES ASSUME Input!ConsoleConstants PROVE Input!Spec => []InputInv
  OBVIOUS
<1>1. Input!Init => InputInv
  BY InputInitKeeps
<1>2. InputInv /\ [Input!Next]_(Input!vars) => InputInv'
  BY InputNextKeeps
<1> QED BY <1>1, <1>2, PTL DEF Input!Spec

\* No reader sleeps next to a line that is ready.
THEOREM NoLineMissed == Input!ConsoleConstants => (Input!Spec => []ConsoleInv)
<1> SUFFICES ASSUME Input!ConsoleConstants PROVE Input!Spec => []ConsoleInv
  OBVIOUS
<1>1. InputInv => ConsoleInv
  BY DEF InputInv, WakeInv, ConsoleInv, Input!ConsoleInv
<1>2. Input!Spec => []InputInv
  BY ConsoleInvariant
<1> QED BY <1>1, <1>2, PTL

\* ^D goes away only in a read() that returns no bytes.
THEOREM EofOnce == Input!ConsoleConstants => (Input!Spec => EofAnswersZero)
<1> SUFFICES ASSUME Input!ConsoleConstants PROVE Input!Spec => Input!EofAnswersZero
  BY DEF EofAnswersZero
<1> DEFINE Eof == Input!Ready = "^D" /\ r # w /\ r' # r =>
                    \E p \in Reader : cLock = p /\ left[p] = target[p] /\ cPc'[p] = "user"
<1>1. ASSUME InputInv, Input!Next, Input!Ready = "^D", r' # r
      PROVE  \E p \in Reader : cLock = p /\ left[p] = target[p] /\ cPc'[p] = "user"
  <2>1. ASSUME NEW p \in Reader, Input!ReadEof(p)
        PROVE  cLock = p /\ left[p] = target[p] /\ cPc'[p] = "user"
    BY <1>1, <2>1 DEF Input!ReadEof, Input!Return, InputInv, Input!TypeOK, ReaderInv
  <2>2. ~Input!Consoleintr
    BY <1>1 DEF Input!Consoleintr, Input!StoreKey, Input!Backspace, Input!KillLine,
                Input!IgnoreKey, Input!vars
  <2>3. PICK p \in Reader : Input!ReadStep(p)
    BY <1>1, <2>2 DEF Input!Next, Input!Kill, Input!ReadCall, Input!inputVars
  <2>4. Input!ReadEof(p)
    BY <1>1, <2>3
    DEF Input!ReadStep, Input!ReadAcquire, Input!ReadKilled, Input!ReadWait, Input!ReadSleep,
        Input!ReadChar, Input!ReadFault, Input!ReadDone, Input!inputVars
  <2> QED BY <2>1, <2>4
<1>2. InputInv /\ [Input!Next]_(Input!vars) => [Eof]_(Input!vars)
  BY <1>1
<1>3. Input!Spec => []InputInv
  BY ConsoleInvariant
<1> QED BY <1>2, <1>3, PTL DEF Input!Spec, Input!EofAnswersZero

-----------------------------------------------------------------------------
(* The refinement.                                                         *)

\* What is ready and the line are the contents of rings.
LEMMA RingViews ==
  /\ Input!Between(r, w) = RingSeq(cBuf, r, w, INPUT_BUF_SIZE, InputWrap)
  /\ Input!Between(w, e) = RingSeq(cBuf, w, e, INPUT_BUF_SIZE, InputWrap)
  /\ Input!Between(r, w)' = RingSeq(cBuf', r', w', INPUT_BUF_SIZE, InputWrap)
  /\ Input!Between(w, e)' = RingSeq(cBuf', w', e', INPUT_BUF_SIZE, InputWrap)
BY DEF Input!Between, RingSeq

\* What is ready and the line are sequences, of the lengths that the
\* indexes say.
LEMMA Lengths ==
  ASSUME Input!ConsoleConstants, InputInv
  PROVE  /\ Input!Between(r, w) \in Seq(Input!Char \cup {Nothing})
         /\ Input!Between(w, e) \in Seq(Input!Char \cup {Nothing})
         /\ Len(Input!Between(r, w)) = Dist(r, w) /\ Len(Input!Between(w, e)) = Dist(w, e)
         /\ Len(Input!Between(r, w)) + Len(Input!Between(w, e)) = Dist(r, e)
<1>1. /\ r \in 0 .. InputWrap - 1 /\ w \in 0 .. InputWrap - 1 /\ e \in 0 .. InputWrap - 1
      /\ cBuf \in [0 .. INPUT_BUF_SIZE - 1 -> Input!Char \cup {Nothing}]
  BY DEF InputInv, Input!TypeOK, Input!Index, Input!Slot
<1>2. /\ Lists(RingSeq(cBuf, r, w, INPUT_BUF_SIZE, InputWrap), Input!Char \cup {Nothing}, cBuf, r,
               (w - r) % InputWrap, INPUT_BUF_SIZE)
      /\ Lists(RingSeq(cBuf, w, e, INPUT_BUF_SIZE, InputWrap), Input!Char \cup {Nothing}, cBuf, w,
               (e - w) % InputWrap, INPUT_BUF_SIZE)
  BY <1>1, ConsoleIsRing, RingSeqIs
<1>3. /\ Input!Between(r, w) \in Seq(Input!Char \cup {Nothing})
      /\ Input!Between(w, e) \in Seq(Input!Char \cup {Nothing})
      /\ Len(Input!Between(r, w)) = Dist(r, w) /\ Len(Input!Between(w, e)) = Dist(w, e)
  BY <1>2, RingViews DEF Lists, Dist
<1> QED BY <1>3 DEF InputInv, OrderInv

InputStep == [Input!Abstract!INext]_<<Input!Between(r, w), Input!Between(w, e)>>

\* A key that does not end the line.
LEMMA KeyAppended ==
  ASSUME Input!ConsoleConstants, InputInv,
         NEW c \in Input!Char, Input!StoreKey(c), ~Input!Completes(c)
  PROVE  /\ Input!Between(w, e)' = Append(Input!Between(w, e), c)
         /\ Input!Between(r, w)' = Input!Between(r, w)
<1> USE DEF InputInv
<1>1. /\ r \in 0 .. InputWrap - 1 /\ w \in 0 .. InputWrap - 1 /\ e \in 0 .. InputWrap - 1
      /\ e % INPUT_BUF_SIZE \in 0 .. INPUT_BUF_SIZE - 1
      /\ cBuf \in [0 .. INPUT_BUF_SIZE - 1 -> Input!Char \cup {Nothing}]
  BY InputSizes DEF Input!TypeOK, Input!Index, Input!Slot
<1>2. /\ cBuf' \in [0 .. INPUT_BUF_SIZE - 1 -> Input!Char \cup {Nothing}]
      /\ Writes(cBuf, cBuf', e % INPUT_BUF_SIZE, INPUT_BUF_SIZE)
      /\ cBuf'[e % INPUT_BUF_SIZE] = c
  BY <1>1 DEF Input!StoreKey, Writes
<1>3. (e - w) % InputWrap < INPUT_BUF_SIZE /\ (e - r) % InputWrap < INPUT_BUF_SIZE
  <2>1. Dist(w, e) \in 0 .. InputWrap - 1 /\ Dist(r, e) \in 0 .. InputWrap - 1
    BY Distances DEF Input!TypeOK
  <2>2. Dist(w, e) < INPUT_BUF_SIZE /\ Dist(r, e) < INPUT_BUF_SIZE
    BY <2>1, StoreOrder, InputSizes
  <2> QED BY <2>2 DEF Dist
<1>4. (w - r) % InputWrap <= (e - r) % InputWrap
  <2>1. Dist(r, w) <= Dist(r, e)
    BY StoreOrder
  <2> QED BY <2>1 DEF Dist
<1>5. IsPut(RingSeq(cBuf', w, (e + 1) % InputWrap, INPUT_BUF_SIZE, InputWrap),
            RingSeq(cBuf, w, e, INPUT_BUF_SIZE, InputWrap), cBuf'[e % INPUT_BUF_SIZE])
  BY <1>1, <1>2, <1>3, ConsoleIsRing, RingPut
<1>6. RingSeq(cBuf', r, w, INPUT_BUF_SIZE, InputWrap)
        = RingSeq(cBuf, r, w, INPUT_BUF_SIZE, InputWrap)
  BY <1>1, <1>2, <1>3, <1>4, ConsoleIsRing, RingBefore
<1>7. r' = r /\ w' = w /\ e' = (e + 1) % InputWrap
  BY DEF Input!StoreKey
<1> QED BY <1>2, <1>5, <1>6, <1>7, RingViews DEF IsPut

\* A key that ends the line: the line is ready.
LEMMA LineHandedOver ==
  ASSUME Input!ConsoleConstants, InputInv,
         NEW c \in Input!Char, Input!StoreKey(c), Input!Completes(c)
  PROVE  /\ Input!Between(r, w)' = Input!Between(r, w) \o Append(Input!Between(w, e), c)
         /\ Input!Between(w, e)' = <<>>
<1> USE DEF InputInv
<1>1. /\ r \in 0 .. InputWrap - 1 /\ w \in 0 .. InputWrap - 1 /\ e \in 0 .. InputWrap - 1
      /\ e % INPUT_BUF_SIZE \in 0 .. INPUT_BUF_SIZE - 1
      /\ cBuf \in [0 .. INPUT_BUF_SIZE - 1 -> Input!Char \cup {Nothing}]
  BY InputSizes DEF Input!TypeOK, Input!Index, Input!Slot
<1>2. /\ cBuf' \in [0 .. INPUT_BUF_SIZE - 1 -> Input!Char \cup {Nothing}]
      /\ Writes(cBuf, cBuf', e % INPUT_BUF_SIZE, INPUT_BUF_SIZE)
      /\ cBuf'[e % INPUT_BUF_SIZE] = c
  BY <1>1 DEF Input!StoreKey, Writes
<1>3. (e - r) % InputWrap < INPUT_BUF_SIZE
  <2>1. Dist(r, e) < INPUT_BUF_SIZE
    BY StoreOrder
  <2> QED BY <2>1 DEF Dist
<1>4. r' = r /\ w' = e' /\ e' = (e + 1) % InputWrap /\ e' \in Input!Index
  BY StoreOrder DEF Input!StoreKey
<1>5. IsPut(RingSeq(cBuf', r, (e + 1) % InputWrap, INPUT_BUF_SIZE, InputWrap),
            RingSeq(cBuf, r, e, INPUT_BUF_SIZE, InputWrap), cBuf'[e % INPUT_BUF_SIZE])
  BY <1>1, <1>2, <1>3, ConsoleIsRing, RingPut
<1>6. IsJoin(RingSeq(cBuf, r, e, INPUT_BUF_SIZE, InputWrap),
             RingSeq(cBuf, r, w, INPUT_BUF_SIZE, InputWrap),
             RingSeq(cBuf, w, e, INPUT_BUF_SIZE, InputWrap))
  <2>1. ((w - r) % InputWrap) + ((e - w) % InputWrap) = (e - r) % InputWrap
    BY DEF OrderInv, Dist
  <2> QED BY <1>1, <2>1, ConsoleIsRing, RingJoin
<1>7. Input!Between(r, w)' = Append(Input!Between(r, w) \o Input!Between(w, e), c)
  BY <1>2, <1>4, <1>5, <1>6, RingViews DEF IsPut, IsJoin
<1>8. Input!Between(w, e)' = <<>>
  <2>1. Input!Between(w, e)' = RingSeq(cBuf', e', e', INPUT_BUF_SIZE, InputWrap)
    BY <1>4, RingViews
  <2> QED BY <1>4, <2>1, RingEmpty, ConsoleIsRing DEF Input!Index
<1> QED BY <1>7, <1>8

\* The indexes of what is ready do not move, and the line loses its end.
LEMMA KeyErased ==
  ASSUME Input!ConsoleConstants, InputInv, Input!Backspace
  PROVE  /\ Input!Between(w, e) # <<>> /\ Input!Between(r, w)' = Input!Between(r, w)
         /\ Input!Between(w, e)' = SubSeq(Input!Between(w, e), 1, Len(Input!Between(w, e)) - 1)
<1>1. /\ w \in 0 .. InputWrap - 1 /\ e \in 0 .. InputWrap - 1 /\ w # e
      /\ cBuf \in [0 .. INPUT_BUF_SIZE - 1 -> Input!Char \cup {Nothing}]
  BY DEF InputInv, Input!TypeOK, Input!Index, Input!Slot, Input!Backspace
<1>2. IsDrop(RingSeq(cBuf, w, (e - 1) % InputWrap, INPUT_BUF_SIZE, InputWrap),
             RingSeq(cBuf, w, e, INPUT_BUF_SIZE, InputWrap))
  BY <1>1, ConsoleIsRing, RingDrop
<1>3. cBuf' = cBuf /\ r' = r /\ w' = w /\ e' = (e - 1) % InputWrap
  BY DEF Input!Backspace
<1> QED BY <1>2, <1>3, RingViews DEF IsDrop

\* ^U leaves an empty line, and what is ready alone.
LEMMA LineKilled ==
  ASSUME Input!ConsoleConstants, InputInv, Input!KillLine
  PROVE  Input!Between(w, e)' = <<>> /\ Input!Between(r, w)' = Input!Between(r, w)
<1>1. cBuf' = cBuf /\ r' = r /\ w' = w /\ e' = w /\ w \in 0 .. InputWrap - 1
  BY KillLineKeeps DEF Input!KillLine, InputInv, Input!TypeOK, Input!Index
<1> QED BY <1>1, RingViews, RingEmpty, ConsoleIsRing

\* The first character that is ready is taken.
LEMMA KeyTaken ==
  ASSUME Input!ConsoleConstants, InputInv,
         r # w, r' = (r + 1) % InputWrap, UNCHANGED <<cBuf, w, e>>
  PROVE  InputStep
<1>1. /\ r \in 0 .. InputWrap - 1 /\ w \in 0 .. InputWrap - 1
      /\ cBuf \in [0 .. INPUT_BUF_SIZE - 1 -> Input!Char \cup {Nothing}]
  BY DEF InputInv, Input!TypeOK, Input!Index, Input!Slot
<1>2. IsTake(RingSeq(cBuf, (r + 1) % InputWrap, w, INPUT_BUF_SIZE, InputWrap),
             RingSeq(cBuf, r, w, INPUT_BUF_SIZE, InputWrap), cBuf[r % INPUT_BUF_SIZE])
  BY <1>1, ConsoleIsRing, RingGet
<1>3. /\ Input!Between(r, w) # <<>> /\ Input!Between(r, w)' = Tail(Input!Between(r, w))
      /\ Input!Between(w, e)' = Input!Between(w, e)
  BY <1>2, RingViews DEF IsTake
<1> QED BY <1>3 DEF InputStep, Input!Abstract!INext, Input!Abstract!Take

\* A step that leaves the buffer alone is a stutter.
LEMMA InputStutter ==
  ASSUME UNCHANGED Input!inputVars
  PROVE  InputStep
<1>1. Input!Between(r, w)' = Input!Between(r, w) /\ Input!Between(w, e)' = Input!Between(w, e)
  BY RingViews DEF Input!inputVars
<1> QED BY <1>1 DEF InputStep

\* A key is a step of the line editor.
LEMMA MapsKey ==
  ASSUME Input!ConsoleConstants, InputInv, Input!Consoleintr
  PROVE  InputStep
<1>1. ASSUME NEW c \in Input!Char, Input!StoreKey(c) PROVE InputStep
  <2>1. /\ Dist(r, e) \in Nat /\ Dist(r, e) < INPUT_BUF_SIZE
        /\ Input!Completes(c) <=> c \in Input!Ends \/ Dist(r, e) + 1 = INPUT_BUF_SIZE
    <3>1. r \in Input!Index /\ e \in Input!Index
      BY DEF InputInv, Input!TypeOK
    <3>2. Dist(r, e) \in 0 .. InputWrap - 1
      BY <3>1, Distances
    <3> QED BY <1>1, <3>2, StoreOrder, InputSizes
  <2>2. Input!Abstract!Insert(c)
    BY <1>1, <2>1, Lengths, KeyAppended, LineHandedOver DEF Input!Abstract!Insert
  <2> QED BY <2>2 DEF InputStep, Input!Abstract!INext
<1>2. CASE Input!Backspace
  BY <1>2, KeyErased DEF InputStep, Input!Abstract!INext, Input!Abstract!Erase
<1>3. CASE Input!KillLine
  BY <1>3, LineKilled DEF InputStep, Input!Abstract!INext, Input!Abstract!KillLine
<1>4. CASE Input!IgnoreKey
  BY <1>4, InputStutter DEF Input!IgnoreKey, Input!vars, Input!inputVars
<1> QED BY <1>1, <1>2, <1>3, <1>4 DEF Input!Consoleintr

\* consoleread() takes a character or leaves all as it is.
LEMMA MapsRead ==
  ASSUME Input!ConsoleConstants, InputInv, NEW p \in Reader, Input!ReadStep(p)
  PROVE  InputStep
<1>1. CASE Input!ReadChar(p) \/ Input!ReadFault(p)
  BY <1>1, KeyTaken DEF Input!ReadChar, Input!ReadFault
<1>2. CASE Input!ReadEof(p)
  <2>1. CASE r' = r
    BY <1>2, <2>1, InputStutter DEF Input!ReadEof, Input!inputVars
  <2>2. CASE r' = (r + 1) % InputWrap
    BY <1>2, <2>2, KeyTaken DEF Input!ReadEof
  <2> QED BY <1>2, <2>1, <2>2 DEF Input!ReadEof
<1>3. CASE \/ Input!ReadAcquire(p) \/ Input!ReadKilled(p) \/ Input!ReadWait(p)
           \/ Input!ReadSleep(p) \/ Input!ReadDone(p)
  BY <1>3, InputStutter
  DEF Input!ReadAcquire, Input!ReadKilled, Input!ReadWait, Input!ReadSleep, Input!ReadDone
<1> QED BY <1>1, <1>2, <1>3 DEF Input!ReadStep

\* console.c implements LineInput for every size of its buffer and every
\* width of its indexes that the buffer divides: ^H and ^U never reach what
\* is ready, and no character is overwritten, repeated or reordered when the
\* indexes or the buffer wrap.
THEOREM ConsoleIsLineInput == Input!ConsoleConstants => (Input!Spec => IsLineInput)
<1> SUFFICES ASSUME Input!ConsoleConstants PROVE Input!Spec => Input!IsLineInput
  BY DEF IsLineInput
<1>1. Input!Init => Input!Abstract!IInit
  <2> SUFFICES ASSUME Input!Init PROVE Input!Abstract!IInit
    OBVIOUS
  <2>1. r = 0 /\ w = 0 /\ e = 0 /\ 0 \in 0 .. InputWrap - 1
    BY InputSizes DEF Input!Init
  <2>2. RingSeq(cBuf, 0, 0, INPUT_BUF_SIZE, InputWrap) = <<>>
    BY <2>1, RingEmpty, ConsoleIsRing
  <2> QED BY <2>1, <2>2, RingViews DEF Input!Abstract!IInit
<1>2. InputInv /\ [Input!Next]_(Input!vars)
        => [Input!Abstract!INext]_<<Input!Between(r, w), Input!Between(w, e)>>
  <2> SUFFICES ASSUME InputInv, [Input!Next]_(Input!vars) PROVE InputStep
    BY DEF InputStep
  <2>1. CASE UNCHANGED Input!vars
    BY <2>1, InputStutter DEF Input!vars, Input!inputVars
  <2>2. ASSUME NEW p \in Reader, Input!Kill(p) \/ \E n \in 0 .. MaxLen : Input!ReadCall(p, n)
        PROVE  InputStep
    BY <2>2, InputStutter DEF Input!Kill, Input!ReadCall
  <2> QED BY <2>1, <2>2, MapsKey, MapsRead DEF Input!Next
<1>3. Input!Spec => []InputInv
  BY ConsoleInvariant
<1> QED BY <1>1, <1>2, <1>3, PTL DEF Input!Spec, Input!IsLineInput, Input!Abstract!ISpec
=============================================================================
