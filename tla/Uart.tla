-------------------------------- MODULE Uart --------------------------------
(***************************************************************************)
(* Console output: the transmit side of kernel/uart.c with the device.     *)
(*                                                                         *)
(* Writers put bytes into uart_tx_buf with uartputc(); printf() and echo   *)
(* write the transmit register directly with uartputc_sync(), and do not   *)
(* take uart_tx_lock.  The test of LSR and the write of THR are therefore  *)
(* two steps.  uartinit() switches the device's queue on: LSR_TX_IDLE says *)
(* that the queue is empty, and a byte is lost only when it is full.  The  *)
(* counters are modulo Wrap (2^64 in C).  A panicked kernel is left out.   *)
(***************************************************************************)
EXTENDS Integers, Sequences, FiniteSets

CONSTANTS Writer,            \* processes in write()
          Sync,              \* activities in uartputc_sync()
          Intr,              \* uartintr()
          Byte,
          UART_TX_BUF_SIZE,
          Wrap,
          FifoSize,          \* length of the queue of the device
          None

Thread == Writer \cup Sync \cup {Intr}

\* What the code takes for granted of its constants.
UartConstants ==
  /\ UART_TX_BUF_SIZE \in Nat \ {0} /\ Wrap \in Nat /\ FifoSize \in Nat
  /\ UART_TX_BUF_SIZE < Wrap /\ Wrap % UART_TX_BUF_SIZE = 0
  /\ Writer \cap Sync = {} /\ Intr \notin Writer \cup Sync /\ None \notin Thread
  /\ IsFiniteSet(Sync)

VARIABLES
  buf, tx_w, tx_r,  \* uart_tx_buf, uart_tx_w, uart_tx_r
  lock,             \* holder of uart_tx_lock
  fifo,             \* number of bytes in the device
  lost,             \* 1 after a byte was written to a full device
  irq,              \* 1 while an interrupt is waiting
  pc

txVars == <<buf, tx_w, tx_r>>
devVars == <<fifo, lost, irq>>
vars == <<buf, tx_w, tx_r, lock, fifo, lost, irq, pc>>

Slot == 0 .. UART_TX_BUF_SIZE - 1

TypeOK ==
  /\ buf \in [Slot -> Byte]
  /\ tx_w \in 0 .. Wrap - 1 /\ tx_r \in 0 .. Wrap - 1
  /\ lock \in Writer \cup {Intr, None}
  /\ fifo \in 0 .. FifoSize
  /\ lost \in {0, 1} /\ irq \in {0, 1}
  /\ pc \in [Thread -> {"idle", "acquire", "full", "sleep", "start", "send", "spin", "put"}]

Init ==
  /\ \E b \in Byte : buf = [i \in Slot |-> b]
  /\ tx_w = 0 /\ tx_r = 0
  /\ lock = None
  /\ fifo = 0 /\ lost = 0 /\ irq = 0
  /\ pc = [t \in Thread |-> "idle"]

Goto(t, label) == pc' = [pc EXCEPT ![t] = label]

Empty == tx_w = tx_r

\* Mutant: one byte more than there is room for.
Full_Late == tx_w = (tx_r + UART_TX_BUF_SIZE + 1) % Wrap

Full == tx_w = (tx_r + UART_TX_BUF_SIZE) % Wrap

-----------------------------------------------------------------------------
(* The device.                                                             *)

\* WriteReg(THR, c)
WriteTHR ==
  /\ fifo' = IF fifo < FifoSize THEN fifo + 1 ELSE fifo
  /\ lost' = IF fifo < FifoSize THEN lost ELSE 1

\* LSR_TX_IDLE
Idle == fifo = 0

\* A byte leaves; the device interrupts when it has no more.
Transmit ==
  /\ fifo > 0
  /\ fifo' = fifo - 1
  /\ irq' = IF fifo = 1 THEN 1 ELSE irq
  /\ UNCHANGED <<txVars, lock, lost, pc>>

-----------------------------------------------------------------------------
(* uartputc()                                                              *)

Call(p) ==
  /\ p \in Writer /\ pc[p] = "idle"
  /\ Goto(p, "acquire")
  /\ UNCHANGED <<txVars, lock, devVars>>

Acquire(p) ==
  /\ p \in Writer /\ pc[p] = "acquire" /\ lock = None
  /\ lock' = p
  /\ Goto(p, "full")
  /\ UNCHANGED <<txVars, devVars>>

\* sleep(&uart_tx_r, &uart_tx_lock)
Sleep(p) ==
  /\ pc[p] = "full" /\ Full
  /\ lock' = None
  /\ Goto(p, "sleep")
  /\ UNCHANGED <<txVars, devVars>>

Store(p, b) ==
  /\ pc[p] = "full" /\ ~Full
  /\ buf' = [buf EXCEPT ![tx_w % UART_TX_BUF_SIZE] = b]
  /\ tx_w' = (tx_w + 1) % Wrap
  /\ Goto(p, "start")
  /\ UNCHANGED <<tx_r, lock, devVars>>

-----------------------------------------------------------------------------
(* uartstart(), by whoever holds uart_tx_lock                              *)

\* Nothing to send, or the device is busy: return and release the lock.
StartReturn(t) ==
  /\ pc[t] = "start"
  /\ Empty \/ ~Idle
  /\ lock' = None
  /\ Goto(t, "idle")
  /\ UNCHANGED <<txVars, devVars>>

\* Mutant: the device is not asked.
StartTest_Blind(t) ==
  /\ pc[t] = "start" /\ ~Empty
  /\ Goto(t, "send")
  /\ UNCHANGED <<txVars, lock, devVars>>

StartTest(t) ==
  /\ pc[t] = "start"
  /\ ~Empty /\ Idle
  /\ Goto(t, "send")
  /\ UNCHANGED <<txVars, lock, devVars>>

\* Mutant: no wakeup(&uart_tx_r).
StartSend_Silent(t) ==
  /\ pc[t] = "send"
  /\ tx_r' = (tx_r + 1) % Wrap
  /\ Goto(t, "start")
  /\ WriteTHR
  /\ UNCHANGED <<buf, tx_w, lock, irq>>

\* The oldest byte is sent and the sleepers are woken.
StartSend(t) ==
  /\ pc[t] = "send"
  /\ tx_r' = (tx_r + 1) % Wrap
  /\ pc' = [u \in Thread |-> IF u = t THEN "start"
                             ELSE IF pc[u] = "sleep" THEN "acquire" ELSE pc[u]]
  /\ WriteTHR
  /\ UNCHANGED <<buf, tx_w, lock, irq>>

-----------------------------------------------------------------------------
(* uartintr()                                                              *)

\* Mutant: an interrupt that finds the lock taken is dropped.
IntrStart_TryLock ==
  /\ irq = 1 /\ pc[Intr] = "idle"
  /\ irq' = 0
  /\ \/ lock = None /\ lock' = Intr /\ Goto(Intr, "start")
     \/ lock # None /\ UNCHANGED <<lock, pc>>
  /\ UNCHANGED <<txVars, fifo, lost>>

\* devintr() claims the interrupt; input has been served (see Console).
IntrStart ==
  /\ irq = 1 /\ pc[Intr] = "idle"
  /\ irq' = 0
  /\ Goto(Intr, "acquire")
  /\ UNCHANGED <<txVars, lock, fifo, lost>>

IntrAcquire ==
  /\ pc[Intr] = "acquire" /\ lock = None
  /\ lock' = Intr
  /\ Goto(Intr, "start")
  /\ UNCHANGED <<txVars, devVars>>

-----------------------------------------------------------------------------
(* uartputc_sync()                                                         *)

SyncCall(s) ==
  /\ s \in Sync /\ pc[s] = "idle"
  /\ Goto(s, "spin")
  /\ UNCHANGED <<txVars, lock, devVars>>

SyncTest(s) ==
  /\ pc[s] = "spin" /\ Idle
  /\ Goto(s, "put")
  /\ UNCHANGED <<txVars, lock, devVars>>

SyncPut(s) ==
  /\ pc[s] = "put"
  /\ WriteTHR
  /\ Goto(s, "idle")
  /\ UNCHANGED <<txVars, lock, irq>>

-----------------------------------------------------------------------------

Start(t) == StartReturn(t) \/ StartTest(t) \/ StartSend(t)

Put(p) == Acquire(p) \/ Sleep(p) \/ Start(p) \/ \E b \in Byte : Store(p, b)

Handler == IntrStart \/ IntrAcquire \/ Start(Intr)

Next ==
  \/ \E p \in Writer : Call(p) \/ Put(p)
  \/ \E s \in Sync : SyncCall(s) \/ SyncTest(s) \/ SyncPut(s)
  \/ Handler
  \/ Transmit

Spec == Init /\ [][Next]_vars

\* The device transmits, interrupts are taken, and whoever finds
\* uart_tx_lock free again and again gets it.
Fairness ==
  /\ WF_vars(Transmit)
  /\ SF_vars(Handler)
  /\ \A p \in Writer : SF_vars(Put(p))

-----------------------------------------------------------------------------
(* Properties.                                                             *)

\* The bytes that wait in uart_tx_buf, oldest first.
Contents ==
  [i \in 1 .. (tx_w - tx_r) % Wrap |-> buf[(tx_r + i - 1) % UART_TX_BUF_SIZE]]

Abstract == INSTANCE Fifo WITH
  Capacity <- UART_TX_BUF_SIZE, queue <- Contents, readopen <- 1, writeopen <- 1

\* uart_tx_buf is a first-in first-out queue, across the wrap-around of its
\* counters: no byte is overwritten, repeated or reordered.
IsFifo == Abstract!FSpec

\* printf() and echo may write the device between the test and the write of
\* uartstart(), and the other way round; no byte is lost as long as the
\* queue of the device has room for one byte of each of them.
NothingLost == FifoSize > Cardinality(Sync) => lost = 0

\* Bytes never wait without anybody to send them: the device is busy, so it
\* will interrupt, or an interrupt is on its way, or the lock is held by
\* someone who is going to look.
NeverStalls ==
  lock = None /\ ~Empty => fifo > 0 \/ irq = 1 \/ pc[Intr] = "acquire"

\* The variables have their types, no byte is lost and none waits for ever
\* (uartputc(), uartputc_sync(), uartstart()).
UartInv == TypeOK /\ NothingLost /\ NeverStalls

\* A writer that sleeps because the buffer is full is woken, unless printf()
\* or echo keep the device busy for ever.
WritersWoken ==
  (<>[]\A s \in Sync : pc[s] = "idle") =>
    \A p \in Writer : pc[p] = "sleep" ~> pc[p] # "sleep"
=============================================================================
