SPECIFICATION MCSpec
CONSTANTS
  Proc = {p1, p2, p3}
  Value = {v1}
  NUM = 4
  Ring = 1
  DiskWrap = 3
  Intr = Intr
  None = None
  Writer = {w1, w2}
  Sync = {printf, echo}
  Byte = {a, b}
  UART_TX_BUF_SIZE = 2
  Wrap = 4
  FifoSize = 3
INVARIANTS UartInv
PROPERTIES IsFifo WritersWoken RwReturns
