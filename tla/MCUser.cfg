SPECIFICATION Spec
CONSTANTS
  MAXARGS = 4
  MAX_PING_PONG = 2
  MAX_NUMBER = 5
  NPROC = 7
  NFILE = 12
  NOFILE = 11
  NPIPE = 4
  PIPESIZE = 9
  Sessions <- MCSessions
CHECK_DEADLOCK FALSE
INVARIANTS FileRefs WiredAsWritten RunsInOrder GamesRight
PROPERTY CommandsEnd
