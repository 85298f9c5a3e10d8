\* Another thread calls send and closeConnection while the loop serves the
\* connection.
CONSTANTS
  Base = "base"
  Loops <- OneLoop
  MaxConns = 1
  MaxInputs = 1
  MaxCalls = 2
  Faults = {}
  Acceptor = Acceptor
  SendRoom = 1
  InitSize = 2
  Nul = Nul
  Messages <- FittingOrNot
SPECIFICATION Spec
INVARIANTS AssertionsHold OutputArmed
PROPERTIES NoInputAfterClose CloseEndsConnection
\* a server nobody connects to any more, or whose process ended, stops
CHECK_DEADLOCK FALSE
