\* A peer resets a connection that is being closed.
CONSTANTS
  Base = "base"
  Loops <- NoPool
  MaxConns = 1
  MaxInputs = 1
  MaxCalls = 0
  Faults = {"reset"}
  Acceptor = Acceptor
  SendRoom = 1
  InitSize = 2
  Nul = Nul
  Messages <- FittingOrNot
SPECIFICATION Spec
INVARIANT AssertionsHold
\* a server nobody connects to any more, or whose process ended, stops
CHECK_DEADLOCK FALSE
