\* A loop of the pool serves two connections; accept may fail.
CONSTANTS
  Base = "base"
  Loops <- OneLoop
  MaxConns = 2
  MaxInputs = 1
  MaxCalls = 0
  Faults = {"accept"}
  Acceptor = Acceptor
  SendRoom = 1
  InitSize = 2
  Nul = Nul
  Messages <- TooLong
SPECIFICATION Spec
INVARIANTS TeardownOnce OpenIsServed
PROPERTIES ImplementsLife FinEndsConnection
\* a server nobody connects to any more stops
CHECK_DEADLOCK FALSE
