\* Two loops in the pool; the base loop is stopped and the server destroyed at
\* any moment, accept may fail, and peers may reset their connections.
CONSTANTS
  Base = "base"
  Loops <- TwoLoops
  MaxConns = 2
  MaxInputs = 0
  MaxCalls = 0
  Faults = {"shutdown", "accept", "reset"}
  Acceptor = Acceptor
  SendRoom = 1
  InitSize = 2
  Nul = Nul
  Messages <- TooLong
SPECIFICATION Spec
INVARIANTS TypeOK NothingLeaks LoadBalanced
PROPERTIES NoWorkForDeadLoops ShutdownEnds
\* a program that has ended, or whose server nobody connects to any more, stops
CHECK_DEADLOCK FALSE
