\* Every way to cut the streams into messages, and every fill of the send
\* buffer.
CONSTANTS
  Base = "base"
  Client = 0
  Words <- AllWords
  Streams <- AllStreams
  Pages <- AllPages
  SendRoom = 2
  InitSize = 6
  Nul = Nul
SPECIFICATION Spec
INVARIANTS TypeOK MessageGetsReply ContextClean RepliesInOrder OutputIntact
PROPERTIES RepliesReachPeer RequestsAnswered
\* the stream ends, and a failed assertion ends the process
CHECK_DEADLOCK FALSE
