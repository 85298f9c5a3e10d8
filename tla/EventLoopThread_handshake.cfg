\* Starting and stopping the loop's thread.
CONSTANTS
  owner = owner
  worker = worker
  Threads = {owner, worker}
  Nobody = Nobody
SPECIFICATION Spec
INVARIANTS HandshakeInv HolderAccurate StartReturnsLoop StopOnLiveLoop
PROPERTY CallsReturn
\* a destroyed EventLoopThread does nothing more
CHECK_DEADLOCK FALSE
