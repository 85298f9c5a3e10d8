\* The destructor right after startLoop.
CONSTANTS
  owner = owner
  worker = worker
  Threads = {owner, worker}
  Nobody = Nobody
SPECIFICATION Spec
INVARIANT LoopEntered
\* a destroyed EventLoopThread does nothing more
CHECK_DEADLOCK FALSE
