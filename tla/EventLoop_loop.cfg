\* Two threads hand functors over and stop the loop; the timer need not expire.
CONSTANTS
  Callers = {t1, t2}
  Functors = {f0, f1, f2}
  Early = {f0}
  Channels = {io}
  wakeupChannel = wakeupChannel
  timerChannel = timerChannel
SPECIFICATION Spec
INVARIANTS TypeOK NoLostWakeup WakeupReadNeverBlocks CallingFlagAccurate
PROPERTIES HandedOverRuns StopEndsLoop KeepsExecuting ImplementsTaskQueue
\* the loop stops for good once stop() was called
CHECK_DEADLOCK FALSE
