\* Timers asked for from both sides, run, put back and deleted.
CONSTANTS
  Timers = {a, b}
  Second = 2
  Delays = {1, 2}
  MaxTime = 5
  MaxSetBacks = 1
  NoTimer = NoTimer
SPECIFICATION Spec
INVARIANTS TypeOK OnePlace
PROPERTIES FiresInOrder InsertedRuns
\* the clock stops at MaxTime
CHECK_DEADLOCK FALSE
