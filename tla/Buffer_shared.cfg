\* Two threads' buffers, neither of which has grown yet.
CONSTANTS
  Threads = {t1, t2}
  InitSize = 2
  ExtraSize = 3
  AppendSizes = {}
  ReadSizes = {3}
  MaxBytes = 3
  Nul = Nul
SPECIFICATION Spec
INVARIANT BytesIntact
\* Bound: MaxBytes ends the run
CHECK_DEADLOCK FALSE
