\* One buffer: appended to, filled by readFd and retrieved from.
CONSTANTS
  Threads = {t1}
  InitSize = 2
  ExtraSize = 3
  AppendSizes = {1, 2}
  ReadSizes = {1, 3}
  MaxBytes = 9
  Nul = Nul
SPECIFICATION Spec
INVARIANT TypeOK
PROPERTIES CountsKept FullVectorKeepsBytes
\* Bound: MaxBytes ends the run
CHECK_DEADLOCK FALSE
