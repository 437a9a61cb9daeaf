SPECIFICATION Spec
CONSTANTS
  Writers = {w1, w2}
  Answers = {a1, a2}
  MaxCalls = 2
  Embeds = {2}
  SharedLock = TRUE
  MaxFaults = 1
  MaxCrashes = 1
  MaxReaders = 1
  None = None
INVARIANT ResumableAfterCrash
SYMMETRY Symmetry
CHECK_DEADLOCK FALSE
