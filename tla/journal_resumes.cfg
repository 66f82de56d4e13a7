CONSTANTS
  N = 1
  MaxRun = 1
  Unread = Unread
SPECIFICATION Spec
INVARIANTS
  EveryStopResumes
