CONSTANTS
  N = 3
  MaxRun = 2
  Unread = Unread
SPECIFICATION Spec
INVARIANTS
  TypeOK
  CountersAgree
PROPERTIES
  KeepsStore
