SPECIFICATION WorkflowSpec
CONSTANTS
  Texts = {t1, t2}
  Choices = {c1}
  Absent = absent
  Junk = junk
  Memory = memory
  Menus <- Chains
  MaxStarts = 4
  MaxRunning = 1
  MaxMeddles = 2
  NoLimit = none
  NoKey = nokey
  NoRow = norow
  None = unrated
  Torn = torn
  Foreign = foreign
  Damaged = damaged
  Builders = {b1, b2}
  BlobSets <- Blobs
  MaxBuilds = 3
  MaxForeign = 1
  BlindEntries = {first, second}
  BlindChoices = {better, worse}
  BlindTabs = {tab, other}
  MaxEdits = 3
  Blob = x
  OtherBlob = y
SYMMETRY TextSymmetry
CHECK_DEADLOCK FALSE
INVARIANT LockKept
