CONSTANTS
  m1 = m1
  m2 = m2
  Proc = {m1, m2}
  K = 2
  Others = {x1}
  None = None
  MaxEdit = 2
  MaxTouch = 1
  MaxStop = 1
SPECIFICATION Spec
SYMMETRY Interchangeable
INVARIANTS
  TypeOK
  SuccessIsOneGeneration
  FailureLeavesNothing
  OneTreeAtATime
  OneSuccess
PROPERTIES
  OnlyOwnTreesGo
