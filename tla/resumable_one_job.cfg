CONSTANTS
  p1 = p1
  p2 = p2
  w1 = w1
  w2 = w2
  o1 = o1
  c1 = c1
  c2 = c2
  d1 = d1
  d2 = d2
  t1 = t1
  Proc = {p1, p2}
  Ws = {w1}
  Out = {o1}
  OutOf <- SharedOutput
  N = 2
  Content = {c1, c2}
  Digest = {d1, d2}
  Text = {t1}
  None = None
  Foreign = Foreign
  MaxStop = 1
  MaxEdit = 1
  MaxSwap = 1
  MaxTouch = 1
SPECIFICATION Spec
SYMMETRY Interchangeable
INVARIANTS
  TypeOK
  SentOncePerCheckpoint
  IntentAccountsForPlan
  OneSourceGeneration
  PublishedIsIntended
PROPERTIES
  NeverClobbers
  DurableStepsAreFinal
  KeepsPromise
