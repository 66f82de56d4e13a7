CONSTANTS
  p1 = p1
  p2 = p2
  w1 = w1
  w2 = w2
  o1 = o1
  c1 = c1
  c2 = c2
  d1 = d1
  d2 = d2
  t1 = t1
  Proc = {p1}
  Ws = {w1}
  Out = {o1}
  OutOf <- SharedOutput
  N = 2
  Content = {c1}
  Digest = {d1, d2}
  Text = {t1}
  None = None
  Foreign = Foreign
  MaxStop = 0
  MaxEdit = 0
  MaxSwap = 1
  MaxTouch = 0
SPECIFICATION Spec
INVARIANTS
  DriftStopsRun
