SPECIFICATION Spec
CONSTANTS
  Tab = {a}
  e1 = e1
  e2 = e2
  tr = tr
  n1 = n1
  Entries = {e1, e2}
  Pages <- AllPages
  Candidate = Candidate
  Texts = {tr}
  Bad = Bad
  Plain = Plain
  Notes = {n1}
  NoEnvelope = NoEnvelope
  NoUndo = NoUndo
  NoFile = NoFile
  Outside = Outside
  Foreign <- Damaged
  MaxGestures = 3
  MaxShared = 0
PROPERTIES
  DecisionsLoad
