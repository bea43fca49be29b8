CONSTANTS
  None = None
  Browser = {p, q}
  CallId = {c1}
  MaxAccepts = 1
  Trickle = FALSE
  Faults = FALSE
SPECIFICATION Spec
CHECK_DEADLOCK FALSE
INVARIANTS
  EndedCallNeverRings
