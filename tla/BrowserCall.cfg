CONSTANTS
  None = None
  Browser = {p, q, r}
  CallId = {c1, c2}
  MaxAccepts = 1
  Trickle = FALSE
  Faults = FALSE
SPECIFICATION Spec
SYMMETRY Symmetry
CHECK_DEADLOCK FALSE
INVARIANTS
  TypeOK
  SdpFindsItsManager
  EndedCallIsCleared
  NoErrorWithoutCause
