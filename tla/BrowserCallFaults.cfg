CONSTANTS
  None = None
  Browser = {p, q}
  CallId = {c1}
  MaxAccepts = 2
  Trickle = TRUE
  Faults = TRUE
SPECIFICATION FairSpec
CHECK_DEADLOCK FALSE
INVARIANTS
  OfferOnce
PROPERTIES
  AcceptedCallConnects
  HangUpIsNoticed
