CONSTANTS
  caller = a
  callee = b
  MaxFailures = 1
SPECIFICATION FairSpec
CHECK_DEADLOCK FALSE
INVARIANTS
  TypeOK
  NoMediaWithoutConsent
  AgreeWhenQuiet
PROPERTIES
  RevivedByLateNewsOnly
  AcceptedCallConnects
