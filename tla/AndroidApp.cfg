CONSTANTS
  Main = main
  worker = worker
  Worker <- MCWorker
  Thread <- MCThread
  CallIn = {3}
  MaxEvents = 3
SPECIFICATION FairSpec
CHECK_DEADLOCK FALSE
INVARIANTS
  TypeOK
  OneEventAtMost
  EventsInOrder
PROPERTIES
  ActionReturns
  DrainStops
