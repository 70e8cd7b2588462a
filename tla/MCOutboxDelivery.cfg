SPECIFICATION Spec
CONSTANTS
  Event = {e1, e2}
  Worker = {w1, w2}
  None = None
  BatchSize = 2
  LockDuration = 3
  PublishTimeout = 1
  CallTime = 1
  MaxAttempts = 2
  BaseDelay = 1
  MaxDelay = 2
  Multiplier = 2
  MaxFaults = 2
  Cap = 4
INVARIANTS
  TypeOK
  PublishedIsDelivered
  LeasesAreExclusive
PROPERTIES
  LateReportsChangeNothing
  EventsSettle
