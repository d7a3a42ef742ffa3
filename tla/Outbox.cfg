SPECIFICATION Spec
CONSTANTS
  Endpoint = {e1, e2}
  MaxRow = 2
  MaxFault = 1
  Lease = 2
  AttemptTime = 1
  IdleSleep = 1
  ErrorSleep = 1
  BaseDelay = 1
  DelayCap = 2
  LongDelay = 3
  LongAfter = 2
INVARIANTS TypeOK DuplicatesAreExplained
PROPERTIES RespectsBackoff ImplementsPromise
  HealthyRowsAreDelivered ShutdownCompletes
