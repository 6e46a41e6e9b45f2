SPECIFICATION Spec
CONSTANTS
  Watches <- MCWatches
  MaxVersion = 2
  MaxFailures = 1
INVARIANTS TypeOK OneAtATime QuietIsHandled
PROPERTIES DeliverySpec ChangeHandled StopEnds
CHECK_DEADLOCK FALSE
