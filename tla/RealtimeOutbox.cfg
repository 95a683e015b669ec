SPECIFICATION Spec
CONSTANTS
  Row = {1, 2}
  Worker = {w1, w2}
  Poison = {}
  MaxAttempts = 2
  Limit = 2
  MaxFaults = 1
SYMMETRY Processes
INVARIANTS TypeOK EachClaimPublishesOnce LeaseIsExclusive PublishedWasSent TriggerNotLost
PROPERTIES PublishedIsFinal
