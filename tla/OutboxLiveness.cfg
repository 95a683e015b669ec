SPECIFICATION FairSpec
CONSTANTS
  Row = {1, 2}
  Worker = {w1}
  Poison = {2}
  MaxAttempts = 3
  Limit = 1
  MaxFaults = 2
PROPERTIES DeliveryImplemented EventuallySettled
