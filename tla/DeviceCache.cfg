\* A device that is created up to twice, two lookups and two requests.
SPECIFICATION FairSpec
CONSTANTS
  MaxRows = 2
  Versions = {1, 2}
  NoDevice = NoDevice
  Lookups = {l1, l2}
  Requests = {q1, q2}
  MaxFailures = 1
INVARIANTS
  CreatedIsServed
PROPERTIES
  ServedAtLast
CHECK_DEADLOCK FALSE
