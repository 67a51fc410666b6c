\* An HTTP and an MQTT target, no retry policy or one that never ends, and a
\* crash; the targets need not answer, and the answer may be no object.
SPECIFICATION FairSpec
CONSTANTS
  NumTargets = 2
  HttpTargets = {1}
  Policies <- FirstAndLastPolicy
  Jobs = {j1, j2, j3}
  Count = 2
  MaxCrashes = 1
INVARIANTS
  ReachedInOrder
  NotForgotten
  OneJobAtATime
  RunsBounded
  RenderedFromPredecessor
PROPERTIES
  ImplementsDelivery
  Ends
  ReachedAtLast
