\* One command; two workers and two senders race over up to two copies of every
\* message and job, and a container may crash once.
SPECIFICATION Spec
CONSTANTS
  d1 = d1
  Devices = {d1}
  Commands = {c1}
  NumBases = 1
  Identity <- OneDevice
  HomeBase <- FirstBase
  Workers = {w1, w2}
  Senders = {s1, s2}
  Topics = {"contact"}
  NoRow = NoRow
  NoMsg = NoMsg
  MaxCopies = 2
  MaxCrashes = 1
INVARIANTS
  Causality
  NotificationsBounded
PROPERTIES
  ImplementsLifecycle
  SettledFallsSilent
SYMMETRY RaceSymmetry
CHECK_DEADLOCK FALSE
