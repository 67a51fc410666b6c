\* The comment on data.targets.unshift(): is a target removed once processed?
SPECIFICATION Spec
CONSTANTS
  NumTargets = 2
  HttpTargets = {1}
  Policies = {1}
  Jobs = {j1, j2, j3, j4}
  Count = 3
  MaxCrashes = 0
PROPERTIES
  NotSentAgain
