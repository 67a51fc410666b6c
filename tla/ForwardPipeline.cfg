\* Two forwarders of the device and one of the system; a container dies once.
\* The event ends.
SPECIFICATION Spec
CONSTANTS
  f1 = f1
  f2 = f2
  s1 = s1
  Forwarders = {f1, f2, s1}
  SystemOwned = {s1}
  Levels = {"Hy", "temp"}
  MaxTopic = 3
  MaxPattern = 2
  PatternOf <- Filters
  Keyed = {f1}
  DecodersOf <- TwoDecoders
  TransformersOf <- Transformers
  Mapped = {f2}
  Conditional = {f1}
  NoForwarder = NoForwarder
  MaxRuns = 2
INVARIANTS
  OwnContext
  PassesIndependent
  EachServed
  RenderedInOrder
  OnlyMqttSelects
CHECK_DEADLOCK FALSE
