\* One command, one device; every fairness assumption, and one crash.
SPECIFICATION FairSpec
CONSTANTS
  d1 = d1
  Devices = {d1}
  Commands = {c1}
  NumBases = 1
  Identity <- OneDevice
  HomeBase <- FirstBase
  Workers = {w1}
  Senders = {s1}
  Topics = {"contact", "time"}
  NoRow = NoRow
  NoMsg = NoMsg
  MaxCopies = 1
  MaxCrashes = 1
PROPERTIES
  Delivered
  ToldUnlessCrash
  NoFeedbackLoop
CHECK_DEADLOCK FALSE
