\* Three operations on sensors of a bus and a battery with pins; two of them
\* overlap and one is cut short.  A command is a row for each of two bases.
\* All three may have ended.
SPECIFICATION Spec
CONSTANTS
  Requests = {r1, r2, r3}
  Nobody = Nobody
  Sensors = {"soil_moisture", "battery"}
  TypeOf <- SeedTypes
  RuleOf <- FirstOfType
  MaxOf <- SmallMax
  PinsOf <- OnePin
  Reports <- SomeReports
  Bases = 2
  MaxInFlight = 2
  MaxDeaths = 1
INVARIANTS
  TypeOK
  AddressesDistinct
  RowsAsReported
  
SYMMETRY RequestSymmetry
CHECK_DEADLOCK FALSE
