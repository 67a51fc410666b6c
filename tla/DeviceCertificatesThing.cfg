\* Requests one after another, with a failure: does a destroy leave no Thing?
SPECIFICATION Spec
CONSTANTS
  Requests = {r1, r2}
  Certs = {k1, k2}
  NoCert = NoCert
  MaxInFlight = 1
  MaxFailures = 1
PROPERTIES
  FullDestruction
