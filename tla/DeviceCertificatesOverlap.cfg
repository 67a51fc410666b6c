\* Four requests for one device, any three of them at once, with a failure.
SPECIFICATION Spec
CONSTANTS
  Requests = {r1, r2, r3, r4}
  Certs = {k1, k2, k3, k4}
  NoCert = NoCert
  MaxInFlight = 3
  MaxFailures = 1
INVARIANTS
  RecordUsable
  OrphansBounded
  InAgreement
PROPERTIES
  ImplementsRegistry
SYMMETRY RequestSymmetry
