\* Two containers, and one call that throws or container that dies.
SPECIFICATION FairSystemSpec
CONSTANTS
  Containers = {a, b}
  Identities = {i1, i2}
  Nobody = Nobody
  Ghost = Ghost
  Handlers = {h1, h2}
  MaxDeaths = 1
  MaxCloses = 1
INVARIANTS
  CertifiedWhenUp
  OneIdentityEach
  OnlyLeaderListens
PROPERTIES
  ComesUp
  SomebodyListens
CHECK_DEADLOCK FALSE
