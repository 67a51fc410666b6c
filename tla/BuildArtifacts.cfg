\* Two builds and two downloads, by either route, with two failures.
SPECIFICATION FairSpec
CONSTANTS
  Builds = {b1, b2}
  Downloads = {d1, d2}
  NoBuild = NoBuild
  MaxFailures = 2
INVARIANTS
  AnnouncedIsWhole
  DeletedOnlyWhenSent
  ContainersRemoved
PROPERTIES
  ImplementsHandover
  BuildsEnd
CHECK_DEADLOCK FALSE
