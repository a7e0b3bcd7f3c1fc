SPECIFICATION Spec
CONSTANTS
  Releases <- MCReleases
  MaxWrites = 2
INVARIANTS RevisionsFit
PROPERTIES NothingLostGoingUp
