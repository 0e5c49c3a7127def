SPECIFICATION FairSpec
CONSTANTS
  a = a
  b = b
  old = old
  new = new
  Absent = Absent
  public = public
  internal = internal
  Paths = {a, b}
  Contents = {old, new}
  Trusts = {public, internal}
  Versions = {1, 2}
  Callers = {s1, s2}
  Trees <- MCTrees
  Releases <- MCReleases
  CanRollBack = FALSE
  MaxCommits = 2
  MaxRestarts = 2
INVARIANTS
  TypeOK
  ChunksMatchDoc
  ServedRowsAreCurrent
PROPERTIES
  UndisturbedSweepMirrorsMain
  OnlyVanishedDocsLeave
  IndexCatchesUp
