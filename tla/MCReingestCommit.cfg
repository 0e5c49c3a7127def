SPECIFICATION Spec
CONSTANTS
  a = a
  b = b
  old = old
  new = new
  Absent = Absent
  public = public
  internal = internal
  Paths = {a, b}
  Contents = {old, new}
  Trusts = {public, internal}
  Versions = {1, 2}
  Callers = {s1}
  Trees <- MCTrees
  Releases <- MCReleases
  CanRollBack = FALSE
  MaxCommits = 2
  MaxRestarts = 0
PROPERTIES
  RecordedCommitIsApplied
