\* Three runs of one bb, the third a dry run, on Windows and elsewhere.
SPECIFICATION Spec
CONSTANTS
  r1 = r1
  r2 = r2
  r3 = r3
  Runs = {r1, r2, r3}
  DryRuns = {r3}
  Original = Original
  None = None
  Damaged = Damaged
  Installed <- MCInstalled
  Releases <- MCReleases
  Systems = {"windows", "other"}
  Policies = {FALSE}
SYMMETRY MCSymmetry
INVARIANTS
  TypeOK
  AlwaysABinary
  FailureUndoesItself
  AppliesANewerRelease
CHECK_DEADLOCK FALSE
