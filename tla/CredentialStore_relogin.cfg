SPECIFICATION Spec
CONSTANTS
  Procs <- MCProcs
  Files = {f1, f2}
  Hosts <- MCHosts
  Aliases <- MCAliases
  Endpoint <- MCEndpoint
  PlainOf <- MCPlainOf
  p1 = p1
  p2 = p2
  p3 = p3
  p4 = p4
  f1 = f1
  f2 = f2
  Anyone = Anyone
  Old = Old
  NoHost = NoHost
  NoSecret = NoSecret
  Nobody = Nobody
  Unsure = Unsure
  Commands <- ReloginCommands
  Before <- NoneBefore
  KeyringFails <- SetFails
  SaveFails = FALSE
  Crashes = FALSE
  Overlap = FALSE
SYMMETRY MCSymmetry
INVARIANTS
  LastLoginAnswers
CHECK_DEADLOCK FALSE
