SPECIFICATION Spec
CONSTANTS
  Procs <- MCProcs
  Files = {f1, f2}
  Hosts <- MCHosts
  Aliases <- MCAliases
  Endpoint <- MCEndpoint
  PlainOf <- MCPlainOf
  p1 = p1
  p2 = p2
  p3 = p3
  p4 = p4
  f1 = f1
  f2 = f2
  Anyone = Anyone
  Old = Old
  NoHost = NoHost
  NoSecret = NoSecret
  Nobody = Nobody
  Unsure = Unsure
  Commands <- SharedCommands
  Before <- NoneBefore
  KeyringFails <- AnyFault
  SaveFails = TRUE
  Crashes = TRUE
  Overlap = TRUE
SYMMETRY MCSymmetry
INVARIANTS
  TypeOK
  FilesAreSound
  ActsOnItsOwn
  NeverInTheClear
  KeyringRequired
CHECK_DEADLOCK FALSE
