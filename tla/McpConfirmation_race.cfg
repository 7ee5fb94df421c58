\* Two answers to one question, either side of its expiry.
SPECIFICATION Spec
CONSTANTS
  Calls = {c1, c2, c3}
  NoState = NoState
  Forged = Forged
  Requests <- MCOneTag
  PinTools <- MCPinTools
  Refused = {}
  Unasked = {}
  OutOfScope = {}
  Eras = {"2026"}
  Forms = {TRUE}
  Sends = {"none", "accept", "decline"}
  AuditFailure = "deny"
  SinkFails = FALSE
  TTL = 1
  MaxClock = 2
  MaxVersion = 0
  MaxKey = 0
SYMMETRY MCSymmetry
INVARIANTS
  NonceUsedOnce
