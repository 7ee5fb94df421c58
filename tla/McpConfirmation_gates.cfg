\* Two calls through every gate of the server, every answer and client and both
\* protocol eras, with an audit sink that may fail, while somebody pushes.
SPECIFICATION Spec
CONSTANTS
  Calls = {c1, c2}
  NoState = NoState
  Forged = Forged
  Requests <- MCAll
  PinTools <- MCPinTools
  Refused <- MCRefused
  Unasked <- MCUnasked
  OutOfScope <- MCOutOfScope
  Eras = {"handshake", "2026"}
  Forms = {TRUE, FALSE}
  Sends = {"none", "accept", "unticked", "decline", "cancel", "malformed"}
  AuditFailure = "deny"
  SinkFails = TRUE
  TTL = 0
  MaxClock = 1
  MaxVersion = 1
  MaxKey = 0
SYMMETRY MCSymmetry
INVARIANTS
  MergedAsShown
  RecordMatchesDeed
  ServedIsRecorded
  RunsOnlyWhatWasAsked
