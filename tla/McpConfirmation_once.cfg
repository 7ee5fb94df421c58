\* Three calls about one tag: one asks, two answer, while the clock runs past
\* the expiry and the server restarts once; fairly scheduled, every call ends.
SPECIFICATION FairSpec
CONSTANTS
  Calls = {c1, c2, c3}
  NoState = NoState
  Forged = Forged
  Requests <- MCOneTag
  PinTools <- MCPinTools
  Refused = {}
  Unasked = {}
  OutOfScope = {}
  Eras = {"2026"}
  Forms = {TRUE}
  Sends = {"none", "accept", "decline"}
  AuditFailure = "deny"
  SinkFails = FALSE
  TTL = 1
  MaxClock = 2
  MaxVersion = 0
  MaxKey = 1
INVARIANTS
  TypeOK
  AnsweredOnceOnTime
  RerunWasInFlight
PROPERTIES
  CallsEnd
