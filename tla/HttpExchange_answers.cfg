SPECIFICATION FairSpec
CONSTANTS
  Transports = {"httpclient", "openapi"}
  Methods = {"PUT", "POST"}
  Retries = 2
  Bodies = {"whole", "cut", "odd", "empty"}
INVARIANTS
  TypeOK
  IdempotentIsSentAgain
PROPERTIES
  KeepsThePromise
  RequestEnds
CHECK_DEADLOCK FALSE
