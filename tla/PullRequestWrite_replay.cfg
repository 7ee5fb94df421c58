\* A conflict of the command's own making.
SPECIFICATION Spec
CONSTANTS
  w1 = w1
  u1 = u1
  u2 = u2
  Writers = {w1}
  Users = {u1, u2}
  Commands <- MCCommands
  Retries = 1
  MaxVersion = 3
  NoVersion = NoVersion
  Keep = Keep
  Nothing = Nothing
INVARIANT
  RetryIsSafe
CHECK_DEADLOCK FALSE
