\* One command, against everybody else.
SPECIFICATION Spec
CONSTANTS
  w1 = w1
  u1 = u1
  u2 = u2
  Writers = {w1}
  Users = {u1, u2}
  Commands <- MCCommands
  Retries = 1
  MaxVersion = 3
  NoVersion = NoVersion
  Keep = Keep
  Nothing = Nothing
INVARIANTS
  TypeOK
  DraftToldOfOpen
  RepeatsOnlyTheUnheard
PROPERTIES
  LandsOnWhatWasRead
  ReviewersKept
  KeepThePromise
CHECK_DEADLOCK FALSE
