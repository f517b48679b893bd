SPECIFICATION KeysSpec
CONSTANTS
  File = {f1, f2}
  Job = {j1, j2}
  Rotator = {v1, v2}
  Client = {c1}
  MaxKey = 2
  None = None
  MaxIds = 4
  MaxCalls = 3
  MaxFaults = 2
  MaxEvictions = 1
  MaxClears = 1
  Absent = Absent
  Secrets = {p1}
  Tabs = {t1}
  MaxAttempts = 2
  MaxTries = 2
  MaxChanges = 2
  MaxPeppers = 2
  MaxCrashes = 1
  MaxRemovals = 1
  Nil = Nil
  MaxChange = 3
  MaxRepeats = 0
SYMMETRY Symmetry
CONSTRAINTS
  ForgottenFirst
  OneTwin
INVARIANTS
  KeysAreStored
  FenceExcludes
  RetiredIsUnused
  StampsAreTrue
  AnsweredIsRestored
  SettledIsAll
  KeyIsKept
  PostureHolds
  FailuresCount
CHECK_DEADLOCK FALSE
