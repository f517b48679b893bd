SPECIFICATION PinSpec
CONSTANTS
  Secrets = {p1}
  Tabs = {t1}
  MaxAttempts = 2
  MaxTries = 0
  MaxChanges = 1
  MaxPeppers = 2
  MaxCrashes = 1
  MaxRemovals = 0
  Nil = Nil
PROPERTY
  ForgottenStaysForgotten
CHECK_DEADLOCK FALSE
