SPECIFICATION SyncSpec
CONSTANTS
  Path = {a}
  Writer = {w1}
  Reconciler = {k1}
  Client = {c1}
  Second = 2
  MaxTime = 3
  None = None
  Unguarded = Unguarded
  Expectations = {Unguarded}
CONSTRAINT Mild
INVARIANTS
  CursorIsCovered
  SkipIsSafe
PROPERTIES
  NeverGoesBack
CHECK_DEADLOCK FALSE
