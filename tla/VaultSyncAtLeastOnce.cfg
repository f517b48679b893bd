SPECIFICATION SyncSpec
CONSTANTS
  Path = {a}
  Writer = {w1}
  Reconciler = {k1}
  Client = {c1}
  Second = 2
  MaxTime = 2
  None = None
  Unguarded = Unguarded
  Expectations = {Unguarded}
INVARIANTS
  AtLeastOnce
CHECK_DEADLOCK FALSE
