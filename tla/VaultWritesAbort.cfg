SPECIFICATION WritesSpec
CONSTANTS
  Path = {a}
  Writer = {w1, w2}
  Reconciler = {k1, k2}
  MaxTime = 2
  None = None
  Unguarded = Unguarded
  Expectations = {0, 1, 2, Unguarded}
INVARIANTS
  AbortedDidNotRun
CHECK_DEADLOCK FALSE
