SPECIFICATION FairWritesSpec
CONSTANTS
  Path = {a}
  Writer = {w1, w2}
  Reconciler = {k1, k2}
  MaxTime = 2
  None = None
  Unguarded = Unguarded
  Expectations = {0, 1, 2, Unguarded}
INVARIANTS
  EveryChangeIsAnnounced
  RevisionCountsLog
PROPERTIES
  MutationsInOrder
  IntentsAreResolved
CHECK_DEADLOCK FALSE
