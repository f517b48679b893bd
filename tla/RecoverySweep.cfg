SPECIFICATION FairSweepSpec
CONSTANTS
  r1 = r1
  r2 = r2
  d1 = d1
  Revision = {r1, r2}
  Digest = {d1}
  Submissions <- Line
  Instant = {t1}
  Publisher = {p1}
  Settler = {w1}
  Reader = {}
  SettleAge = 1
  MaxInflight = 1
  None = None
  Place <- Order
  TableEnd = 2
INVARIANTS
  SweepIsWhole
PROPERTIES
  PendingIsSettled
CHECK_DEADLOCK FALSE
