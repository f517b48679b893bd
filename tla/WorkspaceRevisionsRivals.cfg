SPECIFICATION Spec
CONSTANTS
  r1 = r1
  r2 = r2
  r3 = r3
  d1 = d1
  d2 = d2
  Revision = {r1, r2, r3}
  Digest = {d1}
  Submissions <- Rivals
  Instant = {t1}
  Publisher = {p1, p2}
  Settler = {w1}
  Reader = {}
  SettleAge = 1
  MaxInflight = 2
  None = None
SYMMETRY PublisherSymmetry
INVARIANTS
  OneLine
  OutboxIsTheLine
  RefusalIsFinal
PROPERTIES
  HistorySpec
CHECK_DEADLOCK FALSE
