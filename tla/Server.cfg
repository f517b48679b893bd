SPECIFICATION ServerSpec
CONSTANTS
  r1 = r1
  r2 = r2
  r3 = r3
  d1 = d1
  d2 = d2
  Revision = {r1, r2}
  Digest = {d1, d2}
  Submissions <- Chain
  Instant = {t1}
  Publisher = {p1, p2}
  Settler = {w1}
  Reader = {q1}
  SettleAge = 1
  MaxInflight = 2
  None = None
  Account = {u1}
  Attempt = {a1, a2}
  Permit = {q2, q3}
  Request = {k1, k2}
  AttemptTtl = 2
  PermitTtl = 1
  RateWindow = 2
  RateLimit = 1
  LastTick = 2
  grant = grant
  save = save
  Lease = {l1, l2}
  AuthWriter = {grant}
  FileWriter = {save}
  Place <- PlaceOfIntent
  LeaseTtl = 2
  LastHour = 3
  CohortWriter = {x1}
  Operator = {o1, o2}
  Control <- ToRevisions
  MaxGeneration = 2
  FenceTtl = 1
  LastInstant = 2
SYMMETRY PublisherSymmetry
INVARIANTS
  RecoveryTellsTheTruth
  NothingUntracked
  ReadsAreWhole
  AnswersAreTrue
  OneSignInPerAttempt
  AttemptsWithinBudget
  LeaseExcludesWriters
  WritersKeepTheirRoute
  RouteIsRecorded
PROPERTIES
  ReadsAdvance
CHECK_DEADLOCK FALSE
