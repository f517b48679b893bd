SPECIFICATION ComponentsSpec
CONSTANTS
  Revision = {r1, r2, r3}
  Consumer = {c1}
  Deliverer = {d1, d2}
  Nobody = Nobody
  Path = {f}
  Content = {a, b}
  MaxRevision = 3
  MaxId = 2
  None = None
  File = {f}
  MaxSaves = 3
  MaxVersion = 3
  Empty = {2}
  Foreign = Foreign
  Nothing = Nothing
SYMMETRY ContentSymmetry
INVARIANTS
  ProjectionIsWhole
  EditsAreKept
  PublishedOnce
  AgentWorkIsHeld
  NothingIsForgotten
PROPERTIES
  CheckpointAdvances
  NeverRollsBack
  OldNeverReplacesNew
CHECK_DEADLOCK FALSE
