SPECIFICATION RotationSpec
CONSTANTS
  File = {f1, f2}
  Job = {j1, j2}
  Rotator = {v1, v2}
  Client = {c1}
  MaxKey = 2
  None = None
SYMMETRY Symmetry
INVARIANTS
  StampsTellTheKey
CHECK_DEADLOCK FALSE
