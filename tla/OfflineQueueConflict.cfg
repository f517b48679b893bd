SPECIFICATION QueueSpec
CONSTANTS
  File = {f}
  MaxSaves = 3
  MaxVersion = 4
  Empty = {2}
  Foreign = Foreign
  Nothing = Nothing
PROPERTIES
  ConflictIsHeld
CHECK_DEADLOCK FALSE
