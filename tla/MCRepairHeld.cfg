SPECIFICATION RepairSpec
CONSTANTS
  SLOTS = 2
  REPAIRS_PER_SEC = 1
  REPAIR_OK = TRUE
  HELD = 1
  MaxInputs = 4
  MaxPath = 2
CHECK_DEADLOCK FALSE
INVARIANT PictureSound
