SPECIFICATION DvcSpec
CONSTANTS
  Ids = {i1, i2}
  NoId = NoId
  Names = {"gfx", "mic"}
  MidClose = TRUE
  MaxFragments = 3
  MaxMessages = 3
  MaxOpens = 3
CHECK_DEADLOCK FALSE
INVARIANT MessagesWhole
