CONSTANTS
  VGA_WIDTH = 5
  VGA_HEIGHT = 2
  CLICK_BOX = 1
  Headers = {8, 9, 57, 72}
  Motion = {2, 8}
  Keys = {2, 30, 42, 54, 58, 72}
  LETTERS = {30}
  OTHER_CHARS = {2}
  EXTENDED_KEYS = {72}
  MaxPackets = 3
  MaxLost = 1
  MaxKeys = 3
SPECIFICATION Spec
INVARIANTS
  TypeOK
  InStep
  GesturesWellFormed
  ShiftFollowsKeys
CHECK_DEADLOCK FALSE
