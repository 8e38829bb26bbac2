SPECIFICATION Spec
CONSTANTS
  VGA_WIDTH = 4
  VGA_HEIGHT = 3
  CLICK_BOX = 1
  Users = {1}
  MAX_PROC_WINDOWS = 4
  Windows <- MCWindows
  MAX_EVENTS = 5
  BATCH = 2
  Packets <- MCPackets
  Texts <- MCTexts
  MaxInputs = 3
INVARIANTS StackExact ChildrenByZindex ChildrenFollowFrame ScreenShowsTop
CHECK_DEADLOCK FALSE
