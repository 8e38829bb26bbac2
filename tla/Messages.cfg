SPECIFICATION Spec
CONSTANTS
  Procs = {1}
  MAX_PROCS = 1
  Events = {"KEY_CHAR_DOWN", "MOUSE_MOVE"}
  KEY = "KEY_CHAR_DOWN"
  Chars = {"a", "BS", "NL"}
  BLOCKS = 2
  BITS = 1
  MAX_EVENTS = 1
  MAX_PROC_MSGS = 2
  BATCH = 2
  MAX_INPUT_BUFFER = 2
  MaxLine = 2
  MaxEvents = 3
INVARIANTS MessagesInOrder UnreadSignalled CharsSignalled CharsInOrder LineFits
CHECK_DEADLOCK FALSE
