\* As Calls.cfg, with functions that have formals and $s registers.
CONSTANTS
  N = 3
  NUM_REGISTERS = 2
  TEMPORARIES = 1
  MaxDepth = 4
  MaxCalls = 3
  Sources <- Sound
  NumProcedures = 2
  MaxSaved = 2
  MaxFrames = 3
  StackWords = 20
  Programs <- StackPrograms
  Entries = {"c", "three", "five", "i", "ints", "none", "f", "g"}
  Formals = {"f", "g"}
  position <- LayoutPosition
  Bytes = {"c", "three", "five", "g"}
  num_elts <- LayoutElements
SPECIFICATION MCSpec
INVARIANT FormalsReach
CHECK_DEADLOCK FALSE
