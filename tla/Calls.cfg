\* Programs in which a function covers the registers of those it calls; two
\* $s registers to save in order, three activations, which nest two deep
\* below main.
CONSTANTS
  N = 3
  NUM_REGISTERS = 2
  TEMPORARIES = 1
  MaxDepth = 4
  MaxCalls = 3
  Sources <- Sound
  NumProcedures = 2
  MaxSaved = 2
  MaxFrames = 3
  StackWords = 20
  Programs <- BareFrames
  Entries = {"c", "three", "five", "i", "ints", "none", "f", "g"}
  Formals = {"f", "g"}
  position <- LayoutPosition
  Bytes = {"c", "three", "five", "g"}
  num_elts <- LayoutElements
SPECIFICATION MCSpec
INVARIANTS FramesIntact FormalsReach FrameSound
PROPERTIES LiveAcrossCalls CallsRestore
CHECK_DEADLOCK FALSE
