CONSTANTS
  N = 3
  NUM_REGISTERS = 2
  TEMPORARIES = 1
  MaxDepth = 4
  MaxCalls = 3
  Sources <- WithExpressions
SPECIFICATION Spec

PROPERTIES CalleeSavedKept
