\* Every function of five instructions between Enter and the last Return;
\* three blocks and one variable, since variables do not interact.
CONSTANTS
  Locals = {}
  Formals = {}
  Globals = {}
  Addrs = {}
  local_id <- EmptyIds
  Null = Null
  Programs <- MCPrograms
  BITS_PER_PARTITION = 32
  BodyLength = 5
  N = 3
  Vars = {x}
SPECIFICATION MCSpec
INVARIANTS SolvedAtEnd BelowEveryClosed ExactAtEnd DominatorsExact
PROPERTIES TransfersAreEdges IterationsEnd
CHECK_DEADLOCK FALSE
