\* Temporaries have been bypassed: a result may go to any variable.
CONSTANTS
  Scalars = {"x", "y", "c", "d"}
  Consts = {"k", "l"}
  const_val <- MCconst_val
  Type <- MCType
  Arrays = {"ints", "chars"}
  Formals = {"chars"}
  Lengths <- MCLengths
  Addrs = {"p", "q"}
  elt_type <- MCelt_type
  reg <- MCreg
  NUM_REGISTERS = 2
  Words <- MCWords
  Chars <- MCChars
  Narrow <- MCNarrow
  Negate <- MCNegate
  Arith <- MCArith
  Holds <- MCHolds
  ArithOps = {"sub"}
  BoolOps = {"le", "ne"}
  Junk = Junk
  Bypassed = TRUE
  MaxTemporaries = 3
  MaxPending = 3
SPECIFICATION MCSpec
INVARIANTS CharRegistersNarrow
