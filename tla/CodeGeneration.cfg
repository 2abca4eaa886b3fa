\* Every pair of locations and types occurs as source and destination. Three
\* pending places are an address while an operator has an operand and a
\* result, or an operand below a call's actuals.
CONSTANTS
  Scalars = {"x", "y", "c", "d"}
  Consts = {"k", "l"}
  const_val <- MCconst_val
  Type <- MCType
  Arrays = {"ints", "chars"}
  Formals = {"chars"}
  Lengths <- MCLengths
  Addrs = {"p", "q"}
  elt_type <- MCelt_type
  reg <- MCreg
  NUM_REGISTERS = 2
  Words <- MCWords
  Chars <- MCChars
  Narrow <- MCNarrow
  Negate <- MCNegate
  Arith <- MCArith
  Holds <- MCHolds
  ArithOps = {"sub"}
  BoolOps = {"le", "ne"}
  Junk = Junk
  Bypassed = FALSE
  MaxTemporaries = 3
  MaxPending = 3
SPECIFICATION MCSpec
INVARIANTS OperandsIntact OneRole LocationsAgree ObservationsAgree
