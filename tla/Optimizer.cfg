\* Two variables, one $t and one $s register, a callee processed before and one not.
CONSTANTS
  x = x
  y = y
  f = f
  g = g
  a = a
  parsed = parsed
  unparsed = unparsed
  println = println
  Locals = {x, y, a}
  Formals = {f}
  Globals = {g}
  Addrs = {a}
  local_id <- LocalIds
  Null = Null
  Programs <- MCPrograms
  BodyLength = 4
  LabelCounts = {1}
  Plain <- Body
  NUM_REGISTERS = 2
  TEMPORARIES = 1
  entered <- Callees
  callee_registers <- CalleeRegisters
SPECIFICATION Spec
INVARIANTS ValuesAgree NoDeadWriteLeft ReadsOwnValue EdgesJustified LiveAtCallExact
PROPERTIES Terminates
CHECK_DEADLOCK FALSE
