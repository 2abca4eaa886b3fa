\* Functions of three instructions between Enter and Return, the formal assigned too.
CONSTANTS
  x = x
  y = y
  f = f
  g = g
  a = a
  Locals = {x, y, a}
  Formals = {f}
  Globals = {g}
  Addrs = {a}
  local_id <- LocalIds
  Null = Null
  Programs <- MCPrograms
  BodyLength = 3
  LabelCounts = {0, 1}
  Plain <- AndFormal
SPECIFICATION Spec
INVARIANT ValuesAgree

CHECK_DEADLOCK FALSE
