\* Blocks of at most six instructions over six variables; every body to its return;
\* three declarations of a variable and two functions.
CONSTANTS
  Vars = {"a", "b", "c", "g", "k", "p"}
  Consts = {"k"}
  Globals = {"g"}
  Type <- MCType
  Addr = "addr"
  ValuesOf <- MCValuesOf
  Convert <- MCConvert
  Null = "null"
  MaxLength = 6
  VariableNames = {"x"}
  FunctionNames = {"f", "g"}
  ParameterLists <- Lists
  ParametersInLists = FALSE
  ReturnTypes = {"Int", "None"}
  MaxDeclarations = 3
  type <- IdType
  elt_type <- IdElements
  ret_type <- IdReturns
  formals <- IdFormals
  num_elts <- IdLengths
  MaxDepth = 8
  Bodies <- AllSamples
  Stores <- SampleStores
  address_of <- AddressOf
  Operation <- ArithmeticOf
  Negated <- Minus
  Holds <- Compares
  Char <- OneBit
  Returned <- ReturnedBy
  MaxQuiet = 12
SPECIFICATION MCSpec
INVARIANTS RewriteSound CopiesHold ListedPerCopy ClearedAtLeader SameBehaviour ChecksExact GeneratorSafe
PROPERTIES ImplementsDeclarations
