---------------------------- MODULE SymbolTable -----------------------------
(***************************************************************************)
(* The symbol table as the parser fills it (symbol-table.c and the         *)
(* declarations of parser.y): global variables, prototypes, lists of       *)
(* prototypes, definitions with their formals and locals.  What a function *)
(* is called, returns and takes passes through the parser's globals from   *)
(* the reduction of SetFnInfo to the call of SymTabRecordFunInfo.  The     *)
(* hash table of a scope is a function from names to entries.  Global      *)
(* variables wait in a list for the next function, whose code begins with  *)
(* their places in the data segment.                                       *)
(***************************************************************************)
EXTENDS Integers, Sequences, SequencesExt

CONSTANTS
  VariableNames, FunctionNames,
  ParameterLists,     \* what may stand between the parentheses of a function:
                      \* names, types, and whether they are arrays
  ParametersInLists,  \* whether the functions of a list of prototypes have any
  ReturnTypes,        \* the return types there may be
  MaxDeclarations     \* bound on the declarations of a program

\* t_Char is 0, which is what zalloc leaves in a new entry, and so is FN_PROTO.
Types == {"Int", "Char", "None"}
Parameters == [name : STRING, type : Types, is_array : BOOLEAN]

ASSUME SignaturesAssumption ==
  /\ VariableNames \cup FunctionNames \subseteq STRING
  /\ ParameterLists \subseteq Seq(Parameters)
  /\ ParametersInLists \in BOOLEAN
  /\ ReturnTypes \subseteq Types

Fresh == [type |-> "Char", elt_type |-> "Char", ret_type |-> "Char", formals |-> <<>>,
          fn_proto_state |-> "FN_PROTO", is_extern |-> FALSE, formal |-> FALSE, fp_offset |-> 0,
          id |-> 0]

VARIABLES
  SymTab,       \* the entries of each scope
  CurrScope, CurrType, fnName, fnRetType, lptr, is_extern,
  local_var_id,
  globals,      \* the list global_head
  data,         \* the names OP_Global instructions were translated for
  at,           \* "top", after a "header", in a "list" of prototypes, in a "body"
  reported,     \* errmsg has been called
  written,      \* the header being read, as it stands in the program
  declarations  \* how many there have been

table_vars == <<SymTab, CurrScope, CurrType, fnName, fnRetType, lptr, is_extern, local_var_id,
                globals, data, at, reported, written, declarations>>

NoName == "NULL"

SymTabLookup(id, scope, table) == id \in DOMAIN table[scope]
SymTabLookupAll(id, table) == \E scope \in {"Local", "Global"} : SymTabLookup(id, scope, table)

WithEntry(table, scope, id, entry) ==
  [table EXCEPT ![scope] = [n \in DOMAIN @ \cup {id} |-> IF n = id THEN entry ELSE @[n]]]

\* The entry SymTabInsert returns: one that is there already is reported, and
\* returned all the same.
SymTabInsert(id, scope, table) ==
  IF SymTabLookup(id, scope, table) THEN table[scope][id] ELSE Fresh

\* What a formal of a prototype and a parameter of a definition differ in.
Mismatch(formal, p) ==
  LET is_array == formal.elt_type # "None"
  IN  \/ is_array # p.is_array
      \/ is_array /\ formal.elt_type # p.type
      \/ ~is_array /\ formal.type # p.type

\* Wrong on purpose: parameters are compared up to the shorter list.
UnlikeShorter(func) ==
  \/ \E i \in DOMAIN func.formals \cap DOMAIN lptr : Mismatch(func.formals[i], lptr[i])
  \/ fnRetType # func.ret_type
  \/ func.is_extern

\* A definition, after a prototype, that is reported.
UnlikePrototype(func) ==
  \/ \E i \in DOMAIN func.formals \cap DOMAIN lptr : Mismatch(func.formals[i], lptr[i])
  \/ Len(func.formals) # Len(lptr)
  \/ fnRetType # func.ret_type
  \/ func.is_extern

\* The entry of parameter number i in the local scope.
FormalEntry(old, p, i) ==
  [old EXCEPT !.formal = TRUE,
              !.type = IF p.is_array THEN "Array" ELSE p.type,
              !.elt_type = IF p.is_array THEN p.type ELSE "None",
              !.fp_offset = 4 * (i + 1)]

\* Parameter p, number i, entered, unless CurrType, which is the type of the
\* last parameter, is void.
RecordFormal(done, p, i) ==
  LET entry == FormalEntry(SymTabInsert(p.name, CurrScope, done.table), p, i)
  IN  IF CurrType = "None" THEN [done EXCEPT !.error = TRUE]
      ELSE [table |-> WithEntry(done.table, CurrScope, p.name, entry),
            formals |-> Append(done.formals, [type |-> entry.type, elt_type |-> entry.elt_type]),
            error |-> done.error \/ SymTabLookup(p.name, CurrScope, done.table)]

\* The formals are entered one by one, and the list of formals of the
\* function copies their entries.
RecordFormals(table) ==
  LET after[i \in 0 .. Len(lptr)] ==
        IF i = 0 THEN [table |-> table, formals |-> <<>>, error |-> FALSE]
        ELSE RecordFormal(after[i - 1], lptr[i], i)
  IN  after[Len(lptr)]

\* The table, and whether there was an error.
SymTabRecordFunInfo(isProto) ==
  LET known == SymTabLookup(fnName, "Global", SymTab)
      func == SymTabInsert(fnName, "Global", SymTab)
      again == ~(func.fn_proto_state = "FN_PROTO" /\ ~isProto)
      added == RecordFormals(WithEntry(SymTab, "Global", fnName,
                                       [func EXCEPT !.type = "Func", !.ret_type = fnRetType]))
      recorded ==
        [added.table["Global"][fnName] EXCEPT
           !.formals = added.formals,
           !.fn_proto_state = IF isProto /\ @ # "FN_DEFINED" THEN "FN_PROTO" ELSE "FN_DEFINED",
           !.is_extern = is_extern]
  IN  [table |-> WithEntry(added.table, "Global", fnName, recorded),
       error |-> added.error \/ (known /\ (again \/ UnlikePrototype(func)))]

\* What the program says of a function.
Heading(name, ret, params, extern) ==
  [name |-> name, ret |-> ret, params |-> params, extern |-> extern]

-----------------------------------------------------------------------------
InitTable ==
  /\ SymTab = [scope \in {"Local", "Global"} |-> <<>>]
  /\ CurrScope = "Global" /\ CurrType = "None" /\ fnName = NoName /\ fnRetType = "None"
  /\ lptr = <<>> /\ is_extern = FALSE /\ local_var_id = 0
  /\ globals = <<>> /\ data = <<>>
  /\ at = "top"
  /\ reported = FALSE
  /\ written = Heading(NoName, "None", <<>>, FALSE)
  /\ declarations = 0

Declared == declarations < MaxDeclarations /\ declarations' = declarations + 1

\* fill_id
fill_id(entry) == IF CurrScope = "Local" THEN [entry EXCEPT !.id = local_var_id] ELSE entry

collect_global(id) == IF CurrScope = "Global" THEN Append(globals, id) ELSE globals

\* id_decl: a variable of a type, an array or not.
id_decl(id, type, is_array) ==
  LET old == SymTabInsert(id, CurrScope, SymTab)
      entry == [old EXCEPT !.type = IF is_array THEN "Array" ELSE type,
                           !.formal = FALSE,
                           !.is_extern = IF is_array THEN @ ELSE FALSE,
                           !.elt_type = IF is_array THEN type ELSE "None"]
  IN  /\ Declared
      /\ CurrType' = type
      /\ IF type = "None" THEN UNCHANGED <<SymTab, globals, local_var_id>>
         ELSE /\ SymTab' = WithEntry(SymTab, CurrScope, id, fill_id(entry))
              /\ globals' = collect_global(id)
              /\ local_var_id' = local_var_id + IF CurrScope = "Local" THEN 1 ELSE 0
      /\ reported' = (reported \/ type = "None" \/ SymTabLookup(id, CurrScope, SymTab))
      /\ UNCHANGED <<CurrScope, fnName, fnRetType, lptr, is_extern, data, at, written>>

GlobalVariable(id, type, is_array) == at = "top" /\ id_decl(id, type, is_array)
LocalVariable(id, type, is_array) == at = "body" /\ id_decl(id, type, is_array)

\* type Ident '(' SetFnInfo parm_types ')': parm_types follows SetFnInfo.
Header(ret, name, params, extern) ==
  /\ at = "top"
  /\ Declared
  /\ at' = "header"
  /\ CurrScope' = "Local"
  /\ fnRetType' = ret
  /\ fnName' = name
  /\ lptr' = params
  /\ CurrType' = IF params = <<>> THEN ret ELSE Last(params).type
  /\ is_extern' = extern
  /\ written' = Heading(name, ret, params, extern)
  /\ UNCHANGED <<SymTab, local_var_id, globals, data, reported>>

\* comma fprototype SetFnInfo: here parm_types comes first, so that SetFnInfo
\* takes the last identifier of the parameters for the function's name, the
\* last type for its return type, and drops the parameters.
Comma(name, params) ==
  /\ at \in {"header", "list"}
  /\ Declared
  /\ ParametersInLists \/ (params = <<>> /\ lptr = <<>>)
  /\ LET done == SymTabRecordFunInfo(TRUE)
     IN  /\ SymTab' = done.table
         /\ reported' = (reported \/ done.error \/ SymTabLookupAll(name, done.table))
  /\ at' = "list"
  /\ CurrScope' = "Local"
  /\ CurrType' = IF params = <<>> THEN CurrType ELSE Last(params).type
  /\ fnRetType' = CurrType'
  /\ fnName' = IF params = <<>> THEN name ELSE Last(params).name
  /\ lptr' = <<>>
  /\ written' = Heading(name, written.ret, params, is_extern)
  /\ UNCHANGED <<is_extern, local_var_id, globals, data>>

CleanupFnInfo(table) ==
  /\ SymTab' = [table EXCEPT !["Local"] = <<>>]
  /\ fnName' = NoName /\ lptr' = <<>> /\ is_extern' = FALSE /\ local_var_id' = 0
  /\ CurrScope' = "Global"
  /\ at' = "top"
  /\ UNCHANGED <<CurrType, fnRetType, written, declarations>>

\* The end of a prototype or a list of them.
Semicolon ==
  /\ at \in {"header", "list"}
  /\ LET done == SymTabRecordFunInfo(TRUE)
     IN  /\ reported' = (reported \/ done.error)
         /\ CleanupFnInfo(done.table)
  /\ UNCHANGED <<globals, data>>

\* The header is that of a definition.
OpenBody ==
  /\ at = "header" /\ ~is_extern
  /\ LET done == SymTabRecordFunInfo(FALSE)
     IN  /\ reported' = (reported \/ done.error)
         /\ SymTab' = done.table
  /\ at' = "body"
  /\ fnName' = NoName
  /\ UNCHANGED <<CurrScope, CurrType, fnRetType, lptr, is_extern, local_var_id, globals, data,
                 written, declarations>>

\* What print_instructions makes of them.
OP_Global == data \o globals

\* process_function_header, of the list too.
CloseBody ==
  /\ at = "body"
  /\ data' = OP_Global
  /\ globals' = <<>>
  /\ CleanupFnInfo(SymTab)
  /\ UNCHANGED reported

NextTable ==
  \/ \E id \in VariableNames, type \in Types, is_array \in BOOLEAN :
       GlobalVariable(id, type, is_array)
  \/ \E id \in VariableNames \cup FunctionNames, type \in Types, is_array \in BOOLEAN :
       LocalVariable(id, type, is_array)
  \/ \E name \in FunctionNames, params \in ParameterLists, ret \in ReturnTypes, extern \in BOOLEAN :
       Header(ret, name, params, extern)
  \/ \E name \in FunctionNames, params \in ParameterLists : Comma(name, params)
  \/ Semicolon
  \/ OpenBody
  \/ CloseBody

TableSpec == InitTable /\ [][NextTable]_table_vars

-----------------------------------------------------------------------------
\* What an entry stands for: a parameter's position is that of its offset
\* from the frame pointer, two words above which the first one lies.
IsArray(entry) == entry.elt_type # "None"
TypeOf(entry) == IF IsArray(entry) THEN entry.elt_type ELSE entry.type
Object(entry) ==
  CASE entry.type = "Func" ->
         [kind |-> IF entry.fn_proto_state = "FN_DEFINED" THEN "function" ELSE "prototype",
          ret |-> entry.ret_type,
          extern |-> entry.is_extern,
          takes |-> [i \in DOMAIN entry.formals |->
                       <<TypeOf(entry.formals[i]), IsArray(entry.formals[i])>>]]
    [] entry.type # "Func" /\ entry.formal ->
         [kind |-> "formal", type |-> TypeOf(entry), is_array |-> IsArray(entry),
          position |-> entry.fp_offset \div 4 - 1]
    [] OTHER -> [kind |-> "variable", type |-> TypeOf(entry), is_array |-> IsArray(entry),
                 number |-> entry.id]
Objects(scope) ==
  IF reported THEN <<>> ELSE [n \in DOMAIN SymTab[scope] |-> Object(SymTab[scope][n])]

Headings == {Heading(name, ret, params, extern) :
               name \in FunctionNames, ret \in ReturnTypes, params \in ParameterLists,
               extern \in BOOLEAN}

BeingRead ==
  IF at \in {"header", "list"} /\ ~reported THEN written ELSE Heading(NoName, "None", <<>>, FALSE)
InBody == at = "body" /\ ~reported
Placement ==
  IF reported THEN <<>>
  ELSE [n \in ToSet(data) |-> Cardinality({i \in DOMAIN data : data[i] = n})]

Abstract == INSTANCE Declarations WITH
  Ids <- VariableNames \cup FunctionNames,
  global <- Objects("Global"),
  local <- Objects("Local"),
  heading <- BeingRead,
  inside <- InBody,
  placed <- Placement,
  failed <- reported

\* Up to the first error reported, the table holds what the declarations read
\* so far mean, and an error is reported exactly when one is not in order: a
\* definition that differs from its prototype, a name declared twice in its
\* scope, a void variable; the parser's globals carry a function's name, type
\* and parameters from its header, no body sees the locals of another, and every
\* global variable a function can name is placed in the data segment, once.
ImplementsDeclarations == Abstract!Spec
=============================================================================
