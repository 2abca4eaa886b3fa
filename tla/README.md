# A verification of the C-- compiler

The repository is a compiler from C--, a small subset of C, to MIPS assembly:
`compile` reads a program on its standard input and writes the MIPS program on
its standard output. Options turn on a peephole pass, copy propagation (local
optimisation), dead code elimination (global optimisation) and register
allocation by graph colouring; `src/EVALUATION.txt` describes them.

This directory holds TLA+ models of the compiler, the TLC configurations that
check them on small instances, and TLAPS proofs of what holds for every
instance.

    tlc -workers 2 -config Allocation.cfg MCAllocation.tla    # one run
    tlapm AllocationProofs.tla                                # one proof module

Contents

1. The system: its parts, what they keep, how they interact
2. What is hard in it
3. The models, module by module
4. The runs, their bounds and what each shows
5. Fairness
6. What is proved
7. Findings
8. Assumptions and what is not modelled
9. Plan

## 1. The system

The compiler is one sequential process. It compiles a function as soon as its
body has been parsed, so the state of a pass over one function is dropped
before the next is parsed; what survives is the symbol table, with what the
passes recorded about each function there.

| Part | Source | State it keeps | Operations | Correct when |
|---|---|---|---|---|
| Driver | `main.c` | the options | parse the command line, call the parser, print globals | - |
| Scanner, parser | `scanner.l`, `parser.y` | the tree of the body being parsed, the current function | build trees; per function: headers, declarations, `optimize_instructions`, translation, `CleanupFnInfo` | each function goes through the passes in order, and nothing of it leaks into the next |
| Symbol table | `symbol-table.c` | a global and a local scope (hash tables), the list of globals, free lists of temporaries, `propagated_vars` | look up, insert, `SetFnInfo`, `SymTabRecordFunInfo`, `create_temporary`, `free_temporary`, `fill_id`, `CleanupFnInfo` | a name means its innermost declaration; a function is declared once and defined once, alike; a temporary has one role at a time; ids tell variables apart |
| Frame layout | `symbol-table.c:228-260, 422-465` | `fp_offset` of variables, `byte_size` of functions | place formals; allocate bytes, align, allocate words | no two variables share a byte, words are aligned, the frame covers them |
| Syntax trees, type checks | `syntax-tree.c` | trees | constructors that check the types of calls, operators, assignments | code is generated for well-typed trees only |
| Code generation | `code_generation.c` | places and code of each tree node | `generate_function_code`, `generate_bool_expr_code`, calls, actuals | the instructions compute the tree |
| Three-address code | `instruction.c`, `instruction.h` | lists of instructions | create, append, remove | read and written operands are told right |
| Peephole pass | `code_optimization.c:76-127` | the list | bypass temporaries, drop jumps to the next label | the values computed stay the same |
| Blocks, flow graph | `block.c`, `control_flow.c` | blocks, edges, dominators | leaders, edges, dominators | every transfer of control is in a block or an edge |
| Liveness | `liveness_analysis.c` | `def`, `use`, `in`, `out` of blocks | iterate over the block list | least solution of the equations |
| Reaching definitions | `reaching_definitions_analysis.c` | the mirror image | the mirror image | called by nothing |
| Copy propagation | `code_optimization.c:129-238`, `symbol-table.c` | `copied_from`, `copied_to` of variables, `propagated_vars` | record, detach, replace operands, clear at leaders | a replaced operand has the value of the one it replaces |
| Dead code elimination | `code_optimization.c:240-323` | `dead` flags | rounds of liveness and removal | what is kept reads the same values |
| Interference graph | `code_optimization.c:379-523`, `graph.c` | nodes, edges, costs, `live_at_call` | one backward scan per block | live ranges that overlap are joined |
| Colouring | `code_optimization.c:527-646` | the graph left, two heaps, a spill set | colour, spill | neighbours have different registers; the loop ends |
| Heap, sets | `heap.c`, `set.c` | arrays, arrays of words | build, insert, extract; union, difference, ... | a priority queue; sets of numbers |
| Translation | `code_translation.c` | `entered` and `registers_used` of functions; `$sp`, `$fp`, `$ra`, `$s` registers and the stack of the program that runs | MIPS of each instruction; saving and restoring registers | the MIPS program computes the instructions; a call returns to its caller with everything it had |
| Stack | `stack.c` | a linked stack | push, pop | included by nothing |
| Errors, printing | `error.c`, `print.c`, `util.c` | - | messages, tree dumps, `zalloc` | - |

How they interact, for one function:

    parser -> trees -> code generation -> instructions
      -> blocks and edges -> peephole -> copy propagation
      -> rounds of (liveness -> dead code elimination)
      -> liveness -> interference graph -> colouring (heaps, sets)
      -> translation, which reads registers, live_at_call, and the
         registers_used of functions translated before

Parts share mutable state: instructions carry `dead`, `block`, `live_now` and
`live_at_call`; variables carry their copies, their id, their register and
their frame offset; functions carry `entered` and `registers_used`, written
when a function is translated and read when each of its callers is.

## 2. What is hard in it

Nothing runs concurrently and nothing is persisted. What is hard is of three
kinds.

- **Steps of passes in an order nobody wrote a test for.** A colour may be
  found for a node that was spilled on the way, a heap has entries of nodes
  that are gone, a callee may be translated after its caller, a removal makes
  other writes dead.
- **Cached facts gone stale.** Copies recorded before a redefinition,
  `registers_used` reset after being collected, the free lists of a function
  that is over, liveness sets of a previous round.
- **Templates that are right for some places of operands only.** Operands may
  be constants, in memory, in registers, ints, chars, formals or global arrays;
  each instruction has a template per combination, and two scratch registers.
- **Conventions two parts must share.** Where `OP_Enter` leaves `$fp` against
  where the symbol table placed the formals; the order in which arguments are pushed
  against the numbering of formals; what the checks of `syntax-tree.c` let
  through against what `code_generation.c` can follow; the labels of a condition
  against the statements between them.

The hazards are listed line by line in `PROJECT.json`, each with the properties
that would catch it going wrong.

## 3. The models, module by module

Definitions keep the names of the functions they translate. Where a definition
has a faulty twin with the comment "Wrong on purpose", the twin is only there to
show that a property notices: substituting it for the definition makes TLC find
the property violated.

From the source text to three-address code:

| Module | Models | State | Actions or operators |
|---|---|---|---|
| `Declarations` | abstract: what a list of declarations means, and which one is the first out of order | scopes, what is declared of functions, globals placed | `Declare`, `Read`, `Prototype`, `Open`, `Close`: each in order, or the declaration that fails |
| `SymbolTable` | `symbol-table.c` as the declarations of `parser.y` drive it | both scopes, `CurrType`, `fnName`, `fnRetType`, `lptr`, `is_extern`, `local_var_id`, the list of globals | one action per reduction that changes the table |
| `SyntaxTrees` | `syntax-tree.c`, the grammar of `parser.y` for statements and expressions, and its actions that build trees | none | the phrases of each depth (`PhrasesTo`), their trees and errors (`Tree`), and beside them `Meaning`, the typing rules of the language |
| `CodeGenerator` | `code_generation.c` and `run_peephole_optimization` | none | the code of every statement, condition and expression, one level of nodes after the other (`Generators`); the peephole walk |
| `CompiledBody` | the composition: parse, generate, peephole, run | source and code side by side: `pc`, `store`, temporaries, arguments, `$v0` | one action per kind of instruction, with the source run to its next event |
| `SampleBodies` | the inputs of the three above | none | bodies of functions, with meaning and without (`AllBodies`) |
| `Temporaries` | `create_temporary`, `free_temporary` and their uses in `code_generation.c` | pool, pending places | one action per kind of tree node |
| `FrameLayout` | `fill_local_allocations`, `allocate`, the offsets of formals | `pass`, `curr_fp_offset`, `fp_offset`, `allocated` | `allocate`, `Align` |

Analyses and optimisation:

| Module | Models | State | Actions or operators |
|---|---|---|---|
| `ThreeAddress` | `instruction.h`, `block.c`, `control_flow.c`: operators | none | `Leaders`, `CreationOrder`, `BlockMap`, `Edges`, `Successors`, ids (`fill_id`) |
| `ControlFlow` | `build_control_flow_graph`, `find_dominators`, then an execution | block list, edges, dominators, place in the list (`node`, `stable`), `pc`, `visited` | `find_block_leaders`, `update_blocks`, `InitDominators`, `UpdateDominators`, `NextRound`, `Enter`, `Execute` |
| `Liveness` | `find_in_and_out_liveness_sets` on any graph | `in`, `out`, place in the list | `VisitBlock`, `NextPass`, `Finish` |
| `LivenessSets` | def and use sets and the result of the iteration, as operators for the passes | none | `def_set`, `use_set`, `LeastOut`, `ReadFrom` (where a variable, not an id, is read later on some path: the reference they are held against) |
| `CopyPropagation` | `do_copy_propagation` and its lists | copies, values, length | one action per kind of instruction |
| `DeadCode` | `do_dead_code_elimination`, then an execution of both programs | `dead`, `out`, `found`, `agree` | liveness, `remove_dead_instructions`, `Execute` |
| `Interference` | `optimize_register_allocation`, then an execution with registers | neighbours, preferred registers, `live_at_call`, `reg`, `holder` | connections, `color_graph` (as promised by `RegisterAssignment`), `Enter`, `Execute` |
| `Optimizer` | composes `DeadCode` and `Interference`: `optimize_instructions` | both, sharing the program | as above, in the order of the code |
| `FunctionBodies` | the inputs of the two above | none | functions the code generator emits |
| `RegisterAssignment` | abstract specification of colouring | `edges`, `reg` | assign a legal register, or leave in memory |
| `ColorGraph` | `color_graph` | graph left, colour heap, spill heap and set, `regs_to_avoid` | `ColorNode`, `DiscardStale`, `SpillNode`, `SpillFreedNode` |
| `SimpleGraph`, `AdjacencyLists` | abstract graph; the linked lists, counts and masks of `graph.c`, item by item | list items in memory | add a node, add an edge, remove a node |
| `PriorityQueue`, `HeapArray` | abstract queue; the array of `heap.c` | items | insert, build, extract with sifting |
| `NumberSets`, `BitSet` | abstract sets; the words of `set.c` | sets | every operation of `set.h` |

To MIPS:

| Module | Models | State | Actions or operators |
|---|---|---|---|
| `Translation` | the templates of `print_instructions` | the machine; the values by the meaning of the instructions | one action per instruction |
| `CallConvention` | which registers are saved around calls, over a whole program | what is known of functions; activations, who wrote each register | `Translate`, `Call`, `Write`, `Leave`, `Return` |
| `StackFrames` | the words of the stack: prologue, epilogue, arguments | `mem`, `sp`, `fp`, `$s` registers, activations | `OP_Param`, `OP_Call` (with `OP_Enter`), `OP_Leave`, `OP_Return`, writes in between |

The `MC*` modules are the instances for TLC, the `*Proofs` modules hold the
theorems.

Five abstract specifications are implemented by detailed ones, each checked
with `INSTANCE ... WITH` a refinement mapping: `ColorGraph` implements
`RegisterAssignment`, `AdjacencyLists` implements `SimpleGraph`, `HeapArray`
implements `PriorityQueue`, `BitSet` implements `NumberSets` and `SymbolTable`
implements `Declarations`. They make the models compose: `ColorGraph`
takes its graph, its heaps and its sets at what the abstract specifications
promise, and `Interference` uses `color_graph` only at the promise of
`RegisterAssignment`, so that its result holds of any colouring.

Five models end in an *execution*: once a pass has produced its result
(`ControlFlow`, `DeadCode`, `Interference`, `CallConvention`, `CompiledBody`),
the program is run, by the meaning of its instructions, and what the pass claims is
compared with what happens. `CopyPropagation`, `Temporaries` and `Translation`
follow the values as they go, since they handle straight-line code.

`CompiledBody` deserves a word. The source is run by the meaning of its statements,
and the code by the meaning of its instructions, which is not given any structure:
labels, jumps, places and temporaries only. Both produce *events*, what can be seen
of a function from outside: a variable or an element that changes, a call with its
arguments, a comparison with its operands, the return with its value.
`SameBehaviour` says that they produce the same events and that the code of the
sample bodies does not run for ever without any; `StaysInCode`, a part of
`GeneratorSafe`, that every jump taken finds its label and that the function is left
by a return only. It thereby covers the order of evaluation, short-circuit tests,
the labels of nested conditionals and loops, the place of conversions, the reuse of
temporaries and, where the peephole is on, that bypassing a temporary and dropping a
jump changes nothing.

Data is abstracted. A variable is a model value or a string; a value is a ghost
(who wrote it) where only identity matters, a number of a tiny domain where
arithmetic or narrowing does; `print_instruction` and all layout is left out.

## 4. The runs

Twelve runs, six that pass and six that exhibit a finding. A run may hold
several components that share nothing: then a variable `driven`, chosen in Init,
says which of them a behaviour takes through its steps while the others stand
still in one state, so that the states add up and do not multiply.

| Run | Module, configuration | Shows |
|---|---|---|
| `local_code` | `MCLocalCode`, `LocalCode.cfg` | symbol table: `ImplementsDeclarations`; bodies: `ChecksExact`, `GeneratorSafe`, `SameBehaviour`; copy propagation: `RewriteSound`, `CopiesHold`, `ListedPerCopy`, `ClearedAtLeader` |
| `analyses` | `MCAnalyses`, `Analyses.cfg` | liveness: `SolvedAtEnd`, `BelowEveryClosed`, `ExactAtEnd`; flow graph: `TransfersAreEdges`, `DominatorsExact`; `IterationsEnd` of both |
| `optimizer` | `MCOptimizer`, `Optimizer.cfg` | `ValuesAgree`, `NoDeadWriteLeft`, `ReadsOwnValue`, `EdgesJustified`, `LiveAtCallExact`, `Terminates` |
| `allocation` | `MCAllocation`, `Allocation.cfg` | colouring: `NeighborsDiffer`, `RegistersUsedExact`, `LowDegreeColored`, `NoNodeLost`, `ColorHeapExact`, `ImplementsRegisterAssignment`, `ColoringEnds`; containers: `ImplementsSimpleGraph`, `ImplementsPriorityQueue`, `ImplementsNumberSets`, `QueriesExact` |
| `code_generation` | `MCCodeGeneration`, `CodeGeneration.cfg` | temporaries: `OperandsIntact`, `OneRole`; templates: `LocationsAgree`, `ObservationsAgree` |
| `call_convention` | `MCCalls`, `Calls.cfg` | registers: `LiveAcrossCalls`; stack: `FramesIntact`, `FormalsReach`, `CallsRestore`; frames: `FrameSound` |
| `color_graph_stale` | `MCColorGraph`, `ColorGraphStale.cfg` | finding 1 |
| `dead_code_formals` | `MCDeadCode`, `DeadCodeFormals.cfg` | finding 2 |
| `call_transitive` | `MCCallConvention`, `CallTransitive.cfg` | finding 3 |
| `leave_before_return` | `MCCallConvention`, `LeaveBeforeReturn.cfg` | finding 4 |
| `retrieve_bypassed` | `MCCodeGeneration`, `RetrieveBypassed.cfg` | finding 5 |
| `formals_below_saved` | `MCCalls`, `FormalsBelowSaved.cfg` | finding 6 |

Bounds, and why they are enough for the interesting cases to happen:

- `local_code`. *Symbol table*: up to three declarations (`MaxDeclarations`) of one variable and
  two functions, six parameter lists (none, a scalar, an array, both, one name twice,
  a void one), two return types. Three is a prototype, a definition and a
  second definition, or a global between two functions. *Bodies*: those of
  `SampleBodies`, each with the peephole off and on: assignments of every
  expression with two operators or calls to every kind of place, tests of two
  connectives and negations, conditionals and loops nested in each other, and
  several hundred statements that need not mean anything, which feed the
  checks. The samples are nested less than eight deep (`MaxDepth`; that each is a phrase of the
  grammar is the assumption `BodiesAssumption`, which TLC evaluates), and
  no more than twelve steps of a source lie between two events (`MaxQuiet`): with a
  smaller bound the source would seem to do nothing, and the run would fail. Words have two bits and chars one, so that conversions and
  arithmetic wrap. *Copy propagation*: two ints, a char, a global, a constant and
  an address, blocks of up to six instructions (`MaxLength`). A chain of copies,
  its redefinition and a use take four.
- `analyses`: every graph of three blocks, loops and unreachable blocks
  included, and one variable: the equations treat variables independently.
  Functions are `Enter`, five instructions among calls, labels, returns and
  both kinds of jump, and a `Return`: it takes five to nest a loop in a branch.
- `optimizer`: every body of four instructions and one label over two locals, a
  formal, a global and an address temporary. One register is a `$t`
  register and one an `$s`. One callee was processed before and uses both;
  one was not; `println` is built in.
- `allocation`. *Colouring*: two registers and six live ranges. The graphs are all those of
  four nodes, and all those of two groups of three nodes with or without one edge
  between the groups.
  Spilling needs a node with two neighbours; the stale entry of finding 1 needs
  two groups, so that a spill in one frees nodes coloured while the other
  still waits. Three nodes may have a higher cost and two a restricted set of
  preferred registers. *Graphs*: four nodes, added in the order of their ids, which
  `graph.c` does not look at, with masks of words of two bits (`WORD_SIZE`); every order of adding edges and removing nodes. A
  list of three neighbours has a first, a middle and a last item. *Sets*: words of
  two bits stand for words of 32, with sizes in part of a
  word, in a word and a part, and in two words. *Heap*: five nodes make three
  levels, with a parent of one child and a parent of two; of the nodes of one cost, which
  `heap.c` cannot tell apart, the first is added first.
- `code_generation`: three temporaries (`MaxTemporaries`) and three pending
  places (`MaxPending`): an address while an operator has an operand and its
  result, or an operand below the actuals of a call. The templates see an int
  and a char in memory, an int and a char in registers, a constant of each type,
  an array of ints and a formal of chars, so that every pair of places
  and types meets. Words are -1, 0, 1, and 1 is the one word out of a
  char's range.
- `call_convention`. *Registers*: three functions, up to three call edges of six
  (`MaxCalls`), direct and mutual recursion and calls of functions defined
  later, four activations (`MaxDepth`). *Stack*: two functions, up to two `$s`
  registers each (`MaxSaved`), up to two formals, three activations (`MaxFrames`),
  a stack of 20 words (`StackWords`), more than three activations take. *Frames*:
  eight entries, among them chars that fill no word, an array of no element and two formals,
  in any order; `CallProofs` shows it of any entries.

`CHECK_DEADLOCK FALSE` stands where a behaviour ends: a pass that is over, a
function that returned, a graph or a stack at its bound. `code_generation` goes on
for ever and `local_code` may only stop in a state of `Finished`: both check
deadlock.

## 5. Fairness

The compiler is sequential code that runs to its end, so each pass has weak
fairness on its steps and on nothing else: `Color` of `MCAllocation`
(`color_graph`), `Liveness` and the construction of `ControlFlow`, and
`optimize_instructions` in `Optimizer`. Executions of the compiled function have
none: it may loop for ever or never be called. Termination
(`ColoringEnds`, `IterationsEnd`, `Terminates`) is therefore a claim about the
loops of the passes: the outer loop of `color_graph`, the two fixed-point
iterations, the rounds of dead code elimination.

## 6. What is proved

TLAPS checks the following for every value of the constants that satisfies the
named assumptions of the modules. Every invariant and every refinement that a run
checks is stated by a theorem, but for `SameBehaviour`.
Hypotheses of a theorem stand in front of it; each is a condition under which the
code works, named and explained below.

`InductionProofs` and `LivenessSetsProofs` hold lemmas only. The first one is what
the others share: induction on *sets* of natural numbers (`SetInduction`,
`BackwardInduction`), from the well-foundedness of `<` on them, and
the existence of the functions that iterations (`Iteration`) and tail-recursive definitions
(`TailRecursion`) define, given a height that falls with each call.

### Local and global optimisation

**`LocalCodeProofs`** has three parts. *`CopyPropagation`*, for any variables, types, values and conversions.
`Lists` states that `copied_from` and `copied_to` mirror each other, that a copy
is never itself an original, and that an original is listed in
`propagated_vars` at least as often as it has copies; the counts are what
shows that no removal from a list misses its target. Theorems: `TypeCorrect`,
`Sound`, `CopiesCorrect`, `NoNullDereference`, `CopiesCleared`.

*`SymbolTable`*, for any names, any signatures and any number of declarations. The
invariant has four parts, which hold until an error is reported: entries have the kind of their names
(`GlobalScope`), the locals of a body are numbered and outside of it the local scope is empty
(`LocalScope`), the parser's globals hold the header being read (`Carried`), and each global variable
waits for its place or has it, once (`Placed`). `FormalsRecorded` is the loop over the parameters,
for lists of any length; `CompletesIs` shows that the comparison of a definition with its prototype,
parameter by parameter, is equality of what they declare. Theorem: `TableIsDeclarations`, every step
is a step of `Declarations` or a stutter, in programs that are `Plain`: a void parameter stands alone
(the check goes by the type of the last one), functions in a list of prototypes take no parameters,
and global variables and functions do not share names (see section 8 for what happens otherwise).

*`SyntaxTrees`, `CodeGenerator` and `CompiledBody`*, for any names and types of them, any bodies of the
grammar, however deep, and any depth. What is computed over a phrase or a tree is a recursive function over
the phrases or nodes up to a depth, so that a proof goes by the depth: what holds of the phrases over any
set for whose members it holds, holds of all. `ChecksAreExact` relates the trees of the parser to the typing
rules, case by case of the grammar: a phrase is reported only if it means nothing, and one that means
nothing is reported or contains a lax call; what is not reported has the type that it denotes, which the
next phrase up needs. *The generator* is taken level by level (`GoodLevel`): for each phrase that means
something and whose tree is a node of the level, and any labels, path and pool, no NULL is followed, every
jump goes to a label of the code or to one of those the code was asked to jump to (`Good`), a value asked
for of an expression that is not void has a place, variables and strings always have one, and a `Return`
ends in the instruction that returns (`GoodValue`). `Context` is what a constructor of code may use of the
level below, and each constructor is a lemma about the results of its parts. Labels from outside are what
makes this inductive: a test jumps to labels that its statement puts in later (`GoodTests`), and `GoodMore`
drops them from what is owed once they are there. The `Return` the parser appends keeps a body one, unless
its last statement is empty (`GoodBody`). *The peephole* keeps the code as long as it is, the operation and
the label of each instruction, and the labels of jumps among those of the code, and what it makes dead is a
jump or an assignment (`PeepholeKeeps`). Hence a function that runs is `Closed`: its jumps land and it ends
in a live return; with that its counter stays in the code (`InClosed`, which every step keeps). Theorems:
`ChecksAreExact`, `BodySpecChecksExact`, `BodySpecGeneratorSafe`, `BodySpecStaysInCode`.

**`AnalysesProofs`** has two parts. *`Liveness`*, for any number of blocks and variables. `VisitedSolved`
says that while nothing has changed in a pass, the blocks visited satisfy their
equations; `Growing` says that the sets are below what the equations would give
them now, which is why an update can only add. Theorems: `TypeCorrect`,
`Solved`, `Least` (below every solution: with `Solved`, the least one),
`Exact` (which is what is read on some path, of any length, before it is
written), `Monotone`.

**`LivenessSetsProofs`**, lemmas for every function the code generator emits
(`WellFormed`: it begins with its label and `OP_Enter`, ends in a return, and
keeps to the shapes of instructions that `code_generation.c` builds). The blocks
are intervals of instructions (`FirstFound`, `Rank`); the backward walk of a block
gives its use and def sets; the rounds end in a solution of the equations,
the least one; and an id that is live is read on some path (`ReadById`). The ids
say what the reference `ReadFrom` says of variables (`ReadByIdIsRead`), except for the local
numbered 0 in a function that reads a parameter, since parameters have the id 0 too.

*`ControlFlow`*, the second part of `AnalysesProofs`, for every such function whose jumps go to labels, and any
size of a word. `FlowInv` has three parts: `Built` (the list holds each block
once, and the edges are those of the function), `Iterating` (dominators are
subsets of the blocks and hold the block itself; while a round is stable, the blocks walked
satisfy their equation) and `Executing` (what an execution has come through
contains the dominators of the block it is in). Theorems: `GraphHasTransfers`,
`DominatorsNeverTooMany`, and `DominatorsAreExact`, which adds `NoneLost` (no
round drops a block that every path goes through) under the hypothesis
`AllInFullSet`: the sets that `create_full_set` makes for the function hold every
block, which they do not when the number of their elements is a multiple of the size of a word.

**`OptimizerProofs`**, for every function the code generator emits that assigns
no formal (`FormalsKept`; finding 2 is what happens otherwise), any number of
registers, any preference and spill order `RegisterAssignment` permits, and any
functions processed before. The invariant `IInv` follows the passes:
`GraphInv` (blocks and edges are those of the function), `DeadInv` (the last
analysis is still a solution for all that was marked since, and nothing marked is live
after it), `NullInv` (no assignment of a variable to itself is left in the blocks
walked), `AllocInv` (in the blocks walked, what is live after a write is a neighbour of it,
and what is live after a call is on its list), `ColourInv` (neighbours
have different registers) and `ExecutionInv`: everything live has the value it has in the
function as written, and each assigned variable that is live is in its register. The
last is inductive only because of all the others: a step of the execution moves
from one point of a block to the next, or along an edge, and liveness there is what the
solution says. Theorems: `Invariance`, `ValuesAgreeAlways`,
`ReadsOwnValueAlways`. Three more need that the analysis is the *least*
solution, hence the invariants `JoinedInv` (an edge of the interference graph was
justified when it was added, by the analysis that is still current) and `RoundInv` (in a round that has found
nothing so far, the analysis it goes by was made with the same instructions, but for
assignments of variables to themselves): `NoDeadWriteIsLeft`, `EdgesAreJustified` and
`LiveAtCallsExact`. They speak of variables, while the code goes by ids, which parameters share
with the local numbered 0 (`OwnId`). In `x := 1; return f` the parameter `f` is read as if it were
`x`: the dead write stays, `x` may be joined to what is written before, and may be
saved at a call for nothing. Hence each theorem has two parts. The property the run checks holds of
functions that read no parameter (`ReadsNoFormal`). In any function that assigns none
it fails for the local numbered 0 only, and only by what is superfluous: another dead write is never left
(`WritesAreRead`), no edge is in vain unless it is one of that local (`EdgesAreUsed`), and
`live_at_call` misses nothing and holds no other variable that is not read (`CallsListRead`).
The last has one more hypothesis, that dead code elimination came first or
the function assigns no variable to itself: such an assignment is skipped by the
interference walk as any other instruction is not, so that without elimination
a variable may be listed at a call for the sake of a copy to itself.

### Register allocation

**`AllocationProofs`** has four parts. *`ColorGraph`*, for any finite graph, costs,
preferred registers and number of registers. The invariant `IInv` is the conjunction of
what the run checks and `AvoidExact`: a node still on the graph has no register, and the
registers it avoids are those of its neighbours already taken off. The latter is what
makes `NeighborsDiffer` inductive: the invariant over coloured nodes alone says
nothing about what the next node may take. `ColorableAfterRemoval` is the
lemma both branches of the loop use: taking a node off makes exactly
`NewlyColorable` colourable. Theorems: `TypeCorrect`, `NeighborsNeverShare`,
`RegistersUsedCorrect`, `LowDegreeNeverSpilled`, `NothingLost`,
`ColorHeapNeverStale` (finding 1 is about the spill heap: the colour heap never
holds a node that is gone), and
`Refinement`: every step is a step of `RegisterAssignment` or a stutter.

*`BitSet`*, for any width of a partition and any sizes, when no full set
has a size that is a multiple of the width (`WellSized`, the condition that
`create_full_set` needs). Everything rests on one fact about the layout,
`Represented`: a mask has exactly one bit for each number below its size
(`Place`, `OwnPlace`), so that a mask *denotes* one set of numbers. Each operation on
masks is then shown to denote the operation on numbers. That none of them sets a spare
bit of the last word is what lets `is_set_empty` and `are_set_equals` look at
whole words. Theorems: `Implementation`
(every step is a step of `NumberSets` or a stutter) and `QueriesAlwaysExact`.

*`HeapArray`*, for any items and any integer costs, a heap of least or of greatest cost.
`SortedBut(h, k, i)` says that from index k on items are no worse than their children, but
for the one at index i, whose children are no better than its parent. Each step of `heapify` keeps this
while i moves down, until nothing is out of order any more (`Sorted`), and `build_heap` moves k down to 1. `Rearranged`
says that a heap has the items of another, each once. Theorem: `HeapIsQueue`, every step is a step of
`PriorityQueue` or a stutter.

*`AdjacencyLists`*, for any number of nodes. `IsList` ties the items in memory to a sequence: the
head is the first, each item's `next` is the one after it, and `prev` the one before it, but for the first
item, whose `prev` may point at an item that was freed. `Shape` says that each list is such a
sequence and which nodes it holds; a push, a removal at the head and a removal further on are
operations on those sequences that leave the other lists alone (`PushedShape`, `DroppedShape`), and
`remove_node_from_graph` is as many of them as the node has neighbours (`DisconnectedShape`). The invariant adds that
edges go both ways (`IsGraph`), that `num_neighbors` is the length of a list (`Counted`), and, until colouring
begins, that the masks hold what the lists do (`Recorded`), without which
`add_edge` would not keep edges simple. Theorem: `ListsAreGraph`, every step is a step of `SimpleGraph`
or a stutter, under `Fits`: every id has its bit in the masks, which are made for one element less
than there are ids, so that it fails when that number is a multiple of the word.

### To MIPS

**`CodeGenerationProofs`** has two parts. *`Translation`*, for any variables,
arrays, types and constants, any words
and bytes with a narrowing that is idempotent, any operations, and any
assignment of registers that gives each variable its own or none. The
argument follows the shape of the code: `OperandLoaded` (whatever the place of
an operand, its value gets to a register and only `$t0` or `$t1` moves),
`BothOperands` (loading the second does not disturb the first),
`ResultDelivered` (a result gets to the place of its destination in the form its
type has there), `RegisterWritten` and `MemoryWritten` (nothing else moves),
then one lemma per instruction. Theorems, under `Bypassed = FALSE`:
`TemplatesCorrect`, `ObservationsCorrect`, `CharsStayNarrow`. The last one shows
that finding 5 comes from the peephole bypass and from nothing else.

*`Temporaries`*, for any bounds, hence for expressions of any shape.
`TemporariesInv` says of the pending places (`Kept`) and the free lists (`PoolInv`)
together that the temporaries in them are all distinct, of the type of the list
they are in, and that each pending one holds the value of its node. `CreateTemporary`
and `FreeTemporaries` keep it, in whichever order a kind of node does them: a
node that frees its operands first may take one of them again for its result, which is sound
since it reads them first. `FreshNode` shows that a node not yet used always exists, so
that values are told apart. Theorems: `OperandsStay`, `TemporariesHaveOneRole`.

**`CallProofs`** has three parts. *`FrameLayout`*, for any entries, arrays of any sizes, any formals with
distinct places in the parameter list, and any order in which the hash table gives the
entries. The invariant joins five facts to the type invariant: formals stay two words
or more above `$fp` (`FormalsAbove`); while bytes are being placed no word has been
(`BytesFirst`), so that the alignment between the passes moves nothing that was placed;
slots are apart, they are within `curr_fp_offset`, and words are at multiples of
four. The third alone is not inductive: that a new slot is apart from the
placed ones rests on their being above `-curr_fp_offset`. Theorem: `FrameIsSound`.

*`CallConvention`*, for any number of functions and registers, any depth of
activations and any programs that are `Covering` and `PlainReturns`, the
conditions findings 3 and 4 show to be needed. The two halves of the convention
need an invariant each. `CallerSide`: a `$t` register that a suspended
activation goes on to read and did not save is still its own, and none of the
functions above it is one that may write it (`Writes`, the sets that
`Covering` promises). `CalleeSide`: of an `$s` register that a suspended
activation goes on to read, the lowest activation above it that has saved the
register and not restored it has the value, and if there is none the register
has. That the lowest one holds it is what a nest of saves and restores keeps
true; it says nothing of the others. `Prepared` ties what was saved to what
was known when the caller was translated: every `$t` register, or those of a
callee translated before. Theorems: `ConventionHolds` and `LiveValuesSurvive`.

*`StackFrames`*, for any number of functions, registers, activations and
words, and any programs that are `Bare`: a function with formals or a returned
expression saves no `$s` register, which is the condition findings 4 and 6 show to be
needed. What an activation finds in its frame is not inductive by itself. `Layout`
puts the activations below one another, each ending where its caller's frame
begins, arguments included; `Pointers` says where `$sp` and `$fp` are among them, in the
middle of a call too, except for `$sp` after an `OP_Leave` that nothing
follows but the return; `Arguments` says what has been pushed; `Registers`
that an `$s` register an activation does not save is as its caller left it, which
makes restoring the saved ones enough. Each action then writes below `low(Depth)` or
inside the running frame, and `Kept` says that the frames above are as they were.
Theorems: `FramesHold`, `FramesNeverDisturbed`, `FormalsAreArguments`, `CallsComeBack`.

### Only model-checked

- Everything under fairness: `IterationsEnd`, `Terminates`, `ColoringEnds`.
- `SameBehaviour`: it takes a simulation of the source by the code, through the peephole, with the
  values in temporaries; and a loop such as `for (;;);` comes to no event, so that a theorem would
  have to leave some bodies out. What is proved of the same code for every body is `StaysInCode`.
  The proofs about parts of it are those of the generator above, of `Temporaries` (their reuse) and
  of `Translation` (the templates).

## 7. Findings

1. **A spill leaves freed nodes among the spill candidates**
   (`code_optimization.c:635-641`). The colouring branch takes neighbours that
   become colourable out of `nodes_to_spill`; the spilling branch does not. Such
   a node is coloured, removed and freed, and later extracted from the
   spill heap as if it were current. Run `color_graph_stale`.
2. **Formals share id 0** (`symbol-table.c:477`). `fill_id` is never called for
   formals, so the analyses take a formal for the first local, and a live
   assignment is removed. Run `dead_code_formals`.
3. **Registers of a callee's callees are not saved**
   (`code_optimization.c:532`). `registers_used` starts afresh after the callees'
   were collected in it; `EVALUATION.txt:49-52` says it is filled recursively.
   Run `call_transitive`.
4. **`$s` registers are restored too early** (`code_generation.c:176`). The code
   of a returned expression comes after `OP_Leave`. Run `leave_before_return`.
5. **A char register can hold an int** (`code_translation.c:218`,
   `code_optimization.c:116-117`). After the peephole pass, `c = f()` retrieves
   an int result straight into a char's register. Run `retrieve_bypassed`.
6. **A function that saves `$s` registers loses its formals**
   (`code_translation.c:617`). `$fp` ends up below the saved `$s` registers, while
   formals are placed at offsets that count `$ra` and `$fp` only
   (`symbol-table.c:241`): the first formal is read where `$fp` is saved, and
   writing to it destroys the way back. Run `formals_below_saved`.

## 8. Assumptions and what is not modelled

Passing runs state their conditions in the modules; the ones that matter:

- `call_convention` takes programs in which a callee's registers cover those of
  what it calls, and in which no function with `$s` registers returns an
  expression (registers) or has formals or a returned expression (stack):
  findings 3, 4 and 6 are what happens otherwise.
- `optimizer` neither assigns a formal nor reads one. What happens when one is assigned is finding 2;
  when one is read, the local numbered 0 counts as read with it, so that a dead write of that local is
  kept, and an edge or a saved register of it may be superfluous (the theorems of `OptimizerProofs` say that no more than
  that happens). An address counts as read by every instruction it is the destination of, the one that computes
  it included, in the code and in the reference: one computed in a loop is kept even
  when nothing goes through it any more.
- `optimizer` leaves `optimize_locally` (`code_optimization.c:59`) out, which runs between the
  construction of the graph and dead code elimination, and the graph is not built again. Where the peephole
  has inverted an `If` (lines 90-94), the graph is that of the code before: it still contains every path, through the
  block of the `Goto` that is dead. `TransfersAreEdges` speaks of the code as it was generated.
- `allocation` checks what holds in spite of finding 1: when the code follows a
  freed node (`SpillFreedNode`), the model sets `crashed` and stops, and nothing
  is claimed of what comes after. It builds no full set whose size is a multiple of
  the word, and no graph of a size that is one more than such a multiple: see below.
- `local_code`: functions declared in a list of prototypes take no parameters
  (`ParametersInLists`), global variables and functions do not share names, and a
  void parameter stands alone. `ChecksExact` and `GeneratorSafe` leave out the
  calls that `ActualsMatchFormals` is lax about (`LaxCall`) and a body whose last
  statement is empty. A string as the actual for an array of ints is not in the grammar
  (`NamesKnown`), since the parser takes it for a symbol, and a `return` with an expression
  in a void function means nothing.
- Sets are values in the models of the passes, and the graph of `Interference` is a
  set of edges; `BitSet` and `AdjacencyLists` are what justifies it.
- `Translation` has initialised variables, subscripts within bounds, a register
  per variable (that sharing one is sound is what `Interference` shows), and
  takes memory by variables and elements, not by bytes.
- `Temporaries` executes the code of an expression in the order it is generated,
  which has no jumps; `CompiledBody` has the jumps, and sample expressions.

What lies outside these conditions was read while modelling and is
suspected, and no run shows it:

- `create_full_set` (`set.c:33`) leaves the last word empty when the size is a multiple of 32,
  and `add_to_set` shifts an `int` into its sign.
- `create_interference_graph` makes masks for one element less than there are ids
  (`code_optimization.c:395`), which shows when that number is a multiple of 32:
  the mask is then read and written past its end.
- `create_graph` and `create_empty_heap` allocate the size of a pointer; the symbol
  table copies names into one byte too few (`symbol-table.c:143`).
- An integer is accepted as the actual of an array formal (`code_generation.c:142`), as are
  a void call, a function or an array for a scalar; a string given for an array of ints is
  taken for a symbol table entry (`syntax-tree.c:524-525`).
- `AppendReturn` follows NULL when the last statement is empty, `proc_call` when the
  name is undeclared (`parser.y:418-436`). Code is generated after reported errors.
- `SetFnInfo` runs after the parameters of a function of a prototype list, which it
  thus loses; a global variable can be taken for a prototype, since `FN_PROTO` is 0;
  only the type of the last parameter is checked for being void; a local named
  like a formal overwrites its entry after the error.
- A bypassed temporary changes the type `OP_Deref` loads by (`code_optimization.c:116`).
- With `-Odev` and no optimisation, `main.c:84` closes a file that was never opened.

Not modelled: the scanner and the driver (I/O, generated code); printing, error messages
and `util.c`, which compute nothing the rest depends on; the parser's error
productions, whose recovery is the parser generator's; use counts
(`collect_var_cost`), since colouring is checked with any costs; temporaries for
addresses are never given back, which wastes memory only; reaching definitions and
`stack.c`, which nothing calls, so that they have no inputs to be checked on.

## 9. Plan

1. Done: every module of section 3 and eight proof modules.
2. Proofs: measures that fall with every step of the passes, which together with fairness
   are why they end.
3. Composition: the frame of `FrameLayout` as the `words` of `StackFrames`, and the
   code of `CompiledBody` as the programs of `Optimizer`, at the cost of larger instances.

New components join existing runs through `driven`.
