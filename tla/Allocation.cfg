\* Two registers, and the graphs of MCColorGraph; sets that leave a partial
\* word, need two words, and fill two words; five nodes make a heap of three
\* levels with both kinds of parent.
CONSTANTS
  Nodes = {1, 2, 3, 4, 5, 6}
  NUM_REGISTERS = 2
  EdgeSets <- Graphs
  CostMaps <- CostChoices
  PrefMaps <- PrefChoices
  Handles = {s1, s2}
  Sizes = {1, 3, 4}
  FullSizes <- PartialWords
  BITS_PER_PARTITION = 2
  Items = {1, 2, 3, 4, 5}
  Costs = {1, 2, 3}
  Null = Null
  TotalVariables = 4
  WORD_SIZE = 2
SPECIFICATION MCSpec
INVARIANTS NeighborsDiffer RegistersUsedExact LowDegreeColored NoNodeLost ColorHeapExact QueriesExact
PROPERTIES ImplementsRegisterAssignment ColoringEnds ImplementsNumberSets ImplementsSimpleGraph ImplementsPriorityQueue
CHECK_DEADLOCK FALSE
