\* Two registers; see MCColorGraph for the graphs.
CONSTANTS
  Nodes = {1, 2, 3, 4, 5, 6}
  NUM_REGISTERS = 2
  EdgeSets <- Graphs
  CostMaps <- CostChoices
  PrefMaps <- PrefChoices
SPECIFICATION Spec
INVARIANT SpillCandidatesOnGraph
CHECK_DEADLOCK FALSE
