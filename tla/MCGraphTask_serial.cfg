CONSTANTS
  Nodes <- RouterNodes
  Edges <- RouterEdges
  Src <- RouterSrc
  Dst <- RouterDst
  Conditional <- RouterConditional
  Entry = "start"
  Finish = "finish"
  Parallel = FALSE
  Checkpointing = TRUE
  MaxRuns = 3
SPECIFICATION FairSpec
INVARIANTS
  FinalCheckpoint
PROPERTIES
  Terminates
