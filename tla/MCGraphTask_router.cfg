CONSTANTS
  Nodes <- RouterNodes
  Edges <- RouterEdges
  Src <- RouterSrc
  Dst <- RouterDst
  Conditional <- RouterConditional
  Entry = "start"
  Finish = "finish"
  Parallel = TRUE
  Checkpointing = TRUE
  MaxRuns = 2
SPECIFICATION Spec
INVARIANTS
  AtMostOnce JoinComplete FinishLast SkipSound CheckpointSound StallReported
PROPERTIES
  ImplementsFlow
