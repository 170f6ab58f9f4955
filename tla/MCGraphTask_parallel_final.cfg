CONSTANTS
  Nodes <- FanNodes
  Edges <- FanEdges
  Src <- FanSrc
  Dst <- FanDst
  Conditional = {}
  Entry = "start"
  Finish = "join"
  Parallel = TRUE
  Checkpointing = TRUE
  MaxRuns = 1
SPECIFICATION Spec
INVARIANT FinalCheckpoint
