CONSTANTS
  Nodes <- FanNodes
  Edges <- FanEdges
  Src <- FanSrc
  Dst <- FanDst
  Conditional = {}
  Entry = "start"
  Finish = "join"
  Parallel = TRUE
  Checkpointing = TRUE
  MaxRuns = 3
SPECIFICATION FairSpec
INVARIANTS
  OkSound
PROPERTIES
  Terminates
