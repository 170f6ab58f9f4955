SPECIFICATION LSpec
CONSTANTS
  Names = {"a", "b", "c"}
  Unset = ""
  MaxEdges = 3
  Chats = {"c"}
  SessionIDs = {"c", "w"}
  Messages = {1, 2}
  Jobs = {1, 2, 3}
  Worlds <- SmallWorlds
  TTL = 1
  MaxBusy = 2
  Recipes <- SmallRecipes
  Given <- SmallGiven
  Models = {"m"}
  Registries <- SmallRegistries
  Trees <- SmallTrees
  Requests <- SmallRequests
  BaseTools = {"grep", "edit"}
  Leading <- SmallLeading
  Trailing <- SmallTrailing
  Backslashed <- SmallBackslashed
  Scripts = {1}
  Streams <- SmallStreams
  Runs = {"r1", "r2"}
  MaxLog = 4
  MaxTokens = 3
  KeepRecent = 1
  BatchSize = 2
  WindowMessages = 2
  WindowTokens = 2
  Callers = {1, 2}
  Inputs <- SmallInputs
  Beats <- SmallBeats
  MaxAdded = 2
  MaxRunning = 1
  MaxMessages = 3
  Keys = {"k", "l"}
CONSTRAINT Canonical
INVARIANTS
  CompileExact HandledOnce TurnsKept ValidBuilds ChainFills FilesOwned ViewsExact
  Administered FinalShown
PROPERTY NeverBack
CHECK_DEADLOCK FALSE
