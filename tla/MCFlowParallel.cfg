SPECIFICATION FairSpec
CONSTANTS
  Agents = {a1, a2}
  Calls = {c1}
  UseContext = {a1}
  MaxIterations <- MCMaxIterations
  Attempts <- MCAttempts
  Buffer = 1
  Resumes = {FALSE, TRUE}
  Exits = {"no", "quit"}
INVARIANTS UserOnce ToolsAnswered Published
PROPERTIES Ends
