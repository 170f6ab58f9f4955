SPECIFICATION Spec
CONSTANTS
  Agents = {a1, a2}
  Calls = {c1}
  UseContext = {a1}
  MaxIterations <- MCMaxIterations
  Attempts <- MCAttempts
  Buffer = 1
  Resumes = {FALSE}
  Exits = {"no"}
INVARIANT ContextComplete
