SPECIFICATION FairSpec
CONSTANTS
  drafter = drafter
  reviewer = reviewer
  Agents = {drafter, reviewer}
  Order <- MCOrder
  Calls = {c1, c2}
  UseContext = {reviewer}
  MaxIterations <- MCMaxIterations
  Attempts <- MCAttempts
  Resumes = {FALSE, TRUE}
  Exits = {"no", "quit", "escalate"}
  Flows = {"sequential", "loop", "condition"}
  MaxRounds = 2
INVARIANTS ActionsCurrent ContextComplete SavedIsSeen ExitObeyed
PROPERTY Ends
