SPECIFICATION FairSpec
CONSTANTS
  Clients <- OneClient
  Users = {u1, u2}
  MaxOps = 2
  MaxSessions = 3
  Actions = {"resolve", "call", "close"}
  MaxTurns = 2
  MaxItems = 2
  MaxEsc = 1
  MaxSlash = 1
  Buffer = 1
  ToolCalls = {"c"}
INVARIANTS SessionsHeld ViewFaithful
PROPERTIES Recovers TurnEnds
