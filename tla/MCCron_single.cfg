CONSTANTS
  Services = {"daemon"}
  Daemon = "daemon"
  Jobs = {"shot", "loop"}
  Kind <- MixKind
  When <- MixWhen
  DeleteAfterRun = {"loop"}
  Ticks = {1, 2}
  MaxTime = 3
  CoarseMtime = FALSE
  Faults = {}
SPECIFICATION Spec
INVARIANTS
  OneShotOnce OffStaysOff AddedKept TimerCovers
PROPERTIES
  RunKeepsOthers
