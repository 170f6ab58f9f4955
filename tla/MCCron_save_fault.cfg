CONSTANTS
  Services = {"daemon"}
  Daemon = "daemon"
  Jobs = {"shot", "loop"}
  Kind <- MixKind
  When <- MixWhen
  DeleteAfterRun = {}
  Ticks = {1, 2}
  MaxTime = 3
  CoarseMtime = FALSE
  Faults = {"save"}
SPECIFICATION Spec
INVARIANT OneShotOnce
