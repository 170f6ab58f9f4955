CONSTANTS
  Services = {"daemon", "cli"}
  Daemon = "daemon"
  Jobs = {"loop"}
  Kind <- SoleKind
  When <- SoleWhen
  DeleteAfterRun = {}
  Ticks = {1}
  MaxTime = 1
  CoarseMtime = TRUE
  Faults = {"read"}
SPECIFICATION FairSpec
PROPERTIES
  DueFires
