SPECIFICATION Spec
CONSTANTS
  Stages = {"compartment", "bucket", "vcn", "compute", "jumphost", "dbsystem", "target",
    "dump", "load", "crashRecovery", "ha", "heatwave", "channel", "watch",
    "root", "tunnel", "connectivity", "congrats"}
  Threaded = {"compartment", "bucket", "vcn", "compute", "jumphost", "dbsystem", "target",
    "dump", "load", "crashRecovery", "ha", "heatwave", "channel", "watch"}
  Updates = {"crashRecovery", "ha", "heatwave", "channel"}
  Plans <- MCPlans
  Root = "root"
  Dump = "dump"
  Load = "load"
  Watch = "watch"
  Tunnel = "tunnel"
  Congrats = "congrats"
  MaxRetries = 1
  MaxFailures = 1
  Lingering = {"jumphost"}
  Late = {}
INVARIANTS TypeOK LoadedFirst ReadyIsReady StartedOnce
PROPERTIES DependenciesFirst GetsReady StopEnds
CHECK_DEADLOCK FALSE
