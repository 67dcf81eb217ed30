SPECIFICATION SafeSpec
CONSTANTS
  Stages = {"compartment", "bucket", "vcn", "compute", "jumphost", "dbsystem", "target",
    "dump", "load", "crashRecovery", "ha", "heatwave", "channel", "watch",
    "root", "tunnel", "connectivity", "congrats"}
  Threaded = {"compartment", "bucket", "vcn", "compute", "jumphost", "dbsystem", "target",
    "dump", "load", "crashRecovery", "ha", "heatwave", "channel", "watch"}
  Updates = {"crashRecovery", "ha", "heatwave", "channel"}
  Plans <- MCDirectPlan
  Root = "root"
  Dump = "dump"
  Load = "load"
  Watch = "watch"
  Tunnel = "tunnel"
  Congrats = "congrats"
  MaxRetries = 0
  MaxFailures = 0
  Lingering = {"jumphost"}
  Late = {}
INVARIANT ThreadAtHand
CHECK_DEADLOCK FALSE
