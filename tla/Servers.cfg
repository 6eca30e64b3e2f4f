SPECIFICATION FairSpec
CONSTANTS
  run = run  dev = dev  other = other
  Run = {run, dev, other}
  Dev = {dev, other}
  Count <- TwoMachines
  Port <- TwoPorts
  Pid <- ThreePids
  Casts <- Pairs
  Commands = 2
  Faults = {"crash", "down"}
  None = None
INVARIANTS NeverKillsForeign NoServerLeft NoSecondServer
PROPERTIES EveryCommandEnds
