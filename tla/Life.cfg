SPECIFICATION FairSpec
CONSTANTS
  client = client
  server = server
  t1 = t1
  t2 = t2
  Order <- TwoMachines
  Test = {t1, t2}
  Signum = {"INT", "TERM"}
  MaxSignals = 3
  Failing = {"finalize", "stopcv", "retrieve", "stop", "remove"}
INVARIANTS GuestsStopped GivenBack StatusTrue 
PROPERTIES SignalEnds
