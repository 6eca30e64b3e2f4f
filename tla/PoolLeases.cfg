SPECIFICATION FairSpec
CONSTANTS
  p1 = p1  p2 = p2  p3 = p3
  r1 = r1  r2 = r2  r3 = r3  r4 = r4
  Proc = {p1, p2}
  Janitor = {}
  Slot <- FourRows
  Port <- TwoPorts
  MaxInstances = 5
  Rested = {r1}
  Leftover = {}
  Faults = {"vmlost", "poweroff"}
  NoProc = NoProc  NoPort = NoPort  NoSlot = NoSlot
INVARIANTS ExclusiveMachine
PROPERTIES ImplementsLeases EveryRunEnds
