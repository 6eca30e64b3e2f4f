SPECIFICATION Spec
CONSTANTS
  p1 = p1  p2 = p2  p3 = p3
  r1 = r1  r2 = r2  r3 = r3  r4 = r4
  Proc = {p1, p2, p3}
  Janitor = {p3}
  Slot <- ThreeRows
  Port <- TwoPorts
  MaxInstances = 2
  Rested = {r1}
  Leftover = {r2}
  Faults = {"crash", "interrupt", "stopfails", "vmlost", "poweroff"}
  NoProc = NoProc  NoPort = NoPort  NoSlot = NoSlot
INVARIANTS PortsDistinct
PROPERTIES TakenOnlyFromPool LostToThePast
SYMMETRY RunnerSymmetry
