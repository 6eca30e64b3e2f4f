SPECIFICATION Spec
CONSTANTS
  Call = {c1, c2}
  Conn = {k1, k2}
  None = None
  Faults = {"newloop", "drop", "close", "disconnect"}
SYMMETRY CallConnSymmetry
INVARIANTS SomebodyReads Tracked
PROPERTIES ImplementsCalls
