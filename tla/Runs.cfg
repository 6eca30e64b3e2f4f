SPECIFICATION Spec
CONSTANTS
  a = a  d = d  q = q  x = x  o = o
  Run = {a}
  Dev = {d}
  Prune = {q}
  Remover = {x}
  Old = {o}
  Saved = {}
  Undeletable = {a}
  Unreached = {o}
  Faults = {"crash", "interrupt", "stopfails"}
  Nobody = Nobody
INVARIANTS NothingLost ReconcileComplete
PROPERTIES LiveInstanceKept SavedSessionKept
