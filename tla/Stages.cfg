SPECIFICATION StagesSpec
CONSTANTS
  t1 = t1  t2 = t2  c2 = c2  None = None
  Stage = {t1, t2, c2}
  Parent <- AgainParent
  NameOf <- AgainName
  MaxUpdates = 1
INVARIANTS ParentFirst EndRecorded
