SPECIFICATION FairSpec
CONSTANTS
  o1 = o1  o2 = o2  o3 = o3  l1 = l1  l2 = l2  t1 = t1  t2 = t2
  Op = {o1, o2, o3}
  Listener = {l1, l2}
  Thread = {t1, t2}
  BatchSize = 2
INVARIANTS DrainWaits
PROPERTIES ImplementsLog Rescued
