\* Every list of up to three rows in two seconds, three changes or failures.
SPECIFICATION Spec
CONSTANTS
  ItemCount = 3
  LastSecond = 2
  Fractions = {0, 1}
  Asked = {1, 3}
  DefaultLimit = 1
  MaxLimit = 2
  MaxChanges = 3
CHECK_DEADLOCK FALSE
INVARIANTS
  PagesInv
  MissedOnlyAtPageEnds
  ShownOnce
PROPERTIES
  EveryTraversalEnds
