CONSTANTS
  e1 = e1
  e2 = e2
  e3 = e3
  main = main
  sub = sub
  nested = nested
  fresh = fresh
  Events = {e1, e2, e3}
  Keys = {main, sub, nested, fresh}
  NoKey = NoKey
  ParentOf <- MCParentOf
  Depth <- MCDepth
SPECIFICATION FairSpec
INVARIANTS TypeOK Exclusive NoChangeLost ArrivalOrder
PROPERTIES LockSpec EveryEventServed
CHECK_DEADLOCK FALSE
