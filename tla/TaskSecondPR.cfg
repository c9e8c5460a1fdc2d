CONSTANTS
  s1 = s1
  s2 = s2
  ios = ios
  android = android
  site = site
  NoRepo = NoRepo
  pr1 = pr1
  pr2 = pr2
  NoPR = NoPR
  Sessions = {s1, s2}
  Repos = {ios, android}
  PullRequests = {pr1, pr2}
  Nodes = {0, 5, 15}
  Overtaken = {}
  MaxHandled = 4
  DependsOn <- MCDependsOn
SPECIFICATION Spec
INVARIANT MergedIsMerged
SYMMETRY SessionSymmetry
CHECK_DEADLOCK FALSE
