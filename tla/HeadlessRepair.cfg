CONSTANTS
  p1 = p1
  p2 = p2
  p3 = p3
  p4 = p4
  a1 = a1
  Prompts = {p1}
  Answers = {a1}
  NoTurn = NoTurn
  Unhurried = FALSE
SPECIFICATION FairSpec
PROPERTIES StaleWorkingRepaired
CHECK_DEADLOCK FALSE
