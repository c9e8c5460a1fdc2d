CONSTANTS
  p1 = p1
  p2 = p2
  p3 = p3
  p4 = p4
  a1 = a1
  Prompts = {p1, p2}
  Answers = {}
  NoTurn = NoTurn
  Unhurried = FALSE
SPECIFICATION Spec
INVARIANTS RunningIsTracked
CHECK_DEADLOCK FALSE
