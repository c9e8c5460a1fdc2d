CONSTANTS
  Plain = {}
  Streams = {sse}
  Terminals = {}
  MaxTunnels = 1
  MaxFailures = 0
  MaxSeen = 2
SPECIFICATION Spec
INVARIANTS HeaderFirst
CHECK_DEADLOCK FALSE
