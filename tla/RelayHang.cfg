CONSTANTS
  Plain = {}
  Streams = {sse}
  Terminals = {}
  MaxTunnels = 2
  MaxFailures = 1
  MaxSeen = 2
SPECIFICATION FairSpec
PROPERTIES StreamEndsWithTunnel
CHECK_DEADLOCK FALSE
