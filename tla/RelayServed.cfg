CONSTANTS
  Plain = {get1}
  Streams = {}
  Terminals = {pty}
  MaxTunnels = 5
  MaxFailures = 1
  MaxSeen = 2
SPECIFICATION FairSpec
PROPERTIES TunnelComesBack
CHECK_DEADLOCK FALSE
