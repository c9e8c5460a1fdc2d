CONSTANTS
  Plain = {}
  Streams = {}
  Terminals = {pty}
  MaxTunnels = 1
  MaxFailures = 0
  MaxSeen = 2
SPECIFICATION FairSpec
PROPERTIES TerminalWorks
CHECK_DEADLOCK FALSE
