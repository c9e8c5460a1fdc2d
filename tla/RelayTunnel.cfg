CONSTANTS
  Plain = {get1}
  Streams = {sse}
  Terminals = {}
  MaxTunnels = 2
  MaxFailures = 1
  MaxSeen = 2
SPECIFICATION FairSpec
INVARIANTS TypeOK OneTunnel ReaderFree
PROPERTIES NothingDropped RequestsEnd ClosedStreamsEnd
CHECK_DEADLOCK FALSE
