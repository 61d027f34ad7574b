SPECIFICATION FairSpec
CONSTANTS
  Satellites = {s1}
  Handlers = {h1,h2}
  Nobody = Nobody
  NoHandler = NoHandler
  MaxRequests = 1
  MaxTokens = 2
  MaxStops = 1
PROPERTIES HandshakeEnds DeadIsDropped StopCompletes
