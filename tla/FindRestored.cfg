SPECIFICATION LinkFairSpec
CONSTANTS
  Satellites = {s1}
  Handlers = {h1,h2}
  Nobody = Nobody
  NoHandler = NoHandler
  MaxRequests = 1
  MaxTokens = 4
  MaxStops = 1
  MaxFaults = 0
PROPERTY LinkRestored
