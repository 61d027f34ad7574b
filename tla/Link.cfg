SPECIFICATION LinkFairSpec
CONSTANTS
  Satellites = {s1}
  Handlers = {h1, h2, h3}
  Nobody = Nobody
  NoHandler = NoHandler
  MaxRequests = 1
  MaxTokens = 6
  MaxStops = 1
  MaxFaults = 1
INVARIANTS AgreedSession NoOrphanLink
PROPERTIES ClientGoesOn FreshGetsIn
