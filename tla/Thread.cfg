SPECIFICATION Spec
CONSTANTS
  Satellites = {s1, s2}
  NoId = NoId
  MaxOffers = 4
  MaxNetwork = 2
  MaxFaults = 1
  MaxReports = 1
SYMMETRY Symmetry
CONSTRAINT OneTrouble
INVARIANTS OnlineIsSaved  JoiningIsOffered
PROPERTY NeverOlderNetwork
CHECK_DEADLOCK FALSE
