SPECIFICATION FairSpec
CONSTANTS
  Calls = {1,2}
  MaxTokens = 3
  MaxFaults = 2
  MaxInbox = 1
INVARIANTS ReadyIsWelcomed WaitingIsPending
PROPERTIES StopEnds ComesBack
CHECK_DEADLOCK FALSE
