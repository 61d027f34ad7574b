SPECIFICATION FairSpec
CONSTANTS
  Requests = {r1, r2}
  Main = Main
  None = None
  MaxStarts = 2
INVARIANTS PairedIsSaved SavedIsCurrent
PROPERTIES PairedComesUp ShutdownEnds
CHECK_DEADLOCK FALSE
