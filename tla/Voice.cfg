SPECIFICATION Spec
CONSTANTS
  Turns = {t1,t2,t3}
  Satellites = {s1,s2}
  Hub = Hub
  Nothing = Nothing
  Unreachable = Unreachable
  MaxFaults = 1
SYMMETRY VoiceSymmetry
INVARIANTS AstrayOnlyWhenCrossed IdleWhenQuiet
CHECK_DEADLOCK FALSE
