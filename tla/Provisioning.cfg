SPECIFICATION FairSpec
CONSTANTS
  Kits = {{"zigbee", "thread"}, {"zwave", "microphone", "output"}}
  MaxSteps = 2
  MaxRelease = 2
  MaxFaults = 2
INVARIANTS PlacedIsWhole NoFlowLeft OneListener
PROPERTIES ComesUp
CHECK_DEADLOCK FALSE
