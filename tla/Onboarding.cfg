SPECIFICATION FairOnboarding
CONSTANTS
  Hub = Hub
  Satellite = Satellite
  Retries = 2
  MaxProcesses = 3
  MaxFaults = 1
INVARIANTS NoStrayAccessPoint
PROPERTIES ComesToRest
CHECK_DEADLOCK FALSE
