SPECIFICATION FairSpec
CONSTANTS
  Branches = {main, beta}
  MaxCommit = 4
  MaxFaults = 4
INVARIANTS LiveHasRequirements
PROPERTIES FollowsReleases
CHECK_DEADLOCK FALSE
