SPECIFICATION Spec
CONSTANTS
  Satellites = {s1, s2}
  Handlers = {h1, h2}
  Nobody = Nobody
  NoHandler = NoHandler
  MaxRequests = 2
  MaxTokens = 2
  MaxStops = 1
CONSTRAINT OneTrouble
SYMMETRY Symmetry
INVARIANTS
  EnrolmentWasApproved
  RegistryIsLive
  OnlineFollowsRegistry
  OnlyNewestTokenResumes
  PendingIsStored
PROPERTIES
  SecretNeverReplaced
  HouseholdKept
