SPECIFICATION FairSpec
CONSTANTS
  Kind <- TwoKinds
  Recent = 2
  MaxInbox = 3
  MaxFaults = 3
INVARIANTS FailedClientNotReused
PROPERTIES TakenForACause ToldAgain
