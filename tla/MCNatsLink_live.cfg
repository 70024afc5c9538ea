SPECIFICATION FairSpec
CONSTANTS
  a1 = a1
  a2 = a2
  NoAddr = NoAddr
  Addr <- TwoAddrs
  MaxFaults = 1
  MaxFlaps = 1
  MaxAppRestarts = 0
  MaxInbox = 2
PROPERTIES LinkRecovers
