SPECIFICATION Spec
CONSTANTS
  a1 = a1
  a2 = a2
  NoAddr = NoAddr
  Addr <- TwoAddrs
  MaxFaults = 2
  MaxFlaps = 0
  MaxAppRestarts = 1
  MaxInbox = 2
SYMMETRY Symmetry
INVARIANTS HeldClientWatched WatchNeverForgotten
PROPERTIES LossIsReported
