CONSTANTS
  t1 = t1
  t2 = t2
  t3 = t3
  NoThread = NoThread
  Threads <- MCThreads
  MaxDepth = 2
  MaxSeq = 1
SPECIFICATION FairSpec
INVARIANTS TypeOK NoSleeperForgotten EverySignalReachesAWaiter
PROPERTIES ImplementsMonitor SomebodyGetsIn
