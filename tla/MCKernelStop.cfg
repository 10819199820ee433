SPECIFICATION FairSpec
CONSTANTS
  a1 = a1
  a2 = a2
  b1 = b1
  b2 = b2
  t1 = t1
  t2 = t2
  t3 = t3
  None = None
  Apps <- MCApps
  Blocks <- MCBlocks2
  Tasks <- MCTasks3
INVARIANTS
  StopExact
  AdoptedHaveKernel
  ReapingExact
PROPERTY
  TickLeaves
