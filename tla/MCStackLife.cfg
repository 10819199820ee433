SPECIFICATION FairSpec
CONSTANTS
  o1 = o1
  o2 = o2
  w1 = w1
  None = None
  Openers <- MCOpeners2
  Workers <- MCWorkers
  Kills = TRUE
  MaxRetained = 1
INVARIANTS
  CountsExact
  UsersHaveStack
  DeadStackForgotten
  NothingInsideTeardown
PROPERTY
  CloseCompletes
