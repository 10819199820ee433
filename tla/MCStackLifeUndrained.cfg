SPECIFICATION Spec
CONSTANTS
  o1 = o1
  o2 = o2
  w1 = w1
  None = None
  Openers <- MCOpeners2
  Workers <- MCNoWorkers
  Kills = TRUE
  MaxRetained = 1
INVARIANT
  DrainedBeforeTeardown
