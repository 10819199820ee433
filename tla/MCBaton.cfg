SPECIFICATION FairSpec
CONSTANTS
  ip = ip  a = a  b = b
  tip = tip  ta1 = ta1  ta2 = ta2  tb = tb
  None = None
  MaxNest = 2
  Tasks <- MCTasks
  Threads <- MCThreads
  Internal <- MCInternal
  Owner <- MCOwner
  Prio <- MCPrio
INVARIANTS
  BatonExclusive
  HandoverSignalled
  OneBracketOrBaton
PROPERTIES
  BatonNotTaken
  MonitorSpec
  GrantedRuns
