\* Two Tasks sharing one corked socket.
CONSTANTS
  t1 = t1
  t2 = t2
  IP = IP
  None = None
  Tasks = {t1, t2}
  Ops <- TwoTasks
  Cap = 3
  Windows = {2}
  MaxBytes = 3
  MaxFaults = 0
  MaxStops = 0
  Breaks = FALSE
  Reopens = FALSE
SPECIFICATION Spec
INVARIANTS
  SegmentOwned
  NotStranded
PROPERTY StreamKept
CHECK_DEADLOCK FALSE
