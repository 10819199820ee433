\* A break pending when a write has to flush the segment first.
CONSTANTS
  t1 = t1
  t2 = t2
  IP = IP
  None = None
  Tasks = {t1}
  Ops <- OneTask
  Cap = 3
  Windows = {2}
  MaxBytes = 4
  MaxFaults = 0
  MaxStops = 0
  Breaks = TRUE
  Reopens = FALSE
SPECIFICATION Spec
INVARIANT NotStranded
CHECK_DEADLOCK FALSE
