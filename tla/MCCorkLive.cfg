\* One Task making every call, faults, and stops the bracket may refuse.
CONSTANTS
  t1 = t1
  t2 = t2
  IP = IP
  None = None
  Tasks = {t1}
  Ops <- OneTask
  Cap = 3
  Windows = {2}
  MaxBytes = 4
  MaxFaults = 1
  MaxStops = 2
  Breaks = FALSE
  Reopens = FALSE
SPECIFICATION FairSpec
INVARIANT OutOfReach
PROPERTIES
  HeldGoes
  FinGoes
CHECK_DEADLOCK FALSE
