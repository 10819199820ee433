SPECIFICATION Spec
CONSTANTS
  U = 2
  Word = 10
  Timeouts = {0, 2, 5, 12}
  Waits = {2}
  Masks = {{"user"}, {"user", "brk"}}
  Slice = 1
  MaxLag = 1
INVARIANTS
  NoLostEvent
  TimerHeard
  OnTime
PROPERTY
  SignalsKept
