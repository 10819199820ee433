SPECIFICATION Spec
CONSTANTS
  Hz = 11
  TPS = 4
  Wrap = 16
  MaxCatchup = 3
  MaxSleep = 13
  Horizon = 45
INVARIANTS
  ClockExact
  UptimeExact
  TicksAccounted
