SPECIFICATION Spec
CONSTANTS
  Write = {a, b}
  NeedAuth = {a}
  Grace = 3
  Refresh = 3
  Alarm = 8
  Lag = 1
INVARIANTS TypeOK HealedBeforeAlarm
PROPERTIES RestartOnlyWhenDeaf
