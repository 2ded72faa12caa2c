SPECIFICATION Spec
CONSTANTS
  r1 = r1
  r2 = r2
  Requests = {r1, r2}
  Ranks = {w1, w2}
  Timers = {t1, t2, t3}
  NoTimer = NoTimer
  Timeout = 2
  Early = 1
  Setups <- MCSetups
SYMMETRY Symmetry
INVARIANTS
  BatchResident
  SettledIdle
PROPERTIES
  OnlyClientsAbort
  IdleWindowHonoured
