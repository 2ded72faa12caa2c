SPECIFICATION FairSpec
CONSTANTS
  r1 = r1
  r2 = r2
  Requests = {r1, r2}
  Ranks = {w1}
  Timers = {t1, t2, t3}
  NoTimer = NoTimer
  Timeout = 2
  Early = 0
  Setups <- LiveSetups
PROPERTIES
  EventuallySleeps
  RequestAnswered
