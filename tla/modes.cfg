SPECIFICATION Spec
CONSTANTS
  api = api
  scheduler = scheduler
  w1 = w1
  w2 = w2
  a = a
  s1 = s1
  s2 = s2
  r1 = r1
  r2 = r2
  None = None
  Api = api
  Scheduler = scheduler
  Workers = {w1, w2}
  Slots = {a, s1, s2}
  Home <- MCHome2
  Runs = {r1, r2}
  Retries <- MCRetries2
  MaxFaults = 1
  MaxCrashes = 1
INVARIANTS NeitherTwiceNorLost OneQueue
PROPERTIES Settles
CHECK_DEADLOCK FALSE
