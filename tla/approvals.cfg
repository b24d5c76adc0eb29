SPECIFICATION Spec
CONSTANTS
  r1 = r1
  r2 = r2
  c1 = c1
  c2 = c2
  agent = agent
  None = None
  Jobs <- MCJobs
  Runs <- MCRuns
  JobOf <- MCJobOf
  Clients <- MCClients
  AllowOverlap = {}
  Slots = {w1}
  MaxRetry = 1
  ApprovalMax = 1
  MaxIds = 2
  MaxFaults = 1
SYMMETRY MCSymmetry
INVARIANTS HoldsAreRequests OneRequestPerAsk HoldStopsSchedule
CHECK_DEADLOCK FALSE
