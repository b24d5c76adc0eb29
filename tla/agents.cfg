SPECIFICATION FairSpec
CONSTANTS
  w1 = w1
  w2 = w2
  api = api
  get = get
  deploy = deploy
  models = models
  Note = Note
  None = None
  Api = api
  Processes <- MCProcesses
  ProcessOf <- MCProcessOf
  Slots = {w1, w2}
  Steps <- TwoSteps
  Rebased = {}
  Sensitive = {deploy}
  Plans <- TwoPlans
  MustAsk <- OneAsks
  MaxIterations = 2
  MaxSteps = 2
  AvoidAt = 2
  MaxRuns = 2
  MaxResets = 1
  MaxMishaps = 1
  
PROPERTIES OutcomesKept RunsConclude
CHECK_DEADLOCK FALSE
