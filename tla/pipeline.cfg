SPECIFICATION Spec
CONSTANTS
  p1 = p1 p2 = p2 b1 = b1 w1 = w1 w2 = w2 c1 = c1 sched = sched
  NoMsg = NoMsg
  Jobs <- MCJobs
  Runs <- ThreeRuns
  JobOf <- RunJob
  Workers <- MCWorkers
  Clients <- MCClients
  Scheduler = sched
  Pools <- MCPools
  DefaultPool = "default"
  GlobalPool = "global"
  JobPool <- OneRemote
  WorkerPool <- DefaultWorkers
  Handled <- MCJobs
  AllowOverlap = {"burst"}
  MaxRetry <- MCRetry
  MaxCrashes = 1
SYMMETRY RunSymmetry
INVARIANTS TypeOK OneCarrier ActiveIsCarried IndexAgrees OncePerAttempt
PROPERTIES LifecycleSpec
