SPECIFICATION FleetSpec
CONSTANTS
  Endpoint = {e1, e2}
  Dispatcher = {j1}
  Jvm = {j1}
  Interval = {1}
  Grace = 3
  Retention = 5
  PurgeBatch = 1
  TickPeriod = 1
  RunTime = 0
  CheckTime = 1
  Routes = {"add"}
  ScheduleFaults = {}
  Horizon = 2
  MaxReschedules = 0
  PoolSize = 1
  QueueCapacity = 1
  ClaimBatch = 2
  BadUrl = {}
  JvmFaults = {}
SYMMETRY FleetSymmetry
PROPERTY RejectedOnlyWhenFull
