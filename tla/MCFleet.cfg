SPECIFICATION FleetSpec
CONSTANTS
  Endpoint = {e1}
  Dispatcher = {j1, p1, p2}
  Jvm = {j1}
  Interval = {1}
  Grace = 3
  Retention = 5
  PurgeBatch = 1
  TickPeriod = 1
  RunTime = 1
  CheckTime = 1
  Routes = {"add", "update"}
  ScheduleFaults = {"late", "run_killed", "check_lost"}
  Horizon = 1
  MaxReschedules = 1
  PoolSize = 1
  QueueCapacity = 1
  ClaimBatch = 1
  BadUrl = {}
  JvmFaults = {"claim_unseen", "stopped", "jvm_killed"}
SYMMETRY FleetSymmetry
INVARIANT TypeOK
INVARIANT ClaimsSpaced
INVARIANT FleetClaimsSpaced
