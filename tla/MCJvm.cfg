SPECIFICATION FairFleetSpec
CONSTANTS
  Endpoint = {e1, e2}
  Dispatcher = {j1}
  Jvm = {j1}
  Interval = {1}
  Grace = 3
  Retention = 5
  PurgeBatch = 1
  TickPeriod = 1
  RunTime = 0
  CheckTime = 1
  Routes = {"add", "delete"}
  ScheduleFaults = {}
  Horizon = 2
  MaxReschedules = 0
  PoolSize = 1
  QueueCapacity = 1
  ClaimBatch = 1
  BadUrl = {e2}
  JvmFaults = {"db_error", "claim_unseen", "stopped", "jvm_killed"}
INVARIANT FleetTypeOK
INVARIANT NoStarvation
PROPERTY FittingBatchAccepted
PROPERTY KeepsTicking
PROPERTY EveryProbeEnds
