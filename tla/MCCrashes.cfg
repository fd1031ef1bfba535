CONSTANTS
  Task = {1, 2}
  Config = {c1}
  InitialConfig = {c1}
  NoResponse = NoResponse
  Status = {200, NoResponse}
  Threshold = {2}
  Channel = {"webhook"}
  CheckRetries = 1
  AlertRetries = 0
  WorkerSlots = 2
  Faults = {"child_killed", "worker_killed", "dispatch_lost", "db_error", "commit_unknown", "broker_down", "probe_raises", "publish_lost", "send_fatal"}
  UserActions = {}
  c1 = c1
SPECIFICATION Spec
INVARIANTS
  TypeOK
  StreakBacked
  RecoveryAnswersDown
  NoPhantomUpdate
  OneRowPerDispatch
PROPERTIES
  DownNeedsFailures
