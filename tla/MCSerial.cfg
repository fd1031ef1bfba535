CONSTANTS
  Task = {1, 2, 3}
  Config = {c1, c2}
  InitialConfig = {c1, c2}
  NoResponse = NoResponse
  Status = {200, NoResponse}
  Threshold = {2}
  Channel = {"email"}
  CheckRetries = 0
  AlertRetries = 0
  WorkerSlots = 1
  Faults = {"db_error", "send_fatal", "worker_killed"}
  UserActions = {"delete", "delete_endpoint"}
  c1 = c1
  c2 = c2
SPECIFICATION Spec
SYMMETRY ConfigSymmetry
INVARIANTS
  IncidentsAreOutages
  FlagHonest
  ToldOutageRecovers
  VisibleDownEndsRun
  VisibleRecoveryEndsOutage
  SummaryMatchesIncidents
  NoticesMatchIncidents
PROPERTIES
  RecoveryOnlyIfTold
  ImplementsContract
