CONSTANTS
  Task = {1, 2}
  Config = {c1, c2}
  InitialConfig = {c1}
  NoResponse = NoResponse
  Status = {200, 503}
  Threshold = {2}
  Channel = {"email"}
  CheckRetries = 1
  AlertRetries = 1
  WorkerSlots = 2
  Faults = {"send_error", "send_fatal", "handler_error"}
  UserActions = {"add", "update", "pause", "delete", "delete_endpoint"}
  c1 = c1
  c2 = c2
SPECIFICATION FairSpec
INVARIANTS
  StateRowPerConfig
  FailureExplained
  OneRowPerDispatch
PROPERTIES
  EveryCheckSettles
  EveryAlertSettles
