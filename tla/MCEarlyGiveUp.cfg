CONSTANTS
  Task = {1, 2}
  Config = {c1}
  InitialConfig = {c1}
  NoResponse = NoResponse
  Status = {200, 503}
  Threshold = {1}
  Channel = {"email"}
  CheckRetries = 0
  AlertRetries = 0
  WorkerSlots = 2
  Faults = {"send_error"}
  UserActions = {}
  c1 = c1
SPECIFICATION Spec
INVARIANTS
  FlagHonest
