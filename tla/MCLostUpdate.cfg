CONSTANTS
  Task = {1, 2, 3}
  Config = {c1}
  InitialConfig = {c1}
  NoResponse = NoResponse
  Status = {200, 503}
  Threshold = {2}
  Channel = {"email"}
  CheckRetries = 0
  AlertRetries = 0
  WorkerSlots = 2
  Faults = {}
  UserActions = {}
  c1 = c1
SPECIFICATION Spec
INVARIANTS
  VisibleDownEndsRun
