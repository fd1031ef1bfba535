SPECIFICATION Spec
CONSTANTS
  Endpoint = {e1}
  Dispatcher = {d1}
  Interval = {2, 3}
  Grace = 4
  Retention = 7
  PurgeBatch = 1
  TickPeriod = 2
  RunTime = 1
  CheckTime = 1
  Routes = {"add", "update", "delete"}
  ScheduleFaults = {}
  Horizon = 9
  MaxReschedules = 1
INVARIANT NoFalseOverdue
INVARIANT ResultsInSettingsOrder
