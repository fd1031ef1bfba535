SPECIFICATION Spec
CONSTANTS
  Endpoint = {e1}
  Dispatcher = {d1}
  Interval = {2}
  Grace = 3
  Retention = 5
  PurgeBatch = 1
  TickPeriod = 1
  RunTime = 1
  CheckTime = 1
  Routes = {"add"}
  ScheduleFaults = {"check_lost"}
  Horizon = 6
  MaxReschedules = 0
PROPERTY LostCheckShows
