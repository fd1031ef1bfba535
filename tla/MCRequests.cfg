SPECIFICATION Spec
CHECK_DEADLOCK FALSE
CONSTANTS
  Request = {r1, r2, r3}
  Ip = {"ip"}
  Email <- MCEmail
  Lowered <- MCLowered
  Identity <- MCIdentity
  LimitName <- MCLimitName
  Limit <- MCLimit
  WindowSeconds <- MCWindowSeconds
  Password = {"p1", "p2"}
  Form <- MCForm
  Seeded <- MCSeeded
  TokenLife = 2
  MaxEndpoints = 1
  Threads = 2
  Tries = 2
  MaxRestarts = 1
  Horizon = 2
  Scenarios <- MCScenarios
SYMMETRY RequestSymmetry
INVARIANT TypeOK
INVARIANT SpanBounded
INVARIANT AccountMatchesAnswer
INVARIANT QuotaOvershoot
PROPERTY RetryAfterHonest
PROPERTY AccountLogsIn
