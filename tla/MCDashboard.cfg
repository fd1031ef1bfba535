SPECIFICATION FairSpec
CONSTANTS
  Endpoint = {e1}
  MaxCheck = 2
  Socket = {s1}
  Fetch = {f1}
  NoSocket = NoSocket
  LiveFaults = {"publish_lost", "subscriber_dies", "socket_drops", "fetch_fails", "token_expires"}
INVARIANT PageShowsHistory
PROPERTY NeverBackwards
PROPERTY Converges
