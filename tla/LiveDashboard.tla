---------------------------- MODULE LiveDashboard ----------------------------
(***************************************************************************)
(* What a dashboard page shows: results that checks commit and publish,    *)
(* the API's subscriber that fans messages out to the sockets of the user, *)
(* and one page that merges snapshots fetched over HTTP with deltas from   *)
(* its socket, reconnects and polls. One user, one page, one API process.  *)
(***************************************************************************)
EXTENDS Integers, Sequences, FiniteSets

CONSTANTS
  Endpoint,    \* ids; an id is never used again
  MaxCheck,    \* bound on the checks of an endpoint
  Socket,      \* bound on the sockets that exist at once
  Fetch,       \* bound on the snapshot requests under way at once
  NoSocket,    \* null
  LiveFaults   \* what may go wrong, see LiveFaultKind

LiveFaultKind ==
  { "publish_lost",     \* a worker dies before publishing, or Redis is down
    "subscriber_dies",  \* Redis drops the subscription
    "socket_drops",     \* the network, a sleeping laptop
    "fetch_fails",      \* the API is unreachable or answers 5xx
    "token_expires" }

ASSUME MaxCheckAssumption == MaxCheck \in Nat
ASSUME SocketAssumption == NoSocket \notin Socket
ASSUME LiveFaultsAssumption == LiveFaults \subseteq LiveFaultKind

VARIABLES
  db,          \* the endpoints with their results
  check,       \* the checks
  subscriber,  \* whether the task redis_subscriber runs
  sock,        \* both ends of every socket
  fetch,       \* the requests for a snapshot
  token,       \* whether the API still accepts the token
  page         \* the state of dashboard.html

serverVars == <<db, check, subscriber, token>>
vars == <<db, check, subscriber, sock, fetch, token, page>>

Check == 1..MaxCheck   \* numbered in the order of checked_at

Result == [checked_at: Check, up: BOOLEAN]
Table == [life: {"unborn", "live", "deleted"}, results: SUBSET Result, overdue: BOOLEAN]

\* One row of the page; checked_at 0 is null.
Row == [checked_at: 0..MaxCheck, up: BOOLEAN, is_overdue: BOOLEAN]
NoRow == [checked_at |-> -1, up |-> FALSE, is_overdue |-> FALSE]
Rows == [Endpoint -> Row \cup {NoRow}]

Message == [ep: Endpoint, checked_at: Check, up: BOOLEAN]

CheckState == [stage: {"idle", "probed", "committed", "done", "failed"}, up: BOOLEAN,
               should_publish: BOOLEAN]
NoCheck == [stage |-> "idle", up |-> FALSE, should_publish |-> FALSE]

\* server: accept() and the entry in connections are two steps.
SocketState == [client: {"none", "connecting", "open"},
                server: {"none", "accepted", "registered"}, pipe: Seq(Message)]
NoSocketState == [client |-> "none", server |-> "none", pipe |-> << >>]

\* begin: the request of begin(), whose answer opens the socket and starts the poll.
FetchState == [stage: {"none", "sent", "answered"}, begin: BOOLEAN, body: Rows]
NoRows == [e \in Endpoint |-> NoRow]
NoFetch == [stage |-> "none", begin |-> FALSE, body |-> NoRows]
Sent == [NoFetch EXCEPT !.stage = "sent"]

\* gone: stop() was called, or the user left.
Page == [gone: BOOLEAN, polling: BOOLEAN, retryTimer: BOOLEAN, hadConnection: BOOLEAN,
         socket: Socket \cup {NoSocket}, rows: Rows]
Gone == [gone |-> TRUE, polling |-> FALSE, retryTimer |-> FALSE, hadConnection |-> FALSE,
         socket |-> NoSocket, rows |-> NoRows]

TypeOK ==
  /\ db \in [Endpoint -> Table]
  /\ check \in [Endpoint -> [Check -> CheckState]]
  /\ subscriber \in BOOLEAN
  /\ sock \in [Socket -> SocketState]
  /\ fetch \in [Fetch -> FetchState]
  /\ token \in BOOLEAN
  /\ page \in Page

\* begin() has sent its request; a first endpoint may exist.
Init ==
  /\ \E born \in SUBSET Endpoint :
       db = [e \in Endpoint |-> [life |-> IF e \in born THEN "live" ELSE "unborn",
                                 results |-> {}, overdue |-> FALSE]]
  /\ check = [e \in Endpoint |-> [k \in Check |-> NoCheck]]
  /\ subscriber = TRUE
  /\ sock = [s \in Socket |-> NoSocketState]
  /\ LET first == CHOOSE f \in Fetch : TRUE IN
       fetch = [f \in Fetch |-> IF f = first THEN [Sent EXCEPT !.begin = TRUE] ELSE NoFetch]
  /\ token = TRUE
  /\ page = [Gone EXCEPT !.gone = FALSE]
-----------------------------------------------------------------------------
(* The database and perform_check *)

Latest(e) == CHOOSE r \in db[e].results : \A q \in db[e].results : q.checked_at <= r.checked_at

\* GET /endpoints
get_endpoints_with_status ==
  [e \in Endpoint |->
     CASE db[e].life # "live" -> NoRow
       [] db[e].life = "live" /\ db[e].results = {} ->
            [checked_at |-> 0, up |-> FALSE, is_overdue |-> db[e].overdue]
       [] OTHER -> [checked_at |-> Latest(e).checked_at, up |-> Latest(e).up,
                    is_overdue |-> db[e].overdue]]

\* The probe is over; the latest result decides whether this one is news.
Probe(e, k, up) ==
  /\ check[e][k].stage = "idle"
  /\ db[e].life = "live"
  /\ check' = [check EXCEPT ![e][k] =
       [stage |-> "probed", up |-> up,
        should_publish |-> db[e].results = {} \/ Latest(e).up # up]]
  /\ UNCHANGED <<db, subscriber, sock, fetch, token, page>>

\* Redis hands the message to redis_subscriber, and handle_message sends it to
\* every socket that is registered. Redis forgets what nobody listens to, and
\* what is sent to a socket that is closed by now is lost.
handle_message(msg) ==
  sock' = [s \in Socket |->
             IF subscriber /\ sock[s].server = "registered" /\ sock[s].client # "none"
             THEN [sock[s] EXCEPT !.pipe = Append(@, msg)] ELSE sock[s]]

MessageOf(e, k) == [ep |-> e, checked_at |-> k, up |-> check[e][k].up]

\* Mutant: the message goes out before the commit, which then fails.
FailPublished(e, k) ==
  /\ check' = [check EXCEPT ![e][k] = [NoCheck EXCEPT !.stage = "failed"]]
  /\ handle_message(MessageOf(e, k))
  /\ UNCHANGED db

\* session.commit() fails, because the endpoint is gone or otherwise.
Fail(e, k) ==
  /\ check' = [check EXCEPT ![e][k] = [NoCheck EXCEPT !.stage = "failed"]]
  /\ UNCHANGED <<db, sock>>

Commit(e, k) ==
  /\ check[e][k].stage = "probed"
  /\ \/ Fail(e, k)
     \/ /\ db[e].life = "live"
        /\ \E overdue \in {FALSE, db[e].overdue} :   \* a late row may be too old
             db' = [db EXCEPT ![e].results = @ \cup {[checked_at |-> k, up |-> check[e][k].up]},
                              ![e].overdue = overdue]
        /\ check' = [check EXCEPT ![e][k].stage = "committed"]
        /\ UNCHANGED sock
  /\ UNCHANGED <<subscriber, fetch, token, page>>

\* publish_status_change, of news only. The step stands for the whole way of
\* the message to the sockets: until it is taken, the message is under way.
Publish(e, k) ==
  /\ check[e][k].stage = "committed"
  /\ check' = [check EXCEPT ![e][k].stage = "done", ![e][k].should_publish = FALSE]
  /\ \/ check[e][k].should_publish /\ handle_message(MessageOf(e, k))
     \/ ~check[e][k].should_publish /\ UNCHANGED sock
     \/ "publish_lost" \in LiveFaults /\ UNCHANGED sock
  /\ UNCHANGED <<db, subscriber, fetch, token, page>>

\* Time passes without a new result.
GoOverdue(e) ==
  /\ db[e].life = "live"
  /\ ~db[e].overdue
  /\ db' = [db EXCEPT ![e].overdue = TRUE]
  /\ UNCHANGED <<check, subscriber, sock, fetch, token, page>>

\* PATCH /endpoints/{id}, from another page, restarts the overdue clock.
update_endpoint(e) ==
  /\ db[e].life = "live"
  /\ db[e].overdue
  /\ db' = [db EXCEPT ![e].overdue = FALSE]
  /\ UNCHANGED <<check, subscriber, sock, fetch, token, page>>

\* From another page; this one shows no way to delete.
delete_endpoint(e) ==
  /\ db[e].life = "live"
  /\ db' = [db EXCEPT ![e] = [life |-> "deleted", results |-> {}, overdue |-> FALSE]]
  /\ UNCHANGED <<check, subscriber, sock, fetch, token, page>>
-----------------------------------------------------------------------------
(* realtime.py *)

\* listen() raises; nothing starts the task again.
SubscriberDies ==
  /\ "subscriber_dies" \in LiveFaults
  /\ subscriber
  /\ subscriber' = FALSE
  /\ UNCHANGED <<db, check, sock, fetch, token, page>>

\* ws_user lets the handshake pass and dashboard() accepts, then registers.
Accept(s) ==
  /\ sock[s].client = "connecting"
  /\ sock[s].server = "none"
  /\ token
  /\ sock' = [sock EXCEPT ![s].server = "accepted"]
  /\ UNCHANGED <<serverVars, fetch, page>>

Register(s) ==
  /\ sock[s].server = "accepted"
  /\ sock' = [sock EXCEPT ![s].server = "registered"]
  /\ UNCHANGED <<serverVars, fetch, page>>

\* receive_text raises WebSocketDisconnect once the page's end is closed.
Disconnect(s) ==
  /\ sock[s].server = "registered"
  /\ sock[s].client = "none"
  /\ sock' = [sock EXCEPT ![s] = NoSocketState]
  /\ UNCHANGED <<serverVars, fetch, page>>

\* GET /endpoints is answered with what the database holds now.
Answer(f) ==
  /\ fetch[f].stage = "sent"
  /\ token
  /\ fetch' = [fetch EXCEPT ![f].stage = "answered", ![f].body = get_endpoints_with_status]
  /\ UNCHANGED <<serverVars, sock, page>>

TokenExpires ==
  /\ "token_expires" \in LiveFaults
  /\ token
  /\ token' = FALSE
  /\ UNCHANGED <<db, check, subscriber, sock, fetch, page>>
-----------------------------------------------------------------------------
(* dashboard.html *)

\* The page's end of socket s is closed.
Closed(s) == IF sock[s].server = "none" THEN NoSocketState
             ELSE [sock[s] EXCEPT !.client = "none", !.pipe = << >>]

\* loadSnapshot() sends its request, as any that is free: they are all alike.
SendFetch ==
  LET free == {f \in Fetch : fetch[f].stage = "none"} IN
  free # {} /\ fetch' = [fetch EXCEPT ![CHOOSE f \in free : TRUE] = Sent]

\* openSocket(), on the page as pg.
OpenSocket(pg) ==
  \E s \in Socket :
    /\ sock[s] = NoSocketState
    /\ sock' = [sock EXCEPT ![s].client = "connecting"]
    /\ page' = [pg EXCEPT !.socket = s]

\* signOut(), or the user leaves: the browser closes all that is open.
Leave ==
  /\ page' = Gone
  /\ sock' = [s \in Socket |-> Closed(s)]
  /\ fetch' = [f \in Fetch |-> NoFetch]

\* Mutant: a snapshot replaces the row whatever the row shows.
RenderRowAlways(row, new) == new

\* What a snapshot makes of a row: the older result loses, the flag is taken over.
RenderRow(row, new) ==
  IF \/ new.checked_at = -1
     \/ row.checked_at <= 0
     \/ new.checked_at # 0 /\ new.checked_at >= row.checked_at
  THEN new
  ELSE [row EXCEPT !.is_overdue = new.is_overdue]

render(body) == [e \in Endpoint |-> RenderRow(page.rows[e], body[e])]

\* The answer reaches loadSnapshot(); begin() goes on to the socket and the poll.
loadSnapshot(f) ==
  /\ fetch[f].stage = "answered"
  /\ fetch' = [fetch EXCEPT ![f] = NoFetch]
  /\ IF fetch[f].begin
     THEN OpenSocket([page EXCEPT !.rows = render(fetch[f].body), !.polling = TRUE])
     ELSE page' = [page EXCEPT !.rows = render(fetch[f].body)] /\ UNCHANGED sock
  /\ UNCHANGED serverVars

\* There is no usable answer. A failed begin() leaves the page as it is.
FetchFails(f) ==
  /\ "fetch_fails" \in LiveFaults
  /\ fetch[f].stage = "sent"
  /\ fetch' = [fetch EXCEPT ![f] = NoFetch]
  /\ UNCHANGED <<serverVars, sock, page>>

\* 401
FetchDenied(f) ==
  /\ fetch[f].stage = "sent"
  /\ ~token
  /\ Leave
  /\ UNCHANGED serverVars

\* Mutant: the poll stops once a socket has opened.
PollUntilLive ==
  /\ page.polling
  /\ ~page.hadConnection
  /\ SendFetch
  /\ UNCHANGED <<serverVars, sock, page>>

\* setInterval(loadSnapshot, POLL_INTERVAL_MS)
Poll ==
  /\ page.polling
  /\ SendFetch
  /\ UNCHANGED <<serverVars, sock, page>>

\* POST /endpoints, from this page, which then asks for a snapshot, or another.
addEndpoint(e) ==
  /\ db[e].life = "unborn"
  /\ db' = [db EXCEPT ![e].life = "live"]
  /\ SendFetch \/ UNCHANGED fetch
  /\ UNCHANGED <<check, subscriber, sock, token, page>>

\* socket.onopen: a page that was connected before asks for what it missed.
onopen(s) ==
  /\ sock[s].client = "connecting"
  /\ sock[s].server # "none"
  /\ sock' = [sock EXCEPT ![s].client = "open"]
  /\ page' = [page EXCEPT !.hadConnection = TRUE]
  /\ IF page.hadConnection THEN SendFetch ELSE UNCHANGED fetch
  /\ UNCHANGED serverVars

\* socket.onmessage and applyUpdate
applyUpdate(s) ==
  LET msg == Head(sock[s].pipe)
      row == page.rows[msg.ep] IN
  /\ sock[s].client = "open"
  /\ sock[s].pipe # << >>
  /\ sock' = [sock EXCEPT ![s].pipe = Tail(@)]
  /\ \/ row = NoRow /\ SendFetch /\ UNCHANGED page
     \/ row # NoRow /\ msg.checked_at < row.checked_at /\ UNCHANGED <<fetch, page>>
     \/ /\ row # NoRow /\ msg.checked_at >= row.checked_at
        /\ page' = [page EXCEPT !.rows[msg.ep] =
                      [checked_at |-> msg.checked_at, up |-> msg.up, is_overdue |-> FALSE]]
        /\ UNCHANGED fetch
  /\ UNCHANGED serverVars

\* socket.onclose: the connection breaks, or the handshake is refused (which a
\* browser reports as 1006, not as 1008). Any socket's end clears the variable.
onclose(s) ==
  /\ sock[s].client # "none"
  /\ \/ "socket_drops" \in LiveFaults
     \/ sock[s].client = "connecting" /\ sock[s].server = "none" /\ ~token
  /\ sock' = [sock EXCEPT ![s] = Closed(s)]
  /\ page' = [page EXCEPT !.socket = NoSocket, !.retryTimer = TRUE]
  /\ UNCHANGED <<serverVars, fetch>>

RetryTimer ==
  /\ page.retryTimer
  /\ OpenSocket([page EXCEPT !.retryTimer = FALSE])
  /\ UNCHANGED <<serverVars, fetch>>

\* The tab comes to the front.
visibilitychange ==
  /\ page.socket = NoSocket
  /\ OpenSocket([page EXCEPT !.retryTimer = FALSE])
  /\ UNCHANGED <<serverVars, fetch>>

signOut ==
  /\ Leave
  /\ UNCHANGED serverVars
-----------------------------------------------------------------------------
CheckStep ==
  \E e \in Endpoint, k \in Check :
    (\E up \in BOOLEAN : Probe(e, k, up)) \/ Commit(e, k) \/ Publish(e, k)

ServerStep ==
  \/ \E s \in Socket : Accept(s) \/ Register(s) \/ Disconnect(s)
  \/ \E f \in Fetch : Answer(f)

PageStep ==
  \/ \E f \in Fetch : loadSnapshot(f) \/ FetchDenied(f)
  \/ \E s \in Socket : onopen(s) \/ applyUpdate(s) \/ onclose(s)
  \/ Poll
  \/ RetryTimer
  \/ visibilitychange
  \/ signOut

EnvironmentStep ==
  \/ \E e \in Endpoint :
       addEndpoint(e) \/ update_endpoint(e) \/ delete_endpoint(e) \/ GoOverdue(e)
  \/ \E f \in Fetch : FetchFails(f)
  \/ SubscriberDies
  \/ TokenExpires

\* The story ends when the page is left.
Left == page.gone /\ UNCHANGED vars

Next ==
  \/ ~page.gone /\ (CheckStep \/ ServerStep \/ PageStep \/ EnvironmentStep)
  \/ Left

Spec == Init /\ [][Next]_vars

\* The poll's timer fires, the browser handles what arrives, and the API is
\* reachable again and again. Nothing is assumed of the socket or the channel.
Fairness ==
  /\ WF_vars(Poll)
  /\ SF_vars(\E f \in Fetch : Answer(f) \/ FetchDenied(f))
  /\ WF_vars(\E f \in Fetch : loadSnapshot(f))

FairSpec == Spec /\ Fairness
-----------------------------------------------------------------------------
(* Properties *)

\* A check of e has committed this result; r is a result, a message or a row.
Happened(e, r) ==
  /\ check[e][r.checked_at].stage \in {"committed", "done"}
  /\ check[e][r.checked_at].up = r.up

\* The page shows nothing the database never held: a result on the page was
\* committed, although checks fail to commit, messages overtake snapshots, and
\* results are deleted.
PageShowsHistory ==
  \A e \in Endpoint : page.rows[e].checked_at > 0 => Happened(e, page.rows[e])

\* While a row stays on the page its result is never replaced by an older one,
\* in whatever order snapshots and messages arrive.
NeverBackwards ==
  [][\A e \in Endpoint :
       (page.rows[e] # NoRow /\ page'.rows[e] # NoRow)
         => page.rows[e].checked_at <= page'.rows[e].checked_at]_vars

\* A page that got past its first snapshot shows what the database holds, soon
\* after that has stopped changing, whatever was lost: messages, the subscriber,
\* the socket, answers that came late. It is the poll that guarantees this.
Converges ==
  <>[][db' = db]_vars => <>[](page.polling => page.rows = get_endpoints_with_status)
=============================================================================
