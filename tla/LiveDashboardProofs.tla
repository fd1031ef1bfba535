------------------------- MODULE LiveDashboardProofs -------------------------
(***************************************************************************)
(* Proofs about LiveDashboard: for any number of endpoints, checks, sockets *)
(* and requests, and under every fault, the page shows only results that    *)
(* were committed, and never an older one than before.                      *)
(***************************************************************************)
EXTENDS LiveDashboard, SequenceTheorems, WellFoundedInduction, TLAPS

-----------------------------------------------------------------------------
(* Types *)

\* The initial values of rows, requests and sockets are of their types.
LEMMA InitialTypes ==
  /\ NoRows \in Rows
  /\ NoFetch \in FetchState /\ Sent \in FetchState
  /\ NoSocketState \in SocketState
  /\ Gone \in Page
<1>1. NoRows \in Rows
  BY DEF NoRows, Rows
<1>2. NoFetch \in FetchState /\ Sent \in FetchState
  BY <1>1 DEF NoFetch, Sent, FetchState
<1>3. NoSocketState \in SocketState
  BY DEF NoSocketState, SocketState
<1>4. Gone \in Page
  BY <1>1 DEF Gone, Page
<1> QED BY <1>1, <1>2, <1>3, <1>4

\* The numbers are ordered from the first one on.
LEMMA LessIsWellFounded == IsWellFoundedOn({ss \in Nat \X Nat : ss[1] < ss[2]}, Nat)
  BY NatLessThanWellFounded DEF OpToRel

\* A bounded set of numbers has a largest one.
LEMMA LargestExists ==
  ASSUME NEW N \in Nat, NEW S \in SUBSET (1..N), S # {}
  PROVE  \E m \in S : \A k \in S : k <= m
<1> DEFINE R == {ss \in Nat \X Nat : ss[1] < ss[2]}
           T == {N - k : k \in S}
<1>1. \A k \in S : k \in 1..N /\ N - k \in Nat
  OBVIOUS
<1>2. PICK s \in S : TRUE
  OBVIOUS
<1>3. N - s \in T
  BY <1>2
<1>4. T \subseteq Nat /\ T # {}
  BY <1>1, <1>3
<1>5. PICK x \in T : \A y \in T : ~(<<y, x>> \in R)
  BY <1>4, LessIsWellFounded, WFMin, Zenon
<1>6. PICK m \in S : x = N - m
  BY <1>5
<1>7. \A k \in S : ~(N - k < N - m)
  BY <1>1, <1>4, <1>5, <1>6
<1> QED BY <1>1, <1>7

\* The query for the latest result finds one, if there is any.
LEMMA LatestIsResult ==
  ASSUME TypeOK, NEW e \in Endpoint, db[e].results # {}
  PROVE  Latest(e) \in db[e].results
<1> DEFINE S == {r.checked_at : r \in db[e].results}
<1>1. db[e].results \subseteq Result
  BY DEF TypeOK, Table
<1>2. \A r \in db[e].results : r.checked_at \in 1..MaxCheck
  BY <1>1 DEF Result, Check
<1>3. PICK s \in db[e].results : TRUE
  OBVIOUS
<1>4. S \in SUBSET (1..MaxCheck) /\ S # {}
  BY <1>2, <1>3
<1>5. PICK m \in S : \A k \in S : k <= m
  BY <1>4, LargestExists, MaxCheckAssumption
<1>6. PICK r \in db[e].results : r.checked_at = m
  BY <1>5
<1>7. \A q \in db[e].results : q.checked_at <= r.checked_at
  BY <1>5, <1>6
<1> QED BY <1>7 DEF Latest

\* What the API answers is a list of rows.
LEMMA SnapshotType ==
  ASSUME TypeOK
  PROVE  get_endpoints_with_status \in Rows
<1> SUFFICES ASSUME NEW e \in Endpoint
             PROVE  get_endpoints_with_status[e] \in Row \cup {NoRow}
  BY DEF get_endpoints_with_status, Rows
<1>1. db[e].overdue \in BOOLEAN /\ db[e].results \subseteq Result
  BY DEF TypeOK, Table
<1>2. CASE db[e].life # "live"
  BY <1>2 DEF get_endpoints_with_status
<1>3. CASE db[e].life = "live" /\ db[e].results = {}
  BY <1>1, <1>3, MaxCheckAssumption DEF get_endpoints_with_status, Row
<1>4. CASE db[e].life = "live" /\ db[e].results # {}
  <2>1. Latest(e) \in Result
    BY <1>1, <1>4, LatestIsResult
  <2>2. Latest(e).checked_at \in 0..MaxCheck /\ Latest(e).up \in BOOLEAN
    BY <2>1, MaxCheckAssumption DEF Result, Check
  <2> QED BY <1>1, <1>4, <2>2 DEF get_endpoints_with_status, Row
<1> QED BY <1>2, <1>3, <1>4

\* Merging a snapshot into the page gives rows again.
LEMMA RenderType ==
  ASSUME TypeOK, NEW body \in Rows
  PROVE  render(body) \in Rows
<1> SUFFICES ASSUME NEW e \in Endpoint
             PROVE  RenderRow(page.rows[e], body[e]) \in Row \cup {NoRow}
  BY DEF render, Rows
<1>1. page.rows[e] \in Row \cup {NoRow} /\ body[e] \in Row \cup {NoRow}
  BY DEF TypeOK, Page, Rows
<1>2. CASE body[e] = NoRow \/ page.rows[e] = NoRow
  BY <1>1, <1>2 DEF RenderRow, NoRow
<1>3. CASE body[e] \in Row /\ page.rows[e] \in Row
  BY <1>3 DEF RenderRow, Row
<1> QED BY <1>1, <1>2, <1>3

\* A request that loadSnapshot() sends is the only one that changes.
LEMMA SendFetchFacts ==
  ASSUME TypeOK, SendFetch
  PROVE  /\ fetch' \in [Fetch -> FetchState]
         /\ \A f \in Fetch : fetch'[f] = fetch[f] \/ fetch'[f] = Sent
<1> DEFINE free == {f \in Fetch : fetch[f].stage = "none"}
           first == CHOOSE f \in free : TRUE
<1>1. free # {} /\ fetch' = [fetch EXCEPT ![first] = Sent]
  BY DEF SendFetch
<1>2. first \in Fetch
  BY <1>1
<1> HIDE DEF first
<1> QED BY <1>1, <1>2, InitialTypes DEF TypeOK

\* Opening a socket sets the page's variable and carries no message yet.
LEMMA OpenSocketFacts ==
  ASSUME TypeOK, NEW pg \in Page, OpenSocket(pg)
  PROVE  /\ sock' \in [Socket -> SocketState]
         /\ page' \in Page
         /\ page'.rows = pg.rows
         /\ \A s \in Socket : sock'[s].pipe = sock[s].pipe
<1>1. PICK s \in Socket : /\ sock' = [sock EXCEPT ![s].client = "connecting"]
                          /\ page' = [pg EXCEPT !.socket = s]
  BY DEF OpenSocket
<1>2. sock[s] \in SocketState
  BY DEF TypeOK
<1>3. sock' \in [Socket -> SocketState]
  BY <1>1, <1>2 DEF TypeOK, SocketState
<1>4. page' \in Page /\ page'.rows = pg.rows
  BY <1>1 DEF Page
<1>5. \A t \in Socket : sock'[t].pipe = sock[t].pipe
  BY <1>1, <1>2 DEF TypeOK, SocketState
<1> QED BY <1>3, <1>4, <1>5

\* A socket that is closed holds no message for the page.
LEMMA ClosedFacts ==
  ASSUME TypeOK, NEW s \in Socket
  PROVE  Closed(s) \in SocketState /\ Closed(s).pipe = << >>
<1>1. sock[s] \in SocketState
  BY DEF TypeOK
<1>2. CASE sock[s].server = "none"
  BY <1>2, InitialTypes DEF Closed, NoSocketState
<1>3. CASE sock[s].server # "none"
  <2>1. << >> \in Seq(Message)
    OBVIOUS
  <2>2. Closed(s) = [sock[s] EXCEPT !.client = "none", !.pipe = << >>]
    BY <1>3 DEF Closed
  <2>3. Closed(s) = [client |-> "none", server |-> sock[s].server, pipe |-> << >>]
    BY <1>1, <2>2 DEF SocketState
  <2> QED BY <1>1, <2>1, <2>3 DEF SocketState
<1> QED BY <1>2, <1>3

\* Leaving the page ends everything it had under way.
LEMMA LeaveFacts ==
  ASSUME TypeOK, Leave
  PROVE  /\ sock' \in [Socket -> SocketState]
         /\ page' \in Page
         /\ fetch' \in [Fetch -> FetchState]
         /\ page'.rows = NoRows
         /\ \A s \in Socket : sock'[s].pipe = << >>
         /\ \A f \in Fetch : fetch'[f].body = NoRows
<1>1. sock' = [s \in Socket |-> Closed(s)]
  BY DEF Leave
<1>2. sock' \in [Socket -> SocketState] /\ \A s \in Socket : sock'[s].pipe = << >>
  BY <1>1, ClosedFacts
<1>3. fetch' \in [Fetch -> FetchState] /\ \A f \in Fetch : fetch'[f].body = NoRows
  BY InitialTypes DEF Leave, NoFetch
<1>4. page' \in Page /\ page'.rows = NoRows
  BY InitialTypes DEF Leave, Gone
<1> QED BY <1>2, <1>3, <1>4

\* A message is appended to the pipes of some sockets.
LEMMA MessageFacts ==
  ASSUME TypeOK, NEW m \in Message, handle_message(m)
  PROVE  /\ sock' \in [Socket -> SocketState]
         /\ \A s \in Socket : \/ sock'[s].pipe = sock[s].pipe
                              \/ sock'[s].pipe = Append(sock[s].pipe, m)
<1> SUFFICES ASSUME NEW s \in Socket
             PROVE  /\ sock'[s] \in SocketState
                    /\ \/ sock'[s].pipe = sock[s].pipe
                       \/ sock'[s].pipe = Append(sock[s].pipe, m)
  BY DEF handle_message
<1>1. sock[s] \in SocketState /\ sock[s].pipe \in Seq(Message)
  BY DEF TypeOK, SocketState
<1>2. Append(sock[s].pipe, m) \in Seq(Message)
  BY <1>1, AppendProperties
<1>3. \/ sock'[s] = sock[s]
      \/ sock'[s] = [sock[s] EXCEPT !.pipe = Append(@, m)]
  BY DEF handle_message
<1> QED BY <1>1, <1>2, <1>3 DEF SocketState
-----------------------------------------------------------------------------
(* Type correctness *)

\* The steps of a check keep the types.
LEMMA TypeCheck ==
  ASSUME TypeOK, CheckStep
  PROVE  TypeOK'
<1> PICK e \in Endpoint, k \in Check :
      (\E up \in BOOLEAN : Probe(e, k, up)) \/ Commit(e, k) \/ Publish(e, k)
  BY DEF CheckStep
<1>1. check[e][k] \in CheckState /\ db[e] \in Table
  BY DEF TypeOK
<1>2. MessageOf(e, k) \in Message
  BY <1>1 DEF MessageOf, Message, CheckState
<1>3. ASSUME NEW up \in BOOLEAN, Probe(e, k, up)
      PROVE  TypeOK'
  <2> DEFINE new == db[e].results = {} \/ Latest(e).up # up
  <2>1. [stage |-> "probed", up |-> up, should_publish |-> new] \in CheckState
    BY DEF CheckState
  <2>2. check' \in [Endpoint -> [Check -> CheckState]]
    BY <1>3, <2>1 DEF Probe, TypeOK
  <2> QED BY <1>3, <2>2 DEF Probe, TypeOK
<1>4. CASE Commit(e, k) /\ Fail(e, k)
  <2>1. [NoCheck EXCEPT !.stage = "failed"] \in CheckState
    BY DEF NoCheck, CheckState
  <2> QED BY <1>4, <2>1 DEF Commit, Fail, TypeOK
<1>5. CASE Commit(e, k) /\ ~Fail(e, k)
  <2>1. PICK overdue \in {FALSE, db[e].overdue} :
          db' = [db EXCEPT ![e].results = @ \cup {[checked_at |-> k, up |-> check[e][k].up]},
                           ![e].overdue = overdue]
    BY <1>5 DEF Commit
  <2>2. [checked_at |-> k, up |-> check[e][k].up] \in Result
    BY <1>1 DEF Result, CheckState
  <2>3. db' \in [Endpoint -> Table]
    BY <1>1, <2>1, <2>2 DEF TypeOK, Table
  <2>4. check' = [check EXCEPT ![e][k].stage = "committed"]
    BY <1>5 DEF Commit
  <2>5. [check[e][k] EXCEPT !.stage = "committed"] \in CheckState
    BY <1>1 DEF CheckState
  <2>6. check' \in [Endpoint -> [Check -> CheckState]]
    BY <2>4, <2>5 DEF TypeOK
  <2> QED BY <1>5, <2>3, <2>6 DEF Commit, TypeOK
<1>6. CASE Publish(e, k)
  <2>1. check' \in [Endpoint -> [Check -> CheckState]]
    BY <1>1, <1>6 DEF Publish, TypeOK, CheckState
  <2>2. sock' \in [Socket -> SocketState]
    BY <1>2, <1>6, MessageFacts DEF Publish, TypeOK
  <2> QED BY <1>6, <2>1, <2>2 DEF Publish, TypeOK
<1> QED BY <1>3, <1>4, <1>5, <1>6

\* The steps of the API keep the types.
LEMMA TypeServer ==
  ASSUME TypeOK, ServerStep
  PROVE  TypeOK'
<1>1. ASSUME NEW s \in Socket, Accept(s) \/ Register(s) \/ Disconnect(s)
      PROVE  TypeOK'
  <2>1. sock[s] \in SocketState
    BY DEF TypeOK
  <2>2. sock' \in [Socket -> SocketState]
    <3>1. CASE Accept(s)
      BY <2>1, <3>1 DEF Accept, TypeOK, SocketState
    <3>2. CASE Register(s)
      BY <2>1, <3>2 DEF Register, TypeOK, SocketState
    <3>3. CASE Disconnect(s)
      BY <3>3, InitialTypes DEF Disconnect, TypeOK
    <3> QED BY <1>1, <3>1, <3>2, <3>3
  <2> QED BY <1>1, <2>2 DEF Accept, Register, Disconnect, TypeOK, serverVars
<1>2. ASSUME NEW f \in Fetch, Answer(f)
      PROVE  TypeOK'
  <2>1. fetch[f] \in FetchState
    BY DEF TypeOK
  <2>2. fetch' \in [Fetch -> FetchState]
    BY <1>2, <2>1, SnapshotType DEF Answer, TypeOK, FetchState
  <2> QED BY <1>2, <2>2 DEF Answer, TypeOK, serverVars
<1> QED BY <1>1, <1>2 DEF ServerStep

\* A message that the page takes from the pipe is a message.
LEMMA HeadOfPipe ==
  ASSUME TypeOK, NEW s \in Socket, sock[s].pipe # << >>
  PROVE  /\ Head(sock[s].pipe) \in Message
         /\ Tail(sock[s].pipe) \in Seq(Message)
         /\ sock[s].pipe \in Seq(Message)
<1>1. sock[s].pipe \in Seq(Message)
  BY DEF TypeOK, SocketState
<1> QED BY <1>1, HeadTailProperties

\* A delta keeps the types.
LEMMA TypeUpdate ==
  ASSUME TypeOK, NEW s \in Socket, applyUpdate(s)
  PROVE  TypeOK'
<1> DEFINE msg == Head(sock[s].pipe)
           new == [checked_at |-> msg.checked_at, up |-> msg.up, is_overdue |-> FALSE]
<1>1. sock[s].pipe # << >>
  BY DEF applyUpdate
<1>2. msg \in Message /\ Tail(sock[s].pipe) \in Seq(Message)
  BY <1>1, HeadOfPipe
<1>3. sock[s] \in SocketState
  BY DEF TypeOK
<1>4. sock' = [sock EXCEPT ![s].pipe = Tail(@)] /\ UNCHANGED <<db, check, subscriber, token>>
  BY DEF applyUpdate, serverVars
<1>5. sock' \in [Socket -> SocketState]
  BY <1>2, <1>3, <1>4 DEF TypeOK, SocketState
<1>6. new \in Row /\ msg.ep \in Endpoint
  BY <1>2, MaxCheckAssumption DEF Row, Message, Check
<1>7. page' = page \/ page' = [page EXCEPT !.rows[msg.ep] = new]
  BY DEF applyUpdate
<1>8. page' \in Page
  <2>1. page \in Page /\ page.rows \in Rows
    BY DEF TypeOK, Page
  <2>2. [page.rows EXCEPT ![msg.ep] = new] \in Rows
    BY <1>6, <2>1 DEF Rows
  <2>3. CASE page' = [page EXCEPT !.rows = [page.rows EXCEPT ![msg.ep] = new]]
    BY <2>1, <2>2, <2>3 DEF Page
  <2> QED BY <1>7, <2>1, <2>3
<1>9. fetch' \in [Fetch -> FetchState]
  BY SendFetchFacts DEF applyUpdate, TypeOK
<1> QED BY <1>4, <1>5, <1>8, <1>9 DEF TypeOK

\* The steps of the page keep the types.
LEMMA TypePage ==
  ASSUME TypeOK, PageStep
  PROVE  TypeOK'
<1>1. ASSUME NEW f \in Fetch, loadSnapshot(f)
      PROVE  TypeOK'
  <2> DEFINE rendered == render(fetch[f].body)
             pg == [page EXCEPT !.rows = rendered]
             begun == [page EXCEPT !.rows = rendered, !.polling = TRUE]
  <2>1. fetch[f].body \in Rows
    BY DEF TypeOK, FetchState
  <2>2. rendered \in Rows
    BY <2>1, RenderType
  <2>3. pg \in Page /\ begun \in Page
    BY <2>2 DEF TypeOK, Page
  <2>4. /\ fetch' = [fetch EXCEPT ![f] = NoFetch]
        /\ UNCHANGED <<db, check, subscriber, token>>
        /\ OpenSocket(begun) \/ (page' = pg /\ UNCHANGED sock)
    BY <1>1 DEF loadSnapshot, serverVars
  <2>5. fetch' \in [Fetch -> FetchState]
    BY <2>4, InitialTypes DEF TypeOK
  <2>6. sock' \in [Socket -> SocketState] /\ page' \in Page
    BY <2>3, <2>4, OpenSocketFacts DEF TypeOK
  <2> QED BY <2>4, <2>5, <2>6 DEF TypeOK
<1>2. CASE Leave /\ UNCHANGED serverVars
  BY <1>2, LeaveFacts DEF TypeOK, serverVars
<1>3. ASSUME NEW s \in Socket, onopen(s)
      PROVE  TypeOK'
  <2>1. sock[s] \in SocketState
    BY DEF TypeOK
  <2>2. sock' \in [Socket -> SocketState]
    BY <1>3, <2>1 DEF onopen, TypeOK, SocketState
  <2>3. page' \in Page
    BY <1>3 DEF onopen, TypeOK, Page
  <2>4. fetch' \in [Fetch -> FetchState]
    BY <1>3, SendFetchFacts DEF onopen, TypeOK
  <2> QED BY <1>3, <2>2, <2>3, <2>4 DEF onopen, TypeOK, serverVars
<1>4. ASSUME NEW s \in Socket, onclose(s)
      PROVE  TypeOK'
  <2>1. sock' \in [Socket -> SocketState]
    BY <1>4, ClosedFacts DEF onclose, TypeOK
  <2>2. page' \in Page
    BY <1>4 DEF onclose, TypeOK, Page
  <2> QED BY <1>4, <2>1, <2>2 DEF onclose, TypeOK, serverVars
<1>5. CASE Poll
  BY <1>5, SendFetchFacts DEF Poll, TypeOK, serverVars
<1>6. CASE RetryTimer \/ visibilitychange
  <2> DEFINE pg == [page EXCEPT !.retryTimer = FALSE]
  <2>1. pg \in Page
    BY DEF TypeOK, Page
  <2>2. OpenSocket(pg) /\ UNCHANGED <<db, check, subscriber, token, fetch>>
    BY <1>6 DEF RetryTimer, visibilitychange, serverVars
  <2> QED BY <2>1, <2>2, OpenSocketFacts DEF TypeOK
<1> QED BY <1>1, <1>2, <1>3, <1>4, <1>5, <1>6, TypeUpdate DEF PageStep, FetchDenied, signOut

\* What users of other pages and the faults do keeps the types.
LEMMA TypeEnvironment ==
  ASSUME TypeOK, EnvironmentStep
  PROVE  TypeOK'
<1>1. ASSUME NEW e \in Endpoint,
             addEndpoint(e) \/ update_endpoint(e) \/ delete_endpoint(e) \/ GoOverdue(e)
      PROVE  TypeOK'
  <2>1. db[e] \in Table
    BY DEF TypeOK
  <2>2. db' \in [Endpoint -> Table]
    <3>1. CASE addEndpoint(e)
      <4>1. [db[e] EXCEPT !.life = "live"] \in Table
        BY <2>1 DEF Table
      <4> QED BY <3>1, <4>1 DEF addEndpoint, TypeOK
    <3>2. CASE update_endpoint(e) \/ GoOverdue(e)
      <4>1. \A o \in BOOLEAN : [db[e] EXCEPT !.overdue = o] \in Table
        BY <2>1 DEF Table
      <4> QED BY <3>2, <4>1 DEF update_endpoint, GoOverdue, TypeOK
    <3>3. CASE delete_endpoint(e)
      <4>1. [life |-> "deleted", results |-> {}, overdue |-> FALSE] \in Table
        BY DEF Table
      <4> QED BY <3>3, <4>1 DEF delete_endpoint, TypeOK
    <3> QED BY <1>1, <3>1, <3>2, <3>3
  <2>3. fetch' \in [Fetch -> FetchState]
    BY <1>1, SendFetchFacts DEF addEndpoint, update_endpoint, delete_endpoint, GoOverdue, TypeOK
  <2> QED BY <1>1, <2>2, <2>3 DEF addEndpoint, update_endpoint, delete_endpoint, GoOverdue, TypeOK
<1>2. ASSUME NEW f \in Fetch, FetchFails(f)
      PROVE  TypeOK'
  BY <1>2, InitialTypes DEF FetchFails, TypeOK, serverVars
<1>3. CASE SubscriberDies \/ TokenExpires
  BY <1>3 DEF SubscriberDies, TokenExpires, TypeOK
<1> QED BY <1>1, <1>2, <1>3 DEF EnvironmentStep

\* Every step keeps the types.
LEMMA TypeStep ==
  ASSUME TypeOK, [Next]_vars
  PROVE  TypeOK'
<1>1. CASE UNCHANGED vars
  BY <1>1 DEF vars, TypeOK
<1> QED BY <1>1, TypeCheck, TypeServer, TypePage, TypeEnvironment DEF Next, Left

\* The first state is well typed.
LEMMA TypeInit == Init => TypeOK
<1> SUFFICES ASSUME Init PROVE TypeOK
  OBVIOUS
<1>1. db \in [Endpoint -> Table]
  BY DEF Init, Table
<1>2. check \in [Endpoint -> [Check -> CheckState]]
  BY DEF Init, NoCheck, CheckState
<1>3. [Sent EXCEPT !.begin = TRUE] \in FetchState
  BY InitialTypes DEF FetchState
<1>4. fetch \in [Fetch -> FetchState]
  BY <1>3, InitialTypes DEF Init
<1>5. [Gone EXCEPT !.gone = FALSE] \in Page
  BY InitialTypes DEF Page
<1> QED BY <1>1, <1>2, <1>4, <1>5, InitialTypes DEF Init, TypeOK

\* Every reachable state of the dashboard is well typed.
THEOREM DashboardTypes == Spec => []TypeOK
  BY TypeInit, TypeStep, PTL DEF Spec
-----------------------------------------------------------------------------
(* The page never goes back *)

\* A step of the page changes its rows by a snapshot, a delta or an end.
LEMMA RowsChange ==
  ASSUME TypeOK, [Next]_vars
  PROVE  \/ page'.rows = page.rows
         \/ page'.rows = NoRows
         \/ \E f \in Fetch : page'.rows = render(fetch[f].body)
         \/ \E s \in Socket :
              LET msg == Head(sock[s].pipe) IN
              /\ sock[s].pipe # << >>
              /\ page.rows[msg.ep] # NoRow
              /\ msg.checked_at >= page.rows[msg.ep].checked_at
              /\ page'.rows = [page.rows EXCEPT ![msg.ep] =
                   [checked_at |-> msg.checked_at, up |-> msg.up, is_overdue |-> FALSE]]
<1>1. page \in Page
  BY DEF TypeOK
<1>2. CASE UNCHANGED page
  BY <1>2
<1>3. ASSUME NEW f \in Fetch, loadSnapshot(f)
      PROVE  page'.rows = render(fetch[f].body)
  <2> DEFINE rendered == render(fetch[f].body)
             pg == [page EXCEPT !.rows = rendered]
             begun == [page EXCEPT !.rows = rendered, !.polling = TRUE]
  <2>1. rendered \in Rows
    BY RenderType DEF TypeOK, FetchState
  <2>2. pg \in Page /\ begun \in Page /\ pg.rows = rendered /\ begun.rows = rendered
    BY <1>1, <2>1 DEF Page
  <2>3. OpenSocket(begun) \/ page' = pg
    BY <1>3 DEF loadSnapshot
  <2> QED BY <2>2, <2>3, OpenSocketFacts
<1>4. CASE Leave
  BY <1>4, LeaveFacts
<1>5. ASSUME NEW s \in Socket, applyUpdate(s), page' # page
      PROVE  LET msg == Head(sock[s].pipe) IN
             /\ sock[s].pipe # << >>
             /\ page.rows[msg.ep] # NoRow
             /\ msg.checked_at >= page.rows[msg.ep].checked_at
             /\ page'.rows = [page.rows EXCEPT ![msg.ep] =
                  [checked_at |-> msg.checked_at, up |-> msg.up, is_overdue |-> FALSE]]
  BY <1>1, <1>5 DEF applyUpdate, Page
<1>6. ASSUME NEW s \in Socket, onopen(s) \/ onclose(s)
      PROVE  page'.rows = page.rows
  BY <1>1, <1>6 DEF onopen, onclose, Page
<1>7. CASE RetryTimer \/ visibilitychange
  <2> DEFINE pg == [page EXCEPT !.retryTimer = FALSE]
  <2>1. pg \in Page /\ pg.rows = page.rows
    BY <1>1 DEF Page
  <2>2. OpenSocket(pg)
    BY <1>7 DEF RetryTimer, visibilitychange
  <2> QED BY <2>1, <2>2, OpenSocketFacts
<1>8. CASE CheckStep
  BY <1>2, <1>8 DEF CheckStep, Probe, Commit, Publish
<1>9. CASE ServerStep \/ EnvironmentStep \/ Poll
  BY <1>2, <1>9 DEF ServerStep, Accept, Register, Disconnect, Answer, EnvironmentStep,
       addEndpoint, update_endpoint, delete_endpoint, GoOverdue, FetchFails, SubscriberDies,
       TokenExpires, Poll
<1> QED BY <1>2, <1>3, <1>4, <1>5, <1>6, <1>7, <1>8, <1>9
         DEF Next, Left, vars, PageStep, FetchDenied, signOut

\* Neither a snapshot nor a delta replaces a result by an older one.
LEMMA NeverBackwardsStep ==
  ASSUME TypeOK, [Next]_vars, NEW e \in Endpoint,
         page.rows[e] # NoRow, page'.rows[e] # NoRow
  PROVE  page.rows[e].checked_at <= page'.rows[e].checked_at
<1>1. page.rows \in Rows
  BY DEF TypeOK, Page
<1>2. page.rows[e] \in Row /\ page.rows[e].checked_at \in Nat
  BY <1>1, MaxCheckAssumption DEF Rows, Row
<1>3. CASE page'.rows = page.rows
  BY <1>2, <1>3
<1>4. CASE page'.rows = NoRows
  BY <1>4 DEF NoRows
<1>5. ASSUME NEW f \in Fetch, page'.rows = render(fetch[f].body)
      PROVE  page.rows[e].checked_at <= page'.rows[e].checked_at
  <2> DEFINE new == fetch[f].body[e]
  <2>1. new \in Row \cup {NoRow}
    BY DEF TypeOK, FetchState, Rows
  <2>2. page'.rows[e] = RenderRow(page.rows[e], new)
    BY <1>5 DEF render
  <2>3. new \in Row /\ new.checked_at \in Nat
    <3>1. new # NoRow
      BY <2>2 DEF RenderRow, NoRow
    <3> QED BY <2>1, <3>1, MaxCheckAssumption DEF Row
  <2> HIDE DEF new
  <2>4. CASE page'.rows[e] = new
    BY <1>2, <2>2, <2>3, <2>4 DEF RenderRow
  <2>5. CASE page'.rows[e] = [page.rows[e] EXCEPT !.is_overdue = new.is_overdue]
    BY <1>2, <2>5 DEF Row
  <2> QED BY <2>2, <2>4, <2>5 DEF RenderRow
<1>6. ASSUME NEW s \in Socket, sock[s].pipe # << >>,
             Head(sock[s].pipe).checked_at >= page.rows[Head(sock[s].pipe).ep].checked_at,
             page'.rows = [page.rows EXCEPT ![Head(sock[s].pipe).ep] =
               [checked_at |-> Head(sock[s].pipe).checked_at, up |-> Head(sock[s].pipe).up,
                is_overdue |-> FALSE]]
      PROVE  page.rows[e].checked_at <= page'.rows[e].checked_at
  <2> DEFINE msg == Head(sock[s].pipe)
  <2>1. msg.checked_at \in Nat
    BY <1>6, HeadOfPipe, MaxCheckAssumption DEF Message, Check
  <2>2. CASE msg.ep = e
    BY <1>1, <1>2, <1>6, <2>1, <2>2 DEF Rows
  <2>3. CASE msg.ep # e
    BY <1>1, <1>2, <1>6, <2>3 DEF Rows
  <2> QED BY <2>2, <2>3
<1> QED BY <1>3, <1>4, <1>5, <1>6, RowsChange

\* The result in a row that stays on the page is never replaced by an older one,
\* for any number of checks, requests and sockets (render, applyUpdate).
THEOREM PageNeverGoesBack == Spec => NeverBackwards
<1>1. TypeOK /\ [Next]_vars
        => [\A e \in Endpoint :
              (page.rows[e] # NoRow /\ page'.rows[e] # NoRow)
                => page.rows[e].checked_at <= page'.rows[e].checked_at]_vars
  BY NeverBackwardsStep
<1> QED BY <1>1, DashboardTypes, PTL DEF Spec, NeverBackwards
-----------------------------------------------------------------------------
(* The page shows history *)

\* Everything that may reach the page is committed: what the database holds,
\* the rows of answers under way, and the messages in the sockets.
HistoryInv ==
  /\ PageShowsHistory
  /\ \A e \in Endpoint : \A r \in db[e].results : Happened(e, r)
  /\ \A f \in Fetch : \A e \in Endpoint :
       fetch[f].body[e].checked_at > 0 => Happened(e, fetch[f].body[e])
  /\ \A s \in Socket : \A i \in 1..Len(sock[s].pipe) :
       Happened(sock[s].pipe[i].ep, sock[s].pipe[i])

\* No check takes its commit back.
LEMMA HistoryStays ==
  ASSUME TypeOK, [Next]_vars, NEW e \in Endpoint, NEW k \in Check,
         check[e][k].stage \in {"committed", "done"}
  PROVE  check'[e][k].stage \in {"committed", "done"} /\ check'[e][k].up = check[e][k].up
<1>1. CASE UNCHANGED check
  BY <1>1
<1>2. ASSUME NEW d \in Endpoint, NEW j \in Check, NEW up \in BOOLEAN, Probe(d, j, up)
      PROVE  check'[e][k] = check[e][k]
  BY <1>2 DEF Probe, TypeOK
<1>3. ASSUME NEW d \in Endpoint, NEW j \in Check, Commit(d, j)
      PROVE  check'[e][k] = check[e][k]
  BY <1>3 DEF Commit, Fail, TypeOK
<1>4. ASSUME NEW d \in Endpoint, NEW j \in Check, Publish(d, j)
      PROVE  check'[e][k].stage \in {"committed", "done"} /\ check'[e][k].up = check[e][k].up
  BY <1>4 DEF Publish, TypeOK, CheckState
<1>5. CASE ServerStep \/ EnvironmentStep \/ PageStep
  BY <1>1, <1>5 DEF ServerStep, Accept, Register, Disconnect, Answer, EnvironmentStep,
       addEndpoint, update_endpoint, delete_endpoint, GoOverdue, FetchFails, SubscriberDies,
       TokenExpires, PageStep, loadSnapshot, FetchDenied, onopen, applyUpdate, onclose, Poll,
       RetryTimer, visibilitychange, signOut, serverVars
<1> QED BY <1>1, <1>2, <1>3, <1>4, <1>5 DEF Next, Left, vars, CheckStep

\* A step of the database is a commit, or removes results, or leaves them alone.
LEMMA ResultsChange ==
  ASSUME TypeOK, [Next]_vars, NEW e \in Endpoint, NEW r \in db'[e].results
  PROVE  r \in db[e].results
         \/ \E k \in Check : /\ check'[e][k].stage = "committed"
                             /\ r = [checked_at |-> k, up |-> check'[e][k].up]
<1>1. CASE UNCHANGED db
  BY <1>1
<1>2. CASE CheckStep
  <2> PICK d \in Endpoint, k \in Check :
        (\E up \in BOOLEAN : Probe(d, k, up)) \/ Commit(d, k) \/ Publish(d, k)
    BY <1>2 DEF CheckStep
  <2>1. CASE (\E up \in BOOLEAN : Probe(d, k, up)) \/ Publish(d, k)
    BY <2>1 DEF Probe, Publish
  <2>2. CASE Commit(d, k) /\ db' # db
    <3>1. PICK overdue \in {FALSE, db[d].overdue} :
            db' = [db EXCEPT ![d].results = @ \cup {[checked_at |-> k, up |-> check[d][k].up]},
                             ![d].overdue = overdue]
      BY <2>2 DEF Commit, Fail
    <3>2. check' = [check EXCEPT ![d][k].stage = "committed"]
      BY <2>2 DEF Commit, Fail
    <3>3. check[d][k] \in CheckState /\ db[d] \in Table
      BY DEF TypeOK
    <3>4. check'[d][k].stage = "committed" /\ check'[d][k].up = check[d][k].up
      BY <3>2, <3>3 DEF TypeOK, CheckState
    <3>5. db'[d].results = db[d].results \cup {[checked_at |-> k, up |-> check[d][k].up]}
      BY <3>1, <3>3 DEF TypeOK, Table
    <3>6. CASE e = d
      BY <3>4, <3>5, <3>6
    <3>7. CASE e # d
      BY <3>1, <3>7 DEF TypeOK
    <3> QED BY <3>6, <3>7
  <2> QED BY <1>1, <2>1, <2>2
<1>3. ASSUME NEW d \in Endpoint,
             addEndpoint(d) \/ update_endpoint(d) \/ delete_endpoint(d) \/ GoOverdue(d)
      PROVE  r \in db[e].results
  <2>1. db[d] \in Table
    BY DEF TypeOK
  <2>2. db'[d].results = db[d].results \/ db'[d].results = {}
    BY <1>3, <2>1 DEF addEndpoint, update_endpoint, delete_endpoint, GoOverdue, TypeOK, Table
  <2>3. e # d => db'[e] = db[e]
    BY <1>3 DEF addEndpoint, update_endpoint, delete_endpoint, GoOverdue, TypeOK
  <2> QED BY <2>2, <2>3
<1>4. CASE ServerStep \/ PageStep
  BY <1>1, <1>4 DEF ServerStep, Accept, Register, Disconnect, Answer, PageStep, loadSnapshot,
       FetchDenied, onopen, applyUpdate, onclose, Poll, RetryTimer, visibilitychange, signOut,
       serverVars
<1>5. CASE EnvironmentStep
  BY <1>1, <1>3, <1>5 DEF EnvironmentStep, FetchFails, SubscriberDies, TokenExpires, serverVars
<1> QED BY <1>1, <1>2, <1>4, <1>5 DEF Next, Left, vars

\* The body of a request is empty, as before, or what the database holds.
LEMMA BodyChange ==
  ASSUME TypeOK, [Next]_vars, NEW f \in Fetch
  PROVE  \/ fetch'[f].body = fetch[f].body
         \/ fetch'[f].body = NoRows
         \/ fetch'[f].body = get_endpoints_with_status /\ UNCHANGED check
<1>1. CASE UNCHANGED fetch
  BY <1>1
<1>2. CASE SendFetch
  BY <1>2, SendFetchFacts DEF Sent, NoFetch
<1>3. CASE Leave
  BY <1>3, LeaveFacts
<1>4. ASSUME NEW g \in Fetch, loadSnapshot(g) \/ FetchFails(g)
      PROVE  fetch'[f].body = fetch[f].body \/ fetch'[f].body = NoRows
  BY <1>4 DEF loadSnapshot, FetchFails, TypeOK, NoFetch
<1>5. ASSUME NEW g \in Fetch, Answer(g)
      PROVE  \/ fetch'[f].body = fetch[f].body
             \/ fetch'[f].body = get_endpoints_with_status /\ UNCHANGED check
  <2>1. fetch[g] \in FetchState
    BY DEF TypeOK
  <2>2. fetch' = [fetch EXCEPT ![g].stage = "answered", ![g].body = get_endpoints_with_status]
        /\ UNCHANGED check
    BY <1>5 DEF Answer, serverVars
  <2>3. fetch'[g].body = get_endpoints_with_status
    BY <2>1, <2>2 DEF TypeOK, FetchState
  <2>4. f # g => fetch'[f] = fetch[f]
    BY <2>2 DEF TypeOK
  <2> QED BY <2>2, <2>3, <2>4
<1>6. CASE CheckStep
  BY <1>1, <1>6 DEF CheckStep, Probe, Commit, Publish
<1>7. CASE ServerStep
  BY <1>1, <1>5, <1>7 DEF ServerStep, Accept, Register, Disconnect
<1>8. CASE PageStep
  BY <1>1, <1>2, <1>3, <1>4, <1>8 DEF PageStep, FetchDenied, onopen, applyUpdate, onclose,
       Poll, RetryTimer, visibilitychange, signOut
<1>9. CASE EnvironmentStep
  BY <1>1, <1>2, <1>4, <1>9 DEF EnvironmentStep, addEndpoint, update_endpoint, delete_endpoint,
       GoOverdue, SubscriberDies, TokenExpires
<1> QED BY <1>1, <1>6, <1>7, <1>8, <1>9 DEF Next, Left, vars

\* A message enters a pipe when it is published, after the commit.
LEMMA PipeChange ==
  ASSUME TypeOK, [Next]_vars, NEW s \in Socket
  PROVE  \/ sock'[s].pipe = sock[s].pipe
         \/ sock'[s].pipe = << >>
         \/ sock[s].pipe # << >> /\ sock'[s].pipe = Tail(sock[s].pipe)
         \/ \E e \in Endpoint, k \in Check :
              /\ check[e][k].stage = "committed"
              /\ sock'[s].pipe = Append(sock[s].pipe, MessageOf(e, k))
<1> DEFINE Same == sock'[s].pipe = sock[s].pipe \/ sock'[s].pipe = << >>
<1>0. sock[s] \in SocketState
  BY DEF TypeOK
<1>1. CASE UNCHANGED sock
  BY <1>1
<1>2. CASE CheckStep
  <2> PICK e \in Endpoint, k \in Check :
        (\E up \in BOOLEAN : Probe(e, k, up)) \/ Commit(e, k) \/ Publish(e, k)
    BY <1>2 DEF CheckStep
  <2>1. CASE (\E up \in BOOLEAN : Probe(e, k, up)) \/ Commit(e, k)
    BY <1>1, <2>1 DEF Probe, Commit, Fail
  <2>2. CASE Publish(e, k) /\ handle_message(MessageOf(e, k))
    <3>1. MessageOf(e, k) \in Message
      BY DEF MessageOf, Message, TypeOK, CheckState
    <3>2. check[e][k].stage = "committed"
      BY <2>2 DEF Publish
    <3> QED BY <2>2, <3>1, <3>2, MessageFacts
  <2> QED BY <1>1, <2>1, <2>2 DEF Publish
<1>3. ASSUME NEW t \in Socket, Accept(t) \/ Register(t) \/ Disconnect(t) \/ onopen(t)
      PROVE  Same
  <2>1. CASE t # s
    BY <1>3, <2>1 DEF Accept, Register, Disconnect, onopen, TypeOK
  <2>2. CASE t = s
    BY <1>0, <1>3, <2>2 DEF Accept, Register, Disconnect, onopen, NoSocketState, TypeOK, SocketState
  <2> QED BY <2>1, <2>2
<1>4. CASE Leave
  BY <1>4, LeaveFacts
<1>5. ASSUME NEW t \in Socket, onclose(t)
      PROVE  Same
  BY <1>5, ClosedFacts DEF onclose, TypeOK
<1>6. ASSUME NEW t \in Socket, applyUpdate(t)
      PROVE  Same \/ (sock[s].pipe # << >> /\ sock'[s].pipe = Tail(sock[s].pipe))
  <2>1. sock[t].pipe # << >> /\ sock' = [sock EXCEPT ![t].pipe = Tail(@)]
    BY <1>6 DEF applyUpdate
  <2>2. CASE t # s
    BY <2>1, <2>2 DEF TypeOK
  <2>3. CASE t = s
    BY <1>0, <2>1, <2>3 DEF TypeOK, SocketState
  <2> QED BY <2>2, <2>3
<1>7. ASSUME NEW f \in Fetch, loadSnapshot(f)
      PROVE  Same
  <2> DEFINE rendered == render(fetch[f].body)
             begun == [page EXCEPT !.rows = rendered, !.polling = TRUE]
  <2>1. begun \in Page
    <3>1. rendered \in Rows
      BY RenderType DEF TypeOK, FetchState
    <3> QED BY <3>1 DEF TypeOK, Page
  <2>2. OpenSocket(begun) \/ UNCHANGED sock
    BY <1>7 DEF loadSnapshot
  <2> QED BY <2>1, <2>2, OpenSocketFacts
<1>8. CASE RetryTimer \/ visibilitychange
  <2> DEFINE pg == [page EXCEPT !.retryTimer = FALSE]
  <2>1. pg \in Page /\ OpenSocket(pg)
    BY <1>8 DEF RetryTimer, visibilitychange, TypeOK, Page
  <2> QED BY <2>1, OpenSocketFacts
<1>9. CASE ServerStep
  BY <1>1, <1>3, <1>9 DEF ServerStep, Answer
<1>10. CASE PageStep
  BY <1>1, <1>3, <1>4, <1>5, <1>6, <1>7, <1>8, <1>10 DEF PageStep, FetchDenied, Poll, signOut
<1>11. CASE EnvironmentStep
  BY <1>1, <1>11 DEF EnvironmentStep, addEndpoint, update_endpoint, delete_endpoint,
       GoOverdue, FetchFails, SubscriberDies, TokenExpires
<1> QED BY <1>1, <1>2, <1>9, <1>10, <1>11 DEF Next, Left, vars

\* What the API answers has happened.
LEMMA SnapshotHappened ==
  ASSUME TypeOK, NEW e \in Endpoint, \A r \in db[e].results : Happened(e, r),
         get_endpoints_with_status[e].checked_at > 0
  PROVE  Happened(e, get_endpoints_with_status[e])
<1> DEFINE row == get_endpoints_with_status[e]
<1>1. db[e].life = "live" /\ db[e].results # {}
  BY DEF get_endpoints_with_status, NoRow
<1>2. row.checked_at = Latest(e).checked_at /\ row.up = Latest(e).up
  BY <1>1 DEF get_endpoints_with_status
<1>3. Happened(e, Latest(e))
  BY <1>1, LatestIsResult
<1> QED BY <1>2, <1>3 DEF Happened

\* Rows under way and on the page are numbered by checks.
LEMMA RowNumbers ==
  ASSUME TypeOK, NEW e \in Endpoint
  PROVE  /\ page.rows[e].checked_at > 0 => page.rows[e].checked_at \in Check
         /\ \A f \in Fetch : fetch[f].body[e].checked_at > 0 => fetch[f].body[e].checked_at \in Check
<1>1. \A row \in Row \cup {NoRow} : row.checked_at > 0 => row.checked_at \in Check
  BY MaxCheckAssumption DEF Row, NoRow, Check
<1>2. page.rows[e] \in Row \cup {NoRow}
  BY DEF TypeOK, Page, Rows
<1>3. \A f \in Fetch : fetch[f].body[e] \in Row \cup {NoRow}
  BY DEF TypeOK, FetchState, Rows
<1> QED BY <1>1, <1>2, <1>3

\* A step keeps the history of what the database holds.
LEMMA ResultsHistory ==
  ASSUME TypeOK, TypeOK', HistoryInv, [Next]_vars, NEW e \in Endpoint, NEW r \in db'[e].results
  PROVE  Happened(e, r)'
<1>1. CASE r \in db[e].results
  <2>1. r.checked_at \in Check
    BY <1>1 DEF TypeOK, Table, Result
  <2>2. Happened(e, r)
    BY <1>1 DEF HistoryInv
  <2> QED BY <2>1, <2>2, HistoryStays DEF Happened
<1>2. ASSUME NEW k \in Check, check'[e][k].stage = "committed",
             r = [checked_at |-> k, up |-> check'[e][k].up]
      PROVE  Happened(e, r)'
  BY <1>2 DEF Happened
<1> QED BY <1>1, <1>2, ResultsChange

\* A step keeps the history of the answers.
LEMMA BodyHistory ==
  ASSUME TypeOK, HistoryInv, [Next]_vars, NEW e \in Endpoint, NEW f \in Fetch,
         fetch'[f].body[e].checked_at > 0
  PROVE  Happened(e, fetch[f].body[e])'
<1>1. CASE fetch'[f].body = fetch[f].body
  <2>1. fetch[f].body[e].checked_at \in Check
    BY <1>1, RowNumbers
  <2>2. Happened(e, fetch[f].body[e])
    BY <1>1 DEF HistoryInv
  <2> QED BY <1>1, <2>1, <2>2, HistoryStays DEF Happened
<1>2. CASE fetch'[f].body = NoRows
  BY <1>2 DEF NoRows, NoRow
<1>3. CASE fetch'[f].body = get_endpoints_with_status /\ UNCHANGED check
  <2>1. Happened(e, get_endpoints_with_status[e])
    BY <1>3, SnapshotHappened DEF HistoryInv
  <2> QED BY <1>3, <2>1 DEF Happened
<1> QED BY <1>1, <1>2, <1>3, BodyChange

\* A step keeps the history of the messages.
LEMMA PipeHistory ==
  ASSUME TypeOK, HistoryInv, [Next]_vars, NEW s \in Socket, NEW i \in 1..Len(sock'[s].pipe)
  PROVE  Happened(sock[s].pipe[i].ep, sock[s].pipe[i])'
<1> DEFINE pipe == sock[s].pipe
<1>1. pipe \in Seq(Message)
  BY DEF TypeOK, SocketState
<1>2. \A j \in 1..Len(pipe) : pipe[j].ep \in Endpoint /\ pipe[j].checked_at \in Check
  <2>1. \A j \in 1..Len(pipe) : pipe[j] \in Message
    BY <1>1
  <2> QED BY <2>1 DEF Message
<1>3. \A j \in 1..Len(pipe) : Happened(pipe[j].ep, pipe[j])
  BY DEF HistoryInv
<1>4. ASSUME NEW j \in 1..Len(pipe), sock'[s].pipe[i] = pipe[j]
      PROVE  Happened(sock[s].pipe[i].ep, sock[s].pipe[i])'
  <2>1. Happened(pipe[j].ep, pipe[j])
    BY <1>3
  <2>2. check[pipe[j].ep][pipe[j].checked_at].stage \in {"committed", "done"}
        /\ check[pipe[j].ep][pipe[j].checked_at].up = pipe[j].up
    BY <2>1 DEF Happened
  <2>3. pipe[j].ep \in Endpoint /\ pipe[j].checked_at \in Check
    BY <1>2
  <2>4. check'[pipe[j].ep][pipe[j].checked_at].stage \in {"committed", "done"}
        /\ check'[pipe[j].ep][pipe[j].checked_at].up = pipe[j].up
    BY <2>2, <2>3, HistoryStays
  <2> QED BY <1>4, <2>4 DEF Happened
<1>5. CASE sock'[s].pipe = pipe
  BY <1>4, <1>5
<1>6. CASE sock'[s].pipe = << >>
  BY <1>6
<1>7. CASE pipe # << >> /\ sock'[s].pipe = Tail(pipe)
  <2>1. Len(pipe) \in Nat /\ Len(Tail(pipe)) = Len(pipe) - 1 /\ i \in 1..Len(Tail(pipe))
    BY <1>1, <1>7
  <2>2. i + 1 \in 1..Len(pipe) /\ Tail(pipe)[i] = pipe[i + 1]
    BY <1>1, <1>7, <2>1
  <2> QED BY <1>4, <1>7, <2>2
<1>8. ASSUME NEW e \in Endpoint, NEW k \in Check, check[e][k].stage = "committed",
             sock'[s].pipe = Append(pipe, MessageOf(e, k))
      PROVE  Happened(sock[s].pipe[i].ep, sock[s].pipe[i])'
  <2>1. MessageOf(e, k) \in Message
    BY DEF MessageOf, Message, TypeOK, CheckState
  <2>2. CASE i \in 1..Len(pipe)
    <3>1. sock'[s].pipe[i] = pipe[i]
      BY <1>1, <1>8, <2>1, <2>2
    <3> QED BY <1>4, <2>2, <3>1
  <2>3. CASE i = Len(pipe) + 1
    <3>1. sock'[s].pipe[i] = MessageOf(e, k)
      BY <1>1, <1>8, <2>1, <2>3
    <3>2. check'[e][k].stage \in {"committed", "done"} /\ check'[e][k].up = check[e][k].up
      BY <1>8, HistoryStays
    <3> QED BY <3>1, <3>2 DEF Happened, MessageOf
  <2>4. i \in 1..Len(pipe) \/ i = Len(pipe) + 1
    BY <1>1, <1>8, <2>1
  <2> QED BY <2>2, <2>3, <2>4
<1> QED BY <1>5, <1>6, <1>7, <1>8, PipeChange

\* A step keeps the history of the page.
LEMMA PageHistory ==
  ASSUME TypeOK, HistoryInv, [Next]_vars, NEW e \in Endpoint, page'.rows[e].checked_at > 0
  PROVE  Happened(e, page.rows[e])'
<1>1. ASSUME NEW c \in Check, NEW up, page'.rows[e].checked_at = c, page'.rows[e].up = up,
             check[e][c].stage \in {"committed", "done"}, check[e][c].up = up
      PROVE  Happened(e, page.rows[e])'
  BY <1>1, HistoryStays DEF Happened
<1>2. ASSUME page'.rows[e].checked_at = page.rows[e].checked_at,
             page'.rows[e].up = page.rows[e].up
      PROVE  Happened(e, page.rows[e])'
  <2>1. page.rows[e].checked_at \in Check /\ Happened(e, page.rows[e])
    BY <1>2, RowNumbers DEF HistoryInv, PageShowsHistory
  <2> QED BY <1>1, <1>2, <2>1 DEF Happened
<1>3. CASE page'.rows = NoRows
  BY <1>3 DEF NoRows, NoRow
<1>4. ASSUME NEW f \in Fetch, page'.rows = render(fetch[f].body)
      PROVE  Happened(e, page.rows[e])'
  <2> DEFINE new == fetch[f].body[e]
  <2>1. page'.rows[e] = RenderRow(page.rows[e], new)
    BY <1>4 DEF render
  <2>2. page.rows[e] \in Row \cup {NoRow}
    BY DEF TypeOK, Page, Rows
  <2>3. CASE page'.rows[e] = new
    <3>1. new.checked_at \in Check /\ Happened(e, new)
      BY <2>3, RowNumbers DEF HistoryInv
    <3> QED BY <1>1, <2>3, <3>1 DEF Happened
  <2>4. CASE page'.rows[e] = [page.rows[e] EXCEPT !.is_overdue = new.is_overdue]
    <3>1. page'.rows[e].checked_at = page.rows[e].checked_at /\ page'.rows[e].up = page.rows[e].up
      BY <2>2, <2>4 DEF Row, NoRow
    <3> QED BY <1>2, <3>1
  <2> QED BY <2>1, <2>3, <2>4 DEF RenderRow
<1>5. ASSUME NEW s \in Socket, sock[s].pipe # << >>,
             page'.rows = [page.rows EXCEPT ![Head(sock[s].pipe).ep] =
               [checked_at |-> Head(sock[s].pipe).checked_at, up |-> Head(sock[s].pipe).up,
                is_overdue |-> FALSE]]
      PROVE  Happened(e, page.rows[e])'
  <2> DEFINE msg == Head(sock[s].pipe)
  <2>1. sock[s].pipe \in Seq(Message) /\ msg \in Message
    BY <1>5, HeadOfPipe
  <2>2. msg = sock[s].pipe[1] /\ 1 \in 1..Len(sock[s].pipe)
    BY <1>5, <2>1
  <2>3. Happened(msg.ep, msg)
    BY <2>2 DEF HistoryInv
  <2>4. page.rows \in Rows
    BY DEF TypeOK, Page
  <2>5. CASE msg.ep = e
    <3>1. page'.rows[e].checked_at = msg.checked_at /\ page'.rows[e].up = msg.up
      BY <1>5, <2>4, <2>5 DEF Rows
    <3>2. msg.checked_at \in Check
      BY <2>1 DEF Message
    <3> QED BY <1>1, <2>3, <2>5, <3>1, <3>2 DEF Happened
  <2>6. CASE msg.ep # e
    <3>1. page'.rows[e] = page.rows[e]
      BY <1>5, <2>4, <2>6 DEF Rows
    <3> QED BY <1>2, <3>1
  <2> QED BY <2>5, <2>6
<1> QED BY <1>2, <1>3, <1>4, <1>5, RowsChange

\* Nothing has happened in the first state, and every step keeps the history.
LEMMA HistoryInvariant ==
  /\ Init => HistoryInv
  /\ TypeOK /\ TypeOK' /\ HistoryInv /\ [Next]_vars => HistoryInv'
<1>1. Init => HistoryInv
  <2> SUFFICES ASSUME Init PROVE HistoryInv
    OBVIOUS
  <2>1. PageShowsHistory
    BY DEF Init, Gone, NoRows, NoRow, PageShowsHistory
  <2>2. \A f \in Fetch : fetch[f].body = NoRows
    BY DEF Init, Sent, NoFetch
  <2>3. \A s \in Socket : Len(sock[s].pipe) = 0
    BY DEF Init, NoSocketState
  <2>4. \A e \in Endpoint : db[e].results = {}
    BY DEF Init
  <2> QED BY <2>1, <2>2, <2>3, <2>4 DEF HistoryInv, NoRows, NoRow
<1>2. ASSUME TypeOK, TypeOK', HistoryInv, [Next]_vars
      PROVE  HistoryInv'
  <2>1. PageShowsHistory'
    BY <1>2, PageHistory DEF PageShowsHistory
  <2>2. \A e \in Endpoint : \A r \in db'[e].results : Happened(e, r)'
    BY <1>2, ResultsHistory
  <2>3. \A f \in Fetch : \A e \in Endpoint :
          fetch'[f].body[e].checked_at > 0 => Happened(e, fetch[f].body[e])'
    BY <1>2, BodyHistory
  <2>4. \A s \in Socket : \A i \in 1..Len(sock'[s].pipe) :
          Happened(sock[s].pipe[i].ep, sock[s].pipe[i])'
    BY <1>2, PipeHistory
  <2> QED BY <2>1, <2>2, <2>3, <2>4 DEF HistoryInv
<1> QED BY <1>1, <1>2

\* Every result the page shows was committed by a check, for any number of
\* endpoints, checks, sockets and requests and under every fault.
THEOREM PageShowsOnlyHistory == Spec => []PageShowsHistory
<1>1. HistoryInv => PageShowsHistory
  BY DEF HistoryInv
<1> QED BY <1>1, DashboardTypes, HistoryInvariant, PTL DEF Spec
=============================================================================
