------------------------------ MODULE ApiRequests ------------------------------
(***************************************************************************)
(* POST /register, POST /token, POST and DELETE /endpoints: requests that  *)
(* the API handles at once on its threads, over the accounts, the tokens   *)
(* and the endpoints of the users, behind the limits of RateLimit. What    *)
(* becomes of an endpoint afterwards is EndpointSchedule's business.       *)
(***************************************************************************)
EXTENDS RateLimit

CONSTANTS
  Ip,           \* addresses that client_ip sees
  Email,        \* emails as typed
  Lowered,      \* what strip().lower() makes of them
  Password,
  Form,         \* emails with passwords that are typed into the two forms
  Seeded,       \* accounts that seed_demo may have made
  TokenLife,    \* ACCESS_TOKEN_EXPIRE_MINUTES
  MaxEndpoints, \* MAX_ENDPOINTS_PER_USER
  Threads       \* threads that run handlers

\* The routes in use and what may go wrong behind them.
ApiEvent ==
  { "register", "token", "endpoints", "delete",
    "db_error",    \* a handler's transaction fails, or its commit's answer is lost
    "api_killed" } \* the API dies and is started again

\* An account; an email has at most one (unique index).
User == [email: Email, password: Password]

ASSUME NamesAssumption ==
  /\ LimitName = {"register_ip", "login_ip", "login_email"}
  /\ Ip \cup {Lowered[e] : e \in Email} \subseteq Identity
ASSUME FormAssumption == Form \subseteq User /\ User # {}
ASSUME LoweredAssumption ==
  Lowered \in [Email -> Email] /\ \A e \in Email : Lowered[Lowered[e]] = Lowered[e]
ASSUME SeededAssumption ==
  /\ Seeded \subseteq User
  /\ \A u, v \in Seeded : u.email = v.email => u = v
  /\ \A u \in Seeded : Lowered[u.email] = u.email
ASSUME ApiBounds == TokenLife \in Nat /\ MaxEndpoints \in Nat \ {0} /\ Threads \in Nat \ {0}
ASSUME ScenariosAssumption == Scenarios \subseteq SUBSET (ApiEvent \cup RedisFaultKind)

VARIABLES
  ALLOW_REGISTRATION, \* as the process read it when it started
  request,            \* every request
  users,              \* the table of users
  tokens,             \* the tokens that were issued
  endpoints           \* the table of endpoints

apiVars == <<ALLOW_REGISTRATION, request, users, tokens, endpoints>>
allVars == <<now, rateVars, apiVars>>

Token == [user: Email, exp: Nat]

\* A row, known by the request that inserted it.
Endpoint == [by: Request, user: Email]

\* limit, limit_ip, limit_email: in enforce; lookup: past the SELECT, hashing;
\* commit: the row is inserted, not committed; verify: past the SELECT, comparing
\* the password; insert: the quota is checked; refresh: the endpoint is committed;
\* delete: the endpoint is found.
Handling == {"limit", "lookup", "commit", "limit_ip", "limit_email", "verify",
             "count", "insert", "refresh", "delete"}

\* user, endpoint: the row that the SELECT of a login or of a deletion found, if any.
\* registered: history, whether the account that a login asks for was registered, and
\* its registration answered, when the login came in.
RequestState == [stage: {"new", "over"} \cup Handling, route: {"register", "token", "endpoints"},
                 form: User, token: Token, user: SUBSET User, endpoint: SUBSET Endpoint,
                 registered: BOOLEAN,
                 answer: {0, 200, 204, 400, 401, 403, 404, 429, 500}]

New == [stage |-> "new", route |-> "endpoints", form |-> CHOOSE f \in User : TRUE,
        token |-> [user |-> CHOOSE e \in Email : TRUE, exp |-> 0], user |-> {}, endpoint |-> {},
        registered |-> FALSE, answer |-> 0]

TypeOK ==
  /\ RateTypeOK
  /\ ALLOW_REGISTRATION \in BOOLEAN
  /\ request \in [Request -> RequestState]
  /\ users \in SUBSET User
  /\ tokens \in SUBSET Token
  /\ endpoints \in SUBSET Endpoint

\* Seeded accounts may be there, and somebody may have logged in to them.
Init ==
  /\ RateInit
  /\ ALLOW_REGISTRATION \in BOOLEAN
  /\ request = [r \in Request |-> New]
  /\ users \in {{}, Seeded}
  /\ tokens \in SUBSET {[user |-> u.email, exp |-> TokenLife] : u \in users}
  /\ endpoints = {}
-----------------------------------------------------------------------------
(* Requests in general *)

InHandler == {r \in Request : request[r].stage \in Handling}

\* A thread takes up a request that has come in.
Arrives(r, route) ==
  /\ route \in scenario
  /\ request[r].stage = "new"
  /\ Cardinality(InHandler) < Threads

GoesTo(r, stage) == request' = [request EXCEPT ![r].stage = stage]

\* Of a request that is over, the answer is kept.
Ends(r, answer) ==
  request' = [request EXCEPT ![r] = [New EXCEPT !.stage = "over", !.answer = answer]]

\* enforce returned.
Admitted(r) == call[r].stage \in {"passed", "open"}

\* enforce raised 429, which no handler catches.
Refused(r) ==
  /\ request[r].stage \in {"limit", "limit_ip", "limit_email"}
  /\ call[r].stage = "refused"
  /\ Ends(r, 429)
  /\ Return({r})
  /\ UNCHANGED <<ALLOW_REGISTRATION, users, tokens, endpoints>>
-----------------------------------------------------------------------------
(* POST /register *)

\* email.strip().lower()
Address(r) == Lowered[request[r].form.email]

Account(r) == [email |-> Address(r), password |-> request[r].form.password]

register(r, ip, form) ==
  /\ Arrives(r, "register")
  /\ IF ALLOW_REGISTRATION
     THEN /\ request' = [request EXCEPT ![r] = [New EXCEPT !.stage = "limit", !.route = "register",
                                                           !.form = form]]
          /\ enforce(r, [name |-> "register_ip", identity |-> ip])
     ELSE Ends(r, 403) /\ UNCHANGED <<now, rateVars>>
  /\ UNCHANGED <<ALLOW_REGISTRATION, users, tokens, endpoints>>

\* SELECT: is the email registered? If not, the password is hashed.
LookUp(r) ==
  /\ request[r].stage = "limit"
  /\ Admitted(r)
  /\ IF \E u \in users : u.email = Address(r) THEN Ends(r, 400) ELSE GoesTo(r, "lookup")
  /\ Return({r})
  /\ UNCHANGED <<ALLOW_REGISTRATION, users, tokens, endpoints>>

\* Mutant: no unique index on the email.
InsertUserUnchecked(r) ==
  /\ request[r].stage = "lookup"
  /\ GoesTo(r, "commit")
  /\ UNCHANGED <<now, rateVars, ALLOW_REGISTRATION, users, tokens, endpoints>>

\* INSERT waits for another one of the same email that is not committed yet,
\* and fails if the email is in the table by now.
InsertUser(r) ==
  /\ request[r].stage = "lookup"
  /\ \A q \in Request : request[q].stage = "commit" => Address(q) # Address(r)
  /\ IF \E u \in users : u.email = Address(r) THEN Ends(r, 400) ELSE GoesTo(r, "commit")
  /\ UNCHANGED <<now, rateVars, ALLOW_REGISTRATION, users, tokens, endpoints>>

CommitUser(r) ==
  /\ request[r].stage = "commit"
  /\ users' = users \cup {Account(r)}
  /\ request' = [request EXCEPT ![r].stage = "over", ![r].answer = 200]
  /\ UNCHANGED <<now, rateVars, ALLOW_REGISTRATION, tokens, endpoints>>
-----------------------------------------------------------------------------
(* POST /token *)

\* The account that the form asks for was registered, and somebody was told so.
Registered(form) ==
  \E q \in Request :
    /\ request[q].route = "register" /\ request[q].answer = 200
    /\ Account(q) = [email |-> Lowered[form.email], password |-> form.password]

login(r, ip, form) ==
  /\ Arrives(r, "token")
  /\ request' = [request EXCEPT ![r] = [New EXCEPT !.stage = "limit_ip", !.route = "token",
                                                    !.form = form,
                                                    !.registered = Registered(form)]]
  /\ enforce(r, [name |-> "login_ip", identity |-> ip])
  /\ UNCHANGED <<ALLOW_REGISTRATION, users, tokens, endpoints>>

\* The second limit, by email.
LimitEmail(r) ==
  /\ request[r].stage = "limit_ip"
  /\ Admitted(r)
  /\ GoesTo(r, "limit_email")
  /\ enforce(r, [name |-> "login_email", identity |-> Address(r)])
  /\ UNCHANGED <<ALLOW_REGISTRATION, users, tokens, endpoints>>

\* Mutant: the address is looked up as it was typed.
get_user_typed(r) == {u \in users : u.email = request[r].form.email}

\* The user with the address of the login.
get_user(r) == {u \in users : u.email = Address(r)}

\* The SELECT of authenticate_user. What follows, a hash that is meant to be slow,
\* goes by what it found: a user who registers meanwhile is not seen.
FindUser(r) ==
  /\ request[r].stage = "limit_email"
  /\ Admitted(r)
  /\ request' = [request EXCEPT ![r].stage = "verify", ![r].user = get_user(r)]
  /\ Return({r})
  /\ UNCHANGED <<ALLOW_REGISTRATION, users, tokens, endpoints>>

\* verify_password; without a user it is the dummy hash that does not match.
verify_password(r) == \E u \in request[r].user : u.password = request[r].form.password

create_access_token(user) == [user |-> user, exp |-> now + TokenLife]

LogIn(r) ==
  /\ request[r].stage = "verify"
  /\ IF verify_password(r)
     THEN Ends(r, 200) /\ tokens' = tokens \cup {create_access_token(Address(r))}
     ELSE Ends(r, 401) /\ UNCHANGED tokens
  /\ UNCHANGED <<now, rateVars, ALLOW_REGISTRATION, users, endpoints>>
-----------------------------------------------------------------------------
(* POST /endpoints and DELETE /endpoints/{id} *)

\* get_current_user: the token has not expired and its account is there.
get_current_user(token) == now < token.exp /\ \E u \in users : u.email = token.user

OwnedBy(user) == {e \in endpoints : e.user = user}

set_endpoint(r, token) ==
  /\ Arrives(r, "endpoints")
  /\ IF get_current_user(token)
     THEN request' = [request EXCEPT ![r] = [New EXCEPT !.stage = "count", !.token = token]]
     ELSE Ends(r, 401)
  /\ UNCHANGED <<now, rateVars, ALLOW_REGISTRATION, users, tokens, endpoints>>

\* Mutant: one more than the limit.
QuotaReachedLate(user) == Cardinality(OwnedBy(user)) > MaxEndpoints

\* count >= MAX_ENDPOINTS_PER_USER
QuotaReached(user) == Cardinality(OwnedBy(user)) >= MaxEndpoints

\* SELECT count(*)
CountEndpoints(r) ==
  /\ request[r].stage = "count"
  /\ IF QuotaReached(request[r].token.user) THEN Ends(r, 400) ELSE GoesTo(r, "insert")
  /\ UNCHANGED <<now, rateVars, ALLOW_REGISTRATION, users, tokens, endpoints>>

\* INSERT and COMMIT, without another look at the count.
add_endpoint(r) ==
  /\ request[r].stage = "insert"
  /\ endpoints' = endpoints \cup {[by |-> r, user |-> request[r].token.user]}
  /\ GoesTo(r, "refresh")
  /\ UNCHANGED <<now, rateVars, ALLOW_REGISTRATION, users, tokens>>

\* session.refresh, which raises if the row was deleted meanwhile.
Refresh(r) ==
  /\ request[r].stage = "refresh"
  /\ Ends(r, IF \E e \in endpoints : e.by = r THEN 200 ELSE 500)
  /\ UNCHANGED <<now, rateVars, ALLOW_REGISTRATION, users, tokens, endpoints>>

\* SELECT: the endpoint that request `by` made, if it is the user's. (r made none.)
delete_endpoint(r, token, by) ==
  LET row == {e \in endpoints : e.by = by /\ e.user = token.user} IN
  /\ Arrives(r, "delete")
  /\ IF get_current_user(token)
     THEN IF row = {} THEN Ends(r, 404)
          ELSE request' = [request EXCEPT ![r] = [New EXCEPT !.stage = "delete", !.token = token,
                                                              !.endpoint = row]]
     ELSE Ends(r, 401)
  /\ UNCHANGED <<now, rateVars, ALLOW_REGISTRATION, users, tokens, endpoints>>

\* DELETE and COMMIT. If another request deleted the row meanwhile, SQLAlchemy warns
\* of it and goes on.
DeleteRow(r) ==
  /\ request[r].stage = "delete"
  /\ endpoints' = endpoints \ request[r].endpoint
  /\ Ends(r, 204)
  /\ UNCHANGED <<now, rateVars, ALLOW_REGISTRATION, users, tokens>>
-----------------------------------------------------------------------------
(* What goes wrong *)

\* The rows that the commits of these requests leave, and those that they take away.
NewUsers(R) == {Account(r) : r \in {q \in R : request[q].stage = "commit"}}
NewEndpoints(R) ==
  {[by |-> r, user |-> request[r].token.user] : r \in {q \in R : request[q].stage = "insert"}}
OldEndpoints(R) == UNION {request[r].endpoint : r \in {q \in R : request[q].stage = "delete"}}

\* PostgreSQL fails the handler, which answers 500: its commit is done or not.
DbError(r) ==
  /\ "db_error" \in scenario
  /\ \/ /\ request[r].stage \in {"lookup", "commit", "count", "insert", "refresh", "delete"}
        /\ UNCHANGED <<now, rateVars>>
     \/ /\ request[r].stage \in {"limit", "limit_email"}
        /\ Admitted(r)
        /\ Return({r})
  /\ Ends(r, 500)
  /\ \E done \in SUBSET {r} : /\ users' = users \cup NewUsers(done)
                              /\ endpoints' = (endpoints \cup NewEndpoints(done)) \ OldEndpoints(done)
  /\ UNCHANGED <<ALLOW_REGISTRATION, tokens>>

\* The process dies with all its requests, and reads its settings again.
ApiKilled ==
  /\ "api_killed" \in scenario
  /\ InHandler # {}
  /\ request' = [r \in Request |-> IF r \in InHandler THEN [New EXCEPT !.stage = "over"]
                                   ELSE request[r]]
  /\ \E done \in SUBSET InHandler : /\ users' = users \cup NewUsers(done)
                                    /\ endpoints' = (endpoints \cup NewEndpoints(done)) \ OldEndpoints(done)
  /\ Return(InHandler)
  /\ ALLOW_REGISTRATION' \in BOOLEAN
  /\ UNCHANGED tokens
-----------------------------------------------------------------------------
\* A request that is in enforce.
Enforcing(r) == request[r].stage \in {"limit", "limit_ip", "limit_email"} /\ RedisStep(r)

ArrivalStep(r) ==
  \/ \E ip \in Ip, form \in Form : register(r, ip, form) \/ login(r, ip, form)
  \/ \E token \in tokens :
       \/ set_endpoint(r, token)
       \/ \E by \in {r} \cup {e.by : e \in endpoints} : delete_endpoint(r, token, by)

HandlerStep(r) ==
  \/ Refused(r)
  \/ LookUp(r) \/ InsertUser(r) \/ CommitUser(r)
  \/ LimitEmail(r) \/ FindUser(r) \/ LogIn(r)
  \/ CountEndpoints(r) \/ add_endpoint(r) \/ Refresh(r)
  \/ DeleteRow(r)
  \/ DbError(r)

Next ==
  \/ \E r \in Request : \/ ArrivalStep(r)
                        \/ HandlerStep(r)
                        \/ Enforcing(r) /\ UNCHANGED apiVars
  \/ ApiKilled
  \/ (RedisRestarts \/ Tick) /\ UNCHANGED apiVars

Spec == Init /\ [][Next]_allVars
-----------------------------------------------------------------------------
(* Safety *)

\* Whoever is told that his account is made has it, with his password: of two
\* registrations of one email that overlap, in whatever spelling, one is accepted.
AccountMatchesAnswer ==
  \A r \in Request :
    (request[r].route = "register" /\ request[r].answer = 200)
      => {u \in users : u.email = Address(r)} = {Account(r)}

\* An account can be used as soon as its registration is answered: a login that comes
\* in after that, with the password it was registered with, is not turned away as
\* incorrect, whoever else tried to register the email, before or after, and however
\* it is spelled. (One that came in before may have looked for the user too early.)
AccountLogsIn ==
  [][\A r \in Request : request[r].registered => request'[r].answer # 401]_allVars

\* The quota is checked before the insert and not again: a user may get past it,
\* but by no more than the other requests that are in the handlers at once.
QuotaOvershoot ==
  \A e \in Email : Cardinality(OwnedBy(e)) <= MaxEndpoints - 1 + Threads
=============================================================================
