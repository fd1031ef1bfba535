------------------------------- MODULE RateLimit -------------------------------
(***************************************************************************)
(* The fixed-window limit that register and login put before their work:   *)
(* enforce() stamps a request with the window that its clock shows, counts *)
(* it in Redis under that window's key and refuses it above the limit. A   *)
(* request may be held up between the two, Redis may lose the answer, be   *)
(* away or come back with older counters. API and Redis run on one host:   *)
(* one clock, whole seconds.                                               *)
(***************************************************************************)
EXTENDS Integers, FiniteSets, FiniteSetsExt

CONSTANTS
  Request,        \* the requests, each handled once
  LimitName,      \* the limits there are
  Identity,       \* whom a limit may count: a client address, an email
  Limit,          \* the limit of each name
  WindowSeconds,  \* its window
  Tries,          \* how often redis-py sends a transaction: once and 3 retries
  Scenarios,      \* for every behaviour, what happens in it: faults (see RedisFaultKind)
                  \* and whatever the module that uses the limit adds
  MaxRestarts,    \* bound on Redis's restarts
  Horizon         \* bound on the clock

RedisFaultKind ==
  { "unreachable",  \* no connection, whatever redis-py tries
    "reply_lost",   \* the transaction is done, its answer is lost
    "restart" }     \* Redis dies and comes back with what it had saved

ASSUME LimitAssumption ==
  /\ Limit \in [LimitName -> Nat]
  /\ WindowSeconds \in [LimitName -> Nat \ {0}]
  /\ LimitName # {} /\ Identity # {}
ASSUME RequestAssumption == IsFiniteSet(Request)
ASSUME RedisBounds == Tries \in Nat \ {0} /\ MaxRestarts \in Nat /\ Horizon \in Nat

VARIABLES
  scenario,  \* the behaviour's scenario, chosen at the start
  now,       \* the clock
  counter,   \* the ratelimit keys in Redis
  call,      \* the request's call of enforce
  restarts,  \* Redis's restarts so far (history)
  tally,     \* INCRs for requests that read the clock at each time (history)
  passed,    \* the answers that let a request pass (history)
  promised   \* until when the latest Retry-After told to wait (history)

rateVars == <<scenario, counter, call, restarts, tally, passed, promised>>

Time == 0..Horizon
Key  == [name: LimitName, identity: Identity]

window(name, t) == t \div WindowSeconds[name]

\* The Redis key "ratelimit:name:identity:window".
Slot == [key: Key, window: Time]

\* called: the clock is read; passed or refused: the answer is there; open:
\* there was none.
Call == [stage: {"none", "called", "passed", "refused", "open"}, slot: Slot, read: Time,
         tries: 0..Tries]

NoCall == [stage |-> "none", slot |-> CHOOSE s \in Slot : TRUE, read |-> 0, tries |-> 0]

\* An INCR's count and time, after so many restarts.
Passed == [slot: Slot, count: Nat, at: Time, since: 0..MaxRestarts]

RateTypeOK ==
  /\ scenario \in Scenarios
  /\ now \in Time
  /\ DOMAIN counter \subseteq Slot
  /\ counter \in [DOMAIN counter -> [count: Nat, until: Nat]]
  /\ call \in [Request -> Call]
  /\ restarts \in 0..MaxRestarts
  /\ tally \in [Key -> [Time -> Nat]]
  /\ passed \in SUBSET Passed
  /\ promised \in [Key -> Nat]

RateInit ==
  /\ scenario \in Scenarios
  /\ now = 0
  /\ counter = << >>
  /\ call = [r \in Request |-> NoCall]
  /\ restarts = 0
  /\ tally = [k \in Key |-> [t \in Time |-> 0]]
  /\ passed = {}
  /\ promised = [k \in Key |-> 0]
-----------------------------------------------------------------------------
\* Mutant: the window is not part of the key.
StampForever(key) == [key |-> key, window |-> 0]

Stamp(key) == [key |-> key, window |-> window(key.name, now)]

\* Mutant: the limit is passed before it is noticed.
TooManyLate(key, count) == count > Limit[key.name] + 1

TooMany(key, count) == count > Limit[key.name]

\* What INCR answers: a key that is not there, or has expired, counts from 0.
NextCount(slot) ==
  IF slot \in DOMAIN counter /\ now < counter[slot].until THEN counter[slot].count + 1 ELSE 1

\* MULTI, INCR, EXPIRE, EXEC: the key lives on for a window's length from now.
Incr(r) ==
  LET slot == call[r].slot
      row == [count |-> NextCount(slot), until |-> now + WindowSeconds[slot.key.name]] IN
  /\ counter' = [s \in {slot} \cup DOMAIN counter |-> IF s = slot THEN row ELSE counter[s]]
  /\ tally' = [tally EXCEPT ![slot.key][call[r].read] = @ + 1]

\* retry_after seconds after the clock was read.
RetryAt(name, t) == t + (WindowSeconds[name] - (t % WindowSeconds[name]))

\* enforce(name, identity) is called and reads the clock.
enforce(r, key) ==
  /\ call' = [call EXCEPT ![r] = [stage |-> "called", slot |-> Stamp(key), read |-> now, tries |-> 0]]
  /\ UNCHANGED <<scenario, now, counter, restarts, tally, passed, promised>>

\* Mutant: redis-py tries without end.
SendsForever(r) == call[r].stage = "called"

\* redis-py sends the transaction, for the first time or again.
Sends(r) == call[r].stage = "called" /\ call[r].tries < Tries

\* The answer comes, and enforce returns.
Pass(r) ==
  LET slot == call[r].slot IN
  /\ Sends(r)
  /\ ~TooMany(slot.key, NextCount(slot))
  /\ Incr(r)
  /\ passed' = passed \cup {[slot |-> slot, count |-> NextCount(slot), at |-> now,
                             since |-> restarts]}
  /\ call' = [call EXCEPT ![r].stage = "passed"]
  /\ UNCHANGED <<scenario, now, restarts, promised>>

\* The answer comes, and enforce raises 429; Retry-After leads from the clock
\* that was read to the end of that window.
Refuse(r) ==
  LET slot == call[r].slot IN
  /\ Sends(r)
  /\ TooMany(slot.key, NextCount(slot))
  /\ Incr(r)
  /\ promised' = [promised EXCEPT ![slot.key] = RetryAt(slot.key.name, call[r].read)]
  /\ call' = [call EXCEPT ![r].stage = "refused"]
  /\ UNCHANGED <<scenario, now, restarts, passed>>

\* The connection breaks before the answer is read: redis-py tries again.
ReplyLost(r) ==
  /\ "reply_lost" \in scenario
  /\ Sends(r)
  /\ Incr(r)
  /\ call' = [call EXCEPT ![r].tries = @ + 1]
  /\ UNCHANGED <<scenario, now, restarts, passed, promised>>

\* redis.RedisError: fail open, counted or not.
FailOpen(r) ==
  /\ call[r].stage = "called"
  /\ "unreachable" \in scenario \/ call[r].tries = Tries
  /\ call' = [call EXCEPT ![r].stage = "open"]
  /\ UNCHANGED <<scenario, now, counter, restarts, tally, passed, promised>>

\* enforce is over for these requests: they go on, end with 429, or died.
Return(R) ==
  /\ call' = [r \in Request |-> IF r \in R THEN NoCall ELSE call[r]]
  /\ UNCHANGED <<scenario, now, counter, restarts, tally, passed, promised>>

\* Every counter is back at the value of the last save, or gone. (Where that is
\* lower, its expiry may be earlier too; the key then only goes sooner.)
RedisRestarts ==
  /\ "restart" \in scenario
  /\ restarts < MaxRestarts
  /\ restarts' = restarts + 1
  /\ \E saved \in [DOMAIN counter -> 0..(Tries * Cardinality(Request))] :
       /\ \A s \in DOMAIN counter : saved[s] <= counter[s].count
       /\ counter' = [s \in {t \in DOMAIN counter : saved[t] > 0} |->
                        [counter[s] EXCEPT !.count = saved[s]]]
  /\ UNCHANGED <<scenario, now, call, tally, passed, promised>>

Tick ==
  /\ now < Horizon
  /\ now' = now + 1
  /\ UNCHANGED rateVars

RedisStep(r) == Pass(r) \/ Refuse(r) \/ ReplyLost(r) \/ FailOpen(r)

RateNext ==
  \/ \E r \in Request : RedisStep(r) \/ \E k \in Key : enforce(r, k)
  \/ \E R \in SUBSET Request : Return(R)
  \/ RedisRestarts
  \/ Tick
-----------------------------------------------------------------------------
(* Safety *)

\* Redis's answers that let a request of this key pass, in the window's length
\* from t on, between two restarts.
PassedFrom(key, t, since) ==
  {p \in passed : /\ p.slot.key = key /\ p.since = since
                  /\ t <= p.at /\ p.at < t + WindowSeconds[key.name]}

\* However late requests come to Redis after they read the clock, and although
\* the key expires and starts again: a span as long as the window lets the limit
\* pass for each of the windows that its requests are stamped with (two of them,
\* unless requests were held up for longer).
SpanBounded ==
  \A key \in Key, t \in Time, since \in 0..MaxRestarts :
    LET span == PassedFrom(key, t, since) IN
    Cardinality(span) <= Limit[key.name] * Cardinality({p.slot.window : p \in span})

\* A client that waited for the Retry-After it was given is refused again only
\* when more than the limit was counted since then, its own retries included:
\* what it did before, or meanwhile, is not held against it.
RetryAfterHonest ==
  [][\A r \in Request :
       (call[r].stage = "called" /\ call'[r].stage = "refused")
         => LET key == call[r].slot.key
                after == {t \in Time : t >= promised[key]}
            IN call[r].read \in after
                 => MapThenSumSet(LAMBDA t : tally'[key][t], after) > Limit[key.name]]_<<now, rateVars>>
=============================================================================
