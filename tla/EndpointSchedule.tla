--------------------------- MODULE EndpointSchedule ---------------------------
(***************************************************************************)
(* Which checks are due and who runs them: the endpoint rows, the Beat-    *)
(* driven runs of dispatch_due_checks that claim them, the checks between  *)
(* the claim and their result row, the user's changes to the schedule, the *)
(* purge of old results, and the is_overdue flag computed from all this.   *)
(*                                                                         *)
(* Time is a whole number. Every clock of the program (PostgreSQL's now(), *)
(* datetime.now() in API and worker) reads the same one: the stack runs on *)
(* one host. What a check measures and alerts is the business of           *)
(* AlertPipeline; here it only has to leave a row.                         *)
(***************************************************************************)
EXTENDS Integers, FiniteSets

CONSTANTS
  Endpoint,       \* ids an endpoint may get; an id is never used again
  Dispatcher,     \* dispatch_due_checks runs that can overlap (one per Beat)
  Interval,       \* the interval_seconds in use
  Grace,          \* OVERDUE_GRACE_SECONDS
  Retention,      \* RETENTION_DAYS
  PurgeBatch,     \* PURGE_BATCH_SIZE
  TickPeriod,     \* Beat's schedule: longest time between two runs' starts
  RunTime,        \* longest time a run takes, where the system is punctual
  CheckTime,      \* longest time from a run's end to the result row, ditto
  Routes,         \* the endpoint routes in use, see RouteKind
  ScheduleFaults, \* what may go wrong, see ScheduleFaultKind
  Horizon,        \* bound on the clock
  MaxReschedules  \* bound on the changes that reschedule an endpoint

ScheduleFaultKind ==
  { "late",         \* Beat, worker or broker stop, or fall behind
    "run_killed",   \* a dispatch run dies
    "check_lost" }  \* a claimed check never leaves a row

RouteKind == {"add", "update", "delete"}

ASSUME IntervalAssumption == Interval \subseteq Nat \ {0} /\ Interval # {}
ASSUME TimesAssumption ==
  /\ Grace \in Nat /\ Retention \in Nat /\ PurgeBatch \in Nat \ {0}
  /\ TickPeriod \in Nat /\ RunTime \in Nat /\ CheckTime \in Nat
  /\ Horizon \in Nat /\ MaxReschedules \in Nat
ASSUME ScheduleFaultsAssumption == ScheduleFaults \subseteq ScheduleFaultKind
ASSUME RoutesAssumption == Routes \subseteq RouteKind
\* RETENTION_DAYS covers the longest interval with its grace (30 days, 1 day).
ASSUME RetentionAssumption == \A i \in Interval : i + Grace <= Retention

VARIABLES
  now,       \* the clock
  ep,        \* the endpoint table
  run,       \* the dispatch runs
  lastRun,   \* when the latest run started
  queued,    \* checks that are enqueued or running
  results,   \* checks with a row in checkresult
  lost       \* checks that were claimed and never left a row (history)

vars == <<now, ep, run, lastRun, queued, results, lost>>

Time == 0..Horizon
EndpointRow == [life: {"unborn", "live", "deleted"}, is_active: BOOLEAN,
                interval: Interval, next_check_at: Nat, monitoring_since: Time,
                gen: 0..MaxReschedules]   \* how often it was rescheduled (history)

\* A row that the UPDATE returns, with the settings it was claimed under.
Claimed == [ep: Endpoint, interval: Interval, gen: 0..MaxReschedules]

\* A check: checked_at is its run's probe_time, claimed_at the now() of its
\* run's transaction.
Check == [claim: Claimed, by: Dispatcher, checked_at: Time, claimed_at: Time]

\* started: probe_time taken; claiming: the UPDATE is under way, it found the
\* rows of todo due and holds locks on those of rows; enqueuing: committed.
Run == [stage: {"idle", "started", "claiming", "enqueuing"}, probe_time: Time,
        now: Time, todo: SUBSET Endpoint, rows: SUBSET Claimed]

NoRun == [stage |-> "idle", probe_time |-> 0, now |-> 0, todo |-> {}, rows |-> {}]

\* The id is not given out yet; the columns mean nothing.
NoEndpoint == [life |-> "unborn", is_active |-> FALSE,
               interval |-> CHOOSE i \in Interval : TRUE, next_check_at |-> 0,
               monitoring_since |-> 0, gen |-> 0]

TypeOK ==
  /\ now \in Time
  /\ ep \in [Endpoint -> EndpointRow]
  /\ run \in [Dispatcher -> Run]
  /\ lastRun \in Time
  /\ queued \in SUBSET Check
  /\ results \in SUBSET Check
  /\ lost \in SUBSET Check

Init ==
  /\ now = 0
  /\ ep = [e \in Endpoint |-> NoEndpoint]
  /\ run = [d \in Dispatcher |-> NoRun]
  /\ lastRun = 0
  /\ queued = {}
  /\ results = {}
  /\ lost = {}
-----------------------------------------------------------------------------
(* dispatch_due_checks *)

\* Some run's transaction has the endpoint row locked.
RowLocked(e) == \E d \in Dispatcher : run[d].stage = "claiming" /\ \E r \in run[d].rows : r.ep = e

\* WHERE is_active AND next_check_at <= now()
Due(e, t) == ep[e].life = "live" /\ ep[e].is_active /\ ep[e].next_check_at <= t

\* Beat's message reaches a process of the worker.
Start(d) ==
  /\ run[d].stage = "idle"
  /\ run' = [run EXCEPT ![d] = [NoRun EXCEPT !.stage = "started", !.probe_time = now]]
  /\ lastRun' = now
  /\ UNCHANGED <<now, ep, queued, results, lost>>

\* The transaction begins, which fixes its now(), and the UPDATE takes its
\* snapshot of the due rows.
BeginClaim(d) ==
  /\ run[d].stage = "started"
  /\ run' = [run EXCEPT ![d].stage = "claiming", ![d].now = now,
                        ![d].todo = {e \in Endpoint : Due(e, now)}]
  /\ UNCHANGED <<now, ep, lastRun, queued, results, lost>>

\* Mutant: a row found due in the snapshot is claimed without another look.
ClaimRowUnchecked(d, e) ==
  /\ run[d].stage = "claiming"
  /\ e \in run[d].todo
  /\ ~RowLocked(e)
  /\ run' = [run EXCEPT ![d].todo = @ \ {e},
                        ![d].rows = @ \cup {[ep |-> e, interval |-> ep[e].interval,
                                             gen |-> ep[e].gen]}]
  /\ UNCHANGED <<now, ep, lastRun, queued, results, lost>>

\* The UPDATE locks one of its rows, waiting for whoever holds it, and looks
\* at the WHERE clause again on the newest version of the row.
ClaimRow(d, e) ==
  /\ run[d].stage = "claiming"
  /\ e \in run[d].todo
  /\ ~RowLocked(e)
  /\ run' = [run EXCEPT ![d].todo = @ \ {e},
       ![d].rows = IF Due(e, run[d].now)
                   THEN @ \cup {[ep |-> e, interval |-> ep[e].interval, gen |-> ep[e].gen]}
                   ELSE @]
  /\ UNCHANGED <<now, ep, lastRun, queued, results, lost>>

\* A row of the run for endpoint e, if there is one.
RowsFor(d, e) == {r \in run[d].rows : r.ep = e}

\* The claim is committed: next_check_at counts from the transaction's now().
CommitClaim(d) ==
  /\ run[d].stage = "claiming"
  /\ run[d].todo = {}
  /\ ep' = [e \in Endpoint |->
              IF RowsFor(d, e) # {}
              THEN [ep[e] EXCEPT !.next_check_at = run[d].now + ep[e].interval]
              ELSE ep[e]]
  /\ run' = [run EXCEPT ![d] = IF run[d].rows = {} THEN NoRun
                                ELSE [run[d] EXCEPT !.stage = "enqueuing"]]
  /\ UNCHANGED <<now, lastRun, queued, results, lost>>

\* Mutant: the check is dated with the schedule its claim has moved on to.
CheckForNext(d, r) == [claim |-> r, by |-> d, checked_at |-> run[d].now + r.interval,
                       claimed_at |-> run[d].now]

CheckFor(d, r) == [claim |-> r, by |-> d, checked_at |-> run[d].probe_time,
                   claimed_at |-> run[d].now]

\* apply_async for one of the claimed rows; the run ends with the last.
Enqueue(d, r) ==
  /\ run[d].stage = "enqueuing"
  /\ r \in run[d].rows
  /\ queued' = queued \cup {CheckFor(d, r)}
  /\ run' = [run EXCEPT ![d] = IF run[d].rows = {r} THEN NoRun
                                ELSE [run[d] EXCEPT !.rows = @ \ {r}]]
  /\ UNCHANGED <<now, ep, lastRun, results, lost>>

\* Two runs lock the rows in opposite orders and wait for each other.
ClaimDeadlock(d) ==
  \E S \in SUBSET {c \in Dispatcher : run[c].stage = "claiming"} :
    /\ d \in S
    /\ \A c \in S : \E b \in S \ {c}, e \in run[c].todo : RowsFor(b, e) # {}

\* The run dies: an open transaction is undone, claimed rows that were not
\* enqueued yet are never checked. dispatch_due_checks has no retry, so an
\* UPDATE that PostgreSQL cancels in a deadlock ends the same way.
RunKilled(d) ==
  /\ "run_killed" \in ScheduleFaults \/ ClaimDeadlock(d)
  /\ run[d].stage # "idle"
  /\ lost' = lost \cup (IF run[d].stage = "enqueuing"
                        THEN {CheckFor(d, r) : r \in run[d].rows} ELSE {})
  /\ run' = [run EXCEPT ![d] = NoRun]
  /\ UNCHANGED <<now, ep, lastRun, queued, results>>
-----------------------------------------------------------------------------
(* perform_check *)

\* Mutant: the row is stamped with the time at which it is written.
RecordAtWrite(k) ==
  /\ k \in queued
  /\ queued' = queued \ {k}
  /\ results' = results \cup {[k EXCEPT !.checked_at = now]}
  /\ UNCHANGED <<now, ep, run, lastRun, lost>>

\* The check commits its row, dated with the run's probe_time. One whose
\* endpoint was deleted violates the foreign key and leaves none.
Record(k) ==
  /\ k \in queued
  /\ queued' = queued \ {k}
  /\ results' = IF ep[k.claim.ep].life = "live" THEN results \cup {k} ELSE results
  /\ UNCHANGED <<now, ep, run, lastRun, lost>>

\* It fails for good or dies with its process.
CheckLost(k) ==
  /\ "check_lost" \in ScheduleFaults
  /\ k \in queued
  /\ queued' = queued \ {k}
  /\ lost' = lost \cup {k}
  /\ UNCHANGED <<now, ep, run, lastRun, results>>
-----------------------------------------------------------------------------
(* The API and the purge *)

\* Mutant: monitoring_since keeps the epoch of the table.
add_endpoint_undated(e, interval) ==
  /\ "add" \in Routes
  /\ ep[e].life = "unborn"
  /\ ep' = [ep EXCEPT ![e] = [life |-> "live", is_active |-> TRUE, interval |-> interval,
                              next_check_at |-> now, monitoring_since |-> 0, gen |-> 0]]
  /\ UNCHANGED <<now, run, lastRun, queued, results, lost>>

\* POST /endpoints: due at once.
add_endpoint(e, interval) ==
  /\ "add" \in Routes
  /\ ep[e].life = "unborn"
  /\ ep' = [ep EXCEPT ![e] = [life |-> "live", is_active |-> TRUE, interval |-> interval,
                              next_check_at |-> now, monitoring_since |-> now, gen |-> 0]]
  /\ UNCHANGED <<now, run, lastRun, queued, results, lost>>

\* PATCH /endpoints/{id}. Only what differs from the row counts; a new
\* interval, a new url or a reactivation starts the schedule afresh. The
\* UPDATE waits for a claim that has the row locked.
update_endpoint(e, interval, is_active, newUrl) ==
  LET reschedule == newUrl \/ interval # ep[e].interval \/ (is_active /\ ~ep[e].is_active) IN
  /\ "update" \in Routes
  /\ ep[e].life = "live"
  /\ ~RowLocked(e)
  /\ reschedule => ep[e].gen < MaxReschedules
  /\ ep' = [ep EXCEPT ![e].interval = interval, ![e].is_active = is_active,
              ![e].next_check_at = IF reschedule THEN now ELSE @,
              ![e].monitoring_since = IF reschedule THEN now ELSE @,
              ![e].gen = IF reschedule THEN @ + 1 ELSE @]
  /\ UNCHANGED <<now, run, lastRun, queued, results, lost>>

\* DELETE /endpoints/{id}, which takes the results along.
delete_endpoint(e) ==
  /\ "delete" \in Routes
  /\ ep[e].life = "live"
  /\ ~RowLocked(e)
  /\ ep' = [ep EXCEPT ![e].life = "deleted"]
  /\ results' = {k \in results : k.claim.ep # e}
  /\ UNCHANGED <<now, run, lastRun, queued, lost>>

\* One round of purge_old_results: a batch of the rows that are old enough.
purge_old_results ==
  LET old == {k \in results : k.checked_at < now - Retention} IN
  \E S \in SUBSET old :
    /\ S # {}
    /\ Cardinality(S) = IF Cardinality(old) < PurgeBatch THEN Cardinality(old) ELSE PurgeBatch
    /\ results' = results \ S
    /\ UNCHANGED <<now, ep, run, lastRun, queued, lost>>
-----------------------------------------------------------------------------
\* Beat starts the next run in time, a run ends in time, a check leaves its
\* row in time.
Punctual ==
  /\ now < lastRun + TickPeriod
  /\ \A d \in Dispatcher : run[d].stage # "idle" => now < run[d].probe_time + RunTime
  /\ \A k \in queued : now < k.checked_at + RunTime + CheckTime

Advance ==
  /\ now < Horizon
  /\ "late" \in ScheduleFaults \/ Punctual
  /\ now' = now + 1
  /\ UNCHANGED <<ep, run, lastRun, queued, results, lost>>

\* What becomes of a run once its message has reached a process.
Running == {d \in Dispatcher : run[d].stage # "idle"}

RunStep(d) ==
  \/ BeginClaim(d)
  \/ \E e \in Endpoint : ClaimRow(d, e)
  \/ CommitClaim(d)
  \/ \E r \in run[d].rows : Enqueue(d, r)
  \/ RunKilled(d)

UserStep ==
  \E e \in Endpoint :
    \/ \E i \in Interval : add_endpoint(e, i)
    \/ \E i \in Interval, active, newUrl \in BOOLEAN : update_endpoint(e, i, active, newUrl)
    \/ delete_endpoint(e)

Next ==
  \/ Advance
  \/ \E d \in Dispatcher : Start(d)
  \/ \E d \in Running : RunStep(d)
  \/ \E k \in queued : Record(k) \/ CheckLost(k)
  \/ UserStep
  \/ purge_old_results

Spec == Init /\ [][Next]_vars
-----------------------------------------------------------------------------
(* is_overdue, computed whenever somebody looks *)

\* GREATEST(latest checked_at, monitoring_since): NULL does not count.
Baselines(e) ==
  {ep[e].monitoring_since} \cup {k.checked_at : k \in {j \in results : j.claim.ep = e}}

is_overdue(e) ==
  /\ ep[e].life = "live"
  /\ ep[e].is_active
  /\ \A b \in Baselines(e) : now > b + ep[e].interval + Grace

\* The gauge behind the Prometheus alert.
count_overdue_endpoints == Cardinality({e \in Endpoint : is_overdue(e)})
-----------------------------------------------------------------------------
(* Safety *)

Claims == queued \cup results \cup lost

Spaced(j, k) ==
  \/ j.claimed_at + j.claim.interval <= k.claimed_at
  \/ k.claimed_at + k.claim.interval <= j.claimed_at

\* However many Beats dispatch, and whatever dies or falls behind, an endpoint
\* is not claimed twice within one interval unless the user rescheduled it in
\* between: the claim is idempotent and leaves no catch-up burst.
ClaimsSpaced ==
  \A j, k \in Claims :
    (j.claim.ep = k.claim.ep /\ j.claim.gen = k.claim.gen /\ j # k) => Spaced(j, k)

\* With one Beat, results ordered by checked_at are ordered by the settings
\* they were measured under: a slow check of the old url never passes for the
\* latest result once the new one has been checked.
ResultsInSettingsOrder ==
  \A j, k \in results :
    (j.claim.ep = k.claim.ep /\ j.claim.gen < k.claim.gen) => j.checked_at <= k.checked_at

\* With one Beat and everything punctual, the monitor never reports itself
\* stopped: the grace covers a tick, a check, and twice the length of a
\* dispatch run, whose start dates the result and whose transaction dates the
\* next check. No change to the schedule and no purge sets it off either.
NoFalseOverdue == count_overdue_endpoints = 0

\* A check that was claimed and lost shows: its endpoint is overdue by the
\* time the next result comes in.
LostCheckShows ==
  [][\A j \in results' \ results, k \in lost :
       (j.claim = k.claim /\ k.checked_at < j.checked_at
          /\ \A i \in results : i.claim = k.claim => i.checked_at < k.checked_at)
       => is_overdue(k.claim.ep)]_vars
=============================================================================
