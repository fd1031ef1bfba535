# Uptime Monitor: TLA+ models and proofs

The service checks HTTP endpoints on a schedule, records the results, tells a
live dashboard about status changes, alerts by e-mail or webhook after a number
of consecutive failures and again on recovery, and reports itself overdue when
it has stopped checking. These modules model its core from the source: the
alert pipeline and the analytics over what it records, the check schedule, the
Java dispatcher that may take the schedule's place, the live dashboard, and the
API's requests with their accounts, quota and rate limits. TLC checks them on
small instances, and TLAPS proves every safety property of the passing runs for
all instances.

`PROJECT.json` maps every definition to the lines it models and lists the runs,
the mutants that show each property can fail, the hazards, the findings and the
theorems.

## The system

| Component | State | Operations | Interacts with | Hard because | Correct when |
| --- | --- | --- | --- | --- | --- |
| Check execution (`app/dispatcher.py`, `perform_check`) | one row per check, the alert state rows | probe, insert, evaluate every alert config, commit, publish | database, broker, Redis pub/sub | two checks of one endpoint overlap; alerts are queued before the commit; retries, lock waits, deadlocks, deletions under its feet | the alert state is backed by recorded results; every check ends |
| Alert delivery (`app/alerts.py`) | the queued message, `alert_sent` | send, retry, reject, give up and clear the flag | broker, SMTP and webhooks, the state rows | late acknowledgement, retries that outlive the outage, failure handler in another process | who was told of an outage is told of its end, nobody else is |
| Alert settings (`app/api.py`, `app/db.py`) | alert configs | create, change, pause, delete, with cascades | the state rows a check holds in memory | every route runs against checks in mid-flight | a state row exists exactly for the live configs |
| Schedule and dispatch (`dispatch_due_checks`, Beat) | `next_check_at` | claim the due rows, enqueue one check each | database, broker | overlapping runs, row locks, a crash between commit and enqueue | an endpoint is claimed once per interval |
| Endpoint API, purge and overdue flag (`app/db.py`) | endpoint rows, `monitoring_since`, old results | create, change, pause, delete, purge, `is_overdue` | the schedule | a change between a claim's snapshot and its lock; three clocks in one comparison | no false overdue report, results in the order of the settings they belong to |
| Java dispatcher (`dispatcher-java/`) | the same tables, a bounded probe pool and its queue | claim with LIMIT and SKIP LOCKED, probe, insert, shut down | database | rejection after the claim, two pools of different sizes, shutdown in the middle | claims spaced also beside Celery, no endpoint starved, no probe stuck, ticks go on |
| Realtime (`app/realtime.py`, `app/events.py`) | sockets per user | subscribe, fan out | Redis pub/sub, browsers | no replay, the subscriber task can die | see the dashboard |
| Dashboard (`app/static/dashboard.html`) | the rows on the page | snapshot, delta, reconnect, poll | REST, WebSocket | snapshots and deltas overtake each other | the page shows only what was committed, never goes back in time, and converges |
| Analytics (`get_endpoint_summary`, `get_endpoint_incidents`) | none | SQL over the last 7 days | results | NULL in conditions, ties in time, the window's edge, rows committed out of order | incidents are the outages, and agree with the counts and with the alerts |
| Rate limits (`app/rate_limit.py`) | one counter in Redis per limit, identity and window | `enforce`: read the clock, count, refuse or pass | `register`, `login`, Redis | a request is held up after it read the clock; lost answers are retried; the key expires; Redis is away or comes back older; fail open | the limit bounds what passes, and Retry-After is kept |
| Accounts, tokens and quota (`app/api.py`, `app/auth.py`) | users, tokens, endpoints | register, log in, create and delete an endpoint | the rate limits, database | look up, then insert; count, then insert; a commit in doubt; the API dies | an accepted registration has its account and can log in; the quota is passed by a bounded number |
| Pages for one endpoint and login, SSRF check, metrics, configuration, migrations | | | | | |

All but the last row are modelled (see *Not modelled*).

## Modules

| Module | Models |
| --- | --- |
| `MonitorDb` | what the alert pipeline shares: tables, broker, dashboard channel, and the memory and locks of every running check; constants, types, `Init` |
| `PerformCheck` | `dispatch_due_checks` (as far as it feeds one endpoint), `queue_alert`, `perform_check` |
| `AlertDelivery` | `send_email_alert`, `send_webhook_alert`, `handle_alert_exhausted`, `mark_alert_undelivered` |
| `AlertSettings` | the alert routes and `DELETE /endpoints/{id}` |
| `AlertPipeline` | composes the three; worker crash, fairness, properties, the refinement mapping |
| `AlertContract` | abstract specification: what the owner of an endpoint may be told, with no processes or transactions; and the proof that it keeps its promises |
| `AlertPipelineProofs` | theorems about `AlertPipeline` for any number of processes |
| `AlertRefinementProofs` | the proof that `AlertPipeline` with one process implements `AlertContract`, and what else holds with one process |
| `Analytics` | extends `AlertPipeline` by what the analytics route answers over the recorded results |
| `AnalyticsProofs` | theorems about `Analytics` |
| `EndpointSchedule` | the endpoint rows, dispatch runs, checks up to their row, endpoint routes, purge, `is_overdue` |
| `EndpointScheduleProofs` | theorems about `EndpointSchedule` |
| `JavaDispatcher` | extends `EndpointSchedule` by JVMs: `Dispatcher.run`, `claimDue`, the thread pool, `ProbeTask.run`, `insertResult`, the shutdown hook |
| `JavaDispatcherProofs` | theorems about `JavaDispatcher` |
| `LiveDashboard` | `perform_check` as far as the page sees it, `realtime.py`, `events.py`, `dashboard.html` |
| `LiveDashboardProofs` | theorems about `LiveDashboard` |
| `RateLimit` | `enforce` and Redis |
| `ApiRequests` | extends `RateLimit` by the routes that create accounts, tokens and endpoints at the same time |
| `ApiRequestsProofs` | theorems about both |
| `MCAlertPipeline`, `MCJavaDispatcher`, `MCApiRequests` | the instances for TLC (symmetry, records as constants) |

### The alert pipeline and the code

One endpoint is enough: every statement of `perform_check` and of the alert
routes filters on `endpoint_id` or `config_id`, so endpoints share no row.
Checks (`Task`) are numbered in the order of their `checked_at`; several run at
the same time when a probe outlasts the interval, up to `WorkerSlots`.

`perform_check` is cut where another process can interfere. `pc` goes
`idle -> queued -> probed -> evaluating -> committed -> done`:

* `Probe`: the HTTP request (touches nothing shared) with the query for the
  previous result, which decides `should_publish`.
* `InsertAndLoad`: the query for the active configs autoflushes the INSERT, so a
  deleted endpoint fails here (`InsertFails`), and from here on the foreign key
  keeps the endpoint row from being deleted.
* `Evaluate`: one turn of the loop. Its SELECT autoflushes the row the previous
  turn changed, which takes that row's lock (`flushed`); its own row is read
  without a lock, and an alert that is due is handed to the broker at once.
* `Commit`: the last flush and the COMMIT. SQLAlchemy writes only the columns
  that changed against the loaded values (`Written`); a row that is gone raises
  `StaleDataError` or `IntegrityError` (`FlushFails`), which is not retried.
* `Publish`: the dashboard message, errors swallowed.

`OperationalError` (`DbError`, `DeadlockVictim`, `CommitUnknown`) retries the
whole task up to `CheckRetries`; a killed process loses the check, because it
was acknowledged before it ran. A send task is acknowledged when it ends: a
killed worker gets it again, a killed pool process does not
(`task_reject_on_worker_lost` is off), and the parent runs the failure handler
in its place (`orphaned`). `told` is history: the recipient's server took the
message.

Faults are a constant, `Faults`, so that every run says which of them it
allows. Status codes are abstracted to what `is_up_for` tells apart;
`last_alert_at` is written and never read and is left out.

### The schedule and the code

Time is a whole number that every process reads; the stack runs on one host. A
run of `dispatch_due_checks` takes `probe_time` (`Start`), opens the
transaction, which fixes `now()` and the snapshot of the due rows (`BeginClaim`),
locks the rows one by one in any order and looks again at the newest version of
each, as PostgreSQL does under READ COMMITTED (`ClaimRow`), commits
(`CommitClaim`), and enqueues one check per returned row (`Enqueue`). Two runs
that lock in opposite orders can deadlock; the victim is not retried
(`RunKilled`). A result is dated with the run's `probe_time` (`checked_at`), the
next check with the transaction's `now()`: the difference between the two is
what the overdue proof turns on.

A PATCH is one step. It reads the row first, but writes only the columns that
differ from what it read, and a reschedule writes both times from one clock
reading; a claim that commits between the two makes no difference that a PATCH
after it would not make. `gen` counts the reschedules of an endpoint, so that
properties can tell the settings a check was claimed under.

### The Java dispatcher and the code

A JVM is a dispatcher whose claim is a run of `EndpointSchedule`, so that row
locks, the clock and the API's routes are shared with Celery dispatchers.
`CLAIM_SQL` is cut into its snapshot (`BeginTick`), one step per row in the order
of `next_check_at` (`LockRow`: a locked row or one that is no longer due is
skipped and does not count for the LIMIT) and its commit (`EndClaim`).
`Dispatcher.run` then hands the endpoints to the pool one by one (`Submit`): a new
thread while there are fewer than `PoolSize`, else the queue, else a rejection.
An idle thread takes from the queue in a step of its own (`Take`). A probe goes
`submitting -> queued -> requesting -> writing -> inserting -> ended`; the last
two stages are without and with a connection of the pool of
`PoolSize / 2 + 2`. Every outcome of the HTTP request but an
`IllegalArgumentException` is a measurement (`Measure`, `Escape`). `Exit` is the end
of the shutdown hook or a kill: statements that the server has may still be
done. `passed` and `backlog` are history: how many claims left a due endpoint
behind, and how long the queue was when a batch came.

### The dashboard and the code

One page of one user. Checks are numbered in the order of `checked_at`; a check
decides whether it is news (`Probe`), commits or fails, and publishes after the
commit. `Publish` stands for the message's whole way through Redis, the subscriber
and `handle_message` into the `pipe` of every registered socket, so that it may
take as long as it likes; each pipe is delivered in order. A socket has two ends:
`client` is the browser's, `server` the API's, where `accept()` and the entry in
`connections` are two steps (`Accept`, `Register`) between which a message passes
the page by. A request for a snapshot is sent, answered with the database as it
is then, and merged later; several may be under way. `page.rows` is the map `rows`,
`NoRow` an endpoint that it does not hold, and `checked_at` 0 is null.
`RenderRow` and `applyUpdate` are the two merges: both keep the newer result,
and only a snapshot carries the overdue flag.

### Analytics and the code

The route only reads, so its SQL is an operator on `results` and is asked of every
table that the pipeline can leave. `status_code` NULL is `NoResponse`, and each
condition says what NULL makes of it: it is down for the incidents and not
counted up by the summary. `Ordered` is every order that `ORDER BY checked_at`
allows, because rows with one `checked_at` (a check that was recorded twice) come in
any. `lag` looks at the row before, `run_id` counts over the default frame of a
window, which takes in the peers of a row. `since` is the window's edge. The two
statements of the route have a snapshot each: the summary is that of the first `n`
rows, for any `n`, the incidents are those of the table as it is. `now()` is the
same in both.

### Requests, limits and the code

`enforce` is cut where another request can come between: it reads the clock
(`enforce`), its transaction runs in Redis and is answered (`Pass`, `Refuse`), or
the answer is lost and redis-py sends it again (`ReplyLost`), or none comes
(`FailOpen`). `counter` holds the keys with their expiry. `tally`, `passed` and
`promised` are history.

A request goes through the stages of its handler, each up to the next statement
that touches what others can see: `register` through `limit`, `lookup` (the email
is free, the password is being hashed) and `commit` (the INSERT is done, and
another INSERT of the same email waits for its end on the unique index); `login`
through `limit_ip`, `limit_email` and `verify` (the user was looked for, and what was
found is compared with the password, which is slow); `set_endpoint` through `count`,
`insert` and `refresh`; `delete_endpoint` through `delete` (the endpoint is found, and
may be gone by the time it is deleted). `registered` is history: whether the account
that a login asks for had been answered for when it came in. `Threads` is the number of threads that run handlers;
`get_current_user`, which is a dependency, is taken together with the start of its
handler. `DbError` fails a handler's transaction, with its commit done or not, and
`ApiKilled` ends all requests alike. `endpoints` starts empty; the seed script
fills it without asking for the quota.

`scenario` is chosen at the start: one kind of fault with the routes that it can
disturb. It stands for the user and the environment and no action changes it.

## Runs

Every run but `requests` checks deadlock; `Terminated` is the only allowed end of
the pipeline and `Left` that of a page. `requests` may stop, when all of its
requests have been answered.

| Run | Instance | Shows |
| --- | --- | --- |
| `crashes` | 2 overlapping checks, 1 webhook config with threshold 2, one retry, every fault of a check, its process and the worker, COMMITs in doubt, alerts given up | `StreakBacked`: the streak never exceeds the recorded failures. `RecoveryAnswersDown`: a recovery presupposes a recorded down alert. `DownNeedsFailures`: a down alert needs as many failures as its threshold. `NoPhantomUpdate`: the dashboard hears only of recorded results. `OneRowPerDispatch`: no attempt records its check twice. `TypeOK` |
| `settings` | 2 checks in any lock order, 2 configs of which one is created on the way, every alert route, deletion of the endpoint, failing deliveries with one retry, failing handlers, fairness | `StateRowPerConfig`: no late write brings the state of a deleted config back. `FailureExplained`: deadlocks are retried, only a deletion ends a check early. `OneRowPerDispatch`: a check that is retried is recorded once. `EveryCheckSettles`, `EveryAlertSettles` |
| `serial` | 3 checks, 2 configs, one pool process, rollbacks, worker crashes, given-up alerts, deletions | `ImplementsContract` and the two visible properties of the contract, `FlagHonest`, `RecoveryOnlyIfTold`, `ToldOutageRecovers`. `IncidentsAreOutages`: failures with a success in between are listed apart, all others together, in whatever order they were recorded. `SummaryMatchesIncidents`: the checks of the incidents are the failures of the summary and those recorded after it. `NoticesMatchIncidents`: every alert can be found in them |
| `lost_update` (violation) | 3 checks, two at a time | `VisibleDownEndsRun` fails: see *Findings* |
| `early_give_up` (violation) | 2 checks, two pool processes, a failing delivery | `FlagHonest` fails: see *Findings* |
| `on_time` | 1 dispatcher, intervals 2 and 3, tick 2, run 1, check 1, grace 4, retention 7, nine time units | `NoFalseOverdue`, `ResultsInSettingsOrder` |
| `lost_unseen` (violation) | interval 2 and grace 3, one lost check | `LostCheckShows` fails: see *Findings* |
| `jvm` | 1 JVM with one thread, queue 1 and batch 1, 2 endpoints of which one has a url that `java.net.http` refuses, creation and deletion, every fault of a JVM, fairness | `NoStarvation`: a due endpoint is left behind at most as often as the others fill a batch. `FittingBatchAccepted`: a batch that fits behind the queue is not rejected. `KeepsTicking`: a failed tick is followed by another. `EveryProbeEnds`. `FleetTypeOK` |
| `fleet` | 1 JVM and 2 Celery dispatchers, 1 endpoint, PATCHes, late and killed runs, lost checks, lost answers to a claim's commit, JVMs stopped, killed and restarted | `FleetClaimsSpaced`: one claim per interval and settings, whoever claims; `ClaimsSpaced`: the same of Celery's checks. `TypeOK` |
| `idle_rejects` (violation) | batch 2 = pool 1 + queue 1, no fault | `RejectedOnlyWhenFull` fails: see *Findings* |
| `dashboard` | 1 endpoint, 2 checks, 1 socket and 1 request at a time, every fault, fairness | `PageShowsHistory`, `NeverBackwards`: in any order of snapshots and deltas. `Converges`: once the database rests, the page shows it |
| `requests` | 3 requests on 2 threads, 1 address, 1 email in 2 spellings, windows of 2 s, limits 2 for a login's address and 1 else, 2 tries, 1 restart of Redis, quota 1, tokens of 2 s, 2 clock ticks, 6 scenarios | `SpanBounded`: what passes in any span of a window's length. `RetryAfterHonest`: who waits as he was told is refused only for what was counted since. `AccountMatchesAnswer`, `AccountLogsIn`: an accepted registration is the account, and logs in from then on. `QuotaOvershoot`: by how much the quota can be passed. `TypeOK` |

Why the bounds are enough. Two overlapping checks already give every pairwise
interleaving of reads, flushes and commits, and two configs every lock order; a
third check is what it takes to go down, recover and go down again with threshold
2 counted over successes. One retry tells a retried attempt from an exhausted one.
`crashes` leaves out two faults that `settings` has and that do the same to its
properties as another: out of retries, `send_error` is `send_fatal`; after a
`handler_error` the flag is that of an alert not yet given up. `OneRowPerDispatch`
is asked where a COMMIT may be in doubt (`crashes`: the two rows of a check are of
two attempts) and where it may not, with rollbacks and deadlocks that are retried
(`settings`: there is one row). The three results of `serial` may be recorded in
any order, which gives incidents with a success between two failures, before and
after them; what it does not have is two rows of one time, since that takes a
COMMIT in doubt and its `Ordered` would be too many. In `on_time` the clock passes
several intervals, an endpoint paused longer than interval and grace, and the
purge of results; with tick 1 and grace 2 (one run length less than the theorem
asks for, beyond the unit that a whole-numbered clock gives away) the property is
violated, so the bound is the real one. `Horizon` and `MaxReschedules` bound the
clock and the user's changes.

In `jvm` one thread and one place in the queue make every refusal and wait of the
pool happen; two endpoints make LIMIT 1 choose. Claims take no time there
(`RunTime` 0): a claim that lasted an interval could see a row that it skipped
become due again. The connection pool cannot run dry with one thread; the wait for
a connection is not reached. `fleet` has one endpoint: two claims that deadlock
over two rows are left to the theorems. In `dashboard` two checks give an older
and a newer result; `Socket` and `Fetch` bound what is under way at once, and the
two safety properties are proved for any number of each.

In `requests` a window of two seconds has a start, a middle and an end, and two
ticks reach the next window; a request can be held up across the boundary. With
limit 1 the second request is refused, and a third shows what a refusal leaves
behind; two tries make a lost answer count twice or fail open. Two threads give
every pairwise race of look-up, count and insert, and one endpoint above the quota.
All of the properties are proved for any number of requests, threads, tries and
restarts, and for all scenarios at once.

Fairness. In `settings`, weak fairness of "some check can take a step"
and of "some alert can", because a worker with a free process takes the next
message, and PostgreSQL grants a lock or cancels a deadlock. Nothing is assumed
of the dispatcher, the user, or any fault. In `jvm`, weak fairness of a JVM's tick
and of its pool: the threads run, HTTP requests end by their time-out and
PostgreSQL answers. In `dashboard`, weak fairness of the poll's timer and of the
browser that handles what has arrived, and strong fairness of answers: the API
is reachable again and again. Nothing is assumed of Redis, the subscriber or the
socket. The requests have no liveness
property. The schedule needs no fairness: its
progress is the bounded response built into `Punctual`, that Beat ticks, runs
end and rows appear within `TickPeriod`, `RunTime` and `CheckTime`.

## Theorems

Every invariant and every action property of a passing run is proved, and the
refinement of the contract. A theorem holds for every value of the constants
that satisfies their named assumptions; what more it presupposes is in its
ASSUME and in the second column here, and *Why the hypotheses* says what happens
without it.

| Theorem | States | Along |
| --- | --- | --- |
| `TypeCorrect` | `TypeOK` of the pipeline | per action |
| `SessionsClosed` | a task outside its transaction holds no row and no lock | `SessionInv` |
| `OneStatePerConfig` | `StateRowPerConfig` | with `LockInv`: a state row is locked by at most one check, and a locked row exists; with `RowInv`: what a session loaded was there |
| `FailuresAreExplained` | `FailureExplained`, when neither the probe nor the broker raises | `LoadedWasBorn`: what a session holds was created, and what it found missing has been deleted, which is for ever |
| `StreakIsBacked`, `DownFollowsFailures` | `StreakBacked`, `DownNeedsFailures` | `StreakInv`: the streak a session has loaded is at most the failures recorded by then, and results are only ever appended while it is open |
| `RecoveryFollowsDown` | `RecoveryAnswersDown` | `BackedInv`: a set flag, in the table or loaded by a session, has a down alert whose attempt is recorded, or is set by the session itself, which will record it in the same commit |
| `PublishedIsRecorded` | `NoPhantomUpdate` | `PublishInv`: a committed task's row is in the table |
| `OneRow` | `OneRowPerDispatch` | `RowOnceInv`: the rows of a task are of attempts that are over, and without a COMMIT in doubt a task with a row is past its commit and is not run again |
| `NoticesAreTrue` | of the contract: a down notice ends a run of as many failures as its threshold; a recovery answers a down notice with only failures between | `CInv`: a streak of n is the last n entries of the history; a set flag has its notice, and only failures since |
| `PipelineImplementsContract` | `ImplementsContract`, with one process | `SerialInv`, below; one lemma for each way a step maps: a commit is `CheckUp` or `CheckDown` of the contract, an alert given up is `GiveUp`, a deleted config is `Unwatch`, a deleted endpoint `Forget`, all else a stutter |
| `DownsAreTrue`, `RecoveriesAreTrue` | `VisibleDownEndsRun`, `VisibleRecoveryEndsOutage`, with one process | `NoticesAreTrue` through the refinement |
| `FlagIsHonest`, `RecoveryFollowsPromise` | `FlagHonest`, `RecoveryOnlyIfTold`, with one process, no webhook, no failing handler | `SerialInv`: the flag and its alert come from one commit |
| `OutagesAreEnded` | `ToldOutageRecovers`, with one process | `OutageKept`: while only failures follow the row of a down alert its flag is set; the first success has queued the recovery |
| `IncidentsAreRuns` | `IncidentsAreOutages` | no invariant but the types: two failures share a `run_id` exactly if no change lies between them in the order, and the changes are counted by an induction along the rows |
| `SummaryIsIncidents` | `SummaryMatchesIncidents` | no invariant but the types: the incidents partition the failures, distinct incidents start with distinct rows, and a sum over a partition is a count (below) |
| `NoticesAreIncidents` | `NoticesMatchIncidents`, with one process | the contract's promises: the run that a down notice ends is in one incident, and the success of a recovery closes the incident of its down notice |
| `ScheduleTypes` | `TypeOK` of the schedule | per action |
| `ClaimsAreSpaced` | `ClaimsSpaced`, any number of dispatchers and endpoints, all faults | `SpacingInv`: locked rows are due and locked once, a committed claim has moved `next_check_at` an interval beyond it, and all committed claims, enqueued or not, are spaced |
| `NeverFalselyOverdue` | `NoFalseOverdue`, for one Beat, nothing lost, and `TickPeriod + 2 * RunTime + CheckTime <= Grace` | `OverdueInv`, below |
| `ResultsKeepOrder` | `ResultsInSettingsOrder`, for one Beat, all faults | `OrderInv`: with one Beat the runs follow each other, and a claim under later settings is made by a later run |
| `FleetIsTyped` | `FleetTypeOK` | `QueueBounded`: no queue exceeds its capacity |
| `FleetIsSpaced` | `FleetClaimsSpaced`, any number of JVMs and Celery dispatchers, all faults | `FleetSpacing`, which is `SpacingInv` over claims wherever they are: in the hands of a run, of a check, or of a probe |
| `FittingIsAccepted` | `FittingBatchAccepted` | `BatchInv`: the rest of a batch fits behind what was queued when it came |
| `NobodyStarves` | `NoStarvation`, for one JVM as the only dispatcher, finitely many endpoints, no PATCH | `WaitInv`, below |
| `DashboardTypes` | `TypeOK` of the dashboard | per action; that the latest result exists is the well-foundedness of the naturals |
| `PageNeverGoesBack` | `NeverBackwards` | from `TypeOK`: a page changes by a snapshot, a delta or its end (`RowsChange`) |
| `PageShowsOnlyHistory` | `PageShowsHistory` | `HistoryInv`: the results in the database, the rows of answers under way and the messages in the sockets were all committed, and no check takes a commit back |
| `ApiTypeCorrect` | `TypeOK` of the requests and of `RateLimit` | per action |
| `LimitHolds` | `SpanBounded` | `LimitInv`, below |
| `RetryAfterHolds` | `RetryAfterHonest` | `TallyInv`, below |
| `AccountsMatchAnswers` | `AccountMatchesAnswer` | `AccountInv`: emails are unique in the table and among the inserted rows that are not committed, the two do not meet, and an answered registration has its account |
| `AccountsLogIn` | `AccountLogsIn` | `LoginInv`, on top of `AccountInv`: a login that came in after the answer has not looked yet, and will find the account, or it has found it |
| `QuotaBounded` | `QuotaOvershoot` | `QuotaInv`: handlers are at most as many as threads; a user's endpoints together with his requests that are past the count are at most `MaxEndpoints - 1 + Threads` |

`SerialInv` carries the refinement. A transaction of the pipeline takes many
steps and one of the contract, so the invariant has to say at every step in
between what the commit will do. `Alone`: with one process no other check or
send task is at work while a check is. `SettingsKept`: the configs it loaded are
as they were. `AttemptsPast`: rows and alerts come from attempts that are over,
so a commit's row is new and an alert of a rolled-back attempt never becomes
visible by a later one. `SessionsTrue`: for each config the session has either
not been through, or holds what the loop body makes of the stored row, and the
alerts queued by this attempt are those that were due and no others. The commit
then writes what `CheckUp` or `CheckDown` says for every config that still exists;
the row of a config that was deleted meanwhile is gone (`RowInv`), as after the
contract's `Unwatch`.

`NoFalseOverdue` is far from inductive: that an endpoint is not overdue now says
nothing of the next tick. `OverdueInv` follows the check that has to arrive.
`ClockInv`: everything under way is within its time. `DueInv`: no run leaves a
due endpoint behind, so a due endpoint has been due for less than a tick.
`CoverInv`: for every time `b` the endpoint may be measured from, either
`next_check_at` is at most `b + interval + RunTime`, or a later claim exists whose
row will come before `b` runs out. `FreshInv`: some recorded time has not run out.
When the clock advances, the work that the fresh time waits for is unfinished
and therefore young, so the deadline is still ahead. `RunTime` counts twice: a
result is dated with the start of its run and the next check with the
transaction, up to a run later; and the next claim is again dated with the start
of its run while its check leaves after the end. With the deployed values (tick
10 s, grace 30 s, HTTP timeout 10 s) this leaves ten seconds for two dispatch
runs and the queueing of a check.

`WaitInv` turns the LIMIT into a count: `passed[e] * ClaimBatch` is at most the
number of endpoints that are due later than `e`. A claim that leaves the due `e`
behind has taken a full batch, in the order of `next_check_at` (`SortInv`), so all
of the batch were due no later than `e`, and puts them an interval past the
clock, behind `e`. They stay there until `e` is claimed, so at most the others
can pass, each once.

`LimitInv` says why a fixed window with expiring keys still bounds what passes. A
key may expire while late requests are still stamped with its window, and count
from 1 again; so the counts of one window are not distinct. But every INCR
extends the key by a whole window, so counts within a span of that length are
(`CountsDiffer`, with `KeysRemember`: a count that passed less than a window ago is
at most that of its key, which is still there), each is between 1 and the limit
(`CountsInLimit`), and a span holds at most the limit of each window's stamps. A
restart of Redis forgets; the bound is between two of them.

`TallyInv` goes the other way, from a count to the requests behind it. A call is
stamped with the window of the time that it read (`CallsStamped`); what a key has
counted is at most what was tallied at times of its window (`CountsTallied`: keys
that expire and restarts only lose counts); and a promise ends at the beginning
of a window (`PromisesEndWindows`). So all times of a window that is read after the
promise are after the promise, and a refusal's count is among them.

Sums. `SummaryMatchesIncidents` and `RetryAfterHonest` add up numbers with
`MapThenSumSet`, a recursive function over subsets, and the library's induction
theorems cannot be used here. The proofs go around: the sum of `f` over `S` is the
number of pairs `<<x, n>>` with `x` in `S` and `n` in `1..f[x]` (a count of checks, in the
analytics). The count satisfies the equation of the recursive function, and two
functions that satisfy it agree, because a set of least size where they differ
has a least member (`WFMin` on the naturals) and removing its chosen element
gives a smaller one.

### Why the hypotheses

* `OneProcess` (one pool process, a process that is not killed alone, no change of
  the settings but deletions): with two processes `lost_update` and
  `early_give_up` are counterexamples; with a pause over a success a streak
  survives it; and the parent that clears the flag in place of a killed process
  does so beside the next check.
* `FlagIsHonest`, `RecoveryFollowsPromise`: a webhook that answers 4xx keeps the
  flag, and so does a failure handler that fails (*Findings*).
* `FailuresAreExplained`: the two faults excluded are themselves other
  explanations of a failed check.
* `ResultsKeepOrder`, `NeverFalselyOverdue` want `OneBeat`: two runs may overlap, and
  the one that started first may claim last, under the later settings, and date
  its checks before those of the other.
* `NobodyStarves`: TLC finds `NoStarvation` violated with a second dispatcher whose
  claims take time (it moves rows to a time that has come again before the claim
  ends), and with PATCHes (a rescheduled endpoint is due at the very time of the
  other, and may be preferred again and again).

The runs of these properties meet the hypotheses; only `on_time` goes beyond them,
to the exact bound that a whole-numbered clock allows (*Runs*).

## Model-checked only

* Liveness under fairness, which is out of the prover's reach: `EveryCheckSettles`,
  `EveryAlertSettles`, `KeepsTicking`, `EveryProbeEnds`, `Converges`.
* The statements that the violation runs refute: `VisibleDownEndsRun` and
  `FlagHonest` with two processes, `LostCheckShows`, `RejectedOnlyWhenFull`.

## Findings

Four runs show the code against its documentation:

* `lost_update`: the alert state is read without `FOR UPDATE` and written with
  absolute values. A check that read a streak of 1 before a success committed its
  reset writes 2 after it, and a threshold-2 alert goes out for failures that were
  not consecutive.
* `early_give_up`: an alert is queued inside the transaction. If its delivery
  fails for good before the commit, `mark_alert_undelivered` finds no flag to
  clear, the commit sets it, and the rest of the outage is silent.
* `lost_unseen`: the overdue flag is documented to catch a task lost after
  dispatch; with an interval below the grace the next result arrives first.
* `idle_rejects`: `Dispatcher.java` documents a rejection as the sign of a saturated
  monitor. `ThreadPoolExecutor` queues all work once its threads exist, so a batch
  of 60 = 20 threads + 40 places can overrun the queue while threads that are idle
  wake up.

The conditions of the runs name further places where the code does less than
one might expect; each is found by TLC when the condition is dropped:

* `serial` has no pause: a config paused over a success keeps its streak, so after
  the resume failures on both sides of the success count as one run
  (`VisibleDownEndsRun`).
* `serial` has e-mail only: a webhook that answers 4xx ends the task normally, the
  flag stays set, and a recovery follows for an outage nobody was told about
  (`RecoveryOnlyIfTold`).
* `serial` has no `commit_unknown`: a connection lost while COMMIT is answered
  makes the retry write a second row; so `OneRowPerDispatch` allows it for later
  attempts where that fault may occur.
* `ToldOutageRecovers` excludes configs with a given-up alert: an alert of an
  earlier outage that is given up during a later one clears the later one's flag.
* `FlagHonest` is checked without `handler_error`: Celery swallows what the failure
  handler raises, and the flag stays.
* `Converges` is about pages that got past their first snapshot: if that fails,
  `begin()` opens no socket and starts no poll, and nothing asks again.

Reading the code for the models showed more that no run is about:

* A refused WebSocket handshake closes with 1006 in a browser, not with the 1008
  that `onclose` looks for, so a page with an expired token retries until its poll
  is answered with 401 (`onclose` models it so).
* `visibilitychange` before the first snapshot opens a socket, and `begin()` a second
  one; `onclose` of either clears the variable of both. Harmless to what is shown.
* README.md:84 says of a dropped update that the next check publishes again; a
  check publishes only a change of state. The poll repairs it.
* A snapshot without a result does not clear a row that has one, so the purge of
  an endpoint's last result never shows on an open page.
* The comment at `DispatcherApp.java:64-66` asks for a connection per probe thread;
  the pool has half as many and two.
* `catch (Exception)` in `Dispatcher.run` leaves Errors, which would cancel the tick.
* A url that `URI.create` refuses is claimed again and again without a row.
* Requests that count a user's endpoints at the same time can together pass
  `MAX_ENDPOINTS_PER_USER`, by one less than there are threads (`QuotaOvershoot` is
  exact), and the list's default limit of 30 hides what is beyond it.
* `enforce` says that it counts one request; one whose answer from Redis is lost is
  counted again by redis-py's retry, and may be refused for it.
* README.md:360 says that login is limited by address; it is limited by email as
  well.
* The counts and the incidents of the analytics come from two statements, so a
  check that is recorded between them is in one of them only:
  `SummaryMatchesIncidents` says that this is all they may differ by. The uptime is
  rounded, so a page with incidents can show 100 %.
* A login that looked for the user before the registration committed compares the
  password with the dummy hash, and may answer 401 after the registration was
  answered; `AccountLogsIn` is about logins that come in after the answer.
* Of two deletions of one endpoint that both found it, both answer 204.
* `NoticesMatchIncidents` is about results that were committed in the order of
  `checked_at`: an alert counts in the order of commits and the page in the other,
  so that with overlapping checks they may tell different stories.

## Not modelled

* Two alert configs of different users on one endpoint: users own their
  endpoints, so there is one owner.
* A crash between a successful delivery and its acknowledgement in the retry path
  delivers twice; `told` records that it was delivered, not how often.
* Probe timing: httpx's timeout is per operation, so a probe can last longer than
  10 s; in the pipeline checks may take arbitrarily long, in the schedule
  `CheckTime` stands for it.
* In the analytics: percentiles, the rounded uptime, the error that an incident
  shows, and the deletion of the endpoint between the two statements.
* In the API: hashing and signatures (library calls; a token is who it is for and
  until when), the pool of database connections, the lists (they only read), and
  the kill of the API between Redis's count and its answer, which no later request
  can tell from a request that was counted. When Redis saves is left open: a
  restart brings any smaller counts back.
* The page of one endpoint and the login page: the one refreshes a single row after
  its own requests, the other is a form around one request.
* The SSRF predicate (DNS), metrics and logging (never read back, except the
  overdue gauge), configuration, migrations and the seed script (run alone).

## Plan

1. `NoStarvation` for several dispatchers: the bound has to count the claims that
   overlap, and PATCHes each by one.
2. A contract with pauses, which says what a resumed config may still announce
   (the hazard at `app/dispatcher.py:136` has no property yet).
3. The page of one endpoint, whose refreshes overtake each other.
