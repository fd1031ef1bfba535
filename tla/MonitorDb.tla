------------------------------ MODULE MonitorDb ------------------------------
(***************************************************************************)
(* The shared state of the alert pipeline for ONE monitored endpoint: the  *)
(* PostgreSQL tables that perform_check, the alert tasks and the API read  *)
(* and write (endpoint, checkresult, alertconfig, alertstate), the Celery  *)
(* broker with its checks and alerts, the Redis channel of status changes, *)
(* and what every running perform_check holds in memory and has locked.    *)
(*                                                                         *)
(* Endpoints share no row with one another (every statement filters on     *)
(* endpoint_id or config_id), so one endpoint with several alert configs   *)
(* and several overlapping checks carries all of the interference.         *)
(***************************************************************************)
EXTENDS Integers, Sequences, FiniteSets

CONSTANTS
  Task,           \* checks the dispatcher will enqueue, numbered in checked_at order
  Config,         \* ids an alert config may get; an id is never used again
  InitialConfig,  \* the configs the user created before the first check
  Status,         \* what a probe may measure: HTTP codes, or NoResponse
  NoResponse,     \* status_code IS NULL
  Threshold,      \* thresholds users choose: any integer, the models check no range
  Channel,        \* the alert channels in use
  CheckRetries,   \* max_retries of perform_check (3)
  AlertRetries,   \* max_retries of the send tasks (5)
  WorkerSlots,    \* processes in the Celery worker's pool
  Faults,         \* the failures the environment may inflict, see FaultKind
  UserActions     \* the alert routes in use, see UserActionKind

FaultKind ==
  { "child_killed",    \* a pool process dies (OOM killer) and is replaced
    "worker_killed",   \* the whole worker dies and is restarted
    "dispatch_lost",   \* the dispatcher dies between its commit and apply_async
    "db_error",        \* a statement raises OperationalError, the transaction is undone
    "commit_unknown",  \* the connection breaks after COMMIT took effect
    "broker_down",     \* .delay() raises
    "probe_raises",    \* httpx.get raises something that is no HTTPError
    "publish_lost",    \* Redis refuses the status change
    "send_error",      \* a delivery fails with an exception that is retried
    "send_fatal",      \* a delivery fails with an exception that is not
    "handler_error" }  \* handle_alert_exhausted itself raises

UserActionKind == {"add", "update", "pause", "delete", "delete_endpoint"}

ASSUME TaskAssumption == Task \subseteq Nat /\ IsFiniteSet(Task)
ASSUME ConfigAssumption == InitialConfig \subseteq Config /\ IsFiniteSet(Config)
ASSUME StatusAssumption == Status \subseteq Int \cup {NoResponse}
ASSUME ThresholdAssumption == Threshold \subseteq Int /\ Threshold # {}
ASSUME ChannelAssumption == Channel \subseteq {"email", "webhook"} /\ Channel # {}
ASSUME RetriesAssumption == CheckRetries \in Nat /\ AlertRetries \in Nat
ASSUME WorkerAssumption == WorkerSlots \in Nat \ {0}
ASSUME FaultsAssumption == Faults \subseteq FaultKind
ASSUME UserAssumption == UserActions \subseteq UserActionKind
-----------------------------------------------------------------------------
VARIABLES
  \* PostgreSQL, committed rows
  endpoint,     \* the endpoint row exists
  results,      \* checkresult, in the order the rows were committed
  config,       \* alertconfig, by id
  alertstate,   \* alertstate, by config id
  \* Redis
  alerts,       \* every alert ever queued for the send tasks
  delivery,     \* what became of each of them
  published,    \* results whose status change reached the dashboard channel
  \* one perform_check per dispatched check
  pc,           \* where the task is
  attempt,      \* which delivery of the task this is: 0, then one more per retry
  status,       \* the measured status_code
  publish,      \* should_publish
  todo,         \* alert_rows not evaluated yet, as they were loaded
  old,          \* state rows as loaded
  new,          \* state rows as modified in the session
  flushed       \* state rows whose UPDATE was sent: this transaction has them locked

dbVars    == <<endpoint, results, config, alertstate>>
alertVars == <<alerts, delivery>>
sessVars  == <<todo, old, new, flushed>>
taskVars  == <<pc, attempt, status, publish, sessVars>>
vars      == <<dbVars, alertVars, published, taskVars>>

Attempt  == 0..CheckRetries
StatusCode == Status \cup {NoResponse}
Row      == [task: Task, attempt: Attempt, status: StatusCode]
Life     == {"unborn", "live", "deleted"}
ConfigRow == [life: Life, threshold: Threshold, channel: Channel, is_active: BOOLEAN]
StateRow == [exists: BOOLEAN, streak: Nat, sent: BOOLEAN]
Alert    == [config: Config, task: Task, attempt: Attempt,
             kind: {"down", "recovery"}, channel: Channel]
Loaded   == [config: Config, threshold: Threshold, channel: Channel]

\* A send task's message: waiting, running, in its failure handler inside the
\* pool process, in the handler inside the worker's parent process (its own
\* process died), or over: completed, or given up.
Stage    == {"queued", "sending", "failing", "orphaned", "completed", "given_up"}
Delivery == [stage: Stage, retries: 0..AlertRetries, told: BOOLEAN]

PC == {"idle", "queued", "probed", "evaluating", "committed", "done", "failed", "lost"}

\* The task occupies a pool process.
RunningCheck == {"probed", "evaluating", "committed"}
SettledCheck == {"done", "failed", "lost"}
SettledAlert == {"completed", "given_up"}

\* AlertState(config_id=...): the defaults of a row that is not there yet.
NoRow    == [exists |-> FALSE, streak |-> 0, sent |-> FALSE]
FreshRow == [exists |-> TRUE, streak |-> 0, sent |-> FALSE]

\* The id is not given out yet; the columns mean nothing.
NoConfig == [life |-> "unborn", threshold |-> CHOOSE k \in Threshold : TRUE,
             channel |-> CHOOSE ch \in Channel : TRUE, is_active |-> FALSE]

\* A process of the pool is free. Checks and alerts share the pool.
SlotFree ==
  Cardinality({t \in Task : pc[t] \in RunningCheck})
    + Cardinality({a \in alerts : delivery[a].stage \in {"sending", "failing"}})
  < WorkerSlots

\* Some transaction other than t's has c's state row locked.
LockedByOther(t, c) == \E u \in Task \ {t} : c \in flushed[u]
Locked(c) == \E u \in Task : c \in flushed[u]

TypeOK ==
  /\ endpoint \in BOOLEAN
  /\ results \in Seq(Row)
  /\ config \in [Config -> ConfigRow]
  /\ alertstate \in [Config -> StateRow]
  /\ alerts \in SUBSET Alert
  /\ delivery \in [alerts -> Delivery]
  /\ published \in SUBSET Row
  /\ pc \in [Task -> PC]
  /\ attempt \in [Task -> Attempt]
  /\ status \in [Task -> StatusCode]
  /\ publish \in [Task -> BOOLEAN]
  /\ todo \in [Task -> SUBSET Loaded]
  /\ old \in [Task -> [Config -> StateRow]]
  /\ new \in [Task -> [Config -> StateRow]]
  /\ flushed \in [Task -> SUBSET Config]

Init ==
  /\ endpoint = TRUE
  /\ results = <<>>
  /\ config \in {f \in [Config -> ConfigRow] :
                  /\ \A c \in InitialConfig : f[c].life = "live" /\ f[c].is_active
                  /\ \A c \in Config \ InitialConfig : f[c] = NoConfig}
  /\ alertstate = [c \in Config |-> IF c \in InitialConfig THEN FreshRow ELSE NoRow]
  /\ alerts = {}
  /\ delivery = [a \in {} |-> {}]
  /\ published = {}
  /\ pc = [t \in Task |-> "idle"]
  /\ attempt = [t \in Task |-> 0]
  /\ status = [t \in Task |-> NoResponse]
  /\ publish = [t \in Task |-> FALSE]
  /\ todo = [t \in Task |-> {}]
  /\ old = [t \in Task |-> [c \in Config |-> NoRow]]
  /\ new = [t \in Task |-> [c \in Config |-> NoRow]]
  /\ flushed = [t \in Task |-> {}]
=============================================================================
