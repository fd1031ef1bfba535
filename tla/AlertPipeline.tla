---------------------------- MODULE AlertPipeline ----------------------------
(***************************************************************************)
(* The alert pipeline of one endpoint: overlapping perform_check tasks,    *)
(* the send tasks, the worker they share, and the user's changes to the    *)
(* alert settings, all on the same tables.                                 *)
(***************************************************************************)
EXTENDS PerformCheck, AlertDelivery, AlertSettings

\* Mutant: perform_check is acknowledged late too, so a check that dies after
\* its commit is redelivered.
WorkerKilledLateAck ==
  /\ "worker_killed" \in Faults
  /\ delivery' = [a \in alerts |->
       [delivery[a] EXCEPT !.stage = IF @ \in {"sending", "failing"} THEN "queued" ELSE @]]
  /\ pc' = [t \in Task |-> IF pc[t] \in RunningCheck THEN "queued" ELSE pc[t]]
  /\ status' = [t \in Task |-> NoResponse]
  /\ publish' = [t \in Task |-> FALSE]
  /\ todo' = [t \in Task |-> {}]
  /\ old' = [t \in Task |-> [c \in Config |-> NoRow]]
  /\ new' = [t \in Task |-> [c \in Config |-> NoRow]]
  /\ flushed' = [t \in Task |-> {}]
  /\ UNCHANGED <<dbVars, alerts, published, attempt>>

\* The worker dies with everything in its pool. A perform_check was already
\* acknowledged and is lost; a send task was not and is redelivered, with or
\* without (told) its first run having reached the user.
WorkerKilled ==
  /\ "worker_killed" \in Faults
  /\ \E told \in SUBSET Stages({"sending"}) :
       delivery' = [a \in alerts |->
         [delivery[a] EXCEPT !.stage = IF @ \in {"sending", "failing"} THEN "queued" ELSE @,
                             !.told = @ \/ a \in told]]
  /\ pc' = [t \in Task |-> IF pc[t] \in RunningCheck THEN "lost" ELSE pc[t]]
  /\ status' = [t \in Task |-> NoResponse]
  /\ publish' = [t \in Task |-> FALSE]
  /\ todo' = [t \in Task |-> {}]
  /\ old' = [t \in Task |-> [c \in Config |-> NoRow]]
  /\ new' = [t \in Task |-> [c \in Config |-> NoRow]]
  /\ flushed' = [t \in Task |-> {}]
  /\ UNCHANGED <<dbVars, alerts, published, attempt>>

\* What the program does by itself, step by step.
CheckStep(t) ==
  \/ Probe(t)
  \/ InsertAndLoad(t)
  \/ InsertFails(t)
  \/ \E r \in todo[t] : Evaluate(t, r)
  \/ FlushFails(t)
  \/ Commit(t)
  \/ DeadlockVictim(t)
  \/ Publish(t)

SendStep(a) ==
  \/ StartSend(a)
  \/ SendOk(a)
  \/ WebhookRejected(a)
  \/ handle_alert_exhausted(a)

CheckFault(t) ==
  \/ DispatchLost(t)
  \/ ProbeRaises(t)
  \/ \E r \in todo[t] : BrokerDown(t, r)
  \/ DbError(t)
  \/ CommitUnknown(t)
  \/ PublishFails(t)
  \/ CheckChildKilled(t)

SendFault(a) ==
  \/ \E told \in BOOLEAN : SendError(a, told)
  \/ SendFatal(a)
  \/ \E told \in BOOLEAN : AlertChildKilled(a, told)
  \/ HandlerError(a)

UserStep ==
  \/ \E c \in Config, k \in Threshold, ch \in Channel, active \in BOOLEAN :
       \/ add_alert(c, k, ch, active)
       \/ update_alert(c, k, ch, active)
  \/ \E c \in Config : delete_alert(c)
  \/ delete_endpoint

\* Every check is over (or will never be claimed) and so is every alert.
Terminated ==
  /\ \A t \in Task : pc[t] \in SettledCheck \/ (pc[t] = "idle" /\ ~endpoint)
  /\ \A a \in alerts : delivery[a].stage \in SettledAlert
  /\ UNCHANGED vars

Next ==
  \/ \E t \in Task : dispatch_due_checks(t) \/ CheckStep(t) \/ CheckFault(t)
  \/ \E a \in alerts : SendStep(a) \/ SendFault(a)
  \/ WorkerKilled
  \/ UserStep
  \/ Terminated

Spec == Init /\ [][Next]_vars

\* The pool does not idle: while some check can go on, some check does, and
\* the same for the alerts. A deadlock is broken as one of these steps.
\* Nothing is assumed of the dispatcher, the user, or the faults.
Fairness ==
  /\ WF_vars(\E t \in Task : CheckStep(t))
  /\ WF_vars(\E a \in alerts : SendStep(a))

FairSpec == Spec /\ Fairness
-----------------------------------------------------------------------------
(* Vocabulary of the properties *)

FailedRows == {i \in DOMAIN results : ~is_up_for(results[i].status)}

\* The rows that the attempt which queued alert a committed.
RowsOf(a) == {i \in DOMAIN results :
                results[i].task = a.task /\ results[i].attempt = a.attempt}

DownAlerts(c) == {a \in alerts : a.config = c /\ a.kind = "down"}

\* The user was told, or may still be.
Promising(a) == delivery[a].told \/ delivery[a].stage \notin SettledAlert
-----------------------------------------------------------------------------
(* Safety *)

\* A live alert config has its state row and a config that is gone has none:
\* a check that still holds a deleted row never brings it back.
StateRowPerConfig ==
  \A c \in Config : alertstate[c].exists <=> config[c].life = "live"

\* A recovery alert is queued only for a config that a committed check had
\* marked as alerted: some down alert of that config was queued by an attempt
\* whose result row is in the history. Alerts queued by attempts that were
\* rolled back never lead to a recovery.
RecoveryAnswersDown ==
  endpoint => \A a \in alerts : a.kind = "recovery" =>
                \E d \in DownAlerts(a.config) : RowsOf(d) # {}

\* current_streak never counts a failure that the history does not show:
\* retried, killed and rolled back attempts are not counted, overlapping
\* checks may only lose counts.
StreakBacked ==
  \A c \in Config : alertstate[c].streak <= Cardinality(FailedRows)

\* A down alert is queued only when the failures on record, with the one
\* being recorded, reach the threshold the check works with.
DownNeedsFailures ==
  [][\A a \in alerts' \ alerts : a.kind = "down" =>
       \E r \in todo[a.task] : /\ r.config = a.config
                               /\ r.threshold <= Cardinality(FailedRows) + 1]_vars

\* The dashboard is only told of results that the database holds: the publish
\* comes after the commit.
NoPhantomUpdate ==
  endpoint => \A e \in published : \E i \in DOMAIN results : results[i] = e

\* A dispatched check is recorded once, however often it is rolled back, cancelled
\* or killed. Only a COMMIT whose answer is lost makes a later attempt record it
\* again - always a later one: what an attempt recorded, it never does twice.
OneRowPerDispatch ==
  \A i, j \in DOMAIN results :
    (i < j /\ results[i].task = results[j].task)
      => results[i].attempt < results[j].attempt /\ "commit_unknown" \in Faults

\* alert_sent stands for a down alert that reached the user or still may.
FlagHonest ==
  \A c \in Config : alertstate[c].sent => \E a \in DownAlerts(c) : Promising(a)

\* A recovery message is queued only while some down alert of the config
\* reached the user or still may.
RecoveryOnlyIfTold ==
  [][\A a \in alerts' \ alerts : a.kind = "recovery" =>
       \E d \in DownAlerts(a.config) : Promising(d)]_vars

\* A user who was told of an outage is also sent the recovery: the first
\* successful check on record after a down alert that was delivered has
\* queued a recovery for the same config. (A down alert of an earlier outage
\* that is given up late clears the flag of the present one: see README.)
ToldOutageRecovers ==
  \A a \in alerts :
    (a.kind = "down" /\ delivery[a].stage = "completed" /\ delivery[a].told
       /\ config[a.config].life = "live"
       /\ \A d \in DownAlerts(a.config) : delivery[d].stage # "given_up")
    => \A i \in RowsOf(a), j \in DOMAIN results :
         (i < j /\ j \notin FailedRows /\ (i+1)..(j-1) \subseteq FailedRows)
         => \E b \in alerts : /\ b.kind = "recovery" /\ b.config = a.config
                              /\ j \in RowsOf(b)

\* Where the environment does no harm, a check that fails before its retries
\* are used up fails because the user deleted what it was working on.
FailureExplained ==
  \A t \in Task : (pc[t] = "failed" /\ attempt[t] < CheckRetries) =>
    ~endpoint \/ \E c \in Config : config[c].life = "deleted"
-----------------------------------------------------------------------------
(* Liveness *)

\* Every enqueued check comes to an end: transactions that wait for each
\* other's rows, retries and deletions never leave one hanging.
EveryCheckSettles ==
  <>[](\A t \in Task : pc[t] \in SettledCheck \cup {"idle"})

\* Every queued alert is eventually delivered, rejected or given up, the
\* clearing of its config's flag included.
EveryAlertSettles ==
  <>[](\A a \in alerts : delivery[a].stage \in SettledAlert)
-----------------------------------------------------------------------------
(* What the owner of the endpoint sees: the committed checks, and the alerts *)
(* that committed checks queued.                                             *)

VisibleNotices ==
  {[config |-> q[1].config, at |-> q[2], kind |-> q[1].kind] :
     q \in {p \in alerts \X DOMAIN results : p[2] \in RowsOf(p[1])}}

History    == [i \in DOMAIN results |-> is_up_for(results[i].status)]
Thresholds == [c \in Config |-> config[c].threshold]
Watched    == {c \in Config : config[c].life = "live"}
Streaks    == [c \in Config |-> alertstate[c].streak]
Flags      == [c \in Config |-> alertstate[c].sent]

Contract == INSTANCE AlertContract WITH
  history <- History, threshold <- Thresholds, watched <- Watched,
  streak <- Streaks, sent <- Flags, notices <- VisibleNotices

\* With one process in the pool, the interruptible, retried and crashing
\* pipeline does what AlertContract says, one recorded check at a time.
ImplementsContract == Contract!CSpec

\* Down alerts of recorded checks end a run of failures of threshold length.
VisibleDownEndsRun == Contract!DownEndsRun

\* Recovery alerts of recorded checks end an announced outage.
VisibleRecoveryEndsOutage == Contract!RecoveryEndsOutage
=============================================================================
