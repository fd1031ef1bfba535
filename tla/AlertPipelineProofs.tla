------------------------- MODULE AlertPipelineProofs -------------------------
(***************************************************************************)
(* Theorems about AlertPipeline for every set of checks and configs, every *)
(* number of retries and pool processes, and every combination of faults   *)
(* and user actions that the statement does not exclude.                   *)
(***************************************************************************)
EXTENDS AlertPipeline, FiniteSetTheorems, TLAPS

USE TaskAssumption, ConfigAssumption, StatusAssumption, ThresholdAssumption,
    ChannelAssumption, RetriesAssumption

-----------------------------------------------------------------------------
(* Type correctness *)

\* The rows the model starts and ends a configuration with are rows of the tables.
LEMMA RowTypes ==
  /\ NoRow \in StateRow
  /\ FreshRow \in StateRow
  /\ NoConfig \in ConfigRow
BY DEF NoRow, FreshRow, NoConfig, StateRow, ConfigRow, Life

\* The part of TypeOK about the running tasks.
TaskTypeOK ==
  /\ pc \in [Task -> PC]
  /\ attempt \in [Task -> Attempt]
  /\ status \in [Task -> StatusCode]
  /\ publish \in [Task -> BOOLEAN]
  /\ todo \in [Task -> SUBSET Loaded]
  /\ old \in [Task -> [Config -> StateRow]]
  /\ new \in [Task -> [Config -> StateRow]]
  /\ flushed \in [Task -> SUBSET Config]

\* The tables, queues and tasks start with their types.
LEMMA InitType == Init => TypeOK
<1> SUFFICES ASSUME Init PROVE TypeOK
  OBVIOUS
<1>1. results \in Seq(Row)
  BY DEF Init
<1>2. config \in [Config -> ConfigRow] /\ alertstate \in [Config -> StateRow]
  BY RowTypes DEF Init
<1>3. alerts \in SUBSET Alert /\ delivery \in [alerts -> Delivery]
  BY DEF Init
<1>4. endpoint \in BOOLEAN /\ published \in SUBSET Row
  BY DEF Init
<1>5. TaskTypeOK
  BY RowTypes DEF Init, TaskTypeOK, PC, Attempt, StatusCode
<1> QED BY <1>1, <1>2, <1>3, <1>4, <1>5 DEF TypeOK, TaskTypeOK

\* Closing a task's session (commit, rollback or crash) leaves every session typed.
LEMMA CloseSessionType ==
  ASSUME TypeOK, NEW t \in Task, CloseSession(t)
  PROVE  /\ todo' \in [Task -> SUBSET Loaded]
         /\ old' \in [Task -> [Config -> StateRow]]
         /\ new' \in [Task -> [Config -> StateRow]]
         /\ flushed' \in [Task -> SUBSET Config]
BY RowTypes DEF TypeOK, CloseSession

\* Ending an attempt of check_endpoint leaves the task variables typed.
LEMMA EndType ==
  ASSUME TypeOK, NEW t \in Task, NEW p \in PC, End(t, p),
         attempt' \in [Task -> Attempt]
  PROVE  TaskTypeOK'
<1>1. pc' \in [Task -> PC] /\ status' \in [Task -> StatusCode]
      /\ publish' \in [Task -> BOOLEAN]
  BY DEF TypeOK, End, StatusCode
<1> QED BY <1>1, CloseSessionType DEF End, TaskTypeOK

\* self.retry leaves the task variables typed: the attempt counter stops at its limit.
LEMMA RetryType ==
  ASSUME TypeOK, NEW t \in Task, Retry(t)
  PROVE  TaskTypeOK'
<1>1. attempt' \in [Task -> Attempt]
  BY DEF TypeOK, Retry, Attempt
<1>2. PICK p \in PC : End(t, p)
  BY DEF Retry, PC
<1> QED BY <1>1, <1>2, EndType

\* send_alert.delay adds an alert with a typed delivery record.
LEMMA QueueAlertType ==
  ASSUME TypeOK, NEW a \in Alert, queue_alert(a)
  PROVE  alerts' \in SUBSET Alert /\ delivery' \in [alerts' -> Delivery]
<1>1. [stage |-> "queued", retries |-> 0, told |-> FALSE] \in Delivery
  BY DEF Delivery, Stage
<1> QED BY <1>1 DEF TypeOK, queue_alert

\* evaluate_alerts computes a typed alertstates row from a typed one.
LEMMA NextStateType ==
  ASSUME NEW up \in BOOLEAN, NEW s \in StateRow, NEW k \in Int
  PROVE  NextState(up, s, k) \in StateRow
BY DEF NextState, StateRow

\* The UPDATE that a flush issues writes a typed row.
LEMMA WrittenType ==
  ASSUME NEW s \in StateRow, NEW o \in StateRow, NEW n \in StateRow
  PROVE  Written(s, o, n) \in StateRow
BY DEF Written, StateRow

\* A commit of perform_check leaves the tables typed.
LEMMA ApplyWritesType ==
  ASSUME TypeOK, NEW t \in Task, ApplyWrites(t)
  PROVE  /\ endpoint' \in BOOLEAN
         /\ results' \in Seq(Row)
         /\ config' \in [Config -> ConfigRow]
         /\ alertstate' \in [Config -> StateRow]
<1>1. MyRow(t) \in Row
  BY DEF TypeOK, MyRow, Row
<1>2. results' \in Seq(Row)
  BY <1>1 DEF TypeOK, ApplyWrites
<1>3. alertstate' \in [Config -> StateRow]
  BY WrittenType DEF TypeOK, ApplyWrites
<1> QED BY <1>2, <1>3 DEF TypeOK, ApplyWrites

\* One configuration's turn in evaluate_alerts preserves the types.
LEMMA EvaluateType ==
  ASSUME TypeOK, NEW t \in Task, NEW r \in todo[t], Evaluate(t, r)
  PROVE  TypeOK'
<1> DEFINE c == r.config
           up == is_up_for(status[t])
<1>0. r \in Loaded
  BY DEF TypeOK
<1>1. c \in Config /\ r.threshold \in Int /\ r.channel \in Channel
  BY <1>0 DEF Loaded
<1>2. alertstate[c] \in StateRow /\ up \in BOOLEAN
  BY <1>1 DEF TypeOK, is_up_for
<1>3. NextState(up, alertstate[c], r.threshold) \in StateRow
  BY <1>1, <1>2, NextStateType
<1>4. alerts' \in SUBSET Alert /\ delivery' \in [alerts' -> Delivery]
  <2>1. CASE AlertDue(up, alertstate[c], r.threshold)
    <3> DEFINE a == [config |-> c, task |-> t, attempt |-> attempt[t],
                     kind |-> IF up THEN "recovery" ELSE "down", channel |-> r.channel]
    <3>1. a \in Alert
      BY <1>1 DEF TypeOK, Alert
    <3>2. queue_alert(a)
      BY <2>1 DEF Evaluate
    <3> QED BY <3>1, <3>2, QueueAlertType
  <2>2. CASE ~AlertDue(up, alertstate[c], r.threshold)
    BY <2>2 DEF Evaluate, alertVars, TypeOK
  <2> QED BY <2>1, <2>2
<1>5. old' \in [Task -> [Config -> StateRow]] /\ new' \in [Task -> [Config -> StateRow]]
  BY <1>1, <1>2, <1>3 DEF Evaluate, TypeOK
<1>6. todo' \in [Task -> SUBSET Loaded] /\ flushed' \in [Task -> SUBSET Config]
  BY DEF Evaluate, TypeOK, Dirty
<1> QED BY <1>4, <1>5, <1>6 DEF Evaluate, TypeOK, dbVars

\* The commit of perform_check preserves the types.
LEMMA CommitType ==
  ASSUME TypeOK, NEW t \in Task, Commit(t)
  PROVE  TypeOK'
<1>1. ApplyWrites(t) /\ UNCHANGED <<alertVars, published, attempt>>
  BY DEF Commit
<1>2. TaskTypeOK'
  <2>1. CASE publish[t]
    <3>1. pc' \in [Task -> PC] /\ UNCHANGED <<attempt, status, publish>> /\ CloseSession(t)
      BY <2>1 DEF Commit, TypeOK, PC
    <3> QED BY <3>1, CloseSessionType DEF TypeOK, TaskTypeOK
  <2>2. CASE ~publish[t]
    <3>1. End(t, "done")
      BY <2>2 DEF Commit
    <3>2. "done" \in PC /\ attempt' \in [Task -> Attempt]
      BY <1>1 DEF TypeOK, PC
    <3> QED BY <3>1, <3>2, EndType
  <2> QED BY <2>1, <2>2
<1> QED BY <1>1, <1>2, ApplyWritesType DEF TypeOK, TaskTypeOK, alertVars

\* The ends that leave the tables, the broker and the channel alone.
LEMMA QuietEndType ==
  ASSUME TypeOK, NEW t \in Task, NEW p \in {"done", "failed", "lost"}, End(t, p),
         UNCHANGED <<dbVars, alertVars, attempt>>, published' \in SUBSET Row
  PROVE  TypeOK'
<1>1. p \in PC /\ attempt' \in [Task -> Attempt]
  BY DEF TypeOK, PC
<1>2. TaskTypeOK'
  BY <1>1, EndType
<1> QED BY <1>2 DEF TypeOK, TaskTypeOK, dbVars, alertVars

\* Every step of a check that goes well preserves the types.
LEMMA CheckStepType ==
  ASSUME TypeOK, NEW t \in Task, CheckStep(t)
  PROVE  TypeOK'
<1>1. CASE Probe(t)
  BY <1>1 DEF Probe, TypeOK, PC, StatusCode, dbVars, alertVars, sessVars
<1>2. CASE InsertAndLoad(t)
  <2>1. todo' \in [Task -> SUBSET Loaded]
    BY <1>2 DEF InsertAndLoad, TypeOK, Loaded, ConfigRow
  <2> QED BY <1>2, <2>1 DEF InsertAndLoad, TypeOK, PC, dbVars, alertVars
<1>3. CASE InsertFails(t)
  BY <1>3, QuietEndType DEF InsertFails, TypeOK
<1>4. CASE \E r \in todo[t] : Evaluate(t, r)
  BY <1>4, EvaluateType
<1>5. CASE FlushFails(t)
  BY <1>5, QuietEndType DEF FlushFails, TypeOK
<1>6. CASE Commit(t)
  BY <1>6, CommitType
<1>7. CASE DeadlockVictim(t)
  <2>1. TaskTypeOK'
    BY <1>7, RetryType DEF DeadlockVictim
  <2> QED BY <1>7, <2>1 DEF DeadlockVictim, TypeOK, TaskTypeOK, dbVars, alertVars
<1>8. CASE Publish(t)
  <2>1. MyRow(t) \in Row
    BY DEF TypeOK, MyRow, Row
  <2> QED BY <1>8, <2>1, QuietEndType DEF Publish, TypeOK
<1> QED BY <1>1, <1>2, <1>3, <1>4, <1>5, <1>6, <1>7, <1>8 DEF CheckStep

\* Every failure of a check preserves the types.
LEMMA CheckFaultType ==
  ASSUME TypeOK, NEW t \in Task, CheckFault(t)
  PROVE  TypeOK'
<1>1. CASE DispatchLost(t)
  BY <1>1 DEF DispatchLost, TypeOK, PC, dbVars, alertVars, sessVars
<1>2. CASE ProbeRaises(t)
  BY <1>2, QuietEndType DEF ProbeRaises, TypeOK
<1>3. CASE \E r \in todo[t] : BrokerDown(t, r)
  BY <1>3, QuietEndType DEF BrokerDown, TypeOK
<1>4. CASE DbError(t)
  <2>1. TaskTypeOK'
    BY <1>4, RetryType DEF DbError
  <2> QED BY <1>4, <2>1 DEF DbError, TypeOK, TaskTypeOK, dbVars, alertVars
<1>5. CASE CommitUnknown(t)
  <2>1. TaskTypeOK'
    BY <1>5, RetryType DEF CommitUnknown
  <2> QED BY <1>5, <2>1, ApplyWritesType DEF CommitUnknown, TypeOK, TaskTypeOK, alertVars
<1>6. CASE PublishFails(t)
  BY <1>6, QuietEndType DEF PublishFails, TypeOK
<1>7. CASE CheckChildKilled(t)
  BY <1>7, QuietEndType DEF CheckChildKilled, TypeOK
<1> QED BY <1>1, <1>2, <1>3, <1>4, <1>5, <1>6, <1>7 DEF CheckFault

\* Moving a delivery to its next stage leaves it typed.
LEMMA MoveType ==
  ASSUME TypeOK, NEW a \in alerts, NEW s \in Stage, NEW told \in BOOLEAN, Move(a, s, told)
  PROVE  alerts' \in SUBSET Alert /\ delivery' \in [alerts' -> Delivery]
<1> DEFINE d == [delivery[a] EXCEPT !.stage = s, !.told = @ \/ told]
<1>1. /\ alerts \in SUBSET Alert /\ delivery \in [alerts -> Delivery]
      /\ delivery[a] \in Delivery
  BY DEF TypeOK
<1>2. delivery[a].told \/ told \in BOOLEAN
  OBVIOUS
<1>3. d \in Delivery
  BY <1>1, <1>2 DEF Delivery
<1>4. delivery' = [delivery EXCEPT ![a] = d] /\ alerts' = alerts
  BY <1>1 DEF Move
<1> QED BY <1>1, <1>3, <1>4

\* Every step of send_alert that goes well preserves the types.
LEMMA SendStepType ==
  ASSUME TypeOK, NEW a \in alerts, SendStep(a)
  PROVE  TypeOK'
<1> USE DEF dbVars, taskVars, sessVars
<1>0. {"sending", "completed", "given_up"} \subseteq Stage
  BY DEF Stage
<1>1. CASE StartSend(a)
  BY <1>0, <1>1, MoveType DEF StartSend, TypeOK
<1>2. CASE SendOk(a)
  BY <1>0, <1>2, MoveType DEF SendOk, TypeOK
<1>3. CASE WebhookRejected(a)
  BY <1>0, <1>3, MoveType DEF WebhookRejected, TypeOK
<1>4. CASE handle_alert_exhausted(a)
  <2>1. alerts' \in SUBSET Alert /\ delivery' \in [alerts' -> Delivery]
    BY <1>0, <1>4, MoveType DEF handle_alert_exhausted
  <2>2. alertstate' \in [Config -> StateRow]
    <3>1. a.config \in Config
      BY DEF TypeOK, Alert
    <3>2. [alertstate[a.config] EXCEPT !.sent = FALSE] \in StateRow
      <4>1. alertstate[a.config] \in StateRow
        BY <3>1 DEF TypeOK
      <4> QED BY <4>1 DEF StateRow
    <3>3. CASE a.kind = "down"
      <4>1. alertstate' = [alertstate EXCEPT ![a.config] = [alertstate[a.config] EXCEPT !.sent = FALSE]]
        BY <1>4, <3>3 DEF handle_alert_exhausted, mark_alert_undelivered
      <4> QED BY <3>1, <3>2, <4>1 DEF TypeOK
    <3>4. CASE a.kind # "down"
      BY <1>4, <3>4 DEF handle_alert_exhausted, TypeOK
    <3> QED BY <3>3, <3>4
  <2> QED BY <1>4, <2>1, <2>2 DEF handle_alert_exhausted, TypeOK
<1> QED BY <1>1, <1>2, <1>3, <1>4 DEF SendStep

\* Every failure of send_alert preserves the types.
LEMMA SendFaultType ==
  ASSUME TypeOK, NEW a \in alerts, SendFault(a)
  PROVE  TypeOK'
<1> USE DEF dbVars, taskVars, sessVars
<1>0. {"failing", "orphaned", "given_up"} \subseteq Stage
  BY DEF Stage
<1>1. CASE \E told \in BOOLEAN : SendError(a, told)
  <2>1. delivery' \in [alerts -> Delivery]
    <3>1. PICK told \in BOOLEAN : SendError(a, told)
      BY <1>1
    <3>2. delivery[a] \in Delivery
      BY DEF TypeOK
    <3> DEFINE again == delivery[a].retries < AlertRetries
               d == [delivery[a] EXCEPT
                       !.stage = IF again THEN "queued" ELSE "failing",
                       !.retries = IF again THEN @ + 1 ELSE @,
                       !.told = @ \/ told]
    <3>3. d.stage \in Stage /\ d.retries \in 0..AlertRetries
      BY <3>2 DEF Delivery, Stage
    <3>4. d.told \in BOOLEAN
      BY <3>2 DEF Delivery
    <3>5. d \in Delivery
      BY <3>2, <3>3, <3>4 DEF Delivery
    <3>6. delivery' = [delivery EXCEPT ![a] = d]
      BY <3>1 DEF SendError, TypeOK
    <3> QED BY <3>5, <3>6 DEF TypeOK
  <2> QED BY <1>1, <2>1 DEF SendError, TypeOK
<1>2. CASE SendFatal(a)
  BY <1>0, <1>2, MoveType DEF SendFatal, TypeOK
<1>3. CASE \E told \in BOOLEAN : AlertChildKilled(a, told)
  <2>1. PICK told \in BOOLEAN : AlertChildKilled(a, told)
    BY <1>3
  <2>2. Move(a, "orphaned", told)
    BY <2>1 DEF AlertChildKilled
  <2>3. alerts' \in SUBSET Alert /\ delivery' \in [alerts' -> Delivery]
    BY <1>0, <2>2, MoveType
  <2> QED BY <2>1, <2>3 DEF AlertChildKilled, TypeOK
<1>4. CASE HandlerError(a)
  BY <1>0, <1>4, MoveType DEF HandlerError, TypeOK
<1> QED BY <1>1, <1>2, <1>3, <1>4 DEF SendFault

\* The death of a worker, with its deliveries redelivered, preserves the types.
LEMMA WorkerKilledType == TypeOK /\ WorkerKilled => TypeOK'
<1> SUFFICES ASSUME TypeOK, WorkerKilled PROVE TypeOK'
  OBVIOUS
<1>1. delivery' \in [alerts -> Delivery]
  <2>1. PICK told \in SUBSET Stages({"sending"}) :
          delivery' = [a \in alerts |->
            [delivery[a] EXCEPT !.stage = IF @ \in {"sending", "failing"} THEN "queued" ELSE @,
                                !.told = @ \/ a \in told]]
    BY DEF WorkerKilled
  <2>2. ASSUME NEW a \in alerts
        PROVE  [delivery[a] EXCEPT !.stage = IF @ \in {"sending", "failing"} THEN "queued" ELSE @,
                                   !.told = @ \/ a \in told] \in Delivery
    <3>1. delivery[a] \in Delivery
      BY DEF TypeOK
    <3> QED BY <3>1 DEF Delivery, Stage
  <2> QED BY <2>1, <2>2
<1>2. TaskTypeOK'
  BY RowTypes DEF WorkerKilled, TypeOK, TaskTypeOK, PC, StatusCode
<1> QED BY <1>1, <1>2 DEF WorkerKilled, TypeOK, TaskTypeOK, dbVars

\* Every user request on endpoints and alert settings preserves the types.
LEMMA UserStepType == TypeOK /\ UserStep => TypeOK'
<1> SUFFICES ASSUME TypeOK, UserStep PROVE TypeOK'
  OBVIOUS
<1> USE RowTypes DEF alertVars, taskVars, sessVars
<1>1. ASSUME NEW c \in Config, NEW k \in Threshold, NEW ch \in Channel,
             NEW active \in BOOLEAN, add_alert(c, k, ch, active)
      PROVE  TypeOK'
  BY <1>1 DEF add_alert, TypeOK, ConfigRow, Life
<1>2. ASSUME NEW c \in Config, NEW k \in Threshold, NEW ch \in Channel,
             NEW active \in BOOLEAN, update_alert(c, k, ch, active)
      PROVE  TypeOK'
  BY <1>2 DEF update_alert, TypeOK, ConfigRow, Life
<1>3. ASSUME NEW c \in Config, delete_alert(c)
      PROVE  TypeOK'
  BY <1>3 DEF delete_alert, TypeOK, ConfigRow, Life
<1>4. CASE delete_endpoint
  <2>1. config' \in [Config -> ConfigRow]
    <3>1. ASSUME NEW c \in Config
          PROVE  [config[c] EXCEPT !.life = "deleted"] \in ConfigRow /\ config[c] \in ConfigRow
      <4>1. config[c] \in ConfigRow
        BY DEF TypeOK
      <4> QED BY <4>1 DEF ConfigRow, Life
    <3> QED BY <1>4, <3>1 DEF delete_endpoint
  <2>2. results' \in Seq(Row)
    BY <1>4 DEF delete_endpoint
  <2>4. endpoint' \in BOOLEAN
    BY <1>4 DEF delete_endpoint
  <2>3. alertstate' \in [Config -> StateRow]
    BY <1>4 DEF delete_endpoint
  <2> QED BY <1>4, <2>1, <2>2, <2>3, <2>4 DEF delete_endpoint, TypeOK
<1> QED BY <1>1, <1>2, <1>3, <1>4 DEF UserStep

\* Every step preserves the types.
LEMMA NextType == TypeOK /\ [Next]_vars => TypeOK'
<1> SUFFICES ASSUME TypeOK, [Next]_vars PROVE TypeOK'
  OBVIOUS
<1>1. ASSUME NEW t \in Task, dispatch_due_checks(t)
      PROVE  TypeOK'
  BY <1>1 DEF dispatch_due_checks, TypeOK, PC, dbVars, alertVars, sessVars
<1>2. CASE UNCHANGED vars
  BY <1>2 DEF vars, dbVars, alertVars, taskVars, sessVars, TypeOK
<1> QED
  BY <1>1, <1>2, CheckStepType, CheckFaultType, SendStepType, SendFaultType,
     WorkerKilledType, UserStepType DEF Next, Terminated

\* Every reachable state has the types the tables, the queues and the tasks
\* declare; in particular no task runs more than 1 + CheckRetries attempts.
THEOREM TypeCorrect == Spec => []TypeOK
BY InitType, NextType, PTL DEF Spec

-----------------------------------------------------------------------------
(* Sessions: only a check between its INSERT and its COMMIT holds anything.  *)

\* A task that is not evaluating has no open session: nothing loaded, nothing
\* modified, no row locked.
SessionInv ==
  \A t \in Task : pc[t] # "evaluating" =>
    /\ todo[t] = {}
    /\ flushed[t] = {}
    /\ \A c \in Config : old[t][c] = NoRow /\ new[t][c] = NoRow

\* Closing the session while leaving "evaluating" preserves SessionInv.
LEMMA CloseSessionInv ==
  ASSUME TypeOK, SessionInv, NEW t \in Task, NEW p \in PC, CloseSession(t),
         pc' = [pc EXCEPT ![t] = p]
  PROVE  SessionInv'
BY DEF TypeOK, SessionInv, CloseSession

\* Ending an attempt closes its session.
LEMMA EndSessionInv ==
  ASSUME TypeOK, SessionInv, NEW t \in Task, NEW p \in PC, End(t, p)
  PROVE  SessionInv'
BY CloseSessionInv DEF End

\* A retried attempt starts with no session.
LEMMA RetrySessionInv ==
  ASSUME TypeOK, SessionInv, NEW t \in Task, Retry(t)
  PROVE  SessionInv'
<1>1. PICK p \in PC : End(t, p)
  BY DEF Retry, PC
<1> QED BY <1>1, EndSessionInv

\* Every step of a check, good or failing, preserves SessionInv.
LEMMA CheckSessionInv ==
  ASSUME TypeOK, SessionInv, NEW t \in Task,
         dispatch_due_checks(t) \/ CheckStep(t) \/ CheckFault(t)
  PROVE  SessionInv'
<1>0. {"done", "failed", "lost", "committed"} \subseteq PC
  BY DEF PC
<1>1. CASE dispatch_due_checks(t) \/ DispatchLost(t)
  BY <1>1 DEF dispatch_due_checks, DispatchLost, Claimable, SessionInv, TypeOK, sessVars
<1>2. CASE Probe(t)
  BY <1>2 DEF Probe, SessionInv, TypeOK, sessVars
<1>3. CASE InsertAndLoad(t)
  BY <1>3 DEF InsertAndLoad, SessionInv, TypeOK
<1>4. CASE \E r \in todo[t] : Evaluate(t, r)
  <2>1. PICK r \in todo[t] : Evaluate(t, r)
    BY <1>4
  <2>2. pc[t] = "evaluating" /\ pc' = pc
    BY <2>1 DEF Evaluate
  <2>3. ASSUME NEW u \in Task, u # t
        PROVE  todo'[u] = todo[u] /\ flushed'[u] = flushed[u] /\ old'[u] = old[u] /\ new'[u] = new[u]
    BY <2>1, <2>3 DEF Evaluate, TypeOK
  <2>4. ASSUME NEW u \in Task, pc'[u] # "evaluating"
        PROVE  /\ todo'[u] = {} /\ flushed'[u] = {}
               /\ \A c \in Config : old'[u][c] = NoRow /\ new'[u][c] = NoRow
    <3>1. pc[u] # "evaluating" /\ u # t
      BY <2>2, <2>4
    <3>2. todo[u] = {} /\ flushed[u] = {} /\ \A c \in Config : old[u][c] = NoRow /\ new[u][c] = NoRow
      BY <3>1 DEF SessionInv
    <3>3. todo'[u] = todo[u] /\ flushed'[u] = flushed[u] /\ old'[u] = old[u] /\ new'[u] = new[u]
      BY <2>3, <3>1
    <3> QED BY <3>2, <3>3
  <2> QED BY <2>4 DEF SessionInv
<1>5. CASE Commit(t)
  BY <1>0, <1>5, CloseSessionInv, EndSessionInv DEF Commit
<1>6. CASE DeadlockVictim(t) \/ DbError(t) \/ CommitUnknown(t)
  BY <1>6, RetrySessionInv DEF DeadlockVictim, DbError, CommitUnknown
<1>7. CASE InsertFails(t) \/ FlushFails(t) \/ Publish(t) \/ ProbeRaises(t)
           \/ PublishFails(t) \/ CheckChildKilled(t)
  BY <1>0, <1>7, EndSessionInv DEF InsertFails, FlushFails, Publish, ProbeRaises,
                                   PublishFails, CheckChildKilled
<1>8. CASE \E r \in todo[t] : BrokerDown(t, r)
  BY <1>0, <1>8, EndSessionInv DEF BrokerDown
<1> QED
  BY <1>1, <1>2, <1>3, <1>4, <1>5, <1>6, <1>7, <1>8 DEF CheckStep, CheckFault

\* Deliveries and user actions leave the running checks alone.
LEMMA OtherStepsKeepTasks ==
  ASSUME [Next]_vars
  PROVE  \/ \E t \in Task : dispatch_due_checks(t) \/ CheckStep(t) \/ CheckFault(t)
         \/ WorkerKilled
         \/ UNCHANGED taskVars
<1>1. ASSUME NEW a \in alerts, SendStep(a) \/ SendFault(a)
      PROVE  UNCHANGED taskVars
  BY <1>1 DEF SendStep, SendFault, StartSend, SendOk, WebhookRejected,
       handle_alert_exhausted, SendError, SendFatal, AlertChildKilled, HandlerError
<1>2. ASSUME UserStep
      PROVE  UNCHANGED taskVars
  BY <1>2 DEF UserStep, add_alert, update_alert, delete_alert, delete_endpoint
<1>3. ASSUME UNCHANGED vars
      PROVE  UNCHANGED taskVars
  BY <1>3 DEF vars, taskVars
<1> QED BY <1>1, <1>2, <1>3 DEF Next, Terminated

\* Every step preserves SessionInv.
LEMMA NextSessionInv == TypeOK /\ SessionInv /\ [Next]_vars => SessionInv'
<1> SUFFICES ASSUME TypeOK, SessionInv, [Next]_vars PROVE SessionInv'
  OBVIOUS
<1>1. CASE WorkerKilled
  BY <1>1 DEF WorkerKilled, SessionInv
<1>2. CASE UNCHANGED taskVars
  BY <1>2 DEF taskVars, sessVars, SessionInv
<1> QED BY <1>1, <1>2, OtherStepsKeepTasks, CheckSessionInv

\* No task of check_endpoint holds loaded rows, pending writes or row locks
\* outside the transaction of perform_check (the with SessionLocal() block).
THEOREM SessionsClosed == Spec => []SessionInv
<1>1. Init => SessionInv
  BY DEF Init, SessionInv
<1> QED BY <1>1, TypeCorrect, NextSessionInv, PTL DEF Spec

-----------------------------------------------------------------------------
(* A state row for every live config, and only for those *)

\* What a check has locked cannot be deleted: the config is still live.
LockInv == \A t \in Task : \A c \in flushed[t] : config[c].life = "live"

RowInv == TypeOK /\ SessionInv /\ LockInv /\ StateRowPerConfig

\* The configurations a transaction may flush are live ones.
LEMMA CanFlushLive ==
  ASSUME RowInv, NEW t \in Task, CanFlush(t), NEW c \in Dirty(t)
  PROVE  config[c].life = "live"
BY DEF RowInv, TypeOK, LockInv, StateRowPerConfig, CanFlush, Pending, WriteMatches, Dirty

\* A step that neither locks nor changes the tables.
LEMMA QuietRowInv ==
  ASSUME RowInv, UNCHANGED <<config, alertstate>>,
         \A u \in Task : flushed'[u] \subseteq flushed[u]
  PROVE  LockInv' /\ StateRowPerConfig'
BY DEF RowInv, LockInv, StateRowPerConfig

\* Closing a session only releases row locks.
LEMMA ClosingUnlocks ==
  ASSUME TypeOK, NEW t \in Task, CloseSession(t)
  PROVE  \A u \in Task : flushed'[u] \subseteq flushed[u]
BY DEF TypeOK, CloseSession

\* A commit of perform_check keeps one state row per configuration.
LEMMA ApplyWritesRowInv ==
  ASSUME RowInv, NEW t \in Task, CanFlush(t), ApplyWrites(t), CloseSession(t)
  PROVE  LockInv' /\ StateRowPerConfig'
<1>1. config' = config
  BY DEF ApplyWrites
<1>2. LockInv'
  BY <1>1, ClosingUnlocks DEF RowInv, LockInv
<1>3. StateRowPerConfig'
  BY <1>1, CanFlushLive DEF ApplyWrites, Written, RowInv, StateRowPerConfig
<1> QED BY <1>2, <1>3

\* Every step of a check keeps one state row per configuration.
LEMMA CheckRowInv ==
  ASSUME RowInv, NEW t \in Task,
         dispatch_due_checks(t) \/ CheckStep(t) \/ CheckFault(t)
  PROVE  LockInv' /\ StateRowPerConfig'
<1> USE DEF dbVars
<1>0. TypeOK
  BY DEF RowInv
<1>1. CASE dispatch_due_checks(t) \/ DispatchLost(t) \/ Probe(t) \/ InsertAndLoad(t)
  BY <1>1, QuietRowInv DEF dispatch_due_checks, DispatchLost, Probe, InsertAndLoad, sessVars
<1>2. CASE \E r \in todo[t] : Evaluate(t, r)
  <2>1. PICK r \in todo[t] : Evaluate(t, r)
    BY <1>2
  <2>2. CanFlush(t) /\ flushed' = [flushed EXCEPT ![t] = Dirty(t)] /\ UNCHANGED dbVars
    BY <2>1 DEF Evaluate
  <2> QED BY <2>2, CanFlushLive DEF RowInv, TypeOK, LockInv, StateRowPerConfig
<1>3. CASE Commit(t) \/ CommitUnknown(t)
  BY <1>3, ApplyWritesRowInv DEF Commit, CommitUnknown, ReadyToCommit, Retry, End
<1>4. CASE DeadlockVictim(t) \/ DbError(t)
  BY <1>0, <1>4, QuietRowInv, ClosingUnlocks DEF DeadlockVictim, DbError, Retry, End
<1>5. CASE InsertFails(t) \/ FlushFails(t) \/ Publish(t) \/ ProbeRaises(t)
           \/ PublishFails(t) \/ CheckChildKilled(t)
  BY <1>0, <1>5, QuietRowInv, ClosingUnlocks
     DEF InsertFails, FlushFails, Publish, ProbeRaises, PublishFails, CheckChildKilled, End
<1>6. CASE \E r \in todo[t] : BrokerDown(t, r)
  BY <1>0, <1>6, QuietRowInv, ClosingUnlocks DEF BrokerDown, End
<1> QED BY <1>1, <1>2, <1>3, <1>4, <1>5, <1>6 DEF CheckStep, CheckFault

\* Every step of a delivery, handle_alert_exhausted included, keeps one state
\* row per configuration.
LEMMA SendRowInv ==
  ASSUME RowInv, NEW a \in alerts, SendStep(a) \/ SendFault(a)
  PROVE  LockInv' /\ StateRowPerConfig'
<1> USE DEF dbVars, taskVars, sessVars
<1>1. CASE handle_alert_exhausted(a)
  <2>1. UNCHANGED <<config, flushed>>
    BY <1>1 DEF handle_alert_exhausted
  <2>2. \A c \in Config : alertstate'[c].exists = alertstate[c].exists
    <3>1. alertstate' = alertstate
            \/ alertstate' = [alertstate EXCEPT ![a.config].sent = FALSE]
      BY <1>1 DEF handle_alert_exhausted, mark_alert_undelivered
    <3>2. alertstate \in [Config -> StateRow]
      BY DEF RowInv, TypeOK
    <3> QED BY <3>1, <3>2 DEF StateRow
  <2> QED BY <2>1, <2>2 DEF RowInv, LockInv, StateRowPerConfig
<1>2. CASE ~handle_alert_exhausted(a)
  BY <1>2, QuietRowInv DEF SendStep, SendFault, StartSend, SendOk, WebhookRejected,
       SendError, SendFatal, AlertChildKilled, HandlerError
<1> QED BY <1>1, <1>2

\* Every user request keeps one state row per configuration.
LEMMA UserRowInv == RowInv /\ UserStep => LockInv' /\ StateRowPerConfig'
<1> SUFFICES ASSUME RowInv, UserStep PROVE LockInv' /\ StateRowPerConfig'
  OBVIOUS
<1> USE DEF taskVars, sessVars
<1>1. ASSUME NEW c \in Config, NEW k \in Threshold, NEW ch \in Channel,
             NEW active \in BOOLEAN, add_alert(c, k, ch, active) \/ update_alert(c, k, ch, active)
      PROVE  LockInv' /\ StateRowPerConfig'
  <2>0. config[c] \in ConfigRow /\ config \in [Config -> ConfigRow]
    BY DEF RowInv, TypeOK
  <2>1. config'[c].life = "live" /\ \A d \in Config \ {c} : config'[d] = config[d]
    BY <1>1, <2>0 DEF add_alert, update_alert
  <2>2. flushed' = flushed
    BY <1>1 DEF add_alert, update_alert
  <2>3. LockInv'
    BY <2>1, <2>2 DEF RowInv, LockInv, TypeOK
  <2>4. CASE add_alert(c, k, ch, active)
    <3>1. alertstate'[c].exists /\ \A d \in Config \ {c} : alertstate'[d] = alertstate[d]
      BY <2>4 DEF add_alert, RowInv, TypeOK, FreshRow
    <3> QED BY <2>1, <2>3, <3>1 DEF RowInv, StateRowPerConfig
  <2>5. CASE update_alert(c, k, ch, active)
    <3>1. alertstate' = alertstate /\ config[c].life = "live"
      BY <2>5 DEF update_alert
    <3> QED BY <2>1, <2>3, <3>1 DEF RowInv, StateRowPerConfig
  <2> QED BY <1>1, <2>4, <2>5
<1>2. ASSUME NEW c \in Config, delete_alert(c)
      PROVE  LockInv' /\ StateRowPerConfig'
  BY <1>2 DEF delete_alert, Locked, RowInv, TypeOK, LockInv, StateRowPerConfig, NoRow, ConfigRow
<1>3. CASE delete_endpoint
  <2>1. \A t \in Task : flushed'[t] = {}
    BY <1>3 DEF delete_endpoint, RowInv, SessionInv
  <2>2. ASSUME NEW c \in Config
        PROVE  config'[c].life # "live" /\ ~alertstate'[c].exists
    BY <1>3 DEF delete_endpoint, NoRow, RowInv, TypeOK, ConfigRow
  <2> QED BY <2>1, <2>2 DEF LockInv, StateRowPerConfig
<1> QED BY <1>1, <1>2, <1>3 DEF UserStep

\* The initial state has one state row per configuration.
LEMMA InitRowInv == Init => RowInv
<1>1. Init => SessionInv /\ LockInv
  BY DEF Init, SessionInv, LockInv
<1>2. Init => StateRowPerConfig
  BY DEF Init, StateRowPerConfig, NoRow, FreshRow, NoConfig
<1> QED BY <1>1, <1>2, InitType DEF RowInv

\* Every step keeps one state row per configuration.
LEMMA NextRowInv == RowInv /\ [Next]_vars => RowInv'
<1> SUFFICES ASSUME RowInv, [Next]_vars PROVE RowInv'
  OBVIOUS
<1>1. TypeOK' /\ SessionInv'
  BY NextType, NextSessionInv DEF RowInv
<1>2. LockInv' /\ StateRowPerConfig'
  <2>1. CASE WorkerKilled
    BY <2>1, QuietRowInv DEF WorkerKilled, dbVars
  <2>2. CASE UNCHANGED vars
    BY <2>2, QuietRowInv DEF vars, dbVars, taskVars, sessVars
  <2> QED BY <2>1, <2>2, CheckRowInv, SendRowInv, UserRowInv DEF Next, Terminated
<1> QED BY <1>1, <1>2 DEF RowInv

\* Every live alert config has its state row and nothing else has one, in
\* every interleaving of checks, deliveries, crashes and user actions.
THEOREM OneStatePerConfig == Spec => []StateRowPerConfig
<1>1. RowInv => StateRowPerConfig
  BY DEF RowInv
<1> QED BY <1>1, InitRowInv, NextRowInv, PTL DEF Spec
-----------------------------------------------------------------------------
(* A check that fails early has lost what it was working on *)

\* What a session has loaded had been created, and a state row that it found
\* missing has since, or had already, been deleted with its config.
LoadedWasBorn ==
  \A t \in Task :
    /\ \A r \in todo[t] : config[r.config].life # "unborn"
    /\ \A c \in Dirty(t) : /\ config[c].life # "unborn"
                           /\ old[t][c].exists \/ config[c].life = "deleted"

\* A deleted config and a deleted endpoint never come back.
LifeGoesOn ==
  /\ \A c \in Config : /\ config[c].life # "unborn" => config'[c].life # "unborn"
                       /\ config[c].life = "deleted" => config'[c].life = "deleted"
  /\ ~endpoint => ~endpoint'

\* The user's requests are the only steps that change a config's life.
LEMMA UserLife == TypeOK /\ UserStep => LifeGoesOn
<1> SUFFICES ASSUME TypeOK, UserStep PROVE LifeGoesOn
  OBVIOUS
<1>1. ASSUME NEW c \in Config, NEW k \in Threshold, NEW ch \in Channel,
             NEW active \in BOOLEAN, add_alert(c, k, ch, active) \/ update_alert(c, k, ch, active)
      PROVE  LifeGoesOn
  BY <1>1 DEF add_alert, update_alert, TypeOK, LifeGoesOn
<1>2. ASSUME NEW c \in Config, delete_alert(c)
      PROVE  LifeGoesOn
  BY <1>2 DEF delete_alert, TypeOK, ConfigRow, LifeGoesOn
<1>3. CASE delete_endpoint
  BY <1>3 DEF delete_endpoint, TypeOK, ConfigRow, LifeGoesOn
<1> QED BY <1>1, <1>2, <1>3 DEF UserStep

\* A step that opens no session and fails no check for another reason.
LEMMA QuietLife ==
  ASSUME TypeOK, LoadedWasBorn, FailureExplained, LifeGoesOn,
         \A u \in Task : \/ todo'[u] = todo[u] /\ old'[u] = old[u] /\ new'[u] = new[u]
                         \/ todo'[u] = {} /\ \A c \in Config : old'[u][c] = new'[u][c],
         \A u \in Task : pc'[u] = "failed" /\ attempt'[u] < CheckRetries =>
                           \/ pc[u] = "failed" /\ attempt[u] = attempt'[u]
                           \/ ~endpoint \/ \E c \in Config : config[c].life = "deleted"
  PROVE  LoadedWasBorn' /\ FailureExplained'
<1>1. \A u \in Task : \A r \in todo[u] : r.config \in Config
  BY DEF TypeOK, Loaded
<1>2. ASSUME NEW u \in Task
      PROVE  /\ \A r \in todo'[u] : config'[r.config].life # "unborn"
             /\ \A c \in Config : old'[u][c] # new'[u][c] =>
                  /\ config'[c].life # "unborn"
                  /\ old'[u][c].exists \/ config'[c].life = "deleted"
  <2>1. CASE todo'[u] = todo[u] /\ old'[u] = old[u] /\ new'[u] = new[u]
    <3>1. \A c \in Config : old[u][c] # new[u][c] =>
            config[c].life # "unborn" /\ (old[u][c].exists \/ config[c].life = "deleted")
      BY DEF LoadedWasBorn, Dirty
    <3> QED BY <1>1, <2>1, <3>1 DEF LoadedWasBorn, LifeGoesOn
  <2>2. CASE todo'[u] = {} /\ \A c \in Config : old'[u][c] = new'[u][c]
    BY <2>2
  <2> QED BY <2>1, <2>2
<1>3. LoadedWasBorn'
  BY <1>2 DEF LoadedWasBorn, Dirty
<1>4. FailureExplained'
  BY DEF FailureExplained, LifeGoesOn
<1> QED BY <1>3, <1>4

\* The end of an attempt in a state that explains it.
LEMMA EndLife ==
  ASSUME TypeOK, LoadedWasBorn, FailureExplained, UNCHANGED <<endpoint, config>>,
         NEW t \in Task, NEW p, pc' = [pc EXCEPT ![t] = p], CloseSession(t),
         \A u \in Task \ {t} : attempt'[u] = attempt[u],
         p = "failed" /\ attempt'[t] < CheckRetries =>
           ~endpoint \/ \E c \in Config : config[c].life = "deleted"
  PROVE  LoadedWasBorn' /\ FailureExplained'
<1>1. LifeGoesOn
  BY DEF LifeGoesOn
<1>2. \A u \in Task : \/ todo'[u] = todo[u] /\ old'[u] = old[u] /\ new'[u] = new[u]
                      \/ todo'[u] = {} /\ \A c \in Config : old'[u][c] = new'[u][c]
  BY DEF CloseSession, TypeOK
<1>3. \A u \in Task : u # t => pc'[u] = pc[u] /\ attempt'[u] = attempt[u]
  BY DEF TypeOK
<1>4. pc'[t] = p
  BY DEF TypeOK
<1> QED BY <1>1, <1>2, <1>3, <1>4, QuietLife

\* A retry fails only when the retries are used up.
LEMMA RetryLife ==
  ASSUME TypeOK, LoadedWasBorn, FailureExplained, UNCHANGED <<endpoint, config>>,
         NEW t \in Task, Retry(t)
  PROVE  LoadedWasBorn' /\ FailureExplained'
<1> DEFINE p == IF attempt[t] < CheckRetries THEN "queued" ELSE "failed"
<1>1. pc' = [pc EXCEPT ![t] = p] /\ CloseSession(t)
  BY DEF Retry, End
<1>2. /\ \A u \in Task \ {t} : attempt'[u] = attempt[u]
      /\ p = "failed" => attempt'[t] = attempt[t] /\ ~(attempt[t] < CheckRetries)
  BY DEF Retry, TypeOK
<1> HIDE DEF p
<1> QED BY <1>1, <1>2, EndLife

\* A flush fails only on a config that was deleted.
LEMMA FlushLife ==
  ASSUME RowInv, LoadedWasBorn, NEW t \in Task, FlushFails(t)
  PROVE  \E c \in Config : config[c].life = "deleted"
<1>0. TypeOK
  BY DEF RowInv
<1>1. PICK c \in Dirty(t) : ~WriteMatches(t, c)
  BY DEF FlushFails, Pending
<1>2. c \in Config /\ config[c].life \in Life
  BY <1>0 DEF Dirty, TypeOK, ConfigRow
<1>3. CASE old[t][c].exists
  <2>1. config[c].life # "live"
    BY <1>1, <1>2, <1>3 DEF WriteMatches, RowInv, StateRowPerConfig
  <2>2. config[c].life # "unborn"
    BY <1>1 DEF LoadedWasBorn
  <2> QED BY <1>2, <2>1, <2>2 DEF Life
<1>4. CASE ~old[t][c].exists
  BY <1>1, <1>2, <1>4 DEF LoadedWasBorn
<1> QED BY <1>3, <1>4

\* The loop body loads a row, or finds none because its config was deleted.
LEMMA EvaluateLife ==
  ASSUME RowInv, LoadedWasBorn, FailureExplained, NEW t \in Task, NEW r \in todo[t], Evaluate(t, r)
  PROVE  LoadedWasBorn' /\ FailureExplained'
<1>0. TypeOK /\ StateRowPerConfig
  BY DEF RowInv
<1> DEFINE c == r.config
<1>1. c \in Config /\ config[c].life \in Life /\ config[c].life # "unborn"
  BY <1>0 DEF TypeOK, Loaded, ConfigRow, LoadedWasBorn
<1>2. /\ UNCHANGED <<endpoint, config, pc, attempt>>
      /\ \A u \in Task : todo'[u] \subseteq todo[u]
      /\ \A u \in Task \ {t} : old'[u] = old[u] /\ new'[u] = new[u]
      /\ \A d \in Config \ {c} : old'[t][d] = old[t][d] /\ new'[t][d] = new[t][d]
      /\ old'[t][c] = alertstate[c]
  BY <1>0, <1>1 DEF Evaluate, dbVars, TypeOK
<1>3. alertstate[c].exists \/ config[c].life = "deleted"
  BY <1>0, <1>1 DEF StateRowPerConfig, Life
<1>4. ASSUME NEW u \in Task, NEW d \in Config, old'[u][d] # new'[u][d]
      PROVE  /\ config[d].life # "unborn"
             /\ old'[u][d].exists \/ config[d].life = "deleted"
  <2>1. CASE u = t /\ d = c
    BY <1>1, <1>2, <1>3, <2>1
  <2>2. CASE ~(u = t /\ d = c)
    <3>1. old'[u][d] = old[u][d] /\ new'[u][d] = new[u][d]
      BY <1>2, <2>2
    <3>2. d \in Dirty(u)
      BY <1>4, <3>1 DEF Dirty
    <3> QED BY <3>1, <3>2 DEF LoadedWasBorn
  <2> QED BY <2>1, <2>2
<1>5. LoadedWasBorn'
  <2>1. \A u \in Task : \A q \in todo'[u] : config'[q.config].life # "unborn"
    BY <1>2 DEF LoadedWasBorn
  <2>2. \A u \in Task : \A d \in Dirty(u)' :
          /\ config'[d].life # "unborn"
          /\ old'[u][d].exists \/ config'[d].life = "deleted"
    BY <1>2, <1>4 DEF Dirty
  <2> QED BY <2>1, <2>2 DEF LoadedWasBorn
<1>6. FailureExplained'
  BY <1>2 DEF FailureExplained
<1> QED BY <1>5, <1>6

\* Every step of a check, good or failing.
LEMMA CheckLife ==
  ASSUME {"probe_raises", "broker_down"} \cap Faults = {},
         RowInv, LoadedWasBorn, FailureExplained,
         NEW t \in Task, dispatch_due_checks(t) \/ CheckStep(t) \/ CheckFault(t)
  PROVE  LoadedWasBorn' /\ FailureExplained'
<1> USE DEF dbVars
<1>0. TypeOK
  BY DEF RowInv
<1>1. CASE dispatch_due_checks(t) \/ DispatchLost(t) \/ Probe(t)
  <2>1. UNCHANGED <<endpoint, config, attempt, todo, old, new>>
    BY <1>1 DEF dispatch_due_checks, DispatchLost, Probe, sessVars
  <2>2. \A u \in Task : pc'[u] = "failed" => pc[u] = "failed"
    BY <1>0, <1>1 DEF dispatch_due_checks, DispatchLost, Probe, TypeOK
  <2> QED BY <1>0, <2>1, <2>2, QuietLife DEF LifeGoesOn
<1>2. CASE InsertAndLoad(t)
  <2>1. /\ UNCHANGED <<endpoint, config, attempt, old, new>>
        /\ \A u \in Task : pc'[u] = "failed" => pc[u] = "failed"
        /\ \A u \in Task \ {t} : todo'[u] = todo[u]
        /\ \A r \in todo'[t] : config[r.config].life = "live"
    BY <1>0, <1>2 DEF InsertAndLoad, TypeOK
  <2>2. LoadedWasBorn'
    BY <2>1 DEF LoadedWasBorn, Dirty
  <2> QED BY <2>1, <2>2 DEF FailureExplained
<1>3. CASE \E r \in todo[t] : Evaluate(t, r)
  BY <1>3, EvaluateLife
<1>4. CASE Commit(t)
  <2>1. PICK p \in {"committed", "done"} : pc' = [pc EXCEPT ![t] = p] /\ CloseSession(t)
    BY <1>4 DEF Commit, End
  <2>2. UNCHANGED <<endpoint, config, attempt>>
    BY <1>4 DEF Commit, ApplyWrites
  <2> QED BY <1>0, <2>1, <2>2, EndLife
<1>5. CASE DeadlockVictim(t) \/ DbError(t) \/ CommitUnknown(t)
  BY <1>0, <1>5, RetryLife DEF DeadlockVictim, DbError, CommitUnknown, ApplyWrites
<1>6. CASE Publish(t) \/ PublishFails(t) \/ CheckChildKilled(t)
  <2>1. PICK p \in {"done", "lost"} : End(t, p)
    BY <1>6 DEF Publish, PublishFails, CheckChildKilled
  <2>2. UNCHANGED <<endpoint, config, attempt>>
    BY <1>6 DEF Publish, PublishFails, CheckChildKilled
  <2> QED BY <1>0, <2>1, <2>2, EndLife DEF End
<1>7. CASE InsertFails(t) \/ FlushFails(t)
  <2>1. End(t, "failed") /\ UNCHANGED <<endpoint, config, attempt>>
    BY <1>7 DEF InsertFails, FlushFails
  <2>2. ~endpoint \/ \E c \in Config : config[c].life = "deleted"
    BY <1>7, FlushLife DEF InsertFails
  <2> QED BY <1>0, <2>1, <2>2, EndLife DEF End
<1>8. ~ProbeRaises(t) /\ ~\E r \in todo[t] : BrokerDown(t, r)
  BY DEF ProbeRaises, BrokerDown
<1> QED BY <1>1, <1>2, <1>3, <1>4, <1>5, <1>6, <1>7, <1>8 DEF CheckStep, CheckFault

\* Unless the probe or the broker raises, a check that fails before its retries
\* are used up fails because the user deleted what it was working on: whatever
\* else goes wrong, in every interleaving with other checks and user requests.
THEOREM FailuresAreExplained ==
  ASSUME {"probe_raises", "broker_down"} \cap Faults = {}
  PROVE  Spec => []FailureExplained
<1>1. Init => LoadedWasBorn /\ FailureExplained
  BY DEF Init, LoadedWasBorn, FailureExplained, Dirty
<1>2. RowInv /\ LoadedWasBorn /\ FailureExplained /\ [Next]_vars => LoadedWasBorn' /\ FailureExplained'
  <2> SUFFICES ASSUME RowInv, LoadedWasBorn, FailureExplained, [Next]_vars
               PROVE  LoadedWasBorn' /\ FailureExplained'
    OBVIOUS
  <2>0. TypeOK
    BY DEF RowInv
  <2>1. ASSUME UNCHANGED taskVars, LifeGoesOn
        PROVE  LoadedWasBorn' /\ FailureExplained'
    BY <2>0, <2>1, QuietLife DEF taskVars, sessVars
  <2>2. ASSUME NEW a \in alerts, SendStep(a) \/ SendFault(a)
        PROVE  UNCHANGED <<endpoint, config, taskVars>>
    BY <2>2 DEF SendStep, SendFault, StartSend, SendOk, WebhookRejected, handle_alert_exhausted,
                SendError, SendFatal, AlertChildKilled, HandlerError, dbVars
  <2>3. CASE UNCHANGED <<endpoint, config, taskVars>>
    BY <2>1, <2>3 DEF LifeGoesOn
  <2>4. CASE UserStep
    <3>1. UNCHANGED taskVars
      BY <2>4 DEF UserStep, add_alert, update_alert, delete_alert, delete_endpoint
    <3> QED BY <2>0, <2>1, <2>4, <3>1, UserLife
  <2>5. CASE WorkerKilled
    <3>1. /\ UNCHANGED <<endpoint, config, attempt>>
          /\ \A u \in Task : todo'[u] = {} /\ old'[u] = new'[u]
          /\ \A u \in Task : pc'[u] = "failed" => pc[u] = "failed"
      BY <2>5 DEF WorkerKilled, dbVars
    <3> QED BY <2>0, <3>1, QuietLife DEF LifeGoesOn
  <2>6. CASE UNCHANGED vars
    BY <2>3, <2>6 DEF vars, dbVars, taskVars
  <2> QED BY <2>2, <2>3, <2>4, <2>5, <2>6, CheckLife DEF Next, Terminated
<1> QED BY <1>1, <1>2, InitRowInv, NextRowInv, PTL DEF Spec
\* What follows cites the assumptions that it needs.
HIDE RetriesAssumption
HIDE ChannelAssumption
HIDE ThresholdAssumption
HIDE StatusAssumption
HIDE ConfigAssumption
HIDE TaskAssumption

-----------------------------------------------------------------------------
(* The history and the set of alerts only grow while the endpoint exists *)

HistoryGrows ==
  /\ alerts \subseteq alerts'
  /\ endpoint' => /\ endpoint
                  /\ Len(results) <= Len(results')
                  /\ \A i \in DOMAIN results : results'[i] = results[i]

\* A commit of perform_check appends exactly this task's check result.
LEMMA ApplyWritesGrows ==
  ASSUME TypeOK, NEW t \in Task, ApplyWrites(t)
  PROVE  /\ results' \in Seq(Row)
         /\ Len(results') = Len(results) + 1
         /\ results'[Len(results) + 1] = MyRow(t)
         /\ \A i \in DOMAIN results : results'[i] = results[i]
         /\ endpoint' = endpoint
<1>1. MyRow(t) \in Row
  BY DEF TypeOK, MyRow, Row
<1> QED BY <1>1 DEF TypeOK, ApplyWrites

\* No step rewrites a recorded result; only deleting the endpoint removes them.
LEMMA StepGrows == TypeOK /\ [Next]_vars => HistoryGrows
<1> SUFFICES ASSUME TypeOK, [Next]_vars PROVE HistoryGrows
  OBVIOUS
<1> USE DEF dbVars, alertVars
<1>0. results \in Seq(Row)
  BY DEF TypeOK
<1>1. ASSUME UNCHANGED <<endpoint, results, alerts>>
      PROVE  HistoryGrows
  BY <1>0, <1>1 DEF HistoryGrows
<1>2. ASSUME NEW t \in Task, dispatch_due_checks(t) \/ CheckStep(t) \/ CheckFault(t)
      PROVE  HistoryGrows
  <2>1. CASE Commit(t) \/ CommitUnknown(t)
    BY <1>0, <2>1, ApplyWritesGrows DEF Commit, CommitUnknown, HistoryGrows
  <2>2. CASE \E r \in todo[t] : Evaluate(t, r)
    <3>1. UNCHANGED dbVars /\ alerts \subseteq alerts'
      BY <2>2 DEF Evaluate, queue_alert
    <3> QED BY <1>0, <3>1 DEF HistoryGrows
  <2>3. CASE dispatch_due_checks(t) \/ DispatchLost(t) \/ Probe(t) \/ InsertAndLoad(t)
    BY <2>3, <1>1 DEF dispatch_due_checks, DispatchLost, Probe, InsertAndLoad
  <2>4. CASE InsertFails(t) \/ FlushFails(t) \/ Publish(t) \/ ProbeRaises(t)
             \/ PublishFails(t) \/ CheckChildKilled(t) \/ DeadlockVictim(t) \/ DbError(t)
    BY <2>4, <1>1 DEF InsertFails, FlushFails, Publish, ProbeRaises, PublishFails,
                      CheckChildKilled, DeadlockVictim, DbError
  <2>5. CASE \E r \in todo[t] : BrokerDown(t, r)
    BY <2>5, <1>1 DEF BrokerDown
  <2> QED BY <1>2, <2>1, <2>2, <2>3, <2>4, <2>5 DEF CheckStep, CheckFault
<1>3. ASSUME NEW a \in alerts, SendStep(a) \/ SendFault(a)
      PROVE  HistoryGrows
  BY <1>1, <1>3 DEF SendStep, SendFault, StartSend, SendOk, WebhookRejected,
       handle_alert_exhausted, SendError, SendFatal, AlertChildKilled, HandlerError, Move
<1>4. CASE WorkerKilled
  BY <1>1, <1>4 DEF WorkerKilled
<1>5. CASE UserStep
  <2>1. CASE delete_endpoint
    BY <2>1 DEF delete_endpoint, HistoryGrows
  <2>2. CASE ~delete_endpoint
    BY <1>1, <1>5, <2>2 DEF UserStep, add_alert, update_alert, delete_alert
  <2> QED BY <2>1, <2>2
<1>6. CASE UNCHANGED vars
  BY <1>1, <1>6 DEF vars
<1> QED BY <1>2, <1>3, <1>4, <1>5, <1>6 DEF Next, Terminated
-----------------------------------------------------------------------------
(* Recovery alerts answer recorded down alerts *)

\* Some down alert of c was queued by an attempt whose row is recorded.
Backed(c) == \E d \in DownAlerts(c) : RowsOf(d) # {}

SentBacked == \A c \in Config : alertstate[c].sent => Backed(c)

LoadedBacked == \A t \in Task : \A c \in Config : old[t][c].sent => Backed(c)

\* A session that is about to set alert_sent has queued the alert itself.
OwnDown ==
  \A t \in Task : \A c \in Config : (new[t][c].sent /\ ~old[t][c].sent) =>
    \E d \in DownAlerts(c) : d.task = t /\ d.attempt = attempt[t]

BackedInv == (endpoint => SentBacked /\ LoadedBacked /\ RecoveryAnswersDown) /\ OwnDown

\* A down alert that recorded results justify stays justified.
LEMMA BackedGrows ==
  ASSUME TypeOK, TypeOK', HistoryGrows, endpoint', NEW c \in Config, Backed(c)
  PROVE  Backed(c)'
<1>1. PICK d \in DownAlerts(c) : RowsOf(d) # {}
  BY DEF Backed
<1>2. PICK i \in DOMAIN results : results[i].task = d.task /\ results[i].attempt = d.attempt
  BY <1>1 DEF RowsOf
<1>3. d \in DownAlerts(c)'
  BY <1>1 DEF DownAlerts, HistoryGrows
<1>4. i \in DOMAIN results' /\ results'[i] = results[i]
  BY <1>2 DEF TypeOK, HistoryGrows
<1>5. i \in RowsOf(d)'
  BY <1>2, <1>4 DEF RowsOf
<1> QED BY <1>3, <1>5 DEF Backed

\* What a step may do to the flags without breaking the first half of BackedInv.
LEMMA BackedStep ==
  ASSUME TypeOK, TypeOK', HistoryGrows, BackedInv,
         \A c \in Config : alertstate'[c].sent => alertstate[c].sent \/ Backed(c)',
         \A t \in Task : \A c \in Config :
           old'[t][c].sent => old[t][c].sent \/ alertstate[c].sent,
         \A a \in alerts' \ alerts : a.kind = "recovery" => alertstate[a.config].sent
  PROVE  endpoint' => SentBacked' /\ LoadedBacked' /\ RecoveryAnswersDown'
<1> SUFFICES ASSUME endpoint'
             PROVE  SentBacked' /\ LoadedBacked' /\ RecoveryAnswersDown'
  OBVIOUS
<1>1. endpoint /\ SentBacked /\ LoadedBacked /\ RecoveryAnswersDown
  BY DEF HistoryGrows, BackedInv
<1>2. \A c \in Config : alertstate[c].sent => Backed(c)'
  BY <1>1, BackedGrows DEF SentBacked
<1>3. SentBacked'
  BY <1>2 DEF SentBacked
<1>4. LoadedBacked'
  BY <1>1, <1>2, BackedGrows DEF LoadedBacked
<1>5. RecoveryAnswersDown'
  <2> SUFFICES ASSUME NEW a \in alerts', a.kind = "recovery"
               PROVE  Backed(a.config)'
    BY DEF RecoveryAnswersDown, Backed
  <2>1. a.config \in Config
    BY DEF TypeOK, Alert
  <2>2. CASE a \in alerts
    BY <1>1, <2>1, <2>2, BackedGrows DEF RecoveryAnswersDown, Backed
  <2>3. CASE a \notin alerts
    BY <1>2, <2>1, <2>3
  <2> QED BY <2>2, <2>3
<1> QED BY <1>3, <1>4, <1>5

\* A task keeps its loaded rows and its attempt, or has none left.
LEMMA OwnDownStep ==
  ASSUME TypeOK, HistoryGrows, BackedInv,
         \A u \in Task : \/ new'[u] = new[u] /\ old'[u] = old[u] /\ attempt'[u] = attempt[u]
                         \/ \A c \in Config : new'[u][c] = NoRow
  PROVE  OwnDown'
<1> SUFFICES ASSUME NEW u \in Task, NEW c \in Config, new'[u][c].sent, ~old'[u][c].sent
             PROVE  \E d \in DownAlerts(c)' : d.task = u /\ d.attempt = attempt'[u]
  BY DEF OwnDown
<1>1. new'[u] = new[u] /\ old'[u] = old[u] /\ attempt'[u] = attempt[u]
  BY DEF NoRow
<1>2. PICK d \in DownAlerts(c) : d.task = u /\ d.attempt = attempt[u]
  BY <1>1 DEF BackedInv, OwnDown
<1> QED BY <1>1, <1>2 DEF DownAlerts, HistoryGrows

\* A turn of evaluate_alerts preserves BackedInv: the sent flag is set only with
\* a down alert, and a recovery is queued only where the flag was set.
LEMMA EvaluateBacked ==
  ASSUME TypeOK, TypeOK', HistoryGrows, BackedInv, NEW t \in Task, NEW r \in todo[t], Evaluate(t, r)
  PROVE  BackedInv'
<1> DEFINE c == r.config
           s == alertstate[c]
           up == is_up_for(status[t])
           n == NextState(up, s, r.threshold)
<1>0. c \in Config
  <2>1. r \in Loaded
    BY DEF TypeOK
  <2> QED BY <2>1 DEF Loaded
<1>1. /\ old' = [old EXCEPT ![t][c] = s]
      /\ new' = [new EXCEPT ![t][c] = n]
      /\ UNCHANGED <<dbVars, attempt>>
  BY DEF Evaluate
<1>2. \A a \in alerts' \ alerts : a.kind = "recovery" => alertstate[a.config].sent
  <2> SUFFICES ASSUME NEW a \in alerts' \ alerts, a.kind = "recovery"
               PROVE  alertstate[a.config].sent
    OBVIOUS
  <2>1. /\ AlertDue(up, s, r.threshold)
        /\ a = [config |-> c, task |-> t, attempt |-> attempt[t],
                kind |-> IF up THEN "recovery" ELSE "down", channel |-> r.channel]
    BY DEF Evaluate, queue_alert, alertVars
  <2> QED BY <2>1 DEF AlertDue
<1>3. \A u \in Task : \A d \in Config :
        old'[u][d].sent => old[u][d].sent \/ alertstate[d].sent
  BY <1>0, <1>1 DEF TypeOK
<1>4. endpoint' => SentBacked' /\ LoadedBacked' /\ RecoveryAnswersDown'
  BY <1>1, <1>2, <1>3, BackedStep DEF dbVars
<1>5. OwnDown'
  <2> SUFFICES ASSUME NEW u \in Task, NEW d \in Config, new'[u][d].sent, ~old'[u][d].sent
               PROVE  \E a \in DownAlerts(d)' : a.task = u /\ a.attempt = attempt'[u]
    BY DEF OwnDown
  <2>1. CASE u = t /\ d = c
    <3>1. n.sent /\ ~s.sent
      BY <1>0, <1>1, <2>1 DEF TypeOK
    <3>2. ~up /\ AlertDue(up, s, r.threshold)
      BY <3>1 DEF NextState, AlertDue
    <3> DEFINE a == [config |-> c, task |-> t, attempt |-> attempt[t],
                     kind |-> "down", channel |-> r.channel]
    <3>3. a \in alerts'
      BY <3>2 DEF Evaluate, queue_alert
    <3>4. a \in DownAlerts(d)' /\ a.task = u /\ a.attempt = attempt'[u]
      BY <1>1, <2>1, <3>3 DEF DownAlerts
    <3> QED BY <3>4
  <2>2. CASE ~(u = t /\ d = c)
    <3>1. new[u][d].sent /\ ~old[u][d].sent
      BY <1>0, <1>1, <2>2 DEF TypeOK
    <3>2. PICK a \in DownAlerts(d) : a.task = u /\ a.attempt = attempt[u]
      BY <3>1 DEF BackedInv, OwnDown
    <3> QED BY <1>1, <3>2 DEF DownAlerts, HistoryGrows
  <2> QED BY <2>1, <2>2
<1> QED BY <1>4, <1>5 DEF BackedInv

\* The flag a commit sets is backed by the alert and the row of the same attempt.
LEMMA ApplyWritesBacked ==
  ASSUME TypeOK, TypeOK', HistoryGrows, BackedInv, NEW t \in Task, ApplyWrites(t),
         alerts' = alerts, NEW c \in Config, alertstate'[c].sent
  PROVE  alertstate[c].sent \/ Backed(c)'
<1>1. CASE alertstate'[c] = alertstate[c]
  BY <1>1
<1>2. CASE alertstate'[c] = Written(alertstate[c], old[t][c], new[t][c])
  <2>1. CASE old[t][c].sent = new[t][c].sent
    BY <1>2, <2>1 DEF Written
  <2>2. CASE old[t][c].sent # new[t][c].sent
    <3>1. new[t][c].sent /\ ~old[t][c].sent
      BY <1>2, <2>2 DEF Written, TypeOK, StateRow
    <3>2. PICK d \in DownAlerts(c) : d.task = t /\ d.attempt = attempt[t]
      BY <3>1 DEF BackedInv, OwnDown
    <3>3. Len(results) + 1 \in DOMAIN results' /\ results'[Len(results) + 1] = MyRow(t)
      BY ApplyWritesGrows DEF TypeOK
    <3>4. Len(results) + 1 \in RowsOf(d)'
      BY <3>2, <3>3 DEF RowsOf, MyRow
    <3>5. d \in DownAlerts(c)'
      BY <3>2 DEF DownAlerts
    <3> QED BY <3>4, <3>5 DEF Backed
  <2> QED BY <2>1, <2>2
<1> QED BY <1>1, <1>2 DEF ApplyWrites

\* A step that touches neither flags nor alerts and closes at most sessions.
LEMMA QuietBacked ==
  ASSUME TypeOK, TypeOK', HistoryGrows, BackedInv, alerts' = alerts,
         \A c \in Config : alertstate'[c].sent => alertstate[c].sent \/ Backed(c)',
         \A u \in Task :
           \/ new'[u] = new[u] /\ old'[u] = old[u] /\ attempt'[u] = attempt[u]
           \/ \A c \in Config : new'[u][c] = NoRow /\ old'[u][c] = NoRow
  PROVE  BackedInv'
<1>1. \A u \in Task : \A c \in Config : old'[u][c].sent => old[u][c].sent
  BY DEF NoRow
<1>2. OwnDown'
  BY OwnDownStep
<1>3. endpoint' => SentBacked' /\ LoadedBacked' /\ RecoveryAnswersDown'
  BY <1>1, BackedStep
<1> QED BY <1>2, <1>3 DEF BackedInv

\* Closing one task's session leaves the other sessions as they were.
LEMMA ClosingKeepsOthers ==
  ASSUME TypeOK, NEW t \in Task, CloseSession(t),
         \A u \in Task \ {t} : attempt'[u] = attempt[u]
  PROVE  \A u \in Task :
           \/ new'[u] = new[u] /\ old'[u] = old[u] /\ attempt'[u] = attempt[u]
           \/ \A c \in Config : new'[u][c] = NoRow /\ old'[u][c] = NoRow
BY DEF TypeOK, CloseSession

\* Every step of a check preserves BackedInv.
LEMMA CheckBacked ==
  ASSUME TypeOK, TypeOK', HistoryGrows, BackedInv, NEW t \in Task,
         dispatch_due_checks(t) \/ CheckStep(t) \/ CheckFault(t)
  PROVE  BackedInv'
<1> USE DEF dbVars, alertVars
<1>1. CASE dispatch_due_checks(t) \/ DispatchLost(t) \/ Probe(t) \/ InsertAndLoad(t)
  BY <1>1, QuietBacked DEF dispatch_due_checks, DispatchLost, Probe, InsertAndLoad, sessVars
<1>2. CASE \E r \in todo[t] : Evaluate(t, r)
  BY <1>2, EvaluateBacked
<1>3. CASE Commit(t) \/ CommitUnknown(t)
  <2>1. /\ ApplyWrites(t) /\ CloseSession(t) /\ alerts' = alerts
        /\ \A u \in Task \ {t} : attempt'[u] = attempt[u]
    BY <1>3 DEF Commit, CommitUnknown, Retry, End, TypeOK
  <2> QED BY <2>1, ApplyWritesBacked, ClosingKeepsOthers, QuietBacked
<1>4. CASE DeadlockVictim(t) \/ DbError(t)
  <2>1. /\ CloseSession(t) /\ UNCHANGED <<alerts, alertstate>>
        /\ \A u \in Task \ {t} : attempt'[u] = attempt[u]
    BY <1>4 DEF DeadlockVictim, DbError, Retry, End, TypeOK
  <2> QED BY <2>1, ClosingKeepsOthers, QuietBacked
<1>5. CASE \/ InsertFails(t) \/ FlushFails(t) \/ Publish(t) \/ ProbeRaises(t)
           \/ PublishFails(t) \/ CheckChildKilled(t)
           \/ \E r \in todo[t] : BrokerDown(t, r)
  <2>1. CloseSession(t) /\ UNCHANGED <<alerts, alertstate, attempt>>
    BY <1>5 DEF InsertFails, FlushFails, Publish, ProbeRaises, PublishFails,
                CheckChildKilled, BrokerDown, End
  <2> QED BY <2>1, ClosingKeepsOthers, QuietBacked
<1> QED BY <1>1, <1>2, <1>3, <1>4, <1>5 DEF CheckStep, CheckFault

\* Every step of a delivery preserves BackedInv.
LEMMA SendBacked ==
  ASSUME TypeOK, TypeOK', HistoryGrows, BackedInv, NEW a \in alerts,
         SendStep(a) \/ SendFault(a)
  PROVE  BackedInv'
<1> USE DEF dbVars, taskVars, sessVars
<1>1. alerts' = alerts /\ UNCHANGED taskVars
  BY DEF SendStep, SendFault, StartSend, SendOk, WebhookRejected, handle_alert_exhausted,
         SendError, SendFatal, AlertChildKilled, HandlerError, Move
<1>2. \A c \in Config : alertstate'[c].sent => alertstate[c].sent
  <2>1. \/ alertstate' = alertstate
        \/ alertstate' = [alertstate EXCEPT ![a.config].sent = FALSE]
    BY DEF SendStep, SendFault, StartSend, SendOk, WebhookRejected, handle_alert_exhausted,
           mark_alert_undelivered, SendError, SendFatal, AlertChildKilled, HandlerError
  <2>2. alertstate \in [Config -> StateRow]
    BY DEF TypeOK
  <2> QED BY <2>1, <2>2 DEF StateRow
<1> QED BY <1>1, <1>2, QuietBacked

\* Every user request preserves BackedInv.
LEMMA UserBacked == TypeOK /\ TypeOK' /\ HistoryGrows /\ BackedInv /\ UserStep => BackedInv'
<1> SUFFICES ASSUME TypeOK, TypeOK', HistoryGrows, BackedInv, UserStep PROVE BackedInv'
  OBVIOUS
<1> USE DEF alertVars, taskVars, sessVars
<1>1. alerts' = alerts /\ UNCHANGED taskVars
  BY DEF UserStep, add_alert, update_alert, delete_alert, delete_endpoint
<1>2. \A c \in Config : alertstate'[c].sent => alertstate[c].sent
  BY DEF UserStep, add_alert, update_alert, delete_alert, delete_endpoint, TypeOK, NoRow, FreshRow
<1> QED BY <1>1, <1>2, QuietBacked

\* A recovery alert is only ever queued for a config that has a down alert of
\* a recorded check, however checks overlap, fail, retry or die.
THEOREM RecoveryFollowsDown == Spec => []RecoveryAnswersDown
<1> DEFINE I == TypeOK /\ BackedInv
<1>1. Init => I
  <2>1. Init => BackedInv
    BY DEF Init, BackedInv, SentBacked, LoadedBacked, OwnDown, RecoveryAnswersDown, NoRow, FreshRow
  <2> QED BY <2>1, InitType
<1>2. I /\ [Next]_vars => I'
  <2> SUFFICES ASSUME TypeOK, BackedInv, [Next]_vars PROVE TypeOK' /\ BackedInv'
    OBVIOUS
  <2>1. TypeOK' /\ HistoryGrows
    BY NextType, StepGrows
  <2>2. BackedInv'
    <3>1. CASE WorkerKilled
      BY <2>1, <3>1, QuietBacked DEF WorkerKilled, dbVars
    <3>2. CASE UNCHANGED vars
      BY <2>1, <3>2, QuietBacked DEF vars, dbVars, alertVars, taskVars, sessVars
    <3> QED BY <2>1, <3>1, <3>2, CheckBacked, SendBacked, UserBacked DEF Next, Terminated
  <2> QED BY <2>1, <2>2
<1>3. I => RecoveryAnswersDown
  BY DEF BackedInv, RecoveryAnswersDown
<1> QED BY <1>1, <1>2, <1>3, PTL DEF Spec

-----------------------------------------------------------------------------
(* The streak never counts more than the history shows *)

Failures == Cardinality(FailedRows)

\* What the check of t adds to Failures when it commits.
Counts(t) == IF is_up_for(status[t]) THEN 0 ELSE 1

StreakInv ==
  /\ \A c \in Config : alertstate[c].streak <= Failures
  /\ \A t \in Task : \A c \in Config : new[t][c].streak <= Failures + Counts(t)

\* The recorded failures are finite in number.
LEMMA FailuresType ==
  ASSUME TypeOK
  PROVE  IsFiniteSet(FailedRows) /\ Failures \in Nat
<1>1. Len(results) \in Nat /\ DOMAIN results = 1..Len(results)
  BY DEF TypeOK
<1>2. IsFiniteSet(1..Len(results))
  BY <1>1, FS_Interval
<1>3. FailedRows \subseteq 1..Len(results)
  BY <1>1 DEF FailedRows
<1>4. IsFiniteSet(FailedRows)
  BY <1>2, <1>3, FS_Subset
<1> QED BY <1>4, FS_CardinalityType DEF Failures

\* A commit of perform_check adds one failure exactly when its check failed.
LEMMA FailuresAfterCommit ==
  ASSUME TypeOK, NEW t \in Task, ApplyWrites(t)
  PROVE  Failures' = Failures + Counts(t)
<1> DEFINE k == Len(results) + 1
<1>1. /\ Len(results) \in Nat
      /\ DOMAIN results = 1..Len(results)
      /\ DOMAIN results' = 1..k
  BY ApplyWritesGrows DEF TypeOK
<1>2. results'[k] = MyRow(t) /\ \A i \in 1..Len(results) : results'[i] = results[i]
  BY <1>1, ApplyWritesGrows
<1>3. CASE is_up_for(status[t])
  <2>1. FailedRows' = FailedRows
    BY <1>1, <1>2, <1>3 DEF FailedRows, MyRow
  <2> QED BY <1>3, <2>1, FailuresType DEF Failures, Counts
<1>4. CASE ~is_up_for(status[t])
  <2>1. FailedRows' = FailedRows \cup {k}
    BY <1>1, <1>2, <1>4 DEF FailedRows, MyRow
  <2>2. k \notin FailedRows
    BY <1>1 DEF FailedRows
  <2> QED BY <1>4, <2>1, <2>2, FailuresType, FS_AddElement DEF Failures, Counts
<1> QED BY <1>3, <1>4

\* A step that leaves history and state rows alone and closes at most sessions.
LEMMA QuietStreak ==
  ASSUME TypeOK, StreakInv, results' = results, 
         \A c \in Config : alertstate'[c].streak = alertstate[c].streak \/ alertstate'[c].streak = 0,
         \A u \in Task :
           \/ new'[u] = new[u] /\ status'[u] = status[u]
           \/ \A c \in Config : new'[u][c] = NoRow
  PROVE  StreakInv'
<1>1. Failures' = Failures /\ Failures \in Nat
  BY FailuresType DEF Failures, FailedRows
<1>2. \A c \in Config : alertstate'[c].streak <= Failures'
  BY <1>1 DEF StreakInv
<1>3. ASSUME NEW u \in Task, NEW c \in Config
      PROVE  new'[u][c].streak <= Failures' + Counts(u)'
  <2>1. CASE new'[u] = new[u] /\ status'[u] = status[u]
    BY <1>1, <2>1 DEF StreakInv, Counts
  <2>2. CASE new'[u][c] = NoRow
    BY <1>1, <2>2 DEF NoRow, Counts
  <2> QED BY <2>1, <2>2
<1> QED BY <1>2, <1>3 DEF StreakInv

\* A turn of evaluate_alerts preserves StreakInv: it adds one to the streak only
\* for the failure its own transaction will record.
LEMMA EvaluateStreak ==
  ASSUME TypeOK, StreakInv, NEW t \in Task, NEW r \in todo[t], Evaluate(t, r)
  PROVE  StreakInv'
<1> DEFINE c == r.config
           n == NextState(is_up_for(status[t]), alertstate[c], r.threshold)
<1>0. c \in Config
  <2>1. r \in Loaded
    BY DEF TypeOK
  <2> QED BY <2>1 DEF Loaded
<1>1. new' = [new EXCEPT ![t][c] = n] /\ UNCHANGED <<results, alertstate, status>>
  BY DEF Evaluate, dbVars
<1>2. Failures' = Failures /\ Failures \in Nat
  BY <1>1, FailuresType DEF Failures, FailedRows
<1>3. n.streak <= Failures + Counts(t)
  <2>1. alertstate[c].streak \in Nat /\ alertstate[c].streak <= Failures
    BY <1>0 DEF TypeOK, StateRow, StreakInv
  <2> QED BY <1>2, <2>1 DEF NextState, Counts
<1>4. ASSUME NEW u \in Task, NEW d \in Config
      PROVE  new'[u][d].streak <= Failures' + Counts(u)'
  <2>1. new'[u][d] = IF u = t /\ d = c THEN n ELSE new[u][d]
    BY <1>0, <1>1 DEF TypeOK
  <2> QED BY <1>1, <1>2, <1>3, <2>1 DEF StreakInv, Counts
<1> QED BY <1>1, <1>2, <1>4 DEF StreakInv

\* A commit preserves StreakInv: the written streak is paid for by the row.
LEMMA CommitStreak ==
  ASSUME TypeOK, StreakInv, NEW t \in Task, ApplyWrites(t), CloseSession(t),
         \A u \in Task \ {t} : status'[u] = status[u]
  PROVE  StreakInv'
<1>1. Failures' = Failures + Counts(t) /\ Failures \in Nat /\ Counts(t) \in {0, 1}
  BY FailuresAfterCommit, FailuresType DEF Counts
<1>2. ASSUME NEW c \in Config
      PROVE  alertstate'[c].streak <= Failures'
  <2>1. alertstate'[c].streak \in {alertstate[c].streak, new[t][c].streak}
    BY DEF ApplyWrites, Written
  <2>2. alertstate[c].streak \in Nat
    BY DEF TypeOK, StateRow
  <2> QED BY <1>1, <2>1, <2>2 DEF StreakInv
<1>3. ASSUME NEW u \in Task, NEW c \in Config
      PROVE  new'[u][c].streak <= Failures' + Counts(u)'
  <2>0. new[u][c].streak \in Nat
    BY DEF TypeOK, StateRow
  <2>1. CASE u = t
    <3>1. new'[u][c].streak = 0
      BY <2>1 DEF CloseSession, TypeOK, NoRow
    <3> QED BY <1>1, <3>1 DEF Counts
  <2>2. CASE u # t
    <3>1. new'[u][c] = new[u][c] /\ Counts(u)' = Counts(u) /\ Counts(u) \in {0, 1}
      BY <2>2 DEF CloseSession, TypeOK, Counts
    <3> QED BY <1>1, <2>0, <3>1 DEF StreakInv
  <2> QED BY <2>1, <2>2
<1> QED BY <1>2, <1>3 DEF StreakInv

\* Every step of a check preserves StreakInv.
LEMMA CheckStreak ==
  ASSUME TypeOK, SessionInv, StreakInv, NEW t \in Task,
         dispatch_due_checks(t) \/ CheckStep(t) \/ CheckFault(t)
  PROVE  StreakInv'
<1> USE DEF dbVars
<1>0. ASSUME CloseSession(t), \A u \in Task \ {t} : status'[u] = status[u]
      PROVE  \A u \in Task : \/ new'[u] = new[u] /\ status'[u] = status[u]
                             \/ \A c \in Config : new'[u][c] = NoRow
  BY <1>0 DEF CloseSession, TypeOK
<1>1. CASE dispatch_due_checks(t) \/ DispatchLost(t) \/ InsertAndLoad(t)
  BY <1>1, QuietStreak DEF dispatch_due_checks, DispatchLost, InsertAndLoad, sessVars
<1>2. CASE Probe(t)
  <2>1. UNCHANGED <<dbVars, new>> /\ \A u \in Task \ {t} : status'[u] = status[u]
    BY <1>2 DEF Probe, sessVars, TypeOK
  <2>2. \A c \in Config : new[t][c] = NoRow
    BY <1>2 DEF Probe, SessionInv
  <2> QED BY <2>1, <2>2, QuietStreak
<1>3. CASE \E r \in todo[t] : Evaluate(t, r)
  BY <1>3, EvaluateStreak
<1>4. CASE Commit(t) \/ CommitUnknown(t)
  <2>1. ApplyWrites(t) /\ CloseSession(t) /\ \A u \in Task \ {t} : status'[u] = status[u]
    BY <1>4 DEF Commit, CommitUnknown, Retry, End, TypeOK
  <2> QED BY <2>1, CommitStreak
<1>5. CASE \/ DeadlockVictim(t) \/ DbError(t) \/ InsertFails(t) \/ FlushFails(t)
           \/ Publish(t) \/ ProbeRaises(t) \/ PublishFails(t) \/ CheckChildKilled(t)
           \/ \E r \in todo[t] : BrokerDown(t, r)
  <2>1. /\ CloseSession(t) /\ UNCHANGED dbVars
        /\ \A u \in Task \ {t} : status'[u] = status[u]
    BY <1>5 DEF DeadlockVictim, DbError, Retry, InsertFails, FlushFails, Publish, ProbeRaises,
                PublishFails, CheckChildKilled, BrokerDown, End, TypeOK
  <2> QED BY <1>0, <2>1, QuietStreak
<1> QED BY <1>1, <1>2, <1>3, <1>4, <1>5 DEF CheckStep, CheckFault

\* Every step of a delivery preserves StreakInv.
LEMMA SendStreak ==
  ASSUME TypeOK, StreakInv, NEW a \in alerts, SendStep(a) \/ SendFault(a)
  PROVE  StreakInv'
<1> USE DEF dbVars, taskVars, sessVars
<1>1. results' = results /\ UNCHANGED taskVars
  BY DEF SendStep, SendFault, StartSend, SendOk, WebhookRejected, handle_alert_exhausted,
         SendError, SendFatal, AlertChildKilled, HandlerError
<1>2. \A c \in Config : alertstate'[c].streak = alertstate[c].streak
  <2>1. \/ alertstate' = alertstate
        \/ alertstate' = [alertstate EXCEPT ![a.config].sent = FALSE]
    BY DEF SendStep, SendFault, StartSend, SendOk, WebhookRejected, handle_alert_exhausted,
           mark_alert_undelivered, SendError, SendFatal, AlertChildKilled, HandlerError
  <2>2. alertstate \in [Config -> StateRow]
    BY DEF TypeOK
  <2> QED BY <2>1, <2>2 DEF StateRow
<1> QED BY <1>1, <1>2, QuietStreak

\* Every user request preserves StreakInv: a deleted endpoint takes its states
\* with its results.
LEMMA UserStreak == TypeOK /\ SessionInv /\ StreakInv /\ UserStep => StreakInv'
<1> SUFFICES ASSUME TypeOK, SessionInv, StreakInv, UserStep PROVE StreakInv'
  OBVIOUS
<1> USE DEF taskVars, sessVars
<1>1. CASE delete_endpoint
  <2>1. FailedRows' = {} /\ Failures' = 0
    <3>1. FailedRows' = {}
      BY <1>1 DEF delete_endpoint, FailedRows
    <3> QED BY <3>1, FS_EmptySet DEF Failures
  <2>2. \A c \in Config : alertstate'[c].streak = 0
    BY <1>1 DEF delete_endpoint, NoRow
  <2>3. \A t \in Task : \A c \in Config : new'[t][c].streak = 0
    BY <1>1 DEF delete_endpoint, SessionInv, NoRow
  <2> QED BY <2>1, <2>2, <2>3 DEF StreakInv, Counts
<1>2. CASE ~delete_endpoint
  <2>1. results' = results /\ UNCHANGED taskVars
    BY <1>2 DEF UserStep, add_alert, update_alert, delete_alert
  <2>2. \A c \in Config :
          alertstate'[c].streak = alertstate[c].streak \/ alertstate'[c].streak = 0
    BY <1>2 DEF UserStep, add_alert, update_alert, delete_alert, TypeOK, NoRow, FreshRow
  <2> QED BY <2>1, <2>2, QuietStreak
<1> QED BY <1>1, <1>2

\* Every step preserves StreakInv.
LEMMA NextStreak == TypeOK /\ SessionInv /\ StreakInv /\ [Next]_vars => StreakInv'
<1> SUFFICES ASSUME TypeOK, SessionInv, StreakInv, [Next]_vars PROVE StreakInv'
  OBVIOUS
<1>1. CASE WorkerKilled
  BY <1>1, QuietStreak DEF WorkerKilled, dbVars
<1>2. CASE UNCHANGED vars
  BY <1>2, QuietStreak DEF vars, dbVars, taskVars, sessVars
<1> QED BY <1>1, <1>2, CheckStreak, SendStreak, UserStreak DEF Next, Terminated

\* StreakInv holds in every reachable state.
LEMMA StreakInvariant == Spec => []StreakInv
<1>1. Init => StreakInv
  <2> SUFFICES ASSUME Init PROVE StreakInv
    OBVIOUS
  <2>1. Failures \in Nat
    BY InitType, FailuresType
  <2>2. \A c \in Config : alertstate[c].streak = 0
    BY DEF Init, NoRow, FreshRow
  <2>3. \A t \in Task : \A c \in Config : new[t][c].streak = 0
    BY DEF Init, NoRow
  <2> QED BY <2>1, <2>2, <2>3 DEF StreakInv, Counts
<1> QED BY <1>1, NextStreak, TypeCorrect, SessionsClosed, PTL DEF Spec

\* current_streak never exceeds the number of failures in the history, for
\* any number of overlapping, retried and crashing checks.
THEOREM StreakIsBacked == Spec => []StreakBacked
<1>1. StreakInv => StreakBacked
  BY DEF StreakInv, StreakBacked, Failures
<1> QED BY <1>1, StreakInvariant, PTL

\* No down alert is queued before the recorded failures, with the one being
\* recorded, reach the threshold.
THEOREM DownFollowsFailures == Spec => DownNeedsFailures
<1> DEFINE A == \A a \in alerts' \ alerts : a.kind = "down" =>
                  \E r \in todo[a.task] : /\ r.config = a.config
                                          /\ r.threshold <= Cardinality(FailedRows) + 1
<1>1. ASSUME TypeOK, StreakInv, Next
      PROVE  A
  <2> SUFFICES ASSUME NEW a \in alerts' \ alerts, a.kind = "down"
               PROVE  \E r \in todo[a.task] : /\ r.config = a.config
                                              /\ r.threshold <= Cardinality(FailedRows) + 1
    OBVIOUS
  <2> USE DEF dbVars, alertVars
  <2>1. \E t \in Task : \E r \in todo[t] : Evaluate(t, r)
    <3>1. ASSUME NEW t \in Task, dispatch_due_checks(t) \/ CheckStep(t) \/ CheckFault(t),
                 ~\E r \in todo[t] : Evaluate(t, r)
          PROVE  alerts' = alerts
      BY <3>1 DEF CheckStep, CheckFault, dispatch_due_checks, DispatchLost, Probe, InsertAndLoad,
           Commit, CommitUnknown, DeadlockVictim, DbError, InsertFails, FlushFails, Publish,
           ProbeRaises, PublishFails, CheckChildKilled, BrokerDown
    <3>2. ASSUME NEW b \in alerts, SendStep(b) \/ SendFault(b)
          PROVE  alerts' = alerts
      BY <3>2 DEF SendStep, SendFault, StartSend, SendOk, WebhookRejected, SendFatal,
           handle_alert_exhausted, SendError, AlertChildKilled, HandlerError, Move
    <3>3. ASSUME UserStep \/ WorkerKilled \/ Terminated
          PROVE  alerts' = alerts
      BY <3>3 DEF UserStep, add_alert, update_alert, delete_alert, delete_endpoint,
           WorkerKilled, Terminated, vars
    <3> QED BY <1>1, <3>1, <3>2, <3>3 DEF Next
  <2>0. PICK t \in Task : \E r \in todo[t] : Evaluate(t, r)
    BY <2>1
  <2>2. PICK r \in todo[t] : Evaluate(t, r)
    BY <2>0
  <2> DEFINE up == is_up_for(status[t])
             s == alertstate[r.config]
  <2>3. /\ AlertDue(up, s, r.threshold)
        /\ a = [config |-> r.config, task |-> t, attempt |-> attempt[t],
                kind |-> IF up THEN "recovery" ELSE "down", channel |-> r.channel]
    BY <2>2 DEF Evaluate, queue_alert
  <2>4. s.streak + 1 >= r.threshold
    BY <2>3 DEF AlertDue
  <2>5. r \in Loaded
    BY <1>1 DEF TypeOK
  <2>6. s.streak \in Nat /\ s.streak <= Failures /\ r.threshold \in Int
    BY <1>1, <2>5, ThresholdAssumption DEF TypeOK, StateRow, Loaded, StreakInv
  <2>7. Failures \in Nat
    BY <1>1, FailuresType
  <2>8. r.threshold <= Cardinality(FailedRows) + 1
    BY <2>4, <2>6, <2>7 DEF Failures
  <2> QED BY <2>3, <2>8
<1>2. TypeOK /\ StreakInv /\ [Next]_vars => [A]_vars
  BY <1>1
<1> QED BY <1>2, TypeCorrect, StreakInvariant, PTL DEF Spec, DownNeedsFailures

-----------------------------------------------------------------------------
(* The dashboard hears only of recorded results *)

Recorded(e) == \E i \in DOMAIN results : results[i] = e

\* A check that is about to publish has committed its row.
PublishInv ==
  endpoint => /\ \A e \in published : Recorded(e)
              /\ \A t \in Task : pc[t] = "committed" => Recorded(MyRow(t))

\* A recorded result stays recorded while the endpoint exists.
LEMMA RecordedGrows ==
  ASSUME TypeOK, TypeOK', HistoryGrows, endpoint', NEW e, Recorded(e)
  PROVE  Recorded(e)'
<1>1. PICK i \in DOMAIN results : results[i] = e
  BY DEF Recorded
<1>2. i \in DOMAIN results' /\ results'[i] = results[i]
  BY <1>1 DEF TypeOK, HistoryGrows
<1> QED BY <1>1, <1>2 DEF Recorded

\* What a step may publish, and which tasks it may make ready to publish.
LEMMA PublishStep ==
  ASSUME TypeOK, TypeOK', HistoryGrows, PublishInv,
         \A e \in published' \ published : \E t \in Task : pc[t] = "committed" /\ e = MyRow(t),
         \A u \in Task : pc'[u] = "committed" =>
           Recorded(MyRow(u))' \/ (pc[u] = "committed" /\ MyRow(u)' = MyRow(u))
  PROVE  PublishInv'
<1> SUFFICES ASSUME endpoint'
             PROVE  /\ \A e \in published' : Recorded(e)'
                    /\ \A u \in Task : pc'[u] = "committed" => Recorded(MyRow(u))'
  BY DEF PublishInv
<1>1. /\ \A e \in published : Recorded(e)
      /\ \A u \in Task : pc[u] = "committed" => Recorded(MyRow(u))
  BY DEF HistoryGrows, PublishInv
<1>2. ASSUME NEW e \in published'
      PROVE  Recorded(e)'
  BY <1>1, RecordedGrows
<1>3. ASSUME NEW u \in Task, pc'[u] = "committed"
      PROVE  Recorded(MyRow(u))'
  <2>1. CASE pc[u] = "committed" /\ MyRow(u)' = MyRow(u)
    <3>1. Recorded(MyRow(u))
      BY <1>1, <2>1
    <3>2. PICK i \in DOMAIN results : results[i] = MyRow(u)
      BY <3>1 DEF Recorded
    <3>3. i \in DOMAIN results' /\ results'[i] = results[i]
      BY <3>2 DEF TypeOK, HistoryGrows
    <3> QED BY <2>1, <3>2, <3>3 DEF Recorded
  <2> QED BY <1>3, <2>1
<1> QED BY <1>2, <1>3

\* Every step of a check preserves PublishInv: only a committed check publishes.
LEMMA CheckPublish ==
  ASSUME TypeOK, TypeOK', HistoryGrows, PublishInv, NEW t \in Task,
         dispatch_due_checks(t) \/ CheckStep(t) \/ CheckFault(t)
  PROVE  PublishInv'
<1>1. ASSUME \A e \in published' \ published : pc[t] = "committed" /\ e = MyRow(t),
             \A u \in Task \ {t} : /\ pc'[u] = pc[u]
                                   /\ attempt'[u] = attempt[u] /\ status'[u] = status[u],
             pc'[t] # "committed"
      PROVE  PublishInv'
  <2>1. \A u \in Task : pc'[u] = "committed" => pc[u] = "committed" /\ MyRow(u)' = MyRow(u)
    BY <1>1 DEF MyRow
  <2> QED BY <1>1, <2>1, PublishStep
<1>2. CASE dispatch_due_checks(t) \/ DispatchLost(t) \/ Probe(t) \/ InsertAndLoad(t)
  BY <1>1, <1>2 DEF dispatch_due_checks, DispatchLost, Probe, InsertAndLoad, TypeOK
<1>3. CASE \E r \in todo[t] : Evaluate(t, r)
  BY <1>1, <1>3 DEF Evaluate, TypeOK
<1>4. CASE Commit(t)
  <2>1. CASE publish[t]
    <3>1. /\ UNCHANGED <<published, attempt, status>> /\ ApplyWrites(t)
          /\ \A u \in Task \ {t} : pc'[u] = pc[u]
      BY <1>4, <2>1 DEF Commit, TypeOK
    <3>2. Recorded(MyRow(t))'
      <4>1. MyRow(t)' = MyRow(t)
        BY <3>1 DEF MyRow
      <4>2. Len(results) + 1 \in DOMAIN results' /\ results'[Len(results) + 1] = MyRow(t)
        BY <3>1, ApplyWritesGrows DEF TypeOK
      <4> QED BY <4>1, <4>2 DEF Recorded
    <3>3. \A u \in Task : pc'[u] = "committed" =>
            Recorded(MyRow(u))' \/ (pc[u] = "committed" /\ MyRow(u)' = MyRow(u))
      BY <3>1, <3>2 DEF MyRow
    <3> QED BY <3>1, <3>3, PublishStep
  <2>2. CASE ~publish[t]
    BY <1>1, <1>4, <2>2 DEF Commit, End, TypeOK
  <2> QED BY <2>1, <2>2
<1>5. CASE CommitUnknown(t) \/ DeadlockVictim(t) \/ DbError(t)
  BY <1>1, <1>5 DEF CommitUnknown, DeadlockVictim, DbError, Retry, End, TypeOK
<1>6. CASE Publish(t)
  BY <1>1, <1>6 DEF Publish, End, TypeOK
<1>7. CASE \/ InsertFails(t) \/ FlushFails(t) \/ ProbeRaises(t) \/ PublishFails(t)
           \/ CheckChildKilled(t) \/ \E r \in todo[t] : BrokerDown(t, r)
  BY <1>1, <1>7 DEF InsertFails, FlushFails, ProbeRaises, PublishFails, CheckChildKilled,
                    BrokerDown, End, TypeOK
<1> QED BY <1>2, <1>3, <1>4, <1>5, <1>6, <1>7 DEF CheckStep, CheckFault

\* Every status change the dashboard was told of is a row of the history.
THEOREM PublishedIsRecorded == Spec => []NoPhantomUpdate
<1> DEFINE I == TypeOK /\ PublishInv
<1>1. Init => I
  BY InitType DEF Init, PublishInv
<1>2. I /\ [Next]_vars => I'
  <2> SUFFICES ASSUME TypeOK, PublishInv, [Next]_vars PROVE TypeOK' /\ PublishInv'
    OBVIOUS
  <2>1. TypeOK' /\ HistoryGrows
    BY NextType, StepGrows
  <2>2. PublishInv'
    <3> USE DEF taskVars
    <3>1. ASSUME UNCHANGED <<published, pc, attempt, status>>
          PROVE  PublishInv'
      BY <2>1, <3>1, PublishStep DEF MyRow
    <3>2. CASE WorkerKilled
      BY <2>1, <3>2, PublishStep DEF WorkerKilled, RunningCheck
    <3>3. ASSUME NEW a \in alerts, SendStep(a) \/ SendFault(a)
          PROVE  PublishInv'
      BY <3>1, <3>3 DEF SendStep, SendFault, StartSend, SendOk, WebhookRejected,
           handle_alert_exhausted, SendError, SendFatal, AlertChildKilled, HandlerError
    <3>4. CASE UserStep
      BY <3>1, <3>4 DEF UserStep, add_alert, update_alert, delete_alert, delete_endpoint
    <3>5. CASE UNCHANGED vars
      BY <3>1, <3>5 DEF vars
    <3> QED BY <2>1, <3>2, <3>3, <3>4, <3>5, CheckPublish DEF Next, Terminated
  <2> QED BY <2>1, <2>2
<1>3. I => NoPhantomUpdate
  BY DEF PublishInv, NoPhantomUpdate, Recorded
<1> QED BY <1>1, <1>2, <1>3, PTL DEF Spec
-----------------------------------------------------------------------------
(* One row per dispatched check *)

\* What is recorded of a check is recorded for good: its task is past its commit
\* and never runs again, or it is a later attempt, after a COMMIT in doubt, that
\* runs now or has failed.
RowOver(row) ==
  \/ row.attempt = attempt[row.task] /\ pc[row.task] \in {"committed", "done", "lost"}
  \/ /\ "commit_unknown" \in Faults
     /\ \/ row.attempt < attempt[row.task]
        \/ row.attempt = attempt[row.task] /\ pc[row.task] = "failed"

RowOnceInv ==
  /\ \A i \in DOMAIN results : RowOver(results[i])
  /\ OneRowPerDispatch

\* The attempts are numbers.
LEMMA AttemptNat ==
  ASSUME TypeOK
  PROVE  /\ Len(results) \in Nat /\ DOMAIN results = 1..Len(results)
         /\ \A i \in DOMAIN results : results[i].task \in Task /\ results[i].attempt \in Nat
         /\ \A t \in Task : attempt[t] \in Nat /\ attempt[t] <= CheckRetries
         /\ CheckRetries \in Nat
<1>1. \A i \in DOMAIN results : results[i] \in Row
  BY DEF TypeOK
<1>2. CheckRetries \in Nat
  BY RetriesAssumption
<1>3. \A i \in DOMAIN results : results[i].task \in Task /\ results[i].attempt \in Nat
  BY <1>1, <1>2 DEF Row, Attempt
<1>4. \A t \in Task : attempt[t] \in Nat /\ attempt[t] <= CheckRetries
  BY <1>2 DEF TypeOK, Attempt
<1>5. Len(results) \in Nat /\ DOMAIN results = 1..Len(results)
  BY DEF TypeOK
<1> QED BY <1>2, <1>3, <1>4, <1>5

\* What a step may do to a task without bringing a recorded attempt back.
MovesOn(u) ==
  /\ attempt[u] <= attempt'[u]
  /\ pc[u] \in {"committed", "done", "lost"} =>
       attempt'[u] = attempt[u] /\ pc'[u] \in {"committed", "done", "lost"}
  /\ pc[u] = "failed" => attempt'[u] = attempt[u] /\ pc'[u] = "failed"

\* Such a step keeps a row over.
LEMMA StaysOver ==
  ASSUME TypeOK, TypeOK', NEW i \in DOMAIN results, RowOver(results[i]),
         MovesOn(results[i].task), NEW row, row = results[i]
  PROVE  /\ \/ row.attempt = attempt'[row.task] /\ pc'[row.task] \in {"committed", "done", "lost"}
            \/ /\ "commit_unknown" \in Faults
               /\ \/ row.attempt < attempt'[row.task]
                  \/ row.attempt = attempt'[row.task] /\ pc'[row.task] = "failed"
<1>1. row.task \in Task /\ row.attempt \in Nat /\ attempt[row.task] \in Nat
  BY AttemptNat
<1>2. attempt'[row.task] \in Nat
  BY <1>1, RetriesAssumption DEF TypeOK, Attempt
<1> QED BY <1>1, <1>2 DEF RowOver, MovesOn

\* A step that records nothing preserves RowOnceInv.
LEMMA QuietRowOnce ==
  ASSUME TypeOK, TypeOK', RowOnceInv, results' = results, \A u \in Task : MovesOn(u)
  PROVE  RowOnceInv'
<1>1. \A i \in DOMAIN results : RowOver(results[i])'
  <2> SUFFICES ASSUME NEW i \in DOMAIN results
               PROVE  RowOver(results[i])'
    OBVIOUS
  <2>1. RowOver(results[i]) /\ MovesOn(results[i].task)
    BY AttemptNat DEF RowOnceInv
  <2> QED BY <2>1, StaysOver DEF RowOver
<1> QED BY <1>1 DEF RowOnceInv, OneRowPerDispatch

\* A step that moves one task on.
LEMMA OneMovesOn ==
  ASSUME TypeOK, TypeOK', NEW t \in Task, NEW p \in PC,
         pc' = [pc EXCEPT ![t] = p], attempt' = attempt,
         pc[t] \in {"committed", "done", "lost"} => p \in {"committed", "done", "lost"},
         pc[t] # "failed"
  PROVE  \A u \in Task : MovesOn(u)
<1>1. ASSUME NEW u \in Task
      PROVE  MovesOn(u)
  <2>1. attempt[u] \in Nat /\ attempt'[u] = attempt[u]
    BY AttemptNat
  <2>2. pc'[u] = IF u = t THEN p ELSE pc[u]
    BY DEF TypeOK
  <2> QED BY <2>1, <2>2 DEF MovesOn
<1> QED BY <1>1

\* A retry moves a task on that was in its transaction.
LEMMA RetryMovesOn ==
  ASSUME TypeOK, TypeOK', NEW t \in Task, Retry(t), pc[t] \in {"probed", "evaluating"}
  PROVE  /\ \A u \in Task : MovesOn(u)
         /\ \/ attempt[t] < attempt'[t]
            \/ attempt'[t] = attempt[t] /\ pc'[t] = "failed"
<1>1. /\ CheckRetries \in Nat
      /\ \A u \in Task : attempt[u] \in Nat
  BY AttemptNat
<1>2. /\ attempt'[t] = IF attempt[t] < CheckRetries THEN attempt[t] + 1 ELSE attempt[t]
      /\ pc'[t] = IF attempt[t] < CheckRetries THEN "queued" ELSE "failed"
      /\ \A u \in Task \ {t} : pc'[u] = pc[u] /\ attempt'[u] = attempt[u]
  BY DEF Retry, End, TypeOK
<1>3. ASSUME NEW u \in Task
      PROVE  MovesOn(u)
  BY <1>1, <1>2 DEF MovesOn
<1> QED BY <1>1, <1>2, <1>3

\* A commit preserves RowOnceInv: what the task recorded before, if anything, is
\* an earlier attempt.
LEMMA CommitRowOnce ==
  ASSUME TypeOK, TypeOK', RowOnceInv, NEW t \in Task, ApplyWrites(t), pc[t] = "evaluating",
         \A u \in Task : MovesOn(u),
         \/ attempt'[t] = attempt[t] /\ pc'[t] \in {"committed", "done"}
         \/ /\ "commit_unknown" \in Faults
            /\ \/ attempt[t] < attempt'[t]
               \/ attempt'[t] = attempt[t] /\ pc'[t] = "failed"
  PROVE  RowOnceInv'
<1> DEFINE k == Len(results) + 1
<1>1. /\ Len(results) \in Nat /\ DOMAIN results = 1..Len(results) /\ DOMAIN results' = 1..k
      /\ \A i \in 1..Len(results) : results'[i] = results[i]
      /\ results'[k] = MyRow(t)
  BY ApplyWritesGrows, AttemptNat
<1>2. results'[k].task = t /\ results'[k].attempt = attempt[t]
  BY <1>1 DEF MyRow
<1>3. \A i \in 1..k : i = k \/ i \in 1..Len(results)
  BY <1>1
<1>4. ASSUME NEW i \in 1..Len(results), results[i].task = t
      PROVE  results[i].attempt < attempt[t] /\ "commit_unknown" \in Faults
  BY <1>1, <1>4 DEF RowOnceInv, RowOver
<1>5. \A i \in 1..k : RowOver(results[i])'
  <2>1. ASSUME NEW i \in 1..Len(results)
        PROVE  RowOver(results[i])'
    <3>1. RowOver(results[i]) /\ MovesOn(results[i].task)
      BY <1>1, AttemptNat DEF RowOnceInv
    <3> QED BY <1>1, <3>1, StaysOver DEF RowOver
  <2>2. ASSUME NEW i \in 1..k, i = k
        PROVE  RowOver(results[i])'
    BY <1>2, <2>2 DEF RowOver
  <2> QED BY <1>3, <2>1, <2>2
<1>6. OneRowPerDispatch'
  <2>1. ASSUME NEW i \in 1..k, NEW j \in 1..k, i < j, results'[i].task = results'[j].task
        PROVE  results'[i].attempt < results'[j].attempt /\ "commit_unknown" \in Faults
    <3>1. i \in 1..Len(results)
      BY <1>1, <2>1
    <3>2. CASE j = k
      BY <1>1, <1>2, <1>4, <2>1, <3>1, <3>2
    <3>3. CASE j \in 1..Len(results)
      BY <1>1, <2>1, <3>1, <3>3 DEF RowOnceInv, OneRowPerDispatch
    <3> QED BY <1>3, <3>2, <3>3
  <2> QED BY <1>1, <2>1 DEF OneRowPerDispatch
<1> QED BY <1>1, <1>5, <1>6 DEF RowOnceInv

\* Whatever is retried, killed or rolled back: no attempt records its check twice,
\* and where no connection is lost in the middle of a COMMIT, no check is recorded
\* twice.
THEOREM OneRow == Spec => []OneRowPerDispatch
<1> DEFINE I == TypeOK /\ RowOnceInv
<1>1. Init => I
  BY InitType DEF Init, RowOnceInv, OneRowPerDispatch
<1>2. I /\ [Next]_vars => I'
  <2> SUFFICES ASSUME TypeOK, RowOnceInv, [Next]_vars PROVE TypeOK' /\ RowOnceInv'
    OBVIOUS
  <2>1. TypeOK'
    BY NextType
  <2>2. RowOnceInv'
    <3> USE DEF taskVars, dbVars
    <3>1. ASSUME UNCHANGED <<results, pc, attempt>>
          PROVE  RowOnceInv'
      <4>1. \A u \in Task : MovesOn(u)
        BY <3>1, AttemptNat DEF MovesOn
      <4> QED BY <2>1, <3>1, <4>1, QuietRowOnce
    <3>2. ASSUME NEW t \in Task, dispatch_due_checks(t) \/ CheckStep(t) \/ CheckFault(t)
          PROVE  RowOnceInv'
      <4>1. CASE Commit(t)
        <5>1. ApplyWrites(t) /\ pc[t] = "evaluating" /\ attempt' = attempt
          BY <4>1 DEF Commit, ReadyToCommit
        <5>2. PICK p \in {"committed", "done"} : pc' = [pc EXCEPT ![t] = p]
          BY <4>1 DEF Commit, End
        <5>3. p \in PC /\ pc'[t] = p
          BY <5>2 DEF PC, TypeOK
        <5>4. \A u \in Task : MovesOn(u)
          BY <2>1, <5>1, <5>2, <5>3, OneMovesOn
        <5> QED BY <2>1, <5>1, <5>2, <5>3, <5>4, CommitRowOnce
      <4>2. CASE \E r \in todo[t] : Evaluate(t, r)
        BY <4>2, <3>1 DEF Evaluate
      <4>3. ASSUME NEW p \in PC, pc' = [pc EXCEPT ![t] = p], UNCHANGED <<results, attempt>>,
                   pc[t] \in {"committed", "done", "lost"} => p \in {"committed", "done", "lost"},
                   pc[t] # "failed"
            PROVE  RowOnceInv'
        <5>1. \A u \in Task : MovesOn(u)
          BY <2>1, <4>3, OneMovesOn
        <5> QED BY <2>1, <4>3, <5>1, QuietRowOnce
      <4>4. CASE dispatch_due_checks(t) \/ DispatchLost(t) \/ Probe(t) \/ InsertAndLoad(t)
        BY <4>3, <4>4 DEF dispatch_due_checks, DispatchLost, Claimable, Probe, InsertAndLoad, PC
      <4>5. CASE DeadlockVictim(t) \/ DbError(t)
        <5>1. Retry(t) /\ pc[t] \in {"probed", "evaluating"} /\ results' = results
          BY <4>5 DEF DeadlockVictim, DbError
        <5> QED BY <2>1, <5>1, RetryMovesOn, QuietRowOnce
      <4>6. CASE InsertFails(t) \/ FlushFails(t) \/ ProbeRaises(t) \/ \E r \in todo[t] : BrokerDown(t, r)
        BY <4>3, <4>6 DEF InsertFails, FlushFails, ProbeRaises, BrokerDown, End, PC
      <4>7. CASE Publish(t) \/ PublishFails(t) \/ CheckChildKilled(t)
        BY <4>3, <4>7 DEF Publish, PublishFails, CheckChildKilled, RunningCheck, End, PC
      <4>8. CASE CommitUnknown(t)
        <5>1. /\ ApplyWrites(t) /\ Retry(t) /\ pc[t] = "evaluating"
              /\ "commit_unknown" \in Faults
          BY <4>8 DEF CommitUnknown, ReadyToCommit
        <5> QED BY <2>1, <5>1, RetryMovesOn, CommitRowOnce
      <4> QED BY <3>2, <4>1, <4>2, <4>4, <4>5, <4>6, <4>7, <4>8 DEF CheckStep, CheckFault
    <3>3. CASE WorkerKilled
      <4>1. \A u \in Task : attempt[u] \in Nat /\ attempt'[u] = attempt[u]
        BY <3>3, AttemptNat DEF WorkerKilled
      <4>2. \A u \in Task : pc'[u] = IF pc[u] \in RunningCheck THEN "lost" ELSE pc[u]
        BY <3>3 DEF WorkerKilled
      <4>3. \A u \in Task : MovesOn(u)
        BY <4>1, <4>2 DEF MovesOn, RunningCheck
      <4> QED BY <2>1, <3>3, <4>3, QuietRowOnce DEF WorkerKilled
    <3>4. ASSUME NEW a \in alerts, SendStep(a) \/ SendFault(a)
          PROVE  RowOnceInv'
      BY <3>1, <3>4 DEF SendStep, SendFault, StartSend, SendOk, WebhookRejected,
           handle_alert_exhausted, SendError, SendFatal, AlertChildKilled, HandlerError
    <3>5. CASE UserStep
      <4>1. CASE delete_endpoint
        BY <4>1 DEF delete_endpoint, RowOnceInv, OneRowPerDispatch
      <4>2. CASE ~delete_endpoint
        BY <3>1, <3>5, <4>2 DEF UserStep, add_alert, update_alert, delete_alert
      <4> QED BY <4>1, <4>2
    <3>6. CASE UNCHANGED vars
      BY <3>1, <3>6 DEF vars
    <3> QED BY <3>2, <3>3, <3>4, <3>5, <3>6 DEF Next, Terminated
  <2> QED BY <2>1, <2>2
<1>3. I => OneRowPerDispatch
  BY DEF RowOnceInv
<1> QED BY <1>1, <1>2, <1>3, PTL DEF Spec
=============================================================================
