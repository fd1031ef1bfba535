----------------------- MODULE AlertRefinementProofs -------------------------
(***************************************************************************)
(* With one process in the pool, AlertPipeline implements AlertContract:   *)
(* the probes, transactions, retries, redeliveries and crashes of one      *)
(* check at a time amount to the atomic steps that the contract knows. The *)
(* flag is then honest, and recoveries are sent where outages were told.   *)
(***************************************************************************)
EXTENDS AlertPipelineProofs, SequenceTheorems

\* The generality of the theorems of this module: one pool process, any faults
\* but its death (the parent then clears flags on its own, next to the next
\* check), and any deletions, while the settings stay otherwise as they are.
OneProcess ==
  /\ WorkerSlots = 1
  /\ UserActions \subseteq {"delete", "delete_endpoint"}
  /\ "child_killed" \notin Faults

-----------------------------------------------------------------------------
(* The invariant *)

\* A check that runs has the pool to itself.
Alone ==
  /\ IsFiniteSet(alerts)
  /\ \A t, u \in Task : pc[t] \in RunningCheck /\ pc[u] \in RunningCheck => t = u
  /\ \A t \in Task : pc[t] \in RunningCheck =>
       \A a \in alerts : delivery[a].stage \notin {"sending", "failing"}
  /\ \A a \in alerts : delivery[a].stage # "orphaned"

\* Every live config is active, and what was loaded of it is still so.
SettingsKept ==
  /\ \A c \in Config : config[c].life = "live" => config[c].is_active
  /\ \A t \in Task : \A r \in todo[t] : r.threshold = config[r.config].threshold

\* The recorded rows come from attempts that are over.
RowsPast ==
  \A i \in DOMAIN results : LET t == results[i].task IN
    \/ results[i].attempt < attempt[t]
    \/ results[i].attempt = attempt[t] /\ pc[t] \in {"committed", "done", "lost", "failed"}

\* The alerts come from attempts that have evaluated, or still do.
AlertsPast ==
  \A a \in alerts : LET t == a.task IN
    \/ a.attempt < attempt[t]
    \/ a.attempt = attempt[t] /\ pc[t] \notin {"idle", "queued", "probed"}

AttemptsPast == RowsPast /\ AlertsPast

Up(t) == is_up_for(status[t])

\* The session of t has been through c.
Seen(t, c) == new[t][c].exists

\* The check of t, which announces c if it is recorded.
Due(t, c) == AlertDue(Up(t), old[t][c], config[c].threshold)

Kind(t) == IF Up(t) THEN "recovery" ELSE "down"

\* The alerts of the attempt that is under way.
Mine(t) == {a \in alerts : a.task = t /\ a.attempt = attempt[t]}

\* Every live config is still to be evaluated or has been, none is both.
Considered(t) ==
  /\ \A r, q \in todo[t] : r.config = q.config => r = q
  /\ \A r \in todo[t] : ~Seen(t, r.config)
  /\ \A c \in Config : config[c].life = "live" =>
       Seen(t, c) \/ \E r \in todo[t] : r.config = c

\* What the session holds of c is what the loop body makes of the stored row,
\* and the alert that was due is queued.
Evaluated(t, c) ==
  IF Seen(t, c)
  THEN /\ new[t][c] = NextState(Up(t), old[t][c], config[c].threshold)
       /\ config[c].life = "live" => old[t][c] = alertstate[c]
       /\ Due(t, c) => \E a \in Mine(t) : a.config = c
  ELSE old[t][c] = new[t][c]

\* The attempt has queued the alerts that were due and no others, and none of
\* them has been touched.
Announced(t) ==
  \A a \in Mine(t) : /\ Seen(t, a.config) /\ Due(t, a.config)
                     /\ a.kind = Kind(t) /\ delivery[a].stage = "queued"

SessionTrue(t) == Considered(t) /\ Announced(t) /\ \A c \in Config : Evaluated(t, c)

SessionsTrue == \A t \in Task : pc[t] = "evaluating" => SessionTrue(t)

SerialInv == RowInv /\ Alone /\ SettingsKept /\ AttemptsPast /\ SessionsTrue
-----------------------------------------------------------------------------
(* The steps, by what they do to the invariant *)

\* The tasks other than t stay as they are.
OthersStand(t) ==
  \A u \in Task \ {t} :
    /\ pc'[u] = pc[u] /\ attempt'[u] = attempt[u] /\ status'[u] = status[u]
    /\ todo'[u] = todo[u] /\ old'[u] = old[u] /\ new'[u] = new[u]

\* The attempt of t is over: for good, or with another one to come.
Over(t) ==
  /\ OthersStand(t)
  /\ pc[t] \notin {"idle", "done", "lost"}
  /\ todo'[t] = {} /\ \A c \in Config : old'[t][c] = NoRow /\ new'[t][c] = NoRow
  /\ \/ pc'[t] = "queued" /\ attempt'[t] = attempt[t] + 1
     \/ pc'[t] = "failed" /\ attempt'[t] = attempt[t] /\ pc[t] # "committed"
     \/ /\ pc'[t] \in {"committed", "done"} /\ attempt'[t] = attempt[t]
        /\ pc[t] \in {"evaluating", "committed"}

\* The dispatcher claims the check of t.
Claims(t) ==
  /\ OthersStand(t)
  /\ pc[t] = "idle" /\ pc'[t] \in {"queued", "lost"}
  /\ UNCHANGED <<dbVars, alertVars, attempt, status, sessVars>>

\* The attempt of t ends and leaves no trace in the tables.
Quits(t) == Over(t) /\ UNCHANGED <<dbVars, alertVars>>

\* The attempt of t ends with a commit.
Records(t) ==
  /\ Over(t) /\ pc'[t] \in {"committed", "done", "queued", "failed"}
  /\ ReadyToCommit(t) /\ ApplyWrites(t) /\ UNCHANGED alertVars

\* Ending an attempt, with or without another one, is what Over says.
LEMMA EndIsOver ==
  ASSUME TypeOK, NEW t \in Task, pc[t] \notin {"idle", "done", "lost"}, NEW p, End(t, p),
         \/ p = "queued" /\ attempt' = [attempt EXCEPT ![t] = @ + 1]
         \/ p = "failed" /\ attempt' = attempt /\ pc[t] # "committed"
         \/ p = "done" /\ attempt' = attempt /\ pc[t] \in {"evaluating", "committed"}
  PROVE  Over(t)
BY DEF TypeOK, End, CloseSession, Over, OthersStand

\* A retry is the end of the attempt.
LEMMA RetryIsOver ==
  ASSUME TypeOK, NEW t \in Task, pc[t] \in {"probed", "evaluating"}, Retry(t)
  PROVE  Over(t) /\ pc'[t] \in {"queued", "failed"}
<1>1. attempt[t] \in Int /\ CheckRetries \in Int
  BY RetriesAssumption DEF TypeOK, Attempt
<1>2. CASE attempt[t] < CheckRetries
  <2>1. End(t, "queued") /\ attempt' = [attempt EXCEPT ![t] = @ + 1]
    BY <1>2 DEF Retry
  <2> QED BY <2>1, EndIsOver DEF End, TypeOK
<1>3. CASE ~(attempt[t] < CheckRetries)
  <2>1. End(t, "failed") /\ attempt' = attempt
    BY <1>3 DEF Retry, TypeOK
  <2> QED BY <2>1, EndIsOver DEF End, TypeOK
<1> QED BY <1>2, <1>3

\* Every step of a check is one of seven.
LEMMA TaskCases ==
  ASSUME TypeOK, NEW t \in Task, dispatch_due_checks(t) \/ CheckStep(t) \/ CheckFault(t),
         "child_killed" \notin Faults
  PROVE  \/ Claims(t) \/ Probe(t) \/ InsertAndLoad(t) \/ \E r \in todo[t] : Evaluate(t, r)
         \/ Records(t) \/ Quits(t)
<1>1. CASE dispatch_due_checks(t) \/ DispatchLost(t)
  BY <1>1 DEF dispatch_due_checks, DispatchLost, Claimable, Claims, OthersStand, TypeOK, sessVars
<1>2. CASE InsertFails(t) \/ FlushFails(t) \/ ProbeRaises(t) \/ \E r \in todo[t] : BrokerDown(t, r)
  BY <1>2, EndIsOver DEF InsertFails, FlushFails, ProbeRaises, BrokerDown, Quits
<1>3. CASE Publish(t) \/ PublishFails(t)
  BY <1>3, EndIsOver DEF Publish, PublishFails, Quits
<1>4. CASE DeadlockVictim(t) \/ DbError(t)
  BY <1>4, RetryIsOver DEF DeadlockVictim, DbError, Quits
<1>5. CASE CommitUnknown(t)
  BY <1>5, RetryIsOver DEF CommitUnknown, ReadyToCommit, Records
<1>6. CASE Commit(t)
  <2>1. CASE publish[t]
    <3>1. /\ pc' = [pc EXCEPT ![t] = "committed"] /\ CloseSession(t)
          /\ UNCHANGED <<status, attempt>> /\ pc[t] = "evaluating"
      BY <1>6, <2>1 DEF Commit, ReadyToCommit
    <3>2. Over(t) /\ pc'[t] = "committed"
      BY <3>1 DEF Over, OthersStand, CloseSession, TypeOK
    <3> QED BY <1>6, <3>2 DEF Commit, Records
  <2>2. CASE ~publish[t]
    <3>1. End(t, "done") /\ UNCHANGED attempt /\ pc[t] = "evaluating"
      BY <1>6, <2>2 DEF Commit, ReadyToCommit
    <3>2. Over(t) /\ pc'[t] = "done"
      BY <3>1, EndIsOver DEF End, TypeOK
    <3> QED BY <1>6, <3>2 DEF Commit, Records
  <2> QED BY <2>1, <2>2
<1>7. ~CheckChildKilled(t)
  BY DEF CheckChildKilled
<1> QED BY <1>1, <1>2, <1>3, <1>4, <1>5, <1>6, <1>7 DEF CheckStep, CheckFault

\* A free process, when there is one, means that nothing runs.
LEMMA SlotMeansIdle ==
  ASSUME OneProcess, Alone, SlotFree
  PROVE  /\ \A t \in Task : pc[t] \notin RunningCheck
         /\ \A a \in alerts : delivery[a].stage \notin {"sending", "failing"}
<1> DEFINE R == {t \in Task : pc[t] \in RunningCheck}
           S == {a \in alerts : delivery[a].stage \in {"sending", "failing"}}
<1>1. IsFiniteSet(R) /\ IsFiniteSet(S)
  BY TaskAssumption, FS_Subset DEF Alone
<1>2. Cardinality(R) \in Nat /\ Cardinality(S) \in Nat
  BY <1>1, FS_CardinalityType
<1>3. Cardinality(R) + Cardinality(S) < 1
  BY DEF SlotFree, OneProcess
<1>4. Cardinality(R) = 0 /\ Cardinality(S) = 0
  BY <1>2, <1>3
<1>5. R = {} /\ S = {}
  BY <1>1, <1>4, FS_EmptySet
<1> QED BY <1>5

\* A delivery moves only while no check runs, and only the handler writes a table.
LEMMA SendCases ==
  ASSUME OneProcess, TypeOK, Alone, NEW a \in alerts, SendStep(a) \/ SendFault(a)
  PROVE  /\ UNCHANGED <<endpoint, results, config, taskVars, alerts>>
         /\ \A t \in Task : pc[t] \notin RunningCheck
         /\ \A b \in alerts \ {a} : delivery'[b] = delivery[b]
         /\ delivery'[a].stage # "orphaned"
         /\ alertstate' = alertstate \/ (handle_alert_exhausted(a) /\ a.kind = "down")
<1> USE DEF dbVars, Stages
<1>1. CASE StartSend(a)
  BY <1>1, SlotMeansIdle DEF StartSend, Move, TypeOK
<1>2. CASE ~StartSend(a)
  <2>1. delivery[a].stage \in {"sending", "failing"}
    BY <1>2 DEF SendStep, SendFault, SendOk, WebhookRejected, SendError, SendFatal,
                handle_alert_exhausted, HandlerError, AlertChildKilled, OneProcess, Alone
  <2>2. \A t \in Task : pc[t] \notin RunningCheck
    BY <2>1 DEF Alone
  <2>3. CASE SendOk(a) \/ WebhookRejected(a) \/ SendFatal(a) \/ HandlerError(a)
    <3>1. PICK s \in {"completed", "failing", "given_up"}, told \in BOOLEAN : Move(a, s, told)
      BY <2>3 DEF SendOk, WebhookRejected, SendFatal, HandlerError
    <3>2. UNCHANGED <<endpoint, results, config, alertstate, taskVars>>
      BY <2>3 DEF SendOk, WebhookRejected, SendFatal, HandlerError
    <3> QED BY <2>2, <3>1, <3>2 DEF Move, TypeOK
  <2>4. CASE \E told \in BOOLEAN : SendError(a, told)
    BY <2>2, <2>4 DEF SendError, TypeOK
  <2>5. CASE handle_alert_exhausted(a)
    BY <2>2, <2>5 DEF handle_alert_exhausted, Move, TypeOK
  <2>6. ~\E told \in BOOLEAN : AlertChildKilled(a, told)
    BY DEF AlertChildKilled, OneProcess
  <2> QED BY <1>2, <2>3, <2>4, <2>5, <2>6 DEF SendStep, SendFault
<1> QED BY <1>1, <1>2

\* A message that the dead worker had in hand is queued again, the others stay.
LEMMA Redelivered ==
  ASSUME TypeOK, WorkerKilled
  PROVE  \A a \in alerts :
           delivery'[a].stage = IF delivery[a].stage \in {"sending", "failing"}
                                THEN "queued" ELSE delivery[a].stage
<1>1. PICK told : delivery' = [a \in alerts |->
         [delivery[a] EXCEPT !.stage = IF @ \in {"sending", "failing"} THEN "queued" ELSE @,
                             !.told = @ \/ a \in told]]
  BY DEF WorkerKilled
<1>2. TAKE a \in alerts
<1>3. delivery[a] \in [stage: Stage, retries: 0..AlertRetries, told: BOOLEAN]
  BY DEF TypeOK, Delivery
<1> QED BY <1>1, <1>3

\* The user only deletes.
LEMMA UserCases ==
  ASSUME OneProcess, UserStep
  PROVE  delete_endpoint \/ \E c \in Config : delete_alert(c)
BY DEF OneProcess, UserStep, add_alert, update_alert
-----------------------------------------------------------------------------
(* The invariant is kept, one part at a time *)

\* A check starts running only in a free pool, and a delivery too.
LEMMA NextAlone ==
  ASSUME OneProcess, SerialInv, [Next]_vars
  PROVE  Alone'
<1> USE DEF RunningCheck
<1>0. TypeOK /\ Alone
  BY DEF SerialInv, RowInv
<1>1. ASSUME UNCHANGED alertVars,
             \A u \in Task : pc'[u] \in RunningCheck => pc[u] \in RunningCheck
      PROVE  Alone'
  BY <1>0, <1>1 DEF Alone, alertVars
<1>2. ASSUME NEW t \in Task, dispatch_due_checks(t) \/ CheckStep(t) \/ CheckFault(t)
      PROVE  Alone'
  <2>1. CASE Claims(t) \/ InsertAndLoad(t) \/ Quits(t) \/ Records(t)
    <3>1. UNCHANGED alertVars
      BY <2>1 DEF Claims, InsertAndLoad, Quits, Records
    <3>2. \A u \in Task : pc'[u] \in RunningCheck => pc[u] \in RunningCheck
      BY <1>0, <2>1 DEF Claims, InsertAndLoad, Quits, Records, ReadyToCommit, Over, OthersStand, TypeOK, PC
    <3> QED BY <1>1, <3>1, <3>2
  <2>2. CASE Probe(t)
    <3>1. /\ \A u \in Task : pc[u] \notin RunningCheck
          /\ \A a \in alerts : delivery[a].stage \notin {"sending", "failing"}
      BY <1>0, <2>2, SlotMeansIdle DEF Probe
    <3>2. UNCHANGED alertVars /\ \A u \in Task \ {t} : pc'[u] = pc[u]
      BY <1>0, <2>2 DEF Probe, TypeOK
    <3> QED BY <1>0, <3>1, <3>2 DEF Alone, alertVars
  <2>3. CASE \E r \in todo[t] : Evaluate(t, r)
    <3>1. PICK r \in todo[t] : Evaluate(t, r)
      BY <2>3
    <3>2. pc' = pc
      BY <3>1 DEF Evaluate
    <3>3. CASE UNCHANGED alertVars
      BY <1>1, <3>2, <3>3
    <3>4. ASSUME NEW a, queue_alert(a)
          PROVE  Alone'
      <4>1. IsFiniteSet(alerts')
        BY <1>0, <3>4, FS_AddElement DEF queue_alert, Alone
      <4>2. \A b \in alerts' : \/ delivery'[b].stage = "queued"
                               \/ b \in alerts /\ delivery'[b] = delivery[b]
        BY <3>4 DEF queue_alert
      <4> QED BY <1>0, <3>2, <4>1, <4>2 DEF Alone
    <3> QED BY <3>1, <3>3, <3>4 DEF Evaluate
  <2> QED BY <1>0, <1>2, <2>1, <2>2, <2>3, TaskCases DEF OneProcess
<1>3. ASSUME NEW a \in alerts, SendStep(a) \/ SendFault(a)
      PROVE  Alone'
  BY <1>0, <1>3, SendCases DEF Alone, taskVars
<1>4. CASE WorkerKilled
  <2>1. alerts' = alerts /\ \A u \in Task : pc'[u] \notin RunningCheck
    BY <1>0, <1>4 DEF WorkerKilled
  <2>2. \A a \in alerts : delivery'[a].stage \in {"queued", delivery[a].stage}
    BY <1>0, <1>4, Redelivered
  <2> QED BY <1>0, <2>1, <2>2 DEF Alone
<1>5. CASE UserStep
  BY <1>1, <1>5, UserCases DEF delete_endpoint, delete_alert, taskVars
<1>6. CASE UNCHANGED vars
  BY <1>1, <1>6 DEF vars, taskVars
<1> QED BY <1>2, <1>3, <1>4, <1>5, <1>6 DEF Next, Terminated

\* The settings that checks have loaded are the stored ones.
LEMMA NextSettings ==
  ASSUME OneProcess, SerialInv, [Next]_vars
  PROVE  SettingsKept'
<1>0. TypeOK /\ Alone /\ SettingsKept
  BY DEF SerialInv, RowInv
<1>1. ASSUME config' = config, \A u \in Task : todo'[u] \subseteq todo[u]
      PROVE  SettingsKept'
  BY <1>0, <1>1 DEF SettingsKept
<1>2. ASSUME NEW t \in Task, dispatch_due_checks(t) \/ CheckStep(t) \/ CheckFault(t)
      PROVE  SettingsKept'
  <2>1. CASE Claims(t) \/ Probe(t)
    BY <1>1, <2>1 DEF Claims, Probe, dbVars, sessVars
  <2>2. CASE InsertAndLoad(t)
    <3>1. config' = config
      BY <2>2 DEF InsertAndLoad, dbVars
    <3>2. ASSUME NEW u \in Task, NEW r \in todo'[u]
          PROVE  r.threshold = config[r.config].threshold
      <4>1. CASE u = t
        BY <1>0, <2>2, <3>2, <4>1 DEF InsertAndLoad, TypeOK
      <4>2. CASE u # t
        BY <1>0, <2>2, <3>2, <4>2 DEF InsertAndLoad, TypeOK, SettingsKept
      <4> QED BY <4>1, <4>2
    <3> QED BY <1>0, <3>1, <3>2 DEF SettingsKept
  <2>3. CASE \E r \in todo[t] : Evaluate(t, r)
    <3>1. config' = config /\ \A u \in Task : todo'[u] \subseteq todo[u]
      BY <1>0, <2>3 DEF Evaluate, TypeOK, dbVars
    <3> QED BY <1>1, <3>1
  <2>4. CASE Records(t) \/ Quits(t)
    BY <1>1, <2>4 DEF Records, Quits, Over, OthersStand, ApplyWrites, dbVars
  <2> QED BY <1>0, <1>2, <2>1, <2>2, <2>3, <2>4, TaskCases DEF OneProcess
<1>3. ASSUME NEW a \in alerts, SendStep(a) \/ SendFault(a)
      PROVE  SettingsKept'
  BY <1>0, <1>1, <1>3, SendCases DEF taskVars, sessVars
<1>4. CASE WorkerKilled
  BY <1>0, <1>1, <1>4 DEF WorkerKilled, dbVars, TypeOK
<1>5. CASE UserStep
  <2>1. ASSUME todo' = todo,
               \A c \in Config : /\ config'[c].threshold = config[c].threshold
                                 /\ config'[c].is_active = config[c].is_active
                                 /\ config'[c].life = "live" => config[c].life = "live"
        PROVE  SettingsKept'
    <3>1. \A t \in Task : \A r \in todo[t] : r.config \in Config
      BY <1>0 DEF TypeOK, Loaded
    <3> QED BY <1>0, <2>1, <3>1 DEF SettingsKept
  <2>2. CASE delete_endpoint
    BY <1>0, <2>1, <2>2 DEF delete_endpoint, TypeOK, ConfigRow, taskVars, sessVars
  <2>3. ASSUME NEW c \in Config, delete_alert(c)
        PROVE  SettingsKept'
    BY <1>0, <2>1, <2>3 DEF delete_alert, TypeOK, ConfigRow, taskVars, sessVars
  <2> QED BY <1>5, <2>2, <2>3, UserCases
<1>6. CASE UNCHANGED vars
  BY <1>1, <1>6 DEF vars, dbVars, taskVars, sessVars
<1> QED BY <1>2, <1>3, <1>4, <1>5, <1>6 DEF Next, Terminated

\* Attempts are numbered upwards, and an attempt that is over stays so.
LEMMA NextAttempts ==
  ASSUME OneProcess, SerialInv, [Next]_vars
  PROVE  AttemptsPast'
<1>0. /\ TypeOK /\ Alone /\ AttemptsPast
      /\ \A i \in DOMAIN results : results[i].task \in Task /\ results[i].attempt \in Int
      /\ \A a \in alerts : a.task \in Task /\ a.attempt \in Int
      /\ \A t \in Task : attempt[t] \in Int
  <2>1. TypeOK /\ Alone /\ AttemptsPast
    BY DEF SerialInv, RowInv
  <2>2. \A i \in DOMAIN results : results[i] \in Row
    BY <2>1 DEF TypeOK
  <2> QED BY <2>1, <2>2, RetriesAssumption DEF TypeOK, Row, Alert, Attempt
<1> DEFINE Ended == {"committed", "done", "lost", "failed"}
           Fresh == {"idle", "queued", "probed"}
           \* The attempt of u, seen from the rows and from the alerts, is no
           \* fresher than before.
           Ages(u) == \/ attempt'[u] = attempt[u] + 1
                      \/ /\ attempt'[u] = attempt[u]
                         /\ pc[u] \in Ended => pc'[u] \in Ended
                         /\ pc'[u] \in Fresh => pc[u] \in Fresh
           Past(k, at, p) == k < at \/ (k = at /\ p \in Ended)
<1>a. ASSUME alerts' = alerts, \A u \in Task : Ages(u)
      PROVE  AlertsPast'
  BY <1>0, <1>a DEF AttemptsPast, AlertsPast
<1>b. ASSUME NEW u \in Task, NEW k \in Int, Ages(u), Past(k, attempt[u], pc[u])
      PROVE  Past(k, attempt'[u], pc'[u])
  BY <1>0, <1>b
<1>1. ASSUME results' = results \/ results' = <<>>, alerts' = alerts, \A u \in Task : Ages(u)
      PROVE  AttemptsPast'
  <2>1. \A i \in DOMAIN results' : i \in DOMAIN results /\ results'[i] = results[i]
    BY <1>1
  <2>2. RowsPast'
    BY <1>0, <1>1, <2>1 DEF AttemptsPast, RowsPast
  <2> QED BY <1>1, <1>a, <2>2 DEF AttemptsPast
<1>2. ASSUME NEW t \in Task, dispatch_due_checks(t) \/ CheckStep(t) \/ CheckFault(t)
      PROVE  AttemptsPast'
  <2>1. CASE Claims(t) \/ Probe(t) \/ InsertAndLoad(t)
    <3>1. \A u \in Task : Ages(u)
      BY <1>0, <2>1 DEF Claims, OthersStand, Probe, InsertAndLoad, TypeOK
    <3> QED BY <1>1, <2>1, <3>1 DEF Claims, Probe, InsertAndLoad, dbVars, alertVars
  <2>2. CASE \E r \in todo[t] : Evaluate(t, r)
    <3>1. PICK r \in todo[t] : Evaluate(t, r)
      BY <2>2
    <3>2. /\ UNCHANGED <<results, pc, attempt>> /\ pc[t] = "evaluating"
          /\ \A a \in alerts' : a \in alerts \/ (a.task = t /\ a.attempt = attempt[t])
      BY <3>1 DEF Evaluate, queue_alert, dbVars, alertVars
    <3> QED BY <1>0, <3>2 DEF AttemptsPast, RowsPast, AlertsPast
  <2>3. CASE Quits(t)
    <3>1. \A u \in Task : Ages(u)
      BY <1>0, <2>3 DEF Quits, Over, OthersStand, TypeOK
    <3> QED BY <1>1, <2>3, <3>1 DEF Quits, dbVars, alertVars
  <2>4. CASE Records(t)
    <3>1. \A u \in Task : Ages(u)
      BY <1>0, <2>4 DEF Records, ReadyToCommit, Over, OthersStand
    <3>2. /\ alerts' = alerts /\ results \in Seq(Row) /\ results' = Append(results, MyRow(t))
          /\ \/ attempt'[t] = attempt[t] + 1
             \/ attempt'[t] = attempt[t] /\ pc'[t] \in {"committed", "done", "failed"}
      BY <1>0, <2>4 DEF Records, ReadyToCommit, ApplyWrites, Over, alertVars, TypeOK
    <3>3. AlertsPast'
      BY <3>1, <3>2, <1>a
    <3>4. \A i \in DOMAIN results' : \/ i \in DOMAIN results /\ results'[i] = results[i]
                                     \/ results'[i] = MyRow(t)
      BY <3>2
    <3>5. \A i \in DOMAIN results' :
            \/ i \in DOMAIN results /\ results'[i] = results[i]
            \/ results'[i].task = t /\ results'[i].attempt = attempt[t]
      BY <3>4 DEF MyRow
    <3>6. ASSUME NEW i \in DOMAIN results'
          PROVE  LET u == results'[i].task IN
                 u \in Task /\ Past(results'[i].attempt, attempt'[u], pc'[u])
      <4>1. CASE i \in DOMAIN results /\ results'[i] = results[i]
        <5> DEFINE u == results[i].task
        <5>1. u \in Task /\ results[i].attempt \in Int /\ Past(results[i].attempt, attempt[u], pc[u])
          BY <1>0, <4>1 DEF AttemptsPast, RowsPast
        <5>2. Past(results[i].attempt, attempt'[u], pc'[u])
          BY <3>1, <5>1, <1>b
        <5> QED BY <4>1, <5>1, <5>2
      <4>2. CASE results'[i].task = t /\ results'[i].attempt = attempt[t]
        BY <1>0, <3>2, <4>2
      <4> QED BY <3>5, <4>1, <4>2
    <3>7. RowsPast'
      BY <3>6 DEF RowsPast
    <3> QED BY <3>3, <3>7 DEF AttemptsPast
  <2> QED BY <1>0, <1>2, <2>1, <2>2, <2>3, <2>4, TaskCases DEF OneProcess
<1>3. ASSUME NEW a \in alerts, SendStep(a) \/ SendFault(a)
      PROVE  AttemptsPast'
  BY <1>0, <1>1, <1>3, SendCases DEF taskVars
<1>4. CASE WorkerKilled
  <2>1. \A u \in Task : Ages(u)
    BY <1>0, <1>4 DEF WorkerKilled, RunningCheck
  <2> QED BY <1>1, <1>4, <2>1 DEF WorkerKilled, dbVars
<1>5. CASE UserStep
  BY <1>1, <1>5, UserCases DEF delete_endpoint, delete_alert, taskVars, alertVars
<1>6. CASE UNCHANGED vars
  BY <1>1, <1>6 DEF vars, dbVars, alertVars, taskVars
<1> QED BY <1>2, <1>3, <1>4, <1>5, <1>6 DEF Next, Terminated

\* One turn of evaluate_alerts does to the open session what SessionTrue says.
LEMMA EvaluateSession ==
  ASSUME SerialInv, NEW t \in Task, NEW r \in todo[t], Evaluate(t, r)
  PROVE  SessionTrue(t)'
<1> DEFINE c == r.config
           s == alertstate[c]
           a == [config |-> c, task |-> t, attempt |-> attempt[t],
                 kind |-> Kind(t), channel |-> r.channel]
<1>0. TypeOK /\ SessionTrue(t) /\ r \in Loaded
  BY DEF SerialInv, RowInv, SessionsTrue, Evaluate, TypeOK
<1>1. c \in Config /\ r.threshold = config[c].threshold
  BY <1>0 DEF SerialInv, SettingsKept, Loaded
<1>2. /\ UNCHANGED <<config, alertstate, status, attempt>>
      /\ todo'[t] = todo[t] \ {r}
      /\ old'[t] = [old[t] EXCEPT ![c] = s]
      /\ new'[t] = [new[t] EXCEPT ![c] = NextState(Up(t), s, config[c].threshold)]
      /\ IF AlertDue(Up(t), s, config[c].threshold) THEN queue_alert(a) ELSE UNCHANGED alertVars
  BY <1>0, <1>1 DEF Evaluate, TypeOK, dbVars, Up, Kind
<1>3. /\ \A d \in Config \ {c} : old'[t][d] = old[t][d] /\ new'[t][d] = new[t][d]
      /\ old'[t][c] = s /\ new'[t][c] = NextState(Up(t), s, config[c].threshold)
      /\ new'[t][c].exists
  BY <1>0, <1>1, <1>2 DEF TypeOK, NextState
<1>4. Up(t)' = Up(t) /\ Kind(t)' = Kind(t)
  BY <1>2 DEF Up, Kind
<1>5. \A q \in todo'[t] : q \in todo[t] /\ q.config # c /\ q.config \in Config
  <2>1. \A q \in todo[t] : q.config \in Config
    BY <1>0 DEF TypeOK, Loaded
  <2> QED BY <1>0, <1>2, <2>1 DEF SessionTrue, Considered
<1>6. ASSUME NEW d \in Config, config'[d].life = "live"
      PROVE  Seen(t, d)' \/ \E q \in todo'[t] : q.config = d
  BY <1>0, <1>2, <1>3, <1>6 DEF SessionTrue, Considered, Seen
<1>7. /\ \A b \in alerts : b \in alerts'
      /\ \A b \in alerts' : \/ b \in alerts /\ delivery'[b] = delivery[b]
                            \/ /\ b = a /\ delivery'[b].stage = "queued"
                               /\ AlertDue(Up(t), s, config[c].threshold)
      /\ AlertDue(Up(t), s, config[c].threshold) => a \in alerts'
  BY <1>2 DEF queue_alert, alertVars
<1>8. ASSUME NEW d \in Config
      PROVE  IF Seen(t, d)'
             THEN /\ new'[t][d] = NextState(Up(t), old'[t][d], config[d].threshold)
                  /\ config[d].life = "live" => old'[t][d] = alertstate[d]
                  /\ Due(t, d)' => \E b \in Mine(t)' : b.config = d
             ELSE old'[t][d] = new'[t][d]
  <2>1. CASE d = c
    <3>1. Due(t, d)' = AlertDue(Up(t), s, config[c].threshold)
      BY <1>2, <1>3, <1>4, <2>1 DEF Due
    <3>2. a \in alerts' => a \in Mine(t)' /\ a.config = d
      BY <1>2, <2>1 DEF Mine
    <3> QED BY <1>3, <1>7, <2>1, <3>1, <3>2 DEF Seen
  <2>2. CASE d # c
    <3>1. old'[t][d] = old[t][d] /\ new'[t][d] = new[t][d]
      BY <1>3, <2>2
    <3>2. (Seen(t, d)' <=> Seen(t, d)) /\ (Due(t, d)' <=> Due(t, d))
      BY <1>2, <1>4, <3>1 DEF Seen, Due
    <3>3. \A b \in Mine(t) : b \in Mine(t)'
      BY <1>2, <1>7 DEF Mine
    <3> QED BY <1>0, <3>1, <3>2, <3>3 DEF SessionTrue, Evaluated
  <2> QED BY <2>1, <2>2
<1>9. ASSUME NEW b \in Mine(t)'
      PROVE  /\ Seen(t, b.config)' /\ Due(t, b.config)'
             /\ b.kind = Kind(t)' /\ delivery'[b].stage = "queued"
  <2>1. CASE b \in alerts /\ delivery'[b] = delivery[b]
    <3>1. b \in Mine(t) /\ b.config \in Config
      BY <1>0, <1>2, <1>9, <2>1 DEF Mine, TypeOK, Alert
    <3>2. /\ Seen(t, b.config) /\ Due(t, b.config)
          /\ b.kind = Kind(t) /\ delivery[b].stage = "queued"
      BY <1>0, <3>1 DEF SessionTrue, Announced
    <3>3. b.config # c
      BY <1>0, <3>2 DEF SessionTrue, Considered
    <3>4. old'[t][b.config] = old[t][b.config] /\ new'[t][b.config] = new[t][b.config]
      BY <1>3, <3>1, <3>3
    <3> QED BY <1>2, <1>4, <2>1, <3>2, <3>4 DEF Seen, Due
  <2>2. CASE /\ b = a /\ delivery'[b].stage = "queued"
             /\ AlertDue(Up(t), s, config[c].threshold)
    BY <1>2, <1>3, <1>4, <2>2 DEF Seen, Due
  <2> QED BY <1>7, <1>9, <2>1, <2>2 DEF Mine
<1>10. ASSUME NEW q1 \in todo'[t], NEW q2 \in todo'[t], q1.config = q2.config
       PROVE  q1 = q2
  BY <1>0, <1>5, <1>10 DEF SessionTrue, Considered
<1>11. ASSUME NEW q \in todo'[t]
       PROVE  ~Seen(t, q.config)'
  BY <1>0, <1>3, <1>5 DEF SessionTrue, Considered, Seen
<1>12. Considered(t)'
  BY <1>2, <1>6, <1>10, <1>11 DEF Considered
<1>13. Announced(t)'
  BY <1>9 DEF Announced
<1>14. \A d \in Config : Evaluated(t, d)'
  BY <1>2, <1>4, <1>8 DEF Evaluated
<1> QED BY <1>12, <1>13, <1>14 DEF SessionTrue

\* The query of the configs opens a session that has done nothing yet.
LEMMA LoadSession ==
  ASSUME SerialInv, NEW t \in Task, InsertAndLoad(t)
  PROVE  SessionTrue(t)'
<1>0. TypeOK /\ SessionInv /\ SettingsKept /\ AlertsPast /\ pc[t] = "probed"
  BY DEF SerialInv, RowInv, AttemptsPast, InsertAndLoad
<1>1. /\ UNCHANGED <<config, alertstate, alerts, delivery, attempt, old, new>>
      /\ todo'[t] = {[config |-> c, threshold |-> config[c].threshold,
                      channel |-> config[c].channel] :
                       c \in {d \in Config : config[d].life = "live" /\ config[d].is_active}}
  BY <1>0 DEF InsertAndLoad, TypeOK, dbVars, alertVars
<1>2. \A c \in Config : old'[t][c] = NoRow /\ new'[t][c] = NoRow
  BY <1>0, <1>1 DEF SessionInv
<1>3. Mine(t)' = {}
  <2>1. \A a \in alerts : ~(a.task = t /\ a.attempt = attempt[t])
    <3>1. attempt[t] \in Int
      BY <1>0, RetriesAssumption DEF TypeOK, Attempt
    <3> QED BY <1>0, <3>1 DEF AlertsPast
  <2> QED BY <1>1, <2>1 DEF Mine
<1>4. ASSUME NEW c \in Config, config[c].life = "live"
      PROVE  \E r \in todo'[t] : r.config = c
  <2>1. config[c].is_active
    BY <1>0, <1>4 DEF SettingsKept
  <2> DEFINE r == [config |-> c, threshold |-> config[c].threshold, channel |-> config[c].channel]
  <2>2. r \in todo'[t] /\ r.config = c
    BY <1>1, <1>4, <2>1
  <2> QED BY <2>2
<1>5. /\ \A r \in todo'[t] : r.config \in Config
      /\ \A r, q \in todo'[t] : r.config = q.config => r = q
  BY <1>1
<1>6. \A c \in Config : ~Seen(t, c)'
  BY <1>2 DEF Seen, NoRow
<1> QED BY <1>1, <1>2, <1>3, <1>4, <1>5, <1>6 DEF SessionTrue, Considered, Evaluated, Announced

\* No step makes an open session disagree with the stored rows or the alerts.
LEMMA NextSessions ==
  ASSUME OneProcess, SerialInv, [Next]_vars
  PROVE  SessionsTrue'
<1>0. TypeOK /\ SessionInv /\ Alone /\ SessionsTrue
  BY DEF SerialInv, RowInv
<1>1. ASSUME UNCHANGED <<config, alertstate, alerts, delivery>>,
             \A u \in Task : pc'[u] = "evaluating" =>
               /\ pc[u] = "evaluating" /\ status'[u] = status[u] /\ attempt'[u] = attempt[u]
               /\ todo'[u] = todo[u] /\ old'[u] = old[u] /\ new'[u] = new[u]
      PROVE  SessionsTrue'
  <2> SUFFICES ASSUME NEW u \in Task, pc'[u] = "evaluating"
               PROVE  SessionTrue(u)'
    BY DEF SessionsTrue
  <2>1. SessionTrue(u)
    BY <1>0, <1>1 DEF SessionsTrue
  <2>2. Up(u)' = Up(u) /\ Kind(u)' = Kind(u) /\ Mine(u)' = Mine(u)
    BY <1>1 DEF Up, Kind, Mine
  <2>3. \A c : (Seen(u, c)' <=> Seen(u, c)) /\ (Due(u, c)' <=> Due(u, c))
    BY <1>1, <2>2 DEF Seen, Due
  <2> QED BY <1>1, <2>1, <2>2, <2>3 DEF SessionTrue, Considered, Evaluated, Announced
<1>2. ASSUME \A u \in Task : pc'[u] # "evaluating"
      PROVE  SessionsTrue'
  BY <1>2 DEF SessionsTrue
<1>3. ASSUME NEW t \in Task, dispatch_due_checks(t) \/ CheckStep(t) \/ CheckFault(t)
      PROVE  SessionsTrue'
  <2>1. CASE Claims(t)
    BY <1>1, <2>1 DEF Claims, OthersStand, dbVars, alertVars, sessVars
  <2>2. CASE Probe(t)
    BY <1>0, <1>1, <2>2 DEF Probe, TypeOK, dbVars, alertVars, sessVars
  <2>3. CASE InsertAndLoad(t)
    <3>1. pc[t] = "probed" /\ pc' = [pc EXCEPT ![t] = "evaluating"]
      BY <2>3 DEF InsertAndLoad
    <3>2. \A u \in Task : pc'[u] = "evaluating" => u = t
      BY <1>0, <3>1 DEF Alone, RunningCheck, TypeOK
    <3> QED BY <2>3, <3>2, LoadSession DEF SessionsTrue
  <2>4. CASE \E r \in todo[t] : Evaluate(t, r)
    <3>1. pc[t] = "evaluating" /\ pc' = pc
      BY <2>4 DEF Evaluate
    <3>2. \A u \in Task : pc'[u] = "evaluating" => u = t
      BY <1>0, <3>1 DEF Alone, RunningCheck
    <3> QED BY <2>4, <3>2, EvaluateSession DEF SessionsTrue
  <2>5. CASE Quits(t)
    BY <1>1, <2>5 DEF Quits, Over, OthersStand, dbVars, alertVars
  <2>6. CASE Records(t)
    <3>1. pc[t] = "evaluating" /\ \A u \in Task : pc'[u] = pc[u] \/ pc'[u] # "evaluating"
      BY <2>6 DEF Records, ReadyToCommit, Over, OthersStand
    <3>2. pc'[t] # "evaluating"
      BY <2>6 DEF Records
    <3>3. \A u \in Task : pc'[u] # "evaluating"
      BY <1>0, <3>1, <3>2 DEF Alone, RunningCheck
    <3> QED BY <1>2, <3>3
  <2> QED BY <1>0, <1>3, <2>1, <2>2, <2>3, <2>4, <2>5, <2>6, TaskCases DEF OneProcess
<1>4. ASSUME NEW a \in alerts, SendStep(a) \/ SendFault(a)
      PROVE  SessionsTrue'
  BY <1>0, <1>2, <1>4, SendCases DEF RunningCheck, taskVars
<1>5. CASE WorkerKilled
  BY <1>0, <1>2, <1>5 DEF WorkerKilled, RunningCheck
<1>6. CASE delete_endpoint
  BY <1>2, <1>6 DEF delete_endpoint, taskVars
<1>7. ASSUME NEW d \in Config, delete_alert(d)
      PROVE  SessionsTrue'
  <2>1. /\ UNCHANGED <<alertVars, taskVars>>
        /\ \A c \in Config : /\ config'[c].threshold = config[c].threshold
                             /\ config'[c].life = "live" =>
                                  config[c].life = "live" /\ alertstate'[c] = alertstate[c]
    BY <1>0, <1>7 DEF delete_alert, TypeOK, ConfigRow
  <2> SUFFICES ASSUME NEW u \in Task, pc'[u] = "evaluating"
               PROVE  SessionTrue(u)'
    BY DEF SessionsTrue
  <2>2. UNCHANGED <<alerts, delivery, pc, attempt, status, todo, old, new>>
    BY <2>1 DEF alertVars, taskVars, sessVars
  <2>3. SessionTrue(u)
    BY <1>0, <2>2 DEF SessionsTrue
  <2>4. Up(u)' = Up(u) /\ Kind(u)' = Kind(u) /\ Mine(u)' = Mine(u)
    BY <2>2 DEF Up, Kind, Mine
  <2>5. \A c \in Config : (Seen(u, c)' <=> Seen(u, c)) /\ (Due(u, c)' <=> Due(u, c))
    BY <2>1, <2>2, <2>4 DEF Seen, Due
  <2>6. (\A a \in Mine(u) : a.config \in Config) /\ \A r \in todo[u] : r.config \in Config
    BY <1>0 DEF Mine, TypeOK, Alert, Loaded
  <2>7. Considered(u)'
    BY <2>1, <2>2, <2>3, <2>5, <2>6 DEF SessionTrue, Considered
  <2>8. Announced(u)'
    BY <2>2, <2>3, <2>4, <2>5, <2>6 DEF SessionTrue, Announced
  <2>9. \A c \in Config : Evaluated(u, c)'
    BY <2>1, <2>2, <2>3, <2>4, <2>5 DEF SessionTrue, Evaluated
  <2> QED BY <2>7, <2>8, <2>9 DEF SessionTrue
<1>8. CASE UNCHANGED vars
  BY <1>1, <1>8 DEF vars, dbVars, alertVars, taskVars, sessVars
<1> QED BY <1>3, <1>4, <1>5, <1>6, <1>7, <1>8, UserCases DEF Next, Terminated

\* With one process, every reachable state satisfies the invariant.
LEMMA SerialInvariant ==
  ASSUME OneProcess
  PROVE  Spec => []SerialInv
<1>1. Init => SerialInv
  <2> SUFFICES ASSUME Init PROVE SerialInv
    OBVIOUS
  <2>1. RowInv
    BY InitRowInv
  <2>2. Alone
    BY FS_EmptySet DEF Init, Alone, RunningCheck
  <2>3. SettingsKept
    BY ConfigAssumption DEF Init, SettingsKept, NoConfig
  <2>4. AttemptsPast /\ SessionsTrue
    BY DEF Init, AttemptsPast, RowsPast, AlertsPast, SessionsTrue
  <2> QED BY <2>1, <2>2, <2>3, <2>4 DEF SerialInv
<1>2. SerialInv /\ [Next]_vars => SerialInv'
  BY NextRowInv, NextAlone, NextSettings, NextAttempts, NextSessions DEF SerialInv
<1> QED BY <1>1, <1>2, PTL DEF Spec
-----------------------------------------------------------------------------
(* The refinement, step by step *)

\* VisibleNotices for alerts A and rows R.
NoticesOf(A, R) ==
  {[config |-> q[1].config, at |-> q[2], kind |-> q[1].kind] :
     q \in {p \in A \X DOMAIN R :
              p[2] \in {i \in DOMAIN R : R[i].task = p[1].task /\ R[i].attempt = p[1].attempt}}}

\* Alert a is on record with the row at i.
OnRecord(R, a, i) == i \in DOMAIN R /\ R[i].task = a.task /\ R[i].attempt = a.attempt

\* A notice is an alert whose attempt has a row.
LEMMA NoticesAre ==
  ASSUME NEW A, NEW R, NEW n
  PROVE  n \in NoticesOf(A, R) <=>
           \E a \in A : \E i \in DOMAIN R :
             OnRecord(R, a, i) /\ n = [config |-> a.config, at |-> i, kind |-> a.kind]
<1>1. ASSUME n \in NoticesOf(A, R)
      PROVE  \E a \in A : \E i \in DOMAIN R :
               OnRecord(R, a, i) /\ n = [config |-> a.config, at |-> i, kind |-> a.kind]
  BY <1>1 DEF NoticesOf, OnRecord
<1>2. ASSUME NEW a \in A, NEW i \in DOMAIN R, OnRecord(R, a, i),
             n = [config |-> a.config, at |-> i, kind |-> a.kind]
      PROVE  n \in NoticesOf(A, R)
  <2> DEFINE q == <<a, i>>
  <2>1. /\ q[1] = a /\ q[2] = i
        /\ q \in {p \in A \X DOMAIN R :
              p[2] \in {k \in DOMAIN R : R[k].task = p[1].task /\ R[k].attempt = p[1].attempt}}
    BY <1>2 DEF OnRecord
  <2> HIDE DEF q
  <2> QED BY <1>2, <2>1 DEF NoticesOf
<1> QED BY <1>1, <1>2

\* The visible notices, before and after a step.
LEMMA VisibleAre ==
  /\ VisibleNotices = NoticesOf(alerts, results)
  /\ VisibleNotices' = NoticesOf(alerts', results')
BY DEF VisibleNotices, NoticesOf, RowsOf

\* An alert of an attempt without a row is not visible yet.
LEMMA UnrecordedIsInvisible ==
  ASSUME results' = results, alerts \subseteq alerts',
         \A a \in alerts' \ alerts : \A i \in DOMAIN results : ~OnRecord(results, a, i)
  PROVE  VisibleNotices' = VisibleNotices
<1>1. \A n : n \in NoticesOf(alerts', results) <=> n \in NoticesOf(alerts, results)
  BY NoticesAre
<1> QED BY <1>1, VisibleAre

\* A commit appends one outcome to the history.
LEMMA RecordHistory ==
  ASSUME TypeOK, NEW t \in Task, results' = Append(results, MyRow(t))
  PROVE  /\ History \in Seq(BOOLEAN) /\ Len(History) = Len(results)
         /\ History' = Append(History, Up(t))
<1> DEFINE k == Len(results)
<1>1. results \in Seq(Row) /\ k \in Nat /\ DOMAIN results = 1..k
  BY DEF TypeOK
<1>2. MyRow(t) \in Row /\ MyRow(t).status = status[t]
  BY DEF TypeOK, MyRow, Row
<1>3. /\ DOMAIN results' = 1..(k + 1) /\ results'[k + 1].status = status[t]
      /\ \A i \in 1..k : results'[i] = results[i]
  BY <1>1, <1>2
<1>4. \A x : is_up_for(x) \in BOOLEAN
  BY DEF is_up_for
<1>5. History = [i \in 1..k |-> is_up_for(results[i].status)]
  BY <1>1 DEF History
<1>6. History \in Seq(BOOLEAN) /\ Len(History) = k
  BY <1>1, <1>4, <1>5, IsASeq, LenProperties
<1> DEFINE G == Append(History, Up(t))
<1>7. /\ G \in Seq(BOOLEAN) /\ Len(G) = k + 1 /\ G[k + 1] = Up(t)
      /\ \A i \in 1..k : G[i] = History[i]
  BY <1>1, <1>4, <1>6, AppendProperties DEF Up
<1>8. History' = [i \in 1..(k + 1) |-> is_up_for(results'[i].status)]
  BY <1>3 DEF History
<1>9. G = [i \in 1..(k + 1) |-> G[i]]
  BY <1>1, <1>7, LenProperties
<1>10. \A i \in 1..(k + 1) : G[i] = is_up_for(results'[i].status)
  BY <1>1, <1>3, <1>5, <1>7 DEF Up
<1> HIDE DEF G, k
<1>11. G = [i \in 1..(k + 1) |-> is_up_for(results'[i].status)]
  BY <1>9, <1>10
<1> QED BY <1>6, <1>8, <1>11 DEF G, k

\* A commit stores, for every live config, what the loop body made of its
\* stored row, and leaves the others alone; only live configs were due.
LEMMA RecordRows ==
  ASSUME SerialInv, NEW t \in Task, Records(t), NEW c \in Config
  PROVE  IF c \in Watched
         THEN /\ Seen(t, c) /\ old[t][c] = alertstate[c]
              /\ alertstate'[c].streak = NextState(Up(t), alertstate[c], config[c].threshold).streak
              /\ alertstate'[c].sent = NextState(Up(t), alertstate[c], config[c].threshold).sent
         ELSE /\ alertstate'[c] = alertstate[c]
              /\ ~(Seen(t, c) /\ Due(t, c))
<1>0. /\ TypeOK /\ SessionTrue(t) /\ CanFlush(t) /\ todo[t] = {}
      /\ alertstate' = [d \in Config |-> IF d \in Dirty(t)
                                         THEN Written(alertstate[d], old[t][d], new[t][d])
                                         ELSE alertstate[d]]
  BY DEF SerialInv, RowInv, SessionsTrue, Records, ReadyToCommit, ApplyWrites
<1>1. c \in Dirty(t) => c \in Watched
  BY <1>0, CanFlushLive DEF SerialInv, Watched
<1>2. CASE c \in Watched
  <2>1. config[c].life = "live"
    BY <1>2 DEF Watched
  <2>2. Seen(t, c)
    BY <1>0, <2>1 DEF SessionTrue, Considered
  <2>3. /\ old[t][c] = alertstate[c]
        /\ new[t][c] = NextState(Up(t), alertstate[c], config[c].threshold)
    BY <1>0, <2>1, <2>2 DEF SessionTrue, Evaluated
  <2>4. alertstate'[c] = IF c \in Dirty(t) THEN Written(alertstate[c], old[t][c], new[t][c])
                                           ELSE alertstate[c]
    BY <1>0
  <2>5. alertstate'[c].streak = new[t][c].streak /\ alertstate'[c].sent = new[t][c].sent
    <3>1. CASE c \in Dirty(t)
      BY <2>3, <2>4, <3>1 DEF Written
    <3>2. CASE c \notin Dirty(t)
      <4>1. old[t][c] = new[t][c]
        BY <3>2 DEF Dirty
      <4> QED BY <2>3, <2>4, <3>2, <4>1
    <3> QED BY <3>1, <3>2
  <2> QED BY <1>2, <2>2, <2>3, <2>5
<1>3. CASE c \notin Watched
  <2>1. old[t][c] = new[t][c] /\ alertstate'[c] = alertstate[c]
    BY <1>0, <1>1, <1>3 DEF Dirty
  <2>2. ~(Seen(t, c) /\ Due(t, c))
    <3> SUFFICES ASSUME Seen(t, c), Due(t, c) PROVE FALSE
      OBVIOUS
    <3>1. old[t][c] = NextState(Up(t), old[t][c], config[c].threshold)
      BY <1>0, <2>1 DEF SessionTrue, Evaluated
    <3>2. old[t][c].streak \in Nat
      BY <1>0 DEF TypeOK, StateRow
    <3>3. Up(t)
      BY <3>1, <3>2 DEF NextState
    <3>4. ~old[t][c].sent
      <4>1. ~NextState(Up(t), old[t][c], config[c].threshold).sent
        BY <3>3 DEF NextState
      <4> QED BY <3>1, <4>1
    <3> QED BY <3>3, <3>4 DEF Due, AlertDue
  <2> QED BY <1>3, <2>1, <2>2
<1> QED BY <1>2, <1>3

\* A commit makes the alerts of its attempt visible: those of the live configs
\* that were due.
LEMMA RecordNotices ==
  ASSUME SerialInv, NEW t \in Task, Records(t)
  PROVE  VisibleNotices' = VisibleNotices \cup
           {[config |-> c, at |-> Len(results) + 1, kind |-> Kind(t)] :
              c \in {d \in Watched : AlertDue(Up(t), alertstate[d], config[d].threshold)}}
<1> DEFINE k == Len(results)
           D == {d \in Watched : AlertDue(Up(t), alertstate[d], config[d].threshold)}
           N == {[config |-> c, at |-> k + 1, kind |-> Kind(t)] : c \in D}
<1>0. /\ TypeOK /\ SessionTrue(t) /\ alerts' = alerts
      /\ results \in Seq(Row) /\ results' = Append(results, MyRow(t))
  BY DEF SerialInv, RowInv, SessionsTrue, Records, ReadyToCommit, ApplyWrites, alertVars, TypeOK
<1>1. /\ k \in Nat /\ DOMAIN results = 1..k /\ DOMAIN results' = 1..(k + 1)
      /\ results'[k + 1] = MyRow(t) /\ \A i \in 1..k : results'[i] = results[i]
  BY <1>0
<1>2. \A a \in alerts : (results'[k + 1].task = a.task /\ results'[k + 1].attempt = a.attempt)
                          <=> a \in Mine(t)
  BY <1>1 DEF MyRow, Mine
<1>3. ASSUME NEW a \in Mine(t)
      PROVE  a.config \in D /\ a.kind = Kind(t)
  <2>1. a.config \in Config
    BY <1>0 DEF Mine, TypeOK, Alert
  <2>2. Seen(t, a.config) /\ Due(t, a.config) /\ a.kind = Kind(t)
    BY <1>0 DEF SessionTrue, Announced
  <2>3. a.config \in Watched /\ old[t][a.config] = alertstate[a.config]
    BY <2>1, <2>2, RecordRows
  <2> QED BY <2>2, <2>3 DEF Due
<1>4. ASSUME NEW c \in D
      PROVE  \E a \in Mine(t) : a.config = c
  <2>1. c \in Config /\ c \in Watched
    BY DEF Watched
  <2>2. Seen(t, c) /\ old[t][c] = alertstate[c]
    BY <2>1, RecordRows
  <2>3. Due(t, c)
    BY <2>2 DEF Due
  <2> QED BY <1>0, <2>1, <2>2, <2>3 DEF SessionTrue, Evaluated
<1> HIDE DEF k, D
<1>5. ASSUME NEW n, n \in NoticesOf(alerts', results')
      PROVE  n \in NoticesOf(alerts, results) \cup N
  <2>1. PICK a \in alerts, i \in 1..(k + 1) :
          OnRecord(results', a, i) /\ n = [config |-> a.config, at |-> i, kind |-> a.kind]
    <3>1. \E a \in alerts' : \E i \in DOMAIN results' :
            OnRecord(results', a, i) /\ n = [config |-> a.config, at |-> i, kind |-> a.kind]
      BY <1>5, NoticesAre
    <3> QED BY <1>0, <1>1, <3>1
  <2>2. CASE i \in 1..k
    <3>1. OnRecord(results, a, i)
      BY <1>1, <2>1, <2>2 DEF OnRecord
    <3> QED BY <1>1, <2>1, <2>2, <3>1, NoticesAre
  <2>3. CASE i = k + 1
    <3>1. a \in Mine(t)
      BY <1>2, <2>1, <2>3 DEF OnRecord
    <3> QED BY <1>3, <2>1, <2>3, <3>1
  <2> QED BY <1>1, <2>2, <2>3
<1>6. ASSUME NEW n, n \in NoticesOf(alerts, results)
      PROVE  n \in NoticesOf(alerts', results')
  <2>1. PICK a \in alerts, i \in 1..k :
          OnRecord(results, a, i) /\ n = [config |-> a.config, at |-> i, kind |-> a.kind]
    BY <1>1, <1>6, NoticesAre
  <2>2. i \in DOMAIN results' /\ OnRecord(results', a, i)
    BY <1>1, <2>1 DEF OnRecord
  <2> QED BY <1>0, <2>1, <2>2, NoticesAre
<1>7. ASSUME NEW n \in N
      PROVE  n \in NoticesOf(alerts', results')
  <2>1. PICK c \in D : n = [config |-> c, at |-> k + 1, kind |-> Kind(t)]
    OBVIOUS
  <2>2. PICK a \in Mine(t) : a.config = c
    BY <1>4
  <2>3. a \in alerts' /\ k + 1 \in DOMAIN results' /\ a.kind = Kind(t)
    BY <1>0, <1>1, <1>3 DEF Mine
  <2>4. OnRecord(results', a, k + 1)
    BY <1>1, <1>2 DEF Mine, OnRecord
  <2> QED BY <2>1, <2>2, <2>3, <2>4, NoticesAre
<1>9. VisibleNotices' = VisibleNotices \cup N
  BY <1>5, <1>6, <1>7, VisibleAre
<1> QED BY <1>9 DEF k, D

\* A commit of perform_check is the contract's check.
LEMMA RecordRefines ==
  ASSUME SerialInv, NEW t \in Task, Records(t)
  PROVE  Contract!CheckUp \/ Contract!CheckDown
<1> DEFINE S(c) == NextState(Up(t), alertstate[c], config[c].threshold)
           D == {d \in Watched : AlertDue(Up(t), alertstate[d], config[d].threshold)}
<1>0. TypeOK /\ config' = config /\ results' = Append(results, MyRow(t)) /\ Up(t) \in BOOLEAN
  BY DEF SerialInv, RowInv, Records, ApplyWrites, Up, is_up_for
<1>1. Watched' = Watched /\ Thresholds' = Thresholds
  BY <1>0 DEF Watched, Thresholds
<1>2. History' = Append(History, Up(t)) /\ Len(History) = Len(results)
  BY <1>0, RecordHistory
<1>3. \A c \in Config : Thresholds[c] = config[c].threshold /\ Streaks[c] = alertstate[c].streak
                        /\ Flags[c] = alertstate[c].sent /\ Flags[c] \in BOOLEAN
  BY <1>0 DEF Thresholds, Streaks, Flags, TypeOK, StateRow
<1>4. Streaks' = [c \in Config |-> alertstate'[c].streak] /\ Flags' = [c \in Config |-> alertstate'[c].sent]
  BY DEF Streaks, Flags
<1>5. VisibleNotices' = VisibleNotices \cup
        {[config |-> c, at |-> Len(History) + 1, kind |-> Kind(t)] : c \in D}
  BY <1>2, RecordNotices
<1>6. CASE Up(t)
  <2>1. ASSUME NEW c \in Config
        PROVE  /\ alertstate'[c].streak = IF c \in Watched THEN 0 ELSE Streaks[c]
               /\ alertstate'[c].sent = IF c \in Watched THEN FALSE ELSE Flags[c]
    BY <1>3, <1>6, RecordRows DEF NextState
  <2>2. D = {c \in Watched : Flags[c]}
    BY <1>3, <1>6 DEF AlertDue, Watched
  <2>3. Streaks' = [c \in Config |-> IF c \in Watched THEN 0 ELSE Streaks[c]]
    BY <1>4, <2>1
  <2>4. Flags' = [c \in Config |-> IF c \in Watched THEN FALSE ELSE Flags[c]]
    BY <1>4, <2>1
  <2>5. VisibleNotices' = VisibleNotices \cup Contract!Issued({c \in Watched : Flags[c]}, "recovery")
    BY <1>5, <1>6, <2>2 DEF Contract!Issued, Kind
  <2>6. History' = Append(History, TRUE)
    BY <1>2, <1>6
  <2> QED BY <1>1, <2>3, <2>4, <2>5, <2>6 DEF Contract!CheckUp
<1>7. CASE ~Up(t)
  <2>1. ASSUME NEW c \in Config
        PROVE  /\ alertstate'[c].streak = IF c \in Watched THEN Streaks[c] + 1 ELSE Streaks[c]
               /\ alertstate'[c].sent = (Flags[c] \/ (c \in Watched /\ Contract!Announces(c)))
    <3>1. CASE c \in Watched
      BY <1>3, <1>7, <3>1, RecordRows DEF NextState, Contract!Announces
    <3>2. CASE c \notin Watched
      BY <1>3, <3>2, RecordRows
    <3> QED BY <3>1, <3>2
  <2>2. D = {c \in Watched : Contract!Announces(c)}
    BY <1>3, <1>7 DEF AlertDue, Watched, Contract!Announces
  <2>3. Streaks' = [c \in Config |-> IF c \in Watched THEN Streaks[c] + 1 ELSE Streaks[c]]
    BY <1>4, <2>1
  <2>4. Flags' = [c \in Config |-> Flags[c] \/ (c \in Watched /\ Contract!Announces(c))]
    BY <1>4, <2>1
  <2>5. VisibleNotices' = VisibleNotices
          \cup Contract!Issued({c \in Watched : Contract!Announces(c)}, "down")
    BY <1>5, <1>7, <2>2 DEF Contract!Issued, Kind
  <2>6. History' = Append(History, FALSE)
    BY <1>0, <1>2, <1>7
  <2> QED BY <1>1, <2>3, <2>4, <2>5, <2>6 DEF Contract!CheckDown
<1> QED BY <1>0, <1>6, <1>7

\* A step that the owner does not see.
LEMMA QuietRefines ==
  ASSUME UNCHANGED <<results, config, alertstate, alerts>>
  PROVE  UNCHANGED Contract!cvars
<1>1. VisibleNotices' = VisibleNotices
  BY VisibleAre
<1> QED BY <1>1 DEF Contract!cvars, History, Thresholds, Watched, Streaks, Flags

\* Every step of a check is one of the contract's, or is not seen.
LEMMA TaskRefines ==
  ASSUME OneProcess, SerialInv, NEW t \in Task,
         dispatch_due_checks(t) \/ CheckStep(t) \/ CheckFault(t)
  PROVE  [Contract!CNext]_Contract!cvars
<1>0. TypeOK /\ AttemptsPast
  BY DEF SerialInv, RowInv
<1>1. CASE Claims(t) \/ Probe(t) \/ InsertAndLoad(t) \/ Quits(t)
  BY <1>1, QuietRefines DEF Claims, Probe, InsertAndLoad, Quits, dbVars, alertVars
<1>2. CASE \E r \in todo[t] : Evaluate(t, r)
  <2>1. PICK r \in todo[t] : Evaluate(t, r)
    BY <1>2
  <2>2. /\ UNCHANGED <<results, config, alertstate>> /\ alerts \subseteq alerts'
        /\ pc[t] = "evaluating"
        /\ \A a \in alerts' \ alerts : a.task = t /\ a.attempt = attempt[t]
    BY <2>1 DEF Evaluate, queue_alert, dbVars, alertVars
  <2>3. \A i \in DOMAIN results : ~(results[i].task = t /\ results[i].attempt = attempt[t])
    <3>1. attempt[t] \in Int
      BY <1>0, RetriesAssumption DEF TypeOK, Attempt
    <3> QED BY <1>0, <2>2, <3>1 DEF AttemptsPast, RowsPast
  <2>4. VisibleNotices' = VisibleNotices
    BY <2>2, <2>3, UnrecordedIsInvisible DEF OnRecord
  <2> QED BY <2>2, <2>4 DEF Contract!cvars, History, Thresholds, Watched, Streaks, Flags
<1>3. CASE Records(t)
  BY <1>3, RecordRefines DEF Contract!CNext
<1> QED BY <1>0, <1>1, <1>2, <1>3, TaskCases DEF OneProcess

\* The handler's UPDATE gives a notice up; nothing else of a delivery is seen.
LEMMA SendRefines ==
  ASSUME OneProcess, SerialInv, NEW a \in alerts, SendStep(a) \/ SendFault(a)
  PROVE  [Contract!CNext]_Contract!cvars
<1> DEFINE c == a.config
<1>0. /\ TypeOK /\ c \in Config /\ UNCHANGED <<results, config, alerts>>
      /\ alertstate' = alertstate \/ alertstate' = [alertstate EXCEPT ![c].sent = FALSE]
  BY SendCases DEF SerialInv, RowInv, TypeOK, Alert, handle_alert_exhausted, mark_alert_undelivered
<1>1. alertstate[c] \in StateRow
  BY <1>0 DEF TypeOK
<1>2. CASE alertstate' = alertstate
  BY <1>0, <1>2, QuietRefines
<1>3. CASE alertstate' = [alertstate EXCEPT ![c].sent = FALSE]
  <2>1. /\ \A d \in Config : alertstate'[d].streak = alertstate[d].streak
        /\ \A d \in Config : alertstate'[d].sent = IF d = c THEN FALSE ELSE alertstate[d].sent
    BY <1>0, <1>1, <1>3 DEF TypeOK, StateRow
  <2>2. VisibleNotices' = VisibleNotices
    BY <1>0, VisibleAre
  <2>3. Streaks' = Streaks /\ Flags' = [Flags EXCEPT ![c] = FALSE]
    BY <1>0, <2>1 DEF Streaks, Flags
  <2>4. UNCHANGED <<History, Thresholds, Watched>>
    BY <1>0 DEF History, Thresholds, Watched
  <2>5. CASE Flags[c]
    BY <1>0, <2>2, <2>3, <2>4, <2>5 DEF Contract!CNext, Contract!GiveUp
  <2>6. CASE ~Flags[c]
    <3>1. Flags' = Flags
      BY <1>0, <2>1, <2>6 DEF Flags, TypeOK, StateRow
    <3> QED BY <2>2, <2>3, <2>4, <3>1 DEF Contract!cvars
  <2> QED BY <2>5, <2>6
<1> QED BY <1>0, <1>2, <1>3

\* Deleting an alert config ends the watch, deleting the endpoint everything.
LEMMA UserRefines ==
  ASSUME OneProcess, SerialInv, UserStep
  PROVE  [Contract!CNext]_Contract!cvars
<1>0. TypeOK
  BY DEF SerialInv, RowInv
<1>1. ASSUME NEW c \in Config, delete_alert(c)
      PROVE  Contract!Unwatch(c)
  <2>1. /\ config' = [config EXCEPT ![c].life = "deleted"]
        /\ alertstate' = [alertstate EXCEPT ![c] = NoRow]
        /\ UNCHANGED <<results, alerts>> /\ config[c].life = "live"
    BY <1>1 DEF delete_alert, alertVars
  <2>2. c \in Watched /\ Watched' = Watched \ {c} /\ Thresholds' = Thresholds
    BY <1>0, <2>1 DEF Watched, Thresholds, TypeOK, ConfigRow
  <2>3. Streaks' = [Streaks EXCEPT ![c] = 0] /\ Flags' = [Flags EXCEPT ![c] = FALSE]
    BY <1>0, <2>1 DEF Streaks, Flags, NoRow, TypeOK
  <2>4. VisibleNotices' = VisibleNotices
    BY <2>1, VisibleAre
  <2>5. History' = History
    BY <2>1 DEF History
  <2> QED BY <2>2, <2>3, <2>4, <2>5 DEF Contract!Unwatch
<1>2. CASE delete_endpoint
  <2>1. /\ results' = <<>> /\ alertstate' = [c \in Config |-> NoRow]
        /\ config' = [c \in Config |-> IF config[c].life = "live"
                                       THEN [config[c] EXCEPT !.life = "deleted"] ELSE config[c]]
    BY <1>2 DEF delete_endpoint
  <2>2. Watched' = {} /\ Thresholds' = Thresholds
    BY <1>0, <2>1 DEF Watched, Thresholds, TypeOK, ConfigRow
  <2>3. Streaks' = [c \in Config |-> 0] /\ Flags' = [c \in Config |-> FALSE]
    BY <2>1 DEF Streaks, Flags, NoRow
  <2>4. VisibleNotices' = {}
    BY <2>1, VisibleAre, NoticesAre
  <2>5. History' = <<>>
    BY <2>1 DEF History
  <2> QED BY <2>2, <2>3, <2>4, <2>5 DEF Contract!CNext, Contract!Forget
<1> QED BY <1>1, <1>2, UserCases DEF Contract!CNext

\* With one process in the pool, the pipeline does what AlertContract says,
\* one recorded check at a time: for every number of checks and configs, every
\* retry limit, and with retried, failing, redelivered and crashing tasks.
THEOREM PipelineImplementsContract ==
  ASSUME OneProcess
  PROVE  Spec => ImplementsContract
<1>1. Init => Contract!CInit
  <2> SUFFICES ASSUME Init PROVE Contract!CInit
    OBVIOUS
  <2>1. TypeOK
    BY InitType
  <2>2. Watched \in SUBSET Config /\ Thresholds \in [Config -> Threshold]
    BY <2>1 DEF Watched, Thresholds, TypeOK, ConfigRow
  <2>3. Streaks = [c \in Config |-> 0] /\ Flags = [c \in Config |-> FALSE]
    BY DEF Init, Streaks, Flags, NoRow, FreshRow
  <2>4. VisibleNotices = {}
    BY VisibleAre, NoticesAre DEF Init
  <2>5. History = <<>>
    BY DEF Init, History
  <2> QED BY <2>2, <2>3, <2>4, <2>5 DEF Contract!CInit
<1>2. SerialInv /\ [Next]_vars => [Contract!CNext]_Contract!cvars
  <2> SUFFICES ASSUME SerialInv, [Next]_vars PROVE [Contract!CNext]_Contract!cvars
    OBVIOUS
  <2>1. CASE WorkerKilled
    BY <2>1, QuietRefines DEF WorkerKilled, dbVars
  <2>2. CASE UNCHANGED vars
    BY <2>2, QuietRefines DEF vars, dbVars, alertVars
  <2> QED BY <2>1, <2>2, TaskRefines, SendRefines, UserRefines DEF Next, Terminated
<1> QED BY <1>1, <1>2, SerialInvariant, PTL DEF Spec, ImplementsContract, Contract!CSpec

\* The contract's promises, of what the owner sees.
LEMMA VisibleNoticesAreTrue ==
  ASSUME OneProcess
  PROVE  Spec => [](VisibleDownEndsRun /\ VisibleRecoveryEndsOutage)
<1>1. Contract!CSpec => [](Contract!DownEndsRun /\ Contract!RecoveryEndsOutage)
  BY Contract!NoticesAreTrue, ThresholdAssumption
<1> QED BY <1>1, PipelineImplementsContract, PTL
        DEF ImplementsContract, VisibleDownEndsRun, VisibleRecoveryEndsOutage

\* The owner's down alerts end a run of recorded failures of threshold length.
THEOREM DownsAreTrue ==
  ASSUME OneProcess
  PROVE  Spec => []VisibleDownEndsRun
BY VisibleNoticesAreTrue, PTL

\* The owner's recovery alerts answer a down alert, with nothing but failures
\* in between.
THEOREM RecoveriesAreTrue ==
  ASSUME OneProcess
  PROVE  Spec => []VisibleRecoveryEndsOutage
BY VisibleNoticesAreTrue, PTL
-----------------------------------------------------------------------------
(* The flag stands for an alert *)

\* The flag is set only by a commit, next to a down alert that its check has
\* queued and that has not been touched yet; it is cleared when that is given up.
LEMMA NextFlag ==
  ASSUME OneProcess, "handler_error" \notin Faults, "webhook" \notin Channel,
         SerialInv, FlagHonest, [Next]_vars
  PROVE  FlagHonest'
<1>0. TypeOK /\ Alone
  BY DEF SerialInv, RowInv
<1>1. ASSUME \A c \in Config : alertstate'[c].sent => alertstate[c].sent,
             \A a \in alerts : a \in alerts' /\ (Promising(a) => Promising(a)')
      PROVE  FlagHonest'
  BY <1>1 DEF FlagHonest, DownAlerts
<1>2. ASSUME NEW t \in Task, dispatch_due_checks(t) \/ CheckStep(t) \/ CheckFault(t)
      PROVE  FlagHonest'
  <2>1. CASE Claims(t) \/ Probe(t) \/ InsertAndLoad(t) \/ Quits(t)
    <3>1. UNCHANGED <<alertstate, alerts, delivery>>
      BY <2>1 DEF Claims, Probe, InsertAndLoad, Quits, dbVars, alertVars
    <3> QED BY <1>1, <3>1 DEF Promising
  <2>2. CASE \E r \in todo[t] : Evaluate(t, r)
    <3>1. alertstate' = alertstate
      BY <2>2 DEF Evaluate, dbVars
    <3>2. \A a \in alerts : /\ a \in alerts'
                            /\ delivery'[a] = delivery[a] \/ delivery'[a].stage = "queued"
      BY <2>2 DEF Evaluate, queue_alert, alertVars
    <3> QED BY <1>1, <3>1, <3>2 DEF Promising, SettledAlert
  <2>3. CASE Records(t)
    <3>1. UNCHANGED <<alerts, delivery>> /\ SessionTrue(t)
      BY <2>3 DEF Records, ReadyToCommit, SerialInv, SessionsTrue, alertVars
    <3>2. \A a : Promising(a)' <=> Promising(a)
      BY <3>1 DEF Promising
    <3>3. ASSUME NEW c \in Config, alertstate'[c].sent
          PROVE  \E a \in DownAlerts(c) : Promising(a)
      <4>1. CASE alertstate[c].sent
        BY <4>1 DEF FlagHonest
      <4>2. CASE ~alertstate[c].sent
        <5>1. c \in Watched
          BY <2>3, <3>3, <4>2, RecordRows
        <5>2. /\ Seen(t, c) /\ old[t][c] = alertstate[c]
              /\ NextState(Up(t), alertstate[c], config[c].threshold).sent
          BY <2>3, <3>3, <5>1, RecordRows
        <5>3. ~Up(t) /\ Due(t, c)
          BY <4>2, <5>2 DEF NextState, Due, AlertDue
        <5>4. PICK a \in Mine(t) : a.config = c
          BY <3>1, <5>2, <5>3 DEF SessionTrue, Evaluated
        <5>5. a.kind = "down" /\ delivery[a].stage = "queued"
          BY <3>1, <5>3 DEF SessionTrue, Announced, Kind
        <5> QED BY <5>4, <5>5 DEF Mine, DownAlerts, Promising, SettledAlert
      <4> QED BY <4>1, <4>2
    <3> QED BY <3>1, <3>2, <3>3 DEF FlagHonest, DownAlerts
  <2> QED BY <1>0, <1>2, <2>1, <2>2, <2>3, TaskCases DEF OneProcess
<1>3. ASSUME NEW a \in alerts, SendStep(a) \/ SendFault(a)
      PROVE  FlagHonest'
  <2>1. /\ alerts' = alerts /\ a.channel # "webhook"
        /\ \A b \in alerts \ {a} : Promising(b)' <=> Promising(b)
    BY <1>0, <1>3, SendCases DEF Promising, TypeOK, Alert
  <2>2. CASE handle_alert_exhausted(a)
    <3>1. CASE a.kind = "down"
      <4>1. alertstate' = [alertstate EXCEPT ![a.config].sent = FALSE]
        BY <2>2, <3>1 DEF handle_alert_exhausted, mark_alert_undelivered
      <4>2. \A c \in Config : /\ alertstate'[c].sent => alertstate[c].sent
                              /\ c = a.config => ~alertstate'[c].sent
        BY <1>0, <4>1 DEF TypeOK, StateRow
      <4> QED BY <2>1, <4>2 DEF FlagHonest, DownAlerts
    <3>2. CASE a.kind # "down"
      <4>1. alertstate' = alertstate
        BY <2>2, <3>2 DEF handle_alert_exhausted
      <4> QED BY <2>1, <3>2, <4>1 DEF FlagHonest, DownAlerts
    <3> QED BY <3>1, <3>2
  <2>3. CASE ~handle_alert_exhausted(a)
    <3>1. alertstate' = alertstate
      BY <1>0, <1>3, <2>3, SendCases
    <3>2. Promising(a) => Promising(a)'
      <4>1. CASE StartSend(a) \/ SendFatal(a)
        BY <1>0, <4>1 DEF StartSend, SendFatal, Move, Promising, SettledAlert, TypeOK, Delivery
      <4>2. CASE SendOk(a)
        BY <1>0, <4>2 DEF SendOk, Move, Promising, TypeOK, Delivery
      <4>3. CASE \E told \in BOOLEAN : SendError(a, told)
        BY <1>0, <4>3 DEF SendError, Promising, SettledAlert, TypeOK, Delivery
      <4>4. ~(\E told \in BOOLEAN : AlertChildKilled(a, told)) /\ ~HandlerError(a) /\ ~WebhookRejected(a)
        BY <2>1 DEF AlertChildKilled, HandlerError, WebhookRejected, OneProcess
      <4> QED BY <1>3, <2>3, <4>1, <4>2, <4>3, <4>4 DEF SendStep, SendFault
    <3> QED BY <1>1, <2>1, <3>1, <3>2
  <2> QED BY <2>2, <2>3
<1>4. CASE WorkerKilled
  <2>1. alerts' = alerts /\ alertstate' = alertstate
    BY <1>4 DEF WorkerKilled, dbVars
  <2>2. PICK told \in SUBSET alerts :
          delivery' = [a \in alerts |->
            [delivery[a] EXCEPT !.stage = IF @ \in {"sending", "failing"} THEN "queued" ELSE @,
                                !.told = @ \/ a \in told]]
    BY <1>4 DEF WorkerKilled, Stages
  <2>3. ASSUME NEW a \in alerts
        PROVE  Promising(a) => Promising(a)'
    <3>1. delivery[a] \in Delivery
      BY <1>0 DEF TypeOK
    <3>2. /\ delivery'[a].stage \in {"queued", delivery[a].stage}
          /\ delivery'[a].told = (delivery[a].told \/ a \in told)
      BY <2>2, <3>1 DEF Delivery
    <3> QED BY <3>2 DEF Promising, SettledAlert
  <2> QED BY <1>1, <2>1, <2>3
<1>5. CASE UserStep
  <2>1. /\ UNCHANGED <<alerts, delivery>>
        /\ \A c \in Config : alertstate'[c] \in {NoRow, alertstate[c]}
    BY <1>0, <1>5, UserCases DEF delete_endpoint, delete_alert, alertVars, TypeOK
  <2>2. \A c \in Config : alertstate'[c].sent => alertstate[c].sent
    BY <2>1 DEF NoRow
  <2> QED BY <1>1, <2>1, <2>2 DEF Promising
<1>6. CASE UNCHANGED vars
  BY <1>1, <1>6 DEF vars, dbVars, alertVars, Promising
<1> QED BY <1>2, <1>3, <1>4, <1>5, <1>6 DEF Next, Terminated

\* The flag and the invariant, of every reachable state.
LEMMA FlagInvariant ==
  ASSUME OneProcess, "handler_error" \notin Faults, "webhook" \notin Channel
  PROVE  Spec => [](SerialInv /\ FlagHonest)
<1>1. Init => FlagHonest
  BY DEF Init, FlagHonest, NoRow, FreshRow
<1>2. SerialInv /\ FlagHonest /\ [Next]_vars => FlagHonest'
  BY NextFlag
<1> QED BY <1>1, <1>2, SerialInvariant, PTL DEF Spec

\* alert_sent stands for a down alert that reached the user or still may,
\* unless a webhook refuses it or the handler of its failure fails.
THEOREM FlagIsHonest ==
  ASSUME OneProcess, "handler_error" \notin Faults, "webhook" \notin Channel
  PROVE  Spec => []FlagHonest
BY FlagInvariant, PTL

\* A recovery message is queued only while some down alert of the config
\* reached the user or still may.
THEOREM RecoveryFollowsPromise ==
  ASSUME OneProcess, "handler_error" \notin Faults, "webhook" \notin Channel
  PROVE  Spec => RecoveryOnlyIfTold
<1> DEFINE A == \A a \in alerts' \ alerts : a.kind = "recovery" =>
                  \E d \in DownAlerts(a.config) : Promising(d)
<1>1. SerialInv /\ FlagHonest /\ [Next]_vars => [A]_vars
  <2> SUFFICES ASSUME SerialInv, FlagHonest, Next PROVE A
    BY DEF A
  <2>0. TypeOK /\ Alone
    BY DEF SerialInv, RowInv
  <2>1. ASSUME NEW t \in Task, dispatch_due_checks(t) \/ CheckStep(t) \/ CheckFault(t)
        PROVE  A
    <3>1. CASE \E r \in todo[t] : Evaluate(t, r)
      <4>1. PICK r \in todo[t] : Evaluate(t, r)
        BY <3>1
      <4>2. \A a \in alerts' \ alerts : /\ a.config = r.config /\ r.config \in Config
                                        /\ a.kind = "recovery" => alertstate[r.config].sent
        BY <2>0, <4>1 DEF Evaluate, queue_alert, alertVars, AlertDue, TypeOK, Loaded
      <4> QED BY <4>2 DEF FlagHonest
    <3>2. CASE ~\E r \in todo[t] : Evaluate(t, r)
      <4>1. alerts' = alerts
        BY <2>0, <2>1, <3>2, TaskCases
           DEF OneProcess, Claims, Probe, InsertAndLoad, Quits, Records, alertVars
      <4> QED BY <4>1
    <3> QED BY <3>1, <3>2
  <2>2. ASSUME NEW a \in alerts, SendStep(a) \/ SendFault(a)
        PROVE  A
    BY <2>0, <2>2, SendCases
  <2>3. CASE WorkerKilled \/ UserStep \/ UNCHANGED vars
    BY <2>3, UserCases DEF WorkerKilled, delete_endpoint, delete_alert, alertVars, vars
  <2> QED BY <2>1, <2>2, <2>3 DEF Next, Terminated
<1> QED BY <1>1, FlagInvariant, PTL DEF Spec, RecoveryOnlyIfTold
-----------------------------------------------------------------------------
(* An outage that was announced is also ended *)

\* The alert config c is there and no down alert of it has been given up.
Pursued(c) ==
  config[c].life = "live" /\ \A d \in DownAlerts(c) : delivery[d].stage # "given_up"

\* The rows between i and j are failures.
DownBetween(i, j) == (i + 1)..(j - 1) \subseteq FailedRows

\* As long as nothing but failures follows the row of a down alert, the flag is
\* set; the first success after it has queued the recovery.
OutageKept ==
  \A a \in alerts : a.kind = "down" /\ Pursued(a.config) =>
    \A i \in RowsOf(a) :
      /\ DownBetween(i, Len(results) + 1) => alertstate[a.config].sent
      /\ \A j \in DOMAIN results :
           i < j /\ j \notin FailedRows /\ DownBetween(i, j) =>
             \E b \in alerts : /\ b.kind = "recovery" /\ b.config = a.config
                               /\ j \in RowsOf(b)

\* A step that records nothing and clears no flag of a config that is pursued.
LEMMA QuietOutage ==
  ASSUME TypeOK, OutageKept, results' = results, alerts' = alerts,
         \A c \in Config : Pursued(c)' =>
           Pursued(c) /\ (alertstate[c].sent => alertstate'[c].sent)
  PROVE  OutageKept'
<1>1. FailedRows' = FailedRows /\ \A a : RowsOf(a)' = RowsOf(a)
  BY DEF FailedRows, RowsOf
<1>2. \A i, j : DownBetween(i, j)' <=> DownBetween(i, j)
  BY <1>1 DEF DownBetween
<1>3. \A a \in alerts : a.config \in Config
  BY DEF TypeOK, Alert
<1> QED BY <1>1, <1>2, <1>3 DEF OutageKept

\* An alert that is queued has no row yet, and gives no other alert up.
LEMMA EvaluateOutage ==
  ASSUME SerialInv, OutageKept, NEW t \in Task, NEW r \in todo[t], Evaluate(t, r)
  PROVE  OutageKept'
<1>0. TypeOK /\ AttemptsPast /\ SessionTrue(t)
  BY DEF SerialInv, RowInv, SessionsTrue, Evaluate
<1>1. /\ UNCHANGED <<results, config, alertstate>> /\ alerts \subseteq alerts'
      /\ pc[t] = "evaluating"
      /\ \A a \in alerts' \ alerts : a.task = t /\ a.attempt = attempt[t]
      /\ \A a \in alerts : \/ delivery'[a] = delivery[a]
                           \/ a \in Mine(t) /\ a.config = r.config
  BY DEF Evaluate, queue_alert, dbVars, alertVars, Mine
<1>2. \A a \in Mine(t) : a.config # r.config
  BY <1>0 DEF SessionTrue, Announced, Considered
<1>3. \A a \in alerts : delivery'[a] = delivery[a]
  BY <1>1, <1>2
<1>4. \A c : Pursued(c)' => Pursued(c)
  BY <1>1, <1>3 DEF Pursued, DownAlerts
<1>5. FailedRows' = FailedRows /\ \A a : RowsOf(a)' = RowsOf(a)
  BY <1>1 DEF FailedRows, RowsOf
<1>6. \A i, j : DownBetween(i, j)' <=> DownBetween(i, j)
  BY <1>5 DEF DownBetween
<1>7. \A a \in alerts' \ alerts : RowsOf(a) = {}
  <2>1. attempt[t] \in Int
    BY <1>0, RetriesAssumption DEF TypeOK, Attempt
  <2> QED BY <1>0, <1>1, <2>1 DEF AttemptsPast, RowsPast, RowsOf
<1> QED BY <1>1, <1>4, <1>5, <1>6, <1>7 DEF OutageKept

\* A commit sets the flag with the down alert it makes visible, keeps it over
\* failures, and makes a recovery visible when it clears it.
LEMMA RecordOutage ==
  ASSUME SerialInv, OutageKept, NEW t \in Task, Records(t)
  PROVE  OutageKept'
<1> DEFINE k == Len(results)
<1>0. /\ TypeOK /\ SessionTrue(t) /\ UNCHANGED <<config, alerts, delivery>>
      /\ results \in Seq(Row) /\ results' = Append(results, MyRow(t))
      /\ \A a \in alerts : a.config \in Config
  BY DEF SerialInv, RowInv, SessionsTrue, Records, ReadyToCommit, ApplyWrites, alertVars, TypeOK, Alert
<1>1. /\ k \in Nat /\ DOMAIN results = 1..k /\ DOMAIN results' = 1..(k + 1) /\ Len(results') = k + 1
      /\ results'[k + 1] = MyRow(t) /\ \A i \in 1..k : results'[i] = results[i]
  BY <1>0
<1>2. \A i \in 1..k : i \in FailedRows' <=> i \in FailedRows
  BY <1>1 DEF FailedRows
<1>3. k + 1 \in FailedRows' <=> ~Up(t)
  BY <1>1 DEF FailedRows, Up, MyRow
<1>4. \A a : \A i \in 1..k : i \in RowsOf(a)' <=> i \in RowsOf(a)
  BY <1>1 DEF RowsOf
<1>5. \A a \in alerts : k + 1 \in RowsOf(a)' <=> a \in Mine(t)
  BY <1>1 DEF RowsOf, Mine, MyRow
<1>6. \A a \in alerts :
             /\ RowsOf(a)' \subseteq 1..(k + 1)
             /\ Pursued(a.config)' => Pursued(a.config) /\ a.config \in Watched
  BY <1>0, <1>1 DEF RowsOf, Pursued, DownAlerts, Watched
<1>7. ASSUME NEW i \in 1..k, NEW j \in 1..(k + 1)
      PROVE  DownBetween(i, j)' <=> DownBetween(i, j)
  BY <1>1, <1>2 DEF DownBetween
<1> SUFFICES ASSUME NEW a \in alerts, a.kind = "down", Pursued(a.config)', NEW i \in RowsOf(a)'
             PROVE  /\ (i + 1)..(k + 1) \subseteq FailedRows' => alertstate'[a.config].sent
                    /\ \A j \in 1..(k + 1) :
                         i < j /\ j \notin FailedRows' /\ DownBetween(i, j)' =>
                           \E b \in alerts : /\ b.kind = "recovery" /\ b.config = a.config
                                             /\ j \in RowsOf(b)'
  <2>1. \A i : DownBetween(i, Len(results) + 1)' <=> (i + 1)..(k + 1) \subseteq FailedRows'
    BY <1>1 DEF DownBetween
  <2> QED BY <1>0, <1>1, <2>1 DEF OutageKept
<1> DEFINE c == a.config
<1>8. /\ c \in Config /\ c \in Watched /\ Pursued(c) /\ i \in 1..(k + 1)
      /\ Seen(t, c) /\ old[t][c] = alertstate[c] /\ alertstate[c].streak \in Int
      /\ alertstate'[c].sent = NextState(Up(t), alertstate[c], config[c].threshold).sent
  <2>1. c \in Config /\ c \in Watched /\ Pursued(c) /\ i \in 1..(k + 1)
    BY <1>0, <1>6
  <2>2. alertstate[c] \in StateRow
    BY <1>0, <2>1 DEF TypeOK
  <2> QED BY <2>1, <2>2, RecordRows DEF StateRow
<1> HIDE DEF k
<1>9. CASE i = k + 1
  <2>1. Due(t, c) /\ ~Up(t)
    BY <1>0, <1>5, <1>9 DEF SessionTrue, Announced, Kind
  <2>2. alertstate'[c].sent
    BY <1>8, <2>1 DEF Due, AlertDue, NextState
  <2> QED BY <1>1, <1>9, <2>2
<1>10. CASE i \in 1..k
  <2>1. i \in RowsOf(a)
    BY <1>4, <1>10
  <2>2. DownBetween(i, k + 1) => alertstate[c].sent
    BY <1>8, <2>1 DEF OutageKept, k
  <2>3. ASSUME (i + 1)..(k + 1) \subseteq FailedRows'
        PROVE  alertstate'[c].sent
    <3>1. ~Up(t) /\ DownBetween(i, k + 1)
      BY <1>1, <1>2, <1>3, <1>10, <2>3 DEF DownBetween
    <3> QED BY <1>8, <2>2, <3>1 DEF NextState
  <2>4. ASSUME NEW j \in 1..(k + 1), i < j, j \notin FailedRows', DownBetween(i, j)'
        PROVE  \E b \in alerts : b.kind = "recovery" /\ b.config = c /\ j \in RowsOf(b)'
    <3>1. DownBetween(i, j)
      BY <1>7, <1>10, <2>4
    <3>2. CASE j \in 1..k
      <4>1. j \in DOMAIN results /\ j \notin FailedRows
        BY <1>1, <1>2, <2>4, <3>2
      <4>2. PICK b \in alerts : b.kind = "recovery" /\ b.config = c /\ j \in RowsOf(b)
        BY <1>8, <2>1, <2>4, <3>1, <4>1 DEF OutageKept
      <4> QED BY <1>4, <3>2, <4>2
    <3>3. CASE j = k + 1
      <4>1. Up(t) /\ alertstate[c].sent
        BY <1>3, <2>2, <2>4, <3>1, <3>3
      <4>2. Due(t, c)
        BY <1>8, <4>1 DEF Due, AlertDue
      <4>3. PICK b \in Mine(t) : b.config = c
        BY <1>0, <1>8, <4>2 DEF SessionTrue, Evaluated
      <4>4. b \in alerts /\ b.kind = "recovery"
        BY <1>0, <4>1 DEF SessionTrue, Announced, Kind, Mine
      <4> QED BY <1>5, <3>3, <4>3, <4>4
    <3> QED BY <1>1, <3>2, <3>3
  <2> QED BY <2>3, <2>4
<1> QED BY <1>1, <1>8, <1>9, <1>10

\* No step leaves an announced outage without its flag or its recovery.
LEMMA NextOutage ==
  ASSUME OneProcess, SerialInv, OutageKept, [Next]_vars
  PROVE  OutageKept'
<1>0. TypeOK /\ Alone
  BY DEF SerialInv, RowInv
<1>1. ASSUME UNCHANGED <<results, config, alertstate, alerts>>,
             \A a \in alerts : delivery[a].stage = "given_up" => delivery'[a].stage = "given_up"
      PROVE  OutageKept'
  <2>1. \A c : Pursued(c)' => Pursued(c)
    BY <1>1 DEF Pursued, DownAlerts
  <2> QED BY <1>0, <1>1, <2>1, QuietOutage
<1>2. ASSUME NEW t \in Task, dispatch_due_checks(t) \/ CheckStep(t) \/ CheckFault(t)
      PROVE  OutageKept'
  <2>1. CASE Claims(t) \/ Probe(t) \/ InsertAndLoad(t) \/ Quits(t)
    BY <1>1, <2>1 DEF Claims, Probe, InsertAndLoad, Quits, dbVars, alertVars
  <2> QED BY <1>0, <1>2, <2>1, EvaluateOutage, RecordOutage, TaskCases DEF OneProcess
<1>3. ASSUME NEW a \in alerts, SendStep(a) \/ SendFault(a)
      PROVE  OutageKept'
  <2>1. /\ UNCHANGED <<results, config, alerts>> /\ a.config \in Config
        /\ \A b \in alerts \ {a} : delivery'[b] = delivery[b]
        /\ alertstate' = alertstate \/ (handle_alert_exhausted(a) /\ a.kind = "down")
    BY <1>0, <1>3, SendCases DEF TypeOK, Alert
  <2>2. delivery[a].stage # "given_up"
    BY <1>3 DEF SendStep, SendFault, StartSend, SendOk, WebhookRejected, SendError, SendFatal,
                handle_alert_exhausted, HandlerError, AlertChildKilled, Stages
  <2>3. CASE alertstate' = alertstate
    BY <1>1, <2>1, <2>2, <2>3
  <2>4. CASE handle_alert_exhausted(a) /\ a.kind = "down"
    <3>1. /\ alertstate' = [alertstate EXCEPT ![a.config].sent = FALSE]
          /\ delivery'[a].stage = "given_up"
      BY <1>0, <2>4 DEF handle_alert_exhausted, mark_alert_undelivered, Move, TypeOK
    <3>2. ~Pursued(a.config)'
      BY <2>1, <2>4, <3>1 DEF Pursued, DownAlerts
    <3>3. \A c \in Config : Pursued(c)' => Pursued(c)
      BY <2>1, <2>2 DEF Pursued, DownAlerts
    <3>4. \A c \in Config \ {a.config} : alertstate'[c] = alertstate[c]
      BY <1>0, <3>1 DEF TypeOK
    <3> QED BY <1>0, <2>1, <3>2, <3>3, <3>4, QuietOutage
  <2> QED BY <2>1, <2>3, <2>4
<1>4. CASE WorkerKilled
  <2>1. \A a \in alerts : delivery[a].stage = "given_up" => delivery'[a].stage = "given_up"
    BY <1>0, <1>4, Redelivered
  <2> QED BY <1>1, <1>4, <2>1 DEF WorkerKilled, dbVars
<1>5. CASE delete_endpoint
  <2>1. results' = <<>>
    BY <1>5 DEF delete_endpoint
  <2> QED BY <2>1 DEF OutageKept, RowsOf
<1>6. ASSUME NEW d \in Config, delete_alert(d)
      PROVE  OutageKept'
  <2>1. UNCHANGED <<results, alerts, delivery>>
    BY <1>6 DEF delete_alert, alertVars
  <2>2. \A c \in Config : /\ config'[c].life = "live" => config[c].life = "live" /\ c # d
                          /\ c # d => alertstate'[c] = alertstate[c]
    BY <1>0, <1>6 DEF delete_alert, TypeOK, ConfigRow
  <2>3. \A c \in Config : Pursued(c)' => Pursued(c) /\ alertstate'[c] = alertstate[c]
    BY <2>1, <2>2 DEF Pursued, DownAlerts
  <2> QED BY <1>0, <2>1, <2>3, QuietOutage
<1>7. CASE UNCHANGED vars
  BY <1>1, <1>7 DEF vars, dbVars, alertVars
<1> QED BY <1>2, <1>3, <1>4, <1>5, <1>6, <1>7, UserCases DEF Next, Terminated

\* A user who was told of an outage is also sent the recovery, whatever fails
\* or crashes: the first success on record after the row of a down alert has
\* queued it, unless a down alert of that config was given up.
THEOREM OutagesAreEnded ==
  ASSUME OneProcess
  PROVE  Spec => []ToldOutageRecovers
<1>1. Init => OutageKept
  BY DEF Init, OutageKept
<1>2. SerialInv /\ OutageKept /\ [Next]_vars => OutageKept'
  BY NextOutage
<1>3. OutageKept => ToldOutageRecovers
  BY DEF OutageKept, ToldOutageRecovers, Pursued, DownBetween
<1> QED BY <1>1, <1>2, <1>3, SerialInvariant, PTL DEF Spec
=============================================================================
