---------------------------- MODULE PerformCheck ----------------------------
(***************************************************************************)
(* dispatch_due_checks and perform_check of app/dispatcher.py, one action  *)
(* for each stretch of the task between two points where another process   *)
(* can interfere:                                                          *)
(*                                                                         *)
(*   idle -> queued -> probed -> evaluating -> committed -> done           *)
(*                                                                         *)
(* A retry goes back to queued with the next attempt; an exception that    *)
(* autoretry_for does not name ends in failed; a task whose process dies   *)
(* is lost, because perform_check is acknowledged before it runs.          *)
(***************************************************************************)
EXTENDS MonitorDb

-----------------------------------------------------------------------------
(* Helpers *)

\* is_up_for: an answer with a 2xx or 3xx code.
is_up_for(code) == code # NoResponse /\ 200 <= code /\ code < 400

MyRow(t) == [task |-> t, attempt |-> attempt[t], status |-> status[t]]

\* The state rows that the session of t has modified, and those whose write
\* has not reached the database yet. Autoflush keeps the latter at one.
Dirty(t) == {c \in Config : old[t][c] # new[t][c]}
Pending(t) == Dirty(t) \ flushed[t]

\* Mutant: a write that finds no row inserts it again.
WriteMatchesUpsert(t, c) == TRUE

\* The write of c's state row finds what it needs: an UPDATE its row (else
\* StaleDataError), an INSERT its alert config and no row yet (else
\* IntegrityError).
WriteMatches(t, c) ==
  IF old[t][c].exists
  THEN alertstate[c].exists
  ELSE config[c].life = "live" /\ ~alertstate[c].exists

CanFlush(t) == \A c \in Pending(t) : ~LockedByOther(t, c) /\ WriteMatches(t, c)

\* SQLAlchemy's UPDATE sets the columns whose value differs from the loaded
\* one, to the value computed in the session; the others keep what is stored.
Written(stored, o, n) ==
  [exists |-> TRUE,
   streak |-> IF o.streak = n.streak THEN stored.streak ELSE n.streak,
   sent   |-> IF o.sent = n.sent THEN stored.sent ELSE n.sent]

\* Mutant: a success leaves the streak standing.
NextStateNoReset(up, s, threshold) ==
  [exists |-> TRUE,
   streak |-> IF up THEN s.streak ELSE s.streak + 1,
   sent   |-> ~up /\ (s.sent \/ s.streak + 1 >= threshold)]

\* The body of the loop over alert_rows: the state row after one check...
NextState(up, s, threshold) ==
  [exists |-> TRUE,
   streak |-> IF up THEN 0 ELSE s.streak + 1,
   sent   |-> ~up /\ (s.sent \/ s.streak + 1 >= threshold)]

\* Mutant: recovery follows the previous status instead of alert_sent.
AlertDueOnBlip(up, s, threshold) ==
  IF up THEN s.streak > 0 ELSE s.streak + 1 >= threshold /\ ~s.sent

\* Mutant: one failure too early.
AlertDueEarly(up, s, threshold) ==
  IF up THEN s.sent ELSE s.streak + 2 >= threshold /\ ~s.sent

\* Mutant: one failure too late.
AlertDueLate(up, s, threshold) ==
  IF up THEN s.sent ELSE s.streak + 1 > threshold /\ ~s.sent

\* ... and whether the check queues an alert.
AlertDue(up, s, threshold) ==
  IF up THEN s.sent ELSE s.streak + 1 >= threshold /\ ~s.sent

\* queue_alert: .delay() hands the alert to the broker at once; it does not
\* wait for the transaction and is not undone with it.
queue_alert(a) ==
  /\ alerts' = alerts \cup {a}
  /\ delivery' = [x \in alerts \cup {a} |->
                    IF x = a THEN [stage |-> "queued", retries |-> 0, told |-> FALSE]
                    ELSE delivery[x]]

\* The session of t is closed: committed, rolled back, or its connection gone.
CloseSession(t) ==
  /\ todo' = [todo EXCEPT ![t] = {}]
  /\ old' = [old EXCEPT ![t] = [c \in Config |-> NoRow]]
  /\ new' = [new EXCEPT ![t] = [c \in Config |-> NoRow]]
  /\ flushed' = [flushed EXCEPT ![t] = {}]

\* The task of t ends as p with nothing of it left in memory.
End(t, p) ==
  /\ pc' = [pc EXCEPT ![t] = p]
  /\ status' = [status EXCEPT ![t] = NoResponse]
  /\ publish' = [publish EXCEPT ![t] = FALSE]
  /\ CloseSession(t)

\* Mutant: one retry too many.
RetryOnceMore(t) ==
  /\ End(t, IF attempt[t] <= CheckRetries THEN "queued" ELSE "failed")
  /\ attempt' = [attempt EXCEPT ![t] = IF @ <= CheckRetries THEN @ + 1 ELSE @]

\* Mutant: max_retries=None.
RetryForever(t) ==
  /\ End(t, "queued")
  /\ UNCHANGED attempt

\* autoretry_for: a new message for the same check, or failure for good.
Retry(t) ==
  /\ End(t, IF attempt[t] < CheckRetries THEN "queued" ELSE "failed")
  /\ attempt' = [attempt EXCEPT ![t] = IF @ < CheckRetries THEN @ + 1 ELSE @]
-----------------------------------------------------------------------------
(* dispatch_due_checks *)

\* Checks are claimed in checked_at order.
Claimable(t) ==
  /\ endpoint
  /\ pc[t] = "idle"
  /\ \A u \in Task : u < t => pc[u] # "idle"

dispatch_due_checks(t) ==
  /\ Claimable(t)
  /\ pc' = [pc EXCEPT ![t] = "queued"]
  /\ UNCHANGED <<dbVars, alertVars, published, attempt, status, publish, sessVars>>

\* The claim is committed before apply_async: a dispatcher that dies in
\* between has moved next_check_at on and enqueued nothing.
DispatchLost(t) ==
  /\ "dispatch_lost" \in Faults
  /\ Claimable(t)
  /\ pc' = [pc EXCEPT ![t] = "lost"]
  /\ UNCHANGED <<dbVars, alertVars, published, attempt, status, publish, sessVars>>
-----------------------------------------------------------------------------
(* perform_check *)

\* Whether the latest committed result, by checked_at, differs from this
\* one. Rows with equal checked_at come in any order.
ShouldPublish(up, flag) ==
  IF results = <<>> THEN flag
  ELSE \E i \in DOMAIN results :
         /\ \A j \in DOMAIN results : results[j].task <= results[i].task
         /\ flag = (is_up_for(results[i].status) # up)

\* The probe and the query for the previous result. The probe touches
\* nothing shared, so it is taken together with the query that follows it.
Probe(t) ==
  /\ pc[t] = "queued"
  /\ SlotFree
  /\ \E s \in Status, flag \in BOOLEAN :
       /\ ShouldPublish(is_up_for(s), flag)
       /\ status' = [status EXCEPT ![t] = s]
       /\ publish' = [publish EXCEPT ![t] = flag]
  /\ pc' = [pc EXCEPT ![t] = "probed"]
  /\ UNCHANGED <<dbVars, alertVars, published, attempt, sessVars>>

\* httpx.get raises an exception none of the three handlers names.
ProbeRaises(t) ==
  /\ "probe_raises" \in Faults
  /\ pc[t] = "queued"
  /\ SlotFree
  /\ End(t, "failed")
  /\ UNCHANGED <<dbVars, alertVars, published, attempt>>

\* The query for the active configs autoflushes the INSERT of the result row.
\* From here on the transaction shares a lock on the endpoint row.
InsertAndLoad(t) ==
  /\ pc[t] = "probed"
  /\ endpoint
  /\ todo' = [todo EXCEPT ![t] =
                {[config |-> c, threshold |-> config[c].threshold,
                  channel |-> config[c].channel] :
                   c \in {d \in Config : config[d].life = "live" /\ config[d].is_active}}]
  /\ pc' = [pc EXCEPT ![t] = "evaluating"]
  /\ UNCHANGED <<dbVars, alertVars, published, attempt, status, publish, old, new, flushed>>

\* The endpoint is gone: the INSERT violates its foreign key, no retry.
InsertFails(t) ==
  /\ pc[t] = "probed"
  /\ ~endpoint
  /\ End(t, "failed")
  /\ UNCHANGED <<dbVars, alertVars, published, attempt>>

\* One iteration of the loop, in any order of the configs (the query has no
\* ORDER BY). Its SELECT first autoflushes the row the previous iteration
\* modified, which takes that row's lock; it reads the committed state row
\* without locking it.
Evaluate(t, r) ==
  LET c  == r.config
      s  == alertstate[c]
      up == is_up_for(status[t])
  IN
  /\ pc[t] = "evaluating"
  /\ r \in todo[t]
  /\ CanFlush(t)
  /\ flushed' = [flushed EXCEPT ![t] = Dirty(t)]
  /\ todo' = [todo EXCEPT ![t] = @ \ {r}]
  /\ old' = [old EXCEPT ![t][c] = s]
  /\ new' = [new EXCEPT ![t][c] = NextState(up, s, r.threshold)]
  /\ IF AlertDue(up, s, r.threshold)
     THEN queue_alert([config |-> c, task |-> t, attempt |-> attempt[t],
                       kind |-> IF up THEN "recovery" ELSE "down",
                       channel |-> r.channel])
     ELSE UNCHANGED alertVars
  /\ UNCHANGED <<dbVars, published, pc, attempt, status, publish>>

\* The broker is unreachable when an alert is due: .delay() raises kombu's
\* OperationalError, which is not the SQLAlchemy one that is retried.
BrokerDown(t, r) ==
  /\ "broker_down" \in Faults
  /\ pc[t] = "evaluating"
  /\ r \in todo[t]
  /\ CanFlush(t)
  /\ AlertDue(is_up_for(status[t]), alertstate[r.config], r.threshold)
  /\ End(t, "failed")
  /\ UNCHANGED <<dbVars, alertVars, published, attempt>>

\* StaleDataError or IntegrityError at a flush: the user deleted the config
\* under the check. Neither is retried, and the result row goes with it.
FlushFails(t) ==
  /\ pc[t] = "evaluating"
  /\ \E c \in Pending(t) : ~LockedByOther(t, c) /\ ~WriteMatches(t, c)
  /\ End(t, "failed")
  /\ UNCHANGED <<dbVars, alertVars, published, attempt>>

\* What COMMIT makes visible.
ApplyWrites(t) ==
  /\ results' = Append(results, MyRow(t))
  /\ alertstate' = [c \in Config |-> IF c \in Dirty(t)
                                     THEN Written(alertstate[c], old[t][c], new[t][c])
                                     ELSE alertstate[c]]
  /\ UNCHANGED <<endpoint, config>>

ReadyToCommit(t) ==
  /\ pc[t] = "evaluating"
  /\ todo[t] = {}
  /\ CanFlush(t)

Commit(t) ==
  /\ ReadyToCommit(t)
  /\ ApplyWrites(t)
  /\ IF publish[t]
     THEN /\ pc' = [pc EXCEPT ![t] = "committed"]
          /\ CloseSession(t)
          /\ UNCHANGED <<status, publish>>
     ELSE End(t, "done")
  /\ UNCHANGED <<alertVars, published, attempt>>

\* The connection breaks after the server committed and before the client
\* hears of it: OperationalError, so the check is run again from the probe.
CommitUnknown(t) ==
  /\ "commit_unknown" \in Faults
  /\ ReadyToCommit(t)
  /\ ApplyWrites(t)
  /\ Retry(t)
  /\ UNCHANGED <<alertVars, published>>

\* Mutant: the state rows are committed one by one, ahead of the result row.
DbErrorKeepsState(t) ==
  /\ "db_error" \in Faults
  /\ pc[t] \in {"probed", "evaluating"}
  /\ alertstate' = [c \in Config |-> IF c \in Dirty(t)
                                     THEN Written(alertstate[c], old[t][c], new[t][c])
                                     ELSE alertstate[c]]
  /\ Retry(t)
  /\ UNCHANGED <<endpoint, results, config, alertVars, published>>

\* A statement raises OperationalError; the transaction is rolled back.
DbError(t) ==
  /\ "db_error" \in Faults
  /\ pc[t] \in {"probed", "evaluating"}
  /\ Retry(t)
  /\ UNCHANGED <<dbVars, alertVars, published>>

\* Two transactions that flush their rows in opposite orders wait for each
\* other. PostgreSQL cancels one with OperationalError.
Deadlocked(t) ==
  \E S \in SUBSET {u \in Task : pc[u] = "evaluating"} :
    /\ t \in S
    /\ \A u \in S : \E c \in Pending(u), v \in S \ {u} : c \in flushed[v]

\* Mutant: OperationalError is not retried.
DeadlockVictimFails(t) ==
  /\ pc[t] = "evaluating"
  /\ Deadlocked(t)
  /\ End(t, "failed")
  /\ UNCHANGED <<dbVars, alertVars, published, attempt>>

\* Mutant: the result is committed by itself, ahead of the alert states.
DeadlockVictimKeepsRow(t) ==
  /\ pc[t] = "evaluating"
  /\ Deadlocked(t)
  /\ results' = Append(results, MyRow(t))
  /\ Retry(t)
  /\ UNCHANGED <<endpoint, config, alertstate, alertVars, published>>

DeadlockVictim(t) ==
  /\ pc[t] = "evaluating"
  /\ Deadlocked(t)
  /\ Retry(t)
  /\ UNCHANGED <<dbVars, alertVars, published>>

\* Mutant: the status change is published before the commit.
PublishEarly(t) ==
  /\ pc[t] \in {"evaluating", "committed"}
  /\ publish[t]
  /\ published' = published \cup {MyRow(t)}
  /\ publish' = [publish EXCEPT ![t] = FALSE]
  /\ pc' = [pc EXCEPT ![t] = IF @ = "committed" THEN "done" ELSE @]
  /\ UNCHANGED <<dbVars, alertVars, attempt, status, sessVars>>

\* publish_status_change, after the commit. owner_id is never None here: a
\* check that read no owner found no endpoint, and its INSERT failed.
Publish(t) ==
  /\ pc[t] = "committed"
  /\ published' = published \cup {MyRow(t)}
  /\ End(t, "done")
  /\ UNCHANGED <<dbVars, alertVars, attempt>>

\* Its exceptions are logged and swallowed.
PublishFails(t) ==
  /\ "publish_lost" \in Faults
  /\ pc[t] = "committed"
  /\ End(t, "done")
  /\ UNCHANGED <<dbVars, alertVars, published, attempt>>

\* The process that runs the check dies; PostgreSQL rolls back its
\* transaction and nobody runs the check again.
CheckChildKilled(t) ==
  /\ "child_killed" \in Faults
  /\ pc[t] \in RunningCheck
  /\ End(t, "lost")
  /\ UNCHANGED <<dbVars, alertVars, published, attempt>>
=============================================================================
