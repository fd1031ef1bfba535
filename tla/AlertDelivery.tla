---------------------------- MODULE AlertDelivery ----------------------------
(***************************************************************************)
(* The send tasks of app/alerts.py: send_email_alert, send_webhook_alert   *)
(* and the task_failure handler that clears alert_sent when a down alert   *)
(* is given up. acks_late: a message is acknowledged when its task ends,   *)
(* so a worker that dies with it gets it again.                            *)
(***************************************************************************)
EXTENDS MonitorDb

Stages(S) == {a \in alerts : delivery[a].stage \in S}

\* Alert a moves to stage s; told records whether the user's server took it.
Move(a, s, told) ==
  /\ delivery' = [delivery EXCEPT ![a].stage = s, ![a].told = @ \/ told]
  /\ UNCHANGED alerts

StartSend(a) ==
  /\ a \in Stages({"queued"})
  /\ SlotFree
  /\ Move(a, "sending", FALSE)
  /\ UNCHANGED <<dbVars, published, taskVars>>

\* The SMTP server or the webhook accepts; the task returns and is acked.
SendOk(a) ==
  /\ a \in Stages({"sending"})
  /\ Move(a, "completed", TRUE)
  /\ UNCHANGED <<dbVars, published, taskVars>>

\* A webhook answers with a 3xx or 4xx other than 429: raise_for_status
\* raises, the handler logs "webhook_rejected" and returns normally. The
\* task succeeded as far as Celery knows.
WebhookRejected(a) ==
  /\ a \in Stages({"sending"})
  /\ a.channel = "webhook"
  /\ Move(a, "completed", FALSE)
  /\ UNCHANGED <<dbVars, published, taskVars>>

\* Mutant: max_retries=None.
SendErrorForever(a, told) ==
  /\ "send_error" \in Faults
  /\ a \in Stages({"sending"})
  /\ Move(a, "queued", told)
  /\ UNCHANGED <<dbVars, published, taskVars>>

\* A retried exception: OSError and its subclasses, which are all of
\* smtplib's, or httpx's RequestError and 5xx or 429. The server may have
\* taken the message before the connection broke (told). Out of retries the
\* exception propagates and task_failure fires.
SendError(a, told) ==
  LET again == delivery[a].retries < AlertRetries IN
  /\ "send_error" \in Faults
  /\ a \in Stages({"sending"})
  /\ delivery' = [delivery EXCEPT
       ![a].stage = IF again THEN "queued" ELSE "failing",
       ![a].retries = IF again THEN @ + 1 ELSE @,
       ![a].told = @ \/ told]
  /\ UNCHANGED <<dbVars, alerts, published, taskVars>>

\* Any other exception (a target no message or URL can be built from).
SendFatal(a) ==
  /\ "send_fatal" \in Faults
  /\ a \in Stages({"sending"})
  /\ Move(a, "failing", FALSE)
  /\ UNCHANGED <<dbVars, published, taskVars>>

\* The process that runs the task dies. task_reject_on_worker_lost is off, so
\* the parent acknowledges the message and runs the failure handler itself.
AlertChildKilled(a, told) ==
  /\ "child_killed" \in Faults
  /\ a \in Stages({"sending", "failing"})
  /\ Move(a, "orphaned", told)
  /\ UNCHANGED <<dbVars, published, taskVars>>

\* Mutant: the flag stays set when the alert is given up.
mark_nothing(c) == UNCHANGED alertstate

\* Mutant: the UPDATE lacks its config_id.
mark_all(c) ==
  /\ \A d \in Config : alertstate[d].sent => ~Locked(d)
  /\ alertstate' = [d \in Config |-> [alertstate[d] EXCEPT !.sent = FALSE]]

\* mark_alert_undelivered. The UPDATE looks at committed rows first: one with
\* alert_sent false is skipped without waiting for its lock.
mark_alert_undelivered(c) ==
  /\ alertstate[c].sent => ~Locked(c)
  /\ alertstate' = [alertstate EXCEPT ![c].sent = FALSE]

\* Mutant: the wrong kind of alert clears the flag.
handle_recovery_exhausted(a) ==
  /\ a \in Stages({"failing", "orphaned"})
  /\ IF a.kind = "recovery" THEN mark_alert_undelivered(a.config) ELSE UNCHANGED alertstate
  /\ Move(a, "given_up", FALSE)
  /\ UNCHANGED <<endpoint, results, config, published, taskVars>>

\* The handler: a recovery is only counted, a down alert clears the flag.
handle_alert_exhausted(a) ==
  /\ a \in Stages({"failing", "orphaned"})
  /\ IF a.kind = "down" THEN mark_alert_undelivered(a.config) ELSE UNCHANGED alertstate
  /\ Move(a, "given_up", FALSE)
  /\ UNCHANGED <<endpoint, results, config, published, taskVars>>

\* The handler fails on the database; Celery logs and swallows what a signal
\* receiver raises.
HandlerError(a) ==
  /\ "handler_error" \in Faults
  /\ a \in Stages({"failing", "orphaned"})
  /\ a.kind = "down"
  /\ Move(a, "given_up", FALSE)
  /\ UNCHANGED <<dbVars, published, taskVars>>
=============================================================================
