---------------------------- MODULE AlertSettings ----------------------------
(***************************************************************************)
(* What a user can do to the alerts of the endpoint through the API, and   *)
(* the removal of the endpoint itself. Every route is one transaction; the *)
(* reads it starts with only decide between it and a 404.                  *)
(***************************************************************************)
EXTENDS MonitorDb

\* POST /endpoints/{id}/alerts: the config and its state row, one commit.
add_alert(c, threshold, channel, is_active) ==
  /\ "add" \in UserActions
  /\ endpoint
  /\ config[c].life = "unborn"
  /\ config' = [config EXCEPT ![c] = [life |-> "live", threshold |-> threshold,
                                      channel |-> channel, is_active |-> is_active]]
  /\ alertstate' = [alertstate EXCEPT ![c] = FreshRow]
  /\ UNCHANGED <<endpoint, results, alertVars, published, taskVars>>

\* PATCH /endpoints/{id}/alerts/{id}: any of the columns, the state row is
\* left alone. "pause" is the use that changes is_active.
update_alert(c, threshold, channel, is_active) ==
  /\ "update" \in UserActions
  /\ is_active # config[c].is_active => "pause" \in UserActions
  /\ config[c].life = "live"
  /\ config' = [config EXCEPT ![c] = [life |-> "live", threshold |-> threshold,
                                      channel |-> channel, is_active |-> is_active]]
  /\ UNCHANGED <<endpoint, results, alertstate, alertVars, published, taskVars>>

\* DELETE /endpoints/{id}/alerts/{id}: cascades to the state row, and waits
\* for a check that has written to it.
delete_alert(c) ==
  /\ "delete" \in UserActions
  /\ config[c].life = "live"
  /\ ~Locked(c)
  /\ config' = [config EXCEPT ![c].life = "deleted"]
  /\ alertstate' = [alertstate EXCEPT ![c] = NoRow]
  /\ UNCHANGED <<endpoint, results, alertVars, published, taskVars>>

\* DELETE /endpoints/{id}: cascades to results, configs and state rows, and
\* waits for every check that has inserted its result.
delete_endpoint ==
  /\ "delete_endpoint" \in UserActions
  /\ endpoint
  /\ \A t \in Task : pc[t] # "evaluating"
  /\ endpoint' = FALSE
  /\ results' = <<>>
  /\ config' = [c \in Config |-> IF config[c].life = "live"
                                 THEN [config[c] EXCEPT !.life = "deleted"] ELSE config[c]]
  /\ alertstate' = [c \in Config |-> NoRow]
  /\ UNCHANGED <<alertVars, published, taskVars>>
=============================================================================
