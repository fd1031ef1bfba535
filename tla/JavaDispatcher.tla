---------------------------- MODULE JavaDispatcher ----------------------------
(***************************************************************************)
(* The Java dispatcher: JVMs that claim due endpoints from the same table  *)
(* as dispatch_due_checks, probe them on a bounded thread pool, and write  *)
(* the rows through a bounded connection pool. A fleet may mix JVMs with   *)
(* Celery dispatchers; a JVM's claim is a run of EndpointSchedule, so that *)
(* both see each other's row locks.                                        *)
(***************************************************************************)
EXTENDS EndpointSchedule, Sequences

CONSTANTS
  Jvm,            \* the dispatchers that are JVMs
  PoolSize,       \* probePoolSize
  QueueCapacity,  \* probeQueueCapacity
  ClaimBatch,     \* claimBatchSize
  BadUrl,         \* endpoints whose url the API accepts and java.net.http does not
  JvmFaults       \* what may go wrong in a JVM, see JvmFaultKind

JvmFaultKind ==
  { "db_error",     \* a connection or a statement fails
    "claim_unseen", \* the claim is committed, its answer is lost
    "stopped",      \* the JVM is told to stop
    "jvm_killed" }  \* it dies

ASSUME JvmAssumption == Jvm \subseteq Dispatcher /\ BadUrl \subseteq Endpoint
ASSUME PoolAssumption ==
  PoolSize \in Nat \ {0} /\ QueueCapacity \in Nat \ {0} /\ ClaimBatch \in Nat \ {0}
ASSUME JvmFaultsAssumption == JvmFaults \subseteq JvmFaultKind

VARIABLES
  jvm,     \* the dispatcher thread and the probe pool of every JVM
  probe,   \* every ProbeTask ever due, from its claim on
  passed   \* how many claims have left an endpoint to a later one (history)

javaVars == <<jvm, probe, passed>>
fleetVars == <<vars, javaVars>>

Ended == [stage |-> "ended", started |-> 0]

\* One claimed endpoint of one claim.
Probe == [claim: Claimed, by: Jvm, claimed_at: Time]

\* submitting: returned by claimDue; requesting, writing, inserting: on a pool
\* thread, without or with a connection; ended: with a row or, because the pool
\* was full, run() or insertResult threw or the JVM was gone, without.
ProbeStage == {"submitting", "queued", "requesting", "writing", "inserting", "ended"}

\* A row the claim's SELECT found, and the next_check_at it sorts by.
Candidate == [ep: Endpoint, at: Nat]

JvmState == [state: {"up", "draining", "down"}, ticking: BOOLEAN,
             todo: SUBSET Candidate, threads: 0..PoolSize, queue: Seq(Probe),
             backlog: 0..QueueCapacity]   \* queue length when the batch came (history)

Fresh == [state |-> "up", ticking |-> TRUE, todo |-> {}, threads |-> 0,
          queue |-> << >>, backlog |-> 0]

FleetTypeOK ==
  /\ TypeOK
  /\ jvm \in [Jvm -> JvmState]
  /\ DOMAIN probe \subseteq Probe
  /\ probe \in [DOMAIN probe -> [stage: ProbeStage, started: Time]]
  /\ passed \in [Endpoint -> Nat]

FleetInit ==
  /\ Init
  /\ jvm = [j \in Jvm |-> Fresh]
  /\ probe = << >>
  /\ passed = [e \in Endpoint |-> 0]

ProbesOf(j, stages) == {p \in DOMAIN probe : p.by = j /\ probe[p].stage \in stages}
Busy(j) == ProbesOf(j, {"requesting", "writing", "inserting"})

\* hikari.setMaximumPoolSize
ConnPool == PoolSize \div 2 + 2

ConnFree(j) ==
  Cardinality(ProbesOf(j, {"inserting"})) + (IF run[j].stage = "claiming" THEN 1 ELSE 0) < ConnPool

\* A change of its row ends the wait of an endpoint.
KeepPassed == passed' = [e \in Endpoint |-> IF ep'[e] = ep[e] THEN passed[e] ELSE 0]
-----------------------------------------------------------------------------
(* Dispatcher.run and EndpointRepository.claimDue *)

\* The scheduler runs the tick and CLAIM_SQL finds the rows that are due.
BeginTick(j) ==
  /\ jvm[j].ticking
  /\ run[j].stage = "idle"
  /\ ConnFree(j)
  /\ run' = [run EXCEPT ![j] = [NoRun EXCEPT !.stage = "claiming", !.probe_time = now, !.now = now]]
  /\ jvm' = [jvm EXCEPT ![j].todo =
               {[ep |-> e, at |-> ep[e].next_check_at] : e \in {f \in Endpoint : Due(f, now)}}]
  /\ lastRun' = now
  /\ UNCHANGED <<now, ep, queued, results, lost, probe, passed>>

\* Mutant: the rows come in no particular order.
AnyOrder(j, c) == c \in jvm[j].todo

\* ORDER BY next_check_at, as the snapshot shows it.
Oldest(j, c) == \A d \in jvm[j].todo : c.at <= d.at

\* Mutant: no LIMIT.
NoLimit(j) == TRUE

\* LIMIT ?
BatchOpen(j) == Cardinality(run[j].rows) < ClaimBatch

\* Mutant: a row that changed while the claim ran is not looked at again.
LockUnchecked(j, e) == ~RowLocked(e)

\* FOR UPDATE SKIP LOCKED: nobody holds the row, and its newest version is due.
Lockable(j, e) == ~RowLocked(e) /\ Due(e, run[j].now)

\* The claim comes to its next row and takes or skips it.
LockRow(j, c) ==
  /\ run[j].stage = "claiming"
  /\ c \in jvm[j].todo
  /\ Oldest(j, c)
  /\ BatchOpen(j)
  /\ jvm' = [jvm EXCEPT ![j].todo = @ \ {c}]
  /\ run' = IF Lockable(j, c.ep)
            THEN [run EXCEPT ![j].rows = @ \cup {[ep |-> c.ep, interval |-> ep[c.ep].interval,
                                                  gen |-> ep[c.ep].gen]}]
            ELSE run
  /\ UNCHANGED <<now, ep, lastRun, queued, results, lost, probe, passed>>

\* SET next_check_at, in every row the claim holds.
Rescheduled(j) ==
  [e \in Endpoint |-> IF RowsFor(j, e) # {}
                      THEN [ep[e] EXCEPT !.next_check_at = run[j].now + ep[e].interval]
                      ELSE ep[e]]

\* The probes with the ones of the claim added, at the given stage.
WithClaim(j, probes, stage) ==
  LET new == {[claim |-> r, by |-> j, claimed_at |-> run[j].now] : r \in run[j].rows} IN
  [p \in new \cup DOMAIN probes |->
     IF p \in DOMAIN probes THEN probes[p] ELSE stage]

\* The claim has all its rows.
ClaimFull(j) == run[j].stage = "claiming" /\ (jvm[j].todo = {} \/ ~BatchOpen(j))

\* The UPDATE is committed. Rows beyond the LIMIT are left to a later claim.
CommitRows(j, stage) ==
  /\ ep' = Rescheduled(j)
  /\ probe' = WithClaim(j, probe, stage)
  /\ passed' = [e \in Endpoint |->
                  CASE ep'[e] # ep[e] -> 0
                    [] /\ ep'[e] = ep[e] /\ Lockable(j, e)
                       /\ \E c \in jvm[j].todo : c.ep = e     -> passed[e] + 1
                    [] OTHER -> passed[e]]

EndClaim(j) ==
  /\ ClaimFull(j)
  /\ CommitRows(j, [stage |-> "submitting", started |-> 0])
  /\ jvm' = [jvm EXCEPT ![j].todo = {}, ![j].backlog = Len(jvm[j].queue)]
  /\ run' = [run EXCEPT ![j] = IF run[j].rows = {} THEN NoRun
                                ELSE [run[j] EXCEPT !.stage = "enqueuing"]]
  /\ UNCHANGED <<now, lastRun, queued, results, lost>>

\* Mutant: the exception leaves run() and cancels the periodic task.
TickCancelled(j) == jvm' = [jvm EXCEPT ![j].todo = {}, ![j].ticking = FALSE]

\* claimDue throws and run() catches: the schedule goes on.
TickCaught(j) == jvm' = [jvm EXCEPT ![j].todo = {}]

\* claimDue throws: the statement fails and is undone, or it is done and its
\* answer lost. (A tick that gets no connection in time changes nothing.)
TickFails(j) ==
  /\ run' = [run EXCEPT ![j] = NoRun]
  /\ TickCaught(j)
  /\ \/ /\ "db_error" \in JvmFaults
        /\ run[j].stage = "claiming"
        /\ UNCHANGED <<ep, probe, passed>>
     \/ /\ "claim_unseen" \in JvmFaults
        /\ ClaimFull(j)
        /\ CommitRows(j, Ended)
  /\ UNCHANGED <<now, lastRun, queued, results, lost>>
-----------------------------------------------------------------------------
(* ThreadPoolExecutor *)

\* Moves a probe to a stage, together with the change of its JVM.
Becomes(p, stage) == probe' = [probe EXCEPT ![p].stage = stage]
Ends(p) == probe' = [probe EXCEPT ![p] = Ended]
Starts(p) == probe' = [probe EXCEPT ![p] = [stage |-> "requesting", started |-> now]]

\* Mutant: one thread too many.
SpareThreadLax(j) == jvm[j].threads <= PoolSize

SpareThread(j) == jvm[j].threads < PoolSize

\* probePool.execute: a new thread while there are fewer than PoolSize, idle
\* ones or not, else the queue, else (or after pool.shutdown) a rejection.
Submit(j, r) ==
  LET p == [claim |-> r, by |-> j, claimed_at |-> run[j].now] IN
  /\ run[j].stage = "enqueuing"
  /\ r \in run[j].rows
  /\ \/ /\ jvm[j].state = "up"
        /\ SpareThread(j)
        /\ jvm' = [jvm EXCEPT ![j].threads = @ + 1]
        /\ Starts(p)
     \/ /\ jvm[j].state = "up"
        /\ ~SpareThread(j)
        /\ Len(jvm[j].queue) < QueueCapacity
        /\ jvm' = [jvm EXCEPT ![j].queue = Append(@, p)]
        /\ Becomes(p, "queued")
     \/ /\ \/ jvm[j].state = "draining"
           \/ ~SpareThread(j) /\ Len(jvm[j].queue) = QueueCapacity
        /\ Ends(p)
        /\ UNCHANGED jvm
  /\ run' = [run EXCEPT ![j] = IF run[j].rows = {r} THEN NoRun
                                ELSE [run[j] EXCEPT !.rows = @ \ {r}]]
  /\ UNCHANGED <<now, ep, lastRun, queued, results, lost, passed>>

\* An idle thread takes the head of the queue and run() notes the time.
Take(j) ==
  /\ jvm[j].queue # << >>
  /\ Cardinality(Busy(j)) < jvm[j].threads
  /\ Starts(Head(jvm[j].queue))
  /\ jvm' = [jvm EXCEPT ![j].queue = Tail(@)]
  /\ UNCHANGED <<vars, passed>>
-----------------------------------------------------------------------------
(* ProbeTask.run and EndpointRepository.insertResult *)

\* Mutant: no timeout on the request, and one endpoint never answers.
MeasureUntimed(p) ==
  /\ probe[p].stage = "requesting"
  /\ p.claim.ep \notin BadUrl
  /\ p.claim.ep # CHOOSE e \in Endpoint \ BadUrl : TRUE
  /\ Becomes(p, "writing")
  /\ UNCHANGED <<vars, jvm, passed>>

\* An answer, a timeout or an IOException: all are measurements.
Measure(p) ==
  /\ probe[p].stage = "requesting"
  /\ p.claim.ep \notin BadUrl
  /\ Becomes(p, "writing")
  /\ UNCHANGED <<vars, jvm, passed>>

\* URI.create or the request builder throws an IllegalArgumentException, which
\* nothing catches; the pool replaces the thread.
Escape(p) ==
  /\ probe[p].stage = "requesting"
  /\ p.claim.ep \in BadUrl
  /\ Ends(p)
  /\ UNCHANGED <<vars, jvm, passed>>

Borrow(p) ==
  /\ probe[p].stage = "writing"
  /\ ConnFree(p.by)
  /\ Becomes(p, "inserting")
  /\ UNCHANGED <<vars, jvm, passed>>

\* The row of a probe: dated with the start of its run().
RowOf(p) == [claim |-> p.claim, by |-> p.by, checked_at |-> probe[p].started,
             claimed_at |-> p.claimed_at]

\* The rows after the INSERT: without one if the foreign key says that the endpoint
\* is gone.
Inserted(p) ==
  IF ep[p.claim.ep].life = "live" THEN results \cup {RowOf(p)} ELSE results

insertResult(p) ==
  /\ probe[p].stage = "inserting"
  /\ results' = Inserted(p)
  /\ Ends(p)
  /\ UNCHANGED <<now, ep, run, lastRun, queued, lost, jvm, passed>>

\* insertResult throws, which is logged: no connection in time, or an error; if it is
\* only the answer that is lost, the row is there.
InsertFails(p) ==
  /\ \/ /\ probe[p].stage = "writing"
        /\ "db_error" \in JvmFaults \/ ~ConnFree(p.by)
        /\ UNCHANGED results
     \/ /\ probe[p].stage = "inserting"
        /\ "db_error" \in JvmFaults
        /\ results' \in {results, Inserted(p)}
  /\ Ends(p)
  /\ UNCHANGED <<now, ep, run, lastRun, queued, lost, jvm, passed>>
-----------------------------------------------------------------------------
(* DispatcherApp *)

\* The shutdown hook: no further tick, no further probe; the queue drains.
Shutdown(j) ==
  /\ "stopped" \in JvmFaults
  /\ jvm[j].state = "up"
  /\ jvm' = [jvm EXCEPT ![j].state = "draining", ![j].ticking = FALSE]
  /\ UNCHANGED <<vars, probe, passed>>

\* The pool is empty, or ten seconds are over and shutdownNow drops the queue
\* and interrupts the requests, or the JVM is killed. An INSERT or a claim that
\* is under way may still be done by the server, and nobody waits for the tick.
Exit(j) ==
  /\ jvm[j].state = "draining" \/ (jvm[j].state = "up" /\ "jvm_killed" \in JvmFaults)
  /\ \E done \in SUBSET {p \in ProbesOf(j, {"inserting"}) : ep[p.claim.ep].life = "live"} :
       LET swept == [p \in DOMAIN probe |-> IF p.by = j THEN Ended ELSE probe[p]] IN
         /\ results' = results \cup {RowOf(p) : p \in done}
         /\ \/ ClaimFull(j) /\ ep' = Rescheduled(j) /\ probe' = WithClaim(j, swept, Ended)
            \/ UNCHANGED ep /\ probe' = swept
  /\ run' = [run EXCEPT ![j] = NoRun]
  /\ jvm' = [jvm EXCEPT ![j] = [Fresh EXCEPT !.state = "down", !.ticking = FALSE]]
  /\ KeepPassed
  /\ UNCHANGED <<now, lastRun, queued, lost>>

\* Somebody starts the program again.
main(j) ==
  /\ jvm[j].state = "down"
  /\ jvm' = [jvm EXCEPT ![j] = Fresh]
  /\ UNCHANGED <<vars, probe, passed>>
-----------------------------------------------------------------------------
TickStep(j) ==
  \/ BeginTick(j)
  \/ \E c \in jvm[j].todo : LockRow(j, c)
  \/ EndClaim(j)
  \/ \E r \in run[j].rows : Submit(j, r)

PoolStep(j) ==
  \/ Take(j)
  \/ \E p \in Busy(j) : Measure(p) \/ Escape(p) \/ Borrow(p) \/ insertResult(p)

JvmStep(j) ==
  \/ TickStep(j)
  \/ PoolStep(j)
  \/ TickFails(j)
  \/ \E p \in Busy(j) : InsertFails(p)
  \/ Shutdown(j)
  \/ Exit(j)
  \/ main(j)

\* Everything that is not a JVM: the clock, Celery dispatchers and their
\* checks, the users and the purge.
OtherStep ==
  /\ \/ Advance
     \/ \E d \in Dispatcher \ Jvm : Start(d)
     \/ \E d \in Running \ Jvm : RunStep(d)
     \/ \E k \in queued : Record(k) \/ CheckLost(k)
     \/ UserStep
     \/ purge_old_results
  /\ KeepPassed
  /\ UNCHANGED <<jvm, probe>>

FleetNext == (\E j \in Jvm : JvmStep(j)) \/ OtherStep

FleetSpec == FleetInit /\ [][FleetNext]_fleetVars

\* The scheduler and the pool threads of a JVM run; HttpClient and PostgreSQL answer.
FleetFairness == \A j \in Jvm : WF_fleetVars(TickStep(j)) /\ WF_fleetVars(PoolStep(j))

FairFleetSpec == FleetSpec /\ FleetFairness
-----------------------------------------------------------------------------
(* Safety *)

\* Whoever claimed, a probe or a check.
FleetClaims ==
  DOMAIN probe \cup {[claim |-> k.claim, by |-> k.by, claimed_at |-> k.claimed_at] : k \in Claims}

\* JVMs that skip locked rows and Celery runs that wait for them share the table
\* without checking an endpoint twice within one interval, unless the user
\* rescheduled it in between.
FleetClaimsSpaced ==
  \A j, k \in FleetClaims :
    (j.claim.ep = k.claim.ep /\ j.claim.gen = k.claim.gen /\ j # k) => Spaced(j, k)

\* LIMIT does not starve: an endpoint that is due is left to a later claim at
\* most as often as the other endpoints fill a batch.
NoStarvation == \A e \in Endpoint : passed[e] <= (Cardinality(Endpoint) - 1) \div ClaimBatch

\* In this step, a JVM that is up gets a RejectedExecutionException.
Rejects(j) ==
  /\ jvm[j].state = "up" /\ jvm'[j].state = "up"
  /\ \E p \in ProbesOf(j, {"submitting"}) : probe'[p].stage = "ended"

\* A batch that fits behind what is queued when it arrives is not rejected,
\* however slowly the pool threads wake up.
FittingBatchAccepted ==
  [][\A j \in Jvm :
       Rejects(j) => jvm[j].backlog + ClaimBatch > QueueCapacity]_fleetVars

\* "A full pool throws RejectedExecutionException ... the monitor was saturated":
\* while the JVM is up, a probe is rejected only when every thread is busy.
RejectedOnlyWhenFull ==
  [][\A j \in Jvm :
       Rejects(j) => Cardinality(Busy(j)) = PoolSize]_fleetVars
-----------------------------------------------------------------------------
(* Liveness *)

\* A tick that fails is followed by another, as long as the JVM is up.
KeepsTicking ==
  \A j \in Jvm :
    (jvm[j].state = "up") ~> (run[j].stage = "claiming" \/ jvm[j].state # "up")

\* No claimed probe is stuck in the queue, on a thread or behind the connection
\* pool, whichever of them fail: every JVM comes to rest again (the clock is
\* bounded, so that no tick keeps it busy for ever).
EveryProbeEnds ==
  \A j \in Jvm : []<>(ProbesOf(j, ProbeStage \ {"ended"}) = {})
=============================================================================
