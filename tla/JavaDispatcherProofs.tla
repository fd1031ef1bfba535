------------------------- MODULE JavaDispatcherProofs -------------------------
(***************************************************************************)
(* Proofs about JavaDispatcher: type correctness, the spacing of claims in *)
(* a fleet of JVMs and Celery dispatchers, the admission of batches that   *)
(* fit, and the bound on how often LIMIT passes an endpoint over.          *)
(***************************************************************************)
EXTENDS JavaDispatcher, EndpointScheduleProofs, SequenceTheorems

-----------------------------------------------------------------------------
(* Types *)

\* What is queued never exceeds the capacity of the queue, so that its length
\* may be noted as a backlog.
QueueBounded == \A j \in Jvm : Len(jvm[j].queue) <= QueueCapacity

FleetTypes == FleetTypeOK /\ QueueBounded

\* The values JVM and probes start from, and their parts.
LEMMA FleetValues ==
  ASSUME FleetTypes
  PROVE  /\ Fresh \in JvmState /\ Ended \in [stage: ProbeStage, started: Time]
         /\ Jvm \subseteq Dispatcher
         /\ \A j \in Jvm : /\ jvm[j] \in JvmState /\ jvm[j].queue \in Seq(Probe)
                           /\ Len(jvm[j].queue) \in Nat /\ jvm[j].backlog \in Nat
                           /\ jvm[j].threads \in Nat
                           /\ run[j] \in Run /\ run[j].now \in Time
         /\ \A p \in DOMAIN probe : /\ p \in Probe
                                    /\ probe[p] \in [stage: ProbeStage, started: Time]
<1>1. Fresh \in JvmState
  BY PoolAssumption, EmptySeq DEF Fresh, JvmState
<1>2. Ended \in [stage: ProbeStage, started: Time]
  BY InitialTypes DEF Ended, ProbeStage
<1>3. \A j \in Jvm : jvm[j] \in JvmState /\ run[j] \in Run
  BY JvmAssumption DEF FleetTypes, FleetTypeOK, TypeOK
<1>4. \A j \in Jvm : /\ jvm[j].queue \in Seq(Probe) /\ jvm[j].threads \in Nat
                     /\ jvm[j].backlog \in Nat /\ run[j].now \in Time
  BY <1>3, PoolAssumption DEF JvmState, Run
<1>5. \A j \in Jvm : Len(jvm[j].queue) \in Nat
  BY <1>4, LenProperties
<1>6. \A p \in DOMAIN probe : /\ p \in Probe
                              /\ probe[p] \in [stage: ProbeStage, started: Time]
  BY DEF FleetTypes, FleetTypeOK
<1> QED BY <1>1, <1>2, <1>3, <1>4, <1>5, <1>6, JvmAssumption

\* The record of a JVM after a change of it, and of all of them.
LEMMA JvmSet ==
  ASSUME FleetTypes, NEW j \in Jvm, NEW s \in JvmState, Len(s.queue) <= QueueCapacity,
         jvm' = [jvm EXCEPT ![j] = s]
  PROVE  jvm' \in [Jvm -> JvmState] /\ QueueBounded'
  BY DEF FleetTypes, FleetTypeOK, QueueBounded

\* A probe that moves on keeps the probes well typed.
LEMMA ProbeSet ==
  ASSUME FleetTypes, NEW p, NEW s \in [stage: ProbeStage, started: Time],
         probe' = [probe EXCEPT ![p] = s]
  PROVE  /\ DOMAIN probe' = DOMAIN probe
         /\ probe' \in [DOMAIN probe' -> [stage: ProbeStage, started: Time]]
  BY DEF FleetTypes, FleetTypeOK

\* The ways in which the actions move a probe.
LEMMA ProbeMoves ==
  ASSUME FleetTypes, NEW p \in DOMAIN probe, NEW stage \in ProbeStage,
         Becomes(p, stage) \/ Ends(p) \/ Starts(p)
  PROVE  /\ DOMAIN probe' = DOMAIN probe
         /\ probe' \in [DOMAIN probe' -> [stage: ProbeStage, started: Time]]
<1>1. CASE Becomes(p, stage)
  <2>1. probe[p] \in [stage: ProbeStage, started: Time]
    BY FleetValues
  <2>2. [probe[p] EXCEPT !.stage = stage] \in [stage: ProbeStage, started: Time]
    BY <2>1
  <2>3. probe' = [probe EXCEPT ![p] = [probe[p] EXCEPT !.stage = stage]]
    BY <1>1 DEF Becomes
  <2> QED BY <2>2, <2>3, ProbeSet
<1>2. CASE Ends(p)
  BY <1>2, FleetValues, ProbeSet DEF Ends
<1>3. CASE Starts(p)
  <2>1. [stage |-> "requesting", started |-> now] \in [stage: ProbeStage, started: Time]
    BY DEF FleetTypes, FleetTypeOK, TypeOK, ProbeStage
  <2> QED BY <1>3, <2>1, ProbeSet DEF Starts
<1> QED BY <1>1, <1>2, <1>3

\* A commit adds the probes of its rows.
LEMMA ProbesAdded ==
  ASSUME FleetTypes, NEW j \in Jvm, NEW s \in [stage: ProbeStage, started: Time],
         NEW probes, DOMAIN probes = DOMAIN probe,
         \A p \in DOMAIN probe : probes[p] \in [stage: ProbeStage, started: Time],
         probe' = WithClaim(j, probes, s)
  PROVE  /\ DOMAIN probe' = DOMAIN probe \cup
              {[claim |-> r, by |-> j, claimed_at |-> run[j].now] : r \in run[j].rows}
         /\ DOMAIN probe' \subseteq Probe
         /\ probe' \in [DOMAIN probe' -> [stage: ProbeStage, started: Time]]
<1> DEFINE new == {[claim |-> r, by |-> j, claimed_at |-> run[j].now] : r \in run[j].rows}
<1>1. probe' = [p \in new \cup DOMAIN probes |-> IF p \in DOMAIN probes THEN probes[p] ELSE s]
  BY DEF WithClaim
<1>2. new \subseteq Probe
  BY FleetValues DEF Run, Probe
<1>3. DOMAIN probe \subseteq Probe
  BY FleetValues
<1> QED BY <1>1, <1>2, <1>3

\* A commit leaves well-typed rows.
LEMMA RescheduledType ==
  ASSUME TypeOK, NEW d \in Dispatcher
  PROVE  Rescheduled(d) \in [Endpoint -> EndpointRow]
<1>1. \A e \in Endpoint : run[d].now + ep[e].interval \in Nat
  BY ClockTypes
<1>2. \A e \in Endpoint : /\ ep[e] \in EndpointRow
                          /\ [ep[e] EXCEPT !.next_check_at = run[d].now + ep[e].interval]
                               \in EndpointRow
  BY <1>1 DEF TypeOK, EndpointRow
<1> QED BY <1>2 DEF Rescheduled

\* Ticks keep the types.
LEMMA TypeTick ==
  ASSUME FleetTypes, NEW j \in Jvm, TickStep(j)
  PROVE  FleetTypes'
<1>0. jvm[j] \in JvmState /\ run[j] \in Run /\ jvm[j].queue \in Seq(Probe)
      /\ Len(jvm[j].queue) \in Nat /\ Len(jvm[j].queue) <= QueueCapacity /\ j \in Dispatcher
  BY FleetValues DEF FleetTypes, QueueBounded
<1> USE DEF FleetTypes, FleetTypeOK
<1>1. CASE BeginTick(j)
  <2>1. TypeOK'
    <3>1. [NoRun EXCEPT !.stage = "claiming", !.probe_time = now, !.now = now] \in Run
      BY InitialTypes DEF TypeOK, Run, NoRun
    <3> QED BY <1>0, <1>1, <3>1 DEF BeginTick, TypeOK
  <2> DEFINE todo == {[ep |-> e, at |-> ep[e].next_check_at] : e \in {f \in Endpoint : Due(f, now)}}
  <2>2. todo \subseteq Candidate
    BY DEF TypeOK, EndpointRow, Candidate
  <2>3. /\ [jvm[j] EXCEPT !.todo = todo] \in JvmState
        /\ [jvm[j] EXCEPT !.todo = todo].queue = jvm[j].queue
    BY <1>0, <2>2 DEF JvmState
  <2>4. jvm' = [jvm EXCEPT ![j] = [jvm[j] EXCEPT !.todo = todo]]
    BY <1>1 DEF BeginTick
  <2>5. jvm' \in [Jvm -> JvmState] /\ QueueBounded'
    <3> HIDE DEF todo
    <3> QED BY <1>0, <2>3, <2>4, JvmSet
  <2> QED BY <1>1, <2>1, <2>5 DEF BeginTick
<1>2. ASSUME NEW c \in jvm[j].todo, LockRow(j, c)
      PROVE  FleetTypes'
  <2>1. c.ep \in Endpoint
    BY <1>0 DEF JvmState, Candidate
  <2>2. [ep |-> c.ep, interval |-> ep[c.ep].interval, gen |-> ep[c.ep].gen] \in Claimed
    BY <2>1 DEF TypeOK, EndpointRow, Claimed
  <2>3. TypeOK'
    BY <1>0, <1>2, <2>2 DEF LockRow, TypeOK, Run
  <2> DEFINE s == [jvm[j] EXCEPT !.todo = jvm[j].todo \ {c}]
  <2>4. s \in JvmState /\ s.queue = jvm[j].queue
    BY <1>0 DEF JvmState
  <2>5. jvm' = [jvm EXCEPT ![j] = s]
    BY <1>2 DEF LockRow
  <2>6. jvm' \in [Jvm -> JvmState] /\ QueueBounded'
    <3> HIDE DEF s
    <3> QED BY <1>0, <2>4, <2>5, JvmSet
  <2> QED BY <1>2, <2>3, <2>6 DEF LockRow
<1>3. CASE EndClaim(j)
  <2>1. TypeOK'
    <3>1. ep' \in [Endpoint -> EndpointRow]
      BY <1>0, <1>3, RescheduledType DEF EndClaim, CommitRows
    <3>2. run' \in [Dispatcher -> Run]
      BY <1>0, <1>3, InitialTypes DEF EndClaim, TypeOK, Run
    <3> QED BY <1>3, <3>1, <3>2 DEF EndClaim, TypeOK
  <2> DEFINE s == [jvm[j] EXCEPT !.todo = {}, !.backlog = Len(jvm[j].queue)]
  <2>2. s \in JvmState /\ s.queue = jvm[j].queue
    <3>1. Len(jvm[j].queue) \in 0..QueueCapacity
      BY <1>0, PoolAssumption
    <3> QED BY <1>0, <3>1 DEF JvmState
  <2>3. jvm' = [jvm EXCEPT ![j] = s]
    BY <1>3 DEF EndClaim
  <2>4. jvm' \in [Jvm -> JvmState] /\ QueueBounded'
    <3> HIDE DEF s
    <3> QED BY <1>0, <2>2, <2>3, JvmSet
  <2> DEFINE first == [stage |-> "submitting", started |-> 0]
  <2>5. first \in [stage: ProbeStage, started: Time]
    BY InitialTypes DEF ProbeStage
  <2>6. probe' = WithClaim(j, probe, first)
    BY <1>3 DEF EndClaim, CommitRows
  <2>7. /\ DOMAIN probe' \subseteq Probe
        /\ probe' \in [DOMAIN probe' -> [stage: ProbeStage, started: Time]]
    <3> HIDE DEF first
    <3> QED BY <2>5, <2>6, ProbesAdded, FleetValues
  <2>8. passed' \in [Endpoint -> Nat]
    BY <1>3 DEF EndClaim, CommitRows
  <2> QED BY <2>1, <2>4, <2>7, <2>8
<1>4. ASSUME NEW r \in run[j].rows, Submit(j, r)
      PROVE  FleetTypes'
  <2> DEFINE p == [claim |-> r, by |-> j, claimed_at |-> run[j].now]
  <2>1. TypeOK' /\ passed' \in [Endpoint -> Nat]
    BY <1>0, <1>4, InitialTypes DEF Submit, TypeOK, Run
  <2>2. p \in Probe
    BY <1>0 DEF Run, Probe
  <2>3. /\ DOMAIN probe' = DOMAIN probe
        /\ probe' \in [DOMAIN probe' -> [stage: ProbeStage, started: Time]]
    <3>1. Starts(p) \/ Becomes(p, "queued") \/ Ends(p)
      BY <1>4 DEF Submit
    <3>2. CASE p \in DOMAIN probe
      <4> HIDE DEF p
      <4> QED BY <3>1, <3>2, ProbeMoves DEF ProbeStage
    <3>3. CASE p \notin DOMAIN probe
      BY <3>1, <3>3 DEF Starts, Becomes, Ends
    <3> QED BY <3>2, <3>3
  <2>4. jvm' \in [Jvm -> JvmState] /\ QueueBounded'
    <3>1. CASE jvm' = [jvm EXCEPT ![j].threads = @ + 1] /\ SpareThread(j)
      <4> DEFINE s == [jvm[j] EXCEPT !.threads = jvm[j].threads + 1]
      <4>1. s \in JvmState /\ s.queue = jvm[j].queue
        <5>1. jvm[j].threads \in 0..PoolSize
          BY <1>0 DEF JvmState
        <5>2. jvm[j].threads + 1 \in 0..PoolSize
          BY <3>1, <5>1, PoolAssumption DEF SpareThread
        <5> QED BY <1>0, <5>2 DEF JvmState
      <4>2. jvm' = [jvm EXCEPT ![j] = s]
        BY <3>1
      <4> HIDE DEF s
      <4> QED BY <1>0, <4>1, <4>2, JvmSet
    <3>2. CASE jvm' = [jvm EXCEPT ![j].queue = Append(@, p)] /\ Len(jvm[j].queue) < QueueCapacity
      <4> DEFINE s == [jvm[j] EXCEPT !.queue = Append(jvm[j].queue, p)]
      <4>1. /\ Append(jvm[j].queue, p) \in Seq(Probe)
            /\ Len(Append(jvm[j].queue, p)) = Len(jvm[j].queue) + 1
        BY <1>0, <2>2, AppendProperties
      <4>2. s \in JvmState /\ s.queue = Append(jvm[j].queue, p)
        BY <1>0, <4>1 DEF JvmState
      <4>3. Len(s.queue) <= QueueCapacity
        BY <1>0, <3>2, <4>1, <4>2, PoolAssumption
      <4>4. jvm' = [jvm EXCEPT ![j] = s]
        BY <3>2
      <4> HIDE DEF s
      <4> QED BY <4>2, <4>3, <4>4, JvmSet
    <3>3. CASE UNCHANGED jvm
      BY <3>3 DEF QueueBounded
    <3> QED BY <1>4, <3>1, <3>2, <3>3 DEF Submit
  <2> QED BY <2>1, <2>3, <2>4
<1> QED BY <1>1, <1>2, <1>3, <1>4 DEF TickStep

\* The result row of a probe is a check.
LEMMA RowOfType ==
  ASSUME FleetTypes, NEW p \in DOMAIN probe
  PROVE  RowOf(p) \in Check
<1>1. p \in Probe /\ probe[p].started \in Time
  BY FleetValues
<1> QED BY <1>1, JvmAssumption DEF RowOf, Probe, Check

\* The pool keeps the types.
LEMMA TypePool ==
  ASSUME FleetTypes, NEW j \in Jvm,
         PoolStep(j) \/ \E p \in Busy(j) : InsertFails(p)
  PROVE  FleetTypes'
<1>0. jvm[j] \in JvmState /\ jvm[j].queue \in Seq(Probe)
      /\ Len(jvm[j].queue) \in Nat /\ Len(jvm[j].queue) <= QueueCapacity
  BY FleetValues DEF FleetTypes, QueueBounded
<1>1. CASE Take(j)
  <2> DEFINE q == jvm[j].queue
             s == [jvm[j] EXCEPT !.queue = Tail(q)]
  <2>1. q # << >>
    BY <1>1 DEF Take
  <2>2. Tail(q) \in Seq(Probe) /\ Len(Tail(q)) = Len(q) - 1
    BY <1>0, <2>1, HeadTailProperties
  <2>3. s \in JvmState /\ s.queue = Tail(q)
    BY <1>0, <2>2 DEF JvmState
  <2>4. Len(s.queue) <= QueueCapacity
    BY <1>0, <2>2, <2>3, PoolAssumption
  <2>5. jvm' = [jvm EXCEPT ![j] = s]
    BY <1>1 DEF Take
  <2>6. jvm' \in [Jvm -> JvmState] /\ QueueBounded'
    <3> HIDE DEF s, q
    <3> QED BY <2>3, <2>4, <2>5, JvmSet
  <2>7. /\ DOMAIN probe' = DOMAIN probe
        /\ probe' \in [DOMAIN probe' -> [stage: ProbeStage, started: Time]]
    <3>1. CASE Head(q) \in DOMAIN probe
      BY <1>1, <3>1, ProbeMoves DEF Take, ProbeStage
    <3>2. CASE Head(q) \notin DOMAIN probe
      BY <1>1, <3>2 DEF Take, Starts, FleetTypes, FleetTypeOK
    <3> QED BY <3>1, <3>2
  <2> QED BY <1>1, <2>6, <2>7 DEF Take, vars, FleetTypes, FleetTypeOK, TypeOK
<1>2. ASSUME NEW p \in Busy(j),
             Measure(p) \/ Escape(p) \/ Borrow(p) \/ insertResult(p) \/ InsertFails(p)
      PROVE  FleetTypes'
  <2>0. p \in DOMAIN probe
    BY DEF Busy, ProbesOf
  <2>1. Becomes(p, "writing") \/ Becomes(p, "inserting") \/ Ends(p)
    BY <1>2 DEF Measure, Escape, Borrow, insertResult, InsertFails
  <2>2. /\ DOMAIN probe' = DOMAIN probe
        /\ probe' \in [DOMAIN probe' -> [stage: ProbeStage, started: Time]]
    BY <2>0, <2>1, ProbeMoves DEF ProbeStage
  <2>3. TypeOK' /\ UNCHANGED <<jvm, passed>>
    <3>1. /\ UNCHANGED <<now, ep, run, lastRun, queued, lost, jvm, passed>>
          /\ results' = results \/ results' = results \cup {RowOf(p)}
      BY <1>2 DEF Measure, Escape, Borrow, insertResult, InsertFails, Inserted, vars
    <3> QED BY <2>0, <3>1, RowOfType DEF FleetTypes, FleetTypeOK, TypeOK
  <2> QED BY <2>2, <2>3 DEF FleetTypes, FleetTypeOK, QueueBounded
<1> QED BY <1>1, <1>2 DEF PoolStep

\* A tick that fails keeps the types.
LEMMA TypeTickFails ==
  ASSUME FleetTypes, NEW j \in Jvm, TickFails(j)
  PROVE  FleetTypes'
<1>0. jvm[j] \in JvmState /\ Len(jvm[j].queue) <= QueueCapacity /\ j \in Dispatcher
  BY FleetValues DEF FleetTypes, QueueBounded
<1> DEFINE s == [jvm[j] EXCEPT !.todo = {}]
<1>1. s \in JvmState /\ s.queue = jvm[j].queue
  BY <1>0 DEF JvmState
<1>2. jvm' = [jvm EXCEPT ![j] = s]
  BY DEF TickFails, TickCaught
<1>3. jvm' \in [Jvm -> JvmState] /\ QueueBounded'
  <2> HIDE DEF s
  <2> QED BY <1>0, <1>1, <1>2, JvmSet
<1>4. run' \in [Dispatcher -> Run] /\ UNCHANGED <<now, lastRun, queued, results, lost>>
  BY InitialTypes DEF TickFails, FleetTypes, FleetTypeOK, TypeOK
<1>5. CASE UNCHANGED <<ep, probe, passed>>
  BY <1>3, <1>4, <1>5 DEF FleetTypes, FleetTypeOK, TypeOK
<1>6. CASE CommitRows(j, Ended)
  <2>1. ep' \in [Endpoint -> EndpointRow] /\ passed' \in [Endpoint -> Nat]
    <3>1. TypeOK /\ passed \in [Endpoint -> Nat]
      BY DEF FleetTypes, FleetTypeOK
    <3> QED BY <1>0, <1>6, <3>1, RescheduledType DEF CommitRows
  <2>2. /\ DOMAIN probe' \subseteq Probe
        /\ probe' \in [DOMAIN probe' -> [stage: ProbeStage, started: Time]]
    BY <1>6, FleetValues, ProbesAdded DEF CommitRows
  <2> QED BY <1>3, <1>4, <2>1, <2>2 DEF FleetTypes, FleetTypeOK, TypeOK
<1> QED BY <1>5, <1>6 DEF TickFails

\* Start and end of the program keep the types.
LEMMA TypeApp ==
  ASSUME FleetTypes, NEW j \in Jvm, Shutdown(j) \/ Exit(j) \/ main(j)
  PROVE  FleetTypes'
<1>0. jvm[j] \in JvmState /\ Len(jvm[j].queue) <= QueueCapacity /\ j \in Dispatcher
  BY FleetValues DEF FleetTypes, QueueBounded
<1>1. CASE Shutdown(j)
  <2> DEFINE s == [jvm[j] EXCEPT !.state = "draining", !.ticking = FALSE]
  <2>1. s \in JvmState /\ s.queue = jvm[j].queue
    BY <1>0 DEF JvmState
  <2>2. jvm' = [jvm EXCEPT ![j] = s]
    BY <1>1 DEF Shutdown
  <2>3. jvm' \in [Jvm -> JvmState] /\ QueueBounded'
    <3> HIDE DEF s
    <3> QED BY <1>0, <2>1, <2>2, JvmSet
  <2> QED BY <1>1, <2>3 DEF Shutdown, FleetTypes, FleetTypeOK, TypeOK, vars
<1>2. ASSUME NEW s \in {Fresh, [Fresh EXCEPT !.state = "down", !.ticking = FALSE]},
             jvm' = [jvm EXCEPT ![j] = s]
      PROVE  jvm' \in [Jvm -> JvmState] /\ QueueBounded'
  <2>1. s \in JvmState /\ s.queue = << >>
    <3>1. Fresh \in JvmState /\ Fresh.queue = << >>
      BY FleetValues DEF Fresh
    <3> QED BY <3>1 DEF JvmState
  <2>2. Len(s.queue) <= QueueCapacity
    BY <2>1, PoolAssumption
  <2> QED BY <1>2, <2>1, <2>2, JvmSet
<1>3. CASE main(j)
  BY <1>2, <1>3 DEF main, FleetTypes, FleetTypeOK, TypeOK, vars
<1>4. CASE Exit(j)
  <2>1. jvm' \in [Jvm -> JvmState] /\ QueueBounded'
    BY <1>2, <1>4 DEF Exit
  <2>2. passed' \in [Endpoint -> Nat]
    BY <1>4 DEF Exit, KeepPassed, FleetTypes, FleetTypeOK
  <2>3. run' \in [Dispatcher -> Run] /\ UNCHANGED <<now, lastRun, queued, lost>>
    BY <1>4, InitialTypes DEF Exit, FleetTypes, FleetTypeOK, TypeOK
  <2> DEFINE swept == [p \in DOMAIN probe |-> IF p.by = j THEN Ended ELSE probe[p]]
  <2>4. PICK done \in SUBSET {p \in ProbesOf(j, {"inserting"}) : ep[p.claim.ep].life = "live"} :
          /\ results' = results \cup {RowOf(p) : p \in done}
          /\ \/ ClaimFull(j) /\ ep' = Rescheduled(j) /\ probe' = WithClaim(j, swept, Ended)
             \/ UNCHANGED ep /\ probe' = swept
    BY <1>4 DEF Exit
  <2>5. results' \subseteq Check
    <3>1. done \subseteq DOMAIN probe
      BY DEF ProbesOf
    <3> QED BY <2>4, <3>1, RowOfType DEF FleetTypes, FleetTypeOK, TypeOK
  <2>6. ep' \in [Endpoint -> EndpointRow]
    BY <1>0, <2>4, RescheduledType DEF FleetTypes, FleetTypeOK, TypeOK
  <2>7. /\ DOMAIN swept = DOMAIN probe
        /\ \A p \in DOMAIN probe : swept[p] \in [stage: ProbeStage, started: Time]
    BY FleetValues
  <2>8. /\ DOMAIN probe' \subseteq Probe
        /\ probe' \in [DOMAIN probe' -> [stage: ProbeStage, started: Time]]
    <3>1. CASE probe' = swept
      BY <2>7, <3>1, FleetValues
    <3>2. CASE probe' = WithClaim(j, swept, Ended)
      <4> HIDE DEF swept
      <4> QED BY <2>7, <3>2, FleetValues, ProbesAdded
    <3> QED BY <2>4, <3>1, <3>2
  <2> QED BY <2>1, <2>2, <2>3, <2>5, <2>6, <2>8 DEF FleetTypes, FleetTypeOK, TypeOK
<1> QED BY <1>1, <1>3, <1>4

\* What is not a JVM takes steps of EndpointSchedule.
LEMMA OtherIsNext == OtherStep => Next
  BY DEF OtherStep, Next

\* Every step of the fleet keeps the types.
LEMMA FleetTypesStep == FleetTypes /\ [FleetNext]_fleetVars => FleetTypes'
<1> SUFFICES ASSUME FleetTypes, [FleetNext]_fleetVars PROVE FleetTypes'
  OBVIOUS
<1>1. ASSUME NEW j \in Jvm, JvmStep(j) PROVE FleetTypes'
  BY <1>1, TypeTick, TypePool, TypeTickFails, TypeApp DEF JvmStep
<1>2. CASE OtherStep
  <2>1. TypeOK'
    BY <1>2, OtherIsNext, TypeStep DEF FleetTypes, FleetTypeOK
  <2>2. passed' \in [Endpoint -> Nat]
    BY <1>2 DEF OtherStep, KeepPassed, FleetTypes, FleetTypeOK
  <2>3. UNCHANGED <<jvm, probe>>
    BY <1>2 DEF OtherStep
  <2> QED BY <2>1, <2>2, <2>3 DEF FleetTypes, FleetTypeOK, QueueBounded
<1>3. CASE UNCHANGED fleetVars
  BY <1>3 DEF fleetVars, vars, javaVars, FleetTypes, FleetTypeOK, QueueBounded, TypeOK
<1> QED BY <1>1, <1>2, <1>3 DEF FleetNext

\* The invariant of the types.
LEMMA FleetTypesInv == FleetSpec => []FleetTypes
<1>1. FleetInit => FleetTypes
  <2> SUFFICES ASSUME FleetInit PROVE FleetTypes
    OBVIOUS
  <2>1. TypeOK
    BY InitialTypes DEF FleetInit, Init, TypeOK
  <2>2. Fresh \in JvmState /\ Len(Fresh.queue) <= QueueCapacity
    BY PoolAssumption, EmptySeq DEF Fresh, JvmState
  <2>3. jvm \in [Jvm -> JvmState] /\ QueueBounded
    BY <2>2 DEF FleetInit, QueueBounded
  <2>4. DOMAIN probe \subseteq Probe /\ probe \in [DOMAIN probe -> [stage: ProbeStage, started: Time]]
    BY DEF FleetInit
  <2> QED BY <2>1, <2>3, <2>4 DEF FleetInit, FleetTypes, FleetTypeOK
<1> QED BY <1>1, FleetTypesStep, PTL DEF FleetSpec

\* Every reachable state of the fleet is well typed: no thread beyond the pool
\* size, no batch that finds more queued than the queue holds, no row dated
\* outside the clock, whatever fails, stops or dies.
THEOREM FleetIsTyped == FleetSpec => []FleetTypeOK
<1>1. FleetTypes => FleetTypeOK
  BY DEF FleetTypes
<1> QED BY <1>1, FleetTypesInv, PTL
-----------------------------------------------------------------------------
(* The spacing of claims in a mixed fleet. A claim is the same claim while  *)
(* it is a row in the hands of a run, a check or a probe: ViewOf. The       *)
(* invariant is that of EndpointSchedule, over these.                       *)

View == [claim: Claimed, by: Dispatcher, claimed_at: Time]

ViewOf(d, r) == [claim |-> r, by |-> d, claimed_at |-> run[d].now]

\* v is claimed and committed: a probe, a check, or still in the hands of the
\* run that claimed it.
IsHeld(v) ==
  \/ v \in FleetClaims
  \/ \E d \in Dispatcher : run[d].stage = "enqueuing" /\ \E r \in run[d].rows : v = ViewOf(d, r)

\* Only a run past its snapshot has rows, at most one per endpoint.
UniqueRows ==
  \A d \in Dispatcher :
    /\ run[d].stage \in {"idle", "started"} => run[d].rows = {}
    /\ \A r, s \in run[d].rows : r.ep = s.ep => r = s

\* A claim made under the present settings has moved next_check_at a full
\* interval beyond it.
HeldInv ==
  \A v \in View : IsHeld(v) =>
    /\ ep[v.claim.ep].life # "unborn"
    /\ v.claim.gen <= ep[v.claim.ep].gen
    /\ v.claim.gen = ep[v.claim.ep].gen
         => v.claimed_at + v.claim.interval <= ep[v.claim.ep].next_check_at

ApartInv ==
  \A v, w \in View :
    (IsHeld(v) /\ IsHeld(w) /\ v.claim.ep = w.claim.ep
       /\ v.claim.gen = w.claim.gen /\ v # w) => Spaced(v, w)

FleetSpacing == UniqueRows /\ LockInv /\ HeldInv /\ ApartInv

\* Numbers inside a claim.
LEMMA ViewTypes ==
  ASSUME NEW v \in View
  PROVE  /\ v.claimed_at \in Nat /\ v.claim.gen \in Nat
         /\ v.claim.interval \in Nat /\ v.claim.interval >= 1
         /\ v.claim.ep \in Endpoint /\ v.claim \in Claimed
<1>1. Time \subseteq Nat /\ 0..MaxReschedules \subseteq Nat
  BY TimesAssumption DEF Time
<1>2. \A i \in Interval : i \in Nat /\ i >= 1
  BY IntervalAssumption
<1>3. v.claim \in Claimed /\ v.claimed_at \in Time
  BY DEF View
<1>4. /\ v.claim.ep \in Endpoint /\ v.claim.interval \in Interval
      /\ v.claim.gen \in 0..MaxReschedules
  BY <1>3 DEF Claimed
<1> QED BY <1>1, <1>2, <1>3, <1>4, Zenon

\* A step that makes no claim and changes no endpoint keeps the claims apart.
LEMMA HeldKept ==
  ASSUME HeldInv, ApartInv, ep' = ep, \A v \in View : IsHeld(v)' => IsHeld(v)
  PROVE  HeldInv' /\ ApartInv'
  BY DEF HeldInv, ApartInv, Spaced

\* A step in which no run gets a row keeps the locks.
LEMMA LocksKept ==
  ASSUME UniqueRows, LockInv, ep' = ep,
         \A d \in Dispatcher :
           \/ run'[d] = run[d]
           \/ run'[d].rows = {}
           \/ /\ run'[d].rows \subseteq run[d].rows
              /\ run'[d].stage = run[d].stage /\ run'[d].now = run[d].now
  PROVE  UniqueRows' /\ LockInv'
<1>1. UniqueRows'
  BY DEF UniqueRows
<1>2. LockInv'
  BY DEF LockInv
<1> QED BY <1>1, <1>2

\* A run locks one more row: nobody else has it, and it is due.
LEMMA RowLock ==
  ASSUME TypeOK, UniqueRows, LockInv, ep' = ep, NEW d \in Dispatcher, NEW e \in Endpoint,
         ~RowLocked(e), Due(e, run[d].now), run[d].stage = "claiming",
         run'[d].stage = "claiming", run'[d].now = run[d].now,
         run'[d].rows = run[d].rows \cup {[ep |-> e, interval |-> ep[e].interval, gen |-> ep[e].gen]},
         \A c \in Dispatcher \ {d} : run'[c] = run[c]
  PROVE  UniqueRows' /\ LockInv'
<1> DEFINE r0 == [ep |-> e, interval |-> ep[e].interval, gen |-> ep[e].gen]
<1>1. \A c \in Dispatcher : run[c].stage = "claiming" => \A s \in run[c].rows : s.ep # e
  BY DEF RowLocked
<1>2. r0.ep = e /\ r0.gen = ep[e].gen /\ r0.interval = ep[e].interval
  OBVIOUS
<1>3. UniqueRows'
  BY <1>1, <1>2 DEF UniqueRows
<1>4. ep[e].life = "live" /\ ep[e].next_check_at <= run[d].now
  BY DEF Due
<1>5. LockInv'
  BY <1>1, <1>2, <1>4 DEF LockInv
<1> QED BY <1>3, <1>5

\* What the claim's UPDATE does to the rows.
LEMMA RescheduledRows ==
  ASSUME TypeOK, NEW d \in Dispatcher, ep' = Rescheduled(d)
  PROVE  \A e \in Endpoint :
           /\ ep'[e].life = ep[e].life /\ ep'[e].gen = ep[e].gen
           /\ ep'[e].interval = ep[e].interval
           /\ RowsFor(d, e) # {} => ep'[e].next_check_at = run[d].now + ep[e].interval
           /\ RowsFor(d, e) = {} => ep'[e] = ep[e]
  BY DEF Rescheduled, TypeOK, EndpointRow

\* A locked row only moves on.
LEMMA RescheduledLater ==
  ASSUME TypeOK, LockInv, NEW d \in Dispatcher, run[d].stage = "claiming", ep' = Rescheduled(d)
  PROVE  \A e \in Endpoint : ep'[e].next_check_at >= ep[e].next_check_at
<1> SUFFICES ASSUME NEW e \in Endpoint PROVE ep'[e].next_check_at >= ep[e].next_check_at
  OBVIOUS
<1>1. CASE RowsFor(d, e) = {}
  BY <1>1, RescheduledRows, ClockTypes
<1>2. CASE RowsFor(d, e) # {}
  <2>1. ep[e].next_check_at <= run[d].now
    BY <1>2 DEF RowsFor, LockInv
  <2> QED BY <1>2, <2>1, RescheduledRows, ClockTypes
<1> QED BY <1>1, <1>2

\* A claim commits, whoever makes it and whatever becomes of its run: every row
\* was due at the run's now(), so that earlier claims lie an interval back.
LEMMA CommitSpaced ==
  ASSUME TypeOK, FleetSpacing, NEW d \in Dispatcher, run[d].stage = "claiming",
         ep' = Rescheduled(d),
         \A c \in Dispatcher \ {d} : run'[c] = run[c],
         \/ run'[d] = NoRun
         \/ run'[d].stage = "enqueuing" /\ run'[d].rows = run[d].rows,
         \A v \in View : IsHeld(v)' => IsHeld(v) \/ \E r \in run[d].rows : v = ViewOf(d, r)
  PROVE  FleetSpacing'
<1> USE DEF FleetSpacing
<1> DEFINE New(v) == \E r \in run[d].rows : v = ViewOf(d, r)
<1>1. UniqueRows'
  BY DEF UniqueRows, NoRun
<1>2. LockInv'
  <2> SUFFICES ASSUME NEW c \in Dispatcher, run'[c].stage = "claiming", NEW r \in run'[c].rows
               PROVE  /\ ep'[r.ep].life = "live" /\ r.gen = ep'[r.ep].gen
                      /\ r.interval = ep'[r.ep].interval
                      /\ ep'[r.ep].next_check_at <= run'[c].now
                      /\ \A b \in Dispatcher \ {c} : run'[b].stage = "claiming" =>
                           \A s \in run'[b].rows : s.ep # r.ep
    BY DEF LockInv
  <2>1. c # d /\ run'[c] = run[c]
    BY DEF NoRun
  <2>2. r.ep \in Endpoint
    BY <2>1 DEF TypeOK, Run, Claimed
  <2>3. RowsFor(d, r.ep) = {}
    BY <2>1 DEF LockInv, RowsFor
  <2>4. \A b \in Dispatcher : run'[b].stage = "claiming" => run'[b] = run[b]
    BY DEF NoRun
  <2> QED BY <2>1, <2>2, <2>3, <2>4, RescheduledRows DEF LockInv
<1>3. \A v \in View : New(v) =>
        /\ ep[v.claim.ep].life = "live" /\ v.claim.gen = ep[v.claim.ep].gen
        /\ v.claim.interval = ep[v.claim.ep].interval
        /\ v.claimed_at = run[d].now /\ ep[v.claim.ep].next_check_at <= run[d].now
        /\ RowsFor(d, v.claim.ep) # {}
  BY DEF ViewOf, LockInv, RowsFor
<1>4. HeldInv'
  <2> SUFFICES ASSUME NEW v \in View, IsHeld(v)'
               PROVE  /\ ep'[v.claim.ep].life # "unborn"
                      /\ v.claim.gen <= ep'[v.claim.ep].gen
                      /\ v.claim.gen = ep'[v.claim.ep].gen
                           => v.claimed_at + v.claim.interval <= ep'[v.claim.ep].next_check_at
    BY DEF HeldInv
  <2>0. /\ ep'[v.claim.ep].life = ep[v.claim.ep].life
        /\ ep'[v.claim.ep].gen = ep[v.claim.ep].gen
        /\ ep'[v.claim.ep].next_check_at >= ep[v.claim.ep].next_check_at
        /\ ep'[v.claim.ep].next_check_at \in Nat
    <3>1. ep'[v.claim.ep] \in EndpointRow
      BY ViewTypes, RescheduledType
    <3> QED BY <3>1, ViewTypes, RescheduledRows, RescheduledLater DEF EndpointRow
  <2>1. CASE IsHeld(v)
    BY <2>0, <2>1, ViewTypes, ClockTypes DEF HeldInv
  <2>2. CASE New(v)
    <3>1. ep'[v.claim.ep].next_check_at = run[d].now + ep[v.claim.ep].interval
      BY <1>3, <2>2, ViewTypes, RescheduledRows
    <3> QED BY <1>3, <2>0, <2>2, <3>1, ViewTypes, ClockTypes
  <2> QED BY <2>1, <2>2
<1>5. \A v, w \in View : (IsHeld(v) /\ New(w) /\ v.claim.ep = w.claim.ep
                            /\ v.claim.gen = w.claim.gen) => Spaced(v, w) /\ Spaced(w, v)
  <2> SUFFICES ASSUME NEW v \in View, NEW w \in View, IsHeld(v), New(w),
                      v.claim.ep = w.claim.ep, v.claim.gen = w.claim.gen
               PROVE  Spaced(v, w) /\ Spaced(w, v)
    OBVIOUS
  <2>1. v.claimed_at + v.claim.interval <= ep[v.claim.ep].next_check_at
    BY <1>3 DEF HeldInv
  <2>2. ep[w.claim.ep].next_check_at <= w.claimed_at
    BY <1>3
  <2>3. v.claimed_at + v.claim.interval <= w.claimed_at
    BY <2>1, <2>2, ViewTypes, ClockTypes
  <2> QED BY <2>3 DEF Spaced
<1>6. \A v, w \in View : (New(v) /\ New(w) /\ v.claim.ep = w.claim.ep) => v = w
  BY DEF ViewOf, UniqueRows
<1>7. ApartInv'
  BY <1>5, <1>6 DEF ApartInv, Spaced
<1> QED BY <1>1, <1>2, <1>4, <1>7

\* A step of the user keeps the claims apart.
LEMMA UserSpaced ==
  ASSUME TypeOK, FleetSpacing, UserStep, probe' = probe
  PROVE  FleetSpacing'
<1> USE DEF FleetSpacing
<1>1. UNCHANGED <<run, queued, lost>> /\ results' \subseteq results
  BY UserTouches
<1>2. PICK e \in Endpoint : Touched(e)
  BY UserTouches
<1>3. \A v \in View : IsHeld(v)' => IsHeld(v)
  BY <1>1 DEF IsHeld, FleetClaims, Claims, ViewOf
<1>4. UniqueRows'
  BY <1>1 DEF UniqueRows
<1>5. LockInv'
  <2>1. \A d \in Dispatcher : run[d].stage = "claiming" => \A r \in run[d].rows : r.ep # e
    BY <1>2 DEF Touched, RowLocked, LockInv
  <2>2. \A d \in Dispatcher : \A r \in run[d].rows : r.ep \in Endpoint
    BY DEF TypeOK, Run, Claimed
  <2> QED BY <1>1, <1>2, <2>1, <2>2 DEF Touched, LockInv
<1>6. HeldInv'
  <2> SUFFICES ASSUME NEW v \in View, IsHeld(v)
               PROVE  /\ ep'[v.claim.ep].life # "unborn"
                      /\ v.claim.gen <= ep'[v.claim.ep].gen
                      /\ v.claim.gen = ep'[v.claim.ep].gen
                           => v.claimed_at + v.claim.interval <= ep'[v.claim.ep].next_check_at
    BY <1>3 DEF HeldInv
  <2> QED BY <1>2, ViewTypes, ClockTypes DEF Touched, HeldInv
<1>7. ApartInv'
  BY <1>3 DEF ApartInv, Spaced
<1> QED BY <1>4, <1>5, <1>6, <1>7

\* The claim a check stands for.
ClaimOf(k) == [claim |-> k.claim, by |-> k.by, claimed_at |-> k.claimed_at]

\* What is not a JVM keeps the claims apart.
LEMMA OtherSpaced ==
  ASSUME TypeOK, FleetSpacing, OtherStep
  PROVE  FleetSpacing'
<1> USE DEF FleetSpacing
<1>0. probe' = probe
  BY DEF OtherStep
<1>1. ASSUME NEW d \in Dispatcher, Start(d) \/ BeginClaim(d)
      PROVE  FleetSpacing'
  <2>1. /\ ep' = ep /\ \A c \in Dispatcher \ {d} : run'[c] = run[c]
        /\ run'[d].rows = {} /\ run'[d].stage # "enqueuing"
        /\ UNCHANGED <<queued, results, lost>>
    <3>1. CASE Start(d)
      BY <3>1 DEF Start, NoRun, TypeOK
    <3>2. CASE BeginClaim(d)
      <4>1. run[d].rows = {}
        BY <3>2 DEF BeginClaim, UniqueRows
      <4> QED BY <3>2, <4>1 DEF BeginClaim, TypeOK, Run
    <3> QED BY <1>1, <3>1, <3>2
  <2>2. \A v \in View : IsHeld(v)' => IsHeld(v)
    BY <1>0, <2>1 DEF IsHeld, FleetClaims, Claims, ViewOf
  <2>3. UniqueRows' /\ LockInv'
    BY <2>1, LocksKept
  <2> QED BY <2>1, <2>2, <2>3, HeldKept
<1>2. ASSUME NEW d \in Dispatcher, NEW e \in Endpoint, ClaimRow(d, e)
      PROVE  FleetSpacing'
  <2>1. /\ ep' = ep /\ \A c \in Dispatcher \ {d} : run'[c] = run[c]
        /\ run[d].stage = "claiming" /\ run'[d].stage = "claiming"
        /\ run'[d].now = run[d].now /\ ~RowLocked(e)
        /\ UNCHANGED <<queued, results, lost>>
    BY <1>2 DEF ClaimRow, TypeOK, Run
  <2>2. \/ run'[d].rows = run[d].rows
        \/ /\ Due(e, run[d].now)
           /\ run'[d].rows = run[d].rows \cup
                {[ep |-> e, interval |-> ep[e].interval, gen |-> ep[e].gen]}
    BY <1>2 DEF ClaimRow, TypeOK, Run
  <2>3. \A v \in View : IsHeld(v)' => IsHeld(v)
    BY <1>0, <2>1 DEF IsHeld, FleetClaims, Claims, ViewOf
  <2>4. UniqueRows' /\ LockInv'
    <3>1. CASE run'[d].rows = run[d].rows
      BY <2>1, <3>1, LocksKept
    <3>2. CASE run'[d].rows # run[d].rows
      BY <2>1, <2>2, <3>2, RowLock
    <3> QED BY <3>1, <3>2
  <2> QED BY <2>1, <2>3, <2>4, HeldKept
<1>3. ASSUME NEW d \in Dispatcher, CommitClaim(d)
      PROVE  FleetSpacing'
  <2>1. /\ run[d].stage = "claiming" /\ ep' = Rescheduled(d)
        /\ \A c \in Dispatcher \ {d} : run'[c] = run[c]
        /\ UNCHANGED <<queued, results, lost>>
        /\ \/ run'[d] = NoRun
           \/ run'[d].stage = "enqueuing" /\ run'[d].rows = run[d].rows /\ run'[d].now = run[d].now
    BY <1>3 DEF CommitClaim, Rescheduled, TypeOK, Run
  <2>2. \A v \in View : IsHeld(v)' => IsHeld(v) \/ \E r \in run[d].rows : v = ViewOf(d, r)
    BY <1>0, <2>1 DEF IsHeld, FleetClaims, Claims, ViewOf, NoRun
  <2> QED BY <2>1, <2>2, CommitSpaced
<1>4. ASSUME NEW d \in Dispatcher, RunKilled(d) \/ \E r \in run[d].rows : Enqueue(d, r)
      PROVE  FleetSpacing'
  <2>1. /\ ep' = ep /\ UNCHANGED results
        /\ \A c \in Dispatcher \ {d} : run'[c] = run[c]
        /\ \/ run'[d] = NoRun
           \/ /\ run'[d].stage = run[d].stage /\ run'[d].rows \subseteq run[d].rows
              /\ run'[d].now = run[d].now
        /\ \A k \in queued' \cup lost' :
             \/ k \in queued \cup lost
             \/ run[d].stage = "enqueuing" /\ \E r \in run[d].rows : k = CheckFor(d, r)
    <3>1. ASSUME NEW r \in run[d].rows, Enqueue(d, r)
          PROVE  <2>1!:
      BY <3>1 DEF Enqueue, TypeOK, Run
    <3>2. CASE RunKilled(d)
      BY <3>2 DEF RunKilled, TypeOK
    <3> QED BY <1>4, <3>1, <3>2
  <2>2. \A v \in View : IsHeld(v)' => IsHeld(v)
    <3>1. \A k \in Claims' : \/ k \in Claims
                             \/ /\ run[d].stage = "enqueuing"
                                /\ \E r \in run[d].rows : k = CheckFor(d, r)
      BY <2>1 DEF Claims
    <3>2. \A r \in run[d].rows : ClaimOf(CheckFor(d, r)) = ViewOf(d, r)
      BY DEF ClaimOf, CheckFor, ViewOf
    <3>3. \A v \in View : v \in FleetClaims' => IsHeld(v)
      BY <1>0, <3>1, <3>2 DEF FleetClaims, IsHeld, ClaimOf
    <3>4. ASSUME NEW v \in View, NEW c \in Dispatcher, run'[c].stage = "enqueuing",
                 NEW r \in run'[c].rows, v = ViewOf(c, r)'
          PROVE  IsHeld(v)
      <4>1. run[c].stage = "enqueuing" /\ r \in run[c].rows /\ v = ViewOf(c, r)
        BY <2>1, <3>4 DEF ViewOf, NoRun
      <4> QED BY <4>1 DEF IsHeld
    <3> QED BY <3>3, <3>4 DEF IsHeld
  <2>3. UniqueRows' /\ LockInv'
    BY <2>1, LocksKept DEF NoRun
  <2> QED BY <2>1, <2>2, <2>3, HeldKept
<1>5. CASE \/ Advance
           \/ \E k \in queued : Record(k) \/ CheckLost(k)
           \/ purge_old_results
  <2>1. run' = run /\ ep' = ep /\ Claims' \subseteq Claims
    BY <1>5 DEF Advance, Record, CheckLost, purge_old_results, Claims
  <2>2. \A v \in View : IsHeld(v)' => IsHeld(v)
    BY <1>0, <2>1 DEF IsHeld, FleetClaims, ViewOf
  <2>3. UniqueRows' /\ LockInv'
    BY <2>1, LocksKept
  <2> QED BY <2>1, <2>2, <2>3, HeldKept
<1>6. CASE UserStep
  BY <1>0, <1>6, UserSpaced
<1>7. \A d \in Dispatcher : RunStep(d) =>
        \/ BeginClaim(d) \/ CommitClaim(d) \/ RunKilled(d)
        \/ \E e \in Endpoint : ClaimRow(d, e)
        \/ \E r \in run[d].rows : Enqueue(d, r)
  BY DEF RunStep
<1> QED BY <1>1, <1>2, <1>3, <1>4, <1>5, <1>6, <1>7 DEF OtherStep, Running

\* The claims a commit adds as probes are those of its rows.
LEMMA CommitHeld ==
  ASSUME FleetTypes, NEW j \in Jvm, run[j].stage = "claiming",
         NEW s \in [stage: ProbeStage, started: Time],
         NEW probes, DOMAIN probes = DOMAIN probe,
         \A p \in DOMAIN probe : probes[p] \in [stage: ProbeStage, started: Time],
         probe' = WithClaim(j, probes, s),
         \A k \in Claims' : k \in Claims \/ ClaimOf(k) \in DOMAIN probe,
         \A c \in Dispatcher \ {j} : run'[c] = run[c],
         \/ run'[j] = NoRun
         \/ run'[j].rows = run[j].rows /\ run'[j].now = run[j].now
  PROVE  \A v \in View : IsHeld(v)' => IsHeld(v) \/ \E r \in run[j].rows : v = ViewOf(j, r)
<1>1. \A v \in DOMAIN probe' : v \in DOMAIN probe \/ \E r \in run[j].rows : v = ViewOf(j, r)
  <2>1. DOMAIN probe' = DOMAIN probe \cup
          {[claim |-> r, by |-> j, claimed_at |-> run[j].now] : r \in run[j].rows}
    BY ProbesAdded
  <2> QED BY <2>1 DEF ViewOf
<1>2. \A v \in FleetClaims' : v \in FleetClaims \/ \E r \in run[j].rows : v = ViewOf(j, r)
  BY <1>1 DEF FleetClaims, ClaimOf
<1>3. \A c \in Dispatcher : run'[c].stage = "enqueuing" =>
        \A r \in run'[c].rows :
          /\ ViewOf(c, r)' = ViewOf(c, r) /\ r \in run[c].rows
          /\ c = j \/ run[c].stage = "enqueuing"
  BY DEF ViewOf, NoRun
<1> QED BY <1>2, <1>3 DEF IsHeld

\* Steps of a JVM keep the claims apart.
LEMMA JvmSpaced ==
  ASSUME FleetTypes, FleetSpacing, NEW j \in Jvm, JvmStep(j)
  PROVE  FleetSpacing'
<1> USE DEF FleetSpacing
<1>0. TypeOK /\ j \in Dispatcher /\ jvm[j] \in JvmState
  BY FleetValues DEF FleetTypes, FleetTypeOK
<1>1. CASE BeginTick(j)
  <2>1. /\ ep' = ep /\ \A c \in Dispatcher \ {j} : run'[c] = run[c]
        /\ run'[j].rows = {} /\ UNCHANGED <<queued, results, lost, probe>>
    BY <1>0, <1>1 DEF BeginTick, TypeOK, NoRun
  <2>2. \A v \in View : IsHeld(v)' => IsHeld(v)
    BY <2>1 DEF IsHeld, FleetClaims, Claims, ViewOf
  <2>3. UniqueRows' /\ LockInv'
    BY <2>1, LocksKept
  <2> QED BY <2>1, <2>2, <2>3, HeldKept
<1>2. ASSUME NEW c \in jvm[j].todo, LockRow(j, c)
      PROVE  FleetSpacing'
  <2>0. c.ep \in Endpoint
    BY <1>0 DEF JvmState, Candidate
  <2>1. /\ ep' = ep /\ \A b \in Dispatcher \ {j} : run'[b] = run[b]
        /\ run[j].stage = "claiming" /\ run'[j].stage = "claiming"
        /\ run'[j].now = run[j].now
        /\ UNCHANGED <<queued, results, lost, probe>>
    BY <1>0, <1>2 DEF LockRow, TypeOK, Run
  <2>2. \/ run'[j].rows = run[j].rows
        \/ /\ Lockable(j, c.ep)
           /\ run'[j].rows = run[j].rows \cup
                {[ep |-> c.ep, interval |-> ep[c.ep].interval, gen |-> ep[c.ep].gen]}
    BY <1>0, <1>2 DEF LockRow, TypeOK, Run
  <2>3. \A v \in View : IsHeld(v)' => IsHeld(v)
    BY <2>1 DEF IsHeld, FleetClaims, Claims, ViewOf
  <2>4. UniqueRows' /\ LockInv'
    <3>1. CASE run'[j].rows = run[j].rows
      BY <2>1, <3>1, LocksKept
    <3>2. CASE run'[j].rows # run[j].rows
      <4>1. ~RowLocked(c.ep) /\ Due(c.ep, run[j].now)
        BY <2>2, <3>2 DEF Lockable
      <4> QED BY <1>0, <2>0, <2>1, <2>2, <3>2, <4>1, RowLock
    <3> QED BY <3>1, <3>2
  <2> QED BY <2>1, <2>3, <2>4, HeldKept
<1>3. CASE EndClaim(j)
  <2> DEFINE first == [stage |-> "submitting", started |-> 0]
  <2>0. first \in [stage: ProbeStage, started: Time]
    BY InitialTypes DEF ProbeStage
  <2>1. /\ run[j].stage = "claiming" /\ ep' = Rescheduled(j)
        /\ probe' = WithClaim(j, probe, first)
        /\ \A c \in Dispatcher \ {j} : run'[c] = run[c]
        /\ UNCHANGED <<queued, results, lost>>
        /\ \/ run'[j] = NoRun
           \/ run'[j].stage = "enqueuing" /\ run'[j].rows = run[j].rows /\ run'[j].now = run[j].now
    BY <1>0, <1>3 DEF EndClaim, ClaimFull, CommitRows, TypeOK, Run
  <2>2. \A v \in View : IsHeld(v)' => IsHeld(v) \/ \E r \in run[j].rows : v = ViewOf(j, r)
    <3>1. \A k \in Claims' : k \in Claims
      BY <2>1 DEF Claims
    <3> HIDE DEF first
    <3> QED BY <2>0, <2>1, <3>1, FleetValues, CommitHeld
  <2> QED BY <1>0, <2>1, <2>2, CommitSpaced
<1>4. ASSUME NEW r \in run[j].rows, Submit(j, r)
      PROVE  FleetSpacing'
  <2>1. /\ ep' = ep /\ \A c \in Dispatcher \ {j} : run'[c] = run[c]
        /\ UNCHANGED <<queued, results, lost>> /\ DOMAIN probe' = DOMAIN probe
        /\ \/ run'[j].rows = {}
           \/ /\ run'[j].rows \subseteq run[j].rows
              /\ run'[j].stage = run[j].stage /\ run'[j].now = run[j].now
    BY <1>0, <1>4 DEF Submit, Starts, Becomes, Ends, TypeOK, Run, NoRun
  <2>2. \A v \in View : IsHeld(v)' => IsHeld(v)
    <3>1. FleetClaims' = FleetClaims
      BY <2>1 DEF FleetClaims, Claims
    <3> QED BY <2>1, <3>1 DEF IsHeld, ViewOf
  <2>3. UniqueRows' /\ LockInv'
    BY <2>1, LocksKept
  <2> QED BY <2>1, <2>2, <2>3, HeldKept
<1>5. ASSUME run' = run, ep' = ep, DOMAIN probe' = DOMAIN probe,
             \A k \in Claims' : k \in Claims \/ ClaimOf(k) \in DOMAIN probe
      PROVE  FleetSpacing'
  <2>1. FleetClaims' \subseteq FleetClaims
    BY <1>5 DEF FleetClaims, ClaimOf
  <2>2. \A v \in View : IsHeld(v)' => IsHeld(v)
    BY <1>5, <2>1 DEF IsHeld, ViewOf
  <2>3. UniqueRows' /\ LockInv'
    BY <1>5, LocksKept
  <2> QED BY <1>5, <2>2, <2>3, HeldKept
<1>6. \A p \in Probe : ClaimOf(RowOf(p)) = p
  BY DEF ClaimOf, RowOf, Probe
<1>7. CASE Take(j) \/ Shutdown(j) \/ main(j)
  <2>1. DOMAIN probe' = DOMAIN probe
    BY <1>7 DEF Take, Starts, Shutdown, main
  <2>2. run' = run /\ ep' = ep /\ Claims' = Claims
    BY <1>7 DEF Take, Shutdown, main, vars, Claims
  <2> QED BY <1>5, <2>1, <2>2
<1>8. ASSUME NEW p \in Busy(j),
             Measure(p) \/ Escape(p) \/ Borrow(p) \/ insertResult(p) \/ InsertFails(p)
      PROVE  FleetSpacing'
  <2>1. DOMAIN probe' = DOMAIN probe
    BY <1>8 DEF Measure, Escape, Borrow, insertResult, InsertFails, Becomes, Ends
  <2>2. UNCHANGED <<run, ep, queued, lost>> /\ results' \subseteq results \cup {RowOf(p)}
    BY <1>8 DEF Measure, Escape, Borrow, insertResult, InsertFails, Inserted, vars
  <2>3. p \in DOMAIN probe /\ p \in Probe
    BY FleetValues DEF Busy, ProbesOf
  <2>4. \A k \in Claims' : k \in Claims \/ ClaimOf(k) \in DOMAIN probe
    BY <1>6, <2>2, <2>3 DEF Claims
  <2> QED BY <1>5, <2>1, <2>2, <2>4
<1>9. CASE TickFails(j)
  <2>1. /\ \A c \in Dispatcher \ {j} : run'[c] = run[c]
        /\ run'[j] = NoRun /\ UNCHANGED <<queued, results, lost>>
    BY <1>0, <1>9 DEF TickFails, TypeOK
  <2>2. CASE UNCHANGED <<ep, probe>>
    <3>1. \A v \in View : IsHeld(v)' => IsHeld(v)
      BY <2>1, <2>2 DEF IsHeld, FleetClaims, Claims, ViewOf, NoRun
    <3>2. UniqueRows' /\ LockInv'
      BY <2>1, <2>2, LocksKept DEF NoRun
    <3> QED BY <2>2, <3>1, <3>2, HeldKept
  <2>3. CASE ClaimFull(j) /\ CommitRows(j, Ended)
    <3>1. run[j].stage = "claiming" /\ ep' = Rescheduled(j) /\ probe' = WithClaim(j, probe, Ended)
      BY <2>3 DEF ClaimFull, CommitRows
    <3>2. \A k \in Claims' : k \in Claims
      BY <2>1 DEF Claims
    <3>3. \A v \in View : IsHeld(v)' => IsHeld(v) \/ \E r \in run[j].rows : v = ViewOf(j, r)
      BY <2>1, <3>1, <3>2, FleetValues, CommitHeld
    <3> QED BY <1>0, <2>1, <3>1, <3>3, CommitSpaced
  <2> QED BY <1>9, <2>2, <2>3 DEF TickFails
<1>10. CASE Exit(j)
  <2> DEFINE swept == [p \in DOMAIN probe |-> IF p.by = j THEN Ended ELSE probe[p]]
  <2>1. /\ \A c \in Dispatcher \ {j} : run'[c] = run[c]
        /\ run'[j] = NoRun /\ UNCHANGED <<queued, lost>>
    BY <1>0, <1>10 DEF Exit, TypeOK
  <2>2. PICK done \in SUBSET {p \in ProbesOf(j, {"inserting"}) : ep[p.claim.ep].life = "live"} :
          /\ results' = results \cup {RowOf(p) : p \in done}
          /\ \/ ClaimFull(j) /\ ep' = Rescheduled(j) /\ probe' = WithClaim(j, swept, Ended)
             \/ UNCHANGED ep /\ probe' = swept
    BY <1>10 DEF Exit
  <2>3. done \subseteq DOMAIN probe /\ done \subseteq Probe
    BY FleetValues DEF ProbesOf
  <2>4. \A k \in Claims' : k \in Claims \/ ClaimOf(k) \in DOMAIN probe
    BY <1>6, <2>1, <2>2, <2>3 DEF Claims
  <2>5. /\ DOMAIN swept = DOMAIN probe
        /\ \A p \in DOMAIN probe : swept[p] \in [stage: ProbeStage, started: Time]
    BY FleetValues
  <2>6. CASE ClaimFull(j) /\ ep' = Rescheduled(j) /\ probe' = WithClaim(j, swept, Ended)
    <3> HIDE DEF swept
    <3>1. run[j].stage = "claiming"
      BY <2>6 DEF ClaimFull
    <3>2. \A v \in View : IsHeld(v)' => IsHeld(v) \/ \E r \in run[j].rows : v = ViewOf(j, r)
      BY <2>1, <2>4, <2>5, <2>6, <3>1, FleetValues, CommitHeld
    <3> QED BY <1>0, <2>1, <2>6, <3>1, <3>2, CommitSpaced
  <2>7. CASE UNCHANGED ep /\ probe' = swept
    <3>1. DOMAIN probe' = DOMAIN probe
      BY <2>7
    <3>2. FleetClaims' \subseteq FleetClaims
      BY <2>4, <3>1 DEF FleetClaims, ClaimOf
    <3>3. \A v \in View : IsHeld(v)' => IsHeld(v)
      BY <2>1, <3>2 DEF IsHeld, ViewOf, NoRun
    <3>4. UniqueRows' /\ LockInv'
      BY <2>1, <2>7, LocksKept DEF NoRun
    <3> QED BY <2>7, <3>3, <3>4, HeldKept
  <2> QED BY <2>2, <2>6, <2>7
<1> QED BY <1>1, <1>2, <1>3, <1>4, <1>7, <1>8, <1>9, <1>10 DEF JvmStep, TickStep, PoolStep

\* The invariant of the claims.
LEMMA FleetSpacingInv == FleetSpec => []FleetSpacing
<1>1. FleetInit => FleetSpacing
  <2> SUFFICES ASSUME FleetInit PROVE FleetSpacing
    OBVIOUS
  <2>1. \A d \in Dispatcher : run[d].rows = {} /\ run[d].stage = "idle"
    BY DEF FleetInit, Init, NoRun
  <2>2. FleetClaims = {}
    BY DEF FleetInit, Init, FleetClaims, Claims
  <2> QED BY <2>1, <2>2 DEF FleetSpacing, UniqueRows, LockInv, HeldInv, ApartInv, IsHeld
<1>2. FleetTypes /\ FleetSpacing /\ [FleetNext]_fleetVars => FleetSpacing'
  <2> SUFFICES ASSUME FleetTypes, FleetSpacing, [FleetNext]_fleetVars PROVE FleetSpacing'
    OBVIOUS
  <2>1. CASE OtherStep
    BY <2>1, OtherSpaced DEF FleetTypes, FleetTypeOK
  <2>2. CASE UNCHANGED fleetVars
    <3>1. run' = run /\ ep' = ep /\ probe' = probe /\ Claims' = Claims
      BY <2>2 DEF fleetVars, javaVars, vars, Claims
    <3>2. \A v \in View : IsHeld(v)' => IsHeld(v)
      BY <3>1 DEF IsHeld, FleetClaims, ViewOf
    <3> QED BY <3>1, <3>2, LocksKept, HeldKept DEF FleetSpacing
  <2> QED BY <2>1, <2>2, JvmSpaced DEF FleetNext
<1> QED BY <1>1, <1>2, FleetTypesInv, PTL DEF FleetSpec

\* No endpoint is claimed twice within its interval without a reschedule in
\* between, in any fleet of JVMs and Celery dispatchers, whoever skips or waits
\* for whose locks, and whatever is killed, lost, late or unanswered.
THEOREM FleetIsSpaced == FleetSpec => []FleetClaimsSpaced
<1>1. FleetTypes /\ FleetSpacing => FleetClaimsSpaced
  <2> SUFFICES ASSUME FleetTypes, FleetSpacing PROVE FleetClaimsSpaced
    OBVIOUS
  <2>1. FleetClaims \subseteq View
    <3>1. DOMAIN probe \subseteq View
      BY FleetValues DEF Probe, View
    <3>2. \A k \in Claims : k \in Check
      BY DEF FleetTypes, FleetTypeOK, TypeOK, Claims
    <3>3. \A k \in Check : ClaimOf(k) \in View
      BY DEF Check, ClaimOf, View
    <3> QED BY <3>1, <3>2, <3>3 DEF FleetClaims, ClaimOf
  <2> QED BY <2>1 DEF FleetSpacing, ApartInv, IsHeld, FleetClaimsSpaced
<1> QED BY <1>1, FleetTypesInv, FleetSpacingInv, PTL
-----------------------------------------------------------------------------
(* Batches *)

\* The rest of a batch fits behind what was queued when it came: what it has
\* handed over has not made the queue longer than that. A JVM that is down
\* makes no claims.
BatchInv ==
  \A j \in Jvm :
    /\ IsFiniteSet(run[j].rows) /\ Cardinality(run[j].rows) <= ClaimBatch
    /\ run[j].stage = "enqueuing" =>
         Len(jvm[j].queue) + Cardinality(run[j].rows) <= jvm[j].backlog + ClaimBatch
    /\ jvm[j].state = "down" => ~jvm[j].ticking /\ run[j].stage = "idle"

\* What one JVM does concerns no other, and what is not a JVM no JVM's run.
LEMMA JvmFrame ==
  ASSUME FleetTypes, NEW i \in Jvm, JvmStep(i)
  PROVE  \A j \in Jvm \ {i} : run'[j] = run[j] /\ jvm'[j] = jvm[j]
<1>0. /\ run \in [Dispatcher -> Run] /\ jvm \in [Jvm -> JvmState]
      /\ Jvm \subseteq Dispatcher
  BY FleetValues DEF FleetTypes, FleetTypeOK, TypeOK
<1>1. CASE TickStep(i)
  BY <1>0, <1>1 DEF TickStep, BeginTick, LockRow, EndClaim, Submit
<1>2. CASE PoolStep(i) \/ \E p \in Busy(i) : InsertFails(p)
  BY <1>0, <1>2 DEF PoolStep, Take, Measure, Escape, Borrow, insertResult, InsertFails, vars
<1>3. CASE TickFails(i)
  BY <1>0, <1>3 DEF TickFails, TickCaught
<1>4. CASE Shutdown(i) \/ Exit(i) \/ main(i)
  BY <1>0, <1>4 DEF Shutdown, Exit, main, vars
<1> QED BY <1>1, <1>2, <1>3, <1>4 DEF JvmStep

LEMMA OtherFrame ==
  ASSUME FleetTypes, OtherStep
  PROVE  jvm' = jvm /\ \A j \in Jvm : run'[j] = run[j]
<1>0. run \in [Dispatcher -> Run] /\ Jvm \subseteq Dispatcher /\ jvm' = jvm
  BY FleetValues DEF FleetTypes, FleetTypeOK, TypeOK, OtherStep
<1>1. ASSUME NEW d \in Dispatcher \ Jvm, Start(d) \/ RunStep(d)
      PROVE  \A j \in Jvm : run'[j] = run[j]
  <2>1. \A c \in Dispatcher \ {d} : run'[c] = run[c]
    <3>1. CASE Start(d) \/ BeginClaim(d) \/ CommitClaim(d) \/ RunKilled(d)
      BY <1>0, <3>1 DEF Start, BeginClaim, CommitClaim, RunKilled
    <3>2. CASE \E e \in Endpoint : ClaimRow(d, e)
      BY <1>0, <3>2 DEF ClaimRow
    <3>3. CASE \E r \in run[d].rows : Enqueue(d, r)
      BY <1>0, <3>3 DEF Enqueue
    <3> QED BY <1>1, <3>1, <3>2, <3>3 DEF RunStep
  <2> QED BY <1>0, <1>1, <2>1
<1>2. CASE UserStep
  BY <1>0, <1>2, UserTouches DEF FleetTypes, FleetTypeOK
<1>3. CASE \/ Advance
           \/ \E k \in queued : Record(k) \/ CheckLost(k)
           \/ purge_old_results
  BY <1>0, <1>3 DEF Advance, Record, CheckLost, purge_old_results
<1> QED BY <1>0, <1>1, <1>2, <1>3 DEF OtherStep, Running

\* BatchInv is inductive.
LEMMA BatchStep ==
  ASSUME FleetTypes, BatchInv, NEW i \in Jvm, JvmStep(i)
  PROVE  BatchInv'
<1> DEFINE Fits(j) ==
      /\ IsFiniteSet(run[j].rows) /\ Cardinality(run[j].rows) <= ClaimBatch
      /\ run[j].stage = "enqueuing" =>
           Len(jvm[j].queue) + Cardinality(run[j].rows) <= jvm[j].backlog + ClaimBatch
      /\ jvm[j].state = "down" => ~jvm[j].ticking /\ run[j].stage = "idle"
<1>0. /\ i \in Dispatcher /\ run \in [Dispatcher -> Run] /\ run[i] \in Run
      /\ jvm \in [Jvm -> JvmState] /\ jvm[i] \in JvmState
      /\ jvm[i].queue \in Seq(Probe) /\ Len(jvm[i].queue) \in Nat /\ jvm[i].backlog \in Nat
      /\ ClaimBatch \in Nat /\ ClaimBatch >= 1
  BY FleetValues, PoolAssumption DEF FleetTypes, FleetTypeOK, TypeOK
<1>1. IsFiniteSet({}) /\ Cardinality({}) = 0
  BY FS_EmptySet
<1>2. /\ IsFiniteSet(run[i].rows) /\ Cardinality(run[i].rows) \in Nat
      /\ Cardinality(run[i].rows) <= ClaimBatch
  BY FS_CardinalityType DEF BatchInv
<1>3. Fits(i)
  BY DEF BatchInv
<1>4. SUFFICES Fits(i)'
  BY JvmFrame DEF BatchInv
<1>5. CASE BeginTick(i)
  <2>1. /\ run'[i].rows = {} /\ run'[i].stage = "claiming"
        /\ jvm'[i].state = jvm[i].state /\ jvm[i].ticking
    BY <1>0, <1>5 DEF BeginTick, NoRun, JvmState
  <2> QED BY <1>0, <1>1, <1>3, <2>1
<1>6. ASSUME NEW c \in jvm[i].todo, LockRow(i, c)
      PROVE  Fits(i)'
  <2> DEFINE r0 == [ep |-> c.ep, interval |-> ep[c.ep].interval, gen |-> ep[c.ep].gen]
  <2>1. /\ run[i].stage = "claiming" /\ run'[i].stage = "claiming"
        /\ jvm'[i].state = jvm[i].state /\ Cardinality(run[i].rows) < ClaimBatch
        /\ run'[i].rows = run[i].rows \/ run'[i].rows = run[i].rows \cup {r0}
    BY <1>0, <1>6 DEF LockRow, BatchOpen, Run, JvmState
  <2>2. IsFiniteSet(run'[i].rows) /\ Cardinality(run'[i].rows) <= ClaimBatch
    <3> HIDE DEF r0
    <3>1. /\ IsFiniteSet(run[i].rows \cup {r0})
          /\ Cardinality(run[i].rows \cup {r0}) = Cardinality(run[i].rows)
               \/ Cardinality(run[i].rows \cup {r0}) = Cardinality(run[i].rows) + 1
      BY <1>2, FS_AddElement
    <3>2. CASE run'[i].rows = run[i].rows
      BY <1>2, <3>2
    <3>3. CASE run'[i].rows = run[i].rows \cup {r0}
      <4>1. IsFiniteSet(run'[i].rows)
        BY <3>1, <3>3
      <4>2. \/ Cardinality(run'[i].rows) = Cardinality(run[i].rows)
            \/ Cardinality(run'[i].rows) = Cardinality(run[i].rows) + 1
        BY <3>1, <3>3
      <4> QED BY <1>0, <1>2, <2>1, <4>1, <4>2
    <3> QED BY <2>1, <3>2, <3>3
  <2> QED BY <1>3, <2>1, <2>2
<1>7. CASE EndClaim(i)
  <2>1. /\ jvm'[i].state = jvm[i].state /\ jvm'[i].queue = jvm[i].queue
        /\ jvm'[i].backlog = Len(jvm[i].queue) /\ run[i].stage = "claiming"
        /\ run'[i].rows = {} \/ run'[i].rows = run[i].rows
    <3>1. jvm'[i] = [jvm[i] EXCEPT !.todo = {}, !.backlog = Len(jvm[i].queue)]
      BY <1>0, <1>7 DEF EndClaim
    <3>2. run[i].stage = "claiming" /\ (run'[i].rows = {} \/ run'[i].rows = run[i].rows)
      BY <1>0, <1>7 DEF EndClaim, ClaimFull, Run, NoRun
    <3> QED BY <1>0, <3>1, <3>2 DEF JvmState
  <2>2. run'[i].stage = "idle" \/ run'[i].stage = "enqueuing"
    BY <1>0, <1>7 DEF EndClaim, NoRun, Run
  <2>3. IsFiniteSet(run'[i].rows) /\ Cardinality(run'[i].rows) <= ClaimBatch
        /\ Cardinality(run'[i].rows) \in Nat
    <3>1. CASE run'[i].rows = {}
      BY <1>0, <1>1, <3>1
    <3>2. CASE run'[i].rows = run[i].rows
      BY <1>2, <3>2
    <3> QED BY <2>1, <3>1, <3>2
  <2>4. Len(jvm'[i].queue) + Cardinality(run'[i].rows) <= jvm'[i].backlog + ClaimBatch
    BY <1>0, <2>1, <2>3
  <2>5. jvm'[i].state # "down"
    BY <1>3, <2>1
  <2> QED BY <2>3, <2>4, <2>5
<1>8. ASSUME NEW r \in run[i].rows, Submit(i, r)
      PROVE  Fits(i)'
  <2>1. /\ run[i].stage = "enqueuing" /\ jvm'[i].state = jvm[i].state
        /\ jvm'[i].backlog = jvm[i].backlog
    BY <1>0, <1>8 DEF Submit, JvmState
  <2>2. \/ run'[i] = NoRun
        \/ run'[i].rows = run[i].rows \ {r} /\ run'[i].stage = "enqueuing"
    BY <1>0, <1>8 DEF Submit, Run
  <2>3. Len(jvm'[i].queue) \in Nat /\ Len(jvm'[i].queue) <= Len(jvm[i].queue) + 1
    <3> DEFINE p == [claim |-> r, by |-> i, claimed_at |-> run[i].now]
    <3>1. p \in Probe
      BY <1>0 DEF Run, Probe
    <3>2. Len(Append(jvm[i].queue, p)) = Len(jvm[i].queue) + 1
      BY <1>0, <3>1, AppendProperties
    <3>3. jvm'[i].queue = jvm[i].queue \/ jvm'[i].queue = Append(jvm[i].queue, p)
      BY <1>0, <1>8 DEF Submit, JvmState
    <3> HIDE DEF p
    <3> QED BY <1>0, <3>2, <3>3
  <2>4. /\ IsFiniteSet(run[i].rows \ {r})
        /\ Cardinality(run[i].rows \ {r}) = Cardinality(run[i].rows) - 1
    BY <1>2, FS_RemoveElement
  <2>5. CASE run'[i] = NoRun
    BY <1>0, <1>1, <1>3, <2>1, <2>5 DEF NoRun
  <2>6. CASE run'[i].rows = run[i].rows \ {r} /\ run'[i].stage = "enqueuing"
    <3>1. /\ IsFiniteSet(run'[i].rows)
          /\ Cardinality(run'[i].rows) = Cardinality(run[i].rows) - 1
      BY <2>4, <2>6
    <3>2. Cardinality(run'[i].rows) <= ClaimBatch
      BY <1>0, <1>2, <3>1
    <3>3. Len(jvm'[i].queue) + Cardinality(run'[i].rows) <= jvm'[i].backlog + ClaimBatch
      <4>1. Len(jvm[i].queue) + Cardinality(run[i].rows) <= jvm[i].backlog + ClaimBatch
        BY <1>3, <2>1
      <4>2. Cardinality(run[i].rows) \in Nat /\ Len(jvm[i].queue) \in Nat
        BY <1>0, <1>2
      <4>3. jvm'[i].backlog = jvm[i].backlog /\ jvm[i].backlog \in Nat /\ ClaimBatch \in Nat
        BY <1>0, <2>1
      <4>4. \A l, c, b, k, m \in Nat : m <= l + 1 /\ l + c <= b + k => m + (c - 1) <= b + k
        OBVIOUS
      <4> HIDE DEF Fits
      <4> QED BY <2>3, <3>1, <4>1, <4>2, <4>3, <4>4
    <3>4. jvm'[i].state # "down"
      BY <1>3, <2>1
    <3> QED BY <3>1, <3>2, <3>3, <3>4
  <2> QED BY <2>2, <2>5, <2>6
<1>9. CASE Take(i)
  <2>1. run' = run /\ jvm'[i] = [jvm[i] EXCEPT !.queue = Tail(jvm[i].queue)] /\ jvm[i].queue # << >>
    BY <1>0, <1>9 DEF Take, vars
  <2>2. Len(Tail(jvm[i].queue)) = Len(jvm[i].queue) - 1
    BY <1>0, <2>1, HeadTailProperties
  <2>3. /\ jvm'[i].state = jvm[i].state /\ jvm'[i].ticking = jvm[i].ticking
        /\ jvm'[i].backlog = jvm[i].backlog /\ jvm'[i].queue = Tail(jvm[i].queue)
    BY <1>0, <2>1 DEF JvmState
  <2> QED BY <1>0, <1>2, <1>3, <2>1, <2>2, <2>3
<1>10. ASSUME NEW p \in Busy(i),
              Measure(p) \/ Escape(p) \/ Borrow(p) \/ insertResult(p) \/ InsertFails(p)
       PROVE  Fits(i)'
  <2>1. run' = run /\ jvm' = jvm
    BY <1>10 DEF Measure, Escape, Borrow, insertResult, InsertFails, vars
  <2> QED BY <1>3, <2>1
<1>11. CASE TickFails(i)
  <2>1. /\ run'[i] = NoRun /\ jvm'[i].state = jvm[i].state
        /\ jvm'[i].ticking = jvm[i].ticking
    BY <1>0, <1>11 DEF TickFails, TickCaught, JvmState
  <2> QED BY <1>0, <1>1, <1>3, <2>1 DEF NoRun
<1>12. CASE Shutdown(i)
  <2>1. run' = run /\ jvm'[i] = [jvm[i] EXCEPT !.state = "draining", !.ticking = FALSE]
    BY <1>0, <1>12 DEF Shutdown, vars
  <2>2. /\ jvm'[i].state = "draining" /\ jvm'[i].queue = jvm[i].queue
        /\ jvm'[i].backlog = jvm[i].backlog
    BY <1>0, <2>1 DEF JvmState
  <2> QED BY <1>3, <2>1, <2>2
<1>13. CASE Exit(i)
  <2>1. run'[i] = NoRun /\ jvm'[i].ticking = FALSE
    BY <1>0, <1>13 DEF Exit, Fresh
  <2> QED BY <1>0, <1>1, <2>1 DEF NoRun
<1>14. CASE main(i)
  <2>1. run' = run /\ jvm[i].state = "down" /\ jvm'[i].state = "up"
    BY <1>0, <1>14 DEF main, Fresh, vars
  <2> QED BY <1>3, <2>1
<1> QED BY <1>5, <1>6, <1>7, <1>8, <1>9, <1>10, <1>11, <1>12, <1>13, <1>14
        DEF JvmStep, TickStep, PoolStep

\* Batches are in order in every reachable state.
LEMMA Batches == FleetSpec => []BatchInv
<1>1. FleetInit => BatchInv
  <2> SUFFICES ASSUME FleetInit PROVE BatchInv
    OBVIOUS
  <2>1. \A j \in Jvm : run[j] = NoRun /\ jvm[j] = Fresh
    BY JvmAssumption DEF FleetInit, Init
  <2> SUFFICES ASSUME NEW j \in Jvm
               PROVE  /\ IsFiniteSet(run[j].rows) /\ Cardinality(run[j].rows) <= ClaimBatch
                      /\ run[j].stage # "enqueuing" /\ jvm[j].state # "down"
    BY DEF BatchInv
  <2>2. run[j].rows = {} /\ run[j].stage = "idle" /\ jvm[j].state = "up"
    BY <2>1 DEF NoRun, Fresh
  <2>3. IsFiniteSet({}) /\ Cardinality({}) = 0
    BY FS_EmptySet
  <2>4. IsFiniteSet(run[j].rows) /\ Cardinality(run[j].rows) = 0
    BY <2>2, <2>3
  <2> QED BY <2>2, <2>4, PoolAssumption
<1>2. FleetTypes /\ BatchInv /\ [FleetNext]_fleetVars => BatchInv'
  <2> SUFFICES ASSUME FleetTypes, BatchInv, [FleetNext]_fleetVars PROVE BatchInv'
    OBVIOUS
  <2>1. CASE OtherStep
    BY <2>1, OtherFrame DEF BatchInv
  <2>2. CASE UNCHANGED fleetVars
    BY <2>2 DEF fleetVars, javaVars, vars, BatchInv
  <2> QED BY <2>1, <2>2, BatchStep DEF FleetNext
<1> QED BY <1>1, <1>2, FleetTypesInv, PTL DEF FleetSpec

\* The pool of a JVM that is up rejects a probe when its queue is full, and
\* when a claim hands it one, only.
LEMMA RejectsWhenFull ==
  ASSUME FleetTypes, FleetNext, NEW j \in Jvm, Rejects(j)
  PROVE  /\ run[j].stage = "enqueuing" /\ run[j].rows # {}
         /\ Len(jvm[j].queue) = QueueCapacity
<1>0. PICK p \in DOMAIN probe : /\ p.by = j /\ probe[p].stage = "submitting"
                                /\ probe'[p].stage = "ended"
  BY DEF Rejects, ProbesOf
<1>1. jvm[j].state = "up" /\ jvm'[j].state = "up"
  BY DEF Rejects
<1>2. ~OtherStep
  BY <1>0 DEF OtherStep
<1>3. PICK i \in Jvm : JvmStep(i)
  BY <1>2 DEF FleetNext
<1>4. ASSUME probe'[p] = probe[p] PROVE FALSE
  BY <1>0, <1>4
<1>5. \A q : p # q /\ (Starts(q) \/ Ends(q) \/ Becomes(q, "queued") \/ Becomes(q, "writing")
                        \/ Becomes(q, "inserting")) => probe'[p] = probe[p]
  BY DEF Starts, Ends, Becomes
<1>6. \A q : Starts(q) \/ Becomes(q, "queued") => p # q
  BY <1>0, FleetValues DEF Starts, Becomes
<1>7. ~(BeginTick(i) \/ \E c \in jvm[i].todo : LockRow(i, c))
  BY <1>4 DEF BeginTick, LockRow
<1>8. \A s : probe' # WithClaim(i, probe, s)
  BY <1>4 DEF WithClaim
<1>9. ~EndClaim(i) /\ ~TickFails(i)
  BY <1>4, <1>8 DEF EndClaim, TickFails, CommitRows
<1>10. ~PoolStep(i)
  <2>1. ~Take(i)
    BY <1>4, <1>5, <1>6 DEF Take
  <2>2. \A q \in Busy(i) : p # q
    BY <1>0 DEF Busy, ProbesOf
  <2>3. ASSUME NEW q \in Busy(i), Measure(q) \/ Escape(q) \/ Borrow(q) \/ insertResult(q)
        PROVE  FALSE
    BY <1>4, <1>5, <2>2, <2>3 DEF Measure, Escape, Borrow, insertResult
  <2> QED BY <2>1, <2>3 DEF PoolStep
<1>11. ~\E q \in Busy(i) : InsertFails(q)
  <2>1. \A q \in Busy(i) : p # q
    BY <1>0 DEF Busy, ProbesOf
  <2> QED BY <1>4, <1>5, <2>1 DEF InsertFails
<1>12. ~Shutdown(i) /\ ~main(i)
  BY <1>4 DEF Shutdown, main
<1>13. ~Exit(i)
  <2> SUFFICES ASSUME Exit(i) PROVE FALSE
    OBVIOUS
  <2>1. i # j
    <3>1. jvm'[i].state = "down"
      BY FleetValues DEF Exit, Fresh, FleetTypes, FleetTypeOK
    <3> QED BY <1>1, <3>1
  <2> DEFINE swept == [q \in DOMAIN probe |-> IF q.by = i THEN Ended ELSE probe[q]]
  <2>2. swept[p] = probe[p] /\ DOMAIN swept = DOMAIN probe
    BY <1>0, <2>1
  <2>3. probe' = swept \/ probe' = WithClaim(i, swept, Ended)
    BY DEF Exit
  <2>4. probe'[p] = swept[p]
    <3> HIDE DEF swept
    <3> QED BY <2>2, <2>3 DEF WithClaim
  <2> QED BY <1>4, <2>2, <2>4
<1>14. PICK r \in run[i].rows : Submit(i, r)
  BY <1>3, <1>7, <1>9, <1>10, <1>11, <1>12, <1>13 DEF JvmStep, TickStep
<1> DEFINE q == [claim |-> r, by |-> i, claimed_at |-> run[i].now]
<1>15. ~Starts(q) /\ ~Becomes(q, "queued")
  <2> HIDE DEF q
  <2> QED BY <1>4, <1>5, <1>6
<1>16. Ends(q) /\ (jvm[i].state = "draining" \/ Len(jvm[i].queue) = QueueCapacity)
  BY <1>14, <1>15 DEF Submit
<1>17. i = j
  <2>1. p = q
    <3> HIDE DEF q
    <3> QED BY <1>4, <1>5, <1>16
  <2> QED BY <1>0, <2>1
<1> QED BY <1>1, <1>14, <1>16, <1>17 DEF Submit

\* A batch that fits behind what is queued when it arrives is not rejected.
THEOREM FittingIsAccepted == FleetSpec => FittingBatchAccepted
<1>1. ASSUME FleetTypes, BatchInv, [FleetNext]_fleetVars
      PROVE  [\A j \in Jvm : Rejects(j) => jvm[j].backlog + ClaimBatch > QueueCapacity]_fleetVars
  <2> SUFFICES ASSUME FleetNext, NEW j \in Jvm, Rejects(j)
               PROVE  jvm[j].backlog + ClaimBatch > QueueCapacity
    BY <1>1
  <2>1. /\ run[j].stage = "enqueuing" /\ run[j].rows # {}
        /\ Len(jvm[j].queue) = QueueCapacity
    BY <1>1, RejectsWhenFull
  <2>2. /\ IsFiniteSet(run[j].rows)
        /\ Len(jvm[j].queue) + Cardinality(run[j].rows) <= jvm[j].backlog + ClaimBatch
    BY <1>1, <2>1 DEF BatchInv
  <2>3. Cardinality(run[j].rows) \in Nat /\ Cardinality(run[j].rows) # 0
    BY <2>1, <2>2, FS_CardinalityType, FS_EmptySet
  <2>4. jvm[j].backlog \in Nat
    BY <1>1, FleetValues
  <2> QED BY <2>1, <2>2, <2>3, <2>4, PoolAssumption
<1> QED BY <1>1, FleetTypesInv, Batches, PTL DEF FleetSpec, FittingBatchAccepted
-----------------------------------------------------------------------------
(* LIMIT does not starve. The argument counts the endpoints that are due    *)
(* later than e: a claim that passes e over takes a full batch of others    *)
(* from before e in the order, and puts them behind it, where they stay     *)
(* until e has had its turn. That needs a single dispatcher: another one    *)
(* may, while this claim runs, move rows to a time that has come again.     *)
(* And no PATCH: it puts an endpoint to the very time that may be e's.      *)

Later(e) == {f \in Endpoint : ep[f].next_check_at > ep[e].next_check_at}

\* Every pass has put a batch of other endpoints behind e.
WaitInv == \A e \in Endpoint : passed[e] * ClaimBatch <= Cardinality(Later(e))

\* The order of a claim is that of the rows, and the rows it holds come first.
SortInv ==
  \A j \in Jvm :
    /\ \A c \in jvm[j].todo :
         ep[c.ep].life # "unborn" /\ c.at = ep[c.ep].next_check_at
    /\ run[j].stage = "claiming" =>
         \A r \in run[j].rows, c \in jvm[j].todo : ep[r.ep].next_check_at <= c.at

\* The endpoints due later than e are some of the others.
LEMMA LaterFinite ==
  ASSUME IsFiniteSet(Endpoint), NEW e \in Endpoint
  PROVE  /\ IsFiniteSet(Later(e)) /\ Cardinality(Later(e)) \in Nat
         /\ TypeOK => Cardinality(Later(e)) <= Cardinality(Endpoint) - 1
<1>1. Later(e) \subseteq Endpoint
  BY DEF Later
<1>2. IsFiniteSet(Later(e)) /\ Cardinality(Later(e)) \in Nat
  BY <1>1, FS_Subset, FS_CardinalityType
<1>3. ASSUME TypeOK PROVE Cardinality(Later(e)) <= Cardinality(Endpoint) - 1
  <2>1. ep[e].next_check_at \in Nat
    BY <1>3, ClockTypes
  <2>2. e \notin Later(e)
    BY <2>1 DEF Later
  <2>3. Later(e) \subseteq Endpoint \ {e}
    BY <1>1, <2>2
  <2>4. /\ IsFiniteSet(Endpoint \ {e})
        /\ Cardinality(Endpoint \ {e}) = Cardinality(Endpoint) - 1
    BY FS_RemoveElement
  <2> QED BY <2>3, <2>4, FS_Subset
<1> QED BY <1>2, <1>3

\* A step that passes nobody over, and moves rows on only, keeps WaitInv.
LEMMA WaitKept ==
  ASSUME FleetTypes, TypeOK', WaitInv, IsFiniteSet(Endpoint),
         \A f \in Endpoint : ep'[f].next_check_at >= ep[f].next_check_at,
         NEW e \in Endpoint,
         passed'[e] = 0 \/ (passed'[e] = passed[e] /\ ep'[e] = ep[e])
  PROVE  passed'[e] * ClaimBatch <= Cardinality(Later(e)')
<1>1. IsFiniteSet(Later(e)') /\ Cardinality(Later(e)') \in Nat
  <2>1. Later(e)' \subseteq Endpoint
    BY DEF Later
  <2> QED BY <2>1, FS_Subset, FS_CardinalityType
<1>2. CASE passed'[e] = 0
  BY <1>1, <1>2, PoolAssumption
<1>3. CASE passed'[e] = passed[e] /\ ep'[e] = ep[e]
  <2>1. \A f \in Endpoint : ep[f].next_check_at \in Nat /\ ep'[f].next_check_at \in Nat
    BY DEF TypeOK, EndpointRow, FleetTypes, FleetTypeOK
  <2>2. Later(e) \subseteq Later(e)'
    BY <1>3, <2>1 DEF Later
  <2>3. Cardinality(Later(e)) <= Cardinality(Later(e)')
    BY <1>1, <2>2, FS_Subset
  <2>4. passed[e] * ClaimBatch <= Cardinality(Later(e)) /\ Cardinality(Later(e)) \in Nat
    BY LaterFinite DEF WaitInv
  <2>5. passed[e] * ClaimBatch \in Nat
    BY PoolAssumption DEF FleetTypes, FleetTypeOK
  <2> QED BY <1>1, <1>3, <2>3, <2>4, <2>5
<1> QED BY <1>2, <1>3

\* As many endpoints as rows: no endpoint has two.
LEMMA RowEndpoints ==
  ASSUME NEW R, IsFiniteSet(R), \A r, s \in R : r.ep = s.ep => r = s
  PROVE  /\ IsFiniteSet({r.ep : r \in R})
         /\ Cardinality({r.ep : r \in R}) = Cardinality(R)
<1> DEFINE E == {r.ep : r \in R}
           f == [r \in R |-> r.ep]
<1>1. f \in Bijection(R, E)
  <2>1. f \in [R -> E]
    OBVIOUS
  <2>2. \A r, s \in R : f[r] = f[s] => r = s
    OBVIOUS
  <2>3. \A e \in E : \E r \in R : f[r] = e
    OBVIOUS
  <2> QED BY <2>1, <2>2, <2>3 DEF Bijection, Injection, Surjection, IsInjective
<1>2. ExistsBijection(R, E)
  BY <1>1 DEF ExistsBijection
<1> QED BY <1>2, FS_Bijection

\* A claim that passes e over puts a batch behind it.
LEMMA WaitCommit ==
  ASSUME FleetTypes, TypeOK', FleetSpacing, BatchInv, WaitInv, SortInv, IsFiniteSet(Endpoint),
         NEW j \in Jvm, ClaimFull(j), ep' = Rescheduled(j), NEW e \in Endpoint,
         ep'[e] = ep[e], Due(e, run[j].now), \E c \in jvm[j].todo : c.ep = e,
         passed'[e] = passed[e] + 1
  PROVE  passed'[e] * ClaimBatch <= Cardinality(Later(e)')
<1>0. /\ TypeOK /\ j \in Dispatcher /\ run[j].stage = "claiming"
      /\ ClaimBatch \in Nat /\ passed[e] \in Nat
  BY FleetValues, PoolAssumption DEF FleetTypes, FleetTypeOK, ClaimFull
<1> DEFINE R == run[j].rows
           E == {r.ep : r \in R}
<1>1. IsFiniteSet(R) /\ Cardinality(R) = ClaimBatch
  <2>1. IsFiniteSet(R) /\ Cardinality(R) <= ClaimBatch /\ ~(Cardinality(R) < ClaimBatch)
    BY DEF ClaimFull, BatchOpen, BatchInv
  <2> QED BY <1>0, <2>1, FS_CardinalityType
<1>2. IsFiniteSet(E) /\ Cardinality(E) = ClaimBatch
  <2>1. \A r, s \in R : r.ep = s.ep => r = s
    BY <1>0 DEF FleetSpacing, UniqueRows
  <2> HIDE DEF R
  <2> QED BY <1>1, <2>1, RowEndpoints
<1>3. \A f \in Endpoint : /\ ep[f].next_check_at \in Nat /\ ep'[f].next_check_at \in Nat
                          /\ ep'[f].next_check_at >= ep[f].next_check_at
  <2>1. \A f \in Endpoint : ep[f].next_check_at \in Nat /\ ep'[f].next_check_at \in Nat
    BY <1>0 DEF TypeOK, EndpointRow
  <2> QED BY <1>0, <2>1, RescheduledLater DEF FleetSpacing
<1>4. \A f \in E : /\ f \in Endpoint /\ ep[f].next_check_at <= ep[e].next_check_at
                   /\ ep'[f].next_check_at > ep'[e].next_check_at
  <2> SUFFICES ASSUME NEW r \in R
               PROVE  /\ r.ep \in Endpoint /\ ep[r.ep].next_check_at <= ep[e].next_check_at
                      /\ ep'[r.ep].next_check_at > ep'[e].next_check_at
    OBVIOUS
  <2>1. r.ep \in Endpoint
    BY <1>0 DEF TypeOK, Run, Claimed
  <2>2. ep[r.ep].next_check_at <= ep[e].next_check_at
    BY <1>0 DEF SortInv
  <2>3. RowsFor(j, r.ep) # {}
    BY DEF RowsFor
  <2>4. ep'[r.ep].next_check_at = run[j].now + ep[r.ep].interval
    BY <1>0, <2>1, <2>3, RescheduledRows
  <2>5. ep[e].next_check_at <= run[j].now
    BY DEF Due
  <2> QED BY <1>0, <1>3, <2>1, <2>2, <2>4, <2>5, ClockTypes
<1>5. IsFiniteSet(Later(e)') /\ Cardinality(Later(e)') \in Nat
  <2>1. Later(e)' \subseteq Endpoint
    BY DEF Later
  <2> QED BY <2>1, FS_Subset, FS_CardinalityType
<1>6. Later(e) \cup E \subseteq Later(e)' /\ Later(e) \cap E = {}
  <2> HIDE DEF E
  <2>1. Later(e) \subseteq Later(e)'
    BY <1>3 DEF Later
  <2>2. E \subseteq Later(e)'
    BY <1>4 DEF Later
  <2>3. Later(e) \cap E = {}
    BY <1>3, <1>4 DEF Later
  <2> QED BY <2>1, <2>2, <2>3
<1>7. Cardinality(Later(e) \cup E) = Cardinality(Later(e)) + ClaimBatch
  <2>1. Cardinality(Later(e) \cap E) = 0
    BY <1>6, FS_EmptySet
  <2>2. IsFiniteSet(Later(e)) /\ Cardinality(Later(e)) \in Nat
    BY LaterFinite
  <2> HIDE DEF E
  <2>3. Cardinality(Later(e) \cup E)
          = Cardinality(Later(e)) + Cardinality(E) - Cardinality(Later(e) \cap E)
    BY <1>2, <2>2, FS_Union
  <2> QED BY <1>0, <1>2, <2>1, <2>2, <2>3
<1>8. Cardinality(Later(e)) + ClaimBatch <= Cardinality(Later(e)')
  BY <1>5, <1>6, <1>7, FS_Subset
<1>9. passed[e] * ClaimBatch <= Cardinality(Later(e)) /\ Cardinality(Later(e)) \in Nat
  BY LaterFinite DEF WaitInv
<1>10. (passed[e] + 1) * ClaimBatch = passed[e] * ClaimBatch + ClaimBatch
  BY <1>0
<1>11. passed[e] * ClaimBatch \in Nat
  BY <1>0
<1> QED BY <1>0, <1>5, <1>8, <1>9, <1>10, <1>11

\* An id that is not given out has the columns of NoEndpoint.
UnbornInv == \A e \in Endpoint : ep[e].life = "unborn" => ep[e].next_check_at = 0

\* Every step keeps the order of the claim and the count of the passes.
LEMMA WaitStep ==
  ASSUME FleetTypes, FleetTypes', FleetSpacing, BatchInv, WaitInv, SortInv, UnbornInv,
         IsFiniteSet(Endpoint), "update" \notin Routes,
         NEW j \in Jvm, Dispatcher = {j}, FleetNext
  PROVE  WaitInv' /\ SortInv' /\ UnbornInv'
<1>0. /\ TypeOK /\ TypeOK' /\ Jvm = {j} /\ jvm \in [Jvm -> JvmState] /\ jvm[j] \in JvmState
      /\ run \in [Dispatcher -> Run] /\ run[j] \in Run /\ passed \in [Endpoint -> Nat]
      /\ \A c \in jvm[j].todo : c.ep \in Endpoint
  <2>1. \A c \in jvm[j].todo : c.ep \in Endpoint
    BY FleetValues DEF JvmState, Candidate
  <2> QED BY <2>1, FleetValues DEF FleetTypes, FleetTypeOK, TypeOK
<1>1. \A e \in Endpoint : /\ ep[e].next_check_at \in Nat /\ ep'[e].next_check_at \in Nat
                          /\ ep[e].next_check_at >= ep[e].next_check_at
                          /\ ep[e].next_check_at <= ep[e].next_check_at
  BY <1>0 DEF TypeOK, EndpointRow
<1> DEFINE Quiet(e) == passed'[e] = 0 \/ (passed'[e] = passed[e] /\ ep'[e] = ep[e])
           Sorted == /\ \A c \in jvm[j].todo :
                          ep[c.ep].life # "unborn" /\ c.at = ep[c.ep].next_check_at
                     /\ run[j].stage = "claiming" =>
                          \A r \in run[j].rows, c \in jvm[j].todo : ep[r.ep].next_check_at <= c.at
<1>2. ASSUME \A e \in Endpoint : Quiet(e),
             \A e \in Endpoint : ep'[e].next_check_at >= ep[e].next_check_at
      PROVE  WaitInv'
  <2> SUFFICES ASSUME NEW e \in Endpoint PROVE passed'[e] * ClaimBatch <= Cardinality(Later(e)')
    BY DEF WaitInv
  <2> QED BY <1>0, <1>2, WaitKept
<1>3. ASSUME ep' = ep, passed' = passed PROVE WaitInv' /\ UnbornInv'
  BY <1>3 DEF WaitInv, Later, UnbornInv
<1>4. Sorted /\ (Sorted' => SortInv')
  BY <1>0 DEF SortInv
<1>5. CASE BeginTick(j)
  <2>1. /\ ep' = ep /\ passed' = passed /\ run'[j].rows = {}
    BY <1>0, <1>5 DEF BeginTick, NoRun
  <2>2. jvm'[j].todo = {[ep |-> e, at |-> ep[e].next_check_at] : e \in {f \in Endpoint : Due(f, now)}}
    BY <1>0, <1>5 DEF BeginTick, JvmState
  <2>3. \A c \in jvm'[j].todo : ep[c.ep].life # "unborn" /\ c.at = ep[c.ep].next_check_at
    BY <2>2 DEF Due
  <2> QED BY <1>3, <1>4, <2>1, <2>3
<1>6. ASSUME NEW c \in jvm[j].todo, LockRow(j, c)
      PROVE  WaitInv' /\ SortInv' /\ UnbornInv'
  <2> DEFINE r0 == [ep |-> c.ep, interval |-> ep[c.ep].interval, gen |-> ep[c.ep].gen]
  <2>1. /\ ep' = ep /\ passed' = passed /\ run[j].stage = "claiming"
        /\ jvm'[j].todo = jvm[j].todo \ {c}
        /\ run'[j].rows \subseteq run[j].rows \cup {r0}
        /\ \A d \in jvm[j].todo : c.at <= d.at
    BY <1>0, <1>6 DEF LockRow, Run, JvmState, Oldest
  <2>2. r0.ep = c.ep
    OBVIOUS
  <2>3. c.at = ep[c.ep].next_check_at
    BY <1>4
  <2>4. \A r \in run'[j].rows, d \in jvm'[j].todo : ep[r.ep].next_check_at <= d.at
    BY <1>4, <2>1, <2>2, <2>3
  <2> QED BY <1>3, <1>4, <2>1, <2>4
<1>7. ASSUME ep' = Rescheduled(j), ClaimFull(j), jvm'[j].todo = {},
             \A e \in Endpoint :
               \/ Quiet(e)
               \/ /\ passed'[e] = passed[e] + 1 /\ ep'[e] = ep[e] /\ Lockable(j, e)
                  /\ \E c \in jvm[j].todo : c.ep = e
      PROVE  WaitInv' /\ SortInv' /\ UnbornInv'
  <2>1. \A e \in Endpoint : ep'[e].next_check_at >= ep[e].next_check_at
    BY <1>0, <1>7, RescheduledLater DEF ClaimFull, FleetSpacing
  <2>2. WaitInv'
    <3> SUFFICES ASSUME NEW e \in Endpoint
                 PROVE  passed'[e] * ClaimBatch <= Cardinality(Later(e)')
      BY DEF WaitInv
    <3>1. CASE Quiet(e)
      BY <1>0, <2>1, <3>1, WaitKept
    <3>2. CASE /\ passed'[e] = passed[e] + 1 /\ ep'[e] = ep[e] /\ Lockable(j, e)
               /\ \E c \in jvm[j].todo : c.ep = e
      <4>1. Due(e, run[j].now)
        BY <3>2 DEF Lockable
      <4> QED BY <1>0, <1>7, <3>2, <4>1, WaitCommit
    <3> QED BY <1>7, <3>1, <3>2
  <2>3. UnbornInv'
    <3> SUFFICES ASSUME NEW e \in Endpoint, ep'[e].life = "unborn"
                 PROVE  ep'[e].next_check_at = 0
      BY DEF UnbornInv
    <3>1. ep[e].life = "unborn" /\ (RowsFor(j, e) = {} => ep'[e] = ep[e])
      BY <1>0, <1>7, RescheduledRows
    <3>2. RowsFor(j, e) = {}
      BY <1>7, <3>1 DEF RowsFor, ClaimFull, FleetSpacing, LockInv
    <3> QED BY <3>1, <3>2 DEF UnbornInv
  <2> QED BY <1>4, <1>7, <2>2, <2>3
<1>8. ASSUME NEW s, CommitRows(j, s), ClaimFull(j), jvm'[j].todo = {}
      PROVE  WaitInv' /\ SortInv' /\ UnbornInv'
  <2>1. \A e \in Endpoint :
          passed'[e] = CASE ep'[e] # ep[e] -> 0
                         [] /\ ep'[e] = ep[e] /\ Lockable(j, e)
                            /\ \E c \in jvm[j].todo : c.ep = e     -> passed[e] + 1
                         [] OTHER -> passed[e]
    BY <1>8 DEF CommitRows
  <2>2. \A e \in Endpoint :
          \/ Quiet(e)
          \/ /\ passed'[e] = passed[e] + 1 /\ ep'[e] = ep[e] /\ Lockable(j, e)
             /\ \E c \in jvm[j].todo : c.ep = e
    <3> SUFFICES ASSUME NEW e \in Endpoint
                 PROVE  \/ Quiet(e)
                        \/ /\ passed'[e] = passed[e] + 1 /\ ep'[e] = ep[e] /\ Lockable(j, e)
                           /\ \E c \in jvm[j].todo : c.ep = e
      OBVIOUS
    <3> QED BY <2>1
  <2>3. ep' = Rescheduled(j)
    BY <1>8 DEF CommitRows
  <2> QED BY <1>7, <1>8, <2>2, <2>3
<1>9. CASE EndClaim(j)
  <2>1. jvm'[j].todo = {}
    BY <1>0, <1>9 DEF EndClaim, JvmState
  <2> QED BY <1>8, <1>9, <2>1 DEF EndClaim
<1>10. ASSUME ep' = ep, passed' = passed,
              jvm'[j].todo = {} \/ jvm'[j].todo = jvm[j].todo,
              run'[j].stage = "claiming" => run'[j] = run[j]
       PROVE  WaitInv' /\ SortInv' /\ UnbornInv'
  <2>1. Sorted'
    BY <1>4, <1>10
  <2> QED BY <1>3, <1>4, <1>10, <2>1
<1>11. CASE TickFails(j)
  <2>1. jvm'[j].todo = {} /\ run'[j].stage = "idle"
    BY <1>0, <1>11 DEF TickFails, TickCaught, JvmState, NoRun
  <2>2. CASE UNCHANGED <<ep, probe, passed>>
    BY <1>10, <2>1, <2>2
  <2>3. CASE ClaimFull(j) /\ CommitRows(j, Ended)
    BY <1>8, <2>1, <2>3
  <2> QED BY <1>11, <2>2, <2>3 DEF TickFails
<1>12. ASSUME NEW r \in run[j].rows, Submit(j, r)
       PROVE  WaitInv' /\ SortInv' /\ UnbornInv'
  <2>1. jvm'[j].todo = jvm[j].todo
    BY <1>0, <1>12 DEF Submit, JvmState
  <2>2. run'[j].stage # "claiming"
    BY <1>0, <1>12 DEF Submit, Run, NoRun
  <2>3. ep' = ep /\ passed' = passed
    BY <1>12 DEF Submit
  <2> QED BY <1>10, <2>1, <2>2, <2>3
<1>13. CASE PoolStep(j) \/ \E p \in Busy(j) : InsertFails(p)
  <2>1. ep' = ep /\ passed' = passed /\ run' = run
    BY <1>13 DEF PoolStep, Take, Measure, Escape, Borrow, insertResult, InsertFails, vars
  <2>2. jvm'[j].todo = jvm[j].todo
    BY <1>0, <1>13 DEF PoolStep, Take, Measure, Escape, Borrow, insertResult, InsertFails, JvmState
  <2> QED BY <1>10, <2>1, <2>2
<1>14. CASE Shutdown(j) \/ main(j)
  <2>1. ep' = ep /\ passed' = passed /\ run' = run
    BY <1>14 DEF Shutdown, main, vars
  <2>2. jvm'[j].todo = {} \/ jvm'[j].todo = jvm[j].todo
    BY <1>0, <1>14 DEF Shutdown, main, Fresh, JvmState
  <2> QED BY <1>10, <2>1, <2>2
<1>15. CASE Exit(j)
  <2>1. jvm'[j].todo = {} /\ run'[j].stage = "idle"
    BY <1>0, <1>15 DEF Exit, Fresh, NoRun
  <2>2. \A e \in Endpoint : Quiet(e)
    BY <1>15 DEF Exit, KeepPassed
  <2>3. (ClaimFull(j) /\ ep' = Rescheduled(j)) \/ ep' = ep
    BY <1>15 DEF Exit
  <2>4. CASE ClaimFull(j) /\ ep' = Rescheduled(j)
    BY <1>7, <2>1, <2>2, <2>4
  <2>5. CASE ep' = ep
    <3>1. WaitInv'
      BY <1>1, <1>2, <2>2, <2>5
    <3>2. UnbornInv'
      BY <2>5 DEF UnbornInv
    <3> QED BY <1>4, <2>1, <3>1, <3>2
  <2> QED BY <2>3, <2>4, <2>5
<1>16. CASE OtherStep
  <2>1. jvm' = jvm /\ run'[j] = run[j]
    BY <1>0, <1>16, OtherFrame
  <2>2. \A e \in Endpoint : Quiet(e)
    BY <1>16 DEF OtherStep, KeepPassed
  <2>3. ASSUME \A e \in Endpoint : ep'[e] = ep[e] \/ (ep[e].life = "unborn" /\ ep'[e].life = "live")
                  \/ (ep[e].life = "live" /\ ep'[e] = [ep[e] EXCEPT !.life = "deleted"])
        PROVE  WaitInv' /\ SortInv' /\ UnbornInv'
    <3>1. \A e \in Endpoint :
            /\ ep'[e].next_check_at >= ep[e].next_check_at
            /\ ep'[e].life = "unborn" => ep'[e] = ep[e]
            /\ ep[e].life # "unborn" => /\ ep'[e].life # "unborn"
                                        /\ ep'[e].next_check_at = ep[e].next_check_at
      <4> SUFFICES ASSUME NEW e \in Endpoint
                   PROVE  /\ ep'[e].next_check_at >= ep[e].next_check_at
                          /\ ep'[e].life = "unborn" => ep'[e] = ep[e]
                          /\ ep[e].life # "unborn" => /\ ep'[e].life # "unborn"
                                                      /\ ep'[e].next_check_at = ep[e].next_check_at
        OBVIOUS
      <4>1. ep[e] \in EndpointRow
        BY <1>0 DEF TypeOK
      <4>2. CASE ep'[e] = ep[e]
        BY <1>1, <4>2
      <4>3. CASE ep[e].life = "unborn" /\ ep'[e].life = "live"
        BY <1>1, <4>3 DEF UnbornInv
      <4>4. CASE ep[e].life = "live" /\ ep'[e] = [ep[e] EXCEPT !.life = "deleted"]
        BY <1>1, <4>1, <4>4 DEF EndpointRow
      <4> QED BY <2>3, <4>2, <4>3, <4>4
    <3>2. WaitInv'
      BY <1>2, <2>2, <3>1
    <3>3. UnbornInv'
      BY <3>1 DEF UnbornInv
    <3>4. SortInv'
      <4>1. \A c \in jvm[j].todo : ep'[c.ep].life # "unborn" /\ c.at = ep'[c.ep].next_check_at
        BY <1>0, <1>4, <3>1
      <4>2. run[j].stage = "claiming" =>
              \A r \in run[j].rows : r.ep \in Endpoint /\ ep[r.ep].life = "live"
        BY <1>0 DEF FleetSpacing, LockInv, Run, Claimed
      <4>3. Sorted'
        BY <1>4, <2>1, <3>1, <4>1, <4>2
      <4> QED BY <1>4, <4>3
    <3> QED BY <3>2, <3>3, <3>4
  <2>4. CASE UserStep
    <3>1. ASSUME NEW e \in Endpoint, NEW i \in Interval, add_endpoint(e, i)
          PROVE  WaitInv' /\ SortInv' /\ UnbornInv'
      BY <1>0, <2>3, <3>1 DEF add_endpoint, TypeOK
    <3>2. ASSUME NEW e \in Endpoint, delete_endpoint(e)
          PROVE  WaitInv' /\ SortInv' /\ UnbornInv'
      BY <1>0, <2>3, <3>2 DEF delete_endpoint, TypeOK
    <3>3. \A e, i, a, u : ~update_endpoint(e, i, a, u)
      BY DEF update_endpoint
    <3> QED BY <2>4, <3>1, <3>2, <3>3 DEF UserStep
  <2>5. CASE \/ Advance
             \/ \E k \in queued : Record(k) \/ CheckLost(k)
             \/ purge_old_results
    <3>1. ep' = ep
      BY <2>5 DEF Advance, Record, CheckLost, purge_old_results
    <3> QED BY <2>3, <3>1
  <2> QED BY <1>0, <1>16, <2>4, <2>5 DEF OtherStep, Running
<1> QED BY <1>0, <1>5, <1>6, <1>9, <1>11, <1>12, <1>13, <1>14, <1>15, <1>16
        DEF FleetNext, JvmStep, TickStep

\* Where one JVM dispatches and nobody edits, an endpoint that is due is left to
\* a later claim at most as often as the others fill a batch, however many
\* endpoints there are, whatever fails and however often the JVM is restarted.
THEOREM NobodyStarves ==
  ASSUME IsFiniteSet(Endpoint), "update" \notin Routes, NEW j, Jvm = {j}, Dispatcher = {j}
  PROVE  FleetSpec => []NoStarvation
<1>1. FleetInit => WaitInv /\ SortInv /\ UnbornInv
  <2> SUFFICES ASSUME FleetInit PROVE WaitInv /\ SortInv /\ UnbornInv
    OBVIOUS
  <2>1. \A e \in Endpoint : passed[e] = 0 /\ ep[e] = NoEndpoint
    BY DEF FleetInit, Init
  <2>2. WaitInv
    BY <2>1, LaterFinite, PoolAssumption DEF WaitInv
  <2>3. \A i \in Jvm : jvm[i].todo = {}
    BY DEF FleetInit, Fresh
  <2>4. SortInv
    BY <2>3 DEF SortInv
  <2>5. UnbornInv
    <3>1. NoEndpoint.next_check_at = 0
      BY DEF NoEndpoint
    <3> QED BY <2>1, <3>1 DEF UnbornInv
  <2> QED BY <2>2, <2>4, <2>5
<1>2. FleetTypes /\ FleetTypes' /\ FleetSpacing /\ BatchInv /\ WaitInv /\ SortInv /\ UnbornInv
        /\ [FleetNext]_fleetVars => WaitInv' /\ SortInv' /\ UnbornInv'
  <2>1. CASE FleetNext
    BY <2>1, WaitStep
  <2>2. CASE UNCHANGED fleetVars
    BY <2>2 DEF fleetVars, javaVars, vars, WaitInv, SortInv, UnbornInv, Later
  <2> QED BY <2>1, <2>2
<1>3. FleetTypes /\ WaitInv => NoStarvation
  <2> SUFFICES ASSUME FleetTypes, WaitInv, NEW e \in Endpoint
               PROVE  passed[e] <= (Cardinality(Endpoint) - 1) \div ClaimBatch
    BY DEF NoStarvation
  <2> DEFINE n == Cardinality(Endpoint) - 1
  <2>1. passed[e] * ClaimBatch <= Cardinality(Later(e)) /\ Cardinality(Later(e)) \in Nat
        /\ Cardinality(Later(e)) <= n
    BY LaterFinite DEF WaitInv, FleetTypes, FleetTypeOK
  <2>2. n \in Int /\ passed[e] \in Nat /\ ClaimBatch \in Nat /\ ClaimBatch >= 1
    BY FS_CardinalityType, PoolAssumption DEF FleetTypes, FleetTypeOK
  <2>3. passed[e] * ClaimBatch <= n
    <3>1. passed[e] * ClaimBatch \in Nat
      BY <2>2
    <3> HIDE DEF n
    <3> QED BY <2>1, <2>2, <3>1
  <2> HIDE DEF n
  <2>4. passed[e] <= n \div ClaimBatch
    BY <2>2, <2>3
  <2> QED BY <2>4 DEF n
<1>4. FleetSpec => []FleetSpacing
  BY FleetSpacingInv
<1> QED BY <1>1, <1>2, <1>3, <1>4, FleetTypesInv, Batches, PTL DEF FleetSpec
=============================================================================
