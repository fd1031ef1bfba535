------------------------ MODULE EndpointScheduleProofs ------------------------
(***************************************************************************)
(* Proofs about EndpointSchedule: type correctness, the spacing of claims  *)
(* under any number of dispatchers and any fault, and the absence of false *)
(* staleness reports when one Beat and everything behind it is punctual.   *)
(***************************************************************************)
EXTENDS EndpointSchedule, FiniteSetTheorems, TLAPS

-----------------------------------------------------------------------------
(* Types *)

\* The initial values of rows and runs are of their types.
LEMMA InitialTypes == NoRun \in Run /\ NoEndpoint \in EndpointRow /\ 0 \in Time
  BY IntervalAssumption, TimesAssumption DEF NoRun, Run, NoEndpoint, EndpointRow, Time

\* Times and intervals are natural numbers.
LEMMA ClockTypes ==
  ASSUME TypeOK
  PROVE  /\ now \in Nat /\ lastRun \in Nat
         /\ \A d \in Dispatcher : run[d].now \in Nat /\ run[d].probe_time \in Nat
         /\ \A e \in Endpoint : /\ ep[e].interval \in Nat /\ ep[e].interval >= 1
                               /\ ep[e].interval \in Interval /\ ep[e].gen \in Nat
                               /\ ep[e].next_check_at \in Nat /\ ep[e].monitoring_since \in Nat
<1>1. Time \subseteq Nat
  BY TimesAssumption DEF Time
<1>2. \A i \in Interval : i \in Nat /\ i >= 1
  BY IntervalAssumption
<1>3. \A d \in Dispatcher : run[d].now \in Time /\ run[d].probe_time \in Time
  BY DEF TypeOK, Run
<1>4. \A e \in Endpoint : /\ ep[e].interval \in Interval /\ ep[e].gen \in 0..MaxReschedules
                         /\ ep[e].next_check_at \in Nat /\ ep[e].monitoring_since \in Time
  BY DEF TypeOK, EndpointRow
<1>5. 0..MaxReschedules \subseteq Nat
  BY TimesAssumption
<1>6. now \in Time /\ lastRun \in Time
  BY DEF TypeOK
<1> QED BY <1>1, <1>2, <1>3, <1>4, <1>5, <1>6, Zenon

\* The check that a run makes of a claimed row is a check.
LEMMA CheckForType ==
  ASSUME TypeOK, NEW d \in Dispatcher, NEW r \in run[d].rows
  PROVE  CheckFor(d, r) \in Check
  BY DEF TypeOK, Run, CheckFor, Check

\* Steps of a dispatch run keep the types.
LEMMA TypeDispatch ==
  ASSUME TypeOK, NEW d \in Dispatcher, Start(d) \/ RunStep(d)
  PROVE  TypeOK'
<1> USE DEF TypeOK
<1>1. CASE Start(d)
  BY <1>1, InitialTypes DEF Start, NoRun, Run
<1>2. CASE BeginClaim(d)
  <2>1. [run[d] EXCEPT !.stage = "claiming", !.now = now,
                       !.todo = {e \in Endpoint : Due(e, now)}] \in Run
    BY DEF Run
  <2>2. run' \in [Dispatcher -> Run]
    BY <1>2, <2>1 DEF BeginClaim
  <2> QED BY <1>2, <2>2 DEF BeginClaim
<1>3. ASSUME NEW e \in Endpoint, ClaimRow(d, e)
      PROVE  TypeOK'
  <2> DEFINE row == [ep |-> e, interval |-> ep[e].interval, gen |-> ep[e].gen]
  <2>1. row \in Claimed
    BY DEF EndpointRow, Claimed
  <2>2. \A rows \in SUBSET Claimed :
          [run[d] EXCEPT !.todo = @ \ {e}, !.rows = rows] \in Run
    BY DEF Run
  <2>3. run[d].rows \in SUBSET Claimed /\ run[d].rows \cup {row} \in SUBSET Claimed
    BY <2>1 DEF Run
  <2>4. run' \in [Dispatcher -> Run]
    BY <1>3, <2>2, <2>3 DEF ClaimRow
  <2> QED BY <1>3, <2>4 DEF ClaimRow
<1>4. CASE CommitClaim(d)
  <2>1. \A e \in Endpoint : run[d].now + ep[e].interval \in Nat
    BY ClockTypes
  <2>2. ep' \in [Endpoint -> EndpointRow]
    <3>1. \A e \in Endpoint : [ep[e] EXCEPT !.next_check_at = run[d].now + ep[e].interval]
                                \in EndpointRow
      BY <2>1 DEF EndpointRow
    <3> QED BY <1>4, <3>1 DEF CommitClaim
  <2>3. run' \in [Dispatcher -> Run]
    BY <1>4, InitialTypes DEF CommitClaim, Run
  <2> QED BY <1>4, <2>2, <2>3 DEF CommitClaim
<1>5. ASSUME NEW r \in run[d].rows, Enqueue(d, r)
      PROVE  TypeOK'
  <2>1. CheckFor(d, r) \in Check
    BY CheckForType
  <2>2. run' \in [Dispatcher -> Run]
    BY <1>5, InitialTypes DEF Enqueue, Run
  <2> QED BY <1>5, <2>1, <2>2 DEF Enqueue
<1>6. CASE RunKilled(d)
  <2>1. {CheckFor(d, r) : r \in run[d].rows} \subseteq Check
    BY CheckForType
  <2> QED BY <1>6, <2>1, InitialTypes DEF RunKilled
<1> QED BY <1>1, <1>2, <1>3, <1>4, <1>5, <1>6 DEF RunStep

\* The user's requests keep the types.
LEMMA TypeUser ==
  ASSUME TypeOK, UserStep
  PROVE  TypeOK'
<1> USE DEF TypeOK
<1>1. now \in Nat
  BY TimesAssumption DEF Time
<1>2. ASSUME NEW e \in Endpoint, NEW i \in Interval, add_endpoint(e, i)
      PROVE  TypeOK'
  BY <1>1, <1>2, TimesAssumption DEF add_endpoint, EndpointRow
<1>3. ASSUME NEW e \in Endpoint, NEW i \in Interval, NEW active \in BOOLEAN,
             NEW newUrl \in BOOLEAN, update_endpoint(e, i, active, newUrl)
      PROVE  TypeOK'
  <2> DEFINE R == newUrl \/ i # ep[e].interval \/ (active /\ ~ep[e].is_active)
             new == [ep[e] EXCEPT !.interval = i, !.is_active = active,
                       !.next_check_at = IF R THEN now ELSE @,
                       !.monitoring_since = IF R THEN now ELSE @,
                       !.gen = IF R THEN @ + 1 ELSE @]
  <2>0. R => ep[e].gen + 1 \in 0..MaxReschedules
    BY <1>3, TimesAssumption DEF update_endpoint, EndpointRow
  <2>1. ep' \in [Endpoint -> EndpointRow]
    <3>1. new \in EndpointRow
      BY <1>1, <2>0 DEF EndpointRow
    <3>2. ep' = [ep EXCEPT ![e] = new]
      BY <1>3 DEF update_endpoint
    <3> QED BY <3>1, <3>2
  <2> QED BY <1>3, <2>1 DEF update_endpoint
<1>4. ASSUME NEW e \in Endpoint, delete_endpoint(e)
      PROVE  TypeOK'
  BY <1>4 DEF delete_endpoint, EndpointRow
<1> QED BY <1>2, <1>3, <1>4 DEF UserStep

\* Every step keeps the types.
LEMMA TypeStep == TypeOK /\ [Next]_vars => TypeOK'
<1> SUFFICES ASSUME TypeOK, [Next]_vars PROVE TypeOK'
  OBVIOUS
<1>1. CASE Advance
  BY <1>1, TimesAssumption DEF Advance, TypeOK, Time
<1>2. ASSUME NEW d \in Dispatcher, Start(d) \/ RunStep(d) PROVE TypeOK'
  BY <1>2, TypeDispatch
<1>3. ASSUME NEW k \in queued, Record(k) \/ CheckLost(k) PROVE TypeOK'
  BY <1>3 DEF Record, CheckLost, TypeOK
<1>4. CASE UserStep
  BY <1>4, TypeUser
<1>5. CASE purge_old_results
  BY <1>5 DEF purge_old_results, TypeOK
<1>6. CASE UNCHANGED vars
  BY <1>6 DEF vars, TypeOK
<1> QED BY <1>1, <1>2, <1>3, <1>4, <1>5, <1>6 DEF Next, Running

\* Every reachable state of the schedule is well typed: rows and checks are
\* dated with times that have come.
THEOREM ScheduleTypes == Spec => []TypeOK
<1>1. Init => TypeOK
  BY InitialTypes DEF Init, TypeOK
<1> QED BY <1>1, TypeStep, PTL DEF Spec

-----------------------------------------------------------------------------
(* The spacing of claims *)

\* k is claimed and committed: enqueued, recorded, lost, or still in the hands
\* of the run that claimed it.
IsClaim(k) ==
  \/ k \in Claims
  \/ \E d \in Dispatcher : run[d].stage = "enqueuing" /\ \E r \in run[d].rows : k = CheckFor(d, r)

\* Only a run past its snapshot has rows, at most one per endpoint, and one
\* it has already handled is not in todo.
RowsInv ==
  \A d \in Dispatcher :
    /\ run[d].stage \in {"idle", "started"} => run[d].rows = {}
    /\ \A r, s \in run[d].rows : r.ep = s.ep => r = s
    /\ run[d].stage = "claiming" => \A r \in run[d].rows : r.ep \notin run[d].todo

\* A locked row stays as it was found: due at the run's now(), and no other
\* run has it.
LockInv ==
  \A d \in Dispatcher : run[d].stage = "claiming" =>
    \A r \in run[d].rows :
      /\ ep[r.ep].life = "live"
      /\ r.gen = ep[r.ep].gen
      /\ r.interval = ep[r.ep].interval
      /\ ep[r.ep].next_check_at <= run[d].now
      /\ \A c \in Dispatcher \ {d} : run[c].stage = "claiming" =>
           \A s \in run[c].rows : s.ep # r.ep

\* A claim made under the present settings has moved next_check_at a full
\* interval beyond it.
ClaimInv ==
  \A k \in Check : IsClaim(k) =>
    /\ ep[k.claim.ep].life # "unborn"
    /\ k.claim.gen <= ep[k.claim.ep].gen
    /\ k.claim.gen = ep[k.claim.ep].gen
         => k.claimed_at + k.claim.interval <= ep[k.claim.ep].next_check_at

\* All claims are spaced, those not enqueued yet included.
PairInv ==
  \A j, k \in Check :
    (IsClaim(j) /\ IsClaim(k) /\ j.claim.ep = k.claim.ep
       /\ j.claim.gen = k.claim.gen /\ j # k) => Spaced(j, k)

SpacingInv == RowsInv /\ LockInv /\ ClaimInv /\ PairInv

\* Numbers inside a check.
LEMMA CheckTypes ==
  ASSUME NEW k \in Check
  PROVE  /\ k.claimed_at \in Nat /\ k.checked_at \in Nat /\ k.claim.gen \in Nat
         /\ k.claim.interval \in Nat /\ k.claim.interval >= 1
         /\ k.claim.ep \in Endpoint /\ k.claim \in Claimed
<1>1. Time \subseteq Nat /\ 0..MaxReschedules \subseteq Nat
  BY TimesAssumption DEF Time
<1>2. \A i \in Interval : i \in Nat /\ i >= 1
  BY IntervalAssumption
<1>3. /\ k.claim \in Claimed /\ k.claimed_at \in Time /\ k.checked_at \in Time
  BY DEF Check
<1>4. /\ k.claim.ep \in Endpoint /\ k.claim.interval \in Interval
      /\ k.claim.gen \in 0..MaxReschedules
  BY <1>3 DEF Claimed
<1> QED BY <1>1, <1>2, <1>3, <1>4, Zenon

\* A step that makes no claim and touches no endpoint row keeps the claims
\* spaced.
LEMMA NoNewClaim ==
  ASSUME SpacingInv, ep' = ep, \A k \in Check : IsClaim(k)' => IsClaim(k)
  PROVE  ClaimInv' /\ PairInv'
  BY DEF SpacingInv, ClaimInv, PairInv, Spaced

\* The claims depend on the runs and the three sets of checks only.
LEMMA SameClaims ==
  ASSUME run' = run, UNCHANGED <<queued, lost>>, results' \subseteq results
  PROVE  \A k \in Check : IsClaim(k)' => IsClaim(k)
  BY DEF IsClaim, Claims, CheckFor

\* Steps of a run up to its commit, and after it.
LEMMA SpacingStart ==
  ASSUME TypeOK, SpacingInv, NEW d \in Dispatcher, Start(d) \/ BeginClaim(d)
  PROVE  SpacingInv'
<1>1. /\ ep' = ep
      /\ \A c \in Dispatcher \ {d} : run'[c] = run[c]
      /\ run[d].stage \in {"idle", "started"} /\ run'[d].stage \in {"started", "claiming"}
      /\ run'[d].rows = {}
      /\ UNCHANGED <<queued, results, lost>>
  <2>1. CASE Start(d)
    BY <2>1 DEF Start, NoRun, TypeOK
  <2>2. CASE BeginClaim(d)
    <3>1. run[d].stage = "started" /\ run[d].rows = {}
      BY <2>2 DEF BeginClaim, SpacingInv, RowsInv
    <3> QED BY <2>2, <3>1 DEF BeginClaim, TypeOK, Run
  <2> QED BY <2>1, <2>2
<1>2. \A k \in Check : IsClaim(k)' => IsClaim(k)
  BY <1>1 DEF IsClaim, Claims, CheckFor
<1>3. RowsInv'
  BY <1>1 DEF SpacingInv, RowsInv
<1>4. LockInv'
  BY <1>1 DEF SpacingInv, LockInv
<1> QED BY <1>1, <1>2, <1>3, <1>4, NoNewClaim DEF SpacingInv

\* The claim of a row: nobody else has it, and it is due.
LEMMA SpacingClaimRow ==
  ASSUME TypeOK, SpacingInv, NEW d \in Dispatcher, NEW e \in Endpoint, ClaimRow(d, e)
  PROVE  SpacingInv'
<1> DEFINE r0 == [ep |-> e, interval |-> ep[e].interval, gen |-> ep[e].gen]
<1>1. /\ ep' = ep
      /\ \A c \in Dispatcher \ {d} : run'[c] = run[c]
      /\ run[d].stage = "claiming" /\ run'[d].stage = "claiming"
      /\ run'[d].now = run[d].now
      /\ run'[d].todo = run[d].todo \ {e} /\ e \in run[d].todo
      /\ UNCHANGED <<queued, results, lost>>
  BY DEF ClaimRow, TypeOK, Run
<1>2. run'[d].rows = run[d].rows \/ (Due(e, run[d].now) /\ run'[d].rows = run[d].rows \cup {r0})
  BY DEF ClaimRow, TypeOK, Run
<1>3. \A k \in Check : IsClaim(k)' => IsClaim(k)
  BY <1>1 DEF IsClaim, Claims, CheckFor
<1>4. RowsInv'
  <2>1. \A r \in run[d].rows : r.ep # e
    BY <1>1 DEF SpacingInv, RowsInv
  <2>2. r0.ep = e
    OBVIOUS
  <2>3. \A c \in Dispatcher \ {d} :
          /\ run'[c].stage \in {"idle", "started"} => run'[c].rows = {}
          /\ \A r, s \in run'[c].rows : r.ep = s.ep => r = s
          /\ run'[c].stage = "claiming" => \A r \in run'[c].rows : r.ep \notin run'[c].todo
    BY <1>1 DEF SpacingInv, RowsInv
  <2>4. \A r, s \in run'[d].rows : r.ep = s.ep => r = s
    BY <1>2, <2>1, <2>2 DEF SpacingInv, RowsInv
  <2>5. \A r \in run'[d].rows : r.ep \notin run'[d].todo
    BY <1>1, <1>2, <2>2 DEF SpacingInv, RowsInv
  <2> QED BY <1>1, <2>3, <2>4, <2>5 DEF RowsInv
<1>5. LockInv'
  <2>1. \A c \in Dispatcher : run[c].stage = "claiming" => \A s \in run[c].rows : s.ep # e
    BY DEF ClaimRow, RowLocked
  <2>2. Due(e, run[d].now) => /\ ep[e].life = "live"
                              /\ ep[e].next_check_at <= run[d].now
    BY DEF Due
  <2>3. r0.ep = e /\ r0.gen = ep[e].gen /\ r0.interval = ep[e].interval
    OBVIOUS
  <2> QED BY <1>1, <1>2, <2>1, <2>2, <2>3 DEF SpacingInv, LockInv
<1> QED BY <1>1, <1>3, <1>4, <1>5, NoNewClaim DEF SpacingInv

\* The commit: every row was due at the run's now(), so earlier claims lie an
\* interval back, and it moves next_check_at an interval on.
LEMMA SpacingCommit ==
  ASSUME TypeOK, SpacingInv, NEW d \in Dispatcher, CommitClaim(d)
  PROVE  SpacingInv'
<1> USE DEF SpacingInv
<1>1. /\ \A c \in Dispatcher \ {d} : run'[c] = run[c]
      /\ run[d].stage = "claiming"
      /\ UNCHANGED <<queued, results, lost>>
      /\ \/ run'[d] = NoRun /\ run[d].rows = {}
         \/ /\ run'[d].stage = "enqueuing" /\ run'[d].rows = run[d].rows
            /\ run'[d].now = run[d].now /\ run'[d].probe_time = run[d].probe_time
  BY DEF CommitClaim, TypeOK, Run
<1>2. \A e \in Endpoint : /\ ep'[e].life = ep[e].life /\ ep'[e].gen = ep[e].gen
                          /\ ep'[e].interval = ep[e].interval
                          /\ RowsFor(d, e) # {} => ep'[e].next_check_at = run[d].now + ep[e].interval
                          /\ RowsFor(d, e) = {} => ep'[e].next_check_at = ep[e].next_check_at
  BY DEF CommitClaim, TypeOK, EndpointRow
<1>3. \A e \in Endpoint : ep'[e].next_check_at >= ep[e].next_check_at
  <2> SUFFICES ASSUME NEW e \in Endpoint PROVE ep'[e].next_check_at >= ep[e].next_check_at
    OBVIOUS
  <2>1. CASE RowsFor(d, e) = {}
    BY <1>2, <2>1, ClockTypes
  <2>2. CASE RowsFor(d, e) # {}
    <3>1. ep[e].next_check_at <= run[d].now
      BY <1>1, <2>2 DEF RowsFor, LockInv
    <3> QED BY <1>2, <2>2, <3>1, ClockTypes
  <2> QED BY <2>1, <2>2
<1>4. RowsInv'
  BY <1>1 DEF RowsInv, NoRun
<1>5. LockInv'
  <2> SUFFICES ASSUME NEW c \in Dispatcher, run'[c].stage = "claiming", NEW r \in run'[c].rows
               PROVE  /\ ep'[r.ep].life = "live" /\ r.gen = ep'[r.ep].gen
                      /\ r.interval = ep'[r.ep].interval
                      /\ ep'[r.ep].next_check_at <= run'[c].now
                      /\ \A b \in Dispatcher \ {c} : run'[b].stage = "claiming" =>
                           \A s \in run'[b].rows : s.ep # r.ep
    BY DEF LockInv
  <2>1. c # d /\ run'[c] = run[c]
    BY <1>1 DEF NoRun
  <2>2. r.ep \in Endpoint
    BY <2>1 DEF TypeOK, Run, Claimed
  <2>3. RowsFor(d, r.ep) = {}
    BY <1>1, <2>1 DEF LockInv, RowsFor
  <2>4. \A b \in Dispatcher : run'[b].stage = "claiming" => run'[b] = run[b]
    BY <1>1 DEF NoRun
  <2> QED BY <1>2, <2>1, <2>2, <2>3, <2>4 DEF LockInv
<1> DEFINE New(k) == \E r \in run[d].rows : k = CheckFor(d, r)
<1>6. \A k \in Check : IsClaim(k)' => IsClaim(k) \/ New(k)
  BY <1>1 DEF IsClaim, Claims, CheckFor, NoRun
<1>7. \A k \in Check : New(k) =>
        /\ ep[k.claim.ep].life = "live" /\ k.claim.gen = ep[k.claim.ep].gen
        /\ k.claim.interval = ep[k.claim.ep].interval
        /\ k.claimed_at = run[d].now /\ ep[k.claim.ep].next_check_at <= run[d].now
        /\ RowsFor(d, k.claim.ep) # {}
  BY <1>1 DEF CheckFor, LockInv, RowsFor
<1>8. ClaimInv'
  <2> SUFFICES ASSUME NEW k \in Check, IsClaim(k)'
               PROVE  /\ ep'[k.claim.ep].life # "unborn"
                      /\ k.claim.gen <= ep'[k.claim.ep].gen
                      /\ k.claim.gen = ep'[k.claim.ep].gen
                           => k.claimed_at + k.claim.interval <= ep'[k.claim.ep].next_check_at
    BY DEF ClaimInv
  <2>1. CASE IsClaim(k)
    BY <1>2, <1>3, <2>1, CheckTypes, ClockTypes DEF ClaimInv
  <2>2. CASE New(k)
    BY <1>2, <1>7, <2>2, CheckTypes, ClockTypes
  <2> QED BY <1>6, <2>1, <2>2
<1>9. \A j, k \in Check : (IsClaim(j) /\ New(k) /\ j.claim.ep = k.claim.ep
                             /\ j.claim.gen = k.claim.gen) => Spaced(j, k) /\ Spaced(k, j)
  <2> SUFFICES ASSUME NEW j \in Check, NEW k \in Check, IsClaim(j), New(k),
                      j.claim.ep = k.claim.ep, j.claim.gen = k.claim.gen
               PROVE  Spaced(j, k) /\ Spaced(k, j)
    OBVIOUS
  <2>1. j.claimed_at + j.claim.interval <= ep[j.claim.ep].next_check_at
    BY <1>7 DEF ClaimInv
  <2>2. ep[k.claim.ep].next_check_at <= k.claimed_at
    BY <1>7
  <2>3. j.claimed_at + j.claim.interval <= k.claimed_at
    BY <2>1, <2>2, CheckTypes, ClockTypes
  <2> QED BY <2>3 DEF Spaced
<1>10. \A j, k \in Check : (New(j) /\ New(k) /\ j.claim.ep = k.claim.ep) => j = k
  BY DEF CheckFor, RowsInv
<1>11. PairInv'
  BY <1>6, <1>9, <1>10 DEF PairInv, Spaced
<1> QED BY <1>4, <1>5, <1>8, <1>11

\* After the commit a claim only changes hands.
LEMMA SpacingEnd ==
  ASSUME TypeOK, SpacingInv, NEW d \in Dispatcher,
         (\E r \in run[d].rows : Enqueue(d, r)) \/ RunKilled(d)
  PROVE  SpacingInv'
<1>1. /\ ep' = ep /\ UNCHANGED results
      /\ \A c \in Dispatcher \ {d} : run'[c] = run[c]
      /\ \/ run'[d] = NoRun
         \/ /\ run[d].stage = "enqueuing" /\ run'[d].stage = "enqueuing"
            /\ run'[d].rows \subseteq run[d].rows
            /\ run'[d].now = run[d].now /\ run'[d].probe_time = run[d].probe_time
      /\ \A k \in queued' \cup lost' :
           \/ k \in queued \cup lost
           \/ run[d].stage = "enqueuing" /\ \E r \in run[d].rows : k = CheckFor(d, r)
  <2>1. ASSUME NEW r \in run[d].rows, Enqueue(d, r)
        PROVE  <1>1!:
    BY <2>1 DEF Enqueue, TypeOK, Run
  <2>2. CASE RunKilled(d)
    BY <2>2 DEF RunKilled, TypeOK
  <2> QED BY <2>1, <2>2
<1>2. \A k \in Check : IsClaim(k)' => IsClaim(k)
  BY <1>1 DEF IsClaim, Claims, CheckFor, NoRun
<1>3. RowsInv'
  BY <1>1 DEF SpacingInv, RowsInv, NoRun
<1>4. LockInv'
  BY <1>1 DEF SpacingInv, LockInv, NoRun
<1> QED BY <1>1, <1>2, <1>3, <1>4, NoNewClaim DEF SpacingInv

\* The user has changed the row of e and nothing else, while no run had it
\* locked: made it, rescheduled it, or left its schedule alone.
Touched(e) ==
  /\ \A c \in Endpoint \ {e} : ep'[c] = ep[c]
  /\ \/ ep[e].life = "unborn" /\ ep'[e].life = "live"
     \/ /\ ~RowLocked(e) /\ ep[e].life = "live" /\ ep'[e].life # "unborn"
        /\ \/ ep'[e].gen = ep[e].gen /\ ep'[e].next_check_at = ep[e].next_check_at
                                      /\ ep'[e].interval = ep[e].interval
           \/ ep'[e].gen = ep[e].gen + 1

\* What a step of the user may change.
LEMMA UserTouches ==
  ASSUME TypeOK, UserStep
  PROVE  /\ UNCHANGED <<now, run, lastRun, queued, lost>> /\ results' \subseteq results
         /\ \E e \in Endpoint : Touched(e)
<1> DEFINE Kept == UNCHANGED <<now, run, lastRun, queued, lost>> /\ results' \subseteq results
<1>1. ASSUME NEW e \in Endpoint, NEW i \in Interval, add_endpoint(e, i)
      PROVE  Kept /\ Touched(e)
  BY <1>1 DEF add_endpoint, TypeOK, Touched
<1>2. ASSUME NEW e \in Endpoint, NEW i \in Interval, NEW active \in BOOLEAN,
             NEW newUrl \in BOOLEAN, update_endpoint(e, i, active, newUrl)
      PROVE  Kept /\ Touched(e)
  <2>1. Kept /\ \A c \in Endpoint \ {e} : ep'[c] = ep[c]
    BY <1>2 DEF update_endpoint, TypeOK
  <2>2. ~RowLocked(e) /\ ep[e].life = "live"
    BY <1>2 DEF update_endpoint
  <2>3. ep'[e].life = ep[e].life
    BY <1>2 DEF update_endpoint, TypeOK, EndpointRow
  <2>4. CASE newUrl \/ i # ep[e].interval \/ (active /\ ~ep[e].is_active)
    <3>1. ep'[e].gen = ep[e].gen + 1
      BY <1>2, <2>4 DEF update_endpoint, TypeOK, EndpointRow
    <3> QED BY <2>1, <2>2, <2>3, <3>1 DEF Touched
  <2>5. CASE ~(newUrl \/ i # ep[e].interval \/ (active /\ ~ep[e].is_active))
    <3>1. /\ ep'[e].gen = ep[e].gen /\ ep'[e].next_check_at = ep[e].next_check_at
          /\ ep'[e].interval = ep[e].interval
      BY <1>2, <2>5 DEF update_endpoint, TypeOK, EndpointRow
    <3> QED BY <2>1, <2>2, <2>3, <3>1 DEF Touched
  <2> QED BY <2>4, <2>5
<1>3. ASSUME NEW e \in Endpoint, delete_endpoint(e)
      PROVE  Kept /\ Touched(e)
  BY <1>3 DEF delete_endpoint, TypeOK, EndpointRow, Touched
<1>4. PICK e \in Endpoint :
        \/ \E i \in Interval : add_endpoint(e, i)
        \/ \E i \in Interval, active, newUrl \in BOOLEAN : update_endpoint(e, i, active, newUrl)
        \/ delete_endpoint(e)
  BY DEF UserStep
<1>5. Kept /\ Touched(e)
  <2> HIDE DEF Kept
  <2> QED BY <1>1, <1>2, <1>3, <1>4
<1> QED BY <1>5

\* A step of the user on an endpoint that no run has locked. Rescheduling
\* starts a new count of settings, under which nothing is claimed yet.
LEMMA SpacingUser ==
  ASSUME TypeOK, SpacingInv, UserStep
  PROVE  SpacingInv'
<1> USE DEF SpacingInv
<1>1. UNCHANGED <<run, queued, lost>> /\ results' \subseteq results
  BY UserTouches
<1>2. PICK e \in Endpoint : Touched(e)
  BY UserTouches
<1>3. \A k \in Check : IsClaim(k)' => IsClaim(k)
  BY <1>1, SameClaims
<1>4. RowsInv'
  BY <1>1 DEF RowsInv
<1>5. LockInv'
  <2>1. \A d \in Dispatcher : run[d].stage = "claiming" => \A r \in run[d].rows : r.ep # e
    BY <1>2 DEF Touched, RowLocked, LockInv
  <2>2. \A d \in Dispatcher : \A r \in run[d].rows : r.ep \in Endpoint
    BY DEF TypeOK, Run, Claimed
  <2> QED BY <1>1, <1>2, <2>1, <2>2 DEF Touched, LockInv
<1>6. ClaimInv'
  <2> SUFFICES ASSUME NEW k \in Check, IsClaim(k)
               PROVE  /\ ep'[k.claim.ep].life # "unborn"
                      /\ k.claim.gen <= ep'[k.claim.ep].gen
                      /\ k.claim.gen = ep'[k.claim.ep].gen
                           => k.claimed_at + k.claim.interval <= ep'[k.claim.ep].next_check_at
    BY <1>3 DEF ClaimInv
  <2> QED BY <1>2, CheckTypes, ClockTypes DEF Touched, ClaimInv
<1>7. PairInv'
  BY <1>3 DEF PairInv, Spaced
<1> QED BY <1>4, <1>5, <1>6, <1>7

\* SpacingInv is inductive.
LEMMA SpacingStep ==
  ASSUME TypeOK, SpacingInv, [Next]_vars
  PROVE  SpacingInv'
<1>1. ASSUME NEW d \in Dispatcher, Start(d) \/ RunStep(d) PROVE SpacingInv'
  BY <1>1, SpacingStart, SpacingClaimRow, SpacingCommit, SpacingEnd DEF RunStep
<1>2. CASE UserStep
  BY <1>2, SpacingUser
<1>3. CASE \/ Advance
           \/ \E k \in queued : Record(k) \/ CheckLost(k)
           \/ purge_old_results
           \/ UNCHANGED vars
  <2>1. run' = run /\ ep' = ep /\ Claims' \subseteq Claims
    BY <1>3 DEF Advance, Record, CheckLost, purge_old_results, vars, Claims
  <2>2. \A k \in Check : IsClaim(k)' => IsClaim(k)
    BY <2>1 DEF IsClaim, CheckFor
  <2>3. RowsInv' /\ LockInv'
    BY <2>1 DEF SpacingInv, RowsInv, LockInv
  <2> QED BY <2>1, <2>2, <2>3, NoNewClaim DEF SpacingInv
<1> QED BY <1>1, <1>2, <1>3 DEF Next, Running

\* No endpoint is claimed twice within its interval without a reschedule in
\* between, for any number of concurrent dispatch_due_checks runs, whatever is
\* killed, lost or late.
THEOREM ClaimsAreSpaced == Spec => []ClaimsSpaced
<1>1. Init => SpacingInv
  BY DEF Init, SpacingInv, RowsInv, LockInv, ClaimInv, PairInv, IsClaim, Claims, NoRun
<1>2. TypeOK /\ SpacingInv /\ [Next]_vars => SpacingInv'
  BY SpacingStep
<1>3. TypeOK /\ SpacingInv => ClaimsSpaced
  BY DEF TypeOK, SpacingInv, PairInv, IsClaim, Claims, ClaimsSpaced
<1> QED BY <1>1, <1>2, <1>3, ScheduleTypes, PTL DEF Spec

-----------------------------------------------------------------------------
(* When one Beat dispatches and Beat, worker and database keep their       *)
(* times, is_overdue never holds. The argument follows a check from the    *)
(* result it has to follow to its own row: next_check_at lies at most an   *)
(* interval and a run beyond the result, the run that claims it starts at  *)
(* most a tick later, and its row is there a run and a check after that.   *)

\* compose.yaml runs one Beat, and a run ends before the next begins.
OneBeat == \A c, d \in Dispatcher : c = d

\* OVERDUE_GRACE_SECONDS covers a tick, two runs and a check.
GraceCovers == TickPeriod + 2 * RunTime + CheckTime <= Grace

-----------------------------------------------------------------------------
(* The inductive invariant *)

Active(e) == ep[e].life = "live" /\ ep[e].is_active

\* Everything that is dated has happened, and everything under way is in time.
ClockInv ==
  /\ lost = {}
  /\ lastRun <= now /\ now <= lastRun + TickPeriod
  /\ \A d \in Dispatcher : run[d].stage # "idle" =>
       run[d].probe_time = lastRun /\ now <= lastRun + RunTime
  /\ \A d \in Dispatcher : run[d].stage \in {"claiming", "enqueuing"} =>
       lastRun <= run[d].now /\ run[d].now <= now
  /\ \A k \in queued : now <= k.checked_at + RunTime + CheckTime
  /\ \A k \in Check : IsClaim(k) => k.checked_at <= now
  /\ \A e \in Endpoint : ep[e].monitoring_since <= now

\* The run under way will still come to e.
InHand(e) ==
  \E d \in Dispatcher :
    \/ run[d].stage = "started"
    \/ run[d].stage = "claiming" /\ (e \in run[d].todo \/ RowsFor(d, e) # {})

\* No run leaves a due endpoint behind.
DueInv ==
  \A e \in Endpoint : Active(e) =>
    /\ lastRun <= ep[e].next_check_at + TickPeriod
    /\ ep[e].next_check_at < lastRun => InHand(e)

\* The times an endpoint may have to be measured from: now, or once the
\* claims that are under way are recorded.
IsBase(e, b) ==
  \/ b = ep[e].monitoring_since
  \/ \E k \in Check : IsClaim(k) /\ k.claim.ep = e /\ k.checked_at = b
                        /\ b > ep[e].monitoring_since

Deadline(e, b) == b + ep[e].interval + Grace

\* A later claim whose row comes before b runs out.
Relief(e, b, k) ==
  /\ IsClaim(k) /\ k.claim.ep = e
  /\ k.checked_at > b
  /\ k.checked_at + RunTime + CheckTime <= Deadline(e, b)

\* Either the next check is scheduled early enough, or it is already claimed.
Covered(e, b) ==
  \/ ep[e].next_check_at <= b + ep[e].interval + RunTime
  \/ \E k \in Check : Relief(e, b, k)

CoverInv ==
  \A e \in Endpoint : Active(e) =>
    \A b \in Time : (IsBase(e, b) /\ now <= Deadline(e, b)) => Covered(e, b)

IsRecorded(e, b) ==
  \/ b = ep[e].monitoring_since
  \/ \E k \in results : k.claim.ep = e /\ k.checked_at = b /\ b > ep[e].monitoring_since

\* Some recorded time has not run out.
FreshInv ==
  \A e \in Endpoint : Active(e) =>
    \E b \in Time : IsRecorded(e, b) /\ now <= Deadline(e, b)

OverdueInv == ClockInv /\ DueInv /\ CoverInv /\ FreshInv

-----------------------------------------------------------------------------
(* Steps that leave the endpoint rows and the clock alone *)

\* Coverage survives where no claim is made and none is dropped that some
\* unexpired time relies on.
LEMMA CoverKept ==
  ASSUME TypeOK, CoverInv, ep' = ep, now' = now,
         \A k \in Check : IsClaim(k)' => IsClaim(k),
         \A e \in Endpoint, b \in Time, k \in Check :
           (Active(e) /\ now <= Deadline(e, b) /\ Relief(e, b, k)) => IsClaim(k)'
  PROVE  CoverInv'
<1> SUFFICES ASSUME NEW e \in Endpoint, Active(e), NEW b \in Time, IsBase(e, b)',
                    now <= Deadline(e, b)
             PROVE  Covered(e, b)'
  BY DEF CoverInv, Active, Deadline
<1>1. IsBase(e, b)
  BY DEF IsBase
<1>2. Covered(e, b)
  BY <1>1 DEF CoverInv
<1> QED BY <1>2 DEF Covered, Relief, Deadline

\* A recorded time that has not run out stays so.
LEMMA FreshKept ==
  ASSUME TypeOK, FreshInv, ep' = ep, now' = now,
         \A e \in Endpoint, k \in results :
           (Active(e) /\ k.claim.ep = e /\ now <= Deadline(e, k.checked_at)) => k \in results'
  PROVE  FreshInv'
<1> SUFFICES ASSUME NEW e \in Endpoint, Active(e)
             PROVE  \E b \in Time : IsRecorded(e, b)' /\ now <= Deadline(e, b)
  BY DEF FreshInv, Active, Deadline
<1>1. PICK b \in Time : IsRecorded(e, b) /\ now <= Deadline(e, b)
  BY DEF FreshInv
<1> QED BY <1>1 DEF IsRecorded

\* A run starts: the last one left nothing due behind, so what is due now has
\* been so for less than a tick.
LEMMA OverdueStart ==
  ASSUME TypeOK, SpacingInv, OverdueInv, OneBeat, NEW d \in Dispatcher, Start(d)
  PROVE  OverdueInv'
<1> USE DEF OverdueInv
<1>1. /\ ep' = ep /\ now' = now /\ lastRun' = now /\ UNCHANGED <<queued, results, lost>>
      /\ run[d].stage = "idle" /\ run'[d].stage = "started" /\ run'[d].probe_time = now
      /\ \A c \in Dispatcher : c = d
  BY DEF Start, NoRun, TypeOK, OneBeat
<1>2. \A k \in Check : IsClaim(k)' <=> IsClaim(k)
  BY <1>1 DEF IsClaim, Claims
<1>3. ClockInv'
  BY <1>1, <1>2, ClockTypes, TimesAssumption DEF ClockInv
<1>4. DueInv'
  <2>1. \A e \in Endpoint : ~InHand(e)
    BY <1>1 DEF InHand
  <2>2. \A e \in Endpoint : Active(e) => lastRun <= ep[e].next_check_at
    BY <2>1, ClockTypes DEF DueInv
  <2>3. \A e \in Endpoint : InHand(e)'
    BY <1>1 DEF InHand
  <2>4. now <= lastRun + TickPeriod
    BY DEF ClockInv
  <2>5. \A e \in Endpoint : Active(e) => now <= ep[e].next_check_at + TickPeriod
    BY <2>2, <2>4, ClockTypes, TimesAssumption
  <2> QED BY <1>1, <2>3, <2>5 DEF DueInv, Active
<1>5. CoverInv'
  BY <1>1, <1>2, CoverKept DEF Relief
<1>6. FreshInv'
  BY <1>1, FreshKept
<1> QED BY <1>3, <1>4, <1>5, <1>6

\* Its snapshot and its locks: what is due is in hand.
LEMMA OverdueClaiming ==
  ASSUME TypeOK, SpacingInv, OverdueInv, OneBeat, NEW d \in Dispatcher,
         BeginClaim(d) \/ \E e \in Endpoint : ClaimRow(d, e)
  PROVE  OverdueInv'
<1> USE DEF OverdueInv
<1>1. /\ ep' = ep /\ now' = now /\ lastRun' = lastRun /\ UNCHANGED <<queued, results, lost>>
      /\ run[d].stage \in {"started", "claiming"} /\ run'[d].stage = "claiming"
      /\ run'[d].probe_time = run[d].probe_time
      /\ \/ run'[d].now = now
         \/ run[d].stage = "claiming" /\ run'[d].now = run[d].now
      /\ \A c \in Dispatcher : c = d
  <2>1. CASE BeginClaim(d)
    BY <2>1 DEF BeginClaim, TypeOK, Run, OneBeat
  <2>2. CASE \E e \in Endpoint : ClaimRow(d, e)
    <3>1. PICK e \in Endpoint : ClaimRow(d, e)
      BY <2>2
    <3>2. run[d] \in Run /\ DOMAIN run = Dispatcher
      BY DEF TypeOK
    <3>3. /\ run[d].stage = "claiming" /\ run'[d].stage = "claiming"
          /\ run'[d].probe_time = run[d].probe_time /\ run'[d].now = run[d].now
      BY <3>1, <3>2 DEF ClaimRow, TypeOK, Run
    <3> QED BY <3>1, <3>3 DEF ClaimRow, OneBeat
  <2> QED BY <2>1, <2>2
<1>2. \A k \in Check : IsClaim(k)' <=> IsClaim(k)
  BY <1>1 DEF IsClaim, Claims
<1>3. ClockInv'
  BY <1>1, <1>2, ClockTypes, TimesAssumption DEF ClockInv
<1>4. DueInv'
  <2> SUFFICES ASSUME NEW e \in Endpoint, Active(e), ep[e].next_check_at < lastRun
               PROVE  InHand(e)'
    BY <1>1 DEF DueInv, Active
  <2>1. InHand(e)
    BY DEF DueInv
  <2>2. CASE BeginClaim(d)
    <3>1. Due(e, now)
      BY ClockTypes DEF Due, Active, ClockInv
    <3>2. e \in run'[d].todo
      BY <2>2, <3>1 DEF BeginClaim, TypeOK, Run
    <3> QED BY <1>1, <3>2 DEF InHand
  <2>3. ASSUME NEW f \in Endpoint, ClaimRow(d, f) PROVE InHand(e)'
    <3>1. /\ run[d].stage = "claiming" /\ run'[d].todo = run[d].todo \ {f}
          /\ run[d].rows \subseteq run'[d].rows
          /\ Due(f, run[d].now) => [ep |-> f, interval |-> ep[f].interval, gen |-> ep[f].gen]
                                     \in run'[d].rows
      <4>1. run \in [Dispatcher -> Run] /\ run[d] \in Run
        BY DEF TypeOK
      <4>2. run[d].stage = "claiming" /\ run'[d].todo = run[d].todo \ {f}
        BY <2>3, <4>1 DEF ClaimRow, Run
      <4>3. run'[d].rows = IF Due(f, run[d].now)
              THEN run[d].rows \cup {[ep |-> f, interval |-> ep[f].interval, gen |-> ep[f].gen]}
              ELSE run[d].rows
        BY <2>3, <4>1 DEF ClaimRow, Run
      <4> QED BY <4>2, <4>3
    <3>2. e \in run[d].todo \/ RowsFor(d, e) # {}
      BY <1>1, <2>1, <3>1 DEF InHand
    <3>3. Due(e, run[d].now)
      BY <3>1, ClockTypes DEF Due, Active, ClockInv
    <3>4. e \in run'[d].todo \/ \E r \in run'[d].rows : r.ep = e
      BY <3>1, <3>2, <3>3 DEF RowsFor
    <3> QED BY <1>1, <3>4 DEF InHand, RowsFor
  <2> QED BY <2>2, <2>3
<1>5. CoverInv'
  BY <1>1, <1>2, CoverKept DEF Relief
<1>6. FreshInv'
  BY <1>1, FreshKept
<1> QED BY <1>3, <1>4, <1>5, <1>6

\* The claim is committed. Its result will be dated lastRun: a time before
\* that is relieved by it, one from then on finds next_check_at near enough.
LEMMA OverdueCommit ==
  ASSUME TypeOK, SpacingInv, OverdueInv, OneBeat, GraceCovers,
         NEW d \in Dispatcher, CommitClaim(d)
  PROVE  OverdueInv'
<1> USE DEF OverdueInv
<1> DEFINE New(k) == \E r \in run[d].rows : k = CheckFor(d, r)
<1>1. /\ now' = now /\ lastRun' = lastRun /\ UNCHANGED <<queued, results, lost>>
      /\ run[d].stage = "claiming" /\ run[d].todo = {}
      /\ \/ run'[d] = NoRun /\ run[d].rows = {}
         \/ /\ run'[d].stage = "enqueuing" /\ run'[d].rows = run[d].rows
            /\ run'[d].now = run[d].now /\ run'[d].probe_time = run[d].probe_time
      /\ \A c \in Dispatcher : c = d
  BY DEF CommitClaim, TypeOK, Run, OneBeat
<1>2. \A e \in Endpoint :
        /\ ep'[e].life = ep[e].life /\ ep'[e].is_active = ep[e].is_active
        /\ ep'[e].interval = ep[e].interval
        /\ ep'[e].monitoring_since = ep[e].monitoring_since
        /\ RowsFor(d, e) # {} => ep'[e].next_check_at = run[d].now + ep[e].interval
        /\ RowsFor(d, e) = {} => ep'[e].next_check_at = ep[e].next_check_at
  BY DEF CommitClaim, TypeOK, EndpointRow
<1>3. /\ \A k \in Check : IsClaim(k)' => IsClaim(k) \/ New(k)
      /\ \A k \in Check : IsClaim(k) \/ New(k) => IsClaim(k)'
  <2>1. \A k \in Check : IsClaim(k)' => IsClaim(k) \/ New(k)
    BY <1>1 DEF IsClaim, Claims, CheckFor, NoRun
  <2>2. \A k \in Check : IsClaim(k) => IsClaim(k)'
    BY <1>1 DEF IsClaim, Claims
  <2>3. \A k \in Check : New(k) => IsClaim(k)'
    BY <1>1 DEF IsClaim, CheckFor
  <2> QED BY <2>1, <2>2, <2>3
<1>4. /\ run[d].probe_time = lastRun /\ now <= lastRun + RunTime
      /\ lastRun <= run[d].now /\ run[d].now <= now
      /\ \A k \in Check : New(k) => k.checked_at = lastRun
  BY <1>1 DEF ClockInv, CheckFor
<1>5. ClockInv'
  <2>1. \A k \in Check : IsClaim(k)' => k.checked_at <= now
    BY <1>3, <1>4, ClockTypes DEF ClockInv
  <2> QED BY <1>1, <1>2, <1>4, <2>1 DEF ClockInv, NoRun
<1>6. DueInv'
  <2> SUFFICES ASSUME NEW e \in Endpoint, Active(e)
               PROVE  lastRun <= ep'[e].next_check_at
    BY <1>1, <1>2, ClockTypes, TimesAssumption, <1>4 DEF DueInv, Active
  <2>1. CASE RowsFor(d, e) = {}
    <3>1. ~InHand(e)
      BY <1>1, <2>1 DEF InHand
    <3> QED BY <1>2, <2>1, <3>1, ClockTypes DEF DueInv
  <2>2. CASE RowsFor(d, e) # {}
    BY <1>2, <1>4, <2>2, ClockTypes
  <2> QED BY <2>1, <2>2
<1>7. CoverInv'
  <2> SUFFICES ASSUME NEW e \in Endpoint, Active(e), NEW b \in Time, IsBase(e, b)',
                      now <= Deadline(e, b)
               PROVE  Covered(e, b)'
    BY <1>1, <1>2 DEF CoverInv, Active, Deadline
  <2>0. b \in Nat
    BY TimesAssumption DEF Time
  <2>1. \A k \in Check : Relief(e, b, k) => Covered(e, b)'
    BY <1>2, <1>3 DEF Covered, Relief, Deadline
  <2>2. IsBase(e, b) => ep[e].next_check_at <= b + ep[e].interval + RunTime \/ Covered(e, b)'
    BY <2>1 DEF CoverInv, Covered
  <2>3. CASE RowsFor(d, e) = {}
    <3>1. \A k \in Check : New(k) => k.claim.ep # e
      BY <2>3 DEF RowsFor, CheckFor
    <3>2. IsBase(e, b)
      BY <1>2, <1>3, <3>1 DEF IsBase
    <3> QED BY <1>2, <2>2, <2>3, <3>2 DEF Covered
  <2>4. CASE RowsFor(d, e) # {} /\ b >= lastRun
    <3>1. ep'[e].next_check_at <= b + ep[e].interval + RunTime
      BY <1>2, <1>4, <2>0, <2>4, ClockTypes, TimesAssumption
    <3> QED BY <1>2, <3>1 DEF Covered
  <2>5. CASE RowsFor(d, e) # {} /\ b < lastRun
    <3>1. IsBase(e, b)
      <4>1. \A k \in Check : New(k) => k.checked_at # b
        BY <1>4, <2>0, <2>5, ClockTypes
      <4> QED BY <1>2, <1>3, <4>1 DEF IsBase
    <3>2. SUFFICES ASSUME ep[e].next_check_at <= b + ep[e].interval + RunTime
                   PROVE  Covered(e, b)'
      BY <2>2, <3>1
    <3>3. PICK r \in run[d].rows : r.ep = e
      BY <2>5 DEF RowsFor
    <3>a. PICK k \in Check : k = CheckFor(d, r)
      BY CheckForType
    <3>4. IsClaim(k)' /\ k.claim.ep = e /\ k.checked_at = lastRun
      BY <1>3, <1>4, <3>3, <3>a DEF CheckFor
    <3>5. lastRun <= ep[e].next_check_at + TickPeriod
      BY DEF DueInv
    <3>6. lastRun + RunTime + CheckTime <= b + ep[e].interval + Grace
      BY <2>0, <3>2, <3>5, ClockTypes, TimesAssumption DEF GraceCovers
    <3> QED BY <1>2, <2>5, <3>4, <3>6 DEF Covered, Relief, Deadline
  <2>6. b >= lastRun \/ b < lastRun
    BY <2>0, ClockTypes
  <2> QED BY <2>3, <2>4, <2>5, <2>6
<1>8. FreshInv'
  BY <1>1, <1>2 DEF FreshInv, Active, IsRecorded, Deadline
<1> QED BY <1>5, <1>6, <1>7, <1>8

\* A claim goes from the run to the queue.
LEMMA OverdueEnqueue ==
  ASSUME TypeOK, SpacingInv, OverdueInv, OneBeat,
         NEW d \in Dispatcher, NEW r \in run[d].rows, Enqueue(d, r)
  PROVE  OverdueInv'
<1> USE DEF OverdueInv
<1>1. /\ ep' = ep /\ now' = now /\ lastRun' = lastRun /\ UNCHANGED <<results, lost>>
      /\ queued' = queued \cup {CheckFor(d, r)}
      /\ run[d].stage = "enqueuing"
      /\ \/ run'[d] = NoRun /\ run[d].rows = {r}
         \/ /\ run'[d].stage = "enqueuing" /\ run'[d].rows = run[d].rows \ {r}
            /\ run'[d].now = run[d].now /\ run'[d].probe_time = run[d].probe_time
      /\ \A c \in Dispatcher : c = d
  BY DEF Enqueue, TypeOK, Run, OneBeat
<1>2. \A k \in Check : IsClaim(k)' <=> IsClaim(k)
  BY <1>1 DEF IsClaim, Claims, CheckFor, NoRun
<1>3. ClockInv'
  <2>1. CheckFor(d, r).checked_at = lastRun /\ now <= lastRun + RunTime + CheckTime
    BY <1>1, ClockTypes, TimesAssumption DEF ClockInv, CheckFor
  <2> QED BY <1>1, <1>2, <2>1 DEF ClockInv, NoRun
<1>4. DueInv'
  <2>1. \A e \in Endpoint : ~InHand(e)
    BY <1>1 DEF InHand
  <2> QED BY <1>1, <2>1 DEF DueInv, Active
<1>5. CoverInv'
  BY <1>1, <1>2, CoverKept DEF Relief
<1>6. FreshInv'
  BY <1>1, FreshKept
<1> QED BY <1>3, <1>4, <1>5, <1>6

\* A check leaves its row; only one of a deleted endpoint does not.
LEMMA OverdueRecord ==
  ASSUME TypeOK, OverdueInv, NEW k \in queued, Record(k)
  PROVE  OverdueInv'
<1> USE DEF OverdueInv
<1>1. /\ ep' = ep /\ now' = now /\ lastRun' = lastRun /\ run' = run /\ lost' = lost
      /\ queued' = queued \ {k} /\ results \subseteq results'
      /\ results' \subseteq results \cup {k}
      /\ ep[k.claim.ep].life = "live" => k \in results'
  BY DEF Record
<1>2. \A j \in Check : /\ IsClaim(j)' => IsClaim(j)
                       /\ IsClaim(j) /\ ep[j.claim.ep].life = "live" => IsClaim(j)'
  BY <1>1 DEF IsClaim, Claims, CheckFor
<1>3. ClockInv'
  BY <1>1, <1>2 DEF ClockInv
<1>4. DueInv'
  BY <1>1 DEF DueInv, Active, InHand, RowsFor
<1>5. CoverInv'
  BY <1>1, <1>2, CoverKept DEF Relief, Active
<1>6. FreshInv'
  BY <1>1, FreshKept
<1> QED BY <1>3, <1>4, <1>5, <1>6

\* The purge only takes rows that are older than any interval and its grace.
LEMMA OverduePurge ==
  ASSUME TypeOK, OverdueInv, purge_old_results
  PROVE  OverdueInv'
<1> USE DEF OverdueInv
<1>1. /\ ep' = ep /\ now' = now /\ lastRun' = lastRun /\ run' = run
      /\ UNCHANGED <<queued, lost>>
      /\ results' \subseteq results
      /\ \A k \in results : k \notin results' => k.checked_at < now - Retention
  BY DEF purge_old_results
<1>2. \A k \in Check : /\ IsClaim(k)' => IsClaim(k)
                       /\ IsClaim(k) /\ ~(k.checked_at < now - Retention) => IsClaim(k)'
  BY <1>1 DEF IsClaim, Claims, CheckFor
<1>3. \A e \in Endpoint : \A t \in Nat : now <= Deadline(e, t) => ~(t < now - Retention)
  BY ClockTypes, TimesAssumption, RetentionAssumption DEF Deadline
<1>4. ClockInv'
  BY <1>1, <1>2 DEF ClockInv
<1>5. DueInv'
  BY <1>1 DEF DueInv, Active, InHand, RowsFor
<1>6. CoverInv'
  <2>1. ASSUME NEW e \in Endpoint, NEW b \in Time, NEW k \in Check,
               now <= Deadline(e, b), Relief(e, b, k)
        PROVE  IsClaim(k)'
    <3>1. b \in Nat /\ k.checked_at \in Nat /\ k.checked_at > b
      BY <2>1, CheckTypes, TimesAssumption DEF Relief, Time
    <3>2. ~(b < now - Retention)
      BY <1>3, <2>1, <3>1
    <3>3. ~(k.checked_at < now - Retention)
      BY <3>1, <3>2, ClockTypes, TimesAssumption
    <3> QED BY <1>2, <2>1, <3>3 DEF Relief
  <2> QED BY <1>1, <1>2, <2>1, CoverKept
<1>7. FreshInv'
  <2>1. \A k \in results : k.checked_at \in Nat
    BY CheckTypes DEF TypeOK
  <2> QED BY <1>1, <1>3, <2>1, FreshKept
<1> QED BY <1>4, <1>5, <1>6, <1>7

\* A change of the user's leaves an endpoint as it is, takes it out of
\* monitoring, or starts it afresh at the present time.
LEMMA OverdueUser ==
  ASSUME TypeOK, SpacingInv, OverdueInv, UserStep
  PROVE  OverdueInv'
<1> USE DEF OverdueInv
<1> DEFINE
      Kept(e) == ep'[e] = ep[e] /\ \A k \in results : k.claim.ep = e => k \in results'
      Afresh(e) == ep'[e].next_check_at = now /\ ep'[e].monitoring_since = now
<1>1. /\ now' = now /\ lastRun' = lastRun /\ run' = run /\ UNCHANGED <<queued, lost>>
      /\ results' \subseteq results
  <2>1. ASSUME NEW e \in Endpoint, NEW i \in Interval, add_endpoint(e, i)
        PROVE  <1>1!:
    BY <2>1 DEF add_endpoint
  <2>2. ASSUME NEW e \in Endpoint, NEW i \in Interval, NEW active \in BOOLEAN,
               NEW newUrl \in BOOLEAN, update_endpoint(e, i, active, newUrl)
        PROVE  <1>1!:
    BY <2>2 DEF update_endpoint
  <2>3. ASSUME NEW e \in Endpoint, delete_endpoint(e)
        PROVE  <1>1!:
    BY <2>3 DEF delete_endpoint
  <2> QED BY <2>1, <2>2, <2>3 DEF UserStep
<1>2. \A f \in Endpoint : Active(f)' => (Active(f) /\ Kept(f)) \/ Afresh(f)
  <2>1. ASSUME NEW e \in Endpoint, NEW i \in Interval, add_endpoint(e, i)
        PROVE  <1>2!:
    BY <2>1 DEF add_endpoint, TypeOK, Active
  <2>2. ASSUME NEW e \in Endpoint, NEW i \in Interval, NEW active \in BOOLEAN,
               NEW newUrl \in BOOLEAN, update_endpoint(e, i, active, newUrl)
        PROVE  <1>2!:
    <3> DEFINE R == newUrl \/ i # ep[e].interval \/ (active /\ ~ep[e].is_active)
               new == [ep[e] EXCEPT !.interval = i, !.is_active = active,
                         !.next_check_at = IF R THEN now ELSE @,
                         !.monitoring_since = IF R THEN now ELSE @,
                         !.gen = IF R THEN @ + 1 ELSE @]
    <3>1. ep' = [ep EXCEPT ![e] = new] /\ results' = results /\ ep[e].life = "live"
      BY <2>2 DEF update_endpoint
    <3>2. ep[e] \in EndpointRow /\ ep'[e] = new
      BY <3>1 DEF TypeOK
    <3>3. CASE R
      <4>1. Afresh(e)
        BY <3>2, <3>3 DEF EndpointRow
      <4> QED BY <3>1, <4>1 DEF Active, TypeOK
    <3>4. CASE ~R
      <4>1. ep'[e].is_active = active /\ i = ep[e].interval /\ (active => ep[e].is_active)
        BY <3>2, <3>4 DEF EndpointRow
      <4>2. ASSUME active PROVE new = ep[e]
        <5>1. ep[e].is_active = active
          BY <4>1, <4>2, <3>2 DEF EndpointRow
        <5> QED BY <3>2, <3>4, <4>1, <5>1 DEF EndpointRow
      <4>3. Active(e)' => Active(e) /\ Kept(e)
        BY <3>1, <3>2, <4>1, <4>2 DEF Active
      <4> QED BY <3>1, <4>3 DEF Active, TypeOK
    <3> QED BY <3>3, <3>4
  <2>3. ASSUME NEW e \in Endpoint, delete_endpoint(e)
        PROVE  <1>2!:
    BY <2>3 DEF delete_endpoint, TypeOK, Active, EndpointRow
  <2> QED BY <2>1, <2>2, <2>3 DEF UserStep
<1>3. \A k \in Check : IsClaim(k)' => IsClaim(k)
  BY <1>1, SameClaims
<1>4. \A e \in Endpoint, k \in Check :
        (Kept(e) /\ k.claim.ep = e /\ IsClaim(k)) => IsClaim(k)'
  BY <1>1 DEF IsClaim, Claims, CheckFor
<1>5. ClockInv'
  <2>1. \A e \in Endpoint : ep'[e].monitoring_since \in {ep[e].monitoring_since, now}
    <3>1. ASSUME NEW e \in Endpoint, NEW i \in Interval, add_endpoint(e, i)
          PROVE  <2>1!:
      BY <3>1 DEF add_endpoint, TypeOK
    <3>2. ASSUME NEW e \in Endpoint, NEW i \in Interval, NEW active \in BOOLEAN,
                 NEW newUrl \in BOOLEAN, update_endpoint(e, i, active, newUrl)
          PROVE  <2>1!:
      BY <3>2 DEF update_endpoint, TypeOK, EndpointRow
    <3>3. ASSUME NEW e \in Endpoint, delete_endpoint(e)
          PROVE  <2>1!:
      BY <3>3 DEF delete_endpoint, TypeOK, EndpointRow
    <3> QED BY <3>1, <3>2, <3>3 DEF UserStep
  <2>2. \A e \in Endpoint : ep'[e].monitoring_since <= now
    BY <2>1, ClockTypes DEF ClockInv
  <2> QED BY <1>1, <1>3, <2>2 DEF ClockInv
<1>6. DueInv'
  <2> SUFFICES ASSUME NEW e \in Endpoint, Active(e)'
               PROVE  /\ lastRun <= ep'[e].next_check_at + TickPeriod
                      /\ ep'[e].next_check_at < lastRun => InHand(e)
    BY <1>1 DEF DueInv, InHand, RowsFor
  <2>1. CASE Active(e) /\ Kept(e)
    BY <2>1 DEF DueInv
  <2>2. CASE Afresh(e)
    BY <2>2, ClockTypes, TimesAssumption DEF ClockInv
  <2> QED BY <1>2, <2>1, <2>2
<1>7. CoverInv'
  <2> SUFFICES ASSUME NEW e \in Endpoint, Active(e)', NEW b \in Time, IsBase(e, b)',
                      (now <= Deadline(e, b))'
               PROVE  Covered(e, b)'
    BY DEF CoverInv
  <2>1. CASE Active(e) /\ Kept(e)
    <3>1. IsBase(e, b) /\ now <= Deadline(e, b)
      BY <1>1, <1>3, <2>1 DEF IsBase, Deadline
    <3>2. Covered(e, b)
      BY <2>1, <3>1 DEF CoverInv
    <3> QED BY <1>4, <2>1, <3>2 DEF Covered, Relief, Deadline
  <2>2. CASE Afresh(e)
    <3>1. \A k \in Check : IsClaim(k)' => ~(k.checked_at > now)
      BY <1>3, CheckTypes, ClockTypes DEF ClockInv
    <3>2. b = now
      BY <2>2, <3>1 DEF IsBase
    <3>3. ep'[e].interval \in Nat
      BY TypeUser, IntervalAssumption DEF TypeOK, EndpointRow
    <3>4. ep'[e].next_check_at <= b + ep'[e].interval + RunTime
      BY <2>2, <3>2, <3>3, ClockTypes, TimesAssumption
    <3> QED BY <3>4 DEF Covered
  <2> QED BY <1>2, <2>1, <2>2
<1>8. FreshInv'
  <2> SUFFICES ASSUME NEW e \in Endpoint, Active(e)'
               PROVE  \E b \in Time : IsRecorded(e, b)' /\ (now <= Deadline(e, b))'
    BY DEF FreshInv
  <2>1. CASE Active(e) /\ Kept(e)
    <3>1. PICK b \in Time : IsRecorded(e, b) /\ now <= Deadline(e, b)
      BY <2>1 DEF FreshInv
    <3> QED BY <1>1, <2>1, <3>1 DEF IsRecorded, Deadline
  <2>2. CASE Afresh(e)
    <3>1. now \in Time /\ IsRecorded(e, now)'
      BY <1>1, <2>2 DEF IsRecorded, TypeOK
    <3>2. ep'[e].interval \in Nat
      BY TypeUser, IntervalAssumption DEF TypeOK, EndpointRow
    <3>3. now <= now + ep'[e].interval + Grace
      BY <3>2, ClockTypes, TimesAssumption
    <3> QED BY <1>1, <3>1, <3>3 DEF Deadline
  <2> QED BY <1>2, <2>1, <2>2
<1> QED BY <1>5, <1>6, <1>7, <1>8

\* The clock advances: the run or the check that the earliest unexpired time
\* waits for is not finished, so that time is still far from its deadline.
LEMMA OverdueAdvance ==
  ASSUME TypeOK, OverdueInv, OneBeat, GraceCovers, ScheduleFaults = {}, Advance
  PROVE  OverdueInv'
<1> USE DEF OverdueInv
<1>1. /\ UNCHANGED <<ep, run, lastRun, queued, results, lost>>
      /\ now' = now + 1 /\ now < Horizon
      /\ now < lastRun + TickPeriod
      /\ \A d \in Dispatcher : run[d].stage # "idle" => now < run[d].probe_time + RunTime
      /\ \A k \in queued : now < k.checked_at + RunTime + CheckTime
  BY DEF Advance, Punctual
<1>2. \A k \in Check : IsClaim(k)' <=> IsClaim(k)
  BY <1>1 DEF IsClaim, Claims, CheckFor
<1>3. \A k \in queued : k \in Check /\ k.checked_at \in Nat
  BY CheckTypes DEF TypeOK
<1>4. \A d \in Dispatcher : run[d].stage # "idle" => now + 1 <= lastRun + RunTime
  BY <1>1, ClockTypes, TimesAssumption DEF ClockInv
<1>5. ClockInv'
  <2>1. lastRun <= now + 1 /\ now + 1 <= lastRun + TickPeriod
    BY <1>1, ClockTypes, TimesAssumption DEF ClockInv
  <2>2. \A k \in queued : now + 1 <= k.checked_at + RunTime + CheckTime
    BY <1>1, <1>3, ClockTypes, TimesAssumption
  <2>3. \A k \in Check : IsClaim(k) => k.checked_at <= now + 1
    BY CheckTypes, ClockTypes DEF ClockInv
  <2>4. \A e \in Endpoint : ep[e].monitoring_since <= now + 1
    BY ClockTypes DEF ClockInv
  <2>5. \A d \in Dispatcher : run[d].stage \in {"claiming", "enqueuing"} =>
          lastRun <= run[d].now /\ run[d].now <= now + 1
    BY ClockTypes DEF ClockInv
  <2>6. \A d \in Dispatcher : run[d].stage # "idle" =>
          run[d].probe_time = lastRun /\ now + 1 <= lastRun + RunTime
    BY <1>4 DEF ClockInv
  <2>7. lost = {}
    BY DEF ClockInv
  <2> QED BY <1>1, <1>2, <2>1, <2>2, <2>3, <2>4, <2>5, <2>6, <2>7 DEF ClockInv
<1>6. DueInv'
  BY <1>1 DEF DueInv, Active, InHand, RowsFor
<1>7. CoverInv'
  <2> SUFFICES ASSUME NEW e \in Endpoint, Active(e), NEW b \in Time, IsBase(e, b),
                      now + 1 <= Deadline(e, b)
               PROVE  Covered(e, b)'
    BY <1>1, <1>2 DEF CoverInv, Active, Deadline, IsBase
  <2>1. now <= Deadline(e, b)
    BY ClockTypes, TimesAssumption DEF Deadline, Time
  <2>2. Covered(e, b)
    BY <2>1 DEF CoverInv
  <2> QED BY <1>1, <1>2, <2>2 DEF Covered, Relief, Deadline
<1>8. FreshInv'
  <2> SUFFICES ASSUME NEW e \in Endpoint, Active(e)
               PROVE  \E b \in Time : IsRecorded(e, b) /\ now + 1 <= Deadline(e, b)
    BY <1>1 DEF FreshInv, Active, IsRecorded, Deadline
  <2>1. PICK b \in Time : IsRecorded(e, b) /\ now <= Deadline(e, b)
    BY DEF FreshInv
  <2>2. b \in Nat /\ b >= ep[e].monitoring_since
    BY <2>1, ClockTypes, TimesAssumption DEF IsRecorded, Time
  <2>3. IsBase(e, b)
    BY <2>1 DEF IsRecorded, IsBase, IsClaim, Claims, TypeOK
  <2>4. CASE ep[e].next_check_at <= b + ep[e].interval + RunTime
    <3>1. CASE \A d \in Dispatcher : run[d].stage = "idle"
      <4>1. lastRun <= ep[e].next_check_at
        BY <3>1, ClockTypes DEF DueInv, InHand
      <4>2. now + 1 <= b + ep[e].interval + Grace
        BY <1>1, <2>2, <2>4, <4>1, ClockTypes, TimesAssumption DEF GraceCovers
      <4> QED BY <2>1, <4>2 DEF Deadline
    <3>2. CASE \E d \in Dispatcher : run[d].stage # "idle"
      <4>1. now + 1 <= lastRun + RunTime
        BY <1>4, <3>2
      <4>2. lastRun <= ep[e].next_check_at + TickPeriod
        BY DEF DueInv
      <4>3. now + 1 <= b + ep[e].interval + Grace
        BY <2>2, <2>4, <4>1, <4>2, ClockTypes, TimesAssumption DEF GraceCovers
      <4> QED BY <2>1, <4>3 DEF Deadline
    <3> QED BY <3>1, <3>2
  <2>5. CASE \E k \in Check : Relief(e, b, k)
    <3>1. PICK k \in Check : Relief(e, b, k)
      BY <2>5
    <3>2. /\ k.checked_at \in Nat /\ k.checked_at > b
          /\ k.checked_at + RunTime + CheckTime <= Deadline(e, b)
          /\ IsClaim(k) /\ k.claim.ep = e
      BY <3>1, CheckTypes DEF Relief
    <3>3. Deadline(e, b) \in Nat
      BY <2>2, ClockTypes, TimesAssumption DEF Deadline
    <3>4. CASE k \in results
      <4>1. k.checked_at > ep[e].monitoring_since
        BY <2>2, <3>2, ClockTypes
      <4>2. IsRecorded(e, k.checked_at) /\ k.checked_at \in Time
        BY <3>2, <3>4, <4>1 DEF IsRecorded, Check
      <4>3. now + 1 <= Deadline(e, k.checked_at)
        BY <2>1, <2>2, <3>2, ClockTypes, TimesAssumption DEF Deadline
      <4> QED BY <4>2, <4>3
    <3>5. CASE k \in queued
      <4>1. now + 1 <= k.checked_at + RunTime + CheckTime
        BY <1>1, <1>3, <3>5, ClockTypes, TimesAssumption
      <4>2. now + 1 <= Deadline(e, b)
        BY <3>2, <3>3, <4>1, ClockTypes, TimesAssumption
      <4> QED BY <2>1, <4>2
    <3>6. CASE \E d \in Dispatcher : run[d].stage = "enqueuing" /\ k.checked_at = run[d].probe_time
      <4>1. now + 1 <= k.checked_at + RunTime
        BY <1>4, <3>6 DEF ClockInv
      <4>2. now + 1 <= Deadline(e, b)
        BY <3>2, <3>3, <4>1, ClockTypes, TimesAssumption
      <4> QED BY <2>1, <4>2
    <3>7. lost = {}
      BY DEF ClockInv
    <3> QED BY <3>2, <3>4, <3>5, <3>6, <3>7 DEF IsClaim, Claims, CheckFor
  <2> QED BY <2>1, <2>3, <2>4, <2>5 DEF CoverInv, Covered
<1> QED BY <1>5, <1>6, <1>7, <1>8

\* OverdueInv is inductive where nothing is killed or lost. One run alone
\* cannot deadlock.
LEMMA OverdueStep ==
  ASSUME TypeOK, SpacingInv, OverdueInv, OneBeat, GraceCovers, ScheduleFaults = {},
         [Next]_vars
  PROVE  OverdueInv'
<1>1. ASSUME NEW d \in Dispatcher, Start(d) \/ RunStep(d) PROVE OverdueInv'
  <2>1. ~RunKilled(d)
    BY DEF RunKilled, ClaimDeadlock, OneBeat
  <2> QED BY <1>1, <2>1, OverdueStart, OverdueClaiming, OverdueCommit, OverdueEnqueue
          DEF RunStep
<1>2. ASSUME NEW k \in queued, Record(k) \/ CheckLost(k) PROVE OverdueInv'
  BY <1>2, OverdueRecord DEF CheckLost
<1>3. CASE UNCHANGED vars
  <2>1. UNCHANGED <<now, ep, run, lastRun, queued, results, lost>>
    BY <1>3 DEF vars
  <2>2. \A k : IsClaim(k)' <=> IsClaim(k)
    BY <2>1 DEF IsClaim, Claims, CheckFor
  <2>3. ClockInv'
    BY <2>1, <2>2 DEF OverdueInv, ClockInv
  <2>4. DueInv'
    BY <2>1 DEF OverdueInv, DueInv, Active, InHand, RowsFor
  <2>5. CoverInv'
    BY <2>1, <2>2, CoverKept DEF OverdueInv, Relief
  <2>6. FreshInv'
    BY <2>1, FreshKept DEF OverdueInv
  <2> QED BY <2>3, <2>4, <2>5, <2>6 DEF OverdueInv
<1> QED BY <1>1, <1>2, <1>3, OverdueUser, OverduePurge, OverdueAdvance DEF Next, Running

\* With one Beat, nothing lost, and a grace that covers a tick, two dispatch
\* runs and a check, no endpoint is ever overdue: count_overdue_endpoints
\* stays 0 and the Prometheus alert on it means that the monitor stopped,
\* whatever the user reschedules, pauses or deletes and whatever is purged.
THEOREM NeverFalselyOverdue ==
  ASSUME OneBeat, GraceCovers, ScheduleFaults = {}
  PROVE  Spec => []NoFalseOverdue
<1>1. Init => TypeOK /\ SpacingInv /\ OverdueInv
  <2> SUFFICES ASSUME Init PROVE TypeOK /\ SpacingInv /\ OverdueInv
    OBVIOUS
  <2>1. TypeOK /\ SpacingInv
    BY InitialTypes DEF Init, TypeOK, SpacingInv, RowsInv, LockInv, ClaimInv, PairInv,
       IsClaim, Claims, NoRun
  <2>2. \A k \in Check : ~IsClaim(k)
    BY DEF Init, IsClaim, Claims, NoRun
  <2>3. ClockInv
    BY <2>2, TimesAssumption DEF Init, ClockInv, NoRun, NoEndpoint
  <2>4. \A e \in Endpoint : ~Active(e)
    BY DEF Init, Active, NoEndpoint
  <2> QED BY <2>1, <2>3, <2>4 DEF OverdueInv, DueInv, CoverInv, FreshInv
<1>2. TypeOK /\ SpacingInv /\ OverdueInv /\ [Next]_vars => SpacingInv' /\ OverdueInv'
  BY SpacingStep, OverdueStep
<1>3. TypeOK /\ OverdueInv => NoFalseOverdue
  <2> SUFFICES ASSUME TypeOK, OverdueInv PROVE NoFalseOverdue
    OBVIOUS
  <2>1. ASSUME NEW e \in Endpoint PROVE ~is_overdue(e)
    <3> SUFFICES ASSUME Active(e)
                 PROVE  \E b \in Baselines(e) : ~(now > b + ep[e].interval + Grace)
      BY DEF is_overdue, Active
    <3>1. PICK b \in Time : IsRecorded(e, b) /\ now <= Deadline(e, b)
      BY DEF OverdueInv, FreshInv
    <3>2. b \in Baselines(e)
      BY <3>1 DEF IsRecorded, Baselines
    <3>3. ~(now > b + ep[e].interval + Grace)
      BY <3>1, ClockTypes, TimesAssumption DEF Deadline, Time
    <3> QED BY <3>2, <3>3
  <2>2. {e \in Endpoint : is_overdue(e)} = {}
    BY <2>1
  <2> QED BY <2>2, FS_EmptySet DEF NoFalseOverdue, count_overdue_endpoints
<1> QED BY <1>1, <1>2, <1>3, ScheduleTypes, PTL DEF Spec
-----------------------------------------------------------------------------
(* With one Beat, the results of an endpoint are in the order of its settings *)

\* What a run d that commits has claimed: under the settings that then hold.
Made(d, k) == /\ CommitClaim(d)
              /\ \E r \in run[d].rows : k = CheckFor(d, r)
              /\ k.claim.gen = ep[k.claim.ep].gen

\* Claims are made by commits and nowhere else.
LEMMA ClaimsAreMade ==
  ASSUME TypeOK, SpacingInv, [Next]_vars, NEW k \in Check, IsClaim(k)'
  PROVE  IsClaim(k) \/ \E d \in Dispatcher : Made(d, k)
<1>1. ASSUME run' = run, Claims' \subseteq Claims
      PROVE  IsClaim(k)
  BY <1>1 DEF IsClaim, CheckFor
<1>2. ASSUME NEW d \in Dispatcher, Start(d) \/ RunStep(d)
      PROVE  IsClaim(k) \/ Made(d, k)
  <2>1. CASE Start(d) \/ BeginClaim(d) \/ \E e \in Endpoint : ClaimRow(d, e)
    <3>1. /\ \A c \in Dispatcher \ {d} : run'[c] = run[c]
          /\ run'[d].stage # "enqueuing" /\ UNCHANGED <<queued, results, lost>>
      BY <2>1 DEF Start, BeginClaim, ClaimRow, NoRun, TypeOK, Run
    <3> QED BY <3>1 DEF IsClaim, Claims, CheckFor
  <2>2. CASE CommitClaim(d)
    <3>1. /\ \A c \in Dispatcher \ {d} : run'[c] = run[c]
          /\ run[d].stage = "claiming" /\ UNCHANGED <<queued, results, lost>>
          /\ \/ run'[d] = NoRun
             \/ run'[d].rows = run[d].rows /\ run'[d].now = run[d].now
                  /\ run'[d].probe_time = run[d].probe_time
      BY <2>2 DEF CommitClaim, TypeOK, Run
    <3>2. IsClaim(k) \/ \E r \in run[d].rows : k = CheckFor(d, r)
      BY <3>1 DEF IsClaim, Claims, CheckFor, NoRun
    <3>3. \A r \in run[d].rows : r.gen = ep[r.ep].gen
      BY <3>1 DEF SpacingInv, LockInv
    <3> QED BY <2>2, <3>2, <3>3 DEF Made, CheckFor
  <2>3. CASE (\E r \in run[d].rows : Enqueue(d, r)) \/ RunKilled(d)
    <3>1. /\ UNCHANGED results
          /\ \A c \in Dispatcher \ {d} : run'[c] = run[c]
          /\ \/ run'[d] = NoRun
             \/ /\ run[d].stage = "enqueuing" /\ run'[d].rows \subseteq run[d].rows
                /\ run'[d].now = run[d].now /\ run'[d].probe_time = run[d].probe_time
          /\ \A j \in queued' \cup lost' :
               \/ j \in queued \cup lost
               \/ run[d].stage = "enqueuing" /\ \E r \in run[d].rows : j = CheckFor(d, r)
      <4>1. ASSUME NEW r \in run[d].rows, Enqueue(d, r)
            PROVE  <3>1!:
        BY <4>1 DEF Enqueue, TypeOK, Run
      <4>2. CASE RunKilled(d)
        BY <4>2 DEF RunKilled, TypeOK
      <4> QED BY <2>3, <4>1, <4>2
    <3> QED BY <3>1 DEF IsClaim, Claims, CheckFor, NoRun
  <2> QED BY <1>2, <2>1, <2>2, <2>3 DEF RunStep
<1>3. CASE UserStep
  <2>1. run' = run /\ queued' = queued /\ lost' = lost /\ results' \subseteq results
    BY <1>3, UserTouches
  <2>2. Claims' \subseteq Claims
    BY <2>1 DEF Claims
  <2> QED BY <1>1, <2>1, <2>2
<1>4. CASE \/ Advance
           \/ \E j \in queued : Record(j) \/ CheckLost(j)
           \/ purge_old_results
           \/ UNCHANGED vars
  <2>1. run' = run /\ Claims' \subseteq Claims
    BY <1>4 DEF Advance, Record, CheckLost, purge_old_results, vars, Claims
  <2> QED BY <1>1, <2>1
<1> QED BY <1>2, <1>3, <1>4 DEF Next, Running

\* One run follows the other, and dates its checks with its start.
OrderInv ==
  /\ lastRun <= now
  /\ \A d \in Dispatcher : run[d].stage # "idle" => run[d].probe_time = lastRun
  /\ \A k \in Check : IsClaim(k) => k.checked_at <= lastRun
  /\ \A j, k \in Check : (IsClaim(j) /\ IsClaim(k) /\ j.claim.ep = k.claim.ep
                            /\ j.claim.gen < k.claim.gen) => j.checked_at <= k.checked_at

\* OrderInv is inductive: a run that commits is the latest, and claims under
\* the latest settings.
LEMMA OrderStep ==
  ASSUME TypeOK, SpacingInv, OrderInv, OneBeat, [Next]_vars
  PROVE  OrderInv'
<1>1. /\ lastRun' <= now' /\ lastRun <= lastRun'
      /\ \A d \in Dispatcher : run'[d].stage # "idle" => run'[d].probe_time = lastRun'
  <2>0. now \in Nat /\ lastRun \in Nat
    BY ClockTypes
  <2>1. ASSUME NEW d \in Dispatcher, Start(d)
        PROVE  <1>1!:
    <3>1. lastRun' = now /\ now' = now /\ run'[d].probe_time = now
      BY <2>1 DEF Start, TypeOK
    <3> QED BY <2>0, <3>1 DEF OrderInv, OneBeat
  <2>2. ASSUME NEW d \in Dispatcher, run[d].stage # "idle", RunStep(d)
        PROVE  <1>1!:
    <3>1. /\ lastRun' = lastRun /\ now' = now
          /\ run'[d] = NoRun \/ run'[d].probe_time = run[d].probe_time
      <4>1. CASE BeginClaim(d)
        BY <4>1 DEF BeginClaim, TypeOK, Run
      <4>2. ASSUME NEW e \in Endpoint, ClaimRow(d, e)
            PROVE  <3>1!:
        BY <4>2 DEF ClaimRow, TypeOK, Run
      <4>3. CASE CommitClaim(d)
        BY <4>3 DEF CommitClaim, TypeOK, Run
      <4>4. ASSUME NEW r \in run[d].rows, Enqueue(d, r)
            PROVE  <3>1!:
        BY <4>4 DEF Enqueue, TypeOK, Run
      <4>5. CASE RunKilled(d)
        BY <4>5 DEF RunKilled, TypeOK, Run
      <4> QED BY <2>2, <4>1, <4>2, <4>3, <4>4, <4>5 DEF RunStep
    <3>2. \A c \in Dispatcher : c = d
      BY DEF OneBeat
    <3> QED BY <2>0, <2>2, <3>1, <3>2 DEF OrderInv, NoRun
  <2>3. ASSUME run' = run, lastRun' = lastRun, now' = now \/ now' = now + 1
        PROVE  <1>1!:
    BY <2>0, <2>3 DEF OrderInv
  <2>4. CASE UserStep
    <3>1. run' = run /\ lastRun' = lastRun /\ now' = now
      BY <2>4, UserTouches
    <3> QED BY <2>3, <3>1
  <2>5. CASE \/ Advance
             \/ \E k \in queued : Record(k) \/ CheckLost(k)
             \/ purge_old_results
             \/ UNCHANGED vars
    <3>1. run' = run /\ lastRun' = lastRun /\ (now' = now \/ now' = now + 1)
      BY <2>5 DEF Advance, Record, CheckLost, purge_old_results, vars
    <3> QED BY <2>3, <3>1
  <2> QED BY <2>1, <2>2, <2>4, <2>5 DEF Next, Running
<1>2. \A d \in Dispatcher, k \in Check : Made(d, k) => k.checked_at = lastRun
  BY DEF Made, CommitClaim, CheckFor, OrderInv
<1>3. /\ lastRun \in Nat /\ lastRun' \in Nat
      /\ \A k \in Check : k.checked_at \in Nat /\ k.claim.gen \in Nat
      /\ \A e \in Endpoint : ep[e].gen \in Nat
  BY ClockTypes, CheckTypes, TypeStep, TimesAssumption DEF TypeOK, Time
<1>4. \A k \in Check : IsClaim(k)' => k.checked_at <= lastRun'
  BY <1>1, <1>2, <1>3, ClaimsAreMade DEF OrderInv
<1>5. ASSUME NEW j \in Check, NEW k \in Check, IsClaim(j)', IsClaim(k)',
             j.claim.ep = k.claim.ep, j.claim.gen < k.claim.gen
      PROVE  j.checked_at <= k.checked_at
  <2>1. j.checked_at <= lastRun /\ j.claim.ep \in Endpoint
    BY <1>2, <1>3, <1>5, ClaimsAreMade, CheckTypes DEF OrderInv
  <2>2. CASE \E d \in Dispatcher : Made(d, k)
    BY <1>2, <2>1, <2>2
  <2>3. CASE IsClaim(k) /\ IsClaim(j)
    BY <1>5, <2>3 DEF OrderInv
  <2>4. ~(IsClaim(k) /\ \E d \in Dispatcher : Made(d, j))
    BY <1>3, <1>5, <2>1 DEF SpacingInv, ClaimInv, Made
  <2> QED BY <1>5, <2>2, <2>3, <2>4, ClaimsAreMade
<1> QED BY <1>1, <1>4, <1>5 DEF OrderInv

\* With one Beat, a slow check of an endpoint's old settings never passes for
\* its latest result once the new ones have been checked: whatever is late,
\* killed or lost, and whatever the user changes.
THEOREM ResultsKeepOrder ==
  ASSUME OneBeat
  PROVE  Spec => []ResultsInSettingsOrder
<1>1. Init => TypeOK /\ SpacingInv /\ OrderInv
  <2>1. Init => TypeOK
    BY InitialTypes DEF Init, TypeOK
  <2>2. Init => SpacingInv
    BY DEF Init, SpacingInv, RowsInv, LockInv, ClaimInv, PairInv, IsClaim, Claims, NoRun
  <2>3. Init => OrderInv
    BY DEF Init, OrderInv, IsClaim, Claims, NoRun
  <2> QED BY <2>1, <2>2, <2>3
<1>2. TypeOK /\ SpacingInv /\ OrderInv /\ [Next]_vars => (TypeOK /\ SpacingInv /\ OrderInv)'
  BY TypeStep, SpacingStep, OrderStep
<1>3. TypeOK /\ OrderInv => ResultsInSettingsOrder
  BY DEF TypeOK, OrderInv, IsClaim, Claims, ResultsInSettingsOrder
<1> QED BY <1>1, <1>2, <1>3, PTL DEF Spec
=============================================================================
