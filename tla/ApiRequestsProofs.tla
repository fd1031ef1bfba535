-------------------------- MODULE ApiRequestsProofs --------------------------
(***************************************************************************)
(* Theorems about ApiRequests, for any number of requests, threads, emails *)
(* and limits: its types, the bound of the rate limit, what Retry-After    *)
(* and a registration promise, and by how much the quota of endpoints can  *)
(* be passed.                                                              *)
(***************************************************************************)
EXTENDS ApiRequests, FiniteSetTheorems, WellFoundedInduction, TLAPS

-----------------------------------------------------------------------------
(* RateLimit: its steps keep its types and what SpanBounded rests on, for   *)
(* all limits, windows, delays and faults                                   *)

\* Windows are numbered no higher than the clock goes.
LEMMA WindowInTime ==
  ASSUME NEW n \in LimitName, NEW t \in Time
  PROVE  window(n, t) \in Time
<1>1. WindowSeconds[n] \in Nat \ {0} /\ Horizon \in Nat
  BY LimitAssumption, RedisBounds
<1>2. t \div WindowSeconds[n] \in Nat /\ t \div WindowSeconds[n] <= t
  <2> DEFINE w == WindowSeconds[n]
             q == t \div w
  <2>1. t \in Nat /\ w \in Nat /\ w > 0
    BY <1>1 DEF Time
  <2>2. q \in Int /\ w * q <= t /\ t < w * (q + 1)
    BY <2>1
  <2> HIDE DEF w, q
  <2>3. q >= 0
    BY <2>1, <2>2
  <2>4. q <= w * q
    BY <2>1, <2>2, <2>3
  <2> QED BY <2>1, <2>2, <2>3, <2>4 DEF q, w
<1> QED BY <1>1, <1>2 DEF window, Time

\* Retry-After leads to a time.
LEMMA RetryAtInNat ==
  ASSUME NEW n \in LimitName, NEW t \in Time
  PROVE  RetryAt(n, t) \in Nat
<1>1. WindowSeconds[n] \in Nat \ {0} /\ t \in Nat
  BY LimitAssumption, RedisBounds DEF Time
<1>2. t % WindowSeconds[n] \in 0..(WindowSeconds[n] - 1)
  BY <1>1
<1> QED BY <1>1, <1>2 DEF RetryAt

\* The initial values of calls and slots are of their types.
LEMMA InitialCall == NoCall \in Call /\ \E k \in Key : TRUE
<1>1. PICK n \in LimitName : TRUE
  BY LimitAssumption
<1>2. PICK i \in Identity : TRUE
  BY LimitAssumption
<1>3. [name |-> n, identity |-> i] \in Key
  BY DEF Key
<1>4. 0 \in Time /\ 0 \in 0..Tries
  BY RedisBounds DEF Time
<1>5. [key |-> [name |-> n, identity |-> i], window |-> 0] \in Slot
  BY <1>3, <1>4 DEF Slot
<1>6. (CHOOSE s \in Slot : TRUE) \in Slot
  BY <1>5
<1> QED BY <1>3, <1>4, <1>6 DEF NoCall, Call

\* A state the system starts in is typed.
LEMMA RateInitType == RateInit => RateTypeOK
<1> SUFFICES ASSUME RateInit PROVE RateTypeOK
  OBVIOUS
<1>1. 0 \in Time /\ 0 \in 0..MaxRestarts
  BY RedisBounds DEF Time
<1>2. counter \in [DOMAIN counter -> [count: Nat, until: Nat]] /\ DOMAIN counter \subseteq Slot
  BY DEF RateInit
<1>3. call \in [Request -> Call]
  BY InitialCall DEF RateInit
<1>4. tally \in [Key -> [Time -> Nat]] /\ promised \in [Key -> Nat] /\ passed \in SUBSET Passed
  BY DEF RateInit
<1> QED BY <1>1, <1>2, <1>3, <1>4 DEF RateInit, RateTypeOK

\* The types of one call and of the next count of its key.
LEMMA CallType ==
  ASSUME RateTypeOK, NEW r \in Request
  PROVE  /\ call[r] \in Call /\ call[r].slot \in Slot /\ call[r].read \in Time
         /\ call[r].slot.key \in Key /\ call[r].slot.key.name \in LimitName
         /\ call[r].slot.window \in Time /\ call[r].tries \in Nat
<1>1. call[r] \in Call
  BY DEF RateTypeOK
<1>2. call[r].slot \in Slot /\ call[r].read \in Time /\ call[r].tries \in Nat
  BY <1>1, RedisBounds DEF Call
<1>3. call[r].slot.key \in Key /\ call[r].slot.window \in Time
  BY <1>2 DEF Slot
<1> QED BY <1>1, <1>2, <1>3 DEF Key

\* INCR answers a positive number.
LEMMA NextCountType ==
  ASSUME RateTypeOK, NEW slot
  PROVE  NextCount(slot) \in Nat \ {0}
<1>1. CASE slot \in DOMAIN counter /\ now < counter[slot].until
  <2>1. counter[slot].count \in Nat
    BY <1>1 DEF RateTypeOK
  <2> QED BY <1>1, <2>1 DEF NextCount
<1>2. CASE ~(slot \in DOMAIN counter /\ now < counter[slot].until)
  BY <1>2 DEF NextCount
<1> QED BY <1>1, <1>2

\* An INCR keeps the types of the counters and of their history.
LEMMA IncrType ==
  ASSUME RateTypeOK, NEW r \in Request, Incr(r)
  PROVE  /\ DOMAIN counter' \subseteq Slot
         /\ counter' \in [DOMAIN counter' -> [count: Nat, until: Nat]]
         /\ tally' \in [Key -> [Time -> Nat]]
<1> DEFINE slot == call[r].slot
           row == [count |-> NextCount(slot), until |-> now + WindowSeconds[slot.key.name]]
<1>1. /\ slot \in Slot /\ slot.key \in Key /\ slot.key.name \in LimitName
      /\ call[r].read \in Time
  BY CallType
<1>2. now \in Nat /\ WindowSeconds[slot.key.name] \in Nat
  BY <1>1, LimitAssumption, RedisBounds DEF RateTypeOK, Time
<1>3. row \in [count: Nat, until: Nat]
  BY <1>2, NextCountType
<1>4. counter' = [s \in {slot} \cup DOMAIN counter |-> IF s = slot THEN row ELSE counter[s]]
  BY DEF Incr
<1>5. tally' = [tally EXCEPT ![slot.key][call[r].read] = @ + 1]
  BY DEF Incr
<1>6. tally' \in [Key -> [Time -> Nat]]
  BY <1>1, <1>5 DEF RateTypeOK
<1> HIDE DEF row, slot
<1> QED BY <1>1, <1>3, <1>4, <1>6 DEF RateTypeOK

\* Every step keeps the types.
LEMMA RateStepType ==
  ASSUME RateTypeOK, [RateNext]_<<now, rateVars>>
  PROVE  RateTypeOK'
<1>1. ASSUME NEW r \in Request, Pass(r)
      PROVE  RateTypeOK'
  <2>1. Incr(r) /\ call[r].slot \in Slot /\ call[r] \in Call
    BY <1>1, CallType DEF Pass
  <2>2. NextCount(call[r].slot) \in Nat
    BY NextCountType
  <2>3. passed' \in SUBSET Passed
    BY <1>1, <2>1, <2>2, RedisBounds DEF Pass, RateTypeOK, Passed, Time
  <2>4. call' \in [Request -> Call]
    BY <1>1, <2>1 DEF Pass, RateTypeOK, Call
  <2> QED BY <1>1, <2>1, <2>3, <2>4, IncrType DEF Pass, RateTypeOK
<1>2. ASSUME NEW r \in Request, Refuse(r)
      PROVE  RateTypeOK'
  <2>1. /\ Incr(r) /\ call[r] \in Call /\ call[r].read \in Time
        /\ call[r].slot.key \in Key /\ call[r].slot.key.name \in LimitName
    BY <1>2, CallType DEF Refuse
  <2>2. RetryAt(call[r].slot.key.name, call[r].read) \in Nat
    BY <2>1, RetryAtInNat
  <2>3. promised' \in [Key -> Nat]
    BY <1>2, <2>1, <2>2 DEF Refuse, RateTypeOK
  <2>4. call' \in [Request -> Call]
    BY <1>2, <2>1 DEF Refuse, RateTypeOK, Call
  <2> QED BY <1>2, <2>1, <2>3, <2>4, IncrType DEF Refuse, RateTypeOK
<1>3. ASSUME NEW r \in Request, ReplyLost(r)
      PROVE  RateTypeOK'
  <2>1. Incr(r) /\ call[r] \in Call /\ call[r].tries < Tries
    BY <1>3, CallType DEF ReplyLost, Sends
  <2>2. call' \in [Request -> Call]
    BY <1>3, <2>1, RedisBounds DEF ReplyLost, RateTypeOK, Call
  <2> QED BY <1>3, <2>1, <2>2, IncrType DEF ReplyLost, RateTypeOK
<1>4. ASSUME NEW r \in Request, FailOpen(r)
      PROVE  RateTypeOK'
  BY <1>4, CallType DEF FailOpen, RateTypeOK, Call
<1>5. ASSUME NEW R \in SUBSET Request, Return(R)
      PROVE  RateTypeOK'
  BY <1>5, InitialCall DEF Return, RateTypeOK
<1>6. ASSUME NEW r \in Request, NEW k \in Key, enforce(r, k)
      PROVE  RateTypeOK'
  <2>1. k.name \in LimitName /\ now \in Time /\ 0 \in 0..Tries
    BY RedisBounds DEF Key, RateTypeOK
  <2>2. Stamp(k) \in Slot
    BY <2>1, WindowInTime DEF Stamp, Slot
  <2>3. [stage |-> "called", slot |-> Stamp(k), read |-> now, tries |-> 0] \in Call
    BY <2>1, <2>2 DEF Call
  <2> QED BY <1>6, <2>3 DEF enforce, RateTypeOK
<1>7. ASSUME RedisRestarts
      PROVE  RateTypeOK'
  <2>1. PICK saved \in [DOMAIN counter -> 0..(Tries * Cardinality(Request))] :
          counter' = [s \in {t \in DOMAIN counter : saved[t] > 0} |->
                        [counter[s] EXCEPT !.count = saved[s]]]
    BY <1>7 DEF RedisRestarts
  <2>2. DOMAIN counter' \subseteq Slot
    BY <2>1 DEF RateTypeOK
  <2>3. Tries * Cardinality(Request) \in Nat
    BY RequestAssumption, FS_CardinalityType, RedisBounds
  <2>4. ASSUME NEW s \in DOMAIN counter
        PROVE  [counter[s] EXCEPT !.count = saved[s]] \in [count: Nat, until: Nat]
    BY <2>3 DEF RateTypeOK
  <2>5. counter' \in [DOMAIN counter' -> [count: Nat, until: Nat]]
    BY <2>1, <2>4
  <2>6. restarts' \in 0..MaxRestarts
    BY <1>7, RedisBounds DEF RedisRestarts, RateTypeOK
  <2> QED BY <1>7, <2>2, <2>5, <2>6 DEF RedisRestarts, RateTypeOK
<1>8. ASSUME Tick
      PROVE  RateTypeOK'
  BY <1>8, RedisBounds DEF Tick, RateTypeOK, rateVars, Time
<1>9. ASSUME UNCHANGED <<now, rateVars>>
      PROVE  RateTypeOK'
  BY <1>9 DEF RateTypeOK, rateVars
<1> QED BY <1>1, <1>2, <1>3, <1>4, <1>5, <1>6, <1>7, <1>8, <1>9 DEF RateNext, RedisStep
-----------------------------------------------------------------------------
(* The invariant: an answer that let a request pass is remembered by the key  *)
(* for a window's length, so that no count is given twice in that time.       *)

Length(p) == WindowSeconds[p.slot.key.name]

\* Counts within the limit, given since a restart that has happened.
CountsInLimit ==
  \A p \in passed : /\ p.count \in 1..Limit[p.slot.key.name]
                    /\ p.since <= restarts /\ p.at <= now

\* The key still stands where it stood, or higher.
KeysRemember ==
  \A p \in passed : (p.since = restarts /\ now < p.at + Length(p))
     => /\ p.slot \in DOMAIN counter
        /\ p.count <= counter[p.slot].count
        /\ p.at + Length(p) <= counter[p.slot].until

\* Two answers of one key and span have different counts.
CountsDiffer ==
  \A p, q \in passed : (/\ p # q /\ p.slot = q.slot /\ p.since = q.since
                        /\ p.at < q.at + Length(q) /\ q.at < p.at + Length(p))
     => p.count # q.count

LimitInv == CountsInLimit /\ KeysRemember /\ CountsDiffer

\* The types of an answer.
LEMMA PassedType ==
  ASSUME RateTypeOK, NEW p \in passed
  PROVE  /\ p.slot \in Slot /\ p.slot.key \in Key /\ p.slot.key.name \in LimitName
         /\ p.slot.window \in Time /\ p.count \in Nat /\ p.at \in Nat /\ p.since \in Nat
         /\ Length(p) \in Nat \ {0} /\ Limit[p.slot.key.name] \in Nat
<1>1. p \in Passed
  BY DEF RateTypeOK
<1>2. p.slot \in Slot /\ p.count \in Nat /\ p.at \in Nat /\ p.since \in Nat
  BY <1>1, RedisBounds DEF Passed, Time
<1>3. p.slot.key \in Key /\ p.slot.window \in Time
  BY <1>2 DEF Slot
<1>4. p.slot.key.name \in LimitName
  BY <1>3 DEF Key
<1> QED BY <1>2, <1>3, <1>4, LimitAssumption DEF Length

\* An INCR moves the key on: what it stood for before, it still remembers.
LEMMA IncrRemembers ==
  ASSUME RateTypeOK, KeysRemember, NEW r \in Request, Incr(r), now' = now,
         NEW p \in passed, p.since = restarts, p.at <= now, now < p.at + Length(p)
  PROVE  /\ p.slot \in DOMAIN counter'
         /\ p.count <= counter'[p.slot].count
         /\ p.at + Length(p) <= counter'[p.slot].until
<1> DEFINE slot == call[r].slot
           row == [count |-> NextCount(slot), until |-> now + WindowSeconds[slot.key.name]]
<1>1. /\ p.slot \in DOMAIN counter
      /\ p.count <= counter[p.slot].count
      /\ p.at + Length(p) <= counter[p.slot].until
  BY DEF KeysRemember
<1>2. counter' = [s \in {slot} \cup DOMAIN counter |-> IF s = slot THEN row ELSE counter[s]]
  BY DEF Incr
<1>3. CASE p.slot # slot
  BY <1>1, <1>2, <1>3
<1>4. CASE p.slot = slot
  <2>1. now \in Nat /\ p.at \in Nat /\ Length(p) \in Nat /\ p.count \in Nat
    BY PassedType, RedisBounds DEF RateTypeOK, Time
  <2>2. counter[slot].count \in Nat /\ counter[slot].until \in Nat
    BY <1>1, <1>4 DEF RateTypeOK
  <2>3. NextCount(slot) = counter[slot].count + 1
    BY <1>1, <1>4, <2>1, <2>2 DEF NextCount
  <2>4. p.at <= now => p.at + Length(p) <= now + WindowSeconds[slot.key.name]
    BY <1>4, <2>1 DEF Length
  <2> QED BY <1>1, <1>2, <1>4, <2>1, <2>2, <2>3, <2>4
<1> QED BY <1>3, <1>4

\* A count that is given is higher than what was given in the same span.
LEMMA NextCountIsNew ==
  ASSUME RateTypeOK, KeysRemember, NEW q \in passed,
         q.since = restarts, now < q.at + Length(q)
  PROVE  NextCount(q.slot) > q.count
<1>1. /\ q.slot \in DOMAIN counter
      /\ q.count <= counter[q.slot].count
      /\ q.at + Length(q) <= counter[q.slot].until
  BY DEF KeysRemember
<1>2. now \in Nat /\ q.at \in Nat /\ Length(q) \in Nat /\ q.count \in Nat
  BY PassedType, RedisBounds DEF RateTypeOK, Time
<1>3. counter[q.slot].count \in Nat /\ counter[q.slot].until \in Nat
  BY <1>1 DEF RateTypeOK
<1>4. NextCount(q.slot) = counter[q.slot].count + 1
  BY <1>1, <1>2, <1>3 DEF NextCount
<1> QED BY <1>1, <1>2, <1>3, <1>4

\* The answer that lets a request pass keeps the invariant.
LEMMA PassInv ==
  ASSUME RateTypeOK, RateTypeOK', LimitInv, NEW r \in Request, Pass(r)
  PROVE  LimitInv'
<1> DEFINE slot == call[r].slot
           n == [slot |-> slot, count |-> NextCount(slot), at |-> now, since |-> restarts]
<1>1. /\ ~TooMany(slot.key, NextCount(slot)) /\ Incr(r)
      /\ passed' = passed \cup {n} /\ now' = now /\ restarts' = restarts
  BY DEF Pass
<1>2. /\ slot \in Slot /\ slot.key.name \in LimitName /\ now \in Nat /\ restarts \in Nat
      /\ NextCount(slot) \in Nat \ {0} /\ Limit[slot.key.name] \in Nat
      /\ WindowSeconds[slot.key.name] \in Nat \ {0}
  <2>1. slot \in Slot /\ slot.key.name \in LimitName
    BY CallType
  <2>2. NextCount(slot) \in Nat \ {0}
    BY NextCountType
  <2>3. now \in Nat /\ restarts \in Nat
    BY RedisBounds DEF RateTypeOK, Time
  <2> QED BY <2>1, <2>2, <2>3, LimitAssumption
<1>3. n.slot = slot /\ n.count = NextCount(slot) /\ n.at = now /\ n.since = restarts
  OBVIOUS
<1>4. Length(n) = WindowSeconds[slot.key.name]
  BY DEF Length
<1>5. CountsInLimit'
  <2>1. n.count \in 1..Limit[n.slot.key.name]
    BY <1>1, <1>2, <1>3 DEF TooMany
  <2> HIDE DEF n
  <2> QED BY <1>1, <1>2, <1>3, <2>1 DEF LimitInv, CountsInLimit
<1>6. KeysRemember'
  <2>1. /\ slot \in DOMAIN counter' /\ counter'[slot].count = NextCount(slot)
        /\ counter'[slot].until = now + WindowSeconds[slot.key.name]
    BY <1>1 DEF Incr
  <2>2. ASSUME NEW p \in passed, p.since = restarts, now < p.at + Length(p)
        PROVE  /\ p.slot \in DOMAIN counter'
               /\ p.count <= counter'[p.slot].count
               /\ p.at + Length(p) <= counter'[p.slot].until
    BY <1>1, <2>2, IncrRemembers DEF LimitInv, CountsInLimit
  <2>3. /\ n.slot \in DOMAIN counter'
        /\ n.count <= counter'[n.slot].count
        /\ n.at + Length(n) <= counter'[n.slot].until
    BY <1>2, <1>3, <1>4, <2>1
  <2> HIDE DEF n, slot
  <2>4. ASSUME NEW p \in passed', p.since = restarts, now < p.at + Length(p)
        PROVE  /\ p.slot \in DOMAIN counter'
               /\ p.count <= counter'[p.slot].count
               /\ p.at + Length(p) <= counter'[p.slot].until
    BY <1>1, <2>2, <2>3, <2>4
  <2>5. \A p : Length(p)' = Length(p)
    BY DEF Length
  <2> QED BY <1>1, <2>4, <2>5 DEF KeysRemember
<1>7. CountsDiffer'
  <2>1. ASSUME NEW q \in passed, q.slot = slot, q.since = restarts, now < q.at + Length(q)
        PROVE  q.count # n.count
    <3>1. NextCount(slot) > q.count /\ q.count \in Nat
      BY <2>1, NextCountIsNew, PassedType DEF LimitInv
    <3> QED BY <1>2, <1>3, <3>1
  <2> HIDE DEF n, slot
  <2>2. ASSUME NEW p \in passed', NEW q \in passed', p # q, p.slot = q.slot, p.since = q.since,
               p.at < q.at + Length(q), q.at < p.at + Length(p)
        PROVE  p.count # q.count
    <3>1. CASE p \in passed /\ q \in passed
      BY <2>2, <3>1 DEF LimitInv, CountsDiffer
    <3>2. CASE p = n /\ q \in passed
      BY <1>3, <2>1, <2>2, <3>2
    <3>3. CASE p \in passed /\ q = n
      BY <1>3, <2>1, <2>2, <3>3
    <3> QED BY <1>1, <2>2, <3>1, <3>2, <3>3
  <2>3. \A p : Length(p)' = Length(p)
    BY DEF Length
  <2> QED BY <2>2, <2>3 DEF CountsDiffer
<1> QED BY <1>5, <1>6, <1>7 DEF LimitInv

\* So does an INCR whose answer lets nobody pass.
LEMMA IncrInv ==
  ASSUME RateTypeOK, LimitInv, NEW r \in Request, Incr(r),
         UNCHANGED <<now, restarts, passed>>
  PROVE  LimitInv'
<1>1. ASSUME NEW p \in passed, p.since = restarts, now < p.at + Length(p)
      PROVE  /\ p.slot \in DOMAIN counter'
             /\ p.count <= counter'[p.slot].count
             /\ p.at + Length(p) <= counter'[p.slot].until
  BY <1>1, IncrRemembers DEF LimitInv, CountsInLimit
<1>2. \A p : Length(p)' = Length(p)
  BY DEF Length
<1>3. KeysRemember'
  BY <1>1, <1>2 DEF KeysRemember
<1>4. CountsInLimit' /\ CountsDiffer'
  BY <1>2 DEF LimitInv, CountsInLimit, CountsDiffer
<1> QED BY <1>3, <1>4 DEF LimitInv

\* A step that leaves the counters, or starts them again, keeps the invariant.
LEMMA RateStepInv ==
  ASSUME RateTypeOK, RateTypeOK', LimitInv, [RateNext]_<<now, rateVars>>
  PROVE  LimitInv'
<1> USE DEF Length
<1>1. ASSUME NEW r \in Request, Pass(r)
      PROVE  LimitInv'
  BY <1>1, PassInv
<1>2. ASSUME NEW r \in Request, Refuse(r) \/ ReplyLost(r)
      PROVE  LimitInv'
  BY <1>2, IncrInv DEF Refuse, ReplyLost
<1>3. ASSUME UNCHANGED <<now, counter, restarts, passed>>
      PROVE  LimitInv'
  BY <1>3 DEF LimitInv, CountsInLimit, KeysRemember, CountsDiffer
<1>4. ASSUME RedisRestarts
      PROVE  LimitInv'
  <2>1. restarts' = restarts + 1 /\ UNCHANGED <<now, passed>> /\ restarts \in Nat
    BY <1>4, RedisBounds DEF RedisRestarts, RateTypeOK
  <2>2. \A p \in passed : p.since <= restarts /\ p.since \in Nat
    BY PassedType DEF LimitInv, CountsInLimit
  <2>3. CountsInLimit' /\ KeysRemember'
    BY <2>1, <2>2 DEF LimitInv, CountsInLimit, KeysRemember
  <2> QED BY <2>1, <2>3 DEF LimitInv, CountsDiffer
<1>5. ASSUME Tick
      PROVE  LimitInv'
  <2>1. now' = now + 1 /\ now \in Nat /\ UNCHANGED <<counter, restarts, passed>>
    BY <1>5, RedisBounds DEF Tick, rateVars, RateTypeOK, Time
  <2>2. \A p \in passed : p.at \in Nat /\ Length(p) \in Nat
    BY PassedType
  <2>3. CountsInLimit' /\ KeysRemember'
    BY <2>1, <2>2 DEF LimitInv, CountsInLimit, KeysRemember
  <2> QED BY <2>1, <2>3 DEF LimitInv, CountsDiffer
<1>6. ASSUME NEW r \in Request, FailOpen(r) \/ \E k \in Key : enforce(r, k)
      PROVE  LimitInv'
  BY <1>3, <1>6 DEF FailOpen, enforce
<1>7. ASSUME NEW R \in SUBSET Request, Return(R)
      PROVE  LimitInv'
  BY <1>3, <1>7 DEF Return
<1>8. ASSUME UNCHANGED <<now, rateVars>>
      PROVE  LimitInv'
  BY <1>3, <1>8 DEF rateVars
<1> QED BY <1>1, <1>2, <1>4, <1>5, <1>6, <1>7, <1>8 DEF RateNext, RedisStep

\* Nothing is counted yet.
LEMMA RateInitInv == RateInit => LimitInv
  BY DEF RateInit, LimitInv, CountsInLimit, KeysRemember, CountsDiffer

\* What the invariant says of a span: the answers of one window have different
\* counts within the limit.
LEMMA LimitMeansBounded ==
  ASSUME RateTypeOK, LimitInv
  PROVE  SpanBounded
<1> SUFFICES ASSUME NEW key \in Key, NEW t \in Time, NEW since \in 0..MaxRestarts
             PROVE  LET span == PassedFrom(key, t, since) IN
                    Cardinality(span) <= Limit[key.name] * Cardinality({p.slot.window : p \in span})
  BY DEF SpanBounded
<1> DEFINE span == PassedFrom(key, t, since)
           windows == {p.slot.window : p \in span}
           limit == Limit[key.name]
           grid == windows \X (1..limit)
           place == [p \in span |-> <<p.slot.window, p.count>>]
<1>1. key.name \in LimitName /\ limit \in Nat
  BY LimitAssumption DEF Key
<1>2. ASSUME NEW p \in span
      PROVE  /\ p \in passed /\ p.slot \in Slot /\ p.slot.key = key /\ p.since = since
             /\ p.slot.window \in Time /\ p.count \in 1..limit /\ p.count \in Nat
             /\ p.at \in Nat /\ t <= p.at /\ p.at < t + WindowSeconds[key.name]
             /\ Length(p) = WindowSeconds[key.name]
  <2>1. p \in passed /\ p.slot.key = key
    BY DEF PassedFrom
  <2>2. p.slot \in Slot /\ p.slot.window \in Time /\ p.count \in Nat /\ p.at \in Nat
    BY <2>1, PassedType
  <2>3. p.count \in 1..limit
    BY <2>1 DEF LimitInv, CountsInLimit
  <2> QED BY <2>1, <2>2, <2>3 DEF PassedFrom, Length
<1>3. IsFiniteSet(windows) /\ Cardinality(windows) \in Nat
  <2>1. IsFiniteSet(Time)
    BY RedisBounds, FS_Interval DEF Time
  <2>2. windows \subseteq Time
    BY <1>2
  <2> HIDE DEF windows
  <2>3. IsFiniteSet(windows)
    BY <2>1, <2>2, FS_Subset
  <2> QED BY <2>3, FS_CardinalityType
<1>4. IsFiniteSet(1..limit) /\ Cardinality(1..limit) = limit
  <2>1. 1 \in Int /\ limit \in Int /\ (1 > limit => limit = 0) /\ limit - 1 + 1 = limit
    BY <1>1
  <2> HIDE DEF limit
  <2> QED BY <2>1, FS_Interval
<1>5. IsFiniteSet(grid) /\ Cardinality(grid) = Cardinality(windows) * limit
  <2> HIDE DEF windows, limit
  <2> QED BY <1>3, <1>4, FS_Product
<1>6. place \in [span -> grid]
  <2>1. ASSUME NEW p \in span
        PROVE  <<p.slot.window, p.count>> \in grid
    BY <1>2
  <2> HIDE DEF span, grid
  <2> QED BY <2>1
<1>7. ASSUME NEW p \in span, NEW q \in span, place[p] = place[q]
      PROVE  p = q
  <2>1. p.slot.window = q.slot.window /\ p.count = q.count
    BY <1>7
  <2>2. p.slot = q.slot
    BY <1>2, <2>1 DEF Slot
  <2>3. WindowSeconds[key.name] \in Nat /\ t \in Nat
    BY <1>1, LimitAssumption, RedisBounds DEF Time
  <2>4. /\ p \in passed /\ q \in passed /\ p.since = q.since
        /\ p.at < q.at + Length(q) /\ q.at < p.at + Length(p)
    <3>1. /\ p \in passed /\ p.at \in Nat /\ t <= p.at /\ p.at < t + WindowSeconds[key.name]
          /\ p.since = since /\ Length(p) = WindowSeconds[key.name]
      BY <1>2
    <3>2. /\ q \in passed /\ q.at \in Nat /\ t <= q.at /\ q.at < t + WindowSeconds[key.name]
          /\ q.since = since /\ Length(q) = WindowSeconds[key.name]
      BY <1>2
    <3> HIDE DEF span
    <3> QED BY <2>3, <3>1, <3>2
  <2> QED BY <2>1, <2>2, <2>4 DEF LimitInv, CountsDiffer
<1>8. place \in Injection(span, grid)
  <2> HIDE DEF place, grid, span
  <2> QED BY <1>6, <1>7 DEF Injection, IsInjective
<1>9. Cardinality(span) <= Cardinality(grid)
  <2> HIDE DEF place, grid, span
  <2> QED BY <1>5, <1>8, FS_Injection
<1>10. Cardinality(windows) * limit = limit * Cardinality(windows)
  <2> HIDE DEF windows, limit
  <2> QED BY <1>1, <1>3
<1> QED BY <1>5, <1>9, <1>10

-----------------------------------------------------------------------------
(* Sums over times. A sum of naturals is the number of pairs of an element    *)
(* and one of its units.                                                      *)

\* A set of numbers that has a member has a smallest one.
LEMMA SmallestExists ==
  ASSUME NEW S \in SUBSET Nat, S # {}
  PROVE  \E m \in S : \A k \in S : m <= k
<1> DEFINE R == {ss \in Nat \X Nat : ss[1] < ss[2]}
<1>1. IsWellFoundedOn(R, Nat)
  BY NatLessThanWellFounded DEF OpToRel
<1>2. PICK m \in S : \A k \in S : ~(<<k, m>> \in R)
  BY <1>1, WFMin, Zenon
<1>3. \A k \in S : ~(k < m)
  BY <1>2
<1> QED BY <1>3

Units(f, T) == {p \in T \X Nat : 1 <= p[2] /\ p[2] <= f[p[1]]}

\* f tallies naturals for a finite set of times T.
Tallies(f, T) == IsFiniteSet(T) /\ \A t \in T : f[t] \in Nat

\* it is the recursive function behind the sum of f over subsets of S.
IsSum(it, f, S) ==
  it = [u \in SUBSET S |-> IF u = {} THEN 0
                           ELSE LET x == CHOOSE x \in u : TRUE IN f[x] + it[u \ {x}]]

\* What MapThenSumSet stands for.
LEMMA SumUnfolds ==
  ASSUME NEW f, NEW S
  PROVE  MapThenSumSet(LAMBDA t : f[t], S) = (CHOOSE it : IsSum(it, f, S))[S]
BY DEF MapThenSumSet, MapThenFoldSet, IsSum

\* One element has as many units as its value.
LEMMA UnitsOfOne ==
  ASSUME NEW x, NEW n \in Nat
  PROVE  LET one == {x} \X (1..n) IN IsFiniteSet(one) /\ Cardinality(one) = n
<1>1. IsFiniteSet({x}) /\ Cardinality({x}) = 1
  BY FS_Singleton
<1>2. IsFiniteSet(1..n) /\ Cardinality(1..n) = n
  <2>1. 1 \in Int /\ n \in Int /\ (1 > n => n = 0) /\ n - 1 + 1 = n
    OBVIOUS
  <2> QED BY <2>1, FS_Interval
<1>3. /\ IsFiniteSet({x} \X (1..n))
      /\ Cardinality({x} \X (1..n)) = Cardinality({x}) * Cardinality(1..n)
  BY <1>1, <1>2, FS_Product, Zenon
<1>4. Cardinality({x}) * Cardinality(1..n) = n
  BY <1>1, <1>2
<1> QED BY <1>3, <1>4

\* There are finitely many units.
LEMMA UnitsFinite ==
  ASSUME NEW T, NEW f, Tallies(f, T)
  PROVE  IsFiniteSet(Units(f, T)) /\ Cardinality(Units(f, T)) \in Nat
<1> DEFINE one == [x \in T |-> {x} \X (1..f[x])]
           ones == {one[x] : x \in T}
<1>1. one \in Surjection(T, ones)
  BY DEF Surjection
<1>2. \A x \in T : IsFiniteSet(one[x])
  BY UnitsOfOne DEF Tallies
<1>3. Units(f, T) = UNION ones
  <2>1. \A p \in Units(f, T) : p[1] \in T /\ p \in one[p[1]]
    BY DEF Units
  <2>2. \A x \in T : one[x] \subseteq Units(f, T)
    BY DEF Units
  <2> HIDE DEF one
  <2> QED BY <2>1, <2>2
<1> HIDE DEF one, ones
<1>4. IsFiniteSet(ones)
  BY <1>1, FS_Surjection DEF Tallies
<1>5. IsFiniteSet(UNION ones)
  BY <1>2, <1>4, FS_UNION DEF ones
<1> QED BY <1>3, <1>5, FS_CardinalityType

\* The units of a set are those of any one of its elements and those of the others.
LEMMA UnitsSplit ==
  ASSUME NEW T, NEW f, Tallies(f, T), NEW x \in T
  PROVE  /\ Tallies(f, T \ {x})
         /\ Cardinality(Units(f, T)) = f[x] + Cardinality(Units(f, T \ {x}))
<1> DEFINE one == {x} \X (1..f[x])
           R == Units(f, T \ {x})
<1>1. Tallies(f, T \ {x})
  BY FS_Subset DEF Tallies
<1>2. IsFiniteSet(one) /\ Cardinality(one) = f[x] /\ f[x] \in Nat
  BY UnitsOfOne DEF Tallies
<1>3. IsFiniteSet(R) /\ Cardinality(R) \in Nat
  BY <1>1, UnitsFinite
<1>4. Units(f, T) = one \cup R
  BY DEF Units
<1>5. one \cap R = {}
  BY DEF Units
<1> HIDE DEF one, R
<1>6. Cardinality(one \cup R) = Cardinality(one) + Cardinality(R) - Cardinality(one \cap R)
  BY <1>2, <1>3, FS_Union
<1>7. Cardinality(one \cap R) = 0
  BY <1>5, FS_EmptySet
<1>8. Cardinality(Units(f, T)) = f[x] + Cardinality(R)
  BY <1>2, <1>3, <1>4, <1>6, <1>7
<1> QED BY <1>1, <1>8 DEF R

\* So the sum is the number of units.
LEMMA SumIsUnits ==
  ASSUME NEW T, NEW f, Tallies(f, T)
  PROVE  MapThenSumSet(LAMBDA t : f[t], T) = Cardinality(Units(f, T))
<1> DEFINE F == [u \in SUBSET T |-> Cardinality(Units(f, u))]
<1>1. ASSUME NEW u \in SUBSET T
      PROVE  IsFiniteSet(u) /\ Tallies(f, u)
  BY FS_Subset DEF Tallies
<1>2. ASSUME NEW u \in SUBSET T
      PROVE  \A x \in u : F[u] = f[x] + F[u \ {x}]
  <2> TAKE x \in u
  <2>1. u \ {x} \in SUBSET T
    OBVIOUS
  <2>2. Cardinality(Units(f, u)) = f[x] + Cardinality(Units(f, u \ {x}))
    BY <1>1, UnitsSplit
  <2> QED BY <2>1, <2>2
<1>3. F[{}] = 0
  <2>1. Units(f, {}) = {}
    BY DEF Units
  <2> QED BY <2>1, FS_EmptySet
<1>4. F = [u \in SUBSET T |-> F[u]] /\ F[T] = Cardinality(Units(f, T))
  OBVIOUS
<1> HIDE DEF F
<1>5. IsSum(F, f, T)
  <2>1. ASSUME NEW u \in SUBSET T
        PROVE  F[u] = IF u = {} THEN 0
                      ELSE LET x == CHOOSE x \in u : TRUE IN f[x] + F[u \ {x}]
    <3>1. CASE u = {}
      BY <3>1, <1>3
    <3>2. CASE u # {}
      <4> DEFINE x == CHOOSE x \in u : TRUE
      <4>1. x \in u
        BY <3>2
      <4> HIDE DEF x
      <4>2. F[u] = f[x] + F[u \ {x}]
        BY <4>1, <1>2
      <4> QED BY <4>2, <3>2 DEF x
    <3> QED BY <3>1, <3>2
  <2> QED BY <2>1, <1>4 DEF IsSum
<1>6. PICK it : it = (CHOOSE g : IsSum(g, f, T)) /\ IsSum(it, f, T)
  BY <1>5
\* A smallest set that is summed up differently would have a smaller one in it.
<1>7. \A u \in SUBSET T : it[u] = F[u]
  <2> DEFINE bad == {m \in Nat : \E u \in SUBSET T : Cardinality(u) = m /\ it[u] # F[u]}
  <2>1. bad = {}
    <3> SUFFICES ASSUME bad # {} PROVE FALSE
      OBVIOUS
    <3>1. PICK m \in bad : \A k \in bad : m <= k
      BY SmallestExists
    <3>2. PICK u \in SUBSET T : Cardinality(u) = m /\ it[u] # F[u]
      OBVIOUS
    <3>3. it[u] = IF u = {} THEN 0
                  ELSE LET x == CHOOSE x \in u : TRUE IN f[x] + it[u \ {x}]
      BY <1>6 DEF IsSum
    <3>4. u # {}
      BY <3>2, <3>3, <1>3
    <3> DEFINE x == CHOOSE x \in u : TRUE
    <3>5. x \in u /\ it[u] = f[x] + it[u \ {x}]
      BY <3>3, <3>4
    <3> HIDE DEF x
    <3>6. /\ u \ {x} \in SUBSET T
          /\ Cardinality(u \ {x}) = m - 1 /\ m - 1 \in Nat
      <4>1. IsFiniteSet(u) /\ IsFiniteSet(u \ {x}) /\ u \ {x} \in SUBSET T
        BY <1>1
      <4>2. Cardinality(u \ {x}) = Cardinality(u) - 1
        BY <4>1, <3>5, FS_RemoveElement
      <4>3. Cardinality(u \ {x}) \in Nat
        BY <4>1, FS_CardinalityType
      <4> QED BY <4>1, <4>2, <4>3, <3>2
    <3>7. it[u \ {x}] = F[u \ {x}]
      BY <3>6, <3>1
    <3>8. F[u] = f[x] + F[u \ {x}]
      BY <1>2, <3>5
    <3> QED BY <3>2, <3>5, <3>7, <3>8
  <2> SUFFICES ASSUME NEW u \in SUBSET T, it[u] # F[u] PROVE FALSE
    OBVIOUS
  <2>2. Cardinality(u) \in Nat
    BY <1>1, FS_CardinalityType
  <2> QED BY <2>1, <2>2
<1>8. it[T] = F[T]
  BY <1>7
<1>9. MapThenSumSet(LAMBDA t : f[t], T) = (CHOOSE g : IsSum(g, f, T))[T]
  BY SumUnfolds
<1> QED BY <1>4, <1>6, <1>8, <1>9

\* More times have more units.
LEMMA UnitsGrow ==
  ASSUME NEW T, NEW f, Tallies(f, T), NEW S \in SUBSET T
  PROVE  Cardinality(Units(f, S)) <= Cardinality(Units(f, T))
<1>1. Units(f, S) \subseteq Units(f, T)
  BY DEF Units
<1>2. IsFiniteSet(Units(f, T))
  BY UnitsFinite
<1> QED BY <1>1, <1>2, FS_Subset

\* One more for a time is one unit more.
LEMMA UnitAdded ==
  ASSUME NEW T, NEW f, Tallies(f, T), NEW x \in T,
         NEW g, Tallies(g, T), g[x] = f[x] + 1, \A t \in T \ {x} : g[t] = f[t]
  PROVE  Cardinality(Units(g, T)) = Cardinality(Units(f, T)) + 1
<1>1. Units(g, T \ {x}) = Units(f, T \ {x})
  BY DEF Units
<1>2. Cardinality(Units(g, T)) = g[x] + Cardinality(Units(g, T \ {x}))
  BY UnitsSplit
<1>3. /\ Cardinality(Units(f, T)) = f[x] + Cardinality(Units(f, T \ {x}))
      /\ Cardinality(Units(f, T \ {x})) \in Nat
  BY UnitsSplit, UnitsFinite
<1>4. f[x] \in Nat
  BY DEF Tallies
<1> QED BY <1>1, <1>2, <1>3, <1>4
-----------------------------------------------------------------------------
(* The invariant: what a key has counted was tallied at times of its window *)

\* The times of the slot's window.
TimesOf(s) == {t \in Time : window(s.key.name, t) = s.window}

\* A call is stamped with the window of the time it read.
CallsStamped ==
  \A r \in Request : call[r].stage = "called" => call[r].read \in TimesOf(call[r].slot)

CountsTallied ==
  \A s \in DOMAIN counter :
    counter[s].count <= Cardinality(Units(tally[s.key], TimesOf(s)))

\* Retry-After leads to the beginning of a window.
PromisesEndWindows ==
  \A k \in Key : \E n \in Nat : promised[k] = WindowSeconds[k.name] * n

TallyInv == CallsStamped /\ CountsTallied /\ PromisesEndWindows

\* A slot's times are finitely many, and each is tallied.
LEMMA TallyType ==
  ASSUME RateTypeOK, NEW s \in Slot
  PROVE  /\ s.key \in Key /\ s.key.name \in LimitName /\ s.window \in Time
         /\ Tallies(tally[s.key], Time) /\ Tallies(tally[s.key], TimesOf(s))
<1>1. s.key \in Key /\ s.window \in Time
  BY DEF Slot
<1>2. IsFiniteSet(Time)
  BY RedisBounds, FS_Interval DEF Time
<1>3. IsFiniteSet(TimesOf(s)) /\ TimesOf(s) \subseteq Time
  BY <1>2, FS_Subset DEF TimesOf
<1>4. tally[s.key] \in [Time -> Nat]
  BY <1>1 DEF RateTypeOK
<1> QED BY <1>1, <1>2, <1>3, <1>4 DEF Tallies, Key

\* An INCR of a stamped call tallies what the key's next count stands for.
LEMMA NextCountTallied ==
  ASSUME RateTypeOK, RateTypeOK', TallyInv, NEW r \in Request, call[r].stage = "called", Incr(r)
  PROVE  /\ CountsTallied'
         /\ LET slot == call[r].slot IN
            NextCount(slot) <= Cardinality(Units(tally'[slot.key], TimesOf(slot)))
<1> DEFINE slot == call[r].slot
           read == call[r].read
<1>1. slot \in Slot /\ read \in TimesOf(slot) /\ slot.key \in Key
  BY CallType DEF TallyInv, CallsStamped
<1>2. /\ tally' = [tally EXCEPT ![slot.key][read] = @ + 1]
      /\ DOMAIN counter' = {slot} \cup DOMAIN counter
      /\ counter'[slot].count = NextCount(slot)
      /\ \A s \in DOMAIN counter : s # slot => counter'[s] = counter[s]
  BY DEF Incr
<1> HIDE DEF slot, read
<1>3. /\ \A k \in Key : k # slot.key => tally'[k] = tally[k]
      /\ \A t \in Time : t # read => tally'[slot.key][t] = tally[slot.key][t]
      /\ tally'[slot.key][read] = tally[slot.key][read] + 1
  <2>1. /\ tally \in [Key -> [Time -> Nat]] /\ slot.key \in Key /\ read \in Time
        /\ tally[slot.key] \in [Time -> Nat]
    BY <1>1 DEF RateTypeOK, TimesOf
  <2>2. tally' = [tally EXCEPT ![slot.key] = [tally[slot.key] EXCEPT ![read] = @ + 1]]
    BY <1>2
  <2> QED BY <2>1, <2>2
<1>4. Tallies(tally[slot.key], TimesOf(slot)) /\ Tallies(tally'[slot.key], TimesOf(slot))
  BY <1>1, TallyType DEF TimesOf, Tallies, RateTypeOK
<1>5. Cardinality(Units(tally'[slot.key], TimesOf(slot)))
        = Cardinality(Units(tally[slot.key], TimesOf(slot))) + 1
  <2>1. TimesOf(slot) \subseteq Time
    BY DEF TimesOf
  <2> QED BY <1>1, <1>3, <1>4, <2>1, UnitAdded
<1>6. NextCount(slot) <= Cardinality(Units(tally'[slot.key], TimesOf(slot)))
  <2>1. Cardinality(Units(tally[slot.key], TimesOf(slot))) \in Nat
    BY <1>4, UnitsFinite
  <2>2. CASE slot \in DOMAIN counter /\ now < counter[slot].until
    <3>1. NextCount(slot) = counter[slot].count + 1 /\ counter[slot].count \in Nat
      BY <2>2 DEF NextCount, RateTypeOK
    <3>2. counter[slot].count <= Cardinality(Units(tally[slot.key], TimesOf(slot)))
      BY <2>2 DEF TallyInv, CountsTallied
    <3> QED BY <1>5, <2>1, <3>1, <3>2
  <2>3. CASE ~(slot \in DOMAIN counter /\ now < counter[slot].until)
    <3>1. NextCount(slot) = 1
      BY <2>3 DEF NextCount
    <3> QED BY <1>5, <2>1, <3>1
  <2> QED BY <2>2, <2>3
<1>7. ASSUME NEW s \in DOMAIN counter', s # slot
      PROVE  counter'[s].count <= Cardinality(Units(tally'[s.key], TimesOf(s)))
  <2>1. s \in DOMAIN counter /\ counter'[s] = counter[s] /\ s \in Slot
    BY <1>2, <1>7 DEF RateTypeOK
  <2>2. counter[s].count <= Cardinality(Units(tally[s.key], TimesOf(s)))
    BY <2>1 DEF TallyInv, CountsTallied
  <2>3. \A t \in TimesOf(s) : tally'[s.key][t] = tally[s.key][t]
    <3>1. CASE s.key # slot.key
      <4>1. s.key \in Key
        BY <2>1 DEF Slot
      <4> QED BY <3>1, <4>1, <1>3
    <3>2. CASE s.key = slot.key
      <4>1. s.window # slot.window
        BY <1>1, <1>7, <2>1, <3>2 DEF Slot
      <4>2. read \notin TimesOf(s)
        BY <1>1, <3>2, <4>1 DEF TimesOf
      <4> QED BY <1>3, <3>2, <4>2 DEF TimesOf
    <3> QED BY <3>1, <3>2
  <2>4. Units(tally'[s.key], TimesOf(s)) = Units(tally[s.key], TimesOf(s))
    BY <2>3 DEF Units
  <2> QED BY <2>1, <2>2, <2>4
<1>8. CountsTallied'
  BY <1>2, <1>6, <1>7 DEF CountsTallied, TimesOf
<1> QED BY <1>6, <1>8 DEF slot

\* Retry-After leads from a time to the beginning of the next window.
LEMMA RetryAtNextWindow ==
  ASSUME NEW n \in LimitName, NEW t \in Time
  PROVE  \E k \in Nat : RetryAt(n, t) = WindowSeconds[n] * k
<1> DEFINE w == WindowSeconds[n]
           q == t \div w
<1>1. w \in Nat /\ w > 0 /\ t \in Nat
  BY LimitAssumption, RedisBounds DEF Time
<1>2. q \in Nat
  BY WindowInTime, RedisBounds DEF window, Time
<1>3. t = w * q + (t % w)
  <2> HIDE DEF w
  <2> QED BY <1>1
<1>4. w * (q + 1) = w * q + w /\ t % w \in Int
  <2> HIDE DEF w, q
  <2> QED BY <1>1, <1>2
<1>5. RetryAt(n, t) = w * (q + 1)
  BY <1>1, <1>2, <1>3, <1>4 DEF RetryAt
<1> HIDE DEF w, q
<1> QED BY <1>2, <1>5 DEF w

\* A time at which no earlier than a window's beginning was read is of that window
\* or of a later one, and so are all times of its window.
LEMMA WindowAfter ==
  ASSUME NEW s, s.key.name \in LimitName, NEW read \in TimesOf(s), NEW n \in Nat,
         read >= WindowSeconds[s.key.name] * n
  PROVE  \A t \in TimesOf(s) : t >= WindowSeconds[s.key.name] * n
<1> DEFINE w == WindowSeconds[s.key.name]
           q == s.window
<1>1. w \in Nat /\ w > 0
  BY LimitAssumption
<1>2. ASSUME NEW t \in TimesOf(s)
      PROVE  t \in Nat /\ q \in Int /\ w * q <= t /\ t < w * (q + 1)
  <2>1. t \in Nat /\ t \div w = q
    BY <1>2, RedisBounds DEF TimesOf, window, Time
  <2> HIDE DEF w, q
  <2> QED BY <1>1, <2>1
<1>3. read \in Nat /\ q \in Int /\ read < w * (q + 1) /\ w * n <= read
  BY <1>1, <1>2
<1>4. n <= q
  <2> HIDE DEF w, q
  <2> SUFFICES ASSUME q + 1 <= n PROVE FALSE
    BY <1>3
  <2>1. w * (q + 1) <= w * n
    BY <1>1, <1>3
  <2> QED BY <1>1, <1>3, <2>1
<1>5. w * n <= w * q
  <2> HIDE DEF w, q
  <2> QED BY <1>1, <1>3, <1>4
<1> HIDE DEF w, q
<1>6. ASSUME NEW t \in TimesOf(s)
      PROVE  t >= w * n
  BY <1>1, <1>2, <1>3, <1>5
<1> QED BY <1>6 DEF w

\* TallyInv is inductive.
LEMMA TallyStep ==
  ASSUME RateTypeOK, RateTypeOK', TallyInv, [RateNext]_<<now, rateVars>>
  PROVE  TallyInv'
<1>1. ASSUME NEW r \in Request, Pass(r) \/ Refuse(r) \/ ReplyLost(r)
      PROVE  TallyInv'
  <2>1. Incr(r) /\ call[r].stage = "called" /\ call \in [Request -> Call]
    BY <1>1 DEF Pass, Refuse, ReplyLost, Sends, RateTypeOK
  <2>2. CountsTallied'
    BY <2>1, NextCountTallied
  <2>3. CallsStamped'
    <3>1. \A q \in Request : call'[q].slot = call[q].slot /\ call'[q].read = call[q].read
      BY <1>1, <2>1 DEF Pass, Refuse, ReplyLost, Call
    <3>2. \A q \in Request : call'[q].stage = "called" => call[q].stage = "called"
      BY <1>1, <2>1 DEF Pass, Refuse, ReplyLost, Call
    <3> QED BY <3>1, <3>2 DEF TallyInv, CallsStamped, TimesOf
  <2>4. PromisesEndWindows'
    <3>1. CASE Refuse(r)
      <4>1. call[r].slot.key.name \in LimitName /\ call[r].read \in Time
        BY CallType
      <4>2. \E n \in Nat : RetryAt(call[r].slot.key.name, call[r].read)
                             = WindowSeconds[call[r].slot.key.name] * n
        BY <4>1, RetryAtNextWindow
      <4> QED BY <3>1, <4>2 DEF Refuse, TallyInv, PromisesEndWindows, RateTypeOK
    <3>2. CASE Pass(r) \/ ReplyLost(r)
      BY <3>2 DEF Pass, ReplyLost, TallyInv, PromisesEndWindows
    <3> QED BY <1>1, <3>1, <3>2
  <2> QED BY <2>2, <2>3, <2>4 DEF TallyInv
<1>2. ASSUME UNCHANGED <<counter, tally, promised>>,
             \A q \in Request : call'[q].stage = "called" =>
               call'[q] = call[q] \/ call'[q].read \in TimesOf(call'[q].slot)
      PROVE  TallyInv'
  <2>1. CallsStamped'
    BY <1>2 DEF TallyInv, CallsStamped, TimesOf
  <2>2. CountsTallied' /\ PromisesEndWindows'
    BY <1>2 DEF TallyInv, CountsTallied, PromisesEndWindows, TimesOf
  <2> QED BY <2>1, <2>2 DEF TallyInv
<1>3. ASSUME NEW r \in Request, FailOpen(r)
      PROVE  TallyInv'
  <2>1. call \in [Request -> Call]
    BY DEF RateTypeOK
  <2>2. \A q \in Request : call'[q].stage = "called" => call'[q] = call[q]
    BY <1>3, <2>1 DEF FailOpen, Call
  <2> QED BY <1>2, <1>3, <2>2 DEF FailOpen
<1>4. ASSUME NEW r \in Request, NEW k \in Key, enforce(r, k)
      PROVE  TallyInv'
  <2>1. now \in TimesOf(Stamp(k))
    BY DEF TimesOf, Stamp, RateTypeOK
  <2>2. \A q \in Request : call'[q] = call[q]
          \/ call'[q] = [stage |-> "called", slot |-> Stamp(k), read |-> now, tries |-> 0]
    BY <1>4 DEF enforce, RateTypeOK
  <2> QED BY <1>2, <1>4, <2>1, <2>2 DEF enforce
<1>5. ASSUME NEW R \in SUBSET Request, Return(R)
      PROVE  TallyInv'
  <2>1. \A q \in Request : call'[q].stage = "called" => call'[q] = call[q]
    BY <1>5 DEF Return, NoCall
  <2> QED BY <1>2, <1>5, <2>1 DEF Return
<1>6. ASSUME RedisRestarts
      PROVE  TallyInv'
  <2>1. PICK saved \in [DOMAIN counter -> 0..(Tries * Cardinality(Request))] :
          /\ \A s \in DOMAIN counter : saved[s] <= counter[s].count
          /\ counter' = [s \in {t \in DOMAIN counter : saved[t] > 0} |->
                           [counter[s] EXCEPT !.count = saved[s]]]
    BY <1>6 DEF RedisRestarts
  <2>2. Tries * Cardinality(Request) \in Nat
    BY RequestAssumption, FS_CardinalityType, RedisBounds
  <2>3. UNCHANGED <<call, tally, promised>>
    BY <1>6 DEF RedisRestarts
  <2>4. ASSUME NEW s \in DOMAIN counter'
        PROVE  counter'[s].count <= Cardinality(Units(tally'[s.key], TimesOf(s)))
    <3>1. /\ s \in DOMAIN counter /\ s \in Slot /\ counter[s] \in [count: Nat, until: Nat]
          /\ saved[s] \in Nat /\ saved[s] <= counter[s].count
      BY <2>1, <2>2 DEF RateTypeOK
    <3>2. counter'[s].count = saved[s]
      BY <2>1, <3>1
    <3>3. counter[s].count <= Cardinality(Units(tally[s.key], TimesOf(s)))
      BY <3>1 DEF TallyInv, CountsTallied
    <3>4. Cardinality(Units(tally[s.key], TimesOf(s))) \in Nat
      BY <3>1, TallyType, UnitsFinite
    <3> QED BY <2>3, <3>1, <3>2, <3>3, <3>4
  <2>5. CountsTallied'
    BY <2>4 DEF CountsTallied, TimesOf
  <2> QED BY <2>3, <2>5 DEF TallyInv, CallsStamped, PromisesEndWindows, TimesOf
<1>7. ASSUME UNCHANGED rateVars
      PROVE  TallyInv'
  BY <1>2, <1>7 DEF rateVars
<1> QED BY <1>1, <1>3, <1>4, <1>5, <1>6, <1>7 DEF RateNext, RedisStep, Tick, rateVars

\* Nothing is called, counted or promised yet.
LEMMA TallyInit == RateInit => TallyInv
<1> SUFFICES ASSUME RateInit PROVE TallyInv
  OBVIOUS
<1>1. \A k \in Key : promised[k] = WindowSeconds[k.name] * 0
  BY LimitAssumption DEF RateInit, Key
<1> QED BY <1>1 DEF RateInit, TallyInv, CallsStamped, CountsTallied, PromisesEndWindows, NoCall

\* What the invariant says of a refusal: the refused count was tallied at times of
\* the window it read, which begins no earlier than the promise ends.
LEMMA RefusedIsCounted ==
  ASSUME RateTypeOK, RateTypeOK', TallyInv, [RateNext]_<<now, rateVars>>,
         NEW r \in Request, call[r].stage = "called", call'[r].stage = "refused",
         call[r].read >= promised[call[r].slot.key]
  PROVE  LET key == call[r].slot.key
             after == {t \in Time : t >= promised[key]}
         IN MapThenSumSet(LAMBDA t : tally'[key][t], after) > Limit[key.name]
<1> DEFINE slot == call[r].slot
           key == slot.key
           after == {t \in Time : t >= promised[key]}
           times == TimesOf(slot)
<1>1. Refuse(r)
  <2>1. call \in [Request -> Call]
    BY DEF RateTypeOK
  <2>2. \A q \in Request : (Pass(q) \/ ReplyLost(q) \/ FailOpen(q)) => call'[r].stage # "refused"
    BY <2>1 DEF Pass, ReplyLost, FailOpen, Call
  <2>3. \A q \in Request : Refuse(q) => q = r
    BY <2>1 DEF Refuse, Call
  <2>4. \A q \in Request, k \in Key : enforce(q, k) => call'[r].stage # "refused"
    BY <2>1 DEF enforce
  <2>5. \A R \in SUBSET Request : Return(R) => call'[r].stage # "refused"
    BY <2>1 DEF Return, NoCall
  <2>6. ~RedisRestarts /\ ~Tick /\ ~UNCHANGED <<now, rateVars>>
    BY DEF RedisRestarts, Tick, rateVars
  <2> QED BY <2>2, <2>3, <2>4, <2>5, <2>6 DEF RateNext, RedisStep
<1>2. Incr(r) /\ NextCount(slot) > Limit[key.name]
  BY <1>1 DEF Refuse, TooMany
<1>3. NextCount(slot) <= Cardinality(Units(tally'[key], times))
  BY <1>2, NextCountTallied
<1>4. /\ slot \in Slot /\ key \in Key /\ key.name \in LimitName /\ call[r].read \in times
      /\ NextCount(slot) \in Nat /\ Limit[key.name] \in Nat
  BY CallType, NextCountType, LimitAssumption DEF TallyInv, CallsStamped
<1>5. PICK n \in Nat : promised[key] = WindowSeconds[key.name] * n
  BY <1>4 DEF TallyInv, PromisesEndWindows
<1>6. times \subseteq after
  <2>1. \A t \in times : t >= WindowSeconds[key.name] * n
    BY <1>4, <1>5, WindowAfter
  <2>2. times \subseteq Time
    BY DEF TimesOf
  <2> HIDE DEF times
  <2> QED BY <1>5, <2>1, <2>2
<1>7. Tallies(tally'[key], after)
  <2>1. IsFiniteSet(Time)
    BY RedisBounds, FS_Interval DEF Time
  <2>2. after \subseteq Time
    OBVIOUS
  <2>3. IsFiniteSet(after)
    BY <2>1, <2>2, FS_Subset
  <2>4. tally'[key] \in [Time -> Nat]
    BY <1>4 DEF RateTypeOK
  <2> HIDE DEF after, key
  <2> QED BY <2>2, <2>3, <2>4 DEF Tallies
<1> DEFINE f == tally'[key]
<1> HIDE DEF after, times, f
<1>8. /\ Cardinality(Units(f, times)) <= Cardinality(Units(f, after))
      /\ Cardinality(Units(f, times)) \in Nat /\ Cardinality(Units(f, after)) \in Nat
  <2>1. Tallies(f, after) /\ Tallies(f, times)
    BY <1>6, <1>7, FS_Subset DEF f, Tallies
  <2> QED BY <1>6, <2>1, UnitsGrow, UnitsFinite
<1>9. Cardinality(Units(f, after)) > Limit[key.name]
  BY <1>2, <1>3, <1>4, <1>8 DEF f
<1>10. MapThenSumSet(LAMBDA t : f[t], after) = Cardinality(Units(f, after))
  BY <1>7, SumIsUnits DEF f
<1>11. MapThenSumSet(LAMBDA t : f[t], after) > Limit[key.name]
  BY <1>9, <1>10
<1> QED BY <1>11 DEF f, after
-----------------------------------------------------------------------------
(* The requests that take these steps *)

\* The values of a request that has just come in.
LEMMA NewType ==
  /\ New \in RequestState /\ New.answer = 0 /\ New.route = "endpoints"
  /\ New.user = {} /\ New.endpoint = {} /\ ~New.registered
<1>1. PICK u \in User : TRUE
  BY FormAssumption
<1>2. u.email \in Email
  BY DEF User
<1>3. (CHOOSE f \in User : TRUE) \in User /\ (CHOOSE e \in Email : TRUE) \in Email
  BY <1>1, <1>2
<1> QED BY <1>3 DEF New, RequestState, Token

\* What is typed into the forms has an address and makes an account.
LEMMA AccountType ==
  ASSUME TypeOK, NEW r \in Request
  PROVE  /\ request[r] \in RequestState /\ request[r].form \in User
         /\ request[r].token \in Token /\ request[r].token.user \in Email
         /\ request[r].endpoint \in SUBSET Endpoint
         /\ Address(r) \in Email /\ Account(r) \in User /\ Account(r).email = Address(r)
<1>1. request[r] \in RequestState
  BY DEF TypeOK
<1>2. /\ request[r].form \in User /\ request[r].token \in Token
      /\ request[r].endpoint \in SUBSET Endpoint
  BY <1>1 DEF RequestState
<1>3. /\ request[r].form.email \in Email /\ request[r].form.password \in Password
      /\ request[r].token.user \in Email
  BY <1>2 DEF User, Token
<1>4. Address(r) \in Email
  BY <1>3, LoweredAssumption DEF Address
<1> QED BY <1>1, <1>2, <1>3, <1>4 DEF Account, User

\* The emails that login counts, and the client's addresses, are limited.
LEMMA KeyType ==
  /\ \A ip \in Ip : /\ [name |-> "register_ip", identity |-> ip] \in Key
                    /\ [name |-> "login_ip", identity |-> ip] \in Key
  /\ TypeOK => \A r \in Request : [name |-> "login_email", identity |-> Address(r)] \in Key
<1>1. \A ip \in Ip : ip \in Identity
  BY NamesAssumption
<1>2. ASSUME TypeOK, NEW r \in Request
      PROVE  Address(r) \in Identity
  <2>1. request[r].form.email \in Email
    BY <1>2, AccountType DEF User
  <2> QED BY <2>1, NamesAssumption DEF Address
<1> QED BY <1>1, <1>2, NamesAssumption DEF Key

\* Every step leaves the limit alone or is one of its steps.
LEMMA IsRateStep ==
  ASSUME TypeOK, [Next]_allVars
  PROVE  [RateNext]_<<now, rateVars>>
<1> USE DEF RateNext
<1>1. ASSUME NEW r \in Request, ArrivalStep(r)
      PROVE  [RateNext]_<<now, rateVars>>
  BY <1>1, KeyType DEF ArrivalStep, register, login, set_endpoint, delete_endpoint
<1>2. ASSUME NEW r \in Request, HandlerStep(r)
      PROVE  [RateNext]_<<now, rateVars>>
  <2>1. CASE LimitEmail(r)
    BY <2>1, KeyType DEF LimitEmail
  <2>2. {r} \in SUBSET Request
    OBVIOUS
  <2>3. CASE Refused(r) \/ LookUp(r) \/ FindUser(r)
    BY <2>2, <2>3 DEF Refused, LookUp, FindUser
  <2>4. CASE InsertUser(r) \/ CommitUser(r) \/ LogIn(r) \/ CountEndpoints(r) \/ add_endpoint(r)
             \/ Refresh(r) \/ DeleteRow(r)
    BY <2>4 DEF InsertUser, CommitUser, LogIn, CountEndpoints, add_endpoint, Refresh, DeleteRow
  <2>5. CASE DbError(r)
    BY <2>2, <2>5 DEF DbError
  <2> QED BY <1>2, <2>1, <2>3, <2>4, <2>5 DEF HandlerStep
<1>3. ASSUME NEW r \in Request, Enforcing(r)
      PROVE  RateNext
  BY <1>3 DEF Enforcing
<1>4. ASSUME ApiKilled
      PROVE  RateNext
  <2>1. InHandler \in SUBSET Request
    BY DEF InHandler
  <2> QED BY <1>4, <2>1 DEF ApiKilled
<1>5. CASE UNCHANGED allVars
  BY <1>5 DEF allVars
<1> QED BY <1>1, <1>2, <1>3, <1>4, <1>5 DEF Next
-----------------------------------------------------------------------------
(* Types *)

Answers == {0, 200, 204, 400, 401, 403, 404, 429, 500}

\* A request with some fields changed is a request.
Stages == {"new", "over"} \cup Handling
Routes == {"register", "token", "endpoints"}

LEMMA EditType ==
  ASSUME NEW x \in RequestState, NEW stage \in Stages
  PROVE  /\ [x EXCEPT !.stage = stage] \in RequestState
         /\ \A answer \in Answers : [x EXCEPT !.stage = stage, !.answer = answer] \in RequestState
         /\ \A token \in Token : [x EXCEPT !.stage = stage, !.token = token] \in RequestState
         /\ \A token \in Token, row \in SUBSET Endpoint :
              [x EXCEPT !.stage = stage, !.token = token, !.endpoint = row] \in RequestState
         /\ \A user \in SUBSET User : [x EXCEPT !.stage = stage, !.user = user] \in RequestState
         /\ \A route \in Routes, form \in User :
              [x EXCEPT !.stage = stage, !.route = route, !.form = form] \in RequestState
         /\ \A route \in Routes, form \in User, known \in BOOLEAN :
              [x EXCEPT !.stage = stage, !.route = route, !.form = form, !.registered = known]
                \in RequestState
<1>1. RequestState = [stage: Stages, route: Routes, form: User, token: Token, user: SUBSET User,
                      endpoint: SUBSET Endpoint, registered: BOOLEAN, answer: Answers]
  BY DEF RequestState, Stages, Routes, Answers
<1>2. [x EXCEPT !.stage = stage] \in RequestState
  BY <1>1
<1>3. \A answer \in Answers : [x EXCEPT !.stage = stage, !.answer = answer] \in RequestState
  BY <1>1
<1>4. \A token \in Token : [x EXCEPT !.stage = stage, !.token = token] \in RequestState
  BY <1>1
<1>5. \A route \in Routes, form \in User :
        [x EXCEPT !.stage = stage, !.route = route, !.form = form] \in RequestState
  BY <1>1
<1>6. \A token \in Token, row \in SUBSET Endpoint :
        [x EXCEPT !.stage = stage, !.token = token, !.endpoint = row] \in RequestState
  BY <1>1
<1>7. \A user \in SUBSET User : [x EXCEPT !.stage = stage, !.user = user] \in RequestState
  BY <1>1
<1>8. \A route \in Routes, form \in User, known \in BOOLEAN :
        [x EXCEPT !.stage = stage, !.route = route, !.form = form, !.registered = known]
          \in RequestState
  BY <1>1
<1> QED BY <1>2, <1>3, <1>4, <1>5, <1>6, <1>7, <1>8

\* A request that ends, or goes on, is a request.
LEMMA MovesType ==
  ASSUME TypeOK, NEW r \in Request
  PROVE  /\ \A answer \in Answers : Ends(r, answer) => request' \in [Request -> RequestState]
         /\ \A stage \in Handling : GoesTo(r, stage) => request' \in [Request -> RequestState]
<1>1. ASSUME NEW answer \in Answers, Ends(r, answer)
      PROVE  request' \in [Request -> RequestState]
  <2>1. [New EXCEPT !.stage = "over", !.answer = answer] \in RequestState
    BY NewType, EditType DEF Stages
  <2> QED BY <1>1, <2>1 DEF Ends, TypeOK
<1>2. ASSUME NEW stage \in Handling, GoesTo(r, stage)
      PROVE  request' \in [Request -> RequestState]
  <2>1. [request[r] EXCEPT !.stage = stage] \in RequestState
    BY AccountType DEF RequestState
  <2>2. request' = [request EXCEPT ![r] = [request[r] EXCEPT !.stage = stage]]
    BY <1>2 DEF GoesTo
  <2> QED BY <2>1, <2>2 DEF TypeOK
<1> QED BY <1>1, <1>2

\* What requests in the middle of a transaction leave is of the tables' types.
LEMMA RowsType ==
  ASSUME TypeOK, NEW R \in SUBSET Request
  PROVE  NewUsers(R) \subseteq User /\ NewEndpoints(R) \subseteq Endpoint
BY AccountType DEF NewUsers, NewEndpoints, Endpoint

\* Every step keeps the types.
LEMMA ApiStepType ==
  ASSUME TypeOK, [Next]_allVars
  PROVE  TypeOK'
<1> DEFINE ApiTypeOK == /\ ALLOW_REGISTRATION \in BOOLEAN
                        /\ request \in [Request -> RequestState]
                        /\ users \in SUBSET User
                        /\ tokens \in SUBSET Token
                        /\ endpoints \in SUBSET Endpoint
<1>1. ApiTypeOK
  BY DEF TypeOK
<1>2. RateTypeOK'
  BY IsRateStep, RateStepType DEF TypeOK
<1>3. ASSUME NEW r \in Request, ArrivalStep(r)
      PROVE  ApiTypeOK'
  <2>1. ASSUME NEW ip \in Ip, NEW form \in Form, register(r, ip, form)
        PROVE  ApiTypeOK'
    <3>1. [New EXCEPT !.stage = "limit", !.route = "register", !.form = form] \in RequestState
      BY NewType, EditType, FormAssumption DEF Stages, Routes, Handling
    <3>2. request' \in [Request -> RequestState]
      BY <2>1, <3>1, MovesType DEF register, TypeOK, Answers
    <3> QED BY <1>1, <2>1, <3>2 DEF register
  <2>2. ASSUME NEW ip \in Ip, NEW form \in Form, login(r, ip, form)
        PROVE  ApiTypeOK'
    <3>1. Registered(form) \in BOOLEAN
      BY DEF Registered
    <3>2. [New EXCEPT !.stage = "limit_ip", !.route = "token", !.form = form,
                      !.registered = Registered(form)] \in RequestState
      <4> DEFINE known == Registered(form)
      <4>1. known \in BOOLEAN /\ form \in User /\ "limit_ip" \in Stages /\ "token" \in Routes
        BY <3>1, FormAssumption DEF Stages, Routes, Handling
      <4> HIDE DEF known
      <4>2. [New EXCEPT !.stage = "limit_ip", !.route = "token", !.form = form,
                        !.registered = known] \in RequestState
        BY <4>1, NewType, EditType
      <4> QED BY <4>2 DEF known
    <3> QED BY <1>1, <2>2, <3>2 DEF login
  <2>3. ASSUME NEW token \in tokens, set_endpoint(r, token)
        PROVE  ApiTypeOK'
    <3>1. token \in Token
      BY DEF TypeOK
    <3>2. [New EXCEPT !.stage = "count", !.token = token] \in RequestState
      BY <3>1, NewType, EditType DEF Stages, Handling
    <3>3. request' \in [Request -> RequestState]
      BY <2>3, <3>2, MovesType DEF set_endpoint, TypeOK, Answers
    <3> QED BY <1>1, <2>3, <3>3 DEF set_endpoint
  <2>4. ASSUME NEW token \in tokens, NEW by, delete_endpoint(r, token, by)
        PROVE  ApiTypeOK'
    <3> DEFINE row == {e \in endpoints : e.by = by /\ e.user = token.user}
    <3>1. row \in SUBSET Endpoint /\ token \in Token
      BY DEF TypeOK
    <3> HIDE DEF row
    <3>2. [New EXCEPT !.stage = "delete", !.token = token, !.endpoint = row] \in RequestState
      BY <3>1, NewType, EditType DEF Stages, Handling
    <3>3. request' = [request EXCEPT ![r] = [New EXCEPT !.stage = "delete", !.token = token,
                                                         !.endpoint = row]]
          \/ \E answer \in Answers : Ends(r, answer)
      BY <2>4 DEF delete_endpoint, Answers, row
    <3>4. request' \in [Request -> RequestState]
      BY <3>2, <3>3, MovesType DEF TypeOK
    <3> QED BY <1>1, <2>4, <3>4 DEF delete_endpoint
  <2> QED BY <1>3, <2>1, <2>2, <2>3, <2>4 DEF ArrivalStep
<1>4. ASSUME NEW r \in Request, HandlerStep(r)
      PROVE  ApiTypeOK'
  <2>1. CASE Refused(r) \/ LookUp(r) \/ InsertUser(r) \/ LimitEmail(r) \/ CountEndpoints(r)
             \/ Refresh(r)
    <3>1. request' \in [Request -> RequestState]
      BY <2>1, MovesType
         DEF Refused, LookUp, InsertUser, LimitEmail, CountEndpoints, Refresh, Answers, Handling
    <3> QED BY <1>1, <2>1, <3>1
            DEF Refused, LookUp, InsertUser, LimitEmail, CountEndpoints, Refresh
  <2>2. CASE CommitUser(r)
    <3>1. [request[r] EXCEPT !.stage = "over", !.answer = 200] \in RequestState
      <4> DEFINE q == request[r]
      <4>1. q \in RequestState /\ "over" \in Stages /\ 200 \in Answers
        BY AccountType DEF Answers, Stages
      <4> HIDE DEF q
      <4>2. \A answer \in Answers :
              [q EXCEPT !.stage = "over", !.answer = answer] \in RequestState
        BY <4>1, EditType, Zenon
      <4> QED BY <4>1, <4>2 DEF q
    <3>2. request' = [request EXCEPT ![r] = [request[r] EXCEPT !.stage = "over", !.answer = 200]]
      BY <2>2 DEF CommitUser, TypeOK
    <3> QED BY <1>1, <2>2, <3>1, <3>2, AccountType DEF CommitUser
  <2>6. CASE FindUser(r)
    <3>1. [request[r] EXCEPT !.stage = "verify", !.user = get_user(r)] \in RequestState
      <4> DEFINE found == get_user(r)
                 q == request[r]
      <4>1. found \in SUBSET User /\ q \in RequestState /\ "verify" \in Stages
        BY AccountType DEF TypeOK, get_user, Stages, Handling
      <4> HIDE DEF found, q
      <4>2. [q EXCEPT !.stage = "verify", !.user = found] \in RequestState
        BY <4>1, EditType
      <4> QED BY <4>2 DEF found, q
    <3>2. request' = [request EXCEPT ![r] = [request[r] EXCEPT !.stage = "verify",
                                                               !.user = get_user(r)]]
      BY <2>6 DEF FindUser, TypeOK
    <3>3. request' \in [Request -> RequestState]
      BY <3>1, <3>2 DEF TypeOK
    <3> QED BY <1>1, <2>6, <3>3 DEF FindUser
  <2>7. CASE DeleteRow(r)
    <3>1. request' \in [Request -> RequestState]
      BY <2>7, MovesType DEF DeleteRow, Answers
    <3> QED BY <1>1, <2>7, <3>1 DEF DeleteRow
  <2>3. CASE LogIn(r)
    <3>1. request' \in [Request -> RequestState]
      BY <2>3, MovesType DEF LogIn, Answers
    <3>2. now + TokenLife \in Nat
      BY ApiBounds, RedisBounds DEF TypeOK, RateTypeOK, Time
    <3>3. create_access_token(Address(r)) \in Token
      BY <3>2, AccountType DEF create_access_token, Token
    <3> QED BY <1>1, <2>3, <3>1, <3>3 DEF LogIn
  <2>4. CASE add_endpoint(r)
    <3>1. request' \in [Request -> RequestState]
      BY <2>4, MovesType DEF add_endpoint, Handling
    <3>2. [by |-> r, user |-> request[r].token.user] \in Endpoint
      BY AccountType DEF Endpoint
    <3> QED BY <1>1, <2>4, <3>1, <3>2 DEF add_endpoint
  <2>5. CASE DbError(r)
    <3>1. request' \in [Request -> RequestState]
      BY <2>5, MovesType DEF DbError, Answers
    <3>2. ASSUME NEW done \in SUBSET {r}
          PROVE  NewUsers(done) \subseteq User /\ NewEndpoints(done) \subseteq Endpoint
      BY RowsType
    <3> QED BY <1>1, <2>5, <3>1, <3>2 DEF DbError
  <2> QED BY <1>4, <2>1, <2>2, <2>3, <2>4, <2>5, <2>6, <2>7 DEF HandlerStep
<1>5. ASSUME ApiKilled
      PROVE  ApiTypeOK'
  <2>1. [New EXCEPT !.stage = "over"] \in RequestState
    BY NewType DEF RequestState
  <2>2. ASSUME NEW done \in SUBSET InHandler
        PROVE  NewUsers(done) \subseteq User /\ NewEndpoints(done) \subseteq Endpoint
    BY RowsType DEF InHandler
  <2> QED BY <1>1, <1>5, <2>1, <2>2 DEF ApiKilled
<1>6. ASSUME UNCHANGED apiVars
      PROVE  ApiTypeOK'
  BY <1>1, <1>6 DEF apiVars
<1>7. ApiTypeOK'
  BY <1>3, <1>4, <1>5, <1>6 DEF Next, allVars
<1> QED BY <1>2, <1>7 DEF TypeOK

\* So do the states that the API starts in.
LEMMA ApiInitType == Init => TypeOK
<1> SUFFICES ASSUME Init PROVE TypeOK
  OBVIOUS
<1>1. RateTypeOK
  BY RateInitType DEF Init
<1>2. Seeded \subseteq User
  BY SeededAssumption
<1>3. users \in SUBSET User
  BY <1>2 DEF Init
<1>4. \A u \in User : [user |-> u.email, exp |-> TokenLife] \in Token
  BY ApiBounds DEF User, Token
<1>5. tokens \in SUBSET Token
  BY <1>3, <1>4 DEF Init
<1> QED BY <1>1, <1>3, <1>5, NewType DEF Init, TypeOK

\* Whatever happens to the requests and to Redis, every variable keeps its
\* type: no request is sent to Redis more often than redis-py tries.
THEOREM ApiTypeCorrect == Spec => []TypeOK
<1>1. Init => TypeOK
  BY ApiInitType
<1>2. TypeOK /\ [Next]_allVars => TypeOK'
  BY ApiStepType
<1> QED BY <1>1, <1>2, PTL DEF Spec
-----------------------------------------------------------------------------
(* The limit *)

\* Whatever delays requests between their clock and Redis, however often their
\* answers are lost and Redis starts again: in a span as long as the window, no
\* more than the limit pass for each window they are stamped with.
THEOREM LimitHolds == Spec => []SpanBounded
<1>1. Init => LimitInv
  BY RateInitInv DEF Init
<1>2. TypeOK /\ LimitInv /\ [Next]_allVars => LimitInv'
  BY IsRateStep, RateStepType, RateStepInv DEF TypeOK
<1>3. TypeOK /\ LimitInv => SpanBounded
  BY LimitMeansBounded DEF TypeOK
<1> QED BY <1>1, <1>2, <1>3, ApiTypeCorrect, PTL DEF Spec
\* Whoever waits until the Retry-After that he was given last is refused only if
\* more than the limit was counted for requests that read the clock since,
\* whatever was counted before, lost on the way or forgotten in a restart.
THEOREM RetryAfterHolds == Spec => RetryAfterHonest
<1> DEFINE Honest == \A r \in Request :
      (call[r].stage = "called" /\ call'[r].stage = "refused")
        => LET key == call[r].slot.key
               after == {t \in Time : t >= promised[key]}
           IN call[r].read \in after
                => MapThenSumSet(LAMBDA t : tally'[key][t], after) > Limit[key.name]
<1>1. Init => TallyInv
  BY TallyInit DEF Init
<1>2. TypeOK /\ TallyInv /\ [Next]_allVars => TallyInv'
  BY IsRateStep, RateStepType, TallyStep DEF TypeOK
<1>3. TypeOK /\ TallyInv /\ [Next]_allVars => [Honest]_<<now, rateVars>>
  <2> SUFFICES ASSUME TypeOK, TallyInv, [Next]_allVars PROVE Honest
    OBVIOUS
  <2>1. RateTypeOK /\ RateTypeOK' /\ [RateNext]_<<now, rateVars>>
    BY IsRateStep, RateStepType DEF TypeOK
  <2> QED BY <2>1, RefusedIsCounted
<1> QED BY <1>1, <1>2, <1>3, ApiTypeCorrect, PTL DEF Spec, RetryAfterHonest
-----------------------------------------------------------------------------
(* Accounts: the invariant                                                    *)

\* An email has one account, and at most one more insert that is not committed.
UniqueEmails ==
  \A u, v \in users : u.email = v.email => u = v
CommitsDiffer ==
  \A q, r \in Request :
    (request[q].stage = "commit" /\ request[r].stage = "commit" /\ Address(q) = Address(r)) => q = r
CommitsAreNew ==
  \A r \in Request : request[r].stage = "commit" => \A u \in users : u.email # Address(r)

\* An answer is given at the end, and to a registration when the account is there.
AnswersAtEnd ==
  \A r \in Request : request[r].answer # 0 => request[r].stage = "over"
AnsweredHasAccount ==
  \A r \in Request :
    (request[r].route = "register" /\ request[r].answer = 200) => Account(r) \in users

NewIsNew == \A r \in Request : request[r].stage = "new" => request[r] = New

AccountInv ==
  /\ UniqueEmails /\ CommitsDiffer /\ CommitsAreNew
  /\ AnswersAtEnd /\ AnsweredHasAccount /\ NewIsNew

\* A step commits the accounts that these requests have inserted...
Commits(D) ==
  (\A d \in D : request[d].stage = "commit") /\ users' = users \cup {Account(d) : d \in D}

\* ... and leaves a request alone, ends it, lets it go on, or accepts it.
Leaves(q)   == request'[q] = request[q]
Drops(q)    == request'[q].stage = "over" /\ request'[q].route # "register"
GoesOn(q)   == request'[q].stage \in Handling \ {"commit"} /\ request'[q].answer = 0
Accepts(q)  == request'[q] = [request[q] EXCEPT !.stage = "over", !.answer = 200]
Resolves(D) == \A q \in Request : \/ (Leaves(q) \/ GoesOn(q)) /\ q \notin D
                                  \/ Drops(q)
                                  \/ Accepts(q) /\ q \in D

\* Such a step keeps the invariant.
LEMMA CommitsInv ==
  ASSUME TypeOK, AccountInv, NEW D \in SUBSET Request, Commits(D), Resolves(D)
  PROVE  AccountInv'
<1>1. \A d \in D : d \in Request /\ request[d].stage = "commit" /\ Account(d).email = Address(d)
  BY AccountType DEF Commits
<1>2. \A u \in users' : u \in users \/ \E d \in D : u = Account(d)
  BY DEF Commits
<1>3. UniqueEmails'
  <2>1. ASSUME NEW u \in users', NEW v \in users', u.email = v.email
        PROVE  u = v
    <3>1. CASE u \in users /\ v \in users
      BY <2>1, <3>1 DEF AccountInv, UniqueEmails
    <3>2. CASE \E d \in D : u = Account(d) /\ v \in users
      BY <1>1, <2>1, <3>2 DEF AccountInv, CommitsAreNew
    <3>3. CASE \E d \in D : v = Account(d) /\ u \in users
      BY <1>1, <2>1, <3>3 DEF AccountInv, CommitsAreNew
    <3>4. CASE \E d, e \in D : u = Account(d) /\ v = Account(e)
      BY <1>1, <2>1, <3>4 DEF AccountInv, CommitsDiffer
    <3> QED BY <1>2, <3>1, <3>2, <3>3, <3>4
  <2> QED BY <2>1 DEF UniqueEmails
<1>4. ASSUME NEW q \in Request, Accepts(q)
      PROVE  request'[q].stage = "over" /\ Account(q)' = Account(q)
  <2>1. request[q] \in RequestState
    BY AccountType
  <2>2. request'[q].stage = "over" /\ request'[q].form = request[q].form
    BY <1>4, <2>1 DEF RequestState, Accepts
  <2> QED BY <2>2 DEF Account, Address
<1>5. ASSUME NEW q \in Request, request'[q].stage \in {"new", "commit"}
      PROVE  Leaves(q) /\ q \notin D
  BY <1>4, <1>5 DEF Resolves, Drops, GoesOn, Handling
<1>6. CommitsDiffer'
  <2>1. ASSUME NEW q \in Request, NEW r \in Request, request'[q].stage = "commit",
               request'[r].stage = "commit", Address(q)' = Address(r)'
        PROVE  q = r
    <3>1. request'[q] = request[q] /\ request'[r] = request[r]
      BY <1>5, <2>1 DEF Leaves
    <3> QED BY <2>1, <3>1 DEF AccountInv, CommitsDiffer, Address
  <2> QED BY <2>1 DEF CommitsDiffer
<1>7. CommitsAreNew'
  <2>1. ASSUME NEW r \in Request, request'[r].stage = "commit", NEW u \in users'
        PROVE  u.email # Address(r)'
    <3>1. request'[r] = request[r] /\ r \notin D
      BY <1>5, <2>1 DEF Leaves
    <3>2. Address(r)' = Address(r) /\ request[r].stage = "commit"
      BY <2>1, <3>1 DEF Address
    <3>3. CASE u \in users
      BY <3>2, <3>3 DEF AccountInv, CommitsAreNew
    <3>4. CASE \E d \in D : u = Account(d)
      BY <1>1, <3>1, <3>2, <3>4 DEF AccountInv, CommitsDiffer
    <3> QED BY <1>2, <3>3, <3>4
  <2> QED BY <2>1 DEF CommitsAreNew
<1>8. AnswersAtEnd'
  <2>1. ASSUME NEW q \in Request, request'[q].answer # 0
        PROVE  request'[q].stage = "over"
    BY <1>4, <2>1 DEF Resolves, Leaves, Drops, GoesOn, AccountInv, AnswersAtEnd
  <2> QED BY <2>1 DEF AnswersAtEnd
<1>9. AnsweredHasAccount'
  <2>1. ASSUME NEW r \in Request, request'[r].route = "register", request'[r].answer = 200
        PROVE  Account(r)' \in users'
    <3>1. CASE Leaves(r)
      <4>1. Account(r)' = Account(r) /\ request[r].route = "register" /\ request[r].answer = 200
        BY <2>1, <3>1 DEF Leaves, Account, Address
      <4> QED BY <4>1 DEF AccountInv, AnsweredHasAccount, Commits
    <3>2. CASE Accepts(r) /\ r \in D
      BY <1>4, <3>2 DEF Commits
    <3> QED BY <2>1, <3>1, <3>2 DEF Resolves, Drops, GoesOn
  <2> QED BY <2>1 DEF AnsweredHasAccount
<1>10. NewIsNew'
  <2>1. ASSUME NEW q \in Request, request'[q].stage = "new"
        PROVE  request'[q] = New
    BY <1>5, <2>1 DEF Leaves, AccountInv, NewIsNew
  <2> QED BY <2>1 DEF NewIsNew, New
<1> QED BY <1>3, <1>6, <1>7, <1>8, <1>9, <1>10 DEF AccountInv

\* A request that ends without being accepted, and one that goes on.
LEMMA EndsDrops ==
  ASSUME TypeOK, NEW r \in Request, NEW answer \in Answers, Ends(r, answer)
  PROVE  /\ Drops(r) /\ request'[r].answer = answer /\ ~request'[r].registered
         /\ \A q \in Request \ {r} : Leaves(q)
<1>1. request'[r] = [New EXCEPT !.stage = "over", !.answer = answer]
  BY DEF Ends, TypeOK
<1>2. New.route = "endpoints" /\ ~New.registered /\ New \in RequestState
  BY NewType
<1>3. /\ request'[r].stage = "over" /\ request'[r].route = "endpoints"
      /\ request'[r].answer = answer /\ ~request'[r].registered
  BY <1>1, <1>2 DEF RequestState
<1>4. \A q \in Request \ {r} : request'[q] = request[q]
  BY DEF Ends, TypeOK
<1> QED BY <1>3, <1>4 DEF Drops, Leaves

LEMMA GoesToKeeps ==
  ASSUME TypeOK, AnswersAtEnd, NEW r \in Request, NEW stage \in Handling,
         request[r].stage # "over", GoesTo(r, stage)
  PROVE  /\ request'[r].stage = stage /\ request'[r].answer = 0
         /\ request'[r].form = request[r].form /\ request'[r].token = request[r].token
         /\ request'[r].registered = request[r].registered
         /\ \A q \in Request \ {r} : Leaves(q)
<1>1. request[r] \in RequestState /\ request[r].answer = 0
  BY AccountType DEF AnswersAtEnd
<1>2. request'[r] = [request[r] EXCEPT !.stage = stage]
  BY DEF GoesTo, TypeOK
<1>3. \A q \in Request \ {r} : request'[q] = request[q]
  BY DEF GoesTo, TypeOK
<1> QED BY <1>1, <1>2, <1>3 DEF RequestState, Leaves

\* One request ends or goes on, and no account is made.
LEMMA MovesInv ==
  ASSUME TypeOK, AccountInv, NEW r \in Request, users' = users,
         Drops(r) \/ GoesOn(r), \A q \in Request \ {r} : Leaves(q)
  PROVE  AccountInv'
<1>1. Commits({}) /\ Resolves({})
  BY DEF Commits, Resolves
<1> QED BY <1>1, CommitsInv

\* An insert that is accepted makes the email's only pending account.
LEMMA InsertInv ==
  ASSUME TypeOK, AccountInv, NEW r \in Request, InsertUser(r)
  PROVE  AccountInv'
<1>1. users' = users /\ request[r].stage = "lookup"
  BY DEF InsertUser
<1>2. CASE Ends(r, 400)
  <2>1. Drops(r) /\ \A q \in Request \ {r} : Leaves(q)
    BY <1>2, EndsDrops DEF Answers
  <2> QED BY <1>1, <2>1, MovesInv
<1>3. CASE GoesTo(r, "commit") /\ ~ \E u \in users : u.email = Address(r)
  <2>1. /\ request'[r].stage = "commit" /\ request'[r].answer = 0
        /\ request'[r].form = request[r].form /\ \A q \in Request \ {r} : Leaves(q)
    BY <1>1, <1>3, GoesToKeeps DEF AccountInv, Handling
  <2>2. /\ \A q \in Request \ {r} : request'[q] = request[q]
        /\ \A q \in Request : Address(q)' = Address(q) /\ Account(q)' = Account(q)
    BY <2>1 DEF Leaves, Address, Account
  <2>3. \A q \in Request : request[q].stage = "commit" => Address(q) # Address(r)
    BY DEF InsertUser
  <2>4. UniqueEmails'
    BY <1>1 DEF AccountInv, UniqueEmails
  <2>5. CommitsDiffer'
    BY <2>1, <2>2, <2>3 DEF AccountInv, CommitsDiffer
  <2>6. CommitsAreNew'
    BY <1>1, <1>3, <2>1, <2>2 DEF AccountInv, CommitsAreNew
  <2>7. AnswersAtEnd'
    BY <2>1, <2>2 DEF AccountInv, AnswersAtEnd
  <2>8. AnsweredHasAccount'
    BY <1>1, <2>1, <2>2 DEF AccountInv, AnsweredHasAccount
  <2>9. NewIsNew'
    BY <2>1, <2>2 DEF AccountInv, NewIsNew, New
  <2> QED BY <2>4, <2>5, <2>6, <2>7, <2>8, <2>9 DEF AccountInv
<1> QED BY <1>2, <1>3 DEF InsertUser

\* What a transaction left when its request died: all or nothing.
LEMMA DiesInv ==
  ASSUME TypeOK, AccountInv, NEW R \in SUBSET Request, NEW done \in SUBSET R,
         users' = users \cup NewUsers(done), \A q \in R : Drops(q),
         \A q \in Request \ R : Leaves(q)
  PROVE  AccountInv'
<1> DEFINE D == {q \in done : request[q].stage = "commit"}
<1>1. Commits(D)
  BY DEF Commits, NewUsers
<1>2. Resolves(D)
  BY DEF Resolves
<1> QED BY <1>1, <1>2, CommitsInv

\* A registration that is accepted.
LEMMA CommitAccepts ==
  ASSUME TypeOK, NEW r \in Request, CommitUser(r)
  PROVE  Accepts(r) /\ request'[r].answer = 200 /\ \A q \in Request \ {r} : Leaves(q)
<1>1. request' = [request EXCEPT ![r] = [request[r] EXCEPT !.stage = "over", !.answer = 200]]
  BY DEF CommitUser, TypeOK
<1>2. request[r] \in RequestState
  BY AccountType
<1>3. Accepts(r) /\ \A q \in Request \ {r} : Leaves(q)
  BY <1>1 DEF Accepts, Leaves, TypeOK
<1>4. request'[r].answer = 200
  BY <1>2, <1>3 DEF Accepts, RequestState
<1> QED BY <1>3, <1>4

\* The SELECT of a login finds the account that the login asks for, if it is there.
LEMMA FindUserFinds ==
  ASSUME TypeOK, AnswersAtEnd, NEW r \in Request, FindUser(r)
  PROVE  /\ request'[r].stage = "verify" /\ request'[r].answer = 0
         /\ request'[r].form = request[r].form /\ request'[r].user = get_user(r)
         /\ request'[r].registered = request[r].registered
         /\ Account(r) \in users => Account(r) \in get_user(r)
         /\ \A q \in Request \ {r} : Leaves(q)
<1>1. /\ request[r] \in RequestState /\ request[r].answer = 0
      /\ Account(r).email = Address(r)
  BY AccountType DEF AnswersAtEnd, FindUser
<1>2. request'[r] = [request[r] EXCEPT !.stage = "verify", !.user = get_user(r)]
  BY DEF FindUser, TypeOK
<1>3. \A q \in Request \ {r} : request'[q] = request[q]
  BY DEF FindUser, TypeOK
<1> QED BY <1>1, <1>2, <1>3 DEF RequestState, Leaves, get_user

\* What a step of one request does to the requests: the others stay as they are.
LEMMA ArrivalMoves ==
  ASSUME TypeOK, NEW r \in Request, ArrivalStep(r)
  PROVE  /\ request[r].stage = "new" /\ users' = users
         /\ Drops(r) \/ (GoesOn(r) /\ request'[r].stage # "insert")
         /\ \A q \in Request \ {r} : Leaves(q)
<1> USE DEF Answers
<1>1. New \in RequestState /\ New.answer = 0
  BY NewType
<1>2. ASSUME NEW ip \in Ip, NEW form \in Form, register(r, ip, form)
      PROVE  /\ request[r].stage = "new" /\ users' = users
             /\ Drops(r) \/ (GoesOn(r) /\ request'[r].stage # "insert")
             /\ \A q \in Request \ {r} : Leaves(q)
  <2>1. request[r].stage = "new" /\ users' = users
    BY <1>2 DEF register, Arrives
  <2>2. CASE Ends(r, 403)
    BY <2>1, <2>2, EndsDrops
  <2>3. CASE request' = [request EXCEPT ![r] = [New EXCEPT !.stage = "limit",
                                                  !.route = "register", !.form = form]]
    BY <1>1, <2>1, <2>3 DEF TypeOK, RequestState, GoesOn, Leaves, Handling
  <2> QED BY <1>2, <2>2, <2>3 DEF register
<1>3. ASSUME NEW ip \in Ip, NEW form \in Form, login(r, ip, form)
      PROVE  /\ request[r].stage = "new" /\ users' = users
             /\ Drops(r) \/ (GoesOn(r) /\ request'[r].stage # "insert")
             /\ \A q \in Request \ {r} : Leaves(q)
  BY <1>1, <1>3 DEF login, Arrives, TypeOK, RequestState, GoesOn, Leaves, Handling
<1>4. ASSUME NEW token \in tokens, set_endpoint(r, token)
      PROVE  /\ request[r].stage = "new" /\ users' = users
             /\ Drops(r) \/ (GoesOn(r) /\ request'[r].stage # "insert")
             /\ \A q \in Request \ {r} : Leaves(q)
  <2>1. request[r].stage = "new" /\ users' = users
    BY <1>4 DEF set_endpoint, Arrives
  <2>2. CASE Ends(r, 401)
    BY <2>1, <2>2, EndsDrops
  <2>3. CASE request' = [request EXCEPT ![r] = [New EXCEPT !.stage = "count", !.token = token]]
    BY <1>1, <2>1, <2>3 DEF TypeOK, RequestState, GoesOn, Leaves, Handling
  <2> QED BY <1>4, <2>2, <2>3 DEF set_endpoint
<1>5. ASSUME NEW token \in tokens, NEW by, delete_endpoint(r, token, by)
      PROVE  /\ request[r].stage = "new" /\ users' = users
             /\ Drops(r) \/ (GoesOn(r) /\ request'[r].stage # "insert")
             /\ \A q \in Request \ {r} : Leaves(q)
  <2>1. request[r].stage = "new" /\ users' = users
    BY <1>5 DEF delete_endpoint, Arrives
  <2>2. CASE Ends(r, 401) \/ Ends(r, 404)
    BY <2>1, <2>2, EndsDrops
  <2>3. ASSUME NEW row, request' = [request EXCEPT ![r] = [New EXCEPT !.stage = "delete",
                                                             !.token = token, !.endpoint = row]]
        PROVE  GoesOn(r) /\ request'[r].stage = "delete" /\ \A q \in Request \ {r} : Leaves(q)
    BY <1>1, <2>3 DEF TypeOK, RequestState, GoesOn, Leaves, Handling
  <2> QED BY <1>5, <2>1, <2>2, <2>3 DEF delete_endpoint
<1> QED BY <1>2, <1>3, <1>4, <1>5 DEF ArrivalStep

\* Every step keeps the invariant of the accounts.
LEMMA AccountStepInv ==
  ASSUME TypeOK, AccountInv, [Next]_allVars
  PROVE  AccountInv'
<1> USE DEF Answers
<1>1. ASSUME NEW r \in Request, ArrivalStep(r)
      PROVE  AccountInv'
  BY <1>1, ArrivalMoves, MovesInv
<1>2. ASSUME NEW r \in Request, HandlerStep(r)
      PROVE  AccountInv'
  <2>1. AnswersAtEnd
    BY DEF AccountInv
  <2>2. ASSUME NEW answer \in Answers, Ends(r, answer), users' = users
        PROVE  AccountInv'
    BY <2>2, EndsDrops, MovesInv
  <2>3. ASSUME NEW stage \in Handling \ {"commit"}, request[r].stage # "over",
               GoesTo(r, stage), users' = users
        PROVE  AccountInv'
    <3>1. GoesOn(r) /\ \A q \in Request \ {r} : Leaves(q)
      BY <2>1, <2>3, GoesToKeeps DEF GoesOn
    <3> QED BY <2>3, <3>1, MovesInv
  <2>4. CASE Refused(r)
    BY <2>2, <2>4 DEF Refused
  <2>5. CASE LookUp(r)
    BY <2>2, <2>3, <2>5 DEF LookUp, Handling
  <2>6. CASE InsertUser(r)
    BY <2>6, InsertInv
  <2>7. CASE CommitUser(r)
    <3>1. Commits({r})
      BY <2>7 DEF CommitUser, Commits
    <3>2. Resolves({r})
      BY <2>7, CommitAccepts DEF Resolves
    <3> QED BY <3>1, <3>2, CommitsInv
  <2>8. CASE LimitEmail(r)
    BY <2>3, <2>8 DEF LimitEmail, Handling
  <2>9. CASE LogIn(r)
    BY <2>2, <2>9 DEF LogIn
  <2>14. CASE FindUser(r)
    <3>1. GoesOn(r) /\ \A q \in Request \ {r} : Leaves(q)
      BY <2>1, <2>14, FindUserFinds DEF GoesOn, Handling
    <3> QED BY <2>14, <3>1, MovesInv DEF FindUser
  <2>15. CASE DeleteRow(r)
    BY <2>2, <2>15 DEF DeleteRow
  <2>10. CASE CountEndpoints(r)
    BY <2>2, <2>3, <2>10 DEF CountEndpoints, Handling
  <2>11. CASE add_endpoint(r)
    BY <2>3, <2>11 DEF add_endpoint, Handling
  <2>12. CASE Refresh(r)
    BY <2>2, <2>12 DEF Refresh
  <2>13. CASE DbError(r)
    <3>1. PICK done \in SUBSET {r} : users' = users \cup NewUsers(done)
      BY <2>13 DEF DbError
    <3>2. Drops(r) /\ \A q \in Request \ {r} : Leaves(q)
      BY <2>13, EndsDrops DEF DbError
    <3>3. {r} \in SUBSET Request /\ \A q \in {r} : Drops(q)
      BY <3>2
    <3> QED BY <3>1, <3>2, <3>3, DiesInv
  <2> QED BY <1>2, <2>4, <2>5, <2>6, <2>7, <2>8, <2>9, <2>10, <2>11, <2>12, <2>13, <2>14, <2>15
          DEF HandlerStep
<1>3. ASSUME ApiKilled
      PROVE  AccountInv'
  <2>1. InHandler \in SUBSET Request
    BY DEF InHandler
  <2>2. PICK done \in SUBSET InHandler : users' = users \cup NewUsers(done)
    BY <1>3 DEF ApiKilled
  <2>3. \A q \in InHandler : request'[q] = [New EXCEPT !.stage = "over"]
    BY <1>3, <2>1 DEF ApiKilled
  <2>4. New.route = "endpoints" /\ New \in RequestState
    BY NewType
  <2>5. \A q \in InHandler : Drops(q)
    BY <2>3, <2>4 DEF Drops, RequestState
  <2>6. \A q \in Request \ InHandler : Leaves(q)
    BY <1>3 DEF ApiKilled, Leaves
  <2> QED BY <2>1, <2>2, <2>5, <2>6, DiesInv
<1>4. ASSUME UNCHANGED apiVars
      PROVE  AccountInv'
  <2>1. Commits({}) /\ Resolves({})
    BY <1>4 DEF Commits, Resolves, Leaves, apiVars
  <2> QED BY <2>1, CommitsInv
<1> QED BY <1>1, <1>2, <1>3, <1>4 DEF Next, allVars

\* The seeded accounts have different emails, and no request has come in.
LEMMA AccountInitInv == Init => AccountInv
<1> SUFFICES ASSUME Init PROVE AccountInv
  OBVIOUS
<1>1. UniqueEmails
  BY SeededAssumption DEF Init, UniqueEmails
<1>2. New.stage = "new" /\ New.answer = 0
  BY DEF New
<1>3. \A r \in Request : request[r] = New
  BY DEF Init
<1> QED BY <1>1, <1>2, <1>3
        DEF AccountInv, CommitsDiffer, CommitsAreNew, AnswersAtEnd, AnsweredHasAccount, NewIsNew

\* Together with the types, it always holds.
LEMMA AccountsKept == Spec => [](TypeOK /\ AccountInv)
<1>1. Init => AccountInv
  BY AccountInitInv
<1>2. TypeOK /\ AccountInv /\ [Next]_allVars => AccountInv'
  BY AccountStepInv
<1> QED BY <1>1, <1>2, ApiTypeCorrect, PTL DEF Spec

\* However many registrations of one email overlap, and whichever of them the
\* database turns away or the API takes down: who is told that his account is
\* made has it, with his password.
THEOREM AccountsMatchAnswers == Spec => []AccountMatchesAnswer
<1>1. ASSUME TypeOK, AccountInv
      PROVE  AccountMatchesAnswer
  <2>1. ASSUME NEW r \in Request, request[r].route = "register", request[r].answer = 200
        PROVE  {u \in users : u.email = Address(r)} = {Account(r)}
    <3>1. Account(r) \in users /\ Account(r).email = Address(r)
      BY <1>1, <2>1, AccountType DEF AccountInv, AnsweredHasAccount
    <3>2. \A u \in users : u.email = Address(r) => u = Account(r)
      BY <1>1, <3>1 DEF AccountInv, UniqueEmails
    <3> QED BY <3>1, <3>2
  <2> QED BY <2>1 DEF AccountMatchesAnswer
<1> QED BY <1>1, AccountsKept, PTL
-----------------------------------------------------------------------------
(* Logins                                                                     *)

\* A login that came in after the account was answered for finds it.
LoginFinds(q) ==
  request[q].registered =>
    /\ request[q].stage \in {"limit_ip", "limit_email", "verify"} /\ request[q].answer = 0
    /\ Account(q) \in users
    /\ request[q].stage = "verify" => Account(q) \in request[q].user

LoginInv == \A q \in Request : LoginFinds(q)

\* It does as long as it is left alone, since accounts stay.
LEMMA LeavesFinds ==
  ASSUME NEW q, LoginFinds(q), Leaves(q), users \subseteq users'
  PROVE  LoginFinds(q)'
<1>1. Account(q)' = Account(q)
  BY DEF Leaves, Account, Address
<1> QED BY <1>1 DEF LoginFinds, Leaves

\* No step takes an account away.
LEMMA AccountsStay ==
  ASSUME [Next]_allVars
  PROVE  users \subseteq users'
<1>1. ASSUME NEW r \in Request, ArrivalStep(r)
      PROVE  users \subseteq users'
  BY <1>1 DEF ArrivalStep, register, login, set_endpoint, delete_endpoint
<1>2. ASSUME NEW r \in Request, HandlerStep(r)
      PROVE  users \subseteq users'
  BY <1>2 DEF HandlerStep, Refused, LookUp, InsertUser, CommitUser, LimitEmail, FindUser, LogIn,
              CountEndpoints, add_endpoint, Refresh, DeleteRow, DbError
<1>3. ASSUME ApiKilled
      PROVE  users \subseteq users'
  BY <1>3 DEF ApiKilled
<1>4. CASE UNCHANGED apiVars
  BY <1>4 DEF apiVars
<1> QED BY <1>1, <1>2, <1>3, <1>4 DEF Next, allVars

\* A request that has just come in.
LEMMA ArrivalFinds ==
  ASSUME TypeOK, AccountInv, NEW r \in Request, ArrivalStep(r)
  PROVE  LoginFinds(r)' /\ ~request[r].registered
<1>1. request[r].stage = "new" /\ users' = users
  BY ArrivalMoves
<1>2. ~request[r].registered
  BY <1>1, NewType DEF AccountInv, NewIsNew
<1>3. New \in RequestState /\ New.answer = 0 /\ ~New.registered
  BY NewType
<1>4. ASSUME NEW answer \in Answers, Ends(r, answer)
      PROVE  LoginFinds(r)'
  BY <1>4, EndsDrops DEF LoginFinds
<1>5. ASSUME NEW ip \in Ip, NEW form \in Form, register(r, ip, form)
      PROVE  LoginFinds(r)'
  <2>1. CASE Ends(r, 403)
    BY <1>4, <2>1 DEF Answers
  <2>2. CASE request' = [request EXCEPT ![r] = [New EXCEPT !.stage = "limit",
                                                  !.route = "register", !.form = form]]
    <3>1. ~request'[r].registered
      BY <1>3, <2>2 DEF TypeOK, RequestState
    <3> QED BY <3>1 DEF LoginFinds
  <2> QED BY <1>5, <2>1, <2>2 DEF register
<1>6. ASSUME NEW ip \in Ip, NEW form \in Form, login(r, ip, form)
      PROVE  LoginFinds(r)'
  <2>1. /\ request'[r].stage = "limit_ip" /\ request'[r].form = form /\ request'[r].answer = 0
        /\ request'[r].registered = Registered(form)
    BY <1>3, <1>6 DEF login, TypeOK, RequestState
  <2>2. Account(r)' = [email |-> Lowered[form.email], password |-> form.password]
    BY <2>1 DEF Account, Address
  <2>3. Registered(form) => Account(r)' \in users
    BY <2>2 DEF Registered, AccountInv, AnsweredHasAccount
  <2> QED BY <1>1, <2>1, <2>3 DEF LoginFinds
<1>7. ASSUME NEW token \in tokens, set_endpoint(r, token)
      PROVE  LoginFinds(r)'
  <2>1. CASE Ends(r, 401)
    BY <1>4, <2>1 DEF Answers
  <2>2. CASE request' = [request EXCEPT ![r] = [New EXCEPT !.stage = "count", !.token = token]]
    <3>1. ~request'[r].registered
      BY <1>3, <2>2 DEF TypeOK, RequestState
    <3> QED BY <3>1 DEF LoginFinds
  <2> QED BY <1>7, <2>1, <2>2 DEF set_endpoint
<1>8. ASSUME NEW token \in tokens, NEW by, delete_endpoint(r, token, by)
      PROVE  LoginFinds(r)'
  <2>1. CASE Ends(r, 401) \/ Ends(r, 404)
    BY <1>4, <2>1 DEF Answers
  <2>2. ASSUME NEW row, request' = [request EXCEPT ![r] = [New EXCEPT !.stage = "delete",
                                                             !.token = token, !.endpoint = row]]
        PROVE  LoginFinds(r)'
    <3>1. ~request'[r].registered
      BY <1>3, <2>2 DEF TypeOK, RequestState
    <3> QED BY <3>1 DEF LoginFinds
  <2> QED BY <1>8, <2>1, <2>2 DEF delete_endpoint
<1> QED BY <1>2, <1>5, <1>6, <1>7, <1>8 DEF ArrivalStep

\* A request in its handler, of which the others take no notice.
LEMMA HandlerFinds ==
  ASSUME TypeOK, AccountInv, LoginInv, NEW r \in Request, HandlerStep(r)
  PROVE  /\ LoginFinds(r)' /\ (request[r].registered => request'[r].answer # 401)
         /\ \A q \in Request \ {r} : Leaves(q)
<1> DEFINE Right == /\ LoginFinds(r)' /\ (request[r].registered => request'[r].answer # 401)
                    /\ \A q \in Request \ {r} : Leaves(q)
           Login == {"limit_ip", "limit_email", "verify"}
<1> USE DEF Answers
<1>1. AnswersAtEnd /\ LoginFinds(r)
  BY DEF AccountInv, LoginInv
<1>2. ASSUME NEW answer \in Answers, Ends(r, answer), request[r].registered => answer # 401
      PROVE  Right
  BY <1>2, EndsDrops DEF LoginFinds
<1>3. ASSUME NEW stage \in Handling, GoesTo(r, stage), request[r].stage \notin Login \cup {"over"}
      PROVE  Right
  <2>1. ~request[r].registered
    BY <1>1, <1>3 DEF LoginFinds
  <2>2. ~request'[r].registered /\ \A q \in Request \ {r} : Leaves(q)
    BY <1>1, <1>3, <2>1, GoesToKeeps
  <2> QED BY <2>1, <2>2 DEF LoginFinds
<1>4. CASE Refused(r)
  BY <1>2, <1>4 DEF Refused
<1>5. CASE LookUp(r)
  BY <1>2, <1>3, <1>5 DEF LookUp, Handling
<1>6. CASE InsertUser(r)
  BY <1>2, <1>3, <1>6 DEF InsertUser, Handling
<1>7. CASE CommitUser(r)
  <2>1. ~request[r].registered
    BY <1>1, <1>7 DEF LoginFinds, CommitUser
  <2>2. Accepts(r) /\ \A q \in Request \ {r} : Leaves(q)
    BY <1>7, CommitAccepts
  <2>3. request'[r].registered = request[r].registered
    BY <2>2, AccountType DEF Accepts, RequestState
  <2> QED BY <2>1, <2>2, <2>3 DEF LoginFinds
<1>8. CASE LimitEmail(r)
  <2>1. /\ request'[r].stage = "limit_email" /\ request'[r].answer = 0
        /\ request'[r].form = request[r].form
        /\ request'[r].registered = request[r].registered
        /\ \A q \in Request \ {r} : Leaves(q)
    BY <1>1, <1>8, GoesToKeeps DEF LimitEmail, Handling
  <2>2. Account(r)' = Account(r) /\ users' = users
    BY <1>8, <2>1 DEF Account, Address, LimitEmail
  <2> QED BY <1>1, <2>1, <2>2 DEF LoginFinds
<1>9. CASE FindUser(r)
  <2>1. /\ request'[r].stage = "verify" /\ request'[r].answer = 0
        /\ request'[r].form = request[r].form /\ request'[r].user = get_user(r)
        /\ request'[r].registered = request[r].registered
        /\ Account(r) \in users => Account(r) \in get_user(r)
        /\ \A q \in Request \ {r} : Leaves(q)
    BY <1>1, <1>9, FindUserFinds
  <2>2. Account(r)' = Account(r) /\ users' = users
    BY <1>9, <2>1 DEF Account, Address, FindUser
  <2> QED BY <1>1, <2>1, <2>2 DEF LoginFinds
<1>10. CASE LogIn(r)
  <2>1. request[r].registered => verify_password(r)
    BY <1>1, <1>10 DEF LoginFinds, LogIn, verify_password, Account
  <2> QED BY <1>2, <1>10, <2>1 DEF LogIn
<1>11. CASE CountEndpoints(r)
  BY <1>2, <1>3, <1>11 DEF CountEndpoints, Handling
<1>12. CASE add_endpoint(r)
  BY <1>3, <1>12 DEF add_endpoint, Handling
<1>13. CASE Refresh(r)
  BY <1>2, <1>13 DEF Refresh
<1>14. CASE DeleteRow(r)
  BY <1>2, <1>14 DEF DeleteRow
<1>15. CASE DbError(r)
  BY <1>2, <1>15 DEF DbError
<1> QED BY <1>4, <1>5, <1>6, <1>7, <1>8, <1>9, <1>10, <1>11, <1>12, <1>13, <1>14, <1>15
        DEF HandlerStep

\* Every step keeps it so, and turns no such login away as incorrect.
LEMMA LoginStepInv ==
  ASSUME TypeOK, AccountInv, LoginInv, [Next]_allVars, NEW q \in Request
  PROVE  LoginFinds(q)' /\ (request[q].registered => request'[q].answer # 401)
<1> DEFINE Right == LoginFinds(q)' /\ (request[q].registered => request'[q].answer # 401)
<1>1. LoginFinds(q) /\ users \subseteq users'
  BY AccountsStay DEF LoginInv
<1>2. ASSUME Leaves(q)
      PROVE  Right
  <2>1. LoginFinds(q)'
    BY <1>1, <1>2, LeavesFinds
  <2> QED BY <1>1, <1>2, <2>1 DEF LoginFinds, Leaves
<1>3. ASSUME NEW r \in Request, ArrivalStep(r)
      PROVE  Right
  <2>1. CASE q = r
    BY <1>3, <2>1, ArrivalFinds
  <2>2. CASE q # r
    BY <1>2, <1>3, <2>2, ArrivalMoves
  <2> QED BY <2>1, <2>2
<1>4. ASSUME NEW r \in Request, HandlerStep(r)
      PROVE  Right
  <2>1. CASE q = r
    BY <1>4, <2>1, HandlerFinds
  <2>2. CASE q # r
    BY <1>2, <1>4, <2>2, HandlerFinds
  <2> QED BY <2>1, <2>2
<1>5. ASSUME ApiKilled
      PROVE  Right
  <2>1. CASE request'[q] = [New EXCEPT !.stage = "over"]
    <3>1. New \in RequestState /\ New.answer = 0 /\ ~New.registered
      BY NewType
    <3>2. ~request'[q].registered /\ request'[q].answer # 401
      BY <2>1, <3>1 DEF RequestState
    <3> QED BY <3>2 DEF LoginFinds
  <2>2. request'[q] = [New EXCEPT !.stage = "over"] \/ Leaves(q)
    BY <1>5 DEF ApiKilled, Leaves
  <2> QED BY <1>2, <2>1, <2>2
<1>6. CASE UNCHANGED apiVars
  BY <1>2, <1>6 DEF apiVars, Leaves
<1> QED BY <1>3, <1>4, <1>5, <1>6 DEF Next, allVars

\* Whoever comes in to log in after a registration was answered, with its password
\* and in whatever spelling of its email, is not told that they are incorrect, whatever
\* other registrations and logins, failures and restarts come in between.
THEOREM AccountsLogIn == Spec => AccountLogsIn
<1> DEFINE LogsIn == \A r \in Request : request[r].registered => request'[r].answer # 401
<1>1. Init => LoginInv
  BY NewType DEF Init, LoginInv, LoginFinds
<1>2. TypeOK /\ AccountInv /\ LoginInv /\ [Next]_allVars => LoginInv' /\ LogsIn
  <2> SUFFICES ASSUME TypeOK, AccountInv, LoginInv, [Next]_allVars
               PROVE  LoginInv' /\ LogsIn
    OBVIOUS
  <2>1. \A q \in Request : LoginFinds(q)' /\ (request[q].registered => request'[q].answer # 401)
    BY LoginStepInv
  <2>2. ASSUME NEW q \in Request PROVE LoginFinds(q)'
    BY <2>1
  <2>3. ASSUME NEW q \in Request PROVE request[q].registered => request'[q].answer # 401
    BY <2>1
  <2> QED BY <2>2, <2>3 DEF LoginInv
<1>3. [][LogsIn]_allVars <=> AccountLogsIn
  BY DEF AccountLogsIn
<1> HIDE DEF LogsIn
<1>4. TypeOK /\ AccountInv /\ LoginInv /\ [Next]_allVars => [LogsIn]_allVars
  BY <1>2
<1> QED BY <1>1, <1>2, <1>3, <1>4, AccountsKept, PTL DEF Spec
-----------------------------------------------------------------------------
(* The quota: the invariant                                                   *)

Inserting(user) == {r \in Request : request[r].stage = "insert" /\ request[r].token.user = user}

\* The requests behind a user's endpoints, and those that will insert one more.
Load(user) == {e.by : e \in OwnedBy(user)} \cup Inserting(user)

QuotaInv ==
  /\ Cardinality(InHandler) <= Threads
  /\ \A user \in Email : Cardinality(Load(user)) <= MaxEndpoints - 1 + Threads

\* These are finite sets, and an endpoint is known by its request.
LEMMA LoadFinite ==
  ASSUME TypeOK, NEW user
  PROVE  /\ IsFiniteSet(InHandler) /\ IsFiniteSet(Load(user))
         /\ IsFiniteSet(OwnedBy(user)) /\ IsFiniteSet({e.by : e \in OwnedBy(user)})
         /\ Cardinality(OwnedBy(user)) <= Cardinality({e.by : e \in OwnedBy(user)})
         /\ Cardinality({e.by : e \in OwnedBy(user)}) <= Cardinality(OwnedBy(user))
<1> DEFINE O == OwnedBy(user)
           B == {e.by : e \in O}
           by == [e \in O |-> e.by]
<1>1. \A e \in O : e.by \in Request /\ e.user = user /\ e = [by |-> e.by, user |-> user]
  BY DEF OwnedBy, TypeOK, Endpoint
<1>2. InHandler \subseteq Request /\ Load(user) \subseteq Request /\ B \subseteq Request
  BY <1>1 DEF InHandler, Load, Inserting
<1>3. IsFiniteSet(InHandler) /\ IsFiniteSet(Load(user)) /\ IsFiniteSet(B)
  <2> HIDE DEF B
  <2> QED BY <1>2, RequestAssumption, FS_Subset
<1>4. by \in Injection(O, B)
  <2>1. by \in [O -> B]
    OBVIOUS
  <2>2. ASSUME NEW d \in O, NEW e \in O, by[d] = by[e]
        PROVE  d = e
    BY <1>1, <2>2
  <2> HIDE DEF by, O, B
  <2> QED BY <2>1, <2>2 DEF Injection, IsInjective
<1>5. IsFiniteSet(O) /\ Cardinality(O) <= Cardinality(B)
  <2> HIDE DEF by, O, B
  <2> QED BY <1>3, <1>4, FS_Injection
<1>6. by \in Surjection(O, B)
  <2>1. by \in [O -> B] /\ \A b \in B : \E e \in O : by[e] = b
    OBVIOUS
  <2> HIDE DEF by, O, B
  <2> QED BY <2>1 DEF Surjection
<1>7. Cardinality(B) <= Cardinality(O)
  <2> HIDE DEF by, O, B
  <2> QED BY <1>5, <1>6, FS_Surjection
<1> QED BY <1>3, <1>5, <1>7

\* A step in which no request comes to its insert, and only requests that were
\* there insert a row, adds nothing to the load.
LEMMA LoadShrinks ==
  ASSUME TypeOK, NEW done \in SUBSET Request, endpoints' \subseteq endpoints \cup NewEndpoints(done),
         \A q \in Request : Leaves(q) \/ request'[q].stage # "insert"
  PROVE  \A user : Load(user)' \subseteq Load(user)
<1> SUFFICES ASSUME NEW user, NEW x \in Load(user)'
             PROVE  x \in Load(user)
  OBVIOUS
<1>1. CASE x \in Inserting(user)'
  BY <1>1 DEF Inserting, Leaves, Load
<1>2. CASE \E e \in OwnedBy(user)' : x = e.by
  <2>1. PICK e \in endpoints' : e.user = user /\ x = e.by
    BY <1>2 DEF OwnedBy
  <2>2. CASE e \in endpoints
    BY <2>1, <2>2 DEF OwnedBy, Load
  <2>3. CASE e \in NewEndpoints(done)
    BY <2>1, <2>3 DEF NewEndpoints, Inserting, Load
  <2> QED BY <2>1, <2>2, <2>3
<1> QED BY <1>1, <1>2 DEF Load

\* Then, when no thread takes up a request either, the invariant is kept.
LEMMA ShrinksInv ==
  ASSUME TypeOK, TypeOK', QuotaInv, \A user \in Email : Load(user)' \subseteq Load(user),
         InHandler' \subseteq InHandler \/ Cardinality(InHandler') <= Threads
  PROVE  QuotaInv'
<1>1. Cardinality(InHandler') <= Threads
  <2>1. CASE InHandler' \subseteq InHandler
    <3>1. IsFiniteSet(InHandler) /\ IsFiniteSet(InHandler')
      BY <2>1, LoadFinite, FS_Subset
    <3>2. Cardinality(InHandler') <= Cardinality(InHandler)
      BY <2>1, <3>1, FS_Subset
    <3>3. Cardinality(InHandler') \in Nat /\ Cardinality(InHandler) \in Nat
      BY <3>1, FS_CardinalityType
    <3> QED BY <3>2, <3>3, ApiBounds DEF QuotaInv
  <2> QED BY <2>1
<1>2. ASSUME NEW user \in Email
      PROVE  Cardinality(Load(user)') <= MaxEndpoints - 1 + Threads
  <2>1. IsFiniteSet(Load(user)) /\ Load(user)' \subseteq Load(user)
    BY LoadFinite
  <2>2. IsFiniteSet(Load(user)') /\ Cardinality(Load(user)') <= Cardinality(Load(user))
    BY <2>1, FS_Subset
  <2>3. Cardinality(Load(user)') \in Nat /\ Cardinality(Load(user)) \in Nat
    BY <2>1, <2>2, FS_CardinalityType
  <2>4. Cardinality(Load(user)) <= MaxEndpoints - 1 + Threads
    BY DEF QuotaInv
  <2> QED BY <2>2, <2>3, <2>4, ApiBounds
<1> QED BY <1>1, <1>2 DEF QuotaInv

\* The insert that the count allows: those that count at the same time may each
\* do one.
LEMMA CountInv ==
  ASSUME TypeOK, TypeOK', AnswersAtEnd, QuotaInv, NEW r \in Request, CountEndpoints(r)
  PROVE  QuotaInv'
<1>1. endpoints' = endpoints /\ request[r].stage = "count" /\ r \in InHandler
  BY DEF CountEndpoints, InHandler, Handling
<1>2. CASE Ends(r, 400)
  <2>1. Drops(r) /\ \A q \in Request \ {r} : Leaves(q)
    BY <1>2, EndsDrops DEF Answers
  <2>2. InHandler' \subseteq InHandler
    BY <1>1, <2>1 DEF InHandler, Drops, Leaves, Handling
  <2>3. \A user : Load(user)' \subseteq Load(user)
    BY <1>1, <2>1, LoadShrinks DEF Drops
  <2> QED BY <2>2, <2>3, ShrinksInv
<1>3. CASE GoesTo(r, "insert") /\ ~QuotaReached(request[r].token.user)
  <2>0. PICK user \in Email : user = request[r].token.user
    BY AccountType
  <2> DEFINE made == {e.by : e \in OwnedBy(user)}
  <2>1. /\ request'[r].stage = "insert" /\ request'[r].token = request[r].token
        /\ \A q \in Request \ {r} : Leaves(q)
    BY <1>1, <1>3, GoesToKeeps DEF Handling
  <2>2. InHandler' = InHandler
    BY <1>1, <2>1 DEF InHandler, Leaves, Handling
  <2>3. \A u : u # user => Load(u)' = Load(u)
    BY <1>1, <2>0, <2>1 DEF Load, Inserting, OwnedBy, Leaves
  <2>4. Load(user)' \subseteq made \cup InHandler
    <3>1. Inserting(user)' \subseteq InHandler
      BY <1>1, <2>1 DEF Inserting, InHandler, Leaves, Handling
    <3>2. Load(user)' = made \cup Inserting(user)'
      BY <1>1 DEF Load, OwnedBy
    <3> QED BY <3>1, <3>2
  <2>5. /\ IsFiniteSet(made) /\ IsFiniteSet(InHandler)
        /\ IsFiniteSet(OwnedBy(user)) /\ Cardinality(made) <= Cardinality(OwnedBy(user))
    BY LoadFinite
  <2>6. Cardinality(OwnedBy(user)) < MaxEndpoints /\ Cardinality(OwnedBy(user)) \in Nat
    <3>1. Cardinality(OwnedBy(user)) \in Nat
      BY <2>5, FS_CardinalityType
    <3>2. ~QuotaReached(user)
      BY <1>3, <2>0
    <3>3. ~(Cardinality(OwnedBy(user)) >= MaxEndpoints)
      BY <3>2 DEF QuotaReached
    <3> QED BY <3>1, <3>3, ApiBounds
  <2> HIDE DEF made
  <2>7. IsFiniteSet(made \cup InHandler)
    BY <2>5, FS_Union
  <2>8. Cardinality(made \cup InHandler) <= Cardinality(made) + Cardinality(InHandler)
    <3>1. made \cap InHandler \in SUBSET made
      OBVIOUS
    <3>2. IsFiniteSet(made \cap InHandler)
      BY <2>5, <3>1, FS_Subset
    <3>3. Cardinality(made \cap InHandler) \in Nat
      BY <3>2, FS_CardinalityType
    <3>4. /\ Cardinality(made) \in Nat /\ Cardinality(InHandler) \in Nat
          /\ Cardinality(made \cup InHandler) \in Nat
      BY <2>5, <2>7, FS_CardinalityType
    <3>5. Cardinality(made \cup InHandler)
            = Cardinality(made) + Cardinality(InHandler) - Cardinality(made \cap InHandler)
      BY <2>5, FS_Union
    <3> QED BY <3>3, <3>4, <3>5
  <2>9. IsFiniteSet(Load(user)') /\ Cardinality(Load(user)') <= Cardinality(made \cup InHandler)
    BY <2>4, <2>7, FS_Subset
  <2>10. Cardinality(Load(user)') <= MaxEndpoints - 1 + Threads
    <3>1. /\ Cardinality(made) \in Nat /\ Cardinality(InHandler) \in Nat
          /\ Cardinality(made \cup InHandler) \in Nat /\ Cardinality(Load(user)') \in Nat
      BY <2>5, <2>7, <2>9, FS_CardinalityType
    <3>2. Cardinality(InHandler) <= Threads
      BY DEF QuotaInv
    <3> QED BY <2>5, <2>6, <2>8, <2>9, <3>1, <3>2, ApiBounds
  <2>11. \A u \in Email : Cardinality(Load(u)') <= MaxEndpoints - 1 + Threads
    <3>1. ASSUME NEW u \in Email, u # user
          PROVE  Cardinality(Load(u)') <= MaxEndpoints - 1 + Threads
      BY <2>3, <3>1 DEF QuotaInv
    <3> QED BY <2>10, <3>1
  <2> QED BY <2>2, <2>11 DEF QuotaInv
<1> QED BY <1>2, <1>3 DEF CountEndpoints

\* A request that comes in takes a thread.
LEMMA ArrivalQuota ==
  ASSUME TypeOK, TypeOK', QuotaInv, NEW r \in Request, ArrivalStep(r)
  PROVE  QuotaInv'
<1>1. /\ Drops(r) \/ (GoesOn(r) /\ request'[r].stage # "insert")
      /\ \A q \in Request \ {r} : Leaves(q)
  BY ArrivalMoves
<1>2. endpoints' \subseteq endpoints \cup NewEndpoints({})
  BY DEF ArrivalStep, register, login, set_endpoint, delete_endpoint
<1>3. \A user : Load(user)' \subseteq Load(user)
  <2>1. \A q \in Request : Leaves(q) \/ request'[q].stage # "insert"
    BY <1>1 DEF Drops
  <2> QED BY <1>2, <2>1, LoadShrinks
<1>4. Cardinality(InHandler') <= Threads
  <2>1. Cardinality(InHandler) < Threads
    BY DEF ArrivalStep, register, login, set_endpoint, delete_endpoint, Arrives
  <2>2. InHandler' \subseteq InHandler \cup {r}
    BY <1>1 DEF InHandler, Leaves
  <2>3. IsFiniteSet(InHandler) /\ Cardinality(InHandler) \in Nat
    BY LoadFinite, FS_CardinalityType
  <2>4. /\ IsFiniteSet(InHandler \cup {r})
        /\ Cardinality(InHandler \cup {r}) <= Cardinality(InHandler) + 1
    <3>1. /\ IsFiniteSet(InHandler \cup {r})
          /\ Cardinality(InHandler \cup {r})
               = IF r \in InHandler THEN Cardinality(InHandler) ELSE Cardinality(InHandler) + 1
      BY <2>3, FS_AddElement
    <3> QED BY <2>3, <3>1
  <2>5. IsFiniteSet(InHandler') /\ Cardinality(InHandler') <= Cardinality(InHandler \cup {r})
    BY <2>2, <2>4, FS_Subset
  <2>6. Cardinality(InHandler') \in Nat /\ Cardinality(InHandler \cup {r}) \in Nat
    BY <2>4, <2>5, FS_CardinalityType
  <2> QED BY <2>1, <2>3, <2>4, <2>5, <2>6, ApiBounds
<1> QED BY <1>3, <1>4, ShrinksInv

\* Every step keeps the invariant of the quota.
LEMMA QuotaStepInv ==
  ASSUME TypeOK, TypeOK', AccountInv, QuotaInv, [Next]_allVars
  PROVE  QuotaInv'
<1> USE DEF Answers
<1>1. ASSUME NEW R \in SUBSET InHandler, NEW done \in SUBSET R,
             endpoints' \subseteq endpoints \cup NewEndpoints(done),
             \A q \in R : request'[q].stage # "insert", \A q \in Request \ R : Leaves(q)
      PROVE  QuotaInv'
  <2>1. R \subseteq Request
    BY DEF InHandler
  <2>2. InHandler' \subseteq InHandler
    BY <1>1 DEF InHandler, Leaves
  <2>3. \A user : Load(user)' \subseteq Load(user)
    BY <1>1, <2>1, LoadShrinks
  <2> QED BY <2>2, <2>3, ShrinksInv
<1>2. ASSUME NEW r \in Request, HandlerStep(r)
      PROVE  QuotaInv'
  <2>1. AnswersAtEnd /\ NewEndpoints({}) = {}
    BY DEF AccountInv, NewEndpoints
  <2>2. ASSUME NEW done \in SUBSET {r}, r \in InHandler,
               endpoints' \subseteq endpoints \cup NewEndpoints(done),
               request'[r].stage # "insert", \A q \in Request \ {r} : Leaves(q)
        PROVE  QuotaInv'
    <3>1. {r} \in SUBSET InHandler /\ \A q \in {r} : request'[q].stage # "insert"
      BY <2>2
    <3> QED BY <1>1, <2>2, <3>1
  <2>3. ASSUME r \in InHandler, endpoints' = endpoints,
               \/ \E answer \in Answers : Ends(r, answer)
               \/ \E stage \in Handling \ {"insert"} : GoesTo(r, stage)
        PROVE  QuotaInv'
    <3>1. request[r].stage # "over"
      BY <2>3 DEF InHandler, Handling
    <3>2. request'[r].stage # "insert" /\ \A q \in Request \ {r} : Leaves(q)
      BY <2>1, <2>3, <3>1, EndsDrops, GoesToKeeps DEF Drops
    <3> QED BY <2>2, <2>3, <3>2
  <2>4. CASE Refused(r)
    BY <2>3, <2>4 DEF Refused, InHandler, Handling
  <2>5. CASE LookUp(r)
    BY <2>3, <2>5 DEF LookUp, InHandler, Handling
  <2>6. CASE InsertUser(r)
    BY <2>3, <2>6 DEF InsertUser, InHandler, Handling
  <2>7. CASE CommitUser(r)
    <3>1. Accepts(r) /\ \A q \in Request \ {r} : Leaves(q)
      BY <2>7, CommitAccepts
    <3>2. request'[r].stage # "insert"
      BY <3>1, AccountType DEF Accepts, RequestState
    <3>3. endpoints' = endpoints /\ r \in InHandler
      BY <2>7 DEF CommitUser, InHandler, Handling
    <3> QED BY <2>2, <3>1, <3>2, <3>3
  <2>8. CASE LimitEmail(r)
    BY <2>3, <2>8 DEF LimitEmail, InHandler, Handling
  <2>9. CASE LogIn(r)
    BY <2>3, <2>9 DEF LogIn, InHandler, Handling
  <2>14. CASE FindUser(r)
    <3>1. request'[r].stage = "verify" /\ \A q \in Request \ {r} : Leaves(q)
      BY <2>1, <2>14, FindUserFinds
    <3>2. endpoints' \subseteq endpoints \cup NewEndpoints({}) /\ r \in InHandler
      BY <2>14 DEF FindUser, InHandler, Handling
    <3> QED BY <2>2, <3>1, <3>2
  <2>15. CASE DeleteRow(r)
    <3>1. request'[r].stage # "insert" /\ \A q \in Request \ {r} : Leaves(q)
      BY <2>15, EndsDrops DEF DeleteRow, Drops
    <3>2. endpoints' \subseteq endpoints \cup NewEndpoints({}) /\ r \in InHandler
      BY <2>15 DEF DeleteRow, InHandler, Handling
    <3> QED BY <2>2, <3>1, <3>2
  <2>10. CASE CountEndpoints(r)
    BY <2>1, <2>10, CountInv
  <2>11. CASE add_endpoint(r)
    <3>1. r \in InHandler /\ request[r].stage # "over" /\ GoesTo(r, "refresh")
      BY <2>11 DEF add_endpoint, InHandler, Handling
    <3>2. request'[r].stage = "refresh" /\ \A q \in Request \ {r} : Leaves(q)
      BY <2>1, <3>1, GoesToKeeps DEF Handling
    <3>3. endpoints' \subseteq endpoints \cup NewEndpoints({r})
      BY <2>11 DEF add_endpoint, NewEndpoints
    <3> QED BY <2>2, <3>1, <3>2, <3>3
  <2>12. CASE Refresh(r)
    BY <2>3, <2>12 DEF Refresh, InHandler, Handling
  <2>13. CASE DbError(r)
    <3>1. PICK done \in SUBSET {r} : endpoints' \subseteq endpoints \cup NewEndpoints(done)
      BY <2>13 DEF DbError
    <3>2. request'[r].stage # "insert" /\ \A q \in Request \ {r} : Leaves(q)
      BY <2>13, EndsDrops DEF DbError, Drops
    <3>3. r \in InHandler
      BY <2>13 DEF DbError, InHandler, Handling
    <3> QED BY <2>2, <3>1, <3>2, <3>3
  <2> QED BY <1>2, <2>4, <2>5, <2>6, <2>7, <2>8, <2>9, <2>10, <2>11, <2>12, <2>13, <2>14, <2>15
          DEF HandlerStep
<1>3. ASSUME ApiKilled
      PROVE  QuotaInv'
  <2>1. PICK done \in SUBSET InHandler : endpoints' \subseteq endpoints \cup NewEndpoints(done)
    BY <1>3 DEF ApiKilled
  <2>2. \A q \in InHandler : request'[q] = [New EXCEPT !.stage = "over"]
    BY <1>3 DEF ApiKilled, InHandler
  <2>3. \A q \in InHandler : request'[q].stage # "insert"
    BY <2>2, NewType DEF RequestState
  <2>4. \A q \in Request \ InHandler : Leaves(q)
    BY <1>3 DEF ApiKilled, Leaves
  <2> QED BY <1>1, <2>1, <2>3, <2>4
<1>4. ASSUME UNCHANGED apiVars
      PROVE  QuotaInv'
  BY <1>4 DEF apiVars, QuotaInv, InHandler, Load, Inserting, OwnedBy
<1> QED BY <1>2, <1>3, <1>4, ArrivalQuota DEF Next, allVars

\* Nobody has an endpoint yet, and no thread is at work.
LEMMA QuotaInitInv == Init => QuotaInv
<1> SUFFICES ASSUME Init PROVE QuotaInv
  OBVIOUS
<1>1. New.stage = "new"
  BY DEF New
<1>2. InHandler = {} /\ \A user : Load(user) = {}
  BY <1>1 DEF Init, InHandler, Handling, Load, Inserting, OwnedBy
<1>3. Cardinality({}) = 0
  BY FS_EmptySet
<1> QED BY <1>2, <1>3, ApiBounds DEF QuotaInv

\* The count is not made again at the insert. Still, for every number of threads
\* and requests, a user passes the quota by no more than the other threads.
THEOREM QuotaBounded == Spec => []QuotaOvershoot
<1>1. Init => QuotaInv
  BY QuotaInitInv
<1>2. TypeOK /\ AccountInv /\ QuotaInv /\ [Next]_allVars => QuotaInv'
  BY ApiStepType, QuotaStepInv
<1>3. ASSUME TypeOK, QuotaInv
      PROVE  QuotaOvershoot
  <2>1. ASSUME NEW e \in Email
        PROVE  Cardinality(OwnedBy(e)) <= MaxEndpoints - 1 + Threads
    <3> DEFINE made == {x.by : x \in OwnedBy(e)}
    <3>1. /\ IsFiniteSet(OwnedBy(e)) /\ IsFiniteSet(Load(e)) /\ IsFiniteSet(made)
          /\ Cardinality(OwnedBy(e)) <= Cardinality(made)
      BY <1>3, LoadFinite
    <3>2. made \subseteq Load(e)
      BY DEF Load
    <3> HIDE DEF made
    <3>3. Cardinality(made) <= Cardinality(Load(e))
      BY <3>1, <3>2, FS_Subset
    <3>4. /\ Cardinality(OwnedBy(e)) \in Nat /\ Cardinality(made) \in Nat
          /\ Cardinality(Load(e)) \in Nat
      BY <3>1, FS_CardinalityType
    <3> QED BY <1>3, <3>1, <3>3, <3>4, ApiBounds DEF QuotaInv
  <2> QED BY <2>1 DEF QuotaOvershoot
<1> QED BY <1>1, <1>2, <1>3, AccountsKept, PTL DEF Spec
=============================================================================
