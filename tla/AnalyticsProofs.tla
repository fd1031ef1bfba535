---------------------------- MODULE AnalyticsProofs ----------------------------
(***************************************************************************)
(* Theorems about Analytics: what the window functions of the incident     *)
(* query compute for every table that the pipeline can produce, that the   *)
(* incidents add up to the failures of the summary, and that with one pool *)
(* process every alert can be found among them.                            *)
(***************************************************************************)
EXTENDS Analytics, AlertRefinementProofs, WellFoundedInduction

\* A set of numbers that has a member has a smallest one.
LEMMA SmallestExists ==
  ASSUME NEW S \in SUBSET Nat, S # {}
  PROVE  \E m \in S : \A k \in S : m <= k
<1> DEFINE R == {ss \in Nat \X Nat : ss[1] < ss[2]}
<1>1. IsWellFoundedOn(R, Nat)
  BY NatLessThanWellFounded DEF OpToRel
<1>2. PICK m \in S : \A k \in S : ~(<<k, m>> \in R)
  BY <1>1, WFMin, Zenon
<1>3. \A k \in S : ~(k < m)
  BY <1>2
<1> QED BY <1>3
-----------------------------------------------------------------------------
(* The order of the rows *)

\* The window holds finitely many rows, each with its checked_at.
LEMMA WindowType ==
  ASSUME TypeOK, NEW since
  PROVE  /\ IsFiniteSet(InWindow(since))
         /\ Cardinality(InWindow(since)) \in Nat
         /\ \A i \in InWindow(since) : CheckedAt(i) \in Nat
<1>1. results \in Seq(Row)
  BY DEF TypeOK
<1>2. InWindow(since) \subseteq 1..Len(results)
  BY <1>1 DEF InWindow
<1>3. IsFiniteSet(1..Len(results))
  BY <1>1, FS_Interval
<1>4. IsFiniteSet(InWindow(since))
  BY <1>2, <1>3, FS_Subset
<1>5. \A i \in InWindow(since) : results[i].task \in Nat
  <2> TAKE i \in InWindow(since)
  <2>1. i \in 1..Len(results)
    BY <1>2
  <2>2. results[i] \in Row
    BY <1>1, <2>1
  <2>3. results[i].task \in Task
    BY <2>2 DEF Row
  <2> QED BY <2>3, TaskAssumption
<1>6. \A i \in InWindow(since) : CheckedAt(i) \in Nat
  BY <1>5 DEF CheckedAt
<1>7. Cardinality(InWindow(since)) \in Nat
  BY <1>4, FS_CardinalityType
<1> QED BY <1>4, <1>6, <1>7

\* s lists every row of the window once, by checked_at.
Lists(s, n, since) ==
  /\ DOMAIN s = 1..n
  /\ \A k \in 1..n : s[k] \in InWindow(since) /\ CheckedAt(s[k]) \in Nat
  /\ \A j, k \in 1..n : j < k => s[j] # s[k] /\ CheckedAt(s[j]) <= CheckedAt(s[k])
  /\ \A i \in InWindow(since) : \E k \in 1..n : i = s[k]

\* An order that ORDER BY allows is such a list.
LEMMA OrderedRows ==
  ASSUME TypeOK, NEW since, NEW s \in Ordered(since)
  PROVE  \E n \in Nat : Lists(s, n, since)
<1> DEFINE rows == InWindow(since)
           n == Cardinality(rows)
<1>1. n \in Nat /\ IsFiniteSet(rows) /\ \A i \in rows : CheckedAt(i) \in Nat
  BY WindowType
<1>2. /\ s \in [1..n -> rows]
      /\ \A k \in 2..n : \A j \in 1..(k - 1) : s[j] # s[k] /\ CheckedAt(s[j]) <= CheckedAt(s[k])
  BY DEF Ordered
<1>3. \A j, k \in 1..n : j < k => s[j] # s[k] /\ CheckedAt(s[j]) <= CheckedAt(s[k])
  <2> TAKE j, k \in 1..n
  <2> HAVE j < k
  <2>1. k \in 2..n /\ j \in 1..(k - 1)
    BY <1>1
  <2> QED BY <2>1, <1>2
<1>4. s \in Injection(1..n, rows)
  <2>1. \A j, k \in 1..n : s[j] = s[k] => j = k
    BY <1>1, <1>3
  <2> QED BY <1>2, <2>1 DEF Injection, IsInjective
<1>5. IsFiniteSet(1..n) /\ Cardinality(1..n) = n
  BY <1>1, FS_Interval
<1>6. s \in Surjection(1..n, rows)
  BY <1>1, <1>4, <1>5, FS_Injection, Zenon
<1>7. \A i \in rows : \E k \in 1..n : i = s[k]
  BY <1>6 DEF Surjection
<1> QED BY <1>1, <1>2, <1>3, <1>7 DEF Lists
-----------------------------------------------------------------------------
(* What run_id tells *)

\* The k-th row's run_id counts these changes.
ChangesUpTo(s, k) == {m \in Changes(s) : CheckedAt(s[m]) <= CheckedAt(s[k])}

\* A failure, a later success and a still later failure: the count of changes
\* has grown by the one that ends the success at the latest.
LEMMA SuccessSeparates ==
  ASSUME NEW n \in Nat, NEW s, DOMAIN s = 1..n,
         \A k \in 1..n : CheckedAt(s[k]) \in Nat,
         \A j, k \in 1..n : j < k => CheckedAt(s[j]) <= CheckedAt(s[k]),
         NEW a \in 1..n, NEW u \in 1..n, NEW b \in 1..n,
         ~IsDown(s[u]), IsDown(s[b]),
         CheckedAt(s[a]) < CheckedAt(s[u]), CheckedAt(s[u]) < CheckedAt(s[b])
  PROVE  run_id(s, Changes(s), a) # run_id(s, Changes(s), b)
<1> DEFINE A == ChangesUpTo(s, a)
           B == ChangesUpTo(s, b)
           D == {k \in 1..n : u < k /\ IsDown(s[k])}
<1>1. u < b
  <2>1. CASE b < u
    BY <2>1
  <2>2. CASE b = u
    BY <2>2
  <2> QED BY <2>1, <2>2
<1>2. D \in SUBSET Nat /\ b \in D
  BY <1>1
<1>3. PICK c \in D : \A k \in D : c <= k
  BY <1>2, SmallestExists
<1>4. c \in 1..n /\ u < c /\ c <= b /\ IsDown(s[c])
  BY <1>2, <1>3
<1>5. c - 1 \in 1..n /\ ~IsDown(s[c - 1])
  <2>1. c - 1 \in 1..n /\ u <= c - 1
    BY <1>4
  <2>2. CASE u = c - 1
    BY <2>1, <2>2
  <2>3. CASE u < c - 1
    BY <2>1, <2>3, <1>3, <1>4
  <2> QED BY <2>1, <2>2, <2>3
<1>6. c \in Changes(s)
  BY <1>4, <1>5 DEF Changes
<1>7. CheckedAt(s[u]) <= CheckedAt(s[c]) /\ CheckedAt(s[c]) <= CheckedAt(s[b])
  <2>1. CheckedAt(s[c]) <= CheckedAt(s[b])
    <3>1. CASE c = b
      BY <3>1
    <3>2. CASE c < b
      BY <3>2, <1>4
    <3> QED BY <3>1, <3>2, <1>4
  <2> QED BY <2>1, <1>4
<1>8. c \in B /\ c \notin A
  BY <1>4, <1>6, <1>7 DEF ChangesUpTo
<1>9. A \subseteq B
  <2> SUFFICES ASSUME NEW m \in Changes(s), CheckedAt(s[m]) <= CheckedAt(s[a])
               PROVE  CheckedAt(s[m]) <= CheckedAt(s[b])
    BY DEF ChangesUpTo
  <2>1. m \in 1..n
    BY DEF Changes
  <2> QED BY <2>1
<1>10. IsFiniteSet(B)
  <2>1. IsFiniteSet(1..n) /\ B \subseteq 1..n
    BY FS_Interval DEF ChangesUpTo, Changes
  <2> QED BY <2>1, FS_Subset
<1>11. Cardinality(A) # Cardinality(B)
  BY <1>8, <1>9, <1>10, FS_Subset
<1> QED BY <1>11 DEF run_id, ChangesUpTo

\* No success from row a to row b.
DownFrom(s, n, a, b) ==
  \A m \in 1..n : (CheckedAt(s[a]) <= CheckedAt(s[m])
                     /\ CheckedAt(s[m]) <= CheckedAt(s[b])) => IsDown(s[m])

\* With no success from the one failure to the other, nothing changes in between.
LEMMA OutageKeepsRun ==
  ASSUME NEW n \in Nat, NEW s, NEW since, Lists(s, n, since),
         NEW a \in 1..n, NEW b \in 1..n, CheckedAt(s[a]) <= CheckedAt(s[b]),
         DownFrom(s, n, a, b)
  PROVE  run_id(s, Changes(s), a) = run_id(s, Changes(s), b)
<1>a. /\ DOMAIN s = 1..n
      /\ \A k \in 1..n : CheckedAt(s[k]) \in Nat
      /\ \A j, k \in 1..n : j < k => CheckedAt(s[j]) <= CheckedAt(s[k])
      /\ \A m \in 1..n : (CheckedAt(s[a]) <= CheckedAt(s[m])
                            /\ CheckedAt(s[m]) <= CheckedAt(s[b])) => IsDown(s[m])
  BY DEF Lists, DownFrom
<1> USE <1>a
<1> SUFFICES ASSUME NEW m \in Changes(s)
             PROVE  CheckedAt(s[m]) <= CheckedAt(s[a]) <=> CheckedAt(s[m]) <= CheckedAt(s[b])
  BY DEF run_id
<1>1. m \in 1..n /\ (m = 1 \/ IsDown(s[m]) # IsDown(s[m - 1]))
  BY DEF Changes
<1>2. CheckedAt(s[m]) <= CheckedAt(s[a]) => CheckedAt(s[m]) <= CheckedAt(s[b])
  BY <1>1
<1>3. ASSUME CheckedAt(s[m]) <= CheckedAt(s[b]), CheckedAt(s[a]) < CheckedAt(s[m])
      PROVE  FALSE
  <2>1. IsDown(s[m])
    BY <1>1, <1>3
  <2>2. a < m
    <3>1. CASE m < a
      BY <3>1, <1>1, <1>3
    <3>2. CASE m = a
      BY <3>2, <1>3
    <3> QED BY <3>1, <3>2, <1>1
  <2>3. m - 1 \in 1..n /\ a <= m - 1 /\ m - 1 < m
    BY <1>1, <2>2
  <2>4. CheckedAt(s[a]) <= CheckedAt(s[m - 1])
    <3>1. CASE a = m - 1
      BY <3>1
    <3>2. CASE a < m - 1
      BY <3>2, <2>3
    <3> QED BY <3>1, <3>2, <2>3
  <2>5. CheckedAt(s[m - 1]) <= CheckedAt(s[m])
    BY <2>3, <1>1
  <2>6. CheckedAt(s[m - 1]) <= CheckedAt(s[b])
    BY <1>1, <1>3, <2>3, <2>5
  <2>7. IsDown(s[m - 1])
    BY <2>3, <2>4, <2>6
  <2> QED BY <1>1, <2>1, <2>2, <2>7
<1> QED BY <1>1, <1>2, <1>3
-----------------------------------------------------------------------------
(* The groups *)

\* Two failures are listed together exactly if their run_id is the same.
LEMMA TogetherIsSameRun ==
  ASSUME NEW n \in Nat, NEW s, DOMAIN s = 1..n,
         \A j, k \in 1..n : j < k => s[j] # s[k],
         NEW a \in 1..n, NEW b \in 1..n, IsDown(s[a]), IsDown(s[b])
  PROVE  (\E rows \in Groups(s) : {s[a], s[b]} \subseteq rows)
           <=> run_id(s, Changes(s), a) = run_id(s, Changes(s), b)
<1> DEFINE down == {k \in DOMAIN s : IsDown(s[k])}
           id == [k \in down |-> run_id(s, Changes(s), k)]
           G(k) == {s[j] : j \in {m \in down : id[m] = id[k]}}
<1>1. Groups(s) = {G(k) : k \in down}
  BY DEF Groups
<1>2. a \in down /\ b \in down
  OBVIOUS
<1>3. ASSUME NEW k \in down, {s[a], s[b]} \subseteq G(k)
      PROVE  id[a] = id[b]
  <2>1. PICK p \in down : s[a] = s[p] /\ id[p] = id[k]
    BY <1>3
  <2>2. PICK q \in down : s[b] = s[q] /\ id[q] = id[k]
    BY <1>3
  <2>3. p = a /\ q = b
    BY <2>1, <2>2
  <2> QED BY <2>1, <2>2, <2>3
<1>4. ASSUME id[a] = id[b]
      PROVE  {s[a], s[b]} \subseteq G(a)
  BY <1>2, <1>4
<1>5. id[a] = run_id(s, Changes(s), a) /\ id[b] = run_id(s, Changes(s), b)
  BY <1>2
<1>6. (\E rows \in Groups(s) : {s[a], s[b]} \subseteq rows) <=> id[a] = id[b]
  <2>1. ASSUME \E rows \in Groups(s) : {s[a], s[b]} \subseteq rows
        PROVE  id[a] = id[b]
    <3> HIDE DEF down, id, G
    <3>1. PICK k \in down : {s[a], s[b]} \subseteq G(k)
      BY <1>1, <2>1
    <3> QED BY <3>1, <1>3
  <2>2. ASSUME id[a] = id[b]
        PROVE  \E rows \in Groups(s) : {s[a], s[b]} \subseteq rows
    <3> HIDE DEF down, id, G
    <3>1. G(a) \in Groups(s)
      BY <1>1, <1>2
    <3> QED BY <3>1, <2>2, <1>4
  <2> QED BY <2>1, <2>2
<1> HIDE DEF id
<1> QED BY <1>5, <1>6

\* Failures are listed together if no success lies between them, and only if no
\* success lies strictly between.
LEMMA IncidentsSplitAtSuccess ==
  ASSUME TypeOK, NEW since, NEW s \in Ordered(since),
         NEW i \in InWindow(since), NEW j \in InWindow(since),
         IsDown(i), IsDown(j), CheckedAt(i) <= CheckedAt(j)
  PROVE  /\ (\E m \in InWindow(since) :
                /\ ~IsDown(m)
                /\ CheckedAt(i) < CheckedAt(m) /\ CheckedAt(m) < CheckedAt(j))
             => ~ \E rows \in Groups(s) : {i, j} \subseteq rows
         /\ (\A m \in InWindow(since) : ~IsDown(m) =>
                ~(CheckedAt(i) <= CheckedAt(m) /\ CheckedAt(m) <= CheckedAt(j)))
             => \E rows \in Groups(s) : {i, j} \subseteq rows
<1>0. PICK n \in Nat : Lists(s, n, since)
  BY OrderedRows, Zenon
<1>1. /\ DOMAIN s = 1..n
      /\ \A k \in 1..n : s[k] \in InWindow(since) /\ CheckedAt(s[k]) \in Nat
      /\ \A k, m \in 1..n : k < m => s[k] # s[m] /\ CheckedAt(s[k]) <= CheckedAt(s[m])
      /\ \A m \in InWindow(since) : \E k \in 1..n : m = s[k]
  BY <1>0 DEF Lists
<1>2. PICK a \in 1..n : i = s[a]
  BY <1>1
<1>3. PICK b \in 1..n : j = s[b]
  BY <1>1
<1>4. (\E rows \in Groups(s) : {i, j} \subseteq rows)
        <=> run_id(s, Changes(s), a) = run_id(s, Changes(s), b)
  <2>1. IsDown(s[a]) /\ IsDown(s[b])
    BY <1>2, <1>3
  <2>2. \A k, m \in 1..n : k < m => s[k] # s[m]
    BY <1>1
  <2> QED BY <1>1, <1>2, <1>3, <2>1, <2>2, TogetherIsSameRun
<1>5. ASSUME NEW m \in InWindow(since), ~IsDown(m),
             CheckedAt(i) < CheckedAt(m), CheckedAt(m) < CheckedAt(j)
      PROVE  run_id(s, Changes(s), a) # run_id(s, Changes(s), b)
  <2>1. PICK u \in 1..n : m = s[u]
    BY <1>1
  <2> QED BY <1>1, <1>2, <1>3, <1>5, <2>1, SuccessSeparates
<1>6. ASSUME \A m \in InWindow(since) : ~IsDown(m) =>
               ~(CheckedAt(i) <= CheckedAt(m) /\ CheckedAt(m) <= CheckedAt(j))
      PROVE  run_id(s, Changes(s), a) = run_id(s, Changes(s), b)
  <2>1. DownFrom(s, n, a, b)
    BY <1>1, <1>2, <1>3, <1>6 DEF DownFrom
  <2>2. CheckedAt(s[a]) <= CheckedAt(s[b])
    BY <1>2, <1>3
  <2> QED BY <1>0, <2>1, <2>2, OutageKeepsRun
<1> QED BY <1>4, <1>5, <1>6

\* IncidentsAreOutages in every state that is typed.
LEMMA IncidentsFromTypes == TypeOK => IncidentsAreOutages
BY SMT, IncidentsSplitAtSuccess DEF IncidentsAreOutages

\* For any number of checks, retries and faults, in whatever order rows were
\* committed and ties are sorted, the incident query splits the failures at
\* successes and nowhere else.
THEOREM IncidentsAreRuns == Spec => []IncidentsAreOutages
  BY TypeCorrect, IncidentsFromTypes, PTL
-----------------------------------------------------------------------------
(* The incidents and the alerts *)

\* Groups hold failures of the window, and no failure is in two of them.
LEMMA GroupsApart ==
  ASSUME NEW n \in Nat, NEW s, NEW since, Lists(s, n, since)
  PROVE  /\ \A rows \in Groups(s) : rows \subseteq {i \in InWindow(since) : IsDown(i)}
         /\ \A g, h \in Groups(s) : g \cap h # {} => g = h
<1> DEFINE down == {k \in DOMAIN s : IsDown(s[k])}
           id == [k \in down |-> run_id(s, Changes(s), k)]
           G(k) == {s[j] : j \in {m \in down : id[m] = id[k]}}
<1>1. Groups(s) = {G(k) : k \in down}
  BY DEF Groups
<1>2. /\ \A k \in down : k \in 1..n /\ s[k] \in InWindow(since) /\ IsDown(s[k])
      /\ \A j, k \in 1..n : s[j] = s[k] => j = k
  BY DEF Lists
<1>3. ASSUME NEW k \in down
      PROVE  G(k) \subseteq {i \in InWindow(since) : IsDown(i)}
  BY <1>2
<1>4. ASSUME NEW k \in down, NEW m \in down, G(k) \cap G(m) # {}
      PROVE  G(k) = G(m)
  <2>1. PICK p \in down, q \in down : s[p] = s[q] /\ id[p] = id[k] /\ id[q] = id[m]
    BY <1>4
  <2>2. id[k] = id[m]
    BY <1>2, <2>1
  <2> QED BY <2>2
<1> HIDE DEF G, down
<1> QED BY <1>1, <1>3, <1>4

\* A failed row that follows only failures is listed with each of them: rows
\* from..to, where no other row is checked between.
LEMMA OutageIsOneIncident ==
  ASSUME TypeOK, InOrder, NEW s \in Ordered(0), NEW to \in DOMAIN results,
         NEW D \in SUBSET DOMAIN results, IsDown(to),
         \A i \in D : i <= to /\ \A m \in i..to : IsDown(m)
  PROVE  \E rows \in Groups(s) : /\ to \in rows /\ D \subseteq rows
                                 /\ rows \subseteq {i \in DOMAIN results : IsDown(i)}
<1>0. PICK n \in Nat : Lists(s, n, 0)
  BY OrderedRows, Zenon
<1>1. results \in Seq(Row) /\ DOMAIN results = 1..Len(results) /\ Len(results) \in Nat
  BY DEF TypeOK
<1>2. \A i \in DOMAIN results : CheckedAt(i) \in Nat
  <2> TAKE i \in DOMAIN results
  <2>1. results[i] \in Row
    BY <1>1
  <2>2. results[i].task \in Task
    BY <2>1 DEF Row
  <2> QED BY <2>2, TaskAssumption DEF CheckedAt
<1>3. InWindow(0) = DOMAIN results
  BY <1>2 DEF InWindow
<1>4. \A i, j \in DOMAIN results : CheckedAt(i) <= CheckedAt(j) => i <= j
  <2> TAKE i, j \in DOMAIN results
  <2>1. CASE j < i
    BY <1>2, <2>1 DEF InOrder
  <2> QED BY <1>1, <2>1
<1>5. ASSUME NEW i \in DOMAIN results, i <= to, \A m \in i..to : IsDown(m)
      PROVE  \E rows \in Groups(s) : {i, to} \subseteq rows
  <2>1. CheckedAt(i) <= CheckedAt(to)
    <3>1. CASE i = to
      BY <3>1, <1>2
    <3>2. CASE i < to
      BY <3>2, <1>2 DEF InOrder
    <3> QED BY <1>1, <1>5, <3>1, <3>2
  <2>2. IsDown(i)
    BY <1>1, <1>5
  <2>3. ASSUME NEW m \in InWindow(0), ~IsDown(m)
        PROVE  ~(CheckedAt(i) <= CheckedAt(m) /\ CheckedAt(m) <= CheckedAt(to))
    <3> SUFFICES ASSUME CheckedAt(i) <= CheckedAt(m), CheckedAt(m) <= CheckedAt(to)
                 PROVE  FALSE
      OBVIOUS
    <3>1. m \in DOMAIN results /\ i <= m /\ m <= to
      BY <1>3, <1>4, <2>3
    <3>2. m \in i..to
      BY <1>1, <3>1
    <3> QED BY <1>5, <2>3, <3>2
  <2>4. i \in InWindow(0) /\ to \in InWindow(0)
    BY <1>3
  <2> QED BY <2>1, <2>2, <2>3, <2>4, IncidentsSplitAtSuccess
<1>6. PICK rows \in Groups(s) : to \in rows
  <2>1. to <= to /\ \A m \in to..to : IsDown(m)
    BY <1>1
  <2> QED BY <2>1, <1>5
<1>7. D \subseteq rows
  <2> SUFFICES ASSUME NEW i \in D PROVE i \in rows
    OBVIOUS
  <2>1. PICK g \in Groups(s) : i \in g /\ to \in g
    BY <1>5
  <2>2. g = rows
    BY <1>0, <1>6, <2>1, GroupsApart
  <2> QED BY <2>1, <2>2
<1>8. rows \subseteq {i \in DOMAIN results : IsDown(i)}
  BY <1>0, <1>3, GroupsApart
<1> QED BY <1>6, <1>7, <1>8

\* What SQL takes for down is what perform_check takes for down.
LEMMA DownIsDown ==
  ASSUME TypeOK, NEW i \in DOMAIN results
  PROVE  /\ IsDown(i) <=> ~is_up_for(results[i].status)
         /\ IsDown(i) <=> ~History[i]
<1>1. results[i] \in Row
  BY DEF TypeOK
<1>2. results[i].status \in Int \cup {NoResponse}
  BY <1>1, StatusAssumption DEF Row, StatusCode
<1>3. IsDown(i) <=> ~is_up_for(results[i].status)
  BY <1>2 DEF IsDown, is_up_for, Between
<1> QED BY <1>3 DEF History

\* What the owner was told of can be found on the page.
LEMMA NoticesFromPromises ==
  ASSUME TypeOK, VisibleDownEndsRun, VisibleRecoveryEndsOutage
  PROVE  NoticesMatchIncidents
<1> SUFFICES ASSUME InOrder, NEW n \in VisibleNotices, NEW s \in Ordered(0)
             PROVE  \/ /\ n.kind = "down"
                       /\ \E rows \in Groups(s) :
                            /\ n.at \in rows
                            /\ Cardinality({i \in rows : i <= n.at}) >= config[n.config].threshold
                    \/ /\ n.kind = "recovery"
                       /\ \E rows \in Groups(s) :
                            /\ n.at - 1 \in rows /\ n.at \notin rows
                            /\ \E d \in VisibleNotices : /\ d.kind = "down" /\ d.config = n.config
                                                         /\ d.at \in rows
  BY DEF NoticesMatchIncidents
<1>1. /\ results \in Seq(Row) /\ Len(results) \in Nat /\ DOMAIN results = 1..Len(results)
      /\ DOMAIN History = DOMAIN results
  BY DEF TypeOK, History
<1>2. \A m \in VisibleNotices : m.at \in DOMAIN results /\ m.kind \in {"down", "recovery"} /\ m.config \in Config
  <2> TAKE m \in VisibleNotices
  <2>1. PICK a \in alerts, i \in DOMAIN results : m = [config |-> a.config, at |-> i, kind |-> a.kind]
    BY VisibleAre, NoticesAre
  <2>2. a \in Alert
    BY DEF TypeOK
  <2> QED BY <2>1, <2>2 DEF Alert
<1>3. CASE n.kind = "down"
  <2> DEFINE k == config[n.config].threshold
             D == (n.at - k + 1)..n.at
  <2>1. \A i \in {n.at} \cup D : i \in DOMAIN results /\ ~History[i]
    BY <1>1, <1>2, <1>3 DEF VisibleDownEndsRun, Contract!DownEndsRun, Thresholds
  <2>2. k \in Int /\ n.at \in Int
    <3>1. config[n.config] \in ConfigRow
      BY <1>2 DEF TypeOK
    <3>2. config[n.config].threshold \in Threshold
      BY <3>1 DEF ConfigRow
    <3>3. n.at \in 1..Len(results)
      BY <1>1, <1>2
    <3> HIDE DEF k
    <3>4. k \in Int
      BY <3>2, ThresholdAssumption DEF k
    <3> QED BY <3>3, <3>4, <1>1
  <2>3. PICK rows \in Groups(s) : /\ n.at \in rows /\ D \subseteq rows
                                  /\ rows \subseteq {i \in DOMAIN results : IsDown(i)}
    <3>1. IsDown(n.at) /\ \A i \in D : i \in DOMAIN results /\ IsDown(i)
      BY <2>1, DownIsDown
    <3>2. \A i \in D : i <= n.at /\ \A m \in i..n.at : m \in D
      BY <2>2
    <3>3. D \in SUBSET DOMAIN results /\ n.at \in DOMAIN results
      BY <2>1
    <3> HIDE DEF D
    <3>4. \A i \in D : i <= n.at /\ \A m \in i..n.at : IsDown(m)
      BY <3>1, <3>2
    <3> QED BY <3>1, <3>3, <3>4, OutageIsOneIncident
  <2>4. Cardinality({i \in rows : i <= n.at}) >= k
    <3> DEFINE L == {i \in rows : i <= n.at}
    <3>1. IsFiniteSet(1..Len(results)) /\ L \subseteq 1..Len(results)
      BY <1>1, <2>3, FS_Interval
    <3>2. IsFiniteSet(L) /\ Cardinality(L) \in Nat
      BY <3>1, FS_Subset, FS_CardinalityType
    <3>3. ASSUME k > 0 PROVE Cardinality(L) >= k
      <4>1. D \subseteq L
        BY <2>2, <2>3
      <4>2. Cardinality(D) = k
        <5>1. n.at - k + 1 \in Int /\ n.at \in Int /\ n.at - k + 1 <= n.at
          BY <2>2, <3>3
        <5>2. Cardinality(D) = n.at - (n.at - k + 1) + 1
          BY <5>1, FS_Interval
        <5> QED BY <5>2, <2>2
      <4>3. Cardinality(D) <= Cardinality(L)
        BY <3>2, <4>1, FS_Subset
      <4> HIDE DEF L, D, k
      <4> QED BY <2>2, <3>2, <4>2, <4>3
    <3>4. ASSUME k <= 0 PROVE Cardinality(L) >= k
      <4> HIDE DEF L, k
      <4> QED BY <2>2, <3>2, <3>4
    <3>5. Cardinality(L) >= k
      <4> HIDE DEF L, k
      <4> QED BY <2>2, <3>3, <3>4
    <3> QED BY <3>5
  <2> QED BY <1>3, <2>3, <2>4
<1>4. CASE n.kind = "recovery"
  <2>1. PICK d \in VisibleNotices :
          /\ d.kind = "down" /\ d.config = n.config /\ d.at < n.at
          /\ \A i \in d.at..(n.at - 1) : ~History[i]
    BY <1>4 DEF VisibleRecoveryEndsOutage, Contract!RecoveryEndsOutage
  <2>2. History[n.at]
    BY <1>4 DEF VisibleRecoveryEndsOutage, Contract!RecoveryEndsOutage
  <2>3. d.at \in DOMAIN results /\ n.at \in DOMAIN results /\ n.at - 1 \in DOMAIN results
        /\ d.at <= n.at - 1
    BY <1>1, <1>2, <2>1
  <2>4. \A i \in d.at..(n.at - 1) : IsDown(i)
    <3> TAKE i \in d.at..(n.at - 1)
    <3>1. i \in DOMAIN results
      BY <1>1, <2>3
    <3> QED BY <2>1, <3>1, DownIsDown
  <2>5. IsDown(n.at - 1)
    BY <1>1, <2>3, <2>4
  <2>6. PICK rows \in Groups(s) : /\ n.at - 1 \in rows /\ {d.at} \subseteq rows
                                  /\ rows \subseteq {i \in DOMAIN results : IsDown(i)}
    <3> DEFINE to == n.at - 1
               D == {d.at}
    <3>1. to \in DOMAIN results /\ D \in SUBSET DOMAIN results /\ IsDown(to)
          /\ \A i \in D : i <= to /\ \A m \in i..to : IsDown(m)
      BY <2>3, <2>4, <2>5
    <3> HIDE DEF to, D
    <3>2. \E rows \in Groups(s) : /\ to \in rows /\ D \subseteq rows
                                  /\ rows \subseteq {i \in DOMAIN results : IsDown(i)}
      BY <3>1, OutageIsOneIncident
    <3> QED BY <3>2 DEF to, D
  <2>7. n.at \notin rows
    BY <2>2, <2>3, <2>6, DownIsDown
  <2> QED BY <1>4, <2>1, <2>6, <2>7
<1> QED BY <1>2, <1>3, <1>4

\* With one process in the pool, for any number of checks and configs, every
\* alert can be found in the incidents: a down alert with as many checks of its
\* incident before it as its threshold, a recovery right after the incident in
\* which its down alert was issued.
THEOREM NoticesAreIncidents ==
  ASSUME OneProcess
  PROVE  Spec => []NoticesMatchIncidents
BY TypeCorrect, VisibleNoticesAreTrue, NoticesFromPromises, PTL
-----------------------------------------------------------------------------
(* The sum of the incidents' checks *)

\* it is the recursive function behind the sum of x.checks over subsets of S.
IsSum(it, S) ==
  it = [u \in SUBSET S |-> IF u = {} THEN 0
                           ELSE LET x == CHOOSE x \in u : TRUE IN x.checks + it[u \ {x}]]

\* What MapThenSumSet stands for.
LEMMA SumUnfolds ==
  ASSUME NEW S
  PROVE  MapThenSumSet(LAMBDA x : x.checks, S) = (CHOOSE it : IsSum(it, S))[S]
BY DEF MapThenSumSet, MapThenFoldSet, IsSum

\* The rows of the groups with an incident in u.
RowsIn(G, u) == UNION {g \in G : Incident(g) \in u}

\* Groups of rows that are disjoint and have different incidents.
Distinct(G) ==
  \A g, h \in G : g # h => g \cap h = {} /\ Incident(g) # Incident(h)

\* All of u are incidents of the groups.
AreIncidents(u, G) == \A y \in u : \E g \in G : y = Incident(g)

\* For such groups, the rows of some incidents are those of any one of them and those of the others.
LEMMA RowsSplit ==
  ASSUME NEW G, Distinct(G),
         NEW u, AreIncidents(u, G), IsFiniteSet(RowsIn(G, u)), NEW x \in u
  PROVE  Cardinality(RowsIn(G, u)) = x.checks + Cardinality(RowsIn(G, u \ {x}))
<1>1. PICK g \in G : x = Incident(g)
  BY DEF AreIncidents
<1> DEFINE R == RowsIn(G, u \ {x})
<1>2. RowsIn(G, u) = g \cup R
  <2>1. {h \in G : Incident(h) \in u} = {g} \cup {h \in G : Incident(h) \in u \ {x}}
    BY <1>1 DEF Distinct
  <2> QED BY <2>1 DEF RowsIn
<1>3. g \cap R = {}
  <2>1. \A h \in G : Incident(h) \in u \ {x} => g \cap h = {}
    BY <1>1 DEF Distinct
  <2> QED BY <2>1 DEF RowsIn
<1>4. IsFiniteSet(g) /\ IsFiniteSet(R)
  BY <1>2, FS_Subset
<1>5. x.checks = Cardinality(g)
  BY <1>1 DEF Incident
<1> HIDE DEF R
<1>6. Cardinality(g \cup R) = Cardinality(g) + Cardinality(R) - Cardinality(g \cap R)
  BY <1>4, FS_Union
<1>7. Cardinality(g) \in Nat /\ Cardinality(R) \in Nat /\ Cardinality(g \cap R) = 0
  BY <1>3, <1>4, FS_CardinalityType, FS_EmptySet
<1> QED BY <1>2, <1>5, <1>6, <1>7 DEF R

\* So the checks of their incidents add up to the number of their rows.
LEMMA ChecksAddUp ==
  ASSUME NEW G, Distinct(G), IsFiniteSet(G), IsFiniteSet(UNION G)
  PROVE  MapThenSumSet(LAMBDA x : x.checks, {Incident(g) : g \in G}) = Cardinality(UNION G)
<1> DEFINE I == {Incident(g) : g \in G}
           F == [u \in SUBSET I |-> Cardinality(RowsIn(G, u))]
<1>1. ASSUME NEW u \in SUBSET I
      PROVE  IsFiniteSet(RowsIn(G, u)) /\ IsFiniteSet(u)
  <2>1. RowsIn(G, u) \subseteq UNION G
    BY DEF RowsIn
  <2>2. IsFiniteSet(I)
    <3> DEFINE f == [g \in G |-> Incident(g)]
    <3>1. f \in Surjection(G, I)
      BY DEF Surjection
    <3> HIDE DEF f, I
    <3> QED BY <3>1, FS_Surjection
  <2> QED BY <2>1, <2>2, FS_Subset
<1>2. ASSUME NEW u \in SUBSET I, u # {}
      PROVE  \A x \in u : F[u] = x.checks + F[u \ {x}]
  <2> TAKE x \in u
  <2>1. u \ {x} \in SUBSET I
    OBVIOUS
  <2>2. Cardinality(RowsIn(G, u)) = x.checks + Cardinality(RowsIn(G, u \ {x}))
    <3>1. IsFiniteSet(RowsIn(G, u)) /\ AreIncidents(u, G)
      BY <1>1 DEF AreIncidents
    <3> HIDE DEF I, F
    <3> QED BY <3>1, RowsSplit
  <2> QED BY <2>1, <2>2
<1>3. F[{}] = 0
  <2>1. RowsIn(G, {}) = {}
    BY DEF RowsIn
  <2> QED BY <2>1, FS_EmptySet
<1>4. DOMAIN F = SUBSET I /\ F = [u \in SUBSET I |-> F[u]]
  OBVIOUS
<1>5. F[I] = Cardinality(UNION G)
  <2>1. RowsIn(G, I) = UNION G
    BY DEF RowsIn
  <2> QED BY <2>1
<1> HIDE DEF F, I
<1>6. IsSum(F, I)
  <2>1. ASSUME NEW u \in SUBSET I
        PROVE  F[u] = IF u = {} THEN 0
                      ELSE LET x == CHOOSE x \in u : TRUE IN x.checks + F[u \ {x}]
    <3>1. CASE u = {}
      BY <3>1, <1>3
    <3>2. CASE u # {}
      <4> DEFINE x == CHOOSE x \in u : TRUE
      <4>1. x \in u
        BY <3>2
      <4> HIDE DEF x
      <4>2. F[u] = x.checks + F[u \ {x}]
        BY <4>1, <3>2, <1>2
      <4> QED BY <4>2, <3>2 DEF x
    <3> QED BY <3>1, <3>2
  <2> QED BY <2>1, <1>4 DEF IsSum
<1>7. PICK it : it = (CHOOSE f : IsSum(f, I)) /\ IsSum(it, I)
  BY <1>6
<1>8. \A u \in SUBSET I : it[u] = F[u]
  <2> DEFINE bad == {m \in Nat : \E u \in SUBSET I : Cardinality(u) = m /\ it[u] # F[u]}
  <2>1. bad = {}
    <3> SUFFICES ASSUME bad # {} PROVE FALSE
      OBVIOUS
    <3>1. PICK m \in bad : \A k \in bad : m <= k
      BY SmallestExists
    <3>2. PICK u \in SUBSET I : Cardinality(u) = m /\ it[u] # F[u]
      OBVIOUS
    <3>3. it[u] = IF u = {} THEN 0
                  ELSE LET x == CHOOSE x \in u : TRUE IN x.checks + it[u \ {x}]
      BY <1>7 DEF IsSum
    <3>4. u # {}
      BY <3>2, <3>3, <1>3
    <3> DEFINE x == CHOOSE x \in u : TRUE
    <3>5. x \in u /\ it[u] = x.checks + it[u \ {x}]
      BY <3>3, <3>4
    <3> HIDE DEF x
    <3>6. /\ IsFiniteSet(u \ {x}) /\ u \ {x} \in SUBSET I
          /\ Cardinality(u \ {x}) = m - 1 /\ m - 1 \in Nat
      <4>1. IsFiniteSet(u) /\ IsFiniteSet(u \ {x}) /\ u \ {x} \in SUBSET I
        BY <1>1
      <4>2. Cardinality(u \ {x}) = Cardinality(u) - 1
        BY <4>1, <3>5, FS_RemoveElement
      <4>3. Cardinality(u \ {x}) \in Nat
        BY <4>1, FS_CardinalityType
      <4> QED BY <4>1, <4>2, <4>3, <3>2
    <3>7. it[u \ {x}] = F[u \ {x}]
      BY <3>6, <3>1
    <3>8. F[u] = x.checks + F[u \ {x}]
      BY <1>2, <3>4, <3>5
    <3> QED BY <3>2, <3>5, <3>7, <3>8
  <2> SUFFICES ASSUME NEW u \in SUBSET I, it[u] # F[u] PROVE FALSE
    OBVIOUS
  <2>2. Cardinality(u) \in Nat
    BY <1>1, FS_CardinalityType
  <2> QED BY <2>1, <2>2
<1>9. it[I] = F[I]
  BY <1>8
<1>10. MapThenSumSet(LAMBDA x : x.checks, {Incident(g) : g \in G})
         = (CHOOSE f : IsSum(f, I))[I]
  BY SumUnfolds DEF I
<1> QED BY <1>5, <1>7, <1>9, <1>10

\* Groups hold the failures of the window and nothing else; none is empty.
LEMMA GroupsCover ==
  ASSUME NEW n \in Nat, NEW s, NEW since, Lists(s, n, since)
  PROVE  /\ UNION Groups(s) = {i \in InWindow(since) : IsDown(i)}
         /\ \A g \in Groups(s) : g # {}
         /\ IsFiniteSet(Groups(s))
<1> DEFINE down == {k \in DOMAIN s : IsDown(s[k])}
           id == [k \in down |-> run_id(s, Changes(s), k)]
           G == [k \in down |-> {s[j] : j \in {m \in down : id[m] = id[k]}}]
<1>1. Groups(s) = {G[k] : k \in down}
  BY DEF Groups
<1>2. \A k \in down : s[k] \in G[k]
  OBVIOUS
<1>3. \A i \in InWindow(since) : IsDown(i) => \E k \in down : i = s[k]
  BY DEF Lists
<1>4. down \subseteq 1..n
  BY DEF Lists
<1>5. IsFiniteSet(down)
  BY <1>4, FS_Interval, FS_Subset
<1>6. G \in Surjection(down, {G[k] : k \in down})
  BY DEF Surjection
<1> HIDE DEF G, down
<1>7. IsFiniteSet(Groups(s))
  BY <1>1, <1>5, <1>6, FS_Surjection
<1>8. \A g \in Groups(s) : g # {}
  BY <1>1, <1>2
<1>9. {i \in InWindow(since) : IsDown(i)} \subseteq UNION Groups(s)
  BY <1>1, <1>2, <1>3
<1>10. UNION Groups(s) \subseteq {i \in InWindow(since) : IsDown(i)}
  BY GroupsApart
<1> QED BY <1>7, <1>8, <1>9, <1>10

\* An incident starts with one of its rows.
LEMMA IncidentStarts ==
  ASSUME NEW g, g # {}, \A i \in g : CheckedAt(i) \in Nat
  PROVE  \E i \in g : Incident(g).started_at = CheckedAt(i)
<1> DEFINE T == {CheckedAt(i) : i \in g}
<1>1. T \in SUBSET Nat /\ T # {}
  OBVIOUS
<1>2. \E m \in T : \A k \in T : m <= k
  BY <1>1, SmallestExists
<1>3. Min(T) \in T
  BY <1>2 DEF Min
<1>4. Incident(g).started_at = Min(T)
  BY DEF Incident
<1> QED BY <1>3, <1>4

\* Two groups never make the same incident: rows of one checked_at share a run_id.
LEMMA GroupsDistinct ==
  ASSUME NEW n \in Nat, NEW s, NEW since, Lists(s, n, since)
  PROVE  Distinct(Groups(s))
<1>1. /\ DOMAIN s = 1..n
      /\ \A j, k \in 1..n : j < k => s[j] # s[k]
      /\ \A i \in InWindow(since) : CheckedAt(i) \in Nat /\ \E k \in 1..n : i = s[k]
  BY DEF Lists
<1>2. ASSUME NEW g \in Groups(s), NEW h \in Groups(s), Incident(g) = Incident(h)
      PROVE  g = h
  <2>1. /\ g # {} /\ h # {}
        /\ \A i \in g \cup h : i \in InWindow(since) /\ IsDown(i)
    BY GroupsCover, GroupsApart
  <2>2. PICK i \in g : Incident(g).started_at = CheckedAt(i)
    BY <1>1, <2>1, IncidentStarts
  <2>3. PICK j \in h : Incident(h).started_at = CheckedAt(j)
    BY <1>1, <2>1, IncidentStarts
  <2>4. PICK a \in 1..n, b \in 1..n : i = s[a] /\ j = s[b]
    BY <1>1, <2>1
  <2>5. CheckedAt(s[a]) = CheckedAt(s[b])
    BY <1>2, <2>2, <2>3, <2>4
  <2>6. run_id(s, Changes(s), a) = run_id(s, Changes(s), b)
    BY <2>5 DEF run_id
  <2>7. IsDown(s[a]) /\ IsDown(s[b])
    BY <2>1, <2>4
  <2>8. PICK rows \in Groups(s) : {i, j} \subseteq rows
    BY <1>1, <2>4, <2>6, <2>7, TogetherIsSameRun
  <2>9. g = rows /\ h = rows
    BY <2>8, GroupsApart
  <2> QED BY <2>9
<1> QED BY <1>2, GroupsApart DEF Distinct

\* The summary of the first rows and the incidents agree, but for the failures after
\* them, in every state that is typed.
LEMMA SummaryFromTypes == TypeOK => SummaryMatchesIncidents
<1> SUFFICES ASSUME TypeOK, NEW since \in Task, NEW m \in 0..Len(results), NEW s \in Ordered(since)
             PROVE  MapThenSumSet(LAMBDA x : x.checks, get_endpoint_incidents(s))
                      = (total_checks(m, since) - up_checks(m, since))
                        + Cardinality({i \in InWindow(since) \cap FailedRows : i > m})
  BY DEF SummaryMatchesIncidents, get_analytics
<1> DEFINE W == InWindow(since)
           D == {i \in W : IsDown(i)}
           P == {i \in W : i <= m}
           U == {i \in W : i <= m /\ CountedUp(i)}
           B == {i \in W \cap FailedRows : i > m}
           C == {i \in W : i <= m /\ IsDown(i)}
<1>1. PICK n \in Nat : Lists(s, n, since)
  BY OrderedRows, Zenon
<1>2. IsFiniteSet(W)
  BY WindowType
<1>3. P = C \cup U /\ C \cap U = {}
  BY DEF IsDown, CountedUp
<1>4. D = C \cup B /\ C \cap B = {}
  <2>1. results \in Seq(Row)
    BY DEF TypeOK
  <2>2. DOMAIN results = 1..Len(results) /\ Len(results) \in Nat
    BY <2>1
  <2>3. \A i \in W : i \in DOMAIN results /\ (IsDown(i) <=> i \in FailedRows)
    BY DownIsDown DEF InWindow, FailedRows
  <2>4. \A i \in W : i > m <=> ~(i <= m)
    BY <2>2, <2>3
  <2> HIDE DEF W
  <2> QED BY <2>3, <2>4
<1>5. IsFiniteSet(D) /\ IsFiniteSet(U) /\ IsFiniteSet(B) /\ IsFiniteSet(C)
  BY <1>2, FS_Subset
<1>6. UNION Groups(s) = D /\ IsFiniteSet(Groups(s)) /\ Distinct(Groups(s))
  BY <1>1, GroupsCover, GroupsDistinct
<1>7. total_checks(m, since) = Cardinality(P) /\ up_checks(m, since) = Cardinality(U)
  BY DEF total_checks, up_checks
<1>8. MapThenSumSet(LAMBDA x : x.checks, get_endpoint_incidents(s)) = Cardinality(D)
  <2>1. MapThenSumSet(LAMBDA x : x.checks, {Incident(g) : g \in Groups(s)}) = Cardinality(UNION Groups(s))
    <3> HIDE DEF D
    <3> QED BY <1>5, <1>6, ChecksAddUp
  <2> QED BY <1>6, <2>1 DEF get_endpoint_incidents
<1> HIDE DEF W, D, P, U, C
<1>9. Cardinality(D) = Cardinality(C) + Cardinality(B)
  <2> HIDE DEF B
  <2>1. Cardinality(C \cup B) = Cardinality(C) + Cardinality(B) - Cardinality(C \cap B)
    BY <1>5, FS_Union
  <2>2. Cardinality(C) \in Nat /\ Cardinality(B) \in Nat /\ Cardinality(C \cap B) = 0
    BY <1>4, <1>5, FS_CardinalityType, FS_EmptySet
  <2> QED BY <1>4, <2>1, <2>2
<1>10. Cardinality(P) - Cardinality(U) = Cardinality(C)
  <2>1. Cardinality(C \cup U) = Cardinality(C) + Cardinality(U) - Cardinality(C \cap U)
    BY <1>5, FS_Union
  <2>2. Cardinality(C) \in Nat /\ Cardinality(U) \in Nat /\ Cardinality(C \cap U) = 0
    BY <1>3, <1>5, FS_CardinalityType, FS_EmptySet
  <2> QED BY <1>3, <2>1, <2>2
<1> QED BY <1>7, <1>8, <1>9, <1>10 DEF W

\* For any number of checks, retries and faults, in whatever order rows were
\* committed and ties are sorted, and however many are committed between the two
\* statements: every check that the summary does not count as up is counted by
\* exactly one incident, and so is every failure recorded since, and nothing else.
THEOREM SummaryIsIncidents == Spec => []SummaryMatchesIncidents
BY TypeCorrect, SummaryFromTypes, PTL
=============================================================================
