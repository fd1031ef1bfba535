------------------------------ MODULE Analytics ------------------------------
(***************************************************************************)
(* GET /endpoints/{id}/analytics over the rows that the pipeline records:  *)
(* get_endpoint_summary and get_endpoint_incidents, as far as the counts   *)
(* and the incidents go. The route only reads, so the queries are          *)
(* operators on the table and their properties are asked of every table    *)
(* there can be, with rows that were committed out of order or twice.      *)
(* CheckedAt is the task's number, a row is known by its place in results. *)
(* The route runs two statements and each takes a snapshot of its own: the *)
(* first sees as many rows, n, as were committed by then.                  *)
(***************************************************************************)
EXTENDS AlertPipeline, FiniteSetsExt

CheckedAt(i) == results[i].task

\* checked_at >= now() - INTERVAL '7 days', with the window beginning at since.
InWindow(since) == {i \in DOMAIN results : CheckedAt(i) >= since}

\* status_code BETWEEN 200 AND 399
Between(code) == 200 <= code /\ code <= 399

\* Mutant: the answer to NULL BETWEEN 200 AND 399 is NULL, and so is NOT NULL.
DownIfAnswered(i) ==
  results[i].status # NoResponse /\ ~Between(results[i].status)

\* NOT is_up: made a real boolean first, so that no response is down.
IsDown(i) == ~(results[i].status # NoResponse /\ Between(results[i].status))

\* FILTER (WHERE status_code BETWEEN 200 AND 399): NULL does not count.
CountedUp(i) == results[i].status # NoResponse /\ Between(results[i].status)
-----------------------------------------------------------------------------
(* get_endpoint_summary *)

total_checks(n, since) == Cardinality({i \in InWindow(since) : i <= n})
up_checks(n, since)    == Cardinality({i \in InWindow(since) : i <= n /\ CountedUp(i)})
-----------------------------------------------------------------------------
(* get_endpoint_incidents *)

\* The rows in an order that ORDER BY checked_at allows: ties come anyhow.
Ordered(since) ==
  LET rows == InWindow(since)
      n == Cardinality(rows)
  IN {s \in [1..n -> rows] :
        \A k \in 2..n : \A j \in 1..(k - 1) : s[j] # s[k] /\ CheckedAt(s[j]) <= CheckedAt(s[k])}

\* Mutant: WHERE NOT is_up comes before lag(), so only the first failure is a change.
ChangesAmongDown(s) == {k \in DOMAIN s : IsDown(s[k]) /\ \A j \in 1..(k - 1) : ~IsDown(s[j])}

\* is_up IS DISTINCT FROM prev_is_up: the first row has no previous one.
Changes(s) == {k \in DOMAIN s : k = 1 \/ (IsDown(s[k]) # IsDown(s[k - 1]))}

\* count(*) FILTER (...) OVER (ORDER BY checked_at): the frame of the k-th row
\* takes in all rows of its checked_at.
run_id(s, changes, k) == Cardinality({m \in changes : CheckedAt(s[m]) <= CheckedAt(s[k])})

\* WHERE NOT is_up GROUP BY run_id: the rows of every group.
Groups(s) ==
  LET changes == Changes(s)
      down == {k \in DOMAIN s : IsDown(s[k])}
      id   == [k \in down |-> run_id(s, changes, k)]
  IN {{s[j] : j \in {m \in down : id[m] = id[k]}} : k \in down}

Incident(rows) == [started_at |-> Min({CheckedAt(i) : i \in rows}),
                   ended_at   |-> Max({CheckedAt(i) : i \in rows}),
                   checks     |-> Cardinality(rows)]

get_endpoint_incidents(s) == {Incident(rows) : rows \in Groups(s)}

\* The answer: the summary of the first n rows, the incidents of the rows s that are
\* there when the second statement runs. The window begins at the same time for both:
\* now() is that of the transaction that get_current_user began. (While the endpoint
\* is there, rows of the window are only added, the purge takes those of RETENTION_DAYS
\* ago. The deletion of the endpoint in between is left out.)
get_analytics(n, since, s) ==
  [total_checks |-> total_checks(n, since), up_checks |-> up_checks(n, since),
   incidents |-> get_endpoint_incidents(s)]
-----------------------------------------------------------------------------
(* Safety *)

\* An incident is an outage, whatever the order of ties and commits: failures with
\* a success in between are listed apart, and failures with no success from the one
\* to the other together.
IncidentsAreOutages ==
  \A since \in Task : \A s \in Ordered(since) :
    LET groups == Groups(s)
        up == {i \in InWindow(since) : ~IsDown(i)}
    IN \A i, j \in InWindow(since) \ up : CheckedAt(i) <= CheckedAt(j) =>
         /\ (\E m \in up : CheckedAt(i) < CheckedAt(m) /\ CheckedAt(m) < CheckedAt(j))
              => ~ \E rows \in groups : {i, j} \subseteq rows
         /\ (\A m \in up : ~(CheckedAt(i) <= CheckedAt(m) /\ CheckedAt(m) <= CheckedAt(j)))
              => \E rows \in groups : {i, j} \subseteq rows

\* The incidents list the failures that the summary counts, and beyond them just the
\* failures that were recorded between the two statements: no failure is lost on the
\* way, least of all one without an answer, which is neither up nor down for SQL.
SummaryMatchesIncidents ==
  \A since \in Task : \A s \in Ordered(since), n \in 0..Len(results) :
    LET page == get_analytics(n, since, s)
        between == {i \in InWindow(since) \cap FailedRows : i > n}
    IN MapThenSumSet(LAMBDA x : x.checks, page.incidents)
         = (page.total_checks - page.up_checks) + Cardinality(between)

\* The rows were committed in the order of checked_at.
InOrder == \A i, j \in DOMAIN results : i < j => CheckedAt(i) < CheckedAt(j)

\* What was announced can be found on the page: a down alert comes with a check
\* that an incident lists as at least the threshold-th, a recovery with the
\* first success after an incident in which a down alert was issued. (The alert
\* counts in the order of commits, the page in that of checked_at.)
NoticesMatchIncidents ==
  InOrder => \A n \in VisibleNotices, s \in Ordered(0) :
    \/ /\ n.kind = "down"
       /\ \E rows \in Groups(s) :
            /\ n.at \in rows
            /\ Cardinality({i \in rows : i <= n.at}) >= config[n.config].threshold
    \/ /\ n.kind = "recovery"
       /\ \E rows \in Groups(s) :
            /\ n.at - 1 \in rows /\ n.at \notin rows
            /\ \E d \in VisibleNotices : /\ d.kind = "down" /\ d.config = n.config
                                         /\ d.at \in rows
=============================================================================
