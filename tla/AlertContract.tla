---------------------------- MODULE AlertContract ----------------------------
(***************************************************************************)
(* What the alert pipeline promises the owner of an endpoint, with no      *)
(* processes, queues or transactions: a recorded check updates the streak  *)
(* and the flag of every watched config and issues its notices, all at     *)
(* once; giving up a notice clears the flag so that the next failure is    *)
(* announced again.                                                        *)
(***************************************************************************)
EXTENDS Integers, Sequences, TLAPS

CONSTANTS Config, Threshold

VARIABLES
  history,    \* the outcome of every recorded check: TRUE for up
  threshold,  \* failures in a row that config c announces
  watched,    \* the configs that exist
  streak,     \* failures in a row so far
  sent,       \* the running outage was announced
  notices     \* every notice: its config, the check that issued it, its kind

cvars == <<history, threshold, watched, streak, sent, notices>>

Notice == [config: Config, at: Nat, kind: {"down", "recovery"}]

CInit ==
  /\ history = <<>>
  /\ threshold \in [Config -> Threshold]
  /\ watched \in SUBSET Config
  /\ streak = [c \in Config |-> 0]
  /\ sent = [c \in Config |-> FALSE]
  /\ notices = {}

Announces(c) == ~sent[c] /\ streak[c] + 1 >= threshold[c]

Issued(C, kind) == {[config |-> c, at |-> Len(history) + 1, kind |-> kind] : c \in C}

CheckUp ==
  /\ history' = Append(history, TRUE)
  /\ streak' = [c \in Config |-> IF c \in watched THEN 0 ELSE streak[c]]
  /\ sent' = [c \in Config |-> IF c \in watched THEN FALSE ELSE sent[c]]
  /\ notices' = notices \cup Issued({c \in watched : sent[c]}, "recovery")
  /\ UNCHANGED <<threshold, watched>>

CheckDown ==
  /\ history' = Append(history, FALSE)
  /\ streak' = [c \in Config |-> IF c \in watched THEN streak[c] + 1 ELSE streak[c]]
  /\ sent' = [c \in Config |-> sent[c] \/ (c \in watched /\ Announces(c))]
  /\ notices' = notices \cup Issued({c \in watched : Announces(c)}, "down")
  /\ UNCHANGED <<threshold, watched>>

GiveUp(c) ==
  /\ sent[c]
  /\ sent' = [sent EXCEPT ![c] = FALSE]
  /\ UNCHANGED <<history, threshold, watched, streak, notices>>

Unwatch(c) ==
  /\ c \in watched
  /\ watched' = watched \ {c}
  /\ streak' = [streak EXCEPT ![c] = 0]
  /\ sent' = [sent EXCEPT ![c] = FALSE]
  /\ UNCHANGED <<history, threshold, notices>>

\* The endpoint goes, and with it its configs, its history and what the notices
\* were about.
Forget ==
  /\ history' = <<>>
  /\ watched' = {}
  /\ streak' = [c \in Config |-> 0]
  /\ sent' = [c \in Config |-> FALSE]
  /\ notices' = {}
  /\ UNCHANGED threshold

CNext ==
  \/ CheckUp
  \/ CheckDown
  \/ Forget
  \/ \E c \in Config : GiveUp(c) \/ Unwatch(c)

CSpec == CInit /\ [][CNext]_cvars
-----------------------------------------------------------------------------
\* A down notice comes with a failure, at the end of a run of recorded failures
\* at least as long as the config's threshold (which may be less than one).
DownEndsRun ==
  \A n \in notices : n.kind = "down" =>
    \A i \in {n.at} \cup (n.at - threshold[n.config] + 1)..n.at :
      i \in DOMAIN history /\ ~history[i]

\* A recovery notice comes with the first success after an announced failure:
\* there is a down notice of the same config and nothing but failures from it
\* up to the recovery.
RecoveryEndsOutage ==
  \A n \in notices : n.kind = "recovery" =>
    /\ history[n.at]
    /\ \E d \in notices : /\ d.kind = "down" /\ d.config = n.config /\ d.at < n.at
                          /\ \A i \in d.at..(n.at - 1) : ~history[i]
-----------------------------------------------------------------------------
(* Why the promises are kept *)

CTypeOK ==
  /\ history \in Seq(BOOLEAN)
  /\ threshold \in [Config -> Threshold]
  /\ watched \subseteq Config
  /\ streak \in [Config -> Nat]
  /\ sent \in [Config -> BOOLEAN]
  /\ notices \subseteq Notice
  /\ \A n \in notices : n.at \in 1..Len(history)

\* Checks from..to of history h were recorded and failed.
Failed(h, from, to) == \A i \in from..to : i \in 1..Len(h) /\ h[i] = FALSE

\* The streak is the number of failures that the history ends with, or less.
StreakIsRun ==
  \A c \in Config : Failed(history, Len(history) - streak[c] + 1, Len(history))

\* The flag stands for a notice with nothing but failures since.
SentIsAnnounced ==
  \A c \in Config : sent[c] =>
    \E d \in notices : d.kind = "down" /\ d.config = c /\ Failed(history, d.at, Len(history))

\* A config that nobody watches counts and announces nothing.
UnwatchedIsClear == \A c \in Config \ watched : streak[c] = 0 /\ ~sent[c]

\* The down notice that recovery notice n answers.
Answered(h, N, n) ==
  /\ h[n.at] = TRUE
  /\ \E d \in N : d.kind = "down" /\ d.config = n.config /\ d.at < n.at
                  /\ Failed(h, d.at, n.at - 1)

CInv ==
  /\ CTypeOK /\ StreakIsRun /\ SentIsAnnounced /\ UnwatchedIsClear
  /\ \A n \in notices : n.kind = "down" =>
       /\ Failed(history, n.at, n.at)
       /\ Failed(history, n.at - threshold[n.config] + 1, n.at)
  /\ \A n \in notices : n.kind = "recovery" => Answered(history, notices, n)

\* The types hold at first and after every step.
LEMMA CTypes ==
  ASSUME Threshold \subseteq Int
  PROVE  /\ CInit => CTypeOK
         /\ CTypeOK /\ [CNext]_cvars => CTypeOK'
<1>1. CInit => CTypeOK
  BY DEF CInit, CTypeOK
<1>2. ASSUME CTypeOK, [CNext]_cvars PROVE CTypeOK'
  <2> USE <1>2 DEF CTypeOK
  <2>1. ASSUME NEW up \in BOOLEAN, history' = Append(history, up),
               NEW C \in SUBSET Config, NEW kind \in {"down", "recovery"},
               notices' = notices \cup Issued(C, kind)
        PROVE  /\ history' \in Seq(BOOLEAN) /\ notices' \subseteq Notice
               /\ \A n \in notices' : n.at \in 1..Len(history')
    <3>1. history' \in Seq(BOOLEAN) /\ Len(history') = Len(history) + 1 /\ Len(history) \in Nat
      BY <2>1
    <3>2. \A n \in Issued(C, kind) : n \in Notice /\ n.at = Len(history) + 1
      BY <2>1, <3>1 DEF Issued, Notice
    <3> QED BY <2>1, <3>1, <3>2
  <2>2. CASE CheckUp
    <3>1. {c \in watched : sent[c]} \in SUBSET Config
      OBVIOUS
    <3> QED BY <2>1, <2>2, <3>1 DEF CheckUp
  <2>3. CASE CheckDown
    <3>1. {c \in watched : Announces(c)} \in SUBSET Config
      OBVIOUS
    <3>2. sent' \in [Config -> BOOLEAN]
      BY <2>3 DEF CheckDown
    <3>3. streak' \in [Config -> Nat]
      BY <2>3 DEF CheckDown
    <3> QED BY <2>1, <2>3, <3>1, <3>2, <3>3 DEF CheckDown
  <2>4. CASE Forget
    BY <2>4 DEF Forget
  <2>5. ASSUME NEW c \in Config, GiveUp(c) \/ Unwatch(c) PROVE CTypeOK'
    <3>1. CASE GiveUp(c)
      BY <3>1 DEF GiveUp
    <3>2. CASE Unwatch(c)
      BY <3>2 DEF Unwatch
    <3> QED BY <2>5, <3>1, <3>2
  <2>6. CASE UNCHANGED cvars
    BY <2>6 DEF cvars
  <2> QED BY <1>2, <2>2, <2>3, <2>4, <2>5, <2>6 DEF CNext
<1> QED BY <1>1, <1>2

\* What was recorded stays recorded.
LEMMA RecordExtends ==
  ASSUME NEW h \in Seq(BOOLEAN), NEW up \in BOOLEAN, NEW g, g = Append(h, up)
  PROVE  /\ Len(h) \in Nat /\ Len(g) = Len(h) + 1 /\ g[Len(h) + 1] = up
         /\ \A i \in 1..Len(h) : g[i] = h[i]
         /\ \A from, to \in Int : to <= Len(h) /\ Failed(h, from, to) => Failed(g, from, to)
BY DEF Failed

\* An answered recovery stays answered.
LEMMA AnsweredExtends ==
  ASSUME CTypeOK, NEW up \in BOOLEAN, history' = Append(history, up), notices \subseteq notices',
         NEW n \in notices, Answered(history, notices, n)
  PROVE  Answered(history', notices', n)
<1>1. PICK d \in notices : /\ d.kind = "down" /\ d.config = n.config /\ d.at < n.at
                           /\ Failed(history, d.at, n.at - 1)
  BY DEF Answered
<1>2. n.at \in 1..Len(history) /\ d.at \in 1..Len(history) /\ history \in Seq(BOOLEAN)
  BY DEF CTypeOK
<1>3. /\ Len(history) \in Nat
      /\ \A i \in 1..Len(history) : history'[i] = history[i]
      /\ \A from, to \in Int : to <= Len(history) /\ Failed(history, from, to)
                             => Failed(history', from, to)
  BY <1>2 DEF Failed
<1>4. Failed(history', d.at, n.at - 1)
  BY <1>1, <1>2, <1>3
<1> QED BY <1>1, <1>2, <1>3, <1>4 DEF Answered

\* A recorded success ends every streak and every announced outage.
LEMMA CheckUpKeeps ==
  ASSUME Threshold \subseteq Int, CInv, CheckUp, CTypeOK'
  PROVE  CInv'
<1> DEFINE k == Len(history)
<1> HIDE DEF k
<1>1. /\ CTypeOK /\ history \in Seq(BOOLEAN) /\ history' = Append(history, TRUE)
      /\ threshold' = threshold /\ watched' = watched /\ notices \subseteq notices'
  BY DEF CheckUp, CInv, CTypeOK
<1>2. /\ k \in Nat /\ Len(history') = k + 1 /\ history'[k + 1] = TRUE
      /\ \A from, to \in Int : to <= k /\ Failed(history, from, to) => Failed(history', from, to)
  BY <1>1, RecordExtends DEF k
<1>3. ASSUME NEW c \in Config PROVE streak'[c] = 0 /\ ~sent'[c]
  BY DEF CheckUp, UnwatchedIsClear, CInv, CTypeOK
<1>4. StreakIsRun' /\ SentIsAnnounced' /\ UnwatchedIsClear'
  BY <1>2, <1>3 DEF StreakIsRun, SentIsAnnounced, UnwatchedIsClear, Failed
<1>5. ASSUME NEW n \in notices', n \notin notices
      PROVE  /\ n.kind = "recovery" /\ n.at = k + 1
             /\ n.config \in Config /\ sent[n.config]
  BY <1>1, <1>5 DEF CheckUp, Issued, k, CTypeOK
<1>6. ASSUME NEW n \in notices, n.kind = "down"
      PROVE  /\ Failed(history', n.at, n.at)
             /\ Failed(history', n.at - threshold[n.config] + 1, n.at)
  <2>1. n.at \in 1..k /\ threshold[n.config] \in Int
    BY <1>1 DEF CTypeOK, Notice, k
  <2> QED BY <1>2, <1>6, <2>1 DEF CInv
<1>7. ASSUME NEW n \in notices', n.kind = "recovery"
      PROVE  Answered(history', notices', n)
  <2>1. CASE n \in notices
    BY <1>1, <1>7, <2>1, AnsweredExtends DEF CInv
  <2>2. CASE n \notin notices
    <3>1. PICK d \in notices : /\ d.kind = "down" /\ d.config = n.config
                               /\ Failed(history, d.at, k)
      BY <1>5, <2>2 DEF SentIsAnnounced, CInv, k
    <3>2. d.at \in 1..k
      BY <1>1 DEF CTypeOK, k
    <3>3. Failed(history', d.at, n.at - 1) /\ d.at < n.at
      BY <1>2, <1>5, <2>2, <3>1, <3>2
    <3> QED BY <1>1, <1>2, <1>5, <2>2, <3>1, <3>3 DEF Answered
  <2> QED BY <2>1, <2>2
<1> QED BY <1>1, <1>4, <1>5, <1>6, <1>7 DEF CInv

\* A recorded failure lengthens the streaks, and is announced once they are long enough.
LEMMA CheckDownKeeps ==
  ASSUME Threshold \subseteq Int, CInv, CheckDown, CTypeOK'
  PROVE  CInv'
<1> DEFINE k == Len(history)
<1> HIDE DEF k
<1>1. /\ CTypeOK /\ history \in Seq(BOOLEAN) /\ history' = Append(history, FALSE)
      /\ threshold' = threshold /\ watched' = watched /\ notices \subseteq notices'
  BY DEF CheckDown, CInv, CTypeOK
<1>2. /\ k \in Nat /\ Len(history') = k + 1 /\ history'[k + 1] = FALSE
      /\ \A from, to \in Int : to <= k /\ Failed(history, from, to) => Failed(history', from, to)
  BY <1>1, RecordExtends DEF k
<1>3. ASSUME NEW from \in Int, Failed(history, from, k)
      PROVE  Failed(history', from, k + 1)
  <2>1. Failed(history', from, k)
    BY <1>2, <1>3
  <2> QED BY <1>2, <2>1 DEF Failed
<1>4. ASSUME NEW c \in Config
      PROVE  /\ streak[c] \in Nat /\ threshold[c] \in Int
             /\ streak'[c] = IF c \in watched THEN streak[c] + 1 ELSE 0
  BY <1>1 DEF CheckDown, UnwatchedIsClear, CInv, CTypeOK
<1>5. ASSUME NEW c \in Config
      PROVE  Failed(history', k + 1 - streak'[c] + 1, k + 1)
  <2>1. CASE c \in watched
    <3>1. streak[c] \in Nat /\ Failed(history, k - streak[c] + 1, k)
      BY <1>4 DEF StreakIsRun, CInv, k
    <3>2. Failed(history', k - streak[c] + 1, k + 1)
      BY <1>2, <1>3, <3>1
    <3>3. k - streak[c] + 1 = k + 1 - streak'[c] + 1
      BY <1>2, <1>4, <2>1
    <3> QED BY <3>2, <3>3
  <2>2. CASE c \notin watched
    BY <1>2, <1>4, <2>2 DEF Failed
  <2> QED BY <2>1, <2>2
<1>6. StreakIsRun'
  <2>1. ASSUME NEW c \in Config
        PROVE  Failed(history', Len(history') - streak'[c] + 1, Len(history'))
    <3>1. Len(history') = k + 1 /\ k \in Nat /\ streak'[c] \in Nat
      BY <1>2, <1>4
    <3>2. Failed(history', k + 1 - streak'[c] + 1, k + 1)
      BY <1>5
    <3> QED BY <3>1, <3>2
  <2> QED BY <2>1 DEF StreakIsRun
<1>7. ASSUME NEW n \in notices', n \notin notices
      PROVE  /\ n.kind = "down" /\ n.at = k + 1 /\ n.config \in Config
             /\ n.config \in watched /\ streak[n.config] + 1 >= threshold[n.config]
  BY <1>1, <1>7 DEF CheckDown, Issued, Announces, k, CTypeOK
<1>8. ASSUME NEW c \in Config, sent'[c]
      PROVE  \E d \in notices' : /\ d.kind = "down" /\ d.config = c
                                 /\ Failed(history', d.at, k + 1)
  <2>1. CASE sent[c]
    <3>1. PICK d \in notices : d.kind = "down" /\ d.config = c /\ Failed(history, d.at, k)
      BY <2>1 DEF SentIsAnnounced, CInv, k
    <3>2. d.at \in Int
      BY <1>1 DEF CTypeOK
    <3> QED BY <1>1, <1>3, <3>1, <3>2
  <2>2. CASE ~sent[c]
    <3>1. c \in watched /\ Announces(c)
      BY <1>8, <2>2 DEF CheckDown
    <3> DEFINE d == [config |-> c, at |-> k + 1, kind |-> "down"]
    <3>2. d \in notices'
      BY <3>1 DEF CheckDown, Issued, k
    <3>3. Failed(history', d.at, k + 1) /\ d.kind = "down" /\ d.config = c
      BY <1>2 DEF Failed
    <3> QED BY <3>2, <3>3
  <2> QED BY <2>1, <2>2
<1>9. SentIsAnnounced'
  BY <1>2, <1>8 DEF SentIsAnnounced
<1>10. UnwatchedIsClear'
  BY <1>1 DEF UnwatchedIsClear, CheckDown, CInv, CTypeOK
<1>11. ASSUME NEW n \in notices', n.kind = "down"
       PROVE  /\ Failed(history', n.at, n.at)
              /\ Failed(history', n.at - threshold'[n.config] + 1, n.at)
  <2>1. CASE n \in notices
    <3>1. n.at \in 1..k /\ threshold[n.config] \in Int
      BY <1>1, <2>1 DEF CTypeOK, Notice, k
    <3>2. /\ Failed(history, n.at, n.at)
          /\ Failed(history, n.at - threshold[n.config] + 1, n.at)
      BY <1>11, <2>1 DEF CInv
    <3>3. /\ Failed(history', n.at, n.at)
          /\ Failed(history', n.at - threshold[n.config] + 1, n.at)
      BY <1>2, <3>1, <3>2
    <3> QED BY <1>1, <3>3
  <2>2. CASE n \notin notices
    <3>1. /\ Failed(history', k + 1 - streak'[n.config] + 1, k + 1)
          /\ streak'[n.config] = streak[n.config] + 1 /\ streak[n.config] \in Nat
          /\ threshold[n.config] \in Int /\ n.at = k + 1
          /\ streak[n.config] + 1 >= threshold[n.config]
      BY <1>4, <1>5, <1>7, <2>2
    <3> QED BY <1>1, <1>2, <3>1 DEF Failed
  <2> QED BY <2>1, <2>2
<1>12. ASSUME NEW n \in notices', n.kind = "recovery"
       PROVE  Answered(history', notices', n)
  <2>1. n \in notices
    BY <1>7, <1>12
  <2> QED BY <1>1, <1>12, <2>1, AnsweredExtends DEF CInv
<1> QED BY <1>6, <1>9, <1>10, <1>11, <1>12 DEF CInv

\* Every step keeps the promises.
LEMMA CStep ==
  ASSUME Threshold \subseteq Int, CInv, [CNext]_cvars
  PROVE  CInv'
<1>0. CTypeOK
  BY DEF CInv
<1>1. CTypeOK'
  BY <1>0, CTypes
<1>2. CASE Forget
  <2>1. /\ Len(history') = 0 /\ notices' = {}
        /\ \A c \in Config : streak'[c] = 0 /\ ~sent'[c]
    BY <1>2 DEF Forget
  <2> QED BY <1>1, <2>1 DEF CInv, StreakIsRun, SentIsAnnounced, UnwatchedIsClear, Failed
<1>3. ASSUME NEW c \in Config, GiveUp(c) \/ Unwatch(c) PROVE CInv'
  <2>1. UNCHANGED <<history, threshold, notices>>
    BY <1>3 DEF GiveUp, Unwatch
  <2>2. \A d \in Config : /\ streak'[d] = streak[d] \/ streak'[d] = 0
                          /\ sent'[d] => sent[d]
    BY <1>0, <1>3 DEF GiveUp, Unwatch, CTypeOK
  <2>3. StreakIsRun'
    <3>1. Len(history) \in Nat /\ Failed(history, Len(history) - 0 + 1, Len(history))
      BY <1>0 DEF CTypeOK, Failed
    <3> QED BY <2>1, <2>2, <3>1 DEF CInv, StreakIsRun
  <2>4. SentIsAnnounced'
    BY <2>1, <2>2 DEF CInv, SentIsAnnounced
  <2>5. UnwatchedIsClear'
    BY <1>0, <1>3 DEF GiveUp, Unwatch, CInv, CTypeOK, UnwatchedIsClear
  <2> QED BY <1>1, <2>1, <2>3, <2>4, <2>5 DEF CInv
<1>4. CASE UNCHANGED cvars
  BY <1>1, <1>4 DEF cvars, CInv, StreakIsRun, SentIsAnnounced, UnwatchedIsClear
<1> QED BY <1>1, <1>2, <1>3, <1>4, CheckUpKeeps, CheckDownKeeps DEF CNext

\* The promises are kept, whatever is given up or no longer watched: a down notice
\* ends a run of failures as long as the threshold, a recovery an announced outage.
THEOREM NoticesAreTrue ==
  ASSUME Threshold \subseteq Int
  PROVE  CSpec => [](DownEndsRun /\ RecoveryEndsOutage)
<1>1. CInit => CInv
  <2> SUFFICES ASSUME CInit PROVE CInv
    OBVIOUS
  <2>1. CTypeOK
    BY CTypes
  <2>2. Len(history) = 0 /\ notices = {} /\ \A c \in Config : streak[c] = 0 /\ ~sent[c]
    BY DEF CInit
  <2> QED BY <2>1, <2>2 DEF CInv, StreakIsRun, SentIsAnnounced, UnwatchedIsClear, Failed
<1>2. CInv /\ [CNext]_cvars => CInv'
  BY CStep
<1>3. CInv => DownEndsRun /\ RecoveryEndsOutage
  BY DEF CInv, CTypeOK, DownEndsRun, RecoveryEndsOutage, Answered, Failed
<1> QED BY <1>1, <1>2, <1>3, PTL DEF CSpec
=============================================================================
