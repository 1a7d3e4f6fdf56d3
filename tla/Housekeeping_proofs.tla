-------------------------- MODULE Housekeeping_proofs --------------------------
(***************************************************************************)
(* Theorems about clean-ups and alerts, for all spans and bounds.          *)
(***************************************************************************)
EXTENDS Housekeeping, FiniteSetTheorems, WellFoundedInduction, SequenceTheorems, TLAPS

-----------------------------------------------------------------------------
(* Types.                                                                  *)

\* Time turns visits, reports and URLs into visits, reports and URLs.
LEMMA TickTyped ==
  ASSUME TypeOK, Tick
  PROVE  /\ visits' \in Seq(Visit) /\ Len(visits') = Len(visits)
         /\ \A i \in 1..Len(visits) :
              /\ visits'[i].discard = visits[i].discard
              /\ visits[i].age \in Nat /\ visits[i].age <= visits'[i].age
         /\ reports' \in Seq(Report) /\ Len(reports') = Len(reports)
         /\ \A i \in 1..Len(reports) : reports'[i] = OlderReport(reports[i])
         /\ last' \in Report \cup {Never}
         /\ last # Never => last \in Report /\ last' = OlderReport(last) /\ last' # Never
         /\ last = Never => last' = Never
         /\ urls' \in [1..MaxUrls -> Url \cup {NoUrl}]
<1>. USE SpansAssumption, AbsentAssumption
<1>1. /\ visits \in [1..Len(visits) -> Visit] /\ Len(visits) \in Nat
      /\ reports \in [1..Len(reports) -> Report] /\ Len(reports) \in Nat
  BY LenProperties DEF TypeOK
<1>2. ASSUME NEW v \in Visit
      PROVE  LET w == [v EXCEPT !.age = Older(@, Retention + 1)] IN
             /\ w \in Visit /\ w.discard = v.discard
             /\ v.age \in Nat /\ v.age <= w.age
  BY DEF Visit, Older
<1>3. ASSUME NEW r \in Report PROVE OlderReport(r) \in Report
  BY DEF Report, Older, OlderReport
<1>4. /\ visits' \in [1..Len(visits) -> Visit]
      /\ \A i \in 1..Len(visits) :
           visits'[i] = [visits[i] EXCEPT !.age = Older(@, Retention + 1)]
  BY <1>1, <1>2 DEF Tick
<1>5. /\ reports' \in [1..Len(reports) -> Report]
      /\ \A i \in 1..Len(reports) : reports'[i] = OlderReport(reports[i])
  BY <1>1, <1>3 DEF Tick
<1>6. /\ visits' \in Seq(Visit) /\ Len(visits') = Len(visits)
      /\ reports' \in Seq(Report) /\ Len(reports') = Len(reports)
  <2>1. visits' \in Seq(Visit) /\ Len(visits') = Len(visits)
    BY <1>1, <1>4
  <2>2. reports' \in Seq(Report) /\ Len(reports') = Len(reports)
    BY <1>1, <1>5
  <2>. QED BY <2>1, <2>2
<1>7. \A i \in 1..Len(visits) :
        /\ visits'[i].discard = visits[i].discard
        /\ visits[i].age \in Nat /\ visits[i].age <= visits'[i].age
  BY <1>1, <1>2, <1>4
<1>8. /\ last' \in Report \cup {Never}
      /\ last # Never => last \in Report /\ last' = OlderReport(last) /\ last' # Never
      /\ last = Never => last' = Never
  BY <1>3 DEF Tick, TypeOK
<1>9. ASSUME NEW u \in 1..MaxUrls PROVE urls'[u] \in Url \cup {NoUrl}
  <2>1. urls'[u] = IF urls[u] = NoUrl \/ urls[u].left = 0 THEN urls[u]
                   ELSE [urls[u] EXCEPT !.left = @ - 1]
    BY DEF Tick, TypeOK
  <2>2. CASE urls[u] = NoUrl
    BY <2>1, <2>2
  <2>3. CASE urls[u] \in Url
    BY <2>1, <2>3 DEF Url
  <2>. QED BY <2>2, <2>3 DEF TypeOK
<1>10. urls' \in [1..MaxUrls -> Url \cup {NoUrl}]
  BY <1>9 DEF Tick, TypeOK
<1>. QED BY <1>5, <1>6, <1>7, <1>8, <1>10

LEMMA ArriveTyped ==
  ASSUME TypeOK, NEW d \in {"none", "turning"}, Arrive(d)
  PROVE  /\ visits' \in Seq(Visit)
         /\ \A i \in 1..Len(visits') :
              \/ visits'[i] = [age |-> 0, discard |-> d]
              \/ \E j \in 1..Len(visits) : visits'[i] = visits[j]
<1> DEFINE new == [age |-> 0, discard |-> d]
<1>1. new \in Visit
  BY SpansAssumption DEF Visit
<1>. HIDE DEF new
<1>2. CASE visits' = Append(visits, new)
  <2>1. /\ visits' \in Seq(Visit)
        /\ Len(visits') = Len(visits) + 1 /\ Len(visits) \in Nat
        /\ \A i \in 1..Len(visits) : visits'[i] = visits[i]
        /\ visits'[Len(visits) + 1] = new
    BY <1>1, <1>2, AppendProperties, LenProperties DEF TypeOK
  <2>2. \A i \in 1..Len(visits') : i \in 1..Len(visits) \/ i = Len(visits) + 1
    BY <2>1
  <2>3. \A i \in 1..Len(visits') :
          visits'[i] = new \/ \E j \in 1..Len(visits) : visits'[i] = visits[j]
    BY <2>1, <2>2
  <2>. QED BY <2>1, <2>3 DEF new
<1>3. CASE Len(visits) = MaxVisits /\ visits' = Append(Tail(visits), new)
  <2>1. visits # <<>>
    BY <1>3, LimitsAssumption
  <2>2. /\ Tail(visits) \in Seq(Visit)
        /\ Len(Tail(visits)) = Len(visits) - 1 /\ Len(visits) \in Nat
        /\ \A i \in 1..Len(Tail(visits)) : Tail(visits)[i] = visits[i + 1]
    BY <2>1, HeadTailProperties, LenProperties DEF TypeOK
  <2>3. /\ visits' \in Seq(Visit)
        /\ Len(visits') = Len(visits)
        /\ \A i \in 1..Len(Tail(visits)) : visits'[i] = Tail(visits)[i]
        /\ visits'[Len(Tail(visits)) + 1] = new
    BY <1>1, <1>3, <2>2, AppendProperties
  <2>4. \A i \in 1..Len(visits') :
          \/ i \in 1..Len(Tail(visits)) /\ i + 1 \in 1..Len(visits)
          \/ i = Len(Tail(visits)) + 1
    <3>1. \A n \in Nat, t \in Int : t = n - 1 =>
            \A i \in 1..n : (i \in 1..t /\ i + 1 \in 1..n) \/ i = t + 1
      OBVIOUS
    <3>2. Len(Tail(visits)) \in Int
      BY <2>2
    <3>. QED BY <2>2, <2>3, <3>1, <3>2
  <2>5. \A i \in 1..Len(visits') :
          visits'[i] = new \/ \E j \in 1..Len(visits) : visits'[i] = visits[j]
    BY <2>2, <2>3, <2>4
  <2>. QED BY <2>3, <2>5 DEF new
<1>. QED BY <1>2, <1>3 DEF Arrive, new

\* Turning a visitor away changes nothing but a discard that was being stored.
LEMMA TurnedTyped ==
  ASSUME TypeOK, NEW d \in {"none", "kept"},
         visits' = [i \in DOMAIN visits |-> Turned(visits[i], d)]
  PROVE  /\ visits' \in Seq(Visit) /\ Len(visits') = Len(visits)
         /\ \A i \in 1..Len(visits) :
              visits'[i].discard = "deleted" => visits'[i] = visits[i]
<1>1. visits \in [1..Len(visits) -> Visit] /\ Len(visits) \in Nat
  BY LenProperties DEF TypeOK
<1>2. ASSUME NEW v \in Visit
      PROVE  /\ Turned(v, d) \in Visit
             /\ Turned(v, d).discard = "deleted" => Turned(v, d) = v
  BY DEF Visit, Turned
<1>3. visits' \in [1..Len(visits) -> Visit]
      /\ \A i \in 1..Len(visits) : visits'[i] = Turned(visits[i], d)
  BY <1>1, <1>2
<1>4. visits' \in Seq(Visit) /\ Len(visits') = Len(visits)
  BY <1>1, <1>3
<1>. QED BY <1>1, <1>2, <1>3, <1>4

LEMMA SweepTyped ==
  ASSUME TypeOK, NEW noted, SweepDiscards(noted)
  PROVE  /\ visits' \in Seq(Visit) /\ Len(visits') = Len(visits)
         /\ \A i \in 1..Len(visits) :
              /\ visits[i].age \in Nat /\ visits'[i].age = visits[i].age
              /\ \/ visits'[i].discard = visits[i].discard
                 \/ visits[i].age > Retention
<1>1. visits \in [1..Len(visits) -> Visit] /\ Len(visits) \in Nat
  BY LenProperties DEF TypeOK
<1>2. ASSUME NEW v \in Visit
      PROVE  /\ Swept(v) \in Visit /\ Swept(v).age = v.age /\ v.age \in Nat
             /\ Swept(v).discard = v.discard \/ v.age > Retention
  BY SpansAssumption DEF Visit, Swept, Outdated
<1>3. visits' \in [1..Len(visits) -> Visit]
      /\ \A i \in 1..Len(visits) : visits'[i] = Swept(visits[i])
  BY <1>1, <1>2 DEF SweepDiscards
<1>4. visits' \in Seq(Visit) /\ Len(visits') = Len(visits)
  BY <1>1, <1>3
<1>. QED BY <1>1, <1>2, <1>3, <1>4

\* The clean-up leaves the last report, or it was outdated and nothing is left.
LEMMA CleanTyped ==
  ASSUME TypeOK, NEW noted, CleanReports(noted)
  PROVE  /\ reports' \in Seq(Report)
         /\ reports # <<>> =>
              \/ reports' = <<>> /\ reports[Len(reports)].age > History
              \/ reports' # <<>> /\ reports'[Len(reports')] = reports[Len(reports)]
         /\ reports = <<>> => reports' = <<>>
<1>1. PICK k \in 0..Len(reports) :
        /\ \A i \in 1..Len(reports) : i <= k <=> reports[i].age > History
        /\ reports' = SubSeq(reports, k + 1, Len(reports))
  BY DEF CleanReports
<1>2. Len(reports) \in Nat /\ reports \in Seq(Report)
  BY LenProperties DEF TypeOK
<1>3. CASE k = Len(reports)
  <2>1. reports' = <<>>
    BY <1>1, <1>2, <1>3, SubSeqEmpty
  <2>2. reports # <<>> => Len(reports) \in 1..Len(reports)
    BY <1>2, EmptySeq
  <2>3. reports' \in Seq(Report)
    BY <2>1, EmptySeq
  <2>. QED BY <1>1, <1>3, <2>1, <2>2, <2>3
<1>4. CASE k < Len(reports)
  <2>1. /\ reports' \in Seq(Report) /\ Len(reports') = Len(reports) - k
        /\ \A i \in 1..(Len(reports) - k) : reports'[i] = reports[k + i]
    BY <1>1, <1>2, <1>4, SubSeqProperties
  <2>2. Len(reports') \in 1..(Len(reports) - k) /\ k + Len(reports') = Len(reports)
    BY <1>2, <1>4, <2>1
  <2>3. reports # <<>> /\ reports' # <<>>
    BY <1>2, <1>4, <2>1, EmptySeq
  <2>. QED BY <1>2, <1>4, <2>1, <2>2, <2>3
<1>5. k = Len(reports) \/ k < Len(reports)
  BY <1>2
<1>. QED BY <1>3, <1>4, <1>5

LEMMA StepTyped == TypeOK /\ [Next]_vars => TypeOK'
<1>. SUFFICES ASSUME TypeOK, [Next]_vars PROVE TypeOK'
  OBVIOUS
<1>. USE DEF discarding, reporting
<1>a. \A n, m \in Nat : m \in 0..n => Older(m, n) \in 0..n
  BY DEF Older
<1>b. Stamped \in 0..Period /\ Stamped \in 0..HistoryPeriod
  BY SpansAssumption DEF Stamped
<1>1. CASE Tick
  <2>1. swept' \in 0..Period \cup {NotYet}
        /\ cleaned' \in 0..HistoryPeriod \cup {NotYet}
    BY <1>1, <1>a, SpansAssumption, AbsentAssumption DEF Tick, TypeOK, Later
  <2>. QED BY <1>1, <2>1, TickTyped DEF TypeOK
<1>2. CASE Restart
  BY <1>2, TurnedTyped DEF Restart, TypeOK
<1>3. ASSUME NEW d \in {"none", "turning"}, Arrive(d) PROVE TypeOK'
  BY <1>3, ArriveTyped DEF Arrive, TypeOK
<1>t. ASSUME NEW d \in {"none", "kept"}, TurnAway(d) PROVE TypeOK'
  BY <1>t, TurnedTyped DEF TurnAway, TypeOK
<1>4. ASSUME NEW noted \in BOOLEAN, SweepDiscards(noted) PROVE TypeOK'
  <2>1. swept' \in {Stamped, swept} /\ UNCHANGED <<reporting, urls>>
    BY <1>4 DEF SweepDiscards
  <2>. QED BY <1>4, <1>b, <2>1, SweepTyped DEF TypeOK
<1>5. ASSUME NEW level \in Level, Ingest(level) PROVE TypeOK'
  <2>1. [age |-> 0, level |-> level] \in Report
    BY SpansAssumption DEF Report
  <2>. QED BY <1>5, <2>1, AppendProperties DEF Ingest, TypeOK
<1>6. ASSUME NEW noted \in BOOLEAN, CleanReports(noted) PROVE TypeOK'
  <2>1. cleaned' \in {Stamped, cleaned} /\ UNCHANGED <<discarding, last, urls>>
    BY <1>6 DEF CleanReports
  <2>. QED BY <1>6, <1>b, <2>1, CleanTyped DEF TypeOK
<1>7. ASSUME NEW p \in Portfolio, NEW u \in 1..MaxUrls, NEW left \in Lifetime,
             CreateUrl(p, u, left)
      PROVE TypeOK'
  BY <1>7, SpansAssumption DEF CreateUrl, TypeOK, Url
<1>8. ASSUME NEW p \in Portfolio, NEW u \in 1..MaxUrls, DeleteUrl(p, u)
      PROVE TypeOK'
  BY <1>8 DEF DeleteUrl, TypeOK
<1>9. CASE UNCHANGED vars
  BY <1>9 DEF vars, TypeOK
<1>. QED BY <1>1, <1>2, <1>3, <1>t, <1>4, <1>5, <1>6, <1>7, <1>8, <1>9 DEF Next

\* Tables and notes keep their types: ages stay within what matters, a note is
\* a time since a run or none.
THEOREM TypeCorrect == Spec => []TypeOK
<1>1. Init => TypeOK
  BY EmptySeq DEF Init, TypeOK
<1>2. TypeOK /\ [Next]_vars => TypeOK'
  BY StepTyped
<1>. QED BY <1>1, <1>2, PTL DEF Spec

-----------------------------------------------------------------------------
(* Discards.                                                               *)

\* What makes DiscardsAreCounted inductive: only outdated discards are deleted.
DeletedAreOutdated ==
  \A i \in 1..Len(visits) :
    visits[i].discard = "deleted" => visits[i].age > Retention

LEMMA StepKeepsDiscards ==
  TypeOK /\ DeletedAreOutdated /\ [Next]_vars => DeletedAreOutdated'
<1>. SUFFICES ASSUME TypeOK, DeletedAreOutdated, [Next]_vars
              PROVE  DeletedAreOutdated'
  OBVIOUS
<1>. USE DEF DeletedAreOutdated
<1>1. CASE Tick
  <2>. SUFFICES ASSUME NEW i \in 1..Len(visits'), visits'[i].discard = "deleted"
                PROVE  visits'[i].age > Retention
    OBVIOUS
  <2>1. i \in 1..Len(visits) /\ visits'[i] \in Visit
    BY <1>1, TickTyped, ElementOfSeq
  <2>2. visits[i].age > Retention /\ visits[i].age \in Nat
        /\ visits[i].age <= visits'[i].age
    BY <1>1, <2>1, TickTyped
  <2>. QED BY <2>1, <2>2, SpansAssumption DEF Visit
<1>2. ASSUME NEW d \in {"none", "turning"}, Arrive(d) PROVE DeletedAreOutdated'
  BY <1>2, ArriveTyped
<1>t. ASSUME NEW d \in {"none", "kept"},
             visits' = [i \in DOMAIN visits |-> Turned(visits[i], d)]
      PROVE  DeletedAreOutdated'
  BY <1>t, TurnedTyped
<1>3. ASSUME NEW noted \in BOOLEAN, SweepDiscards(noted)
      PROVE  DeletedAreOutdated'
  BY <1>3, SweepTyped
<1>4. ASSUME UNCHANGED visits PROVE DeletedAreOutdated'
  BY <1>4
<1>5. \/ Tick
      \/ \E d \in {"none", "turning"} : Arrive(d)
      \/ \E d \in {"none", "kept"} :
           visits' = [i \in DOMAIN visits |-> Turned(visits[i], d)]
      \/ \E noted \in BOOLEAN : SweepDiscards(noted)
      \/ UNCHANGED visits
  BY DEF Next, Restart, TurnAway, Ingest, CleanReports, CreateUrl, DeleteUrl, vars, discarding
<1>. QED BY <1>1, <1>2, <1>t, <1>3, <1>4, <1>5

\* No failure, restart or order of clean-ups takes a discard that a window of
\* the alert counts: the windows are within the retention.
THEOREM DiscardAlertsAreComplete == Spec => []DiscardsAreCounted
<1>1. Init => DeletedAreOutdated
  BY EmptySeq DEF Init, DeletedAreOutdated
<1>2. TypeOK /\ DeletedAreOutdated /\ [Next]_vars => DeletedAreOutdated'
  BY StepKeepsDiscards
<1>3. TypeOK /\ DeletedAreOutdated => DiscardsAreCounted
  <2>. SUFFICES ASSUME TypeOK, DeletedAreOutdated, NEW w \in Windows,
                       NEW i \in Visited(w),
                       visits[i].discard \in {"kept", "deleted"}
                PROVE  visits[i].discard = "kept"
    BY DEF DiscardsAreCounted, Discarded
  <2>1. DOMAIN visits = 1..Len(visits) /\ i \in 1..Len(visits)
    BY LenProperties DEF TypeOK, Visited
  <2>2. visits[i] \in Visit /\ visits[i].age <= w
    BY <2>1, ElementOfSeq DEF TypeOK, Visited
  <2>3. w \in 0..Retention /\ ~(visits[i].age > Retention)
    BY <2>2, SpansAssumption DEF Visit
  <2>. QED BY <2>1, <2>2, <2>3 DEF Visit, DeletedAreOutdated
<1>. QED BY <1>1, <1>2, <1>3, TypeCorrect, PTL DEF Spec

-----------------------------------------------------------------------------
(* Disk reports.                                                           *)

\* What makes DiskAlertFits inductive: the newest row is the latest report, and
\* it is gone only when it was outdated.
ReportsSound ==
  /\ reports # <<>> => last # Never /\ reports[Len(reports)] = last
  /\ reports = <<>> => last = Never \/ last.age > History

LEMMA StepKeepsReports ==
  TypeOK /\ ReportsSound /\ [Next]_vars => ReportsSound'
<1>. SUFFICES ASSUME TypeOK, ReportsSound, [Next]_vars PROVE ReportsSound'
  OBVIOUS
<1>. USE DEF ReportsSound
<1>a. reports # <<>> => Len(reports) \in 1..Len(reports)
  BY EmptySeq, LenProperties DEF TypeOK
<1>1. CASE Tick
  <2>1. reports' = <<>> <=> reports = <<>>
    BY <1>1, TickTyped, EmptySeq DEF TypeOK
  <2>2. ASSUME last # Never, last.age > History PROVE last'.age > History
    BY <1>1, <2>2, TickTyped, SpansAssumption DEF OlderReport, Older, Report
  <2>. QED BY <1>1, <1>a, <2>1, <2>2, TickTyped
<1>2. ASSUME NEW level \in Level, Ingest(level) PROVE ReportsSound'
  <2>1. [age |-> 0, level |-> level] \in Report
    BY SpansAssumption DEF Report
  <2>. QED BY <1>2, <2>1, AppendProperties, AbsentAssumption DEF Ingest, TypeOK
<1>3. ASSUME NEW noted \in BOOLEAN, CleanReports(noted) PROVE ReportsSound'
  <2>1. UNCHANGED last
    BY <1>3 DEF CleanReports
  <2>. QED BY <1>3, <1>a, <2>1, CleanTyped
<1>4. ASSUME UNCHANGED <<reports, last>> PROVE ReportsSound'
  BY <1>4
<1>5. \/ Tick
      \/ \E level \in Level : Ingest(level)
      \/ \E noted \in BOOLEAN : CleanReports(noted)
      \/ UNCHANGED <<reports, last>>
  BY DEF Next, Restart, Arrive, TurnAway, SweepDiscards, CreateUrl, DeleteUrl, vars, reporting
<1>. QED BY <1>1, <1>2, <1>3, <1>4, <1>5

\* The disk alert is about the host's latest report until the clean-up takes
\* that report, and it takes it only after the whole history.
THEOREM DiskAlertIsCurrent == Spec => []DiskAlertFits
<1>1. Init => ReportsSound
  BY DEF Init, ReportsSound
<1>2. TypeOK /\ ReportsSound /\ [Next]_vars => ReportsSound'
  BY StepKeepsReports
<1>3. TypeOK /\ ReportsSound => DiskAlertFits
  <2>. SUFFICES ASSUME TypeOK, ReportsSound PROVE DiskAlertFits
    OBVIOUS
  <2>1. CASE reports = <<>>
    <3>1. DiskAlert = "none"
      BY <2>1 DEF DiskAlert
    <3>2. ASSUME last # Never PROVE last.age > History /\ last.age >= StaleAfter
      BY <2>1, <3>2, SpansAssumption DEF ReportsSound, TypeOK, Report
    <3>. QED BY <2>1, <3>1, <3>2 DEF DiskAlertFits
  <2>2. CASE reports # <<>>
    <3>1. last # Never /\ Latest = last /\ last \in Report
      BY <2>2 DEF ReportsSound, Latest, TypeOK
    <3>2. last.age < StaleAfter \/ last.age >= StaleAfter
      BY <3>1, SpansAssumption DEF Report
    <3>. QED BY <2>2, <3>1, <3>2, SpansAssumption DEF DiskAlertFits, DiskAlert, Report
  <2>. QED BY <2>1, <2>2
<1>. QED BY <1>1, <1>2, <1>3, TypeCorrect, PTL DEF Spec

-----------------------------------------------------------------------------
(* Access URLs.                                                            *)

\* Of finitely many things with a number each, one has the greatest: the one
\* with the fewest above it.
LEMMA Longest ==
  ASSUME NEW n \in Nat, NEW S, S \subseteq 1..n, S # {},
         NEW f, \A j \in S : f[j] \in Nat
  PROVE  \E j \in S : \A k \in S : f[k] <= f[j]
<1>. DEFINE Above(j) == {k \in S : f[k] > f[j]}
            T == {Above(j) : j \in S}
            R == StrictSubsetOrdering(S)
<1>1. IsFiniteSet(S)
  BY FS_Interval, FS_Subset, 1 \in Int, n \in Int
<1>2. IsWellFoundedOn(R, FiniteSubsetsOf(S))
  BY FS_StrictSubsetOrderingWellFounded
<1>3. T \subseteq FiniteSubsetsOf(S) /\ T # {}
  <2>1. ASSUME NEW j \in S
        PROVE  Above(j) \in SUBSET S /\ IsFiniteSet(Above(j))
    <3>1. Above(j) \in SUBSET S
      OBVIOUS
    <3>. HIDE DEF Above
    <3>. QED BY <1>1, <3>1, FS_Subset
  <2>. HIDE DEF Above
  <2>. QED BY <2>1 DEF FiniteSubsetsOf
<1>4. PICK x \in T : \A y \in T : ~(<<y, x>> \in R)
  <2>. HIDE DEF T, R
  <2>. QED BY <1>2, <1>3, WFMin
<1>5. PICK j \in S : x = Above(j)
  BY <1>4
<1>6. ASSUME NEW k \in S, f[k] > f[j] PROVE FALSE
  <2>1. Above(k) \subseteq Above(j)
    <3>. SUFFICES ASSUME NEW y \in S, f[y] > f[k] PROVE f[y] > f[j]
      OBVIOUS
    <3>1. f[y] \in Nat /\ f[k] \in Nat /\ f[j] \in Nat
      OBVIOUS
    <3>. QED BY <1>6, <3>1
  <2>2. k \in Above(j) /\ k \notin Above(k)
    <3>1. f[k] \in Nat
      OBVIOUS
    <3>. QED BY <1>6, <3>1
  <2>3. Above(k) \in SUBSET S /\ Above(j) \in SUBSET S /\ Above(k) \in T
    OBVIOUS
  <2>. HIDE DEF Above, T
  <2>4. <<Above(k), Above(j)>> \in R
    BY <2>1, <2>2, <2>3 DEF StrictSubsetOrdering
  <2>. QED BY <1>4, <1>5, <2>3, <2>4
<1>7. \A k \in S : f[k] \in Nat /\ f[j] \in Nat
  OBVIOUS
<1>. QED BY <1>6, <1>7

\* The alert on a portfolio's access URLs is decided by the one that lasts
\* longest (collect_business_portfolio_access_url_alerts).
THEOREM UrlAlertFits == Spec => []AlertFitsLastUrl
<1>1. TypeOK => AlertFitsLastUrl
  <2>. SUFFICES ASSUME TypeOK, NEW p \in Portfolio
                PROVE  \/ UrlsOf(p) = {} /\ UrlAlert(p) = "missing"
                       \/ \E u \in UrlsOf(p) :
                            LET left == urls[u].left IN
                            /\ \A v \in UrlsOf(p) : urls[v].left <= left
                            /\ UrlAlert(p) = IF left = 0 THEN "expired"
                                             ELSE IF left <= Soon THEN "soon"
                                             ELSE "none"
    BY DEF AlertFitsLastUrl
  <2>1. /\ UrlsOf(p) \subseteq 1..MaxUrls
        /\ \A u \in UrlsOf(p) : urls[u].left \in Nat
    BY DEF TypeOK, UrlsOf, Url
  <2>2. CASE UrlsOf(p) = {}
    BY <2>2 DEF UrlAlert, Statuses
  <2>3. CASE UrlsOf(p) # {}
    <3>. DEFINE f == [u \in UrlsOf(p) |-> urls[u].left]
    <3>1. \E u \in UrlsOf(p) : \A v \in UrlsOf(p) : f[v] <= f[u]
      <4>1. MaxUrls \in Nat /\ \A u \in UrlsOf(p) : f[u] \in Nat
        BY <2>1, LimitsAssumption
      <4>. HIDE DEF f
      <4>. QED BY <2>1, <2>3, <4>1, Longest
    <3>2. PICK u \in UrlsOf(p) : \A v \in UrlsOf(p) : urls[v].left <= urls[u].left
      BY <3>1
    <3>. DEFINE left == urls[u].left
    <3>3. left \in Nat /\ Soon \in Nat
      BY <2>1, SpansAssumption
    <3>4. \A v \in UrlsOf(p) : urls[v].left \in Nat /\ urls[v].left <= left
      BY <2>1, <3>2
    <3>5. Status(left) \in Statuses(p)
      BY DEF Statuses
    <3>6. left = 0 => Statuses(p) = {"already_expired"}
      <4>1. left = 0 => \A v \in UrlsOf(p) : urls[v].left = 0
        BY <3>4
      <4>. QED BY <3>5, <4>1 DEF Statuses, Status
    <3>7. left <= Soon => "in_date" \notin Statuses(p)
      BY <3>3, <3>4 DEF Statuses, Status
    <3>8. UrlAlert(p) = IF left = 0 THEN "expired"
                        ELSE IF left <= Soon THEN "soon" ELSE "none"
      <4>. HIDE DEF left
      <4>. QED BY <3>3, <3>5, <3>6, <3>7 DEF UrlAlert, Status
    <3>. QED BY <3>2, <3>8
  <2>. QED BY <2>2, <2>3
<1>. QED BY <1>1, TypeCorrect, PTL
=============================================================================
