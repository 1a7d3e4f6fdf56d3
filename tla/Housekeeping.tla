----------------------------- MODULE Housekeeping -----------------------------
(***************************************************************************)
(* What grows old: discards and disk reports with the workers that clean   *)
(* them up (tracker/workers.py, health/workers.py), access URLs that       *)
(* expire, and the alerts that are worked out from all of them each time   *)
(* somebody asks (reports, health and facebook_pacs).                      *)
(*                                                                         *)
(* Each clean-up runs on the supervisor's thread, deletes what is past its *)
(* retention in one statement, and then notes in memory when it ran; a     *)
(* failure on the way leaves the note as it was and a restart loses it.    *)
(* An alert is read from what the tables still hold, so a clean-up decides *)
(* what an alert can know.                                                 *)
(*                                                                         *)
(* Time is how old things are, in ticks, up to the age from which nothing  *)
(* depends on it; the spans are constants, in ticks.  The parts share the  *)
(* clock and nothing else.                                                 *)
(***************************************************************************)
EXTENDS Integers, Sequences, FiniteSets

CONSTANTS
  Windows,      \* DISCARD_WINDOW_SECONDS: the spans discards are counted over
  Retention,    \* DISCARD_RETENTION_SECONDS
  Period,       \* DISCARD_CLEANUP_PERIOD_SECONDS
  StaleAfter,   \* DISK_UTILIZATION_STALE_AFTER_SECONDS
  History,      \* DISK_UTILIZATION_HISTORY_RETENTION_DAYS
  HistoryPeriod,\* DISK_UTILIZATION_HISTORY_CLEANUP_PERIOD_SECONDS
  Level,        \* how full the disk may be
  Soon,         \* ACCESS_URL_EXPIRING_SOON_DAYS
  Portfolio,    \* business portfolios
  Lifetime,     \* how long access URLs may be made to last: 0 is over already
  NoUrl,        \* no row
  NotYet,       \* the worker has not run since the process started
  Never,        \* the host has not reported
  MaxVisits, MaxReports, MaxUrls   \* bounds

ASSUME SpansAssumption ==
  /\ Retention \in Nat /\ Period \in Nat
  /\ StaleAfter \in Nat /\ History \in Nat /\ HistoryPeriod \in Nat
  /\ Windows \subseteq 0..Retention
  /\ StaleAfter <= History
  /\ Soon \in Nat /\ Lifetime \subseteq Nat
  /\ Level \subseteq {"normal", "warning", "critical"}

ASSUME LimitsAssumption ==
  MaxVisits \in Nat \ {0} /\ MaxReports \in Nat /\ MaxUrls \in Nat

\* A visit: its click, and the discard of one that was turned away until the
\* clean-up deletes it; turning: the request has stored the click only.
Visit == [age : 0..(Retention + 1),
          discard : {"none", "turning", "kept", "deleted"}]
Report == [age : 0..(History + 1), level : Level]
Url == [of : Portfolio, left : Nat]

ASSUME AbsentAssumption ==
  /\ NoUrl \notin Url /\ NotYet \notin Int /\ Never \notin Report

VARIABLES
  visits,     \* tables track_click and track_discard, in the order of arrival
  swept,      \* cleanup_discard_worker: ticks since it ran
  reports,    \* table health_disk_utilization, in the order of arrival
  cleaned,    \* cleanup_disk_utilization_worker: ticks since it ran
  last,       \* history: the host's latest report
  urls        \* table business_portfolio_access_url: id -> row

discarding == <<visits, swept>>
reporting == <<reports, cleaned, last>>
vars == <<discarding, reporting, urls>>

TypeOK ==
  /\ visits \in Seq(Visit)
  /\ swept \in 0..Period \cup {NotYet}
  /\ reports \in Seq(Report)
  /\ cleaned \in 0..HistoryPeriod \cup {NotYet}
  /\ last \in Report \cup {Never}
  /\ urls \in [1..MaxUrls -> Url \cup {NoUrl}]

Init ==
  /\ visits = <<>> /\ swept = NotYet
  /\ reports = <<>> /\ cleaned = NotYet
  /\ last = Never
  /\ urls = [u \in 1..MaxUrls |-> NoUrl]

-----------------------------------------------------------------------------
(* Time, and the loss of the workers' notes.                               *)

Older(age, most) == IF age < most THEN age + 1 ELSE age
Later(note, most) == IF note = NotYet THEN NotYet ELSE Older(note, most)

OlderReport(r) == [r EXCEPT !.age = Older(@, History + 1)]

\* A visitor is turned away at once: the request does not outlast a tick.
Turning == {i \in DOMAIN visits : visits[i].discard = "turning"}
Turned(v, discard) ==
  IF v.discard = "turning" THEN [v EXCEPT !.discard = discard] ELSE v

Tick ==
  /\ Turning = {}
  /\ visits' = [i \in DOMAIN visits |->
                  [visits[i] EXCEPT !.age = Older(@, Retention + 1)]]
  /\ swept' = Later(swept, Period)
  /\ reports' = [i \in DOMAIN reports |-> OlderReport(reports[i])]
  /\ cleaned' = Later(cleaned, HistoryPeriod)
  /\ last' = IF last = Never THEN Never ELSE OlderReport(last)
  /\ urls' = [u \in DOMAIN urls |->
                IF urls[u] = NoUrl \/ urls[u].left = 0 THEN urls[u]
                ELSE [urls[u] EXCEPT !.left = @ - 1]]

\* A request between its two statements leaves a click without a discard.
Restart ==
  /\ visits' = [i \in DOMAIN visits |-> Turned(visits[i], "none")]
  /\ swept' = NotYet /\ cleaned' = NotYet
  /\ UNCHANGED <<reports, last, urls>>

\* Mutant: a worker that has run does not run again.
DueOnce(note, period) == note = NotYet

Due(note, period) == note # NotYet => note >= period

\* Mutant: the worker notes when it is to run next.
StampedAhead == -1

\* What the worker notes is when it started.
Stamped == 0

-----------------------------------------------------------------------------
(* Visits and discards.                                                    *)

\* Mutant: the clean-up takes its period for the retention.
OutdatedByPeriod(age) == age > Period

Outdated(age) == age > Retention

\* Nothing will ask for the visit any more.
Forgettable(v) == v.age > Retention /\ v.discard # "kept"

\* The route stores the click; the one HTTP thread serves a visitor at a time.
Arrive(discard) ==
  /\ Turning = {}
  /\ \/ /\ Len(visits) < MaxVisits
        /\ visits' = Append(visits, [age |-> 0, discard |-> discard])
     \/ /\ Len(visits) = MaxVisits
        /\ Forgettable(Head(visits))
        /\ visits' = Append(Tail(visits), [age |-> 0, discard |-> discard])
  /\ UNCHANGED <<swept, reporting, urls>>

\* Then it turns the visitor away: the discard is stored, or storing it fails.
TurnAway(discard) ==
  /\ Turning # {}
  /\ visits' = [i \in DOMAIN visits |-> Turned(visits[i], discard)]
  /\ UNCHANGED <<swept, reporting, urls>>

Swept(v) ==
  IF v.discard = "kept" /\ Outdated(v.age)
  THEN [v EXCEPT !.discard = "deleted"] ELSE v

\* cleanup_discard_worker; an exception on the way loses the note, not the rows.
SweepDiscards(noted) ==
  /\ Due(swept, Period)
  /\ visits' = [i \in DOMAIN visits |-> Swept(visits[i])]
  /\ swept' = IF noted THEN Stamped ELSE swept
  /\ UNCHANGED <<reporting, urls>>

\* campaign_window_totals and campaign_window_discard_totals.
Visited(w) == {i \in DOMAIN visits : visits[i].age <= w}
Discarded(w) == {i \in Visited(w) : visits[i].discard = "kept"}

-----------------------------------------------------------------------------
(* Disk reports.                                                           *)

Ingest(level) ==
  /\ Len(reports) < MaxReports
  /\ reports' = Append(reports, [age |-> 0, level |-> level])
  /\ last' = [age |-> 0, level |-> level]
  /\ UNCHANGED <<discarding, cleaned, urls>>

\* cleanup_disk_utilization_worker: the oldest reports come first.
CleanReports(noted) ==
  /\ Due(cleaned, HistoryPeriod)
  /\ \E k \in 0..Len(reports) :
       /\ \A i \in 1..Len(reports) : i <= k <=> reports[i].age > History
       /\ reports' = SubSeq(reports, k + 1, Len(reports))
  /\ cleaned' = IF noted THEN Stamped ELSE cleaned
  /\ UNCHANGED <<discarding, last, urls>>

\* Mutant: ordered the other way round.
LatestAscending == reports[1]

\* The latest row by created_at and id.
Latest == reports[Len(reports)]

\* latest_disk_utilization_summary and the alert: without a row nothing is
\* stale, and a stale report hides its level.
DiskAlert ==
  IF reports = <<>> THEN "none"
  ELSE IF Latest.age >= StaleAfter THEN "stale"
  ELSE IF Latest.level = "normal" THEN "none" ELSE Latest.level

-----------------------------------------------------------------------------
(* Access URLs.                                                            *)

\* The URL ends with the first moment of a date, today's or a past one too.
CreateUrl(p, u, left) ==
  /\ urls[u] = NoUrl
  /\ urls' = [urls EXCEPT ![u] = [of |-> p, left |-> left]]
  /\ UNCHANGED <<discarding, reporting>>

\* Deletes nothing, and says nothing, when the URL is another portfolio's.
DeleteUrl(p, u) ==
  /\ urls[u] # NoUrl
  /\ urls[u].of = p
  /\ urls' = [urls EXCEPT ![u] = NoUrl]
  /\ UNCHANGED <<discarding, reporting>>

Status(left) ==
  IF left = 0 THEN "already_expired" ELSE IF left <= Soon THEN "expires_soon" ELSE "in_date"

UrlsOf(p) == {u \in DOMAIN urls : urls[u] # NoUrl /\ urls[u].of = p}
Statuses(p) == {Status(urls[u].left) : u \in UrlsOf(p)}

\* Mutant: an expired URL is reported although another is in date.
UrlAlertExpiredFirst(p) ==
  IF "already_expired" \in Statuses(p) THEN "expired"
  ELSE IF "in_date" \in Statuses(p) THEN "none"
  ELSE IF "expires_soon" \in Statuses(p) THEN "soon" ELSE "missing"

\* collect_business_portfolio_access_url_alerts.
UrlAlert(p) ==
  IF "in_date" \in Statuses(p) THEN "none"
  ELSE IF "expires_soon" \in Statuses(p) THEN "soon"
  ELSE IF "already_expired" \in Statuses(p) THEN "expired" ELSE "missing"

Next ==
  \/ Tick
  \/ Restart
  \/ \E discard \in {"none", "turning"} : Arrive(discard)
  \/ \E discard \in {"none", "kept"} : TurnAway(discard)
  \/ \E noted \in BOOLEAN : SweepDiscards(noted)
  \/ \E level \in Level : Ingest(level)
  \/ \E noted \in BOOLEAN : CleanReports(noted)
  \/ \E p \in Portfolio, u \in 1..MaxUrls :
       \/ \E left \in Lifetime : CreateUrl(p, u, left)
       \/ DeleteUrl(p, u)

\* Time passes, a request ends, and a worker that is due runs to its end sooner
\* or later.
Fairness ==
  /\ WF_vars(Tick)
  /\ WF_vars(\E discard \in {"none", "kept"} : TurnAway(discard))
  /\ WF_vars(SweepDiscards(TRUE))
  /\ WF_vars(CleanReports(TRUE))

Spec == Init /\ [][Next]_vars /\ Fairness

-----------------------------------------------------------------------------
(* Properties.                                                             *)

\* No clean-up, after whatever failures and restarts, takes a discard one of
\* the alert's windows still counts: its counts are the discards ever stored.
DiscardsAreCounted ==
  \A w \in Windows :
    Discarded(w) = {i \in Visited(w) : visits[i].discard \in {"kept", "deleted"}}

\* The disk alert is about the latest report the host ever made: its level, or
\* that it is old.  Only when the clean-up has taken that report, because the
\* host has been silent for the whole history, is nothing said any more.
DiskAlertFits ==
  \/ last = Never /\ DiskAlert = "none"
  \/ /\ last # Never /\ last.age < StaleAfter
     /\ DiskAlert = (IF last.level = "normal" THEN "none" ELSE last.level)
  \/ /\ last # Never /\ last.age >= StaleAfter
     /\ DiskAlert = "stale" \/ (reports = <<>> /\ last.age > History)

\* The alert on a portfolio's access URLs is decided by the one that lasts
\* longest, whatever has expired beside it.
AlertFitsLastUrl ==
  \A p \in Portfolio :
    \/ UrlsOf(p) = {} /\ UrlAlert(p) = "missing"
    \/ \E u \in UrlsOf(p) :
         LET left == urls[u].left IN
         /\ \A v \in UrlsOf(p) : urls[v].left <= left
         /\ UrlAlert(p) = IF left = 0 THEN "expired"
                          ELSE IF left <= Soon THEN "soon" ELSE "none"

\* The tables are free of outdated rows again and again, however often the
\* process restarts: a lost note makes a worker due, it does not put it off.
OutdatedRowsGo ==
  /\ []<>(\A i \in DOMAIN visits :
            Outdated(visits[i].age) => visits[i].discard # "kept")
  /\ []<>(\A i \in DOMAIN reports : reports[i].age <= History)
=============================================================================
