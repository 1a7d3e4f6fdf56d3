----------------------------- MODULE LeadPipeline -----------------------------
(***************************************************************************)
(* From a tracked event to the leads report.                               *)
(*                                                                         *)
(* The HTTP thread (tracker/routes.py, tracker/services.py) stores clicks, *)
(* leads and postbacks, and enqueues a refresh for the click in an         *)
(* in-memory queue (core/supervisor.py).  The supervisor thread runs       *)
(* refresh_report_leads_worker (reports/workers.py), which drains the      *)
(* queue into two sets and upserts report_lead from the tracker tables.    *)
(* The two threads interleave between any two database statements or queue *)
(* calls; a restart of the process loses the queue and what both threads   *)
(* held in memory, and the tables survive it.                              *)
(*                                                                         *)
(* The row of track_postback with primary key i is postbacks[i].  track_   *)
(* click is a set: its rows are only ever looked up by click_id, which is  *)
(* not unique, and nothing orders the rows that share one.                 *)
(***************************************************************************)
EXTENDS Naturals, Sequences

CONSTANTS
  ClickId,       \* the click ids requests may carry
  CampaignId,    \* the campaign ids clicks may name, existing or not
  Terms,         \* campaign settings a postback reads: [mapper, cost]
  External,      \* values of the advertiser's status parameter
  NoMapper,      \* status_mapper is null or has no parameter
  NoExternal,    \* the postback lacks the mapped parameter
  NoCampaign,    \* no row for this campaign id
  NoRow,         \* no report_lead row for this click id
  NoMessage,     \* the HTTP thread is between two requests
  Null,          \* SQL NULL
  MinQueueSize,  \* MIN_QUEUE_SIZE
  MaxPostbacks, MaxLeads, MaxFaults, MaxRestarts   \* bounds of the model

ASSUME BoundsAssumption ==
  /\ MinQueueSize \in Nat
  /\ MaxPostbacks \in Nat /\ MaxLeads \in Nat
  /\ MaxFaults \in Nat /\ MaxRestarts \in Nat

LeadStatus == {"accept", "expect", "reject", "trash"}
TrackSource == {"lead", "postback"}
Message == [id : ClickId, source : TrackSource]

ASSUME TermsAssumption ==
  /\ NoCampaign \notin Terms
  /\ \A t \in Terms : t.cost # Null
  /\ NoMessage \notin Message
  /\ Null \notin LeadStatus

Cost == {t.cost : t \in Terms} \cup {Null}
Click == [id : ClickId, campaign : CampaignId]
Postback == [id : ClickId, status : LeadStatus \cup {Null}, cost : Cost]
\* A report_lead row; src is a history field, the id of the postback whose
\* columns the row carries, 0 for a row a lead created.
ReportRow == [campaign : CampaignId, status : LeadStatus \cup {Null},
              cost : Cost, src : Nat]

ASSUME NoRowAssumption == NoRow \notin ReportRow

VARIABLES
  campaigns,    \* table campaign: CampaignId -> Terms or NoCampaign
  clicks,       \* table track_click
  postbacks,    \* table track_postback, by primary key
  leads,        \* table track_lead, by primary key
  reportLead,   \* table report_lead: ClickId -> ReportRow or NoRow
  queue,        \* the worker's in-memory queue
  pending,      \* HTTP thread: the payload it is about to enqueue
  step,         \* supervisor thread: where the worker is
  leadIds,      \* ... lead_click_ids
  postbackIds,  \* ... postback_click_ids
  rows,         \* ... the rows it selected and is about to upsert
  recent,       \* last_executed_at is set and younger than 10 seconds
  faults, restarts,  \* database errors and restarts so far
  dropped       \* history: refreshes taken on and given up

tables == <<campaigns, clicks, postbacks, leads>>
memory == <<step, leadIds, postbackIds, rows>>
vars == <<tables, reportLead, queue, pending, memory, recent, faults,
          restarts, dropped>>

Refresh(c, s) == [id |-> c, source |-> s]
Refreshes(ids, s) == {Refresh(c, s) : c \in ids}
Queued == {queue[i] : i \in 1..Len(queue)}
ClicksOf(c) == {k \in clicks : k.id = c}
PostbacksOf(c) == {i \in 1..Len(postbacks) : postbacks[i].id = c}
Shown(c) == IF reportLead[c] = NoRow THEN 0 ELSE reportLead[c].src

TypeOK ==
  /\ campaigns \in [CampaignId -> Terms \cup {NoCampaign}]
  /\ clicks \subseteq Click
  /\ postbacks \in Seq(Postback)
  /\ leads \in Seq(ClickId)
  /\ reportLead \in [ClickId -> ReportRow \cup {NoRow}]
  /\ queue \in Seq(Message)
  /\ pending \in Message \cup {NoMessage}
  /\ step \in {"idle", "drain", "leads", "select", "upsert"}
  /\ leadIds \subseteq ClickId
  /\ postbackIds \subseteq ClickId
  /\ DOMAIN rows \subseteq ClickId
  /\ \A c \in DOMAIN rows : rows[c] \in ReportRow
  /\ recent \in BOOLEAN
  /\ faults \in Nat /\ restarts \in Nat
  /\ dropped \subseteq Message

NoRows == [c \in {} |-> NoRow]

Init ==
  /\ campaigns = [k \in CampaignId |-> NoCampaign]
  /\ clicks = {}
  /\ postbacks = <<>>
  /\ leads = <<>>
  /\ reportLead = [c \in ClickId |-> NoRow]
  /\ queue = <<>>
  /\ pending = NoMessage
  /\ step = "idle"
  /\ leadIds = {} /\ postbackIds = {} /\ rows = NoRows
  /\ recent = FALSE
  /\ faults = 0 /\ restarts = 0
  /\ dropped = {}

-----------------------------------------------------------------------------
(* The HTTP thread: one request at a time.                                 *)

\* POST and PATCH of a campaign, as far as postbacks read it.
SaveCampaign(k, t) ==
  /\ pending = NoMessage
  /\ campaigns[k] # t
  /\ campaigns' = [campaigns EXCEPT ![k] = t]
  /\ UNCHANGED <<clicks, postbacks, leads, reportLead, queue, pending,
                 memory, recent, faults, restarts, dropped>>

\* The campaign id comes with the request and is not checked.
TrackClick(c, k) ==
  /\ pending = NoMessage
  /\ clicks' = clicks \cup {[id |-> c, campaign |-> k]}
  /\ UNCHANGED <<campaigns, postbacks, leads, reportLead, queue, pending,
                 memory, recent, faults, restarts, dropped>>

\* Mutant: the mapped value is not checked against LeadStatus.
MapStatusUnchecked(ext, mapper) ==
  IF mapper # NoMapper /\ ext \in DOMAIN mapper THEN mapper[ext] ELSE "trash"

MapStatus(ext, mapper) ==
  IF mapper # NoMapper /\ ext \in DOMAIN mapper /\ mapper[ext] \in LeadStatus
  THEN mapper[ext]
  ELSE "trash"

\* The campaign settings a postback for c may read: those of any one of the
\* clicks that share the id, NoCampaign when there is no click or no campaign.
TermsFor(c) ==
  IF ClicksOf(c) = {} THEN {NoCampaign}
  ELSE {campaigns[k.campaign] : k \in ClicksOf(c)}

\* Mutant: every postback takes the payout, whatever its status.
PostbackAlwaysPaid(c, ext, t) ==
  IF t = NoCampaign THEN [id |-> c, status |-> Null, cost |-> Null]
  ELSE [id |-> c, status |-> MapStatus(ext, t.mapper), cost |-> t.cost]

\* Status and payout are frozen in the postback when it arrives.
PostbackOf(c, ext, t) ==
  LET status == IF t = NoCampaign THEN Null ELSE MapStatus(ext, t.mapper)
  IN [id |-> c, status |-> status,
      cost |-> IF status \in {"accept", "expect"} THEN t.cost ELSE Null]

TrackPostback(c, ext) ==
  /\ pending = NoMessage
  /\ Len(postbacks) < MaxPostbacks
  /\ \E t \in TermsFor(c) :
       postbacks' = Append(postbacks, PostbackOf(c, ext, t))
  /\ pending' = Refresh(c, "postback")
  /\ UNCHANGED <<campaigns, clicks, leads, reportLead, queue, memory, recent,
                 faults, restarts, dropped>>

TrackLead(c) ==
  /\ pending = NoMessage
  /\ Len(leads) < MaxLeads
  /\ leads' = Append(leads, c)
  /\ pending' = Refresh(c, "lead")
  /\ UNCHANGED <<campaigns, clicks, postbacks, reportLead, queue, memory,
                 recent, faults, restarts, dropped>>

\* The handler's last statement: the row is stored, the refresh is queued.
Enqueue ==
  /\ pending # NoMessage
  /\ queue' = Append(queue, pending)
  /\ pending' = NoMessage
  /\ UNCHANGED <<tables, reportLead, memory, recent, faults, restarts,
                 dropped>>

-----------------------------------------------------------------------------
(* The supervisor thread: refresh_report_leads_worker.                     *)

\* Mutant: a small batch waits for more, not for the period.
ThrottledBySize == Len(queue) < MinQueueSize

Throttled == Len(queue) < MinQueueSize /\ recent

\* The ten seconds since the last pass are over.
PeriodElapses ==
  /\ recent
  /\ recent' = FALSE
  /\ UNCHANGED <<tables, reportLead, queue, pending, memory, faults, restarts,
                 dropped>>

WorkerStart ==
  /\ step = "idle"
  /\ queue # <<>>
  /\ ~Throttled
  /\ step' = "drain"
  /\ leadIds' = {} /\ postbackIds' = {} /\ rows' = NoRows
  /\ UNCHANGED <<tables, reportLead, queue, pending, recent, faults, restarts,
                 dropped>>

\* Mutant: the payload's source is ignored.
WorkerGetAsPostback ==
  /\ step = "drain"
  /\ queue # <<>>
  /\ queue' = Tail(queue)
  /\ postbackIds' = postbackIds \cup {Head(queue).id}
  /\ UNCHANGED <<tables, reportLead, pending, step, leadIds, rows, recent,
                 faults, restarts, dropped>>

WorkerGet ==
  /\ step = "drain"
  /\ queue # <<>>
  /\ queue' = Tail(queue)
  /\ IF Head(queue).source = "lead"
     THEN /\ leadIds' = leadIds \cup {Head(queue).id}
          /\ UNCHANGED postbackIds
     ELSE /\ postbackIds' = postbackIds \cup {Head(queue).id}
          /\ UNCHANGED leadIds
  /\ UNCHANGED <<tables, reportLead, pending, step, rows, recent, faults,
                 restarts, dropped>>

WorkerDrained ==
  /\ step = "drain"
  /\ queue = <<>>
  /\ step' = "leads"
  /\ UNCHANGED <<tables, reportLead, queue, pending, leadIds, postbackIds,
                 rows, recent, faults, restarts, dropped>>

\* The row INSERT ... SELECT makes of a click.
LeadRow(k) == [campaign |-> k.campaign, status |-> Null, cost |-> Null,
               src |-> 0]

\* INSERT IGNORE ... SELECT FROM track_click: a first row for each id that has
\* a click and no row, from any of its clicks.
WorkerUpsertLeads ==
  /\ step = "leads"
  /\ LET known == {c \in leadIds : ClicksOf(c) # {}}
         new == {c \in known : reportLead[c] = NoRow}
     IN /\ \E pick \in [new -> clicks] :
             /\ \A c \in new : pick[c].id = c
             /\ reportLead' = [c \in ClickId |->
                  IF c \in new THEN LeadRow(pick[c]) ELSE reportLead[c]]
        /\ dropped' = (dropped \ Refreshes(known, "lead"))
                        \cup Refreshes(leadIds \ known, "lead")
  /\ step' = "select"
  /\ UNCHANGED <<tables, queue, pending, leadIds, postbackIds, rows, recent,
                 faults, restarts>>

\* A database error is logged and the pass goes on; the ids are not requeued.
WorkerUpsertLeadsFails ==
  /\ step = "leads"
  /\ leadIds # {}
  /\ faults < MaxFaults
  /\ faults' = faults + 1
  /\ dropped' = dropped \cup Refreshes(leadIds, "lead")
  /\ step' = "select"
  /\ UNCHANGED <<tables, reportLead, queue, pending, leadIds, postbackIds,
                 rows, recent, restarts>>

\* Mutant: the join is not ordered by the postback's id.
UnorderedJoin(c) ==
  {[campaign |-> k.campaign, status |-> postbacks[i].status,
    cost |-> postbacks[i].cost, src |-> i] :
     k \in ClicksOf(c), i \in PostbacksOf(c)}

\* The rows of the join for c: a click with the newest postback of its id.
LatestJoin(c) ==
  {[campaign |-> k.campaign, status |-> postbacks[i].status,
    cost |-> postbacks[i].cost, src |-> i] :
     k \in ClicksOf(c),
     i \in {n \in PostbacksOf(c) : \A m \in PostbacksOf(c) : m <= n}}

WorkerSelect ==
  /\ step = "select"
  /\ LET joined == {c \in postbackIds : LatestJoin(c) # {}}
     IN /\ \E picked \in [joined -> UNION {LatestJoin(c) : c \in joined}] :
             /\ \A c \in joined : picked[c] \in LatestJoin(c)
             /\ rows' = picked
        /\ dropped' = (dropped \ Refreshes(joined, "postback"))
                        \cup Refreshes(postbackIds \ joined, "postback")
  /\ step' = "upsert"
  /\ UNCHANGED <<tables, reportLead, queue, pending, leadIds, postbackIds,
                 recent, faults, restarts>>

\* Mutant: cost_value is missing from the preserved columns.
UpsertedKeepingCost(old, new) ==
  IF old = NoRow THEN new ELSE [new EXCEPT !.cost = old.cost]

\* INSERT ... ON DUPLICATE KEY UPDATE of all the columns a postback decides.
Upserted(old, new) == new

\* Mutant: the queue is emptied when the pass ends, not while it is drained.
WorkerUpsertClearsQueue ==
  /\ step = "upsert"
  /\ reportLead' = [c \in ClickId |->
       IF c \in DOMAIN rows THEN rows[c] ELSE reportLead[c]]
  /\ queue' = <<>>
  /\ step' = "idle"
  /\ recent' = TRUE
  /\ UNCHANGED <<tables, pending, leadIds, postbackIds, rows, faults,
                 restarts, dropped>>

\* One statement writes all rows; the pass ends and is timestamped.
WorkerUpsert ==
  /\ step = "upsert"
  /\ reportLead' = [c \in ClickId |->
       IF c \in DOMAIN rows THEN Upserted(reportLead[c], rows[c])
       ELSE reportLead[c]]
  /\ step' = "idle"
  /\ recent' = TRUE
  /\ UNCHANGED <<tables, queue, pending, leadIds, postbackIds, rows, faults,
                 restarts, dropped>>

\* The SELECT or the upsert of the postbacks fails: logged, not requeued.
WorkerPostbacksFail ==
  /\ \/ step = "select" /\ postbackIds # {}
     \/ step = "upsert" /\ DOMAIN rows # {}
  /\ faults < MaxFaults
  /\ faults' = faults + 1
  /\ dropped' = dropped \cup Refreshes(postbackIds, "postback")
  /\ step' = "idle"
  /\ recent' = TRUE
  /\ UNCHANGED <<tables, reportLead, queue, pending, leadIds, postbackIds,
                 rows, restarts>>

-----------------------------------------------------------------------------
\* The refreshes both threads hold in memory.
InHand ==
  Queued \cup ({pending} \ {NoMessage})
    \cup (IF step \in {"drain", "leads"} THEN Refreshes(leadIds, "lead") ELSE {})
    \cup (IF step # "idle" THEN Refreshes(postbackIds, "postback") ELSE {})

\* The container restarts: both threads start over with an empty queue.
Restart ==
  /\ restarts < MaxRestarts
  /\ restarts' = restarts + 1
  /\ dropped' = dropped \cup InHand
  /\ queue' = <<>>
  /\ pending' = NoMessage
  /\ step' = "idle"
  /\ leadIds' = {} /\ postbackIds' = {} /\ rows' = NoRows
  /\ recent' = FALSE
  /\ UNCHANGED <<tables, reportLead, faults>>

Worker ==
  \/ WorkerStart \/ WorkerGet \/ WorkerDrained
  \/ WorkerUpsertLeads \/ WorkerUpsertLeadsFails
  \/ WorkerSelect \/ WorkerUpsert \/ WorkerPostbacksFail

Next ==
  \/ \E k \in CampaignId, t \in Terms : SaveCampaign(k, t)
  \/ \E c \in ClickId, k \in CampaignId : TrackClick(c, k)
  \/ \E c \in ClickId, ext \in External \cup {NoExternal} :
       TrackPostback(c, ext)
  \/ \E c \in ClickId : TrackLead(c)
  \/ Enqueue
  \/ Worker
  \/ PeriodElapses
  \/ Restart

\* The handler finishes its request, the supervisor's loop never stops while
\* the process lives, and time passes.
Fairness == WF_vars(Enqueue) /\ WF_vars(Worker) /\ WF_vars(PeriodElapses)

Spec == Init /\ [][Next]_vars
FairSpec == Spec /\ Fairness

-----------------------------------------------------------------------------
(* Safety.                                                                 *)

\* Some postback of c is newer than what its report row shows.
Behind(c) == \E i \in PostbacksOf(c) : i > Shown(c)

\* A refresh for c that will still look at every stored postback of c.
RefreshAhead(c) ==
  \/ Refresh(c, "postback") \in Queued
  \/ pending = Refresh(c, "postback")
  \/ step \in {"drain", "leads", "select"} /\ c \in postbackIds
  \/ /\ step = "upsert" /\ c \in DOMAIN rows
     /\ \A i \in PostbacksOf(c) : i <= rows[c].src

\* A report row that misses a stored postback is never just stale: a refresh
\* that will see that postback is queued or running, or the refresh was given
\* up (database error, restart, no click yet).  This is what makes it safe for
\* the HTTP thread to store a postback between the worker's SELECT and its
\* upsert (reports/workers.py), with no transaction around the two.
NoSilentlyStaleRow ==
  \A c \in ClickId :
    Behind(c) => RefreshAhead(c) \/ Refresh(c, "postback") \in dropped

\* The same for leads: the click of a stored lead has its report row, or a
\* refresh that will insert it is ahead, or was given up.
NoForgottenLead ==
  \A i \in 1..Len(leads) :
    LET c == leads[i] IN
    \/ reportLead[c] # NoRow
    \/ pending = Refresh(c, "lead")
    \/ Refresh(c, "lead") \in Queued \cup dropped
    \/ step \in {"drain", "leads"} /\ c \in leadIds

\* All columns of a row for c come from one event: the postback it shows, or
\* the lead that created it; its campaign is that of a click of c.
OneEvent(c, row) ==
  /\ \E k \in ClicksOf(c) : k.campaign = row.campaign
  /\ IF row.src = 0
     THEN row.status = Null /\ row.cost = Null
     ELSE /\ row.src \in PostbacksOf(c)
          /\ row.status = postbacks[row.src].status
          /\ row.cost = postbacks[row.src].cost

\* Every report row is one event, though a lead inserts it, postbacks update it
\* column by column, and clicks may share an id.  So the leads list (ReportLead)
\* and the statistics (track_postback joined with track_click) give one status
\* and one payout for the postback a row shows.
RowIsOneEvent ==
  \A c \in ClickId : reportLead[c] # NoRow => OneEvent(c, reportLead[c])

\* A payout is shown exactly for the statuses the statistics pay out
\* (reports/repositories.py sums cost_value for accept and expect only).
PayoutIffPaidStatus ==
  \A c \in ClickId : reportLead[c] # NoRow =>
    (reportLead[c].cost # Null <=> reportLead[c].status \in {"accept", "expect"})

-----------------------------------------------------------------------------
(* Liveness.                                                               *)

\* Every postback that is stored is shown, itself or a newer one of the same
\* click, or its refresh is given up: the throttle, the other event source and
\* a database error in the same pass only delay it.
EveryPostbackSettles ==
  \A c \in ClickId, i \in 1..MaxPostbacks :
    (i \in PostbacksOf(c))
      ~> (Shown(c) >= i \/ Refresh(c, "postback") \in dropped)

-----------------------------------------------------------------------------
(* What the report promises, LeadLedger, and how the pipeline implements it. *)

Ledger == INSTANCE LeadLedger WITH
  posted <- [i \in 1..Len(postbacks) |-> postbacks[i].id],
  clicked <- {c \in ClickId : ClicksOf(c) # {}},
  listed <- {c \in ClickId : reportLead[c] # NoRow},
  shown <- [c \in ClickId |-> Shown(c)]

LedgerSpec == Ledger!Spec
=============================================================================
