------------------------- MODULE LeadPipeline_proofs -------------------------
(***************************************************************************)
(* What LeadPipeline guarantees for any number of clicks, campaigns,       *)
(* postbacks, database errors and restarts.                                *)
(***************************************************************************)
EXTENDS LeadPipeline, SequenceTheorems, TLAPS

\* What the worker is about to upsert is as good as what it will replace.
SelectedRows ==
  step = "upsert" =>
    /\ DOMAIN rows \subseteq postbackIds
    /\ \A c \in DOMAIN rows : OneEvent(c, rows[c]) /\ Shown(c) <= rows[c].src

\* The payout frozen in a postback fits its frozen status.
PostbackPayout ==
  \A i \in 1..Len(postbacks) :
    postbacks[i].cost # Null <=> postbacks[i].status \in {"accept", "expect"}

IInv ==
  /\ TypeOK
  /\ RowIsOneEvent
  /\ SelectedRows
  /\ PostbackPayout
  /\ NoSilentlyStaleRow
  /\ NoForgottenLead

-----------------------------------------------------------------------------

\* The rows of the join are report rows of the click they are for.
LEMMA LatestJoinRow ==
  ASSUME TypeOK, NEW c \in ClickId, NEW row \in LatestJoin(c)
  PROVE  /\ row \in ReportRow
         /\ row.src \in PostbacksOf(c)
         /\ \A n \in PostbacksOf(c) : n <= row.src
         /\ OneEvent(c, row)
<1>1. PICK k \in ClicksOf(c),
           i \in {n \in PostbacksOf(c) : \A m \in PostbacksOf(c) : m <= n} :
        row = [campaign |-> k.campaign, status |-> postbacks[i].status,
               cost |-> postbacks[i].cost, src |-> i]
  BY DEF LatestJoin
<1>2. k \in clicks /\ k.id = c /\ k.campaign \in CampaignId
  BY DEF ClicksOf, TypeOK, Click
<1>3. i \in 1..Len(postbacks) /\ i # 0
  BY DEF PostbacksOf, TypeOK
<1>4. postbacks[i] \in Postback
  BY <1>3 DEF TypeOK
<1>5. row \in ReportRow
  BY <1>1, <1>2, <1>3, <1>4 DEF ReportRow, Postback
<1>6. row.src = i
  BY <1>1
<1>. QED
  BY <1>1, <1>2, <1>3, <1>5, <1>6 DEF OneEvent

\* A postback is stored with a status and a payout that belong together.
LEMMA PostbackOfRow ==
  ASSUME TypeOK, NEW c \in ClickId, NEW ext, NEW t \in TermsFor(c)
  PROVE  LET p == PostbackOf(c, ext, t) IN
         /\ p \in Postback
         /\ p.id = c
         /\ p.cost # Null <=> p.status \in {"accept", "expect"}
<1>1. t \in Terms \cup {NoCampaign}
  BY DEF TermsFor, ClicksOf, TypeOK, Click
<1>2. CASE t = NoCampaign
  BY <1>2, TermsAssumption DEF PostbackOf, Postback, Cost, LeadStatus
<1>3. CASE t # NoCampaign
  <2>1. t \in Terms /\ t.cost \in Cost /\ t.cost # Null
    BY <1>1, <1>3, TermsAssumption DEF Cost
  <2>2. MapStatus(ext, t.mapper) \in LeadStatus
    BY DEF MapStatus, LeadStatus
  <2>. QED
    BY <1>3, <2>1, <2>2, TermsAssumption DEF PostbackOf, Postback, Cost
<1>. QED
  BY <1>2, <1>3

-----------------------------------------------------------------------------
(* Type correctness.                                                       *)

LEMMA TypeInit == Init => TypeOK
<1> SUFFICES ASSUME Init PROVE TypeOK
  OBVIOUS
<1>1. DOMAIN rows = {}
  BY DEF Init, NoRows
<1>2. postbacks \in Seq(Postback) /\ leads \in Seq(ClickId) /\ queue \in Seq(Message)
  BY DEF Init
<1>. QED
  BY <1>1, <1>2 DEF Init, TypeOK

LEMMA TypeStep == TypeOK /\ [Next]_vars => TypeOK'
<1> SUFFICES ASSUME TypeOK, [Next]_vars PROVE TypeOK'
  OBVIOUS
<1> USE DEF TypeOK, tables, memory
<1>1. ASSUME NEW k \in CampaignId, NEW t \in Terms, SaveCampaign(k, t)
      PROVE  TypeOK'
  BY <1>1 DEF SaveCampaign
<1>2. ASSUME NEW c \in ClickId, NEW k \in CampaignId, TrackClick(c, k)
      PROVE  TypeOK'
  BY <1>2 DEF TrackClick, Click
<1>3. ASSUME NEW c \in ClickId, NEW ext \in External \cup {NoExternal},
             TrackPostback(c, ext)
      PROVE  TypeOK'
  <2>1. PICK t \in TermsFor(c) :
          postbacks' = Append(postbacks, PostbackOf(c, ext, t))
    BY <1>3 DEF TrackPostback
  <2>2. postbacks' \in Seq(Postback)
    BY <2>1, PostbackOfRow
  <2>. QED
    BY <1>3, <2>2 DEF TrackPostback, Refresh, Message, TrackSource
<1>4. ASSUME NEW c \in ClickId, TrackLead(c) PROVE TypeOK'
  BY <1>4 DEF TrackLead, Refresh, Message, TrackSource
<1>5. CASE Enqueue
  BY <1>5 DEF Enqueue
<1>6. CASE WorkerStart
  BY <1>6 DEF WorkerStart, NoRows
<1>7. CASE WorkerGet
  <2>1. Head(queue) \in Message /\ Tail(queue) \in Seq(Message)
    BY <1>7 DEF WorkerGet
  <2>. QED
    BY <1>7, <2>1 DEF WorkerGet, Message
<1>8. CASE WorkerDrained
  BY <1>8 DEF WorkerDrained
<1>9. CASE WorkerUpsertLeads
  <2> DEFINE known == {c \in leadIds : ClicksOf(c) # {}}
             new == {c \in known : reportLead[c] = NoRow}
  <2>1. PICK pick \in [new -> clicks] :
          reportLead' = [c \in ClickId |->
            IF c \in new THEN LeadRow(pick[c]) ELSE reportLead[c]]
    BY <1>9 DEF WorkerUpsertLeads
  <2>2. \A k \in clicks : LeadRow(k) \in ReportRow
    BY DEF LeadRow, ReportRow, Click, Cost
  <2>3. reportLead' \in [ClickId -> ReportRow \cup {NoRow}]
    BY <2>1, <2>2
  <2>4. dropped' \subseteq Message
    BY <1>9 DEF WorkerUpsertLeads, Refreshes, Refresh, Message, TrackSource
  <2>. QED
    BY <1>9, <2>3, <2>4 DEF WorkerUpsertLeads
<1>10. CASE WorkerUpsertLeadsFails
  <2>1. dropped' \subseteq Message
    BY <1>10
    DEF WorkerUpsertLeadsFails, Refreshes, Refresh, Message, TrackSource
  <2>. QED
    BY <1>10, <2>1 DEF WorkerUpsertLeadsFails
<1>11. CASE WorkerSelect
  <2> DEFINE joined == {c \in postbackIds : LatestJoin(c) # {}}
  <2>1. PICK picked \in [joined -> UNION {LatestJoin(c) : c \in joined}] :
          /\ \A c \in joined : picked[c] \in LatestJoin(c)
          /\ rows' = picked
    BY <1>11 DEF WorkerSelect
  <2>2. DOMAIN rows' \subseteq ClickId
    BY <2>1
  <2>3. \A c \in DOMAIN rows' : rows'[c] \in ReportRow
    BY <2>1, LatestJoinRow
  <2>4. dropped' \subseteq Message
    BY <1>11 DEF WorkerSelect, Refreshes, Refresh, Message, TrackSource
  <2>. QED
    BY <1>11, <2>2, <2>3, <2>4 DEF WorkerSelect
<1>12. CASE WorkerUpsert
  BY <1>12 DEF WorkerUpsert, Upserted
<1>13. CASE WorkerPostbacksFail
  <2>1. dropped' \subseteq Message
    BY <1>13
    DEF WorkerPostbacksFail, Refreshes, Refresh, Message, TrackSource
  <2>. QED
    BY <1>13, <2>1 DEF WorkerPostbacksFail
<1>14. CASE PeriodElapses
  BY <1>14 DEF PeriodElapses
<1>15. CASE Restart
  <2>1. Queued \subseteq Message
    BY DEF Queued
  <2>2. \A ids \in SUBSET ClickId, s \in TrackSource :
          Refreshes(ids, s) \subseteq Message
    BY DEF Refreshes, Refresh, Message
  <2>3. InHand \subseteq Message
    BY <2>1, <2>2 DEF InHand, TrackSource
  <2>4. dropped' \subseteq Message
    BY <1>15, <2>3 DEF Restart
  <2>5. DOMAIN rows' = {}
    BY <1>15 DEF Restart, NoRows
  <2>6. queue' \in Seq(Message)
    BY <1>15 DEF Restart
  <2>. QED
    BY <1>15, <2>4, <2>5, <2>6, restarts + 1 \in Nat DEF Restart
<1>16. CASE UNCHANGED vars
  BY <1>16 DEF vars
<1>. QED
  BY <1>1, <1>2, <1>3, <1>4, <1>5, <1>6, <1>7, <1>8, <1>9, <1>10, <1>11,
     <1>12, <1>13, <1>14, <1>15, <1>16 DEF Next, Worker

\* Every variable keeps its type, however the two threads interleave.
THEOREM TypeCorrect == Spec => []TypeOK
BY TypeInit, TypeStep, PTL DEF Spec

-----------------------------------------------------------------------------
(* Rows and events.                                                        *)

\* Tracker tables only grow.
LEMMA TablesGrow ==
  ASSUME TypeOK, [Next]_vars
  PROVE  /\ clicks \subseteq clicks'
         /\ Len(postbacks) \in Nat /\ Len(postbacks') \in Nat
         /\ Len(postbacks) <= Len(postbacks')
         /\ \A i \in 1..Len(postbacks) : postbacks'[i] = postbacks[i]
<1>1. ASSUME NEW c \in ClickId, NEW ext \in External \cup {NoExternal},
             TrackPostback(c, ext)
      PROVE  /\ clicks' = clicks
             /\ Len(postbacks') = Len(postbacks) + 1
             /\ \A i \in 1..Len(postbacks) : postbacks'[i] = postbacks[i]
  <2>1. PICK t \in TermsFor(c) :
          postbacks' = Append(postbacks, PostbackOf(c, ext, t))
    BY <1>1 DEF TrackPostback
  <2>. QED
    BY <1>1, <2>1, PostbackOfRow DEF TrackPostback, TypeOK
<1>2. \/ \E c \in ClickId, ext \in External \cup {NoExternal} :
           TrackPostback(c, ext)
      \/ clicks \subseteq clicks' /\ postbacks' = postbacks
  BY DEF Next, Worker, vars, tables, memory, SaveCampaign, TrackClick,
     TrackLead, Enqueue, WorkerStart, WorkerGet, WorkerDrained,
     WorkerUpsertLeads, WorkerUpsertLeadsFails, WorkerSelect, WorkerUpsert,
     WorkerPostbacksFail, PeriodElapses, Restart
<1>. QED
  BY <1>1, <1>2 DEF TypeOK

\* An event a row was made of stays an event.
LEMMA EventStays ==
  ASSUME TypeOK, [Next]_vars
  PROVE  /\ \A c \in ClickId : ClicksOf(c) \subseteq ClicksOf(c)'
         /\ \A c \in ClickId : PostbacksOf(c) \subseteq PostbacksOf(c)'
         /\ \A c \in ClickId, row \in ReportRow :
              OneEvent(c, row) => OneEvent(c, row)'
<1>1. \A c \in ClickId : ClicksOf(c) \subseteq ClicksOf(c)'
  BY TablesGrow DEF ClicksOf
<1>2. \A c \in ClickId : PostbacksOf(c) \subseteq PostbacksOf(c)'
  BY TablesGrow DEF PostbacksOf
<1>3. ASSUME NEW c \in ClickId, NEW row \in ReportRow, OneEvent(c, row)
      PROVE  OneEvent(c, row)'
  <2>1. row.src # 0 => /\ row.src \in 1..Len(postbacks)
                       /\ row.src \in PostbacksOf(c)'
                       /\ postbacks'[row.src] = postbacks[row.src]
    BY <1>2, <1>3, TablesGrow DEF OneEvent, PostbacksOf
  <2>. QED
    BY <1>1, <1>3, <2>1 DEF OneEvent
<1>. QED
  BY <1>1, <1>2, <1>3

\* The table report_lead and the selected rows change in four actions only.
LEMMA RowsKept ==
  ASSUME TypeOK, [Next]_vars,
         ~WorkerUpsertLeads, ~WorkerSelect, ~WorkerUpsert
  PROVE  /\ reportLead' = reportLead
         /\ step' = "upsert" => /\ step = "upsert" /\ rows' = rows
                                /\ postbackIds' = postbackIds
BY DEF Next, Worker, vars, tables, memory, SaveCampaign, TrackClick,
   TrackPostback, TrackLead, Enqueue, WorkerStart, WorkerGet, WorkerDrained,
   WorkerUpsertLeadsFails, WorkerPostbacksFail, PeriodElapses, Restart

LEMMA RowStep ==
  TypeOK /\ RowIsOneEvent /\ SelectedRows /\ [Next]_vars
    => RowIsOneEvent' /\ SelectedRows'
<1> SUFFICES ASSUME TypeOK, RowIsOneEvent, SelectedRows, [Next]_vars
             PROVE  RowIsOneEvent' /\ SelectedRows'
  OBVIOUS
<1>1. CASE WorkerUpsertLeads
  <2> DEFINE known == {c \in leadIds : ClicksOf(c) # {}}
             new == {c \in known : reportLead[c] = NoRow}
  <2>1. PICK pick \in [new -> clicks] :
          /\ \A c \in new : pick[c].id = c
          /\ reportLead' = [c \in ClickId |->
               IF c \in new THEN LeadRow(pick[c]) ELSE reportLead[c]]
    BY <1>1 DEF WorkerUpsertLeads
  <2>2. \A c \in new : OneEvent(c, LeadRow(pick[c]))
    BY <2>1 DEF OneEvent, LeadRow, ClicksOf
  <2>3. clicks' = clicks /\ postbacks' = postbacks /\ step' = "select"
    BY <1>1 DEF WorkerUpsertLeads, tables
  <2>4. ASSUME NEW c \in ClickId, reportLead'[c] # NoRow
        PROVE  OneEvent(c, reportLead'[c])
    BY <2>1, <2>2, <2>4 DEF RowIsOneEvent
  <2>5. RowIsOneEvent'
    BY <2>3, <2>4 DEF RowIsOneEvent, OneEvent, ClicksOf, PostbacksOf
  <2>. QED
    BY <2>3, <2>5 DEF SelectedRows
<1>2. CASE WorkerSelect
  <2> DEFINE joined == {c \in postbackIds : LatestJoin(c) # {}}
  <2>1. PICK picked \in [joined -> UNION {LatestJoin(c) : c \in joined}] :
          /\ \A c \in joined : picked[c] \in LatestJoin(c)
          /\ rows' = picked
    BY <1>2 DEF WorkerSelect
  <2>2. /\ clicks' = clicks /\ postbacks' = postbacks
        /\ reportLead' = reportLead
    BY <1>2 DEF WorkerSelect, tables
  <2>3. RowIsOneEvent'
    BY <2>2 DEF RowIsOneEvent, OneEvent, ClicksOf, PostbacksOf
  <2>4. ASSUME NEW c \in DOMAIN rows'
        PROVE  OneEvent(c, rows'[c]) /\ Shown(c) <= rows'[c].src
    <3>1. c \in ClickId /\ rows'[c] \in LatestJoin(c)
      BY <2>1 DEF TypeOK
    <3>2. /\ OneEvent(c, rows'[c]) /\ rows'[c] \in ReportRow
          /\ rows'[c].src \in PostbacksOf(c)
          /\ \A n \in PostbacksOf(c) : n <= rows'[c].src
      BY <3>1, LatestJoinRow
    <3>3. Shown(c) = 0 \/ Shown(c) \in PostbacksOf(c)
      BY <3>1 DEF Shown, RowIsOneEvent, OneEvent
    <3>. QED
      BY <3>2, <3>3 DEF ReportRow
  <2>5. DOMAIN rows' \subseteq postbackIds'
    BY <1>2, <2>1 DEF WorkerSelect
  <2>. QED
    BY <2>2, <2>3, <2>4, <2>5
    DEF SelectedRows, OneEvent, ClicksOf, PostbacksOf, Shown
<1>3. CASE WorkerUpsert
  <2>1. /\ clicks' = clicks /\ postbacks' = postbacks /\ step' = "idle"
        /\ step = "upsert"
        /\ reportLead' = [c \in ClickId |->
             IF c \in DOMAIN rows THEN rows[c] ELSE reportLead[c]]
    BY <1>3 DEF WorkerUpsert, Upserted, tables
  <2>2. ASSUME NEW c \in ClickId, reportLead'[c] # NoRow
        PROVE  OneEvent(c, reportLead'[c])
    BY <2>1, <2>2 DEF RowIsOneEvent, SelectedRows
  <2>3. RowIsOneEvent'
    BY <2>1, <2>2 DEF RowIsOneEvent, OneEvent, ClicksOf, PostbacksOf
  <2>. QED
    BY <2>1, <2>3 DEF SelectedRows
<1>4. CASE ~WorkerUpsertLeads /\ ~WorkerSelect /\ ~WorkerUpsert
  <2>1. /\ reportLead' = reportLead
        /\ step' = "upsert" => /\ step = "upsert" /\ rows' = rows
                               /\ postbackIds' = postbackIds
    BY <1>4, RowsKept
  <2>2. \A c \in ClickId : reportLead[c] # NoRow => reportLead[c] \in ReportRow
    BY DEF TypeOK
  <2>3. ASSUME NEW c \in ClickId, reportLead[c] # NoRow
        PROVE  OneEvent(c, reportLead[c])'
    <3>1. PICK row \in ReportRow : row = reportLead[c]
      BY <2>2, <2>3
    <3>2. OneEvent(c, row)
      BY <2>3, <3>1 DEF RowIsOneEvent
    <3>3. OneEvent(c, row)'
      BY <3>2, EventStays
    <3>. QED
      BY <2>1, <3>1, <3>3 DEF OneEvent
  <2>4. RowIsOneEvent'
    BY <2>1, <2>3 DEF RowIsOneEvent
  <2>5. ASSUME step' = "upsert", NEW c \in DOMAIN rows
        PROVE  OneEvent(c, rows[c])' /\ Shown(c)' <= (rows[c].src)'
    <3>1. PICK row \in ReportRow : row = rows[c]
      BY DEF TypeOK
    <3>2. c \in ClickId /\ OneEvent(c, row) /\ Shown(c) <= row.src
      BY <2>1, <2>5, <3>1 DEF SelectedRows, TypeOK
    <3>3. OneEvent(c, row)'
      BY <3>2, EventStays
    <3>4. Shown(c)' = Shown(c)
      BY <2>1 DEF Shown
    <3>. QED
      BY <2>1, <2>5, <3>1, <3>2, <3>3, <3>4 DEF OneEvent
  <2>6. SelectedRows'
    BY <2>1, <2>5 DEF SelectedRows
  <2>. QED
    BY <2>4, <2>6
<1>. QED
  BY <1>1, <1>2, <1>3, <1>4

LEMMA PayoutStep ==
  TypeOK /\ PostbackPayout /\ [Next]_vars => PostbackPayout'
<1> SUFFICES ASSUME TypeOK, PostbackPayout, [Next]_vars
             PROVE  PostbackPayout'
  OBVIOUS
<1>1. ASSUME NEW c \in ClickId, NEW ext \in External \cup {NoExternal},
             TrackPostback(c, ext)
      PROVE  PostbackPayout'
  <2>1. PICK t \in TermsFor(c) :
          postbacks' = Append(postbacks, PostbackOf(c, ext, t))
    BY <1>1 DEF TrackPostback
  <2> DEFINE p == PostbackOf(c, ext, t)
  <2>2. p.cost # Null <=> p.status \in {"accept", "expect"}
    BY PostbackOfRow
  <2>3. /\ Len(postbacks') = Len(postbacks) + 1
        /\ postbacks'[Len(postbacks) + 1] = p
        /\ \A i \in 1..Len(postbacks) : postbacks'[i] = postbacks[i]
    BY <2>1, PostbackOfRow DEF TypeOK
  <2> HIDE DEF p
  <2>4. Len(postbacks) \in Nat
    BY DEF TypeOK
  <2>5. ASSUME NEW i \in 1..Len(postbacks'), i # Len(postbacks) + 1
        PROVE  i \in 1..Len(postbacks)
    BY <2>3, <2>4, <2>5
  <2> HIDE DEF TypeOK
  <2>6. ASSUME NEW i \in 1..Len(postbacks')
        PROVE  postbacks'[i].cost # Null
                 <=> postbacks'[i].status \in {"accept", "expect"}
    <3>1. CASE i = Len(postbacks) + 1
      <4>1. postbacks'[i] = p
        BY <2>3, <3>1
      <4>. QED
        BY <2>2, <4>1
    <3>2. CASE i # Len(postbacks) + 1
      <4>1. i \in 1..Len(postbacks) /\ postbacks'[i] = postbacks[i]
        BY <2>3, <2>5, <3>2
      <4>. QED
        BY <4>1 DEF PostbackPayout
    <3>. QED
      BY <3>1, <3>2
  <2>. QED
    BY <2>6 DEF PostbackPayout
<1>2. CASE postbacks' = postbacks
  BY <1>2 DEF PostbackPayout
<1>3. \/ \E c \in ClickId, ext \in External \cup {NoExternal} :
           TrackPostback(c, ext)
      \/ postbacks' = postbacks
  BY DEF Next, Worker, vars, tables, memory, SaveCampaign, TrackClick,
     TrackLead, Enqueue, WorkerStart, WorkerGet, WorkerDrained,
     WorkerUpsertLeads, WorkerUpsertLeadsFails, WorkerSelect, WorkerUpsert,
     WorkerPostbacksFail, PeriodElapses, Restart
<1>. QED
  BY <1>1, <1>2, <1>3

-----------------------------------------------------------------------------
(* No row is silently stale, no lead is forgotten.                         *)

\* What is queued after a payload is appended or taken.
LEMMA QueuedChanges ==
  ASSUME TypeOK
  PROVE  /\ \A m \in Message :
              queue' = Append(queue, m) => Queued' = Queued \cup {m}
         /\ queue # <<>> /\ queue' = Tail(queue) =>
              /\ Head(queue) \in Message
              /\ Queued \subseteq Queued' \cup {Head(queue)}
<1>1. ASSUME NEW m \in Message, queue' = Append(queue, m)
      PROVE  Queued' = Queued \cup {m}
  <2>1. /\ Len(queue') = Len(queue) + 1 /\ queue'[Len(queue) + 1] = m
        /\ \A i \in 1..Len(queue) : queue'[i] = queue[i]
    BY <1>1 DEF TypeOK
  <2>2. Len(queue) \in Nat
    BY DEF TypeOK
  <2>3. 1..Len(queue') = (1..Len(queue)) \cup {Len(queue) + 1}
    BY <2>1, <2>2
  <2> HIDE DEF TypeOK
  <2>. QED
    BY <2>1, <2>3 DEF Queued
<1>2. ASSUME queue # <<>>, queue' = Tail(queue)
      PROVE  /\ Head(queue) \in Message
             /\ Queued \subseteq Queued' \cup {Head(queue)}
  <2>1. /\ Len(queue) \in Nat /\ Len(queue) > 0
        /\ Len(queue') = Len(queue) - 1
        /\ \A i \in 1..Len(queue') : queue'[i] = queue[i + 1]
        /\ Head(queue) = queue[1] /\ Head(queue) \in Message
    BY <1>2 DEF TypeOK
  <2>2. ASSUME NEW i \in 1..Len(queue), i # 1
        PROVE  queue[i] \in Queued'
    <3>1. i - 1 \in 1..Len(queue') /\ queue'[i - 1] = queue[i]
      BY <2>1, <2>2
    <3>. QED
      BY <3>1 DEF Queued
  <2>. QED
    BY <2>1, <2>2 DEF Queued
<1>. QED
  BY <1>1, <1>2

LEMMA RefreshIsMessage ==
  ASSUME NEW c \in ClickId, NEW s \in TrackSource
  PROVE  /\ Refresh(c, s) \in Message /\ Refresh(c, s) # NoMessage
         /\ Refresh(c, s).id = c /\ Refresh(c, s).source = s
         /\ \A ids : Refresh(c, s) \in Refreshes(ids, s) <=> c \in ids
<1>1. /\ Refresh(c, s) \in Message
      /\ Refresh(c, s).id = c /\ Refresh(c, s).source = s
  BY DEF Refresh, Message
<1>2. Refresh(c, s) # NoMessage
  BY <1>1, TermsAssumption
<1>3. ASSUME NEW ids, Refresh(c, s) \in Refreshes(ids, s)
      PROVE  c \in ids
  <2>1. PICK d \in ids : Refresh(c, s) = Refresh(d, s)
    BY <1>3 DEF Refreshes
  <2>2. Refresh(c, s).id = c /\ Refresh(d, s).id = d
    BY DEF Refresh
  <2>. QED
    BY <2>1, <2>2
<1>4. ASSUME NEW ids, c \in ids
      PROVE  Refresh(c, s) \in Refreshes(ids, s)
  BY <1>4 DEF Refreshes
<1>. QED
  BY <1>1, <1>2, <1>3, <1>4

LEMMA StaleStep ==
  TypeOK /\ RowIsOneEvent /\ SelectedRows /\ NoSilentlyStaleRow /\ [Next]_vars
    => NoSilentlyStaleRow'
<1> SUFFICES ASSUME TypeOK, RowIsOneEvent, SelectedRows, NoSilentlyStaleRow,
                    [Next]_vars, NEW c \in ClickId, Behind(c)'
             PROVE  (RefreshAhead(c) \/ Refresh(c, "postback") \in dropped)'
  BY DEF NoSilentlyStaleRow
<1> DEFINE r == Refresh(c, "postback")
<1>r. /\ r \in Message /\ r # NoMessage /\ r.id = c /\ r.source = "postback"
      /\ \A ids : r \in Refreshes(ids, "postback") <=> c \in ids
  BY RefreshIsMessage DEF TrackSource
<1>h. Behind(c) => RefreshAhead(c) \/ r \in dropped
  BY DEF NoSilentlyStaleRow
<1> HIDE DEF r
<1> USE DEF tables, memory
\* Steps that leave the tables and what this click's refresh is in alone.
<1>1. ASSUME NEW k \in CampaignId, NEW t \in Terms, SaveCampaign(k, t)
      PROVE  (RefreshAhead(c) \/ r \in dropped)'
  BY <1>1, <1>h
  DEF SaveCampaign, Behind, RefreshAhead, PostbacksOf, Shown, Queued, r, Refresh
<1>2. ASSUME NEW d \in ClickId, NEW k \in CampaignId, TrackClick(d, k)
      PROVE  (RefreshAhead(c) \/ r \in dropped)'
  BY <1>2, <1>h
  DEF TrackClick, Behind, RefreshAhead, PostbacksOf, Shown, Queued, r, Refresh
<1>3. ASSUME NEW d \in ClickId, NEW ext \in External \cup {NoExternal},
             TrackPostback(d, ext)
      PROVE  (RefreshAhead(c) \/ r \in dropped)'
  <2>1. CASE d = c
    BY <1>3, <2>1 DEF TrackPostback, RefreshAhead, r
  <2>2. CASE d # c
    <3>1. PICK t \in TermsFor(d) :
            postbacks' = Append(postbacks, PostbackOf(d, ext, t))
      BY <1>3 DEF TrackPostback
    <3>2. /\ Len(postbacks') = Len(postbacks) + 1
          /\ postbacks'[Len(postbacks) + 1].id = d
          /\ \A i \in 1..Len(postbacks) : postbacks'[i] = postbacks[i]
      BY <3>1, PostbackOfRow DEF TypeOK
    <3>3. PostbacksOf(c)' = PostbacksOf(c)
      BY <2>2, <3>2 DEF PostbacksOf, TypeOK
    <3>4. pending = NoMessage
      BY <1>3 DEF TrackPostback
    <3>. QED
      BY <1>3, <1>h, <1>r, <3>3, <3>4
      DEF TrackPostback, Behind, RefreshAhead, Shown, Queued, r
  <2>. QED
    BY <2>1, <2>2
<1>4. ASSUME NEW d \in ClickId, TrackLead(d)
      PROVE  (RefreshAhead(c) \/ r \in dropped)'
  BY <1>4, <1>h, <1>r
  DEF TrackLead, Behind, RefreshAhead, PostbacksOf, Shown, Queued, r
<1>5. CASE Enqueue
  <2>1. pending \in Message /\ Queued' = Queued \cup {pending}
    BY <1>5, QueuedChanges DEF Enqueue, TypeOK
  <2>. QED
    BY <1>5, <1>h, <2>1
    DEF Enqueue, Behind, RefreshAhead, PostbacksOf, Shown, r
<1>6. CASE WorkerStart
  BY <1>6, <1>h
  DEF WorkerStart, Behind, RefreshAhead, PostbacksOf, Shown, Queued, r
<1>7. CASE WorkerGet
  <2>1. /\ Head(queue) \in Message
        /\ Queued \subseteq Queued' \cup {Head(queue)}
    BY <1>7, QueuedChanges DEF WorkerGet
  <2>2. Head(queue) = r => c \in postbackIds'
    BY <1>7, <1>r DEF WorkerGet
  <2>3. postbackIds \subseteq postbackIds' /\ step = "drain" /\ step' = "drain"
    BY <1>7 DEF WorkerGet
  <2>. QED
    BY <1>7, <1>h, <2>1, <2>2, <2>3
    DEF WorkerGet, Behind, RefreshAhead, PostbacksOf, Shown, r
<1>8. CASE WorkerDrained
  BY <1>8, <1>h
  DEF WorkerDrained, Behind, RefreshAhead, PostbacksOf, Shown, Queued, r
<1>9. CASE WorkerUpsertLeads
  <2> DEFINE known == {d \in leadIds : ClicksOf(d) # {}}
             new == {d \in known : reportLead[d] = NoRow}
  <2>1. PICK pick \in [new -> clicks] :
          reportLead' = [d \in ClickId |->
            IF d \in new THEN LeadRow(pick[d]) ELSE reportLead[d]]
    BY <1>9 DEF WorkerUpsertLeads
  <2>2. Shown(c)' = Shown(c)
    BY <2>1, NoRowAssumption DEF Shown, LeadRow, TypeOK
  <2>3. r \in dropped => r \in dropped'
    BY <1>9, <1>r DEF WorkerUpsertLeads, Refreshes, Refresh
  <2>. QED
    BY <1>9, <1>h, <2>2, <2>3
    DEF WorkerUpsertLeads, Behind, RefreshAhead, PostbacksOf, Queued, r
<1>10. CASE WorkerUpsertLeadsFails
  BY <1>10, <1>h
  DEF WorkerUpsertLeadsFails, Behind, RefreshAhead, PostbacksOf, Shown, Queued,
      r
<1>11. CASE WorkerSelect
  <2> DEFINE joined == {d \in postbackIds : LatestJoin(d) # {}}
  <2>1. PICK picked \in [joined -> UNION {LatestJoin(d) : d \in joined}] :
          /\ \A d \in joined : picked[d] \in LatestJoin(d)
          /\ rows' = picked
    BY <1>11 DEF WorkerSelect
  <2>2. /\ dropped' = (dropped \ Refreshes(joined, "postback"))
                         \cup Refreshes(postbackIds \ joined, "postback")
        /\ step' = "upsert" /\ postbacks' = postbacks /\ queue' = queue
        /\ pending' = pending /\ reportLead' = reportLead /\ step = "select"
    BY <1>11 DEF WorkerSelect
  <2>3. CASE c \in joined
    <3>1. \A n \in PostbacksOf(c) : n <= rows'[c].src
      BY <2>1, <2>3, LatestJoinRow
    <3>. QED
      BY <2>1, <2>2, <2>3, <3>1 DEF RefreshAhead, PostbacksOf
  <2>4. CASE c \in postbackIds \ joined
    BY <1>r, <2>2, <2>4 DEF r
  <2>5. CASE c \notin postbackIds
    <3>1. Behind(c)
      BY <2>2 DEF Behind, PostbacksOf, Shown
    <3>2. r \in dropped => r \in dropped'
      BY <1>r, <2>2, <2>5
    <3>. QED
      BY <1>h, <2>2, <2>5, <3>1, <3>2 DEF RefreshAhead, Queued, r
  <2>. QED
    BY <2>3, <2>4, <2>5
<1>12. CASE WorkerUpsert
  <2>1. /\ step = "upsert" /\ step' = "idle"
        /\ postbacks' = postbacks /\ queue' = queue
        /\ pending' = pending /\ dropped' = dropped
        /\ reportLead' = [d \in ClickId |->
             IF d \in DOMAIN rows THEN rows[d] ELSE reportLead[d]]
    BY <1>12 DEF WorkerUpsert, Upserted
  <2>2. PostbacksOf(c)' = PostbacksOf(c) /\ Queued' = Queued
    BY <2>1 DEF PostbacksOf, Queued
  <2>3. CASE c \in DOMAIN rows
    <3>1. Shown(c)' = rows[c].src
      BY <2>1, <2>3, NoRowAssumption DEF Shown, TypeOK
    <3>2. PICK i \in PostbacksOf(c) : i > rows[c].src
      BY <2>2, <3>1 DEF Behind
    <3>3. /\ Shown(c) <= rows[c].src /\ rows[c].src \in Nat
          /\ Shown(c) \in Nat /\ i \in Nat
      BY <2>1, <2>3 DEF SelectedRows, TypeOK, ReportRow, PostbacksOf, Shown
    <3>4. Behind(c) /\ ~(\A n \in PostbacksOf(c) : n <= rows[c].src)
      BY <3>2, <3>3 DEF Behind
    <3>. QED
      BY <1>h, <2>1, <2>2, <3>4 DEF RefreshAhead, r
  <2>4. CASE c \notin DOMAIN rows
    <3>1. Shown(c)' = Shown(c)
      BY <2>1, <2>4 DEF Shown
    <3>. QED
      BY <1>h, <2>1, <2>2, <2>4, <3>1 DEF Behind, RefreshAhead, r
  <2>. QED
    BY <2>3, <2>4
<1>13. CASE WorkerPostbacksFail
  <2>1. c \in postbackIds => r \in dropped'
    BY <1>13, <1>r DEF WorkerPostbacksFail
  <2>2. step \in {"select", "upsert"} /\ dropped \subseteq dropped'
    BY <1>13 DEF WorkerPostbacksFail
  <2>3. RefreshAhead(c) => \/ r \in Queued \/ pending = r \/ c \in postbackIds
                           \/ c \in DOMAIN rows
    BY <2>2 DEF RefreshAhead, r
  <2>4. step = "upsert" => DOMAIN rows \subseteq postbackIds
    BY DEF SelectedRows
  <2>. QED
    BY <1>13, <1>h, <2>1, <2>2, <2>3, <2>4
    DEF WorkerPostbacksFail, Behind, RefreshAhead, PostbacksOf, Shown, Queued, r
<1>14. CASE PeriodElapses
  BY <1>14, <1>h
  DEF PeriodElapses, Behind, RefreshAhead, PostbacksOf, Shown, Queued, r
<1>15. CASE Restart
  <2>1. RefreshAhead(c) => r \in InHand
    BY <1>r DEF RefreshAhead, InHand, SelectedRows, r
  <2>2. Behind(c)
    BY <1>15 DEF Restart, Behind, PostbacksOf, Shown
  <2>. QED
    BY <1>15, <1>h, <2>1, <2>2 DEF Restart, r
<1>16. CASE UNCHANGED vars
  BY <1>16, <1>h
  DEF vars, Behind, RefreshAhead, PostbacksOf, Shown, Queued, r
<1>. QED
  BY <1>1, <1>2, <1>3, <1>4, <1>5, <1>6, <1>7, <1>8, <1>9, <1>10, <1>11,
     <1>12, <1>13, <1>14, <1>15, <1>16 DEF Next, Worker, r

\* The lead of click c is reported, on its way, or given up.
LeadSafe(c) ==
  \/ reportLead[c] # NoRow
  \/ pending = Refresh(c, "lead")
  \/ Refresh(c, "lead") \in Queued \cup dropped
  \/ step \in {"drain", "leads"} /\ c \in leadIds

LEMMA LeadSafeStep ==
  ASSUME TypeOK, [Next]_vars, NEW c \in ClickId, LeadSafe(c)
  PROVE  LeadSafe(c)'
<1> DEFINE r == Refresh(c, "lead")
<1>r. /\ r \in Message /\ r # NoMessage /\ r.id = c /\ r.source = "lead"
      /\ \A ids : r \in Refreshes(ids, "lead") <=> c \in ids
  BY RefreshIsMessage DEF TrackSource
<1>q. r # Refresh(c, "postback")
  BY <1>r, RefreshIsMessage DEF TrackSource
<1> HIDE DEF r
<1> USE DEF tables, memory
<1>1. ASSUME NEW k \in CampaignId, NEW t \in Terms, SaveCampaign(k, t)
      PROVE  LeadSafe(c)'
  BY <1>1 DEF SaveCampaign, LeadSafe, Queued, Refresh
<1>2. ASSUME NEW d \in ClickId, NEW k \in CampaignId, TrackClick(d, k)
      PROVE  LeadSafe(c)'
  BY <1>2 DEF TrackClick, LeadSafe, Queued, Refresh
<1>3. ASSUME NEW d \in ClickId, NEW ext \in External \cup {NoExternal},
             TrackPostback(d, ext)
      PROVE  LeadSafe(c)'
  BY <1>3, <1>r DEF TrackPostback, LeadSafe, Queued, r
<1>4. ASSUME NEW d \in ClickId, TrackLead(d) PROVE LeadSafe(c)'
  BY <1>4, <1>r DEF TrackLead, LeadSafe, Queued, r
<1>5. CASE Enqueue
  <2>1. Queued' = Queued \cup {pending}
    BY <1>5, QueuedChanges DEF Enqueue, TypeOK
  <2>. QED
    BY <1>5, <2>1 DEF Enqueue, LeadSafe
<1>6. CASE WorkerStart
  BY <1>6 DEF WorkerStart, LeadSafe, Queued
<1>7. CASE WorkerGet
  <2>1. Queued \subseteq Queued' \cup {Head(queue)}
    BY <1>7, QueuedChanges DEF WorkerGet
  <2>2. Head(queue) = r => c \in leadIds'
    BY <1>7, <1>r DEF WorkerGet
  <2>3. /\ leadIds \subseteq leadIds' /\ step' = "drain"
        /\ reportLead' = reportLead /\ pending' = pending /\ dropped' = dropped
    BY <1>7 DEF WorkerGet
  <2>. QED
    BY <2>1, <2>2, <2>3 DEF LeadSafe, r
<1>8. CASE WorkerDrained
  BY <1>8 DEF WorkerDrained, LeadSafe, Queued
<1>9. CASE WorkerUpsertLeads
  <2> DEFINE known == {d \in leadIds : ClicksOf(d) # {}}
             new == {d \in known : reportLead[d] = NoRow}
  <2>1. PICK pick \in [new -> clicks] :
          reportLead' = [d \in ClickId |->
            IF d \in new THEN LeadRow(pick[d]) ELSE reportLead[d]]
    BY <1>9 DEF WorkerUpsertLeads
  <2>2. \A k \in clicks : LeadRow(k) # NoRow
    BY NoRowAssumption DEF LeadRow, ReportRow, TypeOK, Click, Cost
  <2>3. c \in known \/ reportLead[c] # NoRow => reportLead'[c] # NoRow
    BY <2>1, <2>2
  <2>4. /\ dropped' = (dropped \ Refreshes(known, "lead"))
                         \cup Refreshes(leadIds \ known, "lead")
        /\ queue' = queue /\ pending' = pending /\ step = "leads"
    BY <1>9 DEF WorkerUpsertLeads
  <2>5. c \in leadIds \ known => r \in dropped'
    BY <2>4, <1>r
  <2>6. c \notin known /\ r \in dropped => r \in dropped'
    BY <2>4, <1>r
  <2>. QED
    BY <2>3, <2>4, <2>5, <2>6 DEF LeadSafe, Queued, r
<1>10. CASE WorkerUpsertLeadsFails
  <2>1. c \in leadIds => r \in dropped'
    BY <1>10, <1>r DEF WorkerUpsertLeadsFails
  <2>. QED
    BY <1>10, <2>1 DEF WorkerUpsertLeadsFails, LeadSafe, Queued, r
<1>11. CASE WorkerSelect
  <2>1. /\ r \in dropped => r \in dropped'
        /\ step = "select" /\ queue' = queue /\ pending' = pending
        /\ reportLead' = reportLead
    BY <1>11, <1>r, RefreshIsMessage DEF WorkerSelect, Refreshes, Refresh
  <2>. QED
    BY <2>1 DEF LeadSafe, Queued, r
<1>12. CASE WorkerUpsert
  <2>1. reportLead[c] # NoRow => reportLead'[c] # NoRow
    BY <1>12, NoRowAssumption DEF WorkerUpsert, Upserted, TypeOK
  <2>. QED
    BY <1>12, <2>1 DEF WorkerUpsert, LeadSafe, Queued, r
<1>13. CASE WorkerPostbacksFail
  BY <1>13 DEF WorkerPostbacksFail, LeadSafe, Queued
<1>14. CASE PeriodElapses
  BY <1>14 DEF PeriodElapses, LeadSafe, Queued
<1>15. CASE Restart
  <2>1. \/ reportLead[c] # NoRow \/ r \in dropped \/ r \in InHand
    BY <1>r DEF LeadSafe, InHand, r
  <2>. QED
    BY <1>15, <2>1 DEF Restart, LeadSafe, r
<1>16. CASE UNCHANGED vars
  BY <1>16 DEF vars, LeadSafe, Queued
<1>. QED
  BY <1>1, <1>2, <1>3, <1>4, <1>5, <1>6, <1>7, <1>8, <1>9, <1>10, <1>11,
     <1>12, <1>13, <1>14, <1>15, <1>16 DEF Next, Worker

LEMMA LeadStep ==
  TypeOK /\ NoForgottenLead /\ [Next]_vars => NoForgottenLead'
<1> SUFFICES ASSUME TypeOK, NoForgottenLead, [Next]_vars
             PROVE  NoForgottenLead'
  OBVIOUS
<1>1. \A i \in 1..Len(leads) : leads[i] \in ClickId /\ LeadSafe(leads[i])
  BY DEF NoForgottenLead, LeadSafe, TypeOK
<1>2. \A c \in ClickId : LeadSafe(c) => LeadSafe(c)'
  BY LeadSafeStep
<1>3. ASSUME NEW c \in ClickId, TrackLead(c)
      PROVE  \A i \in 1..Len(leads') :
               LeadSafe(leads[i])'
  <2>1. /\ Len(leads') = Len(leads) + 1 /\ leads'[Len(leads) + 1] = c
        /\ \A i \in 1..Len(leads) : leads'[i] = leads[i]
    BY <1>3 DEF TrackLead, TypeOK
  <2>2. LeadSafe(c)'
    BY <1>3 DEF TrackLead, LeadSafe
  <2>3. ASSUME NEW i \in 1..Len(leads'), i # Len(leads) + 1
        PROVE  LeadSafe(leads[i])'
    <3>1. i \in 1..Len(leads)
      BY <2>1, <2>3 DEF TypeOK
    <3>2. PICK d \in ClickId : d = leads[i] /\ LeadSafe(d)'
      BY <1>1, <1>2, <3>1
    <3>. QED
      BY <2>1, <3>1, <3>2 DEF LeadSafe
  <2>4. ASSUME NEW i \in 1..Len(leads'), i = Len(leads) + 1
        PROVE  LeadSafe(leads[i])'
    BY <2>1, <2>2, <2>4 DEF LeadSafe
  <2>. QED
    BY <2>3, <2>4
<1>4. CASE leads' = leads
  <2>1. ASSUME NEW i \in 1..Len(leads)
        PROVE  LeadSafe(leads[i])'
    <3>1. PICK d \in ClickId : d = leads[i] /\ LeadSafe(d)'
      BY <1>1, <1>2
    <3>. QED
      BY <1>4, <3>1 DEF LeadSafe
  <2>. QED
    BY <1>4, <2>1 DEF NoForgottenLead, LeadSafe
<1>5. (\E c \in ClickId : TrackLead(c)) \/ leads' = leads
  BY DEF Next, Worker, vars, tables, memory, SaveCampaign, TrackClick,
     TrackPostback, Enqueue, WorkerStart, WorkerGet, WorkerDrained,
     WorkerUpsertLeads, WorkerUpsertLeadsFails, WorkerSelect, WorkerUpsert,
     WorkerPostbacksFail, PeriodElapses, Restart
<1>. QED
  BY <1>3, <1>4, <1>5 DEF NoForgottenLead, LeadSafe

-----------------------------------------------------------------------------
(* The theorems.                                                           *)

LEMMA Invariance == Spec => []IInv
<1>1. Init => IInv
  <2>1. Init => TypeOK
    BY TypeInit
  <2>2. Init => RowIsOneEvent /\ SelectedRows
    BY DEF Init, RowIsOneEvent, SelectedRows
  <2>3. Init => PostbackPayout /\ NoForgottenLead
    BY DEF Init, PostbackPayout, NoForgottenLead
  <2>4. Init => NoSilentlyStaleRow
    BY DEF Init, NoSilentlyStaleRow, Behind, PostbacksOf
  <2>. QED
    BY <2>1, <2>2, <2>3, <2>4 DEF IInv
<1>2. IInv /\ [Next]_vars => IInv'
  BY TypeStep, RowStep, PayoutStep, StaleStep, LeadStep DEF IInv
<1>. QED
  BY <1>1, <1>2, PTL DEF Spec

\* A report row that misses a stored postback has a refresh ahead that will see
\* it, or one that was given up, whatever the two threads do in between.
THEOREM NeverSilentlyStale == Spec => []NoSilentlyStaleRow
<1>1. IInv => NoSilentlyStaleRow
  BY DEF IInv
<1>. QED
  BY Invariance, <1>1, PTL

\* A stored lead is reported, on its way to the report, or given up.
THEOREM LeadsNeverForgotten == Spec => []NoForgottenLead
<1>1. IInv => NoForgottenLead
  BY DEF IInv
<1>. QED
  BY Invariance, <1>1, PTL

\* The columns of a report row come from one event of the click, also for click
\* ids that several clicks share.
THEOREM RowsAreEvents == Spec => []RowIsOneEvent
<1>1. IInv => RowIsOneEvent
  BY DEF IInv
<1>. QED
  BY Invariance, <1>1, PTL

\* The leads list shows a payout exactly for accepted and expected leads.
THEOREM PayoutsFitStatus == Spec => []PayoutIffPaidStatus
<1>1. IInv => PayoutIffPaidStatus
  <2> SUFFICES ASSUME IInv, NEW c \in ClickId, reportLead[c] # NoRow
               PROVE  reportLead[c].cost # Null
                        <=> reportLead[c].status \in {"accept", "expect"}
    BY DEF PayoutIffPaidStatus
  <2>1. OneEvent(c, reportLead[c])
    BY DEF IInv, RowIsOneEvent
  <2>. QED
    BY <2>1, TermsAssumption
    DEF IInv, OneEvent, PostbackPayout, PostbacksOf, LeadStatus
<1>. QED
  BY Invariance, <1>1, PTL

-----------------------------------------------------------------------------
(* The pipeline implements the ledger.                                     *)

Posted == [i \in 1..Len(postbacks) |-> postbacks[i].id]
Clicked == {c \in ClickId : ClicksOf(c) # {}}
Listed == {c \in ClickId : reportLead[c] # NoRow}
ShownRows == [c \in ClickId |-> Shown(c)]

\* The click ids of a sequence of postbacks.
LEMMA IdsOfPostbacks ==
  ASSUME NEW ps \in Seq(Postback)
  PROVE  LET ids == [i \in 1..Len(ps) |-> ps[i].id]
         IN ids \in Seq(ClickId) /\ Len(ids) = Len(ps)
<1> DEFINE ids == [i \in 1..Len(ps) |-> ps[i].id]
<1>1. Len(ps) \in Nat /\ \A i \in 1..Len(ps) : ps[i].id \in ClickId
  <2>1. Len(ps) \in Nat /\ \A i \in 1..Len(ps) : ps[i] \in Postback
    OBVIOUS
  <2>. QED
    BY <2>1 DEF Postback
<1>2. ids \in [1..Len(ps) -> ClickId]
  BY <1>1
<1> HIDE DEF ids
<1>3. ids \in Seq(ClickId)
  BY <1>1, <1>2, SeqDef
<1>4. Len(ids) = Len(ps)
  <2>1. DOMAIN ids = 1..Len(ps) /\ DOMAIN ids = 1..Len(ids) /\ Len(ids) \in Nat
    BY <1>2, <1>3, LenProperties
  <2>. QED
    BY <1>1, <2>1
<1>. QED
  BY <1>3, <1>4 DEF ids

LEMMA LedgerStep == IInv /\ [Next]_vars => [Ledger!Next]_(Ledger!vars)
<1> SUFFICES ASSUME IInv, [Next]_vars
             PROVE  Ledger!Next \/ UNCHANGED <<Posted, Clicked, Listed, ShownRows>>
  BY DEF Ledger!vars, Posted, Clicked, Listed, ShownRows
<1> USE DEF tables, memory
<1>t. TypeOK /\ RowIsOneEvent /\ SelectedRows
  BY DEF IInv
\* Steps that only move the refreshes around.
<1>1. CASE /\ clicks' = clicks /\ postbacks' = postbacks
           /\ reportLead' = reportLead
  BY <1>1 DEF Posted, Clicked, Listed, ShownRows, ClicksOf, Shown
<1>2. ASSUME NEW c \in ClickId, NEW k \in CampaignId, TrackClick(c, k)
      PROVE  Ledger!Next
  <2>1. Clicked' = Clicked \cup {c}
    <3> DEFINE click == [id |-> c, campaign |-> k]
    <3>1. clicks' = clicks \cup {click} /\ click.id = c
      BY <1>2 DEF TrackClick
    <3> HIDE DEF click
    <3>2. \A d \in ClickId : ClicksOf(d)' # {} <=> ClicksOf(d) # {} \/ d = c
      BY <3>1 DEF ClicksOf
    <3>. QED
      BY <3>2 DEF Clicked
  <2>2. Posted' = Posted /\ Listed' = Listed /\ ShownRows' = ShownRows
    BY <1>2 DEF TrackClick, Posted, Listed, ShownRows, Shown
  <2>3. Ledger!Click(c)
    BY <2>1, <2>2 DEF Ledger!Click, Posted, Clicked, Listed, ShownRows
  <2>. QED
    BY <2>3 DEF Ledger!Next
<1>3. ASSUME NEW c \in ClickId, NEW ext \in External \cup {NoExternal},
             TrackPostback(c, ext)
      PROVE  Ledger!Next
  <2>1. PICK t \in TermsFor(c) :
          postbacks' = Append(postbacks, PostbackOf(c, ext, t))
    BY <1>3 DEF TrackPostback
  <2>2. /\ Len(postbacks') = Len(postbacks) + 1
        /\ postbacks'[Len(postbacks) + 1].id = c
        /\ \A i \in 1..Len(postbacks) : postbacks'[i] = postbacks[i]
    BY <1>t, <2>1, PostbackOfRow DEF TypeOK
  <2>3. /\ Posted \in Seq(ClickId) /\ Len(Posted) = Len(postbacks)
        /\ Posted' \in Seq(ClickId) /\ Len(Posted') = Len(postbacks')
    BY <1>t, TypeStep, IdsOfPostbacks DEF Posted, TypeOK
  <2>4. Posted' = Append(Posted, c)
    <3>1. /\ Append(Posted, c) \in Seq(ClickId)
          /\ Len(Append(Posted, c)) = Len(Posted) + 1
      BY <2>3
    <3>2. ASSUME NEW i \in 1..Len(Posted')
          PROVE  Posted'[i] = Append(Posted, c)[i]
      <4>1. CASE i = Len(Posted) + 1
        BY <2>2, <2>3, <4>1 DEF Posted
      <4>2. CASE i # Len(Posted) + 1
        <5>1. i \in 1..Len(Posted)
          BY <2>2, <2>3, <4>2
        <5>2. Append(Posted, c)[i] = Posted[i]
          BY <2>3, <5>1
        <5>. QED
          BY <2>2, <2>3, <5>1, <5>2 DEF Posted
      <4>. QED
        BY <4>1, <4>2
    <3>. QED
      BY <2>2, <2>3, <3>1, <3>2, SeqEqual
  <2>5. Clicked' = Clicked /\ Listed' = Listed /\ ShownRows' = ShownRows
    BY <1>3 DEF TrackPostback, Clicked, Listed, ShownRows, Shown, ClicksOf
  <2>6. Ledger!Receive(c)
    BY <2>4, <2>5 DEF Ledger!Receive, Posted, Clicked, Listed, ShownRows
  <2>. QED
    BY <2>6 DEF Ledger!Next
<1>4. CASE WorkerUpsertLeads \/ WorkerUpsert
  <2>1. clicks' = clicks /\ postbacks' = postbacks
    BY <1>4 DEF WorkerUpsertLeads, WorkerUpsert
  <2>2. Posted' = Posted /\ Clicked' = Clicked
    BY <2>1 DEF Posted, Clicked, ClicksOf
  <2>3. RowIsOneEvent'
    BY <1>t, RowStep
  <2>4. ASSUME NEW c \in ClickId
        PROVE  /\ reportLead[c] # NoRow => reportLead'[c] # NoRow
               /\ \/ Shown(c)' = Shown(c)
                  \/ reportLead'[c] # NoRow /\ Shown(c)' > Shown(c)
    <3>1. CASE WorkerUpsertLeads
      <4> DEFINE known == {d \in leadIds : ClicksOf(d) # {}}
                 new == {d \in known : reportLead[d] = NoRow}
      <4>1. PICK pick \in [new -> clicks] :
              reportLead' = [d \in ClickId |->
                IF d \in new THEN LeadRow(pick[d]) ELSE reportLead[d]]
        BY <3>1 DEF WorkerUpsertLeads
      <4>. QED
        BY <4>1 DEF Shown, LeadRow
    <3>2. CASE WorkerUpsert
      <4>1. /\ step = "upsert"
            /\ reportLead' = [d \in ClickId |->
                 IF d \in DOMAIN rows THEN rows[d] ELSE reportLead[d]]
        BY <3>2 DEF WorkerUpsert, Upserted
      <4>2. CASE c \in DOMAIN rows
        <5>1. /\ rows[c] # NoRow /\ rows[c].src \in Nat
              /\ Shown(c) \in Nat /\ Shown(c) <= rows[c].src
          BY <1>t, <4>1, <4>2, NoRowAssumption
          DEF TypeOK, SelectedRows, ReportRow, Shown
        <5>. QED
          BY <4>1, <4>2, <5>1 DEF Shown
      <4>3. CASE c \notin DOMAIN rows
        BY <4>1, <4>3 DEF Shown
      <4>. QED
        BY <4>2, <4>3
    <3>. QED
      BY <1>4, <3>1, <3>2
  <2>5. Listed \subseteq Listed'
    BY <2>4 DEF Listed
  <2>6. Listed' \subseteq Clicked'
    BY <2>3 DEF Listed, Clicked, RowIsOneEvent, OneEvent
  <2>7. \A c \in ClickId :
          \/ ShownRows'[c] = ShownRows[c]
          \/ /\ c \in Listed' /\ ShownRows'[c] > ShownRows[c]
             /\ ShownRows'[c] \in 1..Len(Posted) /\ Posted[ShownRows'[c]] = c
    <3> SUFFICES ASSUME NEW c \in ClickId, Shown(c)' # Shown(c)
                 PROVE  /\ c \in Listed' /\ Shown(c)' > Shown(c)
                        /\ Shown(c)' \in 1..Len(Posted)
                        /\ Posted[Shown(c)'] = c
      BY DEF ShownRows
    <3>1. reportLead'[c] # NoRow /\ Shown(c)' > Shown(c) /\ Shown(c) \in Nat
      BY <1>t, <2>4 DEF Shown, TypeOK, ReportRow
    <3>2. Shown(c)' = reportLead'[c].src /\ Shown(c)' # 0
      BY <1>t, <3>1, TypeStep DEF Shown, TypeOK, ReportRow
    <3>3. Shown(c)' \in PostbacksOf(c)'
      BY <2>3, <3>1, <3>2 DEF RowIsOneEvent, OneEvent
    <3>4. Shown(c)' \in 1..Len(postbacks) /\ postbacks[Shown(c)'].id = c
      BY <2>1, <3>3 DEF PostbacksOf
    <3>5. Len(Posted) = Len(postbacks)
      BY <1>t, IdsOfPostbacks DEF Posted, TypeOK
    <3>. QED
      BY <3>1, <3>4, <3>5 DEF Listed, Posted
  <2>8. Ledger!Publish
    BY <2>2, <2>5, <2>6, <2>7
    DEF Ledger!Publish, Posted, Clicked, Listed, ShownRows
  <2>. QED
    BY <2>8 DEF Ledger!Next
<1>5. \/ clicks' = clicks /\ postbacks' = postbacks /\ reportLead' = reportLead
      \/ \E c \in ClickId, k \in CampaignId : TrackClick(c, k)
      \/ \E c \in ClickId, ext \in External \cup {NoExternal} :
           TrackPostback(c, ext)
      \/ WorkerUpsertLeads \/ WorkerUpsert
  BY DEF Next, Worker, vars, SaveCampaign, TrackLead, Enqueue, WorkerStart,
     WorkerGet, WorkerDrained, WorkerUpsertLeadsFails, WorkerSelect,
     WorkerPostbacksFail, PeriodElapses, Restart
<1>. QED
  BY <1>1, <1>2, <1>3, <1>4, <1>5

\* The leads report keeps the promise of LeadLedger: lines appear only for
\* known clicks, never disappear, and only move to newer postbacks of their own
\* click, for any number of clicks, database errors and restarts.
THEOREM ImplementsLedger == Spec => LedgerSpec
<1>1. Init => Ledger!Init
  <2> SUFFICES ASSUME Init PROVE Ledger!Init
    OBVIOUS
  <2>1. Posted = <<>>
    BY DEF Init, Posted
  <2>2. Clicked = {} /\ Listed = {} /\ ShownRows = [c \in ClickId |-> 0]
    BY DEF Init, Clicked, Listed, ShownRows, Shown, ClicksOf
  <2>. QED
    BY <2>1, <2>2 DEF Ledger!Init, Posted, Clicked, Listed, ShownRows
<1>. QED
  BY <1>1, LedgerStep, Invariance, PTL DEF Spec, LedgerSpec, Ledger!Spec
=============================================================================
