------------------------------ MODULE FlowRouting ------------------------------
(***************************************************************************)
(* The flows of one campaign and the visitors they are given to.           *)
(*                                                                         *)
(* Process.get (tracker/routes.py) reads two cookies, has                  *)
(* FlowService.process_flows (core/services.py) choose a flow, stores the  *)
(* click, answers with a redirect or with the page the landing renderer    *)
(* returns, and sets both cookies; a visitor no flow fits is stored as a   *)
(* discard.  Operators create, change, order and delete flows, upload      *)
(* landing archives and name the campaign's default flow.                  *)
(*                                                                         *)
(* One HTTP thread does all of it, so requests do not overlap; what a      *)
(* request has not stored yet is lost when the process dies, and the       *)
(* visitor's clock and the loss of an answer are outside the process.      *)
(***************************************************************************)
EXTENDS Integers

CONSTANTS
  Visitor,    \* browsers, each with the cookies of the campaign's domain
  Client,     \* what rules can tell apart: country, device, bot ...
  Forms,      \* what an operator may submit for a flow
  NoRule,     \* rule is null
  Orders,     \* order values an operator may give
  NoFlow,     \* no row, no flow chosen, no flow_id cookie
  Null,       \* SQL NULL
  Idle,       \* the HTTP thread is between two requests
  MaxFlows, MaxVisits, MaxEdits, MaxCrashes   \* bounds of the model

FlowId == 1..MaxFlows
Landing == {"absent", "empty", "page"}
Action == {"redirect", "render"}
\* A rule is the set of clients it matches: {} for one that cannot run.
Rule == (SUBSET Client) \cup {NoRule}
Form == [rule : Rule, action : Action, enabled : BOOLEAN, once : BOOLEAN]
Flow == [rule : Rule, action : Action, enabled : BOOLEAN, once : BOOLEAN,
         order : Orders \cup {-1}, deleted : BOOLEAN]
Request == [op : {"store"}, flow : FlowId, row : Flow, good : BOOLEAN]
           \cup [op : {"clear"}, flow : FlowId]
           \cup [op : {"answer"}, visitor : Visitor,
                 flow : FlowId \cup {NoFlow}, from : FlowId \cup {NoFlow},
                 fallback : BOOLEAN]

ASSUME RoutingAssumption ==
  /\ MaxFlows \in Nat /\ MaxVisits \in Nat /\ MaxEdits \in Nat
  /\ MaxCrashes \in Nat
  /\ Orders \subseteq Int
  /\ Forms \subseteq Form
  /\ NoFlow \notin Flow \cup FlowId
  /\ Null \notin FlowId
  /\ Idle \notin Request

VARIABLES
  flows,        \* table flow: FlowId -> Flow or NoFlow
  defaultFlow,  \* campaign.default_flow_id
  landing,      \* FlowId -> the flow's directory under LANDING_PAGES_BASE_PATH
  request,      \* HTTP thread: what the request has still to do
  cookie,       \* Visitor -> the flow_id cookie
  fresh,        \* Visitor -> the timestamp cookie is younger than 24 hours
  clicks, discards,  \* rows of track_click and track_discard
  edits, crashes,    \* changes by operators and restarts so far
  passed,       \* history: flows the visitor was given and has left since it
                \* last started from the top
  fellBack,     \* history: ... and it has been given the default flow unmatched
  spoiled       \* history: flows whose latest upload failed or was cut short

tables == <<flows, defaultFlow, landing>>
browser == <<cookie, fresh>>
tracked == <<clicks, discards>>
history == <<passed, fellBack, spoiled>>
vars == <<tables, request, browser, tracked, edits, crashes, history>>

Exists(f) == flows[f] # NoFlow
Listed == {f \in FlowId : Exists(f) /\ flows[f].enabled /\ ~flows[f].deleted}
HasLandingPage(f) == landing[f] = "page"

\* order_value DESC, id ASC.
Before(f, g) ==
  \/ flows[f].order > flows[g].order
  \/ flows[f].order = flows[g].order /\ f < g

TypeOK ==
  /\ flows \in [FlowId -> Flow \cup {NoFlow}]
  /\ defaultFlow \in FlowId \cup {Null}
  /\ landing \in [FlowId -> Landing]
  /\ request \in Request \cup {Idle}
  /\ cookie \in [Visitor -> FlowId \cup {NoFlow}]
  /\ fresh \in [Visitor -> BOOLEAN]
  /\ clicks \in Nat /\ discards \in Nat
  /\ edits \in Nat /\ crashes \in Nat
  /\ passed \in [Visitor -> SUBSET FlowId]
  /\ fellBack \in [Visitor -> BOOLEAN]
  /\ spoiled \subseteq FlowId

Init ==
  /\ flows = [f \in FlowId |-> NoFlow]
  /\ defaultFlow = Null
  /\ landing = [f \in FlowId |-> "absent"]
  /\ request = Idle
  /\ cookie = [v \in Visitor |-> NoFlow]
  /\ fresh = [v \in Visitor |-> FALSE]
  /\ clicks = 0 /\ discards = 0
  /\ edits = 0 /\ crashes = 0
  /\ passed = [v \in Visitor |-> {}]
  /\ fellBack = [v \in Visitor |-> FALSE]
  /\ spoiled = {}

-----------------------------------------------------------------------------
(* process_flows.                                                          *)

\* A rule that does not run matches nobody.
Matches(f, c) ==
  c \in (IF flows[f].rule = NoRule THEN Client ELSE flows[f].rule)

\* The flow of the cookie is one process_flows finds in its list.
Placed(v) == cookie[v] \in Listed

\* The visitor stays with its flow: for good, or for 24 hours from its latest
\* visit when the flow is shown once.
Retained(v, c) ==
  /\ Placed(v)
  /\ ~flows[cookie[v]].once \/ fresh[v]
  /\ Matches(cookie[v], c)

\* Mutant: the search starts from the top again.
AheadFromTop(v, c) == {f \in Listed : f # cookie[v] /\ Matches(f, c)}

\* The matching flows after the visitor's own, or all of them.
Ahead(v, c) ==
  {f \in Listed : (Placed(v) => Before(cookie[v], f)) /\ Matches(f, c)}

Fallback(v, c) == ~Retained(v, c) /\ Ahead(v, c) = {}

\* Mutant: a default flow that is switched off is no fallback, and the id is
\* given out all the same.
ChosenUnlisted(v, c, f) ==
  \/ Retained(v, c) /\ f = cookie[v]
  \/ /\ ~Retained(v, c)
     /\ f \in Ahead(v, c)
     /\ \A g \in Ahead(v, c) : g = f \/ Before(f, g)
  \/ Fallback(v, c) /\ f = (IF defaultFlow = Null THEN NoFlow ELSE defaultFlow)

Chosen(v, c, f) ==
  \/ Retained(v, c) /\ f = cookie[v]
  \/ /\ ~Retained(v, c)
     /\ f \in Ahead(v, c)
     /\ \A g \in Ahead(v, c) : g = f \/ Before(f, g)
  \/ Fallback(v, c) /\ f = (IF defaultFlow \in Listed THEN defaultFlow ELSE NoFlow)

-----------------------------------------------------------------------------
(* A visit.                                                                *)

\* Process.get up to the stored click.
Visit(v, c) ==
  /\ request = Idle /\ clicks < MaxVisits
  /\ \E f \in FlowId \cup {NoFlow} :
       /\ Chosen(v, c, f)
       /\ request' = [op |-> "answer", visitor |-> v, flow |-> f,
                      from |-> IF Placed(v) THEN cookie[v] ELSE NoFlow,
                      fallback |-> Fallback(v, c)]
  /\ clicks' = clicks + 1
  /\ UNCHANGED <<tables, browser, discards, edits, crashes, history>>

\* No flow fits: track_discard, and no cookie is set.
Discard ==
  /\ request # Idle
  /\ request.op = "answer" /\ request.flow = NoFlow
  /\ discards' = discards + 1
  /\ request' = Idle
  /\ UNCHANGED <<tables, browser, clicks, edits, crashes, history>>

\* The redirect or the renderer's answer, whatever its status, with both
\* cookies.
Answer ==
  /\ request # Idle
  /\ request.op = "answer" /\ request.flow # NoFlow
  /\ LET v == request.visitor
         f == request.flow
         left == IF f = request.from THEN {} ELSE {request.from}
     IN  /\ cookie' = [cookie EXCEPT ![v] = f]
         /\ fresh' = [fresh EXCEPT ![v] = TRUE]
         /\ passed' = [passed EXCEPT ![v] =
              IF request.from = NoFlow THEN {} ELSE @ \cup left]
         /\ fellBack' = [fellBack EXCEPT ![v] =
              request.fallback \/ (@ /\ request.from # NoFlow)]
  /\ request' = Idle
  /\ UNCHANGED <<tables, tracked, edits, crashes, spoiled>>

\* The renderer cannot be reached and the request fails with the click stored,
\* or the answer does not reach the browser.
AnswerLost ==
  /\ request # Idle
  /\ request.op = "answer" /\ request.flow # NoFlow
  /\ request' = Idle
  /\ UNCHANGED <<tables, browser, tracked, edits, crashes, history>>

\* 24 hours pass since the visitor's latest visit.
StickinessEnds(v) ==
  /\ fresh[v]
  /\ fresh' = [fresh EXCEPT ![v] = FALSE]
  /\ UNCHANGED <<tables, request, cookie, tracked, edits, crashes, history>>

-----------------------------------------------------------------------------
(* Operators.                                                              *)

Editing ==
  /\ request = Idle /\ edits < MaxEdits
  /\ edits' = edits + 1
  /\ UNCHANGED <<browser, tracked, crashes>>

\* Mutant: a new flow is not put last.
RowInFront(form, order) ==
  [rule |-> form.rule, action |-> form.action, enabled |-> form.enabled,
   once |-> form.once, order |-> order + 1, deleted |-> FALSE]

Row(form, order) ==
  [rule |-> form.rule, action |-> form.action, enabled |-> form.enabled,
   once |-> form.once, order |-> order, deleted |-> FALSE]

Storing(f, r, good) == [op |-> "store", flow |-> f, row |-> r, good |-> good]

\* POST of a flow.  The row is saved, last in order, before the archive is
\* unpacked; the archive of a render flow is required, that of a redirect flow
\* ignored.
Create(f, form, good) ==
  /\ Editing
  /\ ~Exists(f) /\ \A g \in 1..(f - 1) : Exists(g)
  /\ flows' = [flows EXCEPT ![f] = Row(form, -1)]
  /\ request' = IF form.action = "render" THEN Storing(f, Row(form, -1), good)
                ELSE Idle
  /\ UNCHANGED <<defaultFlow, landing, history>>

\* Mutant: a flow may be turned into a render flow without a page.
PageKnownUnchecked(f, form, upload) == TRUE

\* validate_render_action_type: a render flow needs an archive or a page.
PageKnown(f, form, upload) ==
  form.action = "render" => upload \/ HasLandingPage(f)

\* PATCH of a flow without an archive to unpack.
Update(f, form) ==
  /\ Editing
  /\ Exists(f) /\ ~flows[f].deleted
  /\ PageKnown(f, form, FALSE)
  /\ flows' = [flows EXCEPT ![f] = Row(form, flows[f].order)]
  /\ UNCHANGED <<defaultFlow, landing, request, history>>

\* PATCH of a render flow with an archive: the row is saved after it.
Upload(f, form, good) ==
  /\ Editing
  /\ Exists(f) /\ ~flows[f].deleted
  /\ form.action = "render" /\ PageKnown(f, form, TRUE)
  /\ request' = Storing(f, Row(form, flows[f].order), good)
  /\ UNCHANGED <<tables, history>>

\* _store_landing_archive: the old directory goes first.
Wipe ==
  /\ request # Idle
  /\ request.op = "store" /\ landing[request.flow] # "empty"
  /\ landing' = [landing EXCEPT ![request.flow] = "empty"]
  /\ UNCHANGED <<flows, defaultFlow, request, browser, tracked, edits, crashes,
                 history>>

\* ... then the archive is unpacked.  Without an index file it is refused and
\* the request fails.  The row saved at the end is, for a flow that has just
\* been created, the one it has.
Unpack ==
  /\ request # Idle
  /\ request.op = "store" /\ landing[request.flow] = "empty"
  /\ LET f == request.flow IN
       \/ /\ request.good
          /\ landing' = [landing EXCEPT ![f] = "page"]
          /\ flows' = [flows EXCEPT ![f] = request.row]
          /\ spoiled' = spoiled \ {f}
       \/ /\ ~request.good
          /\ spoiled' = spoiled \cup {f}
          /\ UNCHANGED <<landing, flows>>
  /\ request' = Idle
  /\ UNCHANGED <<defaultFlow, browser, tracked, edits, crashes, passed, fellBack>>

\* FlowService.delete: the row first, the campaign's default in a statement of
\* its own.
Delete(f) ==
  /\ Editing
  /\ Exists(f) /\ ~flows[f].deleted
  /\ flows' = [flows EXCEPT ![f].deleted = TRUE]
  /\ request' = [op |-> "clear", flow |-> f]
  /\ UNCHANGED <<defaultFlow, landing, history>>

ClearDefault ==
  /\ request # Idle
  /\ request.op = "clear"
  /\ defaultFlow' = IF defaultFlow = request.flow THEN Null ELSE defaultFlow
  /\ request' = Idle
  /\ UNCHANGED <<flows, landing, browser, tracked, edits, crashes, history>>

\* PATCH of the campaign with a default flow: it must be one of the campaign's
\* and not deleted; it may be disabled.
SetDefault(d) ==
  /\ Editing
  /\ d # Null => Exists(d) /\ ~flows[d].deleted
  /\ defaultFlow' = d
  /\ UNCHANGED <<flows, landing, request, history>>

\* bulk_update_order, one transaction: flows it does not name go last.
Reorder(named, order) ==
  /\ Editing
  /\ flows' = [f \in FlowId |->
       IF Exists(f)
       THEN [flows[f] EXCEPT !.order = IF f \in named THEN order[f] ELSE -1]
       ELSE NoFlow]
  /\ passed' = [v \in Visitor |-> {}]
  /\ fellBack' = [v \in Visitor |-> FALSE]
  /\ UNCHANGED <<defaultFlow, landing, request, spoiled>>

\* The process dies and is started again.
Restart ==
  /\ request # Idle /\ crashes < MaxCrashes
  /\ crashes' = crashes + 1
  /\ request' = Idle
  /\ spoiled' = IF request.op = "store" THEN spoiled \cup {request.flow} ELSE spoiled
  /\ UNCHANGED <<tables, browser, tracked, edits, passed, fellBack>>

Next ==
  \/ \E v \in Visitor, c \in Client : Visit(v, c)
  \/ Discard
  \/ Answer
  \/ AnswerLost
  \/ \E v \in Visitor : StickinessEnds(v)
  \/ \E f \in FlowId, form \in Forms, good \in BOOLEAN : Create(f, form, good)
  \/ \E f \in FlowId, form \in Forms : Update(f, form)
  \/ \E f \in FlowId, form \in Forms, good \in BOOLEAN : Upload(f, form, good)
  \/ Wipe
  \/ Unpack
  \/ \E f \in FlowId : Delete(f)
  \/ ClearDefault
  \/ \E d \in FlowId \cup {Null} : SetDefault(d)
  \/ \E named \in SUBSET FlowId : \E order \in [named -> Orders] :
       Reorder(named, order)
  \/ Restart

Spec == Init /\ [][Next]_vars

-----------------------------------------------------------------------------
(* Properties.                                                             *)

\* A visitor moves down the list and not up: it is not given a flow it has
\* left, whatever rules, clients and new flows come and go, until its own flow
\* is off the list, the list is reordered, or it was given the default flow
\* for want of a match.
NeverBack == \A v \in Visitor : cookie[v] \in passed[v] => fellBack[v]

\* A render flow without a landing page is one whose latest upload failed or
\* was cut short: no other sequence of edits leads to it.
RenderFlowsHavePages ==
  \A f \in FlowId :
    Exists(f) /\ flows[f].action = "render" =>
      \/ HasLandingPage(f)
      \/ f \in spoiled
      \/ request # Idle /\ request.op = "store" /\ request.flow = f

\* The campaign's default is a flow that is not deleted, except while the
\* deletion is under way and when a restart cut it short.
DefaultNotDeleted ==
  \/ defaultFlow = Null
  \/ Exists(defaultFlow) /\ ~flows[defaultFlow].deleted
  \/ request # Idle /\ request.op = "clear" /\ request.flow = defaultFlow
  \/ crashes > 0

\* The alert of core/alerts.py on the campaign's default flow.
DefaultFlowAlert ==
  \/ defaultFlow = Null
  \/ ~Exists(defaultFlow)
  \/ flows[defaultFlow].deleted
  \/ ~flows[defaultFlow].enabled

\* A visitor is turned away only when the alert on the default flow is up, and
\* an answer is always one of a flow that is switched on.
DiscardsAreAlerted ==
  request # Idle /\ request.op = "answer" =>
    IF request.flow = NoFlow THEN DefaultFlowAlert ELSE request.flow \in Listed

\* Stated by the form where an operator ticks "show once" (web/src/i18n/locales/
\* en.json): after this visitor sees the flow, Bangi skips it when selecting
\* their next landing.  Exempt are the default flow itself and a visitor that starts
\* from the top because its own flow is off the list or the list is reordered.
ShownOnce ==
  [][\A v \in Visitor :
       cookie'[v] # cookie[v] /\ cookie'[v] \in passed'[v] =>
         ~flows[cookie'[v]].once \/ cookie'[v] = defaultFlow]_vars
=============================================================================
