-------------------------- MODULE FlowRouting_proofs --------------------------
(***************************************************************************)
(* Proofs about FlowRouting, for any visitors, clients, forms, and bounds. *)
(***************************************************************************)
EXTENDS FlowRouting, TLAPS

\* The row a request has yet to save is that of a flow of the table, with the
\* order the table has.
StoreSound ==
  request # Idle /\ request.op = "store" =>
    /\ Exists(request.flow)
    /\ request.row.order = flows[request.flow].order
    /\ ~request.row.deleted

\* The flow about to be given is one of the table; unless it is the default for
\* want of a match, it is the visitor's own or one after it.
AnswerSound ==
  request # Idle /\ request.op = "answer" =>
    /\ request.flow # NoFlow => Exists(request.flow)
    /\ request.from # NoFlow =>
         /\ request.from = cookie[request.visitor]
         /\ Exists(request.from)
         /\ \/ request.fallback
            \/ request.flow = request.from
            \/ request.flow # NoFlow /\ Before(request.from, request.flow)

\* What a visitor has left comes before what it has.
Descending ==
  \A v \in Visitor :
    \/ fellBack[v]
    \/ passed[v] = {}
    \/ /\ cookie[v] \in FlowId /\ Exists(cookie[v])
       /\ \A p \in passed[v] : Exists(p) /\ Before(p, cookie[v])

IInv == TypeOK /\ StoreSound /\ AnswerSound /\ Descending

\* A step that removes no flow and reorders none.
OrderKept ==
  \A f \in FlowId : Exists(f) => Exists(f)' /\ flows'[f].order = flows[f].order

-----------------------------------------------------------------------------
(* Lemmas about the operators.                                             *)

LEMMA RowType ==
  ASSUME NEW form \in Forms, NEW order \in Orders \cup {-1}
  PROVE  /\ Row(form, order) \in Flow
         /\ Row(form, order).order = order /\ ~Row(form, order).deleted
         /\ Row(form, order).action = form.action
BY RoutingAssumption DEF Row, Form, Flow

LEMMA FlowType ==
  ASSUME TypeOK, NEW f \in FlowId, Exists(f)
  PROVE  flows[f] \in Flow /\ flows[f].order \in Int /\ f \in Int
<1>1. flows[f] \in Flow
  BY DEF TypeOK, Exists
<1>2. flows[f].order \in Orders \cup {-1}
  BY <1>1 DEF Flow
<1>3. flows[f].order \in Int
  BY <1>2, RoutingAssumption
<1>4. f \in Int
  BY RoutingAssumption DEF FlowId
<1> QED BY <1>1, <1>3, <1>4

LEMMA BeforeIrreflexive ==
  ASSUME TypeOK, NEW f \in FlowId, Exists(f)
  PROVE  ~Before(f, f)
BY FlowType DEF Before

LEMMA BeforeTransitive ==
  ASSUME TypeOK, NEW f \in FlowId, NEW g \in FlowId, NEW h \in FlowId,
         Exists(f), Exists(g), Exists(h), Before(f, g), Before(g, h)
  PROVE  Before(f, h)
<1>1. /\ flows[f].order \in Int /\ flows[g].order \in Int /\ flows[h].order \in Int
      /\ f \in Int /\ g \in Int /\ h \in Int
  BY FlowType
<1> QED BY <1>1 DEF Before

LEMMA OrderKeptBefore ==
  ASSUME OrderKept, NEW f \in FlowId, NEW g \in FlowId, Exists(f), Exists(g),
         Before(f, g)
  PROVE  Exists(f)' /\ Exists(g)' /\ Before(f, g)'
BY DEF OrderKept, Before

\* Where flows keep their order, visitors keep theirs.
LEMMA DescendingKept ==
  ASSUME TypeOK, Descending, OrderKept,
         cookie' = cookie, passed' = passed, fellBack' = fellBack
  PROVE  Descending'
<1> SUFFICES ASSUME NEW v \in Visitor, ~fellBack[v], passed[v] # {}
             PROVE  /\ cookie[v] \in FlowId /\ Exists(cookie[v])'
                    /\ \A p \in passed[v] : Exists(p)' /\ Before(p, cookie[v])'
  BY DEF Descending, Before, Exists
<1>1. /\ cookie[v] \in FlowId /\ Exists(cookie[v])
      /\ \A p \in passed[v] : Exists(p) /\ Before(p, cookie[v])
  BY DEF Descending
<1>2. passed[v] \subseteq FlowId
  BY DEF TypeOK
<1> QED BY <1>1, <1>2, OrderKeptBefore DEF OrderKept

-----------------------------------------------------------------------------
(* The actions.                                                            *)

LEMMA InitIInv == Init => IInv
BY RoutingAssumption DEF Init, IInv, TypeOK, StoreSound, AnswerSound, Descending,
  Landing

LEMMA VisitStep ==
  ASSUME IInv, NEW v \in Visitor, NEW c \in Client, Visit(v, c)
  PROVE  IInv'
<1> USE DEF IInv
<1>0. UNCHANGED <<tables, browser, history>>
  BY DEF Visit
<1>1. PICK f \in FlowId \cup {NoFlow} :
        /\ Chosen(v, c, f)
        /\ request' = [op |-> "answer", visitor |-> v, flow |-> f,
                       from |-> IF Placed(v) THEN cookie[v] ELSE NoFlow,
                       fallback |-> Fallback(v, c)]
  BY DEF Visit
<1>2. Placed(v) => cookie[v] \in FlowId /\ Exists(cookie[v])
  BY DEF Placed, Listed
<1>3. Fallback(v, c) \in BOOLEAN
  BY DEF Fallback
<1>4. request' \in Request /\ request' # Idle
  BY <1>1, <1>2, <1>3, RoutingAssumption DEF Request
<1>5. TypeOK'
  BY <1>0, <1>4 DEF TypeOK, Visit, tables, browser, history
<1>6. StoreSound'
  BY <1>1 DEF StoreSound
<1>7. f # NoFlow => f \in FlowId /\ Exists(f)
  BY <1>1, <1>2, RoutingAssumption DEF Chosen, Retained, Ahead, Listed
<1>8. Placed(v) /\ ~Fallback(v, c) /\ f # cookie[v] =>
        f # NoFlow /\ Before(cookie[v], f)
  <2>1. ASSUME Placed(v), ~Fallback(v, c), f # cookie[v]
        PROVE  f \in Ahead(v, c)
    BY <1>1, <2>1 DEF Chosen
  <2> QED BY <2>1, RoutingAssumption DEF Ahead, Listed
<1>9. AnswerSound'
  BY <1>0, <1>1, <1>2, <1>7, <1>8, RoutingAssumption
     DEF AnswerSound, tables, browser, Exists, Before
<1>10. OrderKept
  BY <1>0 DEF OrderKept, tables, Exists
<1>11. Descending'
  BY <1>0, <1>10, DescendingKept DEF browser, history
<1> QED BY <1>5, <1>6, <1>9, <1>11

\* The visitor moves on, stays, or starts again.
LEMMA AnswerStep ==
  ASSUME IInv, Answer
  PROVE  IInv'
<1> USE DEF IInv
<1> DEFINE v == request.visitor
           f == request.flow
           from == request.from
<1>1. /\ request \in Request /\ request # Idle /\ request.op = "answer"
      /\ f # NoFlow /\ request' = Idle
  BY DEF Answer, TypeOK
<1>2. /\ v \in Visitor /\ f \in FlowId /\ from \in FlowId \cup {NoFlow}
      /\ request.fallback \in BOOLEAN
  BY <1>1 DEF Request
<1>3. /\ cookie' = [cookie EXCEPT ![v] = f]
      /\ passed' = [passed EXCEPT ![v] =
           IF from = NoFlow THEN {}
           ELSE @ \cup (IF f = from THEN {} ELSE {from})]
      /\ fellBack' = [fellBack EXCEPT ![v] =
           request.fallback \/ (@ /\ from # NoFlow)]
      /\ UNCHANGED <<flows, defaultFlow, landing, clicks, discards, edits,
                     crashes, spoiled>>
  BY DEF Answer, tables, tracked
<1>4. TypeOK'
  <2>1. fresh' \in [Visitor -> BOOLEAN]
    BY DEF Answer, TypeOK
  <2>2. passed' \in [Visitor -> SUBSET FlowId]
    BY <1>2, <1>3 DEF TypeOK
  <2>3. fellBack' \in [Visitor -> BOOLEAN]
    BY <1>2, <1>3 DEF TypeOK
  <2> QED BY <1>1, <1>2, <1>3, <2>1, <2>2, <2>3 DEF TypeOK
<1>5. StoreSound' /\ AnswerSound'
  BY <1>1 DEF StoreSound, AnswerSound
<1>6. Descending'
  <2> SUFFICES ASSUME NEW w \in Visitor, ~fellBack'[w], passed'[w] # {}
               PROVE  /\ cookie'[w] \in FlowId /\ Exists(cookie'[w])
                      /\ \A p \in passed'[w] : Exists(p) /\ Before(p, cookie'[w])
    BY <1>3 DEF Descending, Exists, Before
  <2>1. CASE w # v
    BY <2>1, <1>3 DEF Descending, TypeOK
  <2>2. CASE w = v
    <3>1. /\ ~request.fallback /\ from # NoFlow /\ ~fellBack[v]
          /\ cookie'[v] = f
          /\ passed'[v] = passed[v] \cup (IF f = from THEN {} ELSE {from})
      BY <1>2, <1>3, <2>2 DEF TypeOK
    <3>2. /\ from = cookie[v] /\ from \in FlowId /\ Exists(from) /\ Exists(f)
          /\ f = from \/ Before(from, f)
      BY <1>1, <1>2, <3>1 DEF AnswerSound
    <3>3. passed[v] \subseteq FlowId
      BY <1>2 DEF TypeOK
    <3>4. \A p \in passed[v] : Exists(p) /\ Before(p, from)
      BY <1>2, <3>1, <3>2 DEF Descending
    <3>5. \A p \in passed'[v] : Exists(p) /\ Before(p, f)
      BY <1>2, <3>1, <3>2, <3>3, <3>4, BeforeTransitive
    <3> QED BY <1>2, <2>2, <3>1, <3>2, <3>5
  <2> QED BY <2>1, <2>2
<1> QED BY <1>4, <1>5, <1>6

\* Requests that change no flow the visitors' order depends on.
LEMMA QuietStep ==
  ASSUME IInv, Discard \/ AnswerLost \/ (\E v \in Visitor : StickinessEnds(v))
  PROVE  IInv'
<1> USE DEF IInv
<1>1. /\ UNCHANGED <<tables, cookie, edits, crashes, history>>
      /\ request' = Idle \/ request' = request
  BY DEF Discard, AnswerLost, StickinessEnds, browser, tracked
<1>2. TypeOK'
  <2>1. fresh' \in [Visitor -> BOOLEAN]
    BY DEF TypeOK, Discard, AnswerLost, StickinessEnds, browser
  <2>2. clicks' \in Nat /\ discards' \in Nat
    BY DEF TypeOK, Discard, AnswerLost, StickinessEnds, tracked
  <2> QED BY <1>1, <2>1, <2>2 DEF TypeOK, tables, history
<1>3. StoreSound' /\ AnswerSound'
  BY <1>1 DEF StoreSound, AnswerSound, tables, Exists, Before
<1>4. OrderKept
  BY <1>1 DEF OrderKept, tables, Exists
<1>5. Descending'
  BY <1>1, <1>4, DescendingKept
     DEF history, Discard, AnswerLost, StickinessEnds, browser
<1> QED BY <1>2, <1>3, <1>5

LEMMA CreateStep ==
  ASSUME IInv, NEW f \in FlowId, NEW form \in Forms, NEW good \in BOOLEAN,
         Create(f, form, good)
  PROVE  IInv'
<1> USE DEF IInv
<1> DEFINE r == Row(form, -1)
<1>1. r \in Flow /\ r # NoFlow /\ r.order = -1 /\ ~r.deleted
  BY RowType, RoutingAssumption
<1>2. /\ ~Exists(f)
      /\ flows' = [flows EXCEPT ![f] = r]
      /\ request' = IF form.action = "render" THEN Storing(f, r, good) ELSE Idle
      /\ UNCHANGED <<defaultFlow, landing, browser, tracked, crashes, history>>
      /\ edits' = edits + 1
  BY DEF Create, Editing
<1>3. request' \in Request \cup {Idle}
  BY <1>1, <1>2 DEF Request, Storing
<1>4. TypeOK'
  BY <1>1, <1>2, <1>3 DEF TypeOK, browser, tracked, history
<1>5. OrderKept
  BY <1>2 DEF OrderKept, TypeOK, Exists
<1>6. StoreSound' /\ AnswerSound'
  BY <1>1, <1>2 DEF StoreSound, AnswerSound, Storing, Exists, TypeOK
<1>7. Descending'
  BY <1>2, <1>5, DescendingKept DEF browser, history
<1> QED BY <1>4, <1>6, <1>7

LEMMA UpdateStep ==
  ASSUME IInv, NEW f \in FlowId, NEW form \in Forms, Update(f, form)
  PROVE  IInv'
<1> USE DEF IInv
<1> DEFINE r == Row(form, flows[f].order)
<1>1. r \in Flow /\ r # NoFlow /\ r.order = flows[f].order
  <2>1. flows[f].order \in Orders \cup {-1}
    BY FlowType DEF Update, Flow
  <2>2. r \in Flow /\ r.order = flows[f].order
    BY <2>1, RowType
  <2> QED BY <2>2, RoutingAssumption
<1>2. /\ Exists(f) /\ request = Idle
      /\ flows' = [flows EXCEPT ![f] = r]
      /\ UNCHANGED <<defaultFlow, landing, request, browser, tracked, crashes,
                     history>>
      /\ edits' = edits + 1
  BY DEF Update, Editing
<1>3. TypeOK'
  BY <1>1, <1>2 DEF TypeOK, browser, tracked, history
<1>4. OrderKept
  BY <1>1, <1>2 DEF OrderKept, TypeOK, Exists
<1>5. StoreSound' /\ AnswerSound'
  BY <1>2 DEF StoreSound, AnswerSound
<1>6. Descending'
  BY <1>2, <1>4, DescendingKept DEF browser, history
<1> QED BY <1>3, <1>5, <1>6

LEMMA UploadStep ==
  ASSUME IInv, NEW f \in FlowId, NEW form \in Forms, NEW good \in BOOLEAN,
         Upload(f, form, good)
  PROVE  IInv'
<1> USE DEF IInv
<1> DEFINE r == Row(form, flows[f].order)
<1>1. r \in Flow /\ r.order = flows[f].order /\ ~r.deleted
  <2>1. flows[f].order \in Orders \cup {-1}
    BY FlowType DEF Upload, Flow
  <2> QED BY <2>1, RowType
<1>2. /\ Exists(f)
      /\ request' = Storing(f, r, good)
      /\ UNCHANGED <<tables, browser, tracked, crashes, history>>
      /\ edits' = edits + 1
  BY DEF Upload, Editing
<1>3. request' \in Request
  BY <1>1, <1>2 DEF Request, Storing
<1>4. TypeOK'
  BY <1>2, <1>3 DEF TypeOK, tables, browser, tracked, history
<1>5. OrderKept
  BY <1>2 DEF OrderKept, tables, Exists
<1>6. StoreSound' /\ AnswerSound'
  BY <1>1, <1>2 DEF StoreSound, AnswerSound, Storing, tables, Exists
<1>7. Descending'
  BY <1>2, <1>5, DescendingKept DEF browser, history
<1> QED BY <1>4, <1>6, <1>7

LEMMA WipeStep ==
  ASSUME IInv, Wipe
  PROVE  IInv'
<1> USE DEF IInv, Wipe
<1>1. request.flow \in FlowId
  BY DEF TypeOK, Request
<1>2. TypeOK'
  BY <1>1 DEF TypeOK, Landing, browser, tracked, history
<1>3. OrderKept
  BY DEF OrderKept, Exists
<1>4. StoreSound' /\ AnswerSound'
  BY DEF StoreSound, AnswerSound, Exists, Before, browser
<1>5. Descending'
  BY <1>3, DescendingKept DEF browser, history
<1> QED BY <1>2, <1>4, <1>5

LEMMA UnpackStep ==
  ASSUME IInv, Unpack
  PROVE  IInv'
<1> USE DEF IInv
<1> DEFINE f == request.flow
<1>1. /\ f \in FlowId /\ request.row \in Flow /\ Exists(f)
      /\ request.row.order = flows[f].order /\ request.row # NoFlow
      /\ request' = Idle
      /\ UNCHANGED <<defaultFlow, browser, tracked, edits, crashes, passed,
                     fellBack>>
  BY RoutingAssumption DEF Unpack, TypeOK, Request, StoreSound
<1>2. /\ flows' = flows \/ flows' = [flows EXCEPT ![f] = request.row]
      /\ landing' \in [FlowId -> Landing]
      /\ spoiled' \subseteq FlowId
  BY <1>1 DEF Unpack, TypeOK, Landing
<1>3. TypeOK'
  BY <1>1, <1>2 DEF TypeOK, browser, tracked
<1>4. OrderKept
  BY <1>1, <1>2 DEF OrderKept, TypeOK, Exists
<1>5. StoreSound' /\ AnswerSound'
  BY <1>1 DEF StoreSound, AnswerSound
<1>6. Descending'
  BY <1>1, <1>4, DescendingKept DEF browser
<1> QED BY <1>3, <1>5, <1>6

LEMMA DeleteStep ==
  ASSUME IInv, NEW f \in FlowId, Delete(f)
  PROVE  IInv'
<1> USE DEF IInv
<1>1. /\ Exists(f)
      /\ flows' = [flows EXCEPT ![f].deleted = TRUE]
      /\ request' = [op |-> "clear", flow |-> f]
      /\ UNCHANGED <<defaultFlow, landing, browser, tracked, crashes, history>>
      /\ edits' = edits + 1
  BY DEF Delete, Editing
<1>2. /\ flows[f] \in Flow
      /\ [flows[f] EXCEPT !.deleted = TRUE] \in Flow
      /\ [flows[f] EXCEPT !.deleted = TRUE].order = flows[f].order
  BY <1>1, FlowType DEF Flow
<1>3. flows' = [flows EXCEPT ![f] = [flows[f] EXCEPT !.deleted = TRUE]]
  BY <1>1
<1>4. request' \in Request
  BY <1>1 DEF Request
<1>5. TypeOK'
  BY <1>1, <1>2, <1>3, <1>4 DEF TypeOK, browser, tracked, history
<1>6. OrderKept
  BY <1>2, <1>3, RoutingAssumption DEF OrderKept, TypeOK, Exists
<1>7. StoreSound' /\ AnswerSound'
  BY <1>1 DEF StoreSound, AnswerSound
<1>8. Descending'
  BY <1>1, <1>6, DescendingKept DEF browser, history
<1> QED BY <1>5, <1>7, <1>8

LEMMA DefaultStep ==
  ASSUME IInv, ClearDefault \/ (\E d \in FlowId \cup {Null} : SetDefault(d))
  PROVE  IInv'
<1> USE DEF IInv
<1>1. /\ UNCHANGED <<flows, landing, browser, tracked, crashes, history>>
      /\ request' = Idle
      /\ edits' \in {edits, edits + 1}
  BY DEF ClearDefault, SetDefault, Editing
<1>2. defaultFlow' \in FlowId \cup {Null}
  BY DEF ClearDefault, SetDefault, TypeOK
<1>3. TypeOK'
  BY <1>1, <1>2 DEF TypeOK, browser, tracked, history
<1>4. OrderKept
  BY <1>1 DEF OrderKept, Exists
<1>5. StoreSound' /\ AnswerSound'
  BY <1>1 DEF StoreSound, AnswerSound
<1>6. Descending'
  BY <1>1, <1>4, DescendingKept DEF browser, history
<1> QED BY <1>3, <1>5, <1>6

\* The list is new, and so is every visitor's history.
LEMMA ReorderStep ==
  ASSUME IInv, NEW named \in SUBSET FlowId, NEW order \in [named -> Orders],
         Reorder(named, order)
  PROVE  IInv'
<1> USE DEF IInv
<1> DEFINE o(f) == IF f \in named THEN order[f] ELSE -1
<1>1. /\ request = Idle /\ request' = Idle
      /\ flows' = [f \in FlowId |->
           IF Exists(f) THEN [flows[f] EXCEPT !.order = o(f)] ELSE NoFlow]
      /\ passed' = [v \in Visitor |-> {}]
      /\ fellBack' = [v \in Visitor |-> FALSE]
      /\ UNCHANGED <<defaultFlow, landing, browser, tracked, crashes, spoiled>>
      /\ edits' = edits + 1
  BY DEF Reorder, Editing
<1>2. ASSUME NEW f \in FlowId, Exists(f)
      PROVE  [flows[f] EXCEPT !.order = o(f)] \in Flow
  <2>1. flows[f] \in Flow
    BY <1>2, FlowType
  <2>2. o(f) \in Orders \cup {-1}
    OBVIOUS
  <2> HIDE DEF o
  <2> QED BY <2>1, <2>2 DEF Flow
<1>3. flows' \in [FlowId -> Flow \cup {NoFlow}]
  <2> HIDE DEF o
  <2> QED BY <1>1, <1>2
<1>4. TypeOK'
  BY <1>1, <1>3 DEF TypeOK, browser, tracked
<1>5. StoreSound' /\ AnswerSound'
  BY <1>1 DEF StoreSound, AnswerSound
<1>6. Descending'
  BY <1>1 DEF Descending
<1> QED BY <1>4, <1>5, <1>6

LEMMA RestartStep ==
  ASSUME IInv, Restart
  PROVE  IInv'
<1> USE DEF IInv, Restart
<1>1. TypeOK'
  BY DEF TypeOK, Request, tables, browser, tracked
<1>2. OrderKept
  BY DEF OrderKept, tables, Exists
<1>3. StoreSound' /\ AnswerSound'
  BY DEF StoreSound, AnswerSound
<1>4. Descending'
  BY <1>2, DescendingKept DEF browser
<1> QED BY <1>1, <1>3, <1>4

LEMMA StutterStep ==
  ASSUME IInv, UNCHANGED vars
  PROVE  IInv'
BY DEF vars, tables, browser, tracked, history, IInv, TypeOK, StoreSound,
  AnswerSound, Descending, Exists, Before

LEMMA NextIInv == IInv /\ [Next]_vars => IInv'
<1> SUFFICES ASSUME IInv, [Next]_vars PROVE IInv'
  OBVIOUS
<1>1. CASE \E v \in Visitor, c \in Client : Visit(v, c)
  BY <1>1, VisitStep
<1>2. CASE Answer
  BY <1>2, AnswerStep
<1>3. CASE Discard \/ AnswerLost \/ (\E v \in Visitor : StickinessEnds(v))
  BY <1>3, QuietStep
<1>4. CASE \E f \in FlowId, form \in Forms, good \in BOOLEAN : Create(f, form, good)
  BY <1>4, CreateStep
<1>5. CASE \E f \in FlowId, form \in Forms : Update(f, form)
  BY <1>5, UpdateStep
<1>6. CASE \E f \in FlowId, form \in Forms, good \in BOOLEAN : Upload(f, form, good)
  BY <1>6, UploadStep
<1>7. CASE Wipe
  BY <1>7, WipeStep
<1>8. CASE Unpack
  BY <1>8, UnpackStep
<1>9. CASE \E f \in FlowId : Delete(f)
  BY <1>9, DeleteStep
<1>10. CASE ClearDefault \/ (\E d \in FlowId \cup {Null} : SetDefault(d))
  BY <1>10, DefaultStep
<1>11. CASE \E named \in SUBSET FlowId : \E order \in [named -> Orders] :
              Reorder(named, order)
  BY <1>11, ReorderStep
<1>12. CASE Restart
  BY <1>12, RestartStep
<1>13. CASE UNCHANGED vars
  BY <1>13, StutterStep
<1> QED
  BY <1>1, <1>2, <1>3, <1>4, <1>5, <1>6, <1>7, <1>8, <1>9, <1>10, <1>11, <1>12,
     <1>13 DEF Next

LEMMA Invariant == Spec => []IInv
BY InitIInv, NextIInv, PTL DEF Spec

-----------------------------------------------------------------------------
(* The landing pages and the default flow.                                 *)

\* What render flows rely on: the step touches neither the flow's row nor its
\* directory, or leaves a request that is about to.
LEMMA PagesStep ==
  ASSUME IInv, RenderFlowsHavePages, Next
  PROVE  RenderFlowsHavePages'
<1> USE DEF IInv, RenderFlowsHavePages, Exists, HasLandingPage
<1>1. ASSUME NEW v \in Visitor, NEW c \in Client, Visit(v, c)
      PROVE  RenderFlowsHavePages'
  BY <1>1 DEF Visit, tables, history
<1>2. ASSUME Discard \/ Answer \/ AnswerLost
      PROVE  RenderFlowsHavePages'
  BY <1>2 DEF Discard, Answer, AnswerLost, tables, history
<1>3. ASSUME NEW v \in Visitor, StickinessEnds(v)
      PROVE  RenderFlowsHavePages'
  BY <1>3 DEF StickinessEnds, tables, history
<1>4. ASSUME NEW f \in FlowId, NEW form \in Forms, NEW good \in BOOLEAN,
             Create(f, form, good)
      PROVE  RenderFlowsHavePages'
  <2>1. Row(form, -1).action = form.action
    BY RowType
  <2>2. /\ flows' = [flows EXCEPT ![f] = Row(form, -1)]
        /\ request = Idle
        /\ form.action = "render" =>
             request' = [op |-> "store", flow |-> f, row |-> Row(form, -1),
                         good |-> good]
        /\ UNCHANGED <<landing, spoiled>>
    BY <1>4 DEF Create, Editing, Storing, history
  <2>3. Row(form, -1) \in Flow /\ Storing(f, Row(form, -1), good) # Idle
    BY RowType, RoutingAssumption DEF Request, Storing
  <2> QED BY <2>1, <2>2, <2>3 DEF TypeOK, Storing
<1>5. ASSUME NEW f \in FlowId, NEW form \in Forms, Update(f, form)
      PROVE  RenderFlowsHavePages'
  <2>1. Row(form, flows[f].order).action = form.action
    BY DEF Row
  <2> QED BY <1>5, <2>1 DEF Update, Editing, PageKnown, TypeOK, history
<1>6. ASSUME NEW f \in FlowId, NEW form \in Forms, NEW good \in BOOLEAN,
             Upload(f, form, good)
      PROVE  RenderFlowsHavePages'
  BY <1>6 DEF Upload, Editing, tables, history
<1>7. ASSUME Wipe
      PROVE  RenderFlowsHavePages'
  BY <1>7 DEF Wipe, TypeOK, history
<1>8. ASSUME Unpack
      PROVE  RenderFlowsHavePages'
  BY <1>8 DEF Unpack, TypeOK
<1>9. ASSUME NEW f \in FlowId, Delete(f)
      PROVE  RenderFlowsHavePages'
  <2>1. /\ Exists(f) /\ request = Idle /\ UNCHANGED <<landing, spoiled>>
        /\ flows' = [flows EXCEPT ![f] = [flows[f] EXCEPT !.deleted = TRUE]]
    BY <1>9 DEF Delete, Editing, history
  <2>2. [flows[f] EXCEPT !.deleted = TRUE].action = flows[f].action
    BY <2>1, FlowType DEF Flow
  <2> QED BY <2>1, <2>2 DEF TypeOK
<1>10. ASSUME ClearDefault \/ (\E d \in FlowId \cup {Null} : SetDefault(d))
       PROVE  RenderFlowsHavePages'
  BY <1>10 DEF ClearDefault, SetDefault, Editing, history
<1>11. ASSUME NEW named \in SUBSET FlowId, NEW order \in [named -> Orders],
              Reorder(named, order)
       PROVE  RenderFlowsHavePages'
  <2>1. /\ request = Idle /\ UNCHANGED <<landing, spoiled>>
        /\ flows' = [f \in FlowId |->
             IF Exists(f)
             THEN [flows[f] EXCEPT !.order = IF f \in named THEN order[f] ELSE -1]
             ELSE NoFlow]
    BY <1>11 DEF Reorder, Editing
  <2>2. ASSUME NEW f \in FlowId, Exists(f)'
        PROVE  Exists(f) /\ flows'[f].action = flows[f].action
    <3>1. Exists(f)
      BY <2>1, <2>2
    <3> QED BY <2>1, <3>1, FlowType DEF Flow
  <2> QED BY <2>1, <2>2
<1>12. ASSUME Restart
       PROVE  RenderFlowsHavePages'
  BY <1>12 DEF Restart, tables
<1> QED
  BY <1>1, <1>2, <1>3, <1>4, <1>5, <1>6, <1>7, <1>8, <1>9, <1>10, <1>11, <1>12
     DEF Next

\* A flow is deleted by one request alone, which clears the default.
LEMMA DefaultNotDeletedStep ==
  ASSUME IInv, DefaultNotDeleted, Next
  PROVE  DefaultNotDeleted'
<1> USE DEF IInv, DefaultNotDeleted, Exists
<1>1. ASSUME NEW v \in Visitor, NEW c \in Client, Visit(v, c)
      PROVE  DefaultNotDeleted'
  BY <1>1 DEF Visit, tables
<1>2. ASSUME Discard \/ Answer \/ AnswerLost
      PROVE  DefaultNotDeleted'
  BY <1>2 DEF Discard, Answer, AnswerLost, tables
<1>3. ASSUME NEW v \in Visitor, StickinessEnds(v)
      PROVE  DefaultNotDeleted'
  BY <1>3 DEF StickinessEnds, tables
<1>4. ASSUME NEW f \in FlowId, NEW form \in Forms, NEW good \in BOOLEAN,
             Create(f, form, good)
      PROVE  DefaultNotDeleted'
  <2>1. Row(form, -1) \in Flow /\ ~Row(form, -1).deleted
    BY RowType
  <2>2. Row(form, -1) # NoFlow
    BY <2>1, RoutingAssumption
  <2> QED BY <1>4, <2>1, <2>2 DEF Create, Editing, TypeOK
<1>5. ASSUME NEW f \in FlowId, NEW form \in Forms, Update(f, form)
      PROVE  DefaultNotDeleted'
  <2>1. flows[f].order \in Orders \cup {-1}
    BY <1>5, FlowType DEF Update, Flow
  <2>2. Row(form, flows[f].order) \in Flow /\ ~Row(form, flows[f].order).deleted
    BY <2>1, RowType
  <2>3. Row(form, flows[f].order) # NoFlow
    BY <2>2, RoutingAssumption
  <2> QED BY <1>5, <2>2, <2>3 DEF Update, Editing, TypeOK
<1>6. ASSUME NEW f \in FlowId, NEW form \in Forms, NEW good \in BOOLEAN,
             Upload(f, form, good)
      PROVE  DefaultNotDeleted'
  BY <1>6 DEF Upload, Editing, tables
<1>7. ASSUME Wipe
      PROVE  DefaultNotDeleted'
  BY <1>7 DEF Wipe
<1>8. ASSUME Unpack
      PROVE  DefaultNotDeleted'
  <2>1. /\ request.row \in Flow /\ request.row # NoFlow /\ ~request.row.deleted
        /\ request.op = "store"
    BY <1>8, RoutingAssumption DEF Unpack, TypeOK, Request, StoreSound
  <2> QED BY <1>8, <2>1 DEF Unpack, TypeOK
<1>9. ASSUME NEW f \in FlowId, Delete(f)
      PROVE  DefaultNotDeleted'
  <2>1. /\ request = Idle /\ UNCHANGED <<defaultFlow, crashes>>
        /\ request' = [op |-> "clear", flow |-> f]
        /\ flows' = [flows EXCEPT ![f].deleted = TRUE]
    BY <1>9 DEF Delete, Editing
  <2>2. request' # Idle
    BY <2>1, RoutingAssumption DEF Request
  <2> QED BY <2>1, <2>2 DEF TypeOK
<1>10. ASSUME ClearDefault
       PROVE  DefaultNotDeleted'
  BY <1>10 DEF ClearDefault
<1>11. ASSUME NEW d \in FlowId \cup {Null}, SetDefault(d)
       PROVE  DefaultNotDeleted'
  BY <1>11 DEF SetDefault, Editing
<1>12. ASSUME NEW named \in SUBSET FlowId, NEW order \in [named -> Orders],
              Reorder(named, order)
       PROVE  DefaultNotDeleted'
  <2>1. /\ request = Idle /\ UNCHANGED <<defaultFlow, crashes>>
        /\ flows' = [f \in FlowId |->
             IF Exists(f)
             THEN [flows[f] EXCEPT !.order = IF f \in named THEN order[f] ELSE -1]
             ELSE NoFlow]
    BY <1>12 DEF Reorder, Editing
  <2>2. ASSUME NEW f \in FlowId, Exists(f)
        PROVE  Exists(f)' /\ flows'[f].deleted = flows[f].deleted
    <3> DEFINE o == IF f \in named THEN order[f] ELSE -1
    <3>1. flows[f] \in Flow /\ o \in Orders \cup {-1}
      BY <2>2, FlowType
    <3>2. flows'[f] = [flows[f] EXCEPT !.order = o]
      BY <2>1, <2>2
    <3> HIDE DEF o
    <3>3. flows'[f] \in Flow /\ flows'[f].deleted = flows[f].deleted
      BY <3>1, <3>2 DEF Flow
    <3> QED BY <3>3, RoutingAssumption
  <2> QED BY <2>1, <2>2 DEF TypeOK
<1>13. ASSUME Restart
       PROVE  DefaultNotDeleted'
  BY <1>13 DEF Restart, TypeOK
<1> QED
  BY <1>1, <1>2, <1>3, <1>4, <1>5, <1>6, <1>7, <1>8, <1>9, <1>10, <1>11, <1>12,
     <1>13 DEF Next

\* The answer is chosen from the rows as they are, and none of them changes
\* before it is given: the thread that would change them is giving it.
LEMMA DiscardsStep ==
  ASSUME IInv, DiscardsAreAlerted, Next
  PROVE  DiscardsAreAlerted'
<1> USE DEF DiscardsAreAlerted
<1>1. ASSUME NEW v \in Visitor, NEW c \in Client, Visit(v, c)
      PROVE  DiscardsAreAlerted'
  <2>1. PICK f \in FlowId \cup {NoFlow} :
          /\ Chosen(v, c, f)
          /\ request' = [op |-> "answer", visitor |-> v, flow |-> f,
                         from |-> IF Placed(v) THEN cookie[v] ELSE NoFlow,
                         fallback |-> Fallback(v, c)]
    BY <1>1 DEF Visit
  <2>2. UNCHANGED <<flows, defaultFlow>>
    BY <1>1 DEF Visit, tables
  <2>3. ASSUME f # NoFlow
        PROVE  f \in Listed
    BY <2>1, <2>3 DEF Chosen, Retained, Placed, Ahead
  <2>4. ASSUME f = NoFlow
        PROVE  DefaultFlowAlert
    <3>1. NoFlow \notin Listed
      BY RoutingAssumption DEF Listed
    <3>2. Fallback(v, c) /\ defaultFlow \notin Listed
      BY <2>1, <2>4, <3>1 DEF Chosen, Retained, Placed, Ahead
    <3> QED BY <3>2 DEF DefaultFlowAlert, Listed, IInv, TypeOK
  <2> QED
    BY <2>1, <2>2, <2>3, <2>4 DEF DefaultFlowAlert, Listed, Exists
<1>2. ASSUME NEW v \in Visitor, StickinessEnds(v)
      PROVE  DiscardsAreAlerted'
  BY <1>2 DEF StickinessEnds, tables, DefaultFlowAlert, Listed, Exists
<1>3. ASSUME request' # Idle => request'.op \in {"store", "clear"}
      PROVE  DiscardsAreAlerted'
  BY <1>3
<1>4. Discard \/ Answer \/ AnswerLost \/ Restart \/ Unpack \/ ClearDefault => request' = Idle
  BY DEF Discard, Answer, AnswerLost, Restart, Unpack, ClearDefault
<1>5. Wipe => request'.op = "store"
  BY DEF Wipe
<1>6. ASSUME NEW f \in FlowId, NEW form \in Forms, NEW good \in BOOLEAN,
             Create(f, form, good) \/ Upload(f, form, good)
      PROVE  request' # Idle => request'.op = "store"
  <2>1. \A r : Storing(f, r, good).op = "store"
    BY DEF Storing
  <2>2. request' = Idle \/ (\E r : request' = Storing(f, r, good))
    <3>1. CASE Create(f, form, good)
      BY <3>1 DEF Create
    <3>2. CASE Upload(f, form, good)
      BY <3>2 DEF Upload
    <3> QED BY <1>6, <3>1, <3>2
  <2> QED BY <2>1, <2>2
<1>7. ASSUME NEW f \in FlowId, Delete(f)
      PROVE  request'.op = "clear"
  BY <1>7 DEF Delete
<1>8. ASSUME \/ \E f \in FlowId, form \in Forms : Update(f, form)
             \/ \E d \in FlowId \cup {Null} : SetDefault(d)
             \/ \E named \in SUBSET FlowId : \E order \in [named -> Orders] :
                  Reorder(named, order)
      PROVE  request' = Idle
  BY <1>8 DEF Update, SetDefault, Reorder, Editing
<1> QED
  BY <1>1, <1>2, <1>3, <1>4, <1>5, <1>6, <1>7, <1>8 DEF Next

-----------------------------------------------------------------------------
(* The theorems.                                                           *)

\* Every variable keeps its type.
THEOREM TypeCorrect == Spec => []TypeOK
<1>1. IInv => TypeOK
  BY DEF IInv
<1> QED BY <1>1, Invariant, PTL

\* A visitor is not given a flow it has left, for any list of flows, any rules
\* and any edits that do not reorder the list (process_flows).
THEOREM VisitorsGoForward == Spec => []NeverBack
<1>1. IInv => NeverBack
  BY BeforeIrreflexive DEF IInv, NeverBack, Descending
<1> QED BY <1>1, Invariant, PTL

\* A render flow is without a page only after an upload that failed or was cut
\* short (FlowService.create, update and _store_landing_archive).
THEOREM PagesAreThere == Spec => []RenderFlowsHavePages
<1>1. Init => RenderFlowsHavePages
  BY DEF Init, RenderFlowsHavePages, Exists
<1>2. IInv /\ RenderFlowsHavePages /\ [Next]_vars => RenderFlowsHavePages'
  <2>1. ASSUME RenderFlowsHavePages, UNCHANGED vars
        PROVE  RenderFlowsHavePages'
    BY <2>1 DEF vars, tables, history, RenderFlowsHavePages, Exists, HasLandingPage
  <2> QED BY <2>1, PagesStep
<1> QED BY <1>1, <1>2, Invariant, PTL DEF Spec

\* Without restarts, a campaign's default flow is never a deleted one for longer
\* than the request that deletes it (FlowService.delete, CampaignService.update).
THEOREM DefaultStaysAlive == Spec => []DefaultNotDeleted
<1>1. Init => DefaultNotDeleted
  BY DEF Init, DefaultNotDeleted
<1>2. IInv /\ DefaultNotDeleted /\ [Next]_vars => DefaultNotDeleted'
  <2>1. ASSUME DefaultNotDeleted, UNCHANGED vars
        PROVE  DefaultNotDeleted'
    BY <2>1 DEF vars, tables, DefaultNotDeleted, Exists
  <2> QED BY <2>1, DefaultNotDeletedStep
<1> QED BY <1>1, <1>2, Invariant, PTL DEF Spec

\* Whoever is turned away finds the alert on the default flow up, and whoever is
\* answered gets a flow that is switched on (process_flows, core/alerts.py).
THEOREM DiscardsShowInAlert == Spec => []DiscardsAreAlerted
<1>1. Init => DiscardsAreAlerted
  BY DEF Init, DiscardsAreAlerted
<1>2. IInv /\ DiscardsAreAlerted /\ [Next]_vars => DiscardsAreAlerted'
  <2>1. ASSUME DiscardsAreAlerted, UNCHANGED vars
        PROVE  DiscardsAreAlerted'
    BY <2>1 DEF vars, tables, DiscardsAreAlerted, DefaultFlowAlert, Listed, Exists
  <2> QED BY <2>1, DiscardsStep
<1> QED BY <1>1, <1>2, Invariant, PTL DEF Spec
=============================================================================
