----------------------- MODULE FacebookCampaigns_proofs -----------------------
(***************************************************************************)
(* Theorems about FacebookCampaigns, for every number of rows, campaigns,  *)
(* flows and edits.                                                        *)
(***************************************************************************)
EXTENDS FacebookCampaigns, SequenceTheorems, TLAPS

-----------------------------------------------------------------------------
(* Types.                                                                  *)

LEMMA RequestTyped ==
  ASSUME NEW r \in Request
  PROVE  /\ r.op \in {"create", "edit", "clear"}
         /\ r.op = "create" => r.core \in Nat \ {0} /\ r.ids \in [Named -> Nat]
         /\ r.op = "edit" => /\ r.row \in Nat \ {0} /\ r.edit \in Nat
                             /\ r.ids \in [Named -> Nat]
         /\ r.op = "clear" => r.flow \in Nat \ {0}
BY DEF Request

LEMMA RowTyped ==
  ASSUME NEW r \in Row
  PROVE  r.core \in Nat \ {0} /\ r.ids \in [Named -> Nat] /\ r.edit \in Nat
BY DEF Row

LEMMA IdsTyped == Names \subseteq [Named -> Nat] /\ Changes \subseteq [Named -> Nat]
BY CampaignsAssumption DEF Names, Changes

\* A new core row, at the end of its table.
LEMMA NewCoreTyped ==
  ASSUME TypeOK, NewCore
  PROVE  /\ default' \in Seq(FlowId \cup {Null})
         /\ asked' \in Seq(FlowId \cup {Null})
         /\ reached' \in Seq(Nat)
         /\ Len(default') = Len(default) + 1
         /\ Len(asked') = Len(default) + 1 /\ Len(reached') = Len(default) + 1
         /\ \A c \in 1..Len(default) : /\ default'[c] = default[c]
                                       /\ asked'[c] = asked[c]
                                       /\ reached'[c] = reached[c]
         /\ default'[Len(default) + 1] = Null
         /\ asked'[Len(default) + 1] = Null
         /\ reached'[Len(default) + 1] = 0
BY AppendProperties DEF TypeOK, NewCore

\* Naming what to change keeps the rest.
LEMMA SaveTyped ==
  ASSUME TypeOK, SaveCampaign, request.row \in 1..Len(campaigns)
  PROVE  /\ campaigns' \in Seq(Row)
         /\ Len(campaigns') = Len(campaigns)
         /\ \A r \in 1..Len(campaigns) :
              /\ campaigns'[r].core = campaigns[r].core
              /\ r # request.row => campaigns'[r] = campaigns[r]
              /\ r = request.row => campaigns'[r].edit = request.edit
              /\ \A k \in Named :
                   campaigns'[r].ids[k] = campaigns[r].ids[k]
                   \/ /\ campaigns'[r].ids[k] = request.ids[k]
                      /\ request.ids[k] # Kept
<1> DEFINE old == campaigns[request.row]
           ids == [k \in Named |-> IF request.ids[k] = Kept
                                   THEN old.ids[k] ELSE request.ids[k]]
           new == [old EXCEPT !.ids = ids, !.edit = request.edit]
<1>1. campaigns \in Seq(Row) /\ old \in Row /\ request \in Request
  BY ElementOfSeq DEF TypeOK, SaveCampaign
<1>2. /\ old.core \in Nat \ {0} /\ old.ids \in [Named -> Nat]
      /\ request.ids \in [Named -> Nat] /\ request.edit \in Nat
  BY <1>1, RowTyped, RequestTyped DEF SaveCampaign
<1>3. ids \in [Named -> Nat]
  BY <1>2
<1>4. new \in Row /\ new.core = old.core /\ new.ids = ids /\ new.edit = request.edit
  BY <1>1, <1>2, <1>3 DEF Row
<1>5. campaigns' = [campaigns EXCEPT ![request.row] = new]
  BY <1>1 DEF SaveCampaign, Row
<1>6. \A k \in Named : ids[k] = IF request.ids[k] = Kept
                                THEN old.ids[k] ELSE request.ids[k]
  OBVIOUS
<1>. HIDE DEF new, ids
<1>7. /\ campaigns' \in Seq(Row) /\ Len(campaigns') = Len(campaigns)
      /\ \A r \in 1..Len(campaigns) :
           campaigns'[r] = IF r = request.row THEN new ELSE campaigns[r]
  BY <1>1, <1>4, <1>5, ExceptSeq
<1>. QED BY <1>4, <1>6, <1>7

LEMMA ClearTyped ==
  ASSUME TypeOK, ClearDefault
  PROVE  /\ default' \in Seq(FlowId \cup {Null})
         /\ Len(default') = Len(default)
         /\ \A c \in 1..Len(default) :
              default'[c] = IF default[c] = request.flow THEN Null ELSE default[c]
<1>1. default \in [1..Len(default) -> FlowId \cup {Null}] /\ Len(default) \in Nat
  BY LenProperties DEF TypeOK
<1>2. default' \in [1..Len(default) -> FlowId \cup {Null}]
  BY <1>1 DEF ClearDefault
<1>3. default' \in Seq(FlowId \cup {Null}) /\ Len(default') = Len(default)
  BY <1>1, <1>2
<1>. QED BY <1>1, <1>3 DEF ClearDefault

LEMMA EditTyped ==
  ASSUME TypeOK, NEW r, NEW ids \in Changes, EditCampaign(r, ids),
         CoreOf(r) \in 1..Len(default)
  PROVE  /\ default' \in Seq(FlowId \cup {Null}) /\ Len(default') = Len(default)
         /\ reached' \in Seq(Nat) /\ Len(reached') = Len(default)
         /\ \A c \in 1..Len(default) :
              /\ default'[c] = IF c = CoreOf(r) THEN Null ELSE default[c]
              /\ reached'[c] = IF c = CoreOf(r) THEN edits + 1 ELSE reached[c]
         /\ request' \in Request /\ request' # NoRequest
BY ExceptSeq, IdsTyped, IdleAssumption DEF EditCampaign, TypeOK, Request

LEMMA UpdateTyped ==
  ASSUME TypeOK, NEW c, NEW f, UpdateCore(c, f)
  PROVE  /\ default' \in Seq(FlowId \cup {Null}) /\ Len(default') = Len(default)
         /\ asked' \in Seq(FlowId \cup {Null}) /\ Len(asked') = Len(default)
         /\ \A d \in 1..Len(default) :
              /\ default'[d] = IF d = c THEN f ELSE default[d]
              /\ asked'[d] = IF d = c THEN f ELSE asked[d]
<1>1. f \in FlowId \cup {Null} /\ c \in 1..Len(default)
  BY DEF UpdateCore, ValidDefault, FlowId, TypeOK
<1>. QED BY <1>1, ExceptSeq DEF UpdateCore, TypeOK

\* A campaign that is made anew, at the end of its table.
LEMMA InsertTyped ==
  ASSUME TypeOK, InsertCampaign
  PROVE  /\ campaigns' \in Seq(Row) /\ Len(campaigns') = Len(campaigns) + 1
         /\ \A r \in 1..Len(campaigns) : campaigns'[r] = campaigns[r]
         /\ campaigns'[Len(campaigns) + 1] =
              [core |-> request.core, ids |-> request.ids, edit |-> 0]
<1>1. [core |-> request.core, ids |-> request.ids, edit |-> 0] \in Row
  BY RequestTyped DEF InsertCampaign, Row, TypeOK
<1>. QED BY <1>1, AppendProperties DEF InsertCampaign, TypeOK

LEMMA CreateRowTyped ==
  ASSUME TypeOK, NEW k \in Kind, CreateRow(k)
  PROVE  TypeOK' /\ \A j \in Kind : rows[j] \in Nat /\ rows[j] <= rows'[j]
<1>1. /\ rows' \in [Kind -> Nat] /\ rows \in [Kind -> Nat]
      /\ \A j \in Kind : rows'[j] = rows[j] + (IF j = k THEN 1 ELSE 0)
  BY DEF CreateRow, TypeOK
<1>2. "portfolio" \in Kind /\ "executor" \in Kind /\ "cabinet" \in Kind
  BY DEF Kind, Named
<1>3. bound' \subseteq (1..rows'["portfolio"]) \X (1..rows'["executor"])
  BY <1>1, <1>2 DEF CreateRow, TypeOK
<1> DEFINE S == (1..rows'["portfolio"]) \cup {Null}
<1>4. portfolio \in [1..rows["cabinet"] -> S]
  <2>1. rows["portfolio"] \in Nat /\ rows'["portfolio"] \in Nat
        /\ rows["portfolio"] <= rows'["portfolio"]
    BY <1>1, <1>2
  <2>2. (1..rows["portfolio"]) \cup {Null} \subseteq S
    BY <2>1
  <2>3. portfolio \in [1..rows["cabinet"] -> (1..rows["portfolio"]) \cup {Null}]
    BY DEF TypeOK
  <2>. HIDE DEF S
  <2>. QED BY <2>2, <2>3
<1>5. portfolio' \in [1..rows'["cabinet"] -> S]
  <2>1. CASE k = "cabinet"
    <3>. HIDE DEF S
    <3>1. Null \in S
      BY DEF S
    <3>2. portfolio \in Seq(S) /\ Len(portfolio) = rows["cabinet"]
      BY <1>1, <1>2, <1>4
    <3>3. portfolio' \in Seq(S) /\ Len(portfolio') = rows["cabinet"] + 1
      BY <2>1, <3>1, <3>2, AppendProperties DEF CreateRow
    <3>. QED BY <1>1, <1>2, <2>1, <3>3, LenProperties
  <2>2. CASE k # "cabinet"
    BY <1>1, <1>2, <1>4, <2>2 DEF CreateRow
  <2>. QED BY <2>1, <2>2
<1>6. \A j \in Kind : rows[j] \in Nat /\ rows[j] <= rows'[j]
  BY <1>1
<1>7. UNCHANGED <<core, campaigns, flow, request, edits, ended>>
  BY DEF CreateRow
<1>8. TypeOK'
  BY <1>1, <1>3, <1>5, <1>7 DEF TypeOK, core, flow, ended
<1>. QED BY <1>6, <1>8

LEMMA StepTyped == 
  ASSUME TypeOK, [Next]_vars,
         \A r \in 1..Len(campaigns) : campaigns[r].core \in 1..Len(default),
         Doing("edit") => request.row \in 1..Len(campaigns)
  PROVE  TypeOK'
<1>. USE DEF catalog, core, flow, ended
<1>1. ASSUME NEW k \in Kind, CreateRow(k) PROVE TypeOK'
  BY <1>1, CreateRowTyped
<1>2. ASSUME NEW p, NEW e, BindExecutor(p, e) \/ UnbindExecutor(p, e)
      PROVE TypeOK'
  <2>1. UNCHANGED <<rows, portfolio, core, campaigns, flow, request, edits, ended>>
    BY <1>2 DEF BindExecutor, UnbindExecutor
  <2>2. bound' \subseteq (1..rows["portfolio"]) \X (1..rows["executor"])
    BY <1>2 DEF BindExecutor, UnbindExecutor, Exists, TypeOK
  <2>. QED BY <2>1, <2>2 DEF TypeOK
<1>3. ASSUME NEW a, NEW p, BindPortfolio(a, p) \/ UnbindPortfolio(a, p)
      PROVE TypeOK'
  BY <1>3 DEF BindPortfolio, UnbindPortfolio, Exists, TypeOK
<1>4. CASE CreateCore
  BY <1>4, NewCoreTyped DEF CreateCore, TypeOK
<1>5. ASSUME NEW c, NEW f, UpdateCore(c, f) PROVE TypeOK'
  <2>1. UNCHANGED <<catalog, made, reached, campaigns, flow, request, edits, ended>>
        /\ edited' \subseteq edited
    BY <1>5 DEF UpdateCore
  <2>. QED BY <1>5, <2>1, UpdateTyped DEF TypeOK
<1>6. ASSUME NEW c, CreateFlow(c) PROVE TypeOK'
  <2>1. c \in Nat \ {0}
    BY <1>6, LenProperties DEF CreateFlow, TypeOK
  <2>. QED BY <1>6, <2>1, AppendProperties DEF CreateFlow, TypeOK
<1>7. ASSUME NEW f, DeleteFlow(f) PROVE TypeOK'
  BY <1>7, LenProperties DEF DeleteFlow, TypeOK, Request
<1>8. CASE ClearDefault
  <2>1. UNCHANGED <<catalog, made, reached, asked, edited, campaigns, flow, edits,
                    ended>> /\ request' = NoRequest
    BY <1>8 DEF ClearDefault
  <2>. QED BY <1>8, <2>1, ClearTyped DEF TypeOK
<1>9. ASSUME NEW ids \in Names, CreateCampaign(ids) PROVE TypeOK'
  <2>1. NewCore /\ Len(default) \in Nat
    BY <1>9, LenProperties DEF CreateCampaign, TypeOK
  <2>2. request' \in Request /\ made' \subseteq Nat
    <3>1. Len(default) + 1 \in Nat \ {0} /\ ids \in [Named -> Nat]
      BY <2>1, IdsTyped
    <3>2. request' = [op |-> "create", core |-> Len(default) + 1, ids |-> ids]
          /\ made' = made \cup {Len(default) + 1}
      BY <1>9 DEF CreateCampaign
    <3>3. request' \in Request
      BY <3>1, <3>2 DEF Request
    <3>. QED BY <3>1, <3>2, <3>3 DEF TypeOK
  <2>3. UNCHANGED <<catalog, edited, campaigns, flow, edits, ended>>
    BY <1>9 DEF CreateCampaign
  <2>. QED BY <2>1, <2>2, <2>3, NewCoreTyped DEF TypeOK
<1>10. CASE InsertCampaign
  BY <1>10, InsertTyped DEF InsertCampaign, TypeOK
<1>11. ASSUME NEW r, NEW ids \in Changes, EditCampaign(r, ids) PROVE TypeOK'
  <2>1. CoreOf(r) \in 1..Len(default)
    BY <1>11 DEF EditCampaign, CoreOf
  <2>2. UNCHANGED <<catalog, made, asked, campaigns, flow, ended>>
        /\ edits' \in Nat /\ edited' \subseteq Nat
    <3>1. CoreOf(r) \in Nat
      BY <2>1, LenProperties DEF TypeOK
    <3>2. /\ UNCHANGED <<catalog, made, asked, campaigns, flow, ended>>
          /\ edits' = edits + 1 /\ edited' = edited \cup {CoreOf(r)}
      BY <1>11 DEF EditCampaign
    <3>3. edits \in Nat /\ edited \subseteq Nat
      BY DEF TypeOK
    <3>4. edited' \subseteq Nat
      BY <3>1, <3>2, <3>3
    <3>. QED BY <3>2, <3>3, <3>4
  <2>. QED BY <1>11, <2>1, <2>2, EditTyped DEF TypeOK
<1>12. CASE SaveCampaign
  <2>1. request.row \in 1..Len(campaigns)
    BY <1>12 DEF SaveCampaign, Doing
  <2>2. campaigns' \in Seq(Row)
    BY <1>12, <2>1, SaveTyped
  <2>3. UNCHANGED <<catalog, core, flow, edits, ended>> /\ request' = NoRequest
    BY <1>12 DEF SaveCampaign
  <2>. QED BY <2>2, <2>3 DEF TypeOK
<1>13. CASE Fail
  BY <1>13, RequestTyped DEF Fail, TypeOK
<1>14. CASE UNCHANGED vars
  BY <1>14 DEF vars, TypeOK
<1>. QED BY <1>1, <1>2, <1>3, <1>4, <1>5, <1>6, <1>7, <1>8, <1>9, <1>10, <1>11,
            <1>12, <1>13, <1>14 DEF Next

-----------------------------------------------------------------------------
(* The two rows of a campaign.                                             *)

\* What a request under way still has to find when it goes on.
RequestFits ==
  /\ Doing("create") =>
       /\ request.core \in made
       /\ reached[request.core] = 0
       /\ request.ids \in Names
       /\ \A r \in 1..Len(campaigns) : campaigns[r].core # request.core
  /\ Doing("edit") =>
       /\ request.row \in 1..Len(campaigns)
       /\ request.edit = reached[campaigns[request.row].core]

EditsCounted ==
  /\ made \subseteq 1..Len(default)
  /\ \A c \in 1..Len(default) : reached[c] <= edits

\* What makes CampaignsAreWhole and EditsArriveWhole inductive.
Whole ==
  /\ TypeOK
  /\ CampaignsAreWhole
  /\ EditsArriveWhole
  /\ RequestFits
  /\ EditsCounted

LEMMA InitWhole == Init => Whole
<1>. SUFFICES ASSUME Init PROVE Whole
  OBVIOUS
<1>1. /\ default = <<>> /\ asked = <<>> /\ reached = <<>>
      /\ campaigns = <<>> /\ flows = <<>> /\ portfolio = <<>>
      /\ rows = [k \in Kind |-> 0] /\ made = {} /\ request = NoRequest
  BY DEF Init
<1>2. Len(default) = 0 /\ Len(campaigns) = 0
  BY <1>1
<1>3. /\ rows \in [Kind -> Nat] /\ rows["cabinet"] = 0
      /\ portfolio \in [1..0 -> (1..rows["portfolio"]) \cup {Null}]
  BY <1>1 DEF Kind, Named
<1>4. TypeOK
  BY <1>1, <1>3 DEF Init, TypeOK
<1>. QED BY <1>1, <1>2, <1>4 DEF Whole, CampaignsAreWhole, EditsArriveWhole,
                               RequestFits, EditsCounted, Doing

\* Steps that leave the rows of campaigns, the edits and the request alone.
LEMMA OthersKeepWhole ==
  ASSUME Whole, TypeOK',
         UNCHANGED <<made, reached, campaigns, request, edits, ended>>,
         Len(default') = Len(default),
         \A k \in Kind : rows[k] \in Nat /\ rows'[k] \in Nat /\ rows[k] <= rows'[k]
  PROVE  Whole'
<1>1. ASSUME NEW k \in Named, NEW i, Exists(k, i) PROVE Exists(k, i)'
  BY <1>1 DEF Exists, Kind
<1>. QED BY <1>1 DEF Whole, CampaignsAreWhole, EditsArriveWhole, RequestFits,
                     EditsCounted, Doing, ended

LEMMA StepKeepsWhole == Whole /\ [Next]_vars => Whole'
<1>. SUFFICES ASSUME Whole, [Next]_vars PROVE Whole'
  OBVIOUS
<1>. USE DEF catalog, core, flow, ended
<1>a. TypeOK /\ CampaignsAreWhole /\ EditsArriveWhole /\ RequestFits /\ EditsCounted
  BY DEF Whole
<1>b. TypeOK'
  BY <1>a, StepTyped DEF CampaignsAreWhole, EditsCounted, RequestFits
<1>c. \A k \in Kind : rows[k] \in Nat
  BY <1>a DEF TypeOK
<1>1. ASSUME NEW k \in Kind, CreateRow(k) PROVE Whole'
  <2>1. \A j \in Kind : rows[j] <= rows'[j] /\ rows'[j] \in Nat
    BY <1>1, <1>a, <1>b, CreateRowTyped DEF TypeOK
  <2>. QED BY <1>1, <1>b, <1>c, <2>1, OthersKeepWhole DEF CreateRow
<1>2. ASSUME NEW p, NEW e, BindExecutor(p, e) \/ UnbindExecutor(p, e)
      PROVE Whole'
  BY <1>2, <1>b, <1>c, OthersKeepWhole DEF BindExecutor, UnbindExecutor
<1>3. ASSUME NEW a, NEW p, BindPortfolio(a, p) \/ UnbindPortfolio(a, p)
      PROVE Whole'
  BY <1>3, <1>b, <1>c, OthersKeepWhole DEF BindPortfolio, UnbindPortfolio
<1>4. CASE CreateCore \/ \E ids \in Names : CreateCampaign(ids)
  <2>1. NewCore /\ request = NoRequest
        /\ UNCHANGED <<rows, campaigns, edits, ended>>
        /\ \/ UNCHANGED <<made, request>>
           \/ /\ made' = made \cup {Len(default) + 1}
              /\ \E ids \in Names : request' =
                   [op |-> "create", core |-> Len(default) + 1, ids |-> ids]
    BY <1>4 DEF CreateCore, CreateCampaign
  <2>2. Len(default) \in Nat /\ Len(default') = Len(default) + 1
        /\ reached'[Len(default) + 1] = 0
        /\ \A c \in 1..Len(default) : reached'[c] = reached[c] /\ reached[c] \in Nat
    <3>1. Len(default) \in Nat /\ \A c \in 1..Len(default) : reached[c] \in Nat
      BY <1>a, LenProperties, ElementOfSeq DEF TypeOK
    <3>. QED BY <1>a, <2>1, <3>1, NewCoreTyped
  <2>3. \A r \in 1..Len(campaigns) : campaigns[r].core \in 1..Len(default)
    BY <1>a DEF CampaignsAreWhole, EditsCounted
  <2>4. CampaignsAreWhole'
    <3>1. ASSUME NEW c \in made
          PROVE  (\E r \in 1..Len(campaigns) : campaigns[r].core = c) \/ c \in lost
      BY <1>a, <2>1 DEF CampaignsAreWhole, Doing
    <3>2. made \subseteq made' /\ \A c \in made' :
            c \in made \/ (Doing("create")' /\ request'.core = c)
      <4>1. CASE UNCHANGED <<made, request>>
        BY <4>1
      <4>2. ASSUME NEW ids \in Names, made' = made \cup {Len(default) + 1},
                   request' = [op |-> "create", core |-> Len(default) + 1, ids |-> ids]
            PROVE  made \subseteq made' /\ \A c \in made' :
                     c \in made \/ (Doing("create")' /\ request'.core = c)
        <5>1. Len(default) + 1 \in Nat \ {0} /\ ids \in [Named -> Nat]
          BY <2>2, IdsTyped
        <5>2. request' \in Request
          BY <4>2, <5>1 DEF Request
        <5>. QED BY <4>2, <5>2, IdleAssumption DEF Doing
      <4>. QED BY <2>1, <4>1, <4>2
    <3>3. UNCHANGED <<rows, campaigns, lost>>
      BY <2>1
    <3>. QED BY <1>a, <3>1, <3>2, <3>3 DEF CampaignsAreWhole, Exists
  <2>5. EditsArriveWhole'
    BY <1>a, <2>1, <2>2, <2>3 DEF EditsArriveWhole, Doing
  <2>6. RequestFits'
    BY <1>a, <2>1, <2>2, <2>3 DEF RequestFits, EditsCounted, Doing
  <2>7. EditsCounted'
    <3>1. \A c \in 1..(Len(default) + 1) :
             c \in 1..Len(default) \/ c = Len(default) + 1
      BY <2>2
    <3>2. edits \in Nat
      BY <1>a DEF TypeOK
    <3>3. made \subseteq 1..Len(default)
      BY <1>a DEF EditsCounted
    <3>4. 1..Len(default) \subseteq 1..Len(default') /\ Len(default) + 1 \in 1..Len(default')
      BY <2>2
    <3>5. made' \subseteq made \cup {Len(default) + 1}
      BY <2>1
    <3>6. made' \subseteq 1..Len(default')
      BY <3>3, <3>4, <3>5
    <3>7. \A c \in 1..Len(default') : reached'[c] <= edits
      BY <1>a, <2>2, <3>1, <3>2 DEF EditsCounted
    <3>. QED BY <2>1, <3>6, <3>7 DEF EditsCounted
  <2>. QED BY <1>b, <2>4, <2>5, <2>6, <2>7 DEF Whole
<1>5. ASSUME NEW c, NEW f, UpdateCore(c, f) PROVE Whole'
  BY <1>5, <1>a, <1>b, <1>c, UpdateTyped, OthersKeepWhole DEF UpdateCore
<1>6. ASSUME NEW c, CreateFlow(c) PROVE Whole'
  BY <1>6, <1>b, <1>c, OthersKeepWhole DEF CreateFlow
<1>7. ASSUME NEW f, DeleteFlow(f) PROVE Whole'
  BY <1>7, <1>a, <1>b DEF DeleteFlow, Whole, CampaignsAreWhole, EditsArriveWhole,
     RequestFits, EditsCounted, Doing, Exists
<1>8. CASE ClearDefault
  <2>1. Len(default') = Len(default)
    BY <1>8, <1>a, ClearTyped
  <2>. QED BY <1>8, <1>a, <1>b, <2>1 DEF ClearDefault, Whole, CampaignsAreWhole,
          EditsArriveWhole, RequestFits, EditsCounted, Doing, Exists
<1>10. CASE InsertCampaign
  <2>1. Doing("create") /\ ~Doing("edit") /\ request' = NoRequest
        /\ Found(request.ids)
        /\ UNCHANGED <<rows, default, made, reached, edits, ended>>
    BY <1>10 DEF InsertCampaign, Doing
  <2> DEFINE n == Len(campaigns)
  <2>2. /\ n \in Nat /\ Len(campaigns') = n + 1
        /\ \A r \in 1..n : campaigns'[r] = campaigns[r]
        /\ campaigns'[n + 1].core = request.core
        /\ campaigns'[n + 1].ids = request.ids /\ campaigns'[n + 1].edit = 0
    BY <1>10, <1>a, InsertTyped, LenProperties DEF TypeOK
  <2>a. request.core \in made /\ reached[request.core] = 0
        /\ \A r \in 1..n : campaigns[r].core # request.core
    BY <1>a, <2>1 DEF RequestFits
  <2>3. \A k \in Named : Exists(k, request.ids[k])
    BY <1>a, <2>1, CampaignsAssumption DEF RequestFits, Names, Found, Kept
  <2>4. CampaignsAreWhole'
    <3>. HIDE DEF n
    <3>1. \A r \in 1..(n + 1) : r \in 1..n \/ r = n + 1
      BY <2>2
    <3>2. ASSUME NEW c \in made
          PROVE  \/ \E r \in 1..(n + 1) : campaigns'[r].core = c
                 \/ c \in lost
      <4>1. CASE c = request.core
        <5>1. n + 1 \in 1..(n + 1)
          BY <2>2
        <5>. QED BY <2>2, <4>1, <5>1
      <4>2. CASE c # request.core
        BY <1>a, <2>2, <4>2 DEF CampaignsAreWhole, n
      <4>. QED BY <4>1, <4>2
    <3>3. \A r \in 1..(n + 1) : campaigns'[r].core \in made
            /\ \A k \in Named : Exists(k, campaigns'[r].ids[k])
      <4>1. ASSUME NEW r \in 1..n
            PROVE  campaigns'[r].core \in made
                   /\ \A k \in Named : Exists(k, campaigns'[r].ids[k])
        BY <1>a, <2>2 DEF CampaignsAreWhole, n
      <4>2. campaigns'[n + 1].core \in made
            /\ \A k \in Named : Exists(k, campaigns'[n + 1].ids[k])
        BY <2>a, <2>2, <2>3
      <4>. QED BY <3>1, <4>1, <4>2
    <3>4. \A r, s \in 1..(n + 1) :
             campaigns'[r].core = campaigns'[s].core => r = s
      BY <1>a, <2>1, <2>2, <3>1 DEF CampaignsAreWhole, RequestFits, n
    <3>. QED BY <2>1, <2>2, <3>2, <3>3, <3>4 DEF CampaignsAreWhole, Exists
  <2>5. EditsArriveWhole'
    <3>1. \A r \in 1..(n + 1) : r \in 1..n \/ r = n + 1
      BY <2>2
    <3>2. \A r \in 1..n :
            \/ campaigns'[r].edit = reached[campaigns'[r].core]
            \/ /\ campaigns'[r].edit < reached[campaigns'[r].core]
               /\ r \in half
      BY <1>a, <2>1, <2>2 DEF EditsArriveWhole
    <3>3. campaigns'[n + 1].edit = reached[campaigns'[n + 1].core]
      BY <2>a, <2>2
    <3>. HIDE DEF n
    <3>. QED BY <2>1, <2>2, <3>1, <3>2, <3>3 DEF EditsArriveWhole
  <2>6. RequestFits' /\ EditsCounted'
    BY <1>a, <2>1 DEF RequestFits, EditsCounted, Doing
  <2>. QED BY <1>b, <2>4, <2>5, <2>6 DEF Whole
<1>11. ASSUME NEW r, NEW ids \in Changes, EditCampaign(r, ids) PROVE Whole'
  <2>1. r \in 1..Len(campaigns) /\ CoreOf(r) = campaigns[r].core
        /\ CoreOf(r) \in 1..Len(default)
    BY <1>11, <1>a DEF EditCampaign, CoreOf, CampaignsAreWhole, EditsCounted
  <2>2. /\ request' = [op |-> "edit", row |-> r, ids |-> ids, edit |-> edits + 1]
        /\ request = NoRequest /\ edits' = edits + 1 /\ edits \in Nat
        /\ UNCHANGED <<rows, made, campaigns, ended>>
    BY <1>11, <1>a DEF EditCampaign, TypeOK
  <2>3. /\ Len(default') = Len(default) /\ request' # NoRequest
        /\ \A c \in 1..Len(default) :
             reached'[c] = IF c = CoreOf(r) THEN edits + 1 ELSE reached[c]
    BY <1>11, <1>a, <2>1, EditTyped
  <2>4. \A c \in 1..Len(default) : reached[c] \in Nat /\ reached[c] <= edits
    BY <1>a, ElementOfSeq DEF TypeOK, EditsCounted
  <2>5. CampaignsAreWhole'
    BY <1>a, <2>2 DEF CampaignsAreWhole, Exists, Doing
  <2>6. EditsArriveWhole'
    <3>1. \A s \in 1..Len(campaigns) : campaigns[s].core \in 1..Len(default)
                                       /\ campaigns[s].edit \in Nat
      BY <1>a, ElementOfSeq, RowTyped DEF TypeOK, CampaignsAreWhole, EditsCounted
    <3>2. ASSUME NEW s \in 1..Len(campaigns)
          PROVE  \/ campaigns[s].edit = reached'[campaigns[s].core]
                 \/ /\ campaigns[s].edit < reached'[campaigns[s].core]
                    /\ s \in half \/ s = r
      <4>1. CASE s = r
        BY <1>a, <2>1, <2>2, <2>3, <2>4, <3>1, <4>1 DEF EditsArriveWhole
      <4>2. CASE s # r
        <5>1. campaigns[s].core # CoreOf(r)
          BY <1>a, <2>1, <4>2 DEF CampaignsAreWhole
        <5>. QED BY <1>a, <2>2, <2>3, <3>1, <5>1 DEF EditsArriveWhole, Doing
      <4>. QED BY <4>1, <4>2
    <3>. QED BY <2>2, <2>3, <3>2 DEF EditsArriveWhole, Doing
  <2>7. RequestFits'
    BY <2>1, <2>2, <2>3 DEF RequestFits, Doing
  <2>8. EditsCounted'
    BY <1>a, <2>2, <2>3, <2>4 DEF EditsCounted
  <2>. QED BY <1>b, <2>5, <2>6, <2>7, <2>8 DEF Whole
<1>12. CASE SaveCampaign
  <2>1. Doing("edit") /\ ~Doing("create") /\ request' = NoRequest
        /\ Found(request.ids)
        /\ UNCHANGED <<rows, default, made, reached, edits, ended>>
    BY <1>12 DEF SaveCampaign, Doing
  <2>2. request.row \in 1..Len(campaigns)
        /\ request.edit = reached[campaigns[request.row].core]
    BY <1>a, <2>1 DEF RequestFits
  <2>3. CampaignsAreWhole'
    BY <1>12, <1>a, <2>1, <2>2, SaveTyped DEF CampaignsAreWhole, Found, Exists
  <2>4. EditsArriveWhole'
    BY <1>12, <1>a, <2>1, <2>2, SaveTyped DEF EditsArriveWhole, Doing
  <2>5. RequestFits' /\ EditsCounted'
    BY <1>a, <2>1 DEF RequestFits, EditsCounted, Doing
  <2>. QED BY <1>b, <2>3, <2>4, <2>5 DEF Whole
<1>13. CASE Fail
  <2>1. CampaignsAreWhole'
    BY <1>13, <1>a DEF Fail, CampaignsAreWhole, Doing, Exists
  <2>2. EditsArriveWhole'
    BY <1>13, <1>a DEF Fail, EditsArriveWhole, Doing
  <2>3. RequestFits' /\ EditsCounted'
    BY <1>13, <1>a DEF Fail, RequestFits, EditsCounted, Doing
  <2>. QED BY <1>b, <2>1, <2>2, <2>3 DEF Whole
<1>14. CASE UNCHANGED vars
  BY <1>14, <1>b, <1>c, OthersKeepWhole DEF vars
<1>. QED BY <1>1, <1>2, <1>3, <1>4, <1>5, <1>6, <1>7, <1>8, <1>10, <1>11,
            <1>12, <1>13, <1>14 DEF Next

LEMMA AlwaysWhole == Spec => []Whole
<1>1. Init => Whole
  BY InitWhole
<1>2. Whole /\ [Next]_vars => Whole'
  BY StepKeepsWhole
<1>. QED BY <1>1, <1>2, PTL DEF Spec

\* Every table and the request under way keep their types; what is bound and
\* where a cabinet is are rows that exist.
THEOREM TypeCorrect == Spec => []TypeOK
<1>1. Whole => TypeOK
  BY DEF Whole
<1>. QED BY <1>1, AlwaysWhole, PTL

\* Facebook campaigns and the core campaigns made for them come in pairs but
\* for creations that run or failed, and name rows that exist.
THEOREM CampaignsComeInPairs == Spec => []CampaignsAreWhole
<1>1. Whole => CampaignsAreWhole
  BY DEF Whole
<1>. QED BY <1>1, AlwaysWhole, PTL

\* An edit that did not run to its end is the only reason for the rows of a
\* campaign to show two edits, the core's the later one.
THEOREM EditsReachBothRows == Spec => []EditsArriveWhole
<1>1. Whole => EditsArriveWhole
  BY DEF Whole
<1>. QED BY <1>1, AlwaysWhole, PTL

-----------------------------------------------------------------------------
(* Default flows.                                                          *)

\* What makes DefaultIsKept inductive: what the core's API was told is a flow
\* of that campaign, and the flow being cleared is one that was deleted.
DefaultsSound ==
  /\ DefaultIsKept
  /\ \A c \in 1..Len(default) :
       asked[c] # Null => asked[c] \in 1..Len(flows) /\ flows[asked[c]] = c
  /\ Doing("clear") => request.flow \in deleted

LEMMA StepKeepsDefaults == Whole /\ DefaultsSound /\ [Next]_vars => DefaultsSound'
<1>. SUFFICES ASSUME Whole, DefaultsSound, [Next]_vars PROVE DefaultsSound'
  OBVIOUS
<1>. USE DEF catalog, core, flow, ended, DefaultsSound
<1>a. TypeOK /\ RequestFits /\ CampaignsAreWhole /\ EditsCounted /\ DefaultIsKept
  BY DEF Whole
<1>b. Len(default) \in Nat /\ Len(flows) \in Nat
      /\ Len(asked) = Len(default)
      /\ \A c \in 1..Len(default) : /\ default[c] \in FlowId \cup {Null}
                                    /\ asked[c] \in FlowId \cup {Null}
  BY <1>a, LenProperties, ElementOfSeq DEF TypeOK
<1>1. ASSUME \/ \E k \in Kind : CreateRow(k)
             \/ \E p, e : BindExecutor(p, e) \/ UnbindExecutor(p, e)
             \/ \E a, p : BindPortfolio(a, p) \/ UnbindPortfolio(a, p)
             \/ UNCHANGED vars
      PROVE  DefaultsSound'
  <2>1. UNCHANGED <<core, flow, request, cut>>
    BY <1>1 DEF CreateRow, BindExecutor, UnbindExecutor, BindPortfolio,
                UnbindPortfolio, vars
  <2>. QED BY <2>1 DEF DefaultIsKept, Doing
<1>2. CASE CreateCore \/ \E ids \in Names : CreateCampaign(ids)
  <2>1. NewCore /\ request = NoRequest /\ UNCHANGED <<flow, edited, ended>>
        /\ ~Doing("clear")'
    BY <1>2 DEF CreateCore, CreateCampaign, Doing
  <2>2. /\ Len(default') = Len(default) + 1
        /\ \A c \in 1..Len(default) : /\ default'[c] = default[c]
                                      /\ asked'[c] = asked[c]
        /\ default'[Len(default) + 1] = Null /\ asked'[Len(default) + 1] = Null
    BY <1>a, <2>1, NewCoreTyped
  <2>3. \A c \in 1..(Len(default) + 1) :
          c \in 1..Len(default) \/ c = Len(default) + 1
    BY <1>b
  <2>4. DefaultIsKept'
    BY <1>a, <1>b, <2>1, <2>2, <2>3 DEF DefaultIsKept, Doing
  <2>. QED BY <2>1, <2>2, <2>3, <2>4 
<1>3. ASSUME NEW c, NEW f, UpdateCore(c, f) PROVE DefaultsSound'
  <2>1. /\ request = NoRequest /\ UNCHANGED <<flow, ended, request>>
        /\ edited' = edited \ {c}
        /\ f = Null \/ (f \in 1..Len(flows) \ deleted /\ flows[f] = c)
    BY <1>3 DEF UpdateCore, ValidDefault
  <2>2. /\ Len(default') = Len(default)
        /\ \A d \in 1..Len(default) :
              /\ default'[d] = IF d = c THEN f ELSE default[d]
              /\ asked'[d] = IF d = c THEN f ELSE asked[d]
    BY <1>3, <1>a, UpdateTyped
  <2>3. DefaultIsKept'
    BY <1>a, <2>1, <2>2 DEF DefaultIsKept, Doing
  <2>. QED BY <2>1, <2>2, <2>3 DEF Doing
<1>4. ASSUME NEW c, CreateFlow(c) PROVE DefaultsSound'
  <2>1. /\ UNCHANGED <<core, deleted, request, ended>> /\ c \in Nat \ {0}
        /\ flows' = Append(flows, c)
    BY <1>4, <1>b DEF CreateFlow
  <2>2. /\ Len(flows') = Len(flows) + 1
        /\ \A g \in 1..Len(flows) : flows'[g] = flows[g]
    BY <1>a, <2>1, AppendProperties DEF TypeOK
  <2>3. \A d \in 1..Len(default) : default[d] # Null =>
           default[d] \in 1..Len(flows) /\ flows'[default[d]] = flows[default[d]]
    BY <1>a, <1>b, <2>2 DEF DefaultIsKept
  <2>4. DefaultIsKept'
    BY <1>a, <2>1, <2>3 DEF DefaultIsKept, Doing
  <2>. QED BY <1>b, <2>1, <2>2, <2>4 DEF Doing
<1>5. ASSUME NEW f, DeleteFlow(f) PROVE DefaultsSound'
  <2>1. /\ UNCHANGED <<core, flows, ended>> /\ deleted' = deleted \cup {f}
        /\ request = NoRequest
        /\ request' = [op |-> "clear", flow |-> f]
    BY <1>5 DEF DeleteFlow
  <2>2. request' # NoRequest /\ request'.flow = f
    <3>1. f \in Nat \ {0}
      BY <1>5, <1>b DEF DeleteFlow
    <3>. QED BY <2>1, <3>1, IdleAssumption DEF Request
  <2>3. DefaultIsKept'
    BY <1>a, <2>1, <2>2 DEF DefaultIsKept, Doing
  <2>. QED BY <2>1, <2>2, <2>3 DEF Doing
<1>6. CASE ClearDefault
  <2>1. /\ Doing("clear") /\ request' = NoRequest
        /\ UNCHANGED <<asked, edited, flow, ended>>
    BY <1>6 DEF ClearDefault, Doing
  <2>2. /\ Len(default') = Len(default)
        /\ \A c \in 1..Len(default) :
              default'[c] = IF default[c] = request.flow THEN Null ELSE default[c]
    BY <1>6, <1>a, ClearTyped
  <2>3. request.flow \in deleted
    BY <2>1
  <2>4. DefaultIsKept'
    BY <1>a, <2>1, <2>2, <2>3 DEF DefaultIsKept, Doing
  <2>. QED BY <2>1, <2>2, <2>4 DEF Doing
<1>7. CASE InsertCampaign \/ SaveCampaign
  <2>1. /\ UNCHANGED <<core, flow, ended>> /\ request' = NoRequest
        /\ ~Doing("clear")
    BY <1>7 DEF InsertCampaign, SaveCampaign, Doing
  <2>. QED BY <1>a, <2>1 DEF DefaultIsKept, Doing
<1>8. ASSUME NEW r, NEW ids \in Changes, EditCampaign(r, ids)
      PROVE  DefaultsSound'
  <2>1. /\ UNCHANGED <<asked, flow, ended>> /\ request = NoRequest
        /\ request' = [op |-> "edit", row |-> r, ids |-> ids, edit |-> edits + 1]
        /\ edited' = edited \cup {CoreOf(r)}
        /\ CoreOf(r) \in 1..Len(default)
    BY <1>8, <1>a DEF EditCampaign, CoreOf, CampaignsAreWhole, EditsCounted
  <2>2. /\ Len(default') = Len(default)
        /\ \A c \in 1..Len(default) :
              default'[c] = IF c = CoreOf(r) THEN Null ELSE default[c]
    BY <1>8, <1>a, <2>1, EditTyped
  <2>3. ~Doing("clear")'
    BY <2>1 DEF Doing
  <2>4. DefaultIsKept'
    BY <1>a, <2>1, <2>2 DEF DefaultIsKept, Doing
  <2>. QED BY <2>1, <2>2, <2>3, <2>4
<1>9. CASE Fail
  <2>1. /\ UNCHANGED <<core, flow>> /\ request' = NoRequest
        /\ cut \subseteq cut' /\ (Doing("clear") => request.flow \in cut')
    BY <1>9 DEF Fail, Doing
  <2>. QED BY <1>a, <2>1 DEF DefaultIsKept, Doing
<1>. QED BY <1>1, <1>2, <1>3, <1>4, <1>5, <1>6, <1>7, <1>8, <1>9 DEF Next

\* A default flow is a flow of the campaign that is not deleted, and it is
\* lost to the deletion of that flow or to an edit through Facebook only.
THEOREM DefaultsAreKept == Spec => []DefaultIsKept
<1>1. Init => DefaultsSound
  BY DEF Init, DefaultsSound, DefaultIsKept, Doing
<1>2. Whole /\ DefaultsSound /\ [Next]_vars => DefaultsSound'
  BY StepKeepsDefaults
<1>3. DefaultsSound => DefaultIsKept
  BY DEF DefaultsSound
<1>. QED BY <1>1, <1>2, <1>3, AlwaysWhole, PTL DEF Spec
=============================================================================
