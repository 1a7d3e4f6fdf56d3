--------------------------- MODULE FacebookCampaigns ---------------------------
(***************************************************************************)
(* The personal ad accounts of facebook_pacs/services.py: executors,       *)
(* business pages, ad cabinets and business portfolios, what is bound to   *)
(* what, and the Facebook campaigns that point at them.                    *)
(*                                                                         *)
(* A Facebook campaign is two rows in two tables: a campaign of the core,  *)
(* which the tracker runs, and the row that names its cabinet, executor    *)
(* and page.  Creating and editing one write the core row first and look   *)
(* the others up afterwards, every write a statement of its own: an id     *)
(* that does not exist, a database error or a restart leaves the first     *)
(* write without the second.  The core's own API and the deletion of flows *)
(* work on the same core rows.                                             *)
(*                                                                         *)
(* All of it runs on the HTTP thread, one request at a time.  Ids come     *)
(* from the database in order and no row is ever deleted, so a table is    *)
(* the number of its rows, or the sequence of them.                        *)
(***************************************************************************)
EXTENDS Integers, Sequences

CONSTANTS
  MaxRows,      \* bound: kind of row -> number of them
  MaxId,        \* bound: the ids campaigns may be told to name
  MaxCampaigns, MaxFlows, MaxEdits,   \* bounds
  Null,         \* SQL NULL
  NoRequest     \* the HTTP thread is between two requests

\* What a campaign names; an edit leaves out what it does not change.
Named == {"executor", "page", "cabinet"}
Kind == Named \cup {"portfolio"}

ASSUME CampaignsAssumption ==
  /\ MaxRows \in [Kind -> Nat]
  /\ MaxId \in Nat
  /\ MaxCampaigns \in Nat /\ MaxFlows \in Nat /\ MaxEdits \in Nat
  /\ Null \notin Nat

Kept == 0     \* a falsy id: the edit does not change this one
Names == [Named -> 1..MaxId]
Changes == [Named -> 0..MaxId]

FlowId == Nat \ {0}
\* Row of facebook_pacs_ad_campaign; history: the last edit that reached it.
Row == [core : Nat \ {0}, ids : [Named -> Nat], edit : Nat]
Request == [op : {"create"}, core : Nat \ {0}, ids : [Named -> Nat]]
           \cup [op : {"edit"}, row : Nat \ {0}, ids : [Named -> Nat], edit : Nat]
           \cup [op : {"clear"}, flow : Nat \ {0}]

ASSUME IdleAssumption == NoRequest \notin Request

VARIABLES
  rows,       \* tables executor, business_page, ad_cabinet, business_portfolio
  bound,      \* table business_portfolio2executor
  portfolio,  \* ad_cabinet.business_portfolio_id
  default,    \* table campaign: the sequence of their default_flow_id
  campaigns,  \* table facebook_pacs_ad_campaign
  flows,      \* table flow: the sequence of their campaigns
  deleted,    \* flow.is_deleted: the flows deleted
  request,    \* what the HTTP thread has still to do
  edits,      \* edits through Facebook so far
  made,       \* history: core rows made for a Facebook campaign
  reached,    \* history: per core row, the last Facebook edit that reached it
  asked,      \* history: ... the default flow the core's API was last told
  edited,     \* history: core rows a Facebook edit reached since it was
  lost,       \* history: core rows whose creation ended without the other row
  half,       \* history: campaigns some edit of which ended half-way
  cut         \* history: flows whose deletion ended half-way

catalog == <<rows, bound, portfolio>>
core == <<default, made, reached, asked, edited>>
flow == <<flows, deleted>>
ended == <<lost, half, cut>>
vars == <<catalog, core, campaigns, flow, request, edits, ended>>

TypeOK ==
  /\ rows \in [Kind -> Nat]
  /\ bound \subseteq (1..rows["portfolio"]) \X (1..rows["executor"])
  /\ portfolio \in [1..rows["cabinet"] -> (1..rows["portfolio"]) \cup {Null}]
  /\ default \in Seq(FlowId \cup {Null})
  /\ asked \in Seq(FlowId \cup {Null}) /\ Len(asked) = Len(default)
  /\ reached \in Seq(Nat) /\ Len(reached) = Len(default)
  /\ campaigns \in Seq(Row)
  /\ flows \in Seq(Nat \ {0})
  /\ deleted \subseteq Nat /\ made \subseteq Nat /\ edited \subseteq Nat
  /\ request \in Request \cup {NoRequest}
  /\ edits \in Nat
  /\ lost \subseteq Nat /\ half \subseteq Nat /\ cut \subseteq Nat

Init ==
  /\ rows = [k \in Kind |-> 0]
  /\ bound = {}
  /\ portfolio = <<>>
  /\ default = <<>> /\ asked = <<>> /\ reached = <<>>
  /\ campaigns = <<>> /\ flows = <<>> /\ deleted = {}
  /\ request = NoRequest
  /\ edits = 0
  /\ made = {} /\ edited = {}
  /\ lost = {} /\ half = {} /\ cut = {}

Exists(k, i) == i \in 1..rows[k]

-----------------------------------------------------------------------------
(* Executors, pages, cabinets and portfolios.  Their names and bans are    *)
(* data nothing in the API acts on: an update of them is no step.          *)

CreateRow(k) ==
  /\ request = NoRequest
  /\ rows[k] < MaxRows[k]
  /\ rows' = [rows EXCEPT ![k] = @ + 1]
  /\ portfolio' = IF k = "cabinet" THEN Append(portfolio, Null) ELSE portfolio
  /\ UNCHANGED <<bound, core, campaigns, flow, request, edits, ended>>

\* Mutant: the executor is not looked up.
BindExecutorUnseen(p, e) ==
  /\ request = NoRequest
  /\ Exists("portfolio", p)
  /\ <<p, e>> \notin bound
  /\ bound' = bound \cup {<<p, e>>}
  /\ UNCHANGED <<rows, portfolio, core, campaigns, flow, request, edits, ended>>

\* A pair that is bound already is refused by the table's unique index.
BindExecutor(p, e) ==
  /\ request = NoRequest
  /\ Exists("executor", e) /\ Exists("portfolio", p)
  /\ <<p, e>> \notin bound
  /\ bound' = bound \cup {<<p, e>>}
  /\ UNCHANGED <<rows, portfolio, core, campaigns, flow, request, edits, ended>>

UnbindExecutor(p, e) ==
  /\ request = NoRequest
  /\ Exists("executor", e) /\ Exists("portfolio", p)
  /\ bound' = bound \ {<<p, e>>}
  /\ UNCHANGED <<rows, portfolio, core, campaigns, flow, request, edits, ended>>

BindPortfolio(a, p) ==
  /\ request = NoRequest
  /\ Exists("portfolio", p) /\ Exists("cabinet", a)
  /\ portfolio' = [portfolio EXCEPT ![a] = p]
  /\ UNCHANGED <<rows, bound, core, campaigns, flow, request, edits, ended>>

\* Only from the portfolio the cabinet is in: BadBusinessPortfolioError.
UnbindPortfolio(a, p) ==
  /\ request = NoRequest
  /\ Exists("cabinet", a)
  /\ portfolio[a] = p
  /\ portfolio' = [portfolio EXCEPT ![a] = Null]
  /\ UNCHANGED <<rows, bound, core, campaigns, flow, request, edits, ended>>

-----------------------------------------------------------------------------
(* Campaigns and flows of the core.                                        *)

\* The core's create: a row without a default flow.
NewCore ==
  /\ Len(default) < MaxCampaigns
  /\ default' = Append(default, Null)
  /\ asked' = Append(asked, Null)
  /\ reached' = Append(reached, 0)

CreateCore ==
  /\ request = NoRequest
  /\ NewCore
  /\ UNCHANGED <<catalog, made, edited, campaigns, flow, request, edits, ended>>

\* Mutant: any flow will do.
ValidDefaultOfAny(c, f) == f \in 1..Len(flows) \ deleted

\* _validate_default_flow.
ValidDefault(c, f) ==
  /\ f \in 1..Len(flows) \ deleted
  /\ flows[f] = c

\* The core's update writes the default flow it is given, and null for none.
UpdateCore(c, f) ==
  /\ request = NoRequest
  /\ c \in 1..Len(default)
  /\ f = Null \/ ValidDefault(c, f)
  /\ default' = [default EXCEPT ![c] = f]
  /\ asked' = [asked EXCEPT ![c] = f]
  /\ edited' = edited \ {c}
  /\ UNCHANGED <<catalog, made, reached, campaigns, flow, request, edits, ended>>

CreateFlow(c) ==
  /\ request = NoRequest
  /\ c \in 1..Len(default)
  /\ Len(flows) < MaxFlows
  /\ flows' = Append(flows, c)
  /\ UNCHANGED <<catalog, core, campaigns, deleted, request, edits, ended>>

DeleteFlow(f) ==
  /\ request = NoRequest
  /\ f \in 1..Len(flows) \ deleted
  /\ deleted' = deleted \cup {f}
  /\ request' = [op |-> "clear", flow |-> f]
  /\ UNCHANGED <<catalog, core, campaigns, flows, edits, ended>>

ClearDefault ==
  /\ request # NoRequest /\ request.op = "clear"
  /\ default' = [c \in DOMAIN default |->
                   IF default[c] = request.flow THEN Null ELSE default[c]]
  /\ request' = NoRequest
  /\ UNCHANGED <<catalog, made, reached, asked, edited, campaigns, flow, edits,
                 ended>>

-----------------------------------------------------------------------------
(* Facebook campaigns.                                                     *)

CreateCampaign(ids) ==
  /\ request = NoRequest
  /\ NewCore
  /\ made' = made \cup {Len(default) + 1}
  /\ request' = [op |-> "create", core |-> Len(default) + 1, ids |-> ids]
  /\ UNCHANGED <<catalog, edited, campaigns, flow, edits, ended>>

\* Mutant: the ids are stored unseen.
FoundUnseen(ids) == TRUE

\* The lookups of cabinet, executor and page.
Found(ids) == \A k \in Named : ids[k] # Kept => Exists(k, ids[k])

InsertCampaign ==
  /\ request # NoRequest /\ request.op = "create"
  /\ Found(request.ids)
  /\ campaigns' = Append(campaigns,
       [core |-> request.core, ids |-> request.ids, edit |-> 0])
  /\ request' = NoRequest
  /\ UNCHANGED <<catalog, core, flow, edits, ended>>

\* Mutant: the id of the Facebook campaign is passed on.
CoreOfSameId(r) == r

CoreOf(r) == campaigns[r].core

\* The core's update again, with no default flow.
EditCampaign(r, ids) ==
  /\ request = NoRequest
  /\ r \in 1..Len(campaigns)
  /\ edits < MaxEdits
  /\ edits' = edits + 1
  /\ default' = [default EXCEPT ![CoreOf(r)] = Null]
  /\ reached' = [reached EXCEPT ![CoreOf(r)] = edits + 1]
  /\ edited' = edited \cup {CoreOf(r)}
  /\ request' = [op |-> "edit", row |-> r, ids |-> ids, edit |-> edits + 1]
  /\ UNCHANGED <<catalog, made, asked, campaigns, flow, ended>>

SaveCampaign ==
  /\ request # NoRequest /\ request.op = "edit"
  /\ Found(request.ids)
  /\ campaigns' = [campaigns EXCEPT
       ![request.row].ids = [k \in Named |-> IF request.ids[k] = Kept
                                             THEN @[k] ELSE request.ids[k]],
       ![request.row].edit = request.edit]
  /\ request' = NoRequest
  /\ UNCHANGED <<catalog, core, flow, edits, ended>>

\* A lookup finds nothing, the statement fails, or the process restarts.
Fail ==
  /\ request # NoRequest
  /\ request' = NoRequest
  /\ lost' = IF request.op = "create" THEN lost \cup {request.core} ELSE lost
  /\ half' = IF request.op = "edit" THEN half \cup {request.row} ELSE half
  /\ cut' = IF request.op = "clear" THEN cut \cup {request.flow} ELSE cut
  /\ UNCHANGED <<catalog, core, campaigns, flow, edits>>

Next ==
  \/ \E k \in Kind : CreateRow(k)
  \/ \E p \in 1..MaxRows["portfolio"], e \in 1..MaxRows["executor"] :
       BindExecutor(p, e) \/ UnbindExecutor(p, e)
  \/ \E a \in 1..MaxRows["cabinet"], p \in 1..MaxRows["portfolio"] :
       BindPortfolio(a, p) \/ UnbindPortfolio(a, p)
  \/ CreateCore
  \/ \E c \in 1..MaxCampaigns, f \in 1..MaxFlows \cup {Null} : UpdateCore(c, f)
  \/ \E c \in 1..MaxCampaigns : CreateFlow(c)
  \/ \E f \in 1..MaxFlows : DeleteFlow(f)
  \/ ClearDefault
  \/ \E ids \in Names : CreateCampaign(ids)
  \/ InsertCampaign
  \/ \E r \in 1..MaxCampaigns, ids \in Changes : EditCampaign(r, ids)
  \/ SaveCampaign
  \/ Fail

Spec == Init /\ [][Next]_vars

-----------------------------------------------------------------------------
(* Properties.                                                             *)

Doing(op) == request # NoRequest /\ request.op = op

\* Every Facebook campaign names an executor, a page and a cabinet that exist
\* and has a core campaign no other shares; a core campaign made for one is
\* without it only while its creation runs or when that failed (create writes
\* the core row before it looks anything up).
CampaignsAreWhole ==
  /\ \A r \in 1..Len(campaigns) :
       /\ campaigns[r].core \in made
       /\ \A k \in Named : Exists(k, campaigns[r].ids[k])
  /\ \A r, s \in 1..Len(campaigns) :
       campaigns[r].core = campaigns[s].core => r = s
  /\ \A c \in made :
       \/ \E r \in 1..Len(campaigns) : campaigns[r].core = c
       \/ c \in lost
       \/ Doing("create") /\ request.core = c

\* The two rows of a Facebook campaign show the same edit, except while one
\* runs on it or after one failed half-way, and then the core row is ahead:
\* update writes it before it looks up what the other row is to name.
EditsArriveWhole ==
  \A r \in 1..Len(campaigns) :
    \/ campaigns[r].edit = reached[campaigns[r].core]
    \/ /\ campaigns[r].edit < reached[campaigns[r].core]
       /\ r \in half \/ (Doing("edit") /\ request.row = r)

\* A campaign's default flow is the one the core's API was last told, a flow
\* of its own that is not deleted, unless the deletion runs or failed half-way;
\* and it is lost only to the deletion of the flow or to an edit through
\* Facebook, which passes no default flow to an update that writes it.
DefaultIsKept ==
  \A c \in 1..Len(default) :
    /\ default[c] # Null =>
         /\ default[c] = asked[c]
         /\ flows[default[c]] = c
         /\ default[c] \in deleted =>
              default[c] \in cut \/ (Doing("clear") /\ request.flow = default[c])
    /\ default[c] = Null /\ asked[c] # Null =>
         asked[c] \in deleted \/ c \in edited
=============================================================================
