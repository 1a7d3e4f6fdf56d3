------------------------------- MODULE Expenses -------------------------------
(***************************************************************************)
(* The expenses of one campaign (ReportService.submit_expenses in          *)
(* reports/services.py) and the events its reports are made of.            *)
(*                                                                         *)
(* The first submission fixes the parameter the campaign's expenses are    *)
(* distributed over; each submission then upserts one row per date, every  *)
(* row a statement of its own.  Nothing spans the statements: a database   *)
(* error, a restart, or an item without a distribution (reports/schemas.py *)
(* does not require one) ends the submission between two of them.          *)
(*                                                                         *)
(* All of it runs on the HTTP thread, one request at a time: clicks and    *)
(* postbacks come between submissions, never inside one.  Time is the day; *)
(* a click or postback carries the day it was stored.                      *)
(***************************************************************************)
EXTENDS Integers, Sequences

CONSTANTS
  LastDay,        \* bound: the days are 0..LastDay
  ClickId,        \* the click ids events may carry
  Parameter,      \* click parameters an expense may be distributed over
  Value,          \* the values such parameters take
  Labels,         \* the parameters clicks come with: Parameter -> Value or Null
  Submitted,      \* the dates expenses are submitted for
  Distribution,   \* the distributions submitted: values -> amounts
  Cost,           \* what the campaign pays for a lead, in cents
  Status,         \* the lead statuses its mapper knows
  Null,           \* SQL NULL, JSON null, a missing key
  NoRequest,      \* the HTTP thread is between two submissions
  MaxClicks, MaxPostbacks, MaxEvents,   \* bounds: each, and both together
  MaxItems, MaxSubmissions              \* bounds

Day == 0..LastDay
LeadStatus == {"accept", "expect", "reject", "trash"}
Paid == {"accept", "expect"}

ASSUME ConstantsAssumption ==
  /\ LastDay \in Nat
  /\ Null \notin Parameter /\ Null \notin Value
  /\ Null \notin LeadStatus /\ Null \notin Distribution
  /\ Null \notin Day /\ Null \notin Cost
  /\ Labels \subseteq [Parameter -> Value \cup {Null}]
  /\ Submitted \subseteq Day /\ Status \subseteq LeadStatus
  /\ Cost \subseteq Nat
  /\ \A f \in Distribution : DOMAIN f \subseteq Value

ASSUME BoundsAssumption ==
  /\ MaxClicks \in Nat /\ MaxPostbacks \in Nat /\ MaxEvents \in Nat
  /\ MaxItems \in Nat /\ MaxSubmissions \in Nat

Click == [id : ClickId, day : Day, with : Labels]
Postback == [id : ClickId, day : Day, status : LeadStatus \cup {Null},
             cost : Cost \cup {Null}]
Item == [date : Submitted, distribution : Distribution]
\* An expense row; by is history, the parameter its submission named.
Expense == [by : Parameter, distribution : Distribution]
\* A submission under way: its parameter, its items, the next of them, and as
\* history the rows that stood when it came.
Request == [parameter : Parameter, items : Seq(Item), at : Nat \ {0},
            before : [Day -> Expense \cup {Null}]]

ASSUME ModelValuesAssumption == Null \notin Expense /\ NoRequest \notin Request

VARIABLES
  today,
  clicks,       \* table track_click, by primary key
  postbacks,    \* table track_postback, by primary key
  parameter,    \* campaign.expenses_distribution_parameter
  expenses,     \* table expense: Day -> Expense or Null
  request,      \* the submission under way
  submissions,  \* with rows to store, so far
  strays        \* history: <<date, value>> of the rows whose value was not one
                \* offered when they were stored

events == <<today, clicks, postbacks>>
vars == <<events, parameter, expenses, request, submissions, strays>>

TypeOK ==
  /\ today \in Day
  /\ clicks \in Seq(Click)
  /\ postbacks \in Seq(Postback)
  /\ parameter \in Parameter \cup {Null}
  /\ expenses \in [Day -> Expense \cup {Null}]
  /\ request \in Request \cup {NoRequest}
  /\ submissions \in Nat
  /\ strays \subseteq Day \X Value

Init ==
  /\ today = 0
  /\ clicks = <<>> /\ postbacks = <<>>
  /\ parameter = Null
  /\ expenses = [d \in Day |-> Null]
  /\ request = NoRequest
  /\ submissions = 0
  /\ strays = {}

-----------------------------------------------------------------------------
(* What the tracker stores.                                                *)

Tick ==
  /\ today < LastDay
  /\ today' = today + 1
  /\ UNCHANGED <<clicks, postbacks, parameter, expenses, request, submissions,
                 strays>>

\* The id comes with the request: two clicks may carry the same one.
TrackClick(c, l) ==
  /\ request = NoRequest
  /\ Len(clicks) + Len(postbacks) < MaxEvents /\ Len(clicks) < MaxClicks
  /\ clicks' = Append(clicks, [id |-> c, day |-> today, with |-> l])
  /\ UNCHANGED <<today, postbacks, parameter, expenses, request, submissions,
                 strays>>

\* Mutant: the cost is written whatever the status.
PostbackOfCosting(c, s, cost) ==
  LET known == \E i \in 1..Len(clicks) : clicks[i].id = c IN
  [id |-> c, day |-> today, status |-> IF known THEN s ELSE Null,
   cost |-> IF known THEN cost ELSE 0]

\* The row of a postback: no status without a click, a cost only when it pays.
PostbackOf(c, s, cost) ==
  LET known == \E i \in 1..Len(clicks) : clicks[i].id = c IN
  [id |-> c, day |-> today,
   status |-> IF known THEN s ELSE Null,
   cost |-> IF known /\ s \in Paid THEN cost ELSE Null]

TrackPostback(c, s, cost) ==
  /\ request = NoRequest
  /\ Len(clicks) + Len(postbacks) < MaxEvents /\ Len(postbacks) < MaxPostbacks
  /\ postbacks' = Append(postbacks, PostbackOf(c, s, cost))
  /\ UNCHANGED <<today, clicks, parameter, expenses, request, submissions,
                 strays>>

-----------------------------------------------------------------------------
(* POST of expenses.                                                       *)

\* Mutant: a campaign that has a parameter takes expenses for any other.
AcceptsAny(p) == TRUE

Accepts(p) == parameter \in {Null, p}

Stores(p, items) == Accepts(p) /\ items # <<>>

\* Reads the campaign, and fixes its parameter if it has none; a submission
\* that names another one is refused before anything is stored.
Submit(p, items) ==
  /\ request = NoRequest
  /\ Stores(p, items) => submissions < MaxSubmissions
  /\ submissions' = IF Stores(p, items) THEN submissions + 1 ELSE submissions
  /\ parameter' = IF parameter = Null THEN p ELSE parameter
  /\ request' = IF Accepts(p)
                THEN [parameter |-> p, items |-> items, at |-> 1,
                      before |-> expenses]
                ELSE NoRequest
  /\ UNCHANGED <<events, expenses, strays>>

Doing == request # NoRequest /\ request.at <= Len(request.items)
Current == request.items[request.at]

\* Mutant: the insert leaves the row a date already has.
UpsertedKeeping(d, row) ==
  IF expenses[d] = Null THEN [expenses EXCEPT ![d] = row] ELSE expenses

Upserted(d, row) == [expenses EXCEPT ![d] = row]

\* Mutant: only the clicks of today are looked at.
SeenToday(p, v) ==
  \E i \in 1..Len(clicks) : clicks[i].day = today /\ clicks[i].with[p] = v

\* Some click of the campaign has value v for parameter p.
Seen(p, v) == \E i \in 1..Len(clicks) : clicks[i].with[p] = v

\* The values the API lists for a parameter, to submit expenses for.
Offered(p) == {v \in Value : Seen(p, v)}

Store ==
  /\ Doing
  /\ expenses' = Upserted(Current.date, [by |-> request.parameter,
                                  distribution |-> Current.distribution])
  /\ strays' = {x \in strays : x[1] # Current.date} \cup
       {<<Current.date, v>> :
          v \in DOMAIN Current.distribution \ Offered(request.parameter)}
  /\ request' = [request EXCEPT !.at = @ + 1]
  /\ UNCHANGED <<events, parameter, submissions>>

Answer ==
  /\ request # NoRequest /\ ~Doing
  /\ request' = NoRequest
  /\ UNCHANGED <<events, parameter, expenses, submissions, strays>>

\* The next item has no distribution (KeyError), its statement fails, or the
\* process restarts: the request ends here.
Interrupt ==
  /\ request # NoRequest
  /\ request' = NoRequest
  /\ UNCHANGED <<events, parameter, expenses, submissions, strays>>

Items == UNION {[1..n -> Item] : n \in 0..MaxItems}

Next ==
  \/ Tick
  \/ \E c \in ClickId, l \in Labels : TrackClick(c, l)
  \/ \E c \in ClickId, s \in Status, cost \in Cost : TrackPostback(c, s, cost)
  \/ \E p \in Parameter, items \in Items : Submit(p, items)
  \/ Store
  \/ Answer
  \/ Interrupt

Spec == Init /\ [][Next]_vars

-----------------------------------------------------------------------------
(* Properties.                                                             *)

\* Every expense row was submitted for the parameter the campaign has now: no
\* sequence of submissions, failed or refused ones included, leaves a row
\* whose values belong to another parameter.
ExpensesHaveParameter ==
  \A d \in Day : expenses[d] # Null => expenses[d].by = parameter

\* While a submission runs, and so wherever it fails, the rows are those that
\* stood when it came with exactly its first items applied, the last item of a
\* date counting: nothing of a later item, nothing lost of an earlier one.
PrefixIsStored ==
  request # NoRequest =>
    \A d \in Day :
      LET mine == {k \in 1..(request.at - 1) : request.items[k].date = d} IN
      \/ mine = {} /\ expenses[d] = request.before[d]
      \/ \E k \in mine :
           /\ \A j \in mine : j <= k
           /\ expenses[d] = [by |-> request.parameter,
                       distribution |-> request.items[k].distribution]
=============================================================================
