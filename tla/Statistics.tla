------------------------------ MODULE Statistics ------------------------------
(***************************************************************************)
(* The statistics report of a campaign: ReportService.statistics_report    *)
(* (reports/services.py) over the queries of StatisticsReportRepository    *)
(* (reports/repositories.py).                                              *)
(*                                                                         *)
(* A query is a record: the period's first and last day (Null: until       *)
(* today), the parameters to group by, and whether clicks without          *)
(* parameters are left out.  Reading the database is one step: only the    *)
(* thread that answers the query writes these tables.                      *)
(*                                                                         *)
(* Payouts are Decimals of whole cents, and counted in cents.  Expenses    *)
(* are JSON numbers, binary fractions that Decimal.from_float keeps as     *)
(* they are: 0.1 is a little more than ten cents.  They are counted in a   *)
(* unit so fine that each is a whole number of them, Cent units to a cent. *)
(*                                                                         *)
(* A leaf of the report is known by its day and the tuple of its group     *)
(* values; the code's nested dictionaries are the same function, one       *)
(* argument at a time.                                                     *)
(***************************************************************************)
EXTENDS Expenses, Sums

CONSTANTS
  Gap,       \* REPORT_GAP_SECONDS, in days
  Cent,      \* units of money to a cent
  NotANumber,\* an amount that is a string, null, a list or an object
  FloatSum,  \* what sum() makes of the amounts of a distribution
  Noise,     \* what its float rounding may be off by
  MaxGroup   \* bound: parameters a query groups by

ASSUME GapAssumption == Gap \in Nat /\ MaxGroup \in Nat

\* A distribution is a JSON object: nothing keeps its amounts positive, nor
\* makes them numbers.
ASSUME AmountsAssumption ==
  \A f \in Distribution :
    IsFiniteSet(DOMAIN f) /\ f \in [DOMAIN f -> Int \cup {NotANumber}]

ASSUME NotANumberAssumption == NotANumber \notin Int

\* sum() can add up the amounts.
Numeric(f) == \A v \in DOMAIN f : f[v] # NotANumber
NeverNegative(f) == Numeric(f) /\ \A v \in DOMAIN f : f[v] >= 0

\* sum() rounds to a float: of amounts that are not negative it makes nothing
\* negative and nothing less than the largest, and over all the days it is off
\* by less than a cent, as floats are for amounts that are expenses.
ASSUME FloatsAssumption ==
  /\ Cent \in Nat \ {0} /\ Noise \in Nat /\ (LastDay + 1) * Noise < Cent
  /\ \A f \in Distribution :
       /\ Numeric(f) => FloatSum[f] \in Int
       /\ NeverNegative(f) =>
            /\ FloatSum[f] - SumOf(f) \in -Noise..Noise
            /\ FloatSum[f] >= 0
            /\ \A v \in DOMAIN f : f[v] <= FloatSum[f]

Groupings == UNION {[1..n -> Parameter] : n \in 0..MaxGroup}
Query == {q \in [start : Day, end : Day \cup {Null}, group : Groupings,
                 skip : BOOLEAN] : q.end = Null \/ q.start <= q.end}
Periods == {q \in Query : q.group = <<>>}
Groups == {q \in Query : ~q.skip}

-----------------------------------------------------------------------------
(* The rows of the period, widened by the gap on both sides.               *)

Lower(q, d) == d + Gap >= q.start
\* Mutant: postbacks after the period's end count without limit.
UpperOpen(q, d) == TRUE

Upper(q, d) == q.end = Null \/ d <= q.end + Gap

IsRow(q, i) ==
  /\ Lower(q, clicks[i].day) /\ Upper(q, clicks[i].day)
  /\ q.skip => \E p \in Parameter : clicks[i].with[p] # Null

\* The postbacks for a click id in the window.
Answering(q, c) ==
  {j \in 1..Len(postbacks) : /\ postbacks[j].id = c
                             /\ Lower(q, postbacks[j].day)
                             /\ Upper(q, postbacks[j].day)}

\* Mutant: the rows are numbered from the oldest.
NewestFirst(q, c) ==
  LET rows == Answering(q, c) IN
  IF rows = {} THEN 0 ELSE CHOOSE j \in rows : \A k \in rows : j <= k

\* The one postback the join keeps for a click: the newest of its id in the
\* window; 0 when there is none.
Newest(q, c) ==
  LET rows == Answering(q, c) IN
  IF rows = {} THEN 0 ELSE CHOOSE j \in rows : \A k \in rows : k <= j

StatusOf(q, i) ==
  LET j == Newest(q, clicks[i].id) IN IF j = 0 THEN Null ELSE postbacks[j].status

PayoutOf(q, i) ==
  LET j == Newest(q, clicks[i].id) IN
  IF j = 0 \/ postbacks[j].status \notin Paid \/ postbacks[j].cost = Null THEN 0
  ELSE postbacks[j].cost

-----------------------------------------------------------------------------
(* The report.                                                             *)

Last(q) == IF q.end = Null THEN today ELSE q.end
Dates(q) == q.start..Last(q)

\* The parameter expenses are distributed over comes first in the grouping
\* (place 0), and the expenses are then shown at its values; the others follow
\* in their order.
Matches(q) == parameter \in {q.group[k] : k \in 1..Len(q.group)}
Places(q) ==
  (IF Matches(q) THEN {0} ELSE {})
    \cup {k \in 1..Len(q.group) : q.group[k] # parameter}
ParameterAt(q, k) == IF k = 0 THEN parameter ELSE q.group[k]

ValuesOf(q, i) == [k \in Places(q) |-> clicks[i].with[ParameterAt(q, k)]]

\* Every combination any click of the campaign has had, at any time.
DistributionValues(q) ==
  IF q.group = <<>> THEN {<<>>}
  ELSE {ValuesOf(q, i) : i \in 1..Len(clicks)}

Statuses(q, S) ==
  [s \in LeadStatus |->
     LET led == {i \in S : StatusOf(q, i) = s}
     IN [leads |-> Cardinality(led),
         payouts |-> SumOf([i \in led |-> PayoutOf(q, i)])]]

Count(q, S) == [clicks |-> Cardinality(S), statuses |-> Statuses(q, S)]

Leaf(q, d, values) ==
  Count(q, {i \in 1..Len(clicks) :
              clicks[i].day = d /\ IsRow(q, i) /\ ValuesOf(q, i) = values})

\* Mutant: rows of the gap are counted too.
CountedAll(q) == {i \in 1..Len(clicks) : IsRow(q, i)}

Counted(q) == {i \in 1..Len(clicks) : clicks[i].day \in Dates(q) /\ IsRow(q, i)}

Total(q) == Count(q, Counted(q))

-----------------------------------------------------------------------------
(* Expenses and profits.                                                   *)

\* Decimal.from_float(sum(distribution.values())).
Spent(d) ==
  IF expenses[d] = Null THEN 0 ELSE FloatSum[expenses[d].distribution]

\* Decimal.from_float of one amount.
SpentOn(d, v) ==
  IF expenses[d] # Null /\ v \in DOMAIN expenses[d].distribution
  THEN expenses[d].distribution[v] ELSE 0

\* quantize to cents, ROUND_FLOOR.
Cents(x) == x \div Cent

\* The entries the report shows a profit at: days, or under the distribution's
\* parameter the values of a day, whose leaves are those below them.
Entries(q) ==
  Dates(q) \X IF Matches(q) THEN {x[0] : x \in DistributionValues(q)} ELSE {Null}

Below(q, e) == {x \in DistributionValues(q) : Matches(q) => x[0] = e[2]}
ExpenseAt(q, e) == IF Matches(q) THEN SpentOn(e[1], e[2]) ELSE Spent(e[1])

PayoutsAt(q, e, kinds) ==
  SumOf([x \in Below(q, e) |->
           SumOf([s \in kinds |-> Leaf(q, e[1], x).statuses[s].payouts])])

\* Mutant: an entry without expenses shows what it was paid as profit.
ShownAlways(x) == TRUE

HasProfit(x) == x > 0

ProfitAt(q, e, kinds) ==
  IF HasProfit(ExpenseAt(q, e))
  THEN Cents(Cent * PayoutsAt(q, e, kinds) - ExpenseAt(q, e))
  ELSE 0

TotalProfit(q, kinds) ==
  LET paid == {i \in Counted(q) : /\ StatusOf(q, i) \in kinds
                                  /\ Spent(clicks[i].day) # 0} IN
  Cents(Cent * SumOf([i \in paid |-> PayoutOf(q, i)])
          - SumOf([d \in Dates(q) |-> Spent(d)]))

\* The report raises KeyError at a value no click has ever had.
Missing(q) ==
  {x \in Dates(q) \X Value :
     /\ Matches(q) /\ expenses[x[1]] # Null
     /\ x[2] \in DOMAIN expenses[x[1]].distribution /\ ~Seen(parameter, x[2])}
\* TypeError at an amount that is not a number: the total adds up the amounts
\* of every day, whatever the grouping.
Unadded(q) ==
  {d \in Dates(q) : expenses[d] # Null /\ ~Numeric(expenses[d].distribution)}
Raises(q) == Missing(q) # {} \/ Unadded(q) # {}

-----------------------------------------------------------------------------
(* Properties.                                                             *)

\* Reports are read between two submissions.
Idle == request = NoRequest

\* For a period and ids used once, the total counts every click of the period
\* once, and as a lead of the status (and at the cost) of the newest postback
\* for it that came no later than the gap after the period.
TotalsAreTrue ==
  Idle => \A q \in Periods :
    (\A i, j \in 1..Len(clicks) : clicks[i].id = clicks[j].id => i = j) =>
    LET mine == {i \in 1..Len(clicks) :
                   /\ clicks[i].day \in Dates(q)
                   /\ q.skip => clicks[i].with # [p \in Parameter |-> Null]}
        Answers(i, j) == /\ postbacks[j].id = clicks[i].id
                         /\ q.end = Null \/ postbacks[j].day <= q.end + Gap
        Leads(s) ==
          {x \in mine \X (1..Len(postbacks)) :
             /\ Answers(x[1], x[2]) /\ postbacks[x[2]].status = s
             /\ \A k \in (x[2] + 1)..Len(postbacks) : ~Answers(x[1], k)}
    IN /\ Total(q).clicks = Cardinality(mine)
       /\ \A s \in LeadStatus :
            LET t == Total(q).statuses[s] IN
            /\ t.leads = Cardinality(Leads(s))
            /\ t.payouts = IF s \in Paid
                           THEN SumOf([x \in Leads(s) |-> postbacks[x[2]].cost])
                           ELSE 0

\* The leaves of the report, in any grouping, are the parts of the total: a
\* click, a lead or a payout is in one leaf, and in none twice, also when two
\* clicks share an id.
PartsMakeTheTotal ==
  Idle =>
    \A q \in Groups :
      LET parts == Dates(q) \X DistributionValues(q)
          part == [x \in parts |-> Leaf(q, x[1], x[2])]
          Counts == [clicks : Nat,
                     statuses : [LeadStatus -> [leads : Nat, payouts : Int]]]
      IN /\ part \in [parts -> Counts]
         /\ Total(q).clicks = SumOf([x \in parts |-> part[x].clicks])
         /\ \A s \in LeadStatus :
              LET t == Total(q).statuses[s] IN
              /\ t.leads = SumOf([x \in parts |-> part[x].statuses[s].leads])
              /\ t.payouts = SumOf([x \in parts |-> part[x].statuses[s].payouts])

\* With no negative expense, the total profit is the sum of the profits shown
\* and of what is in the total only (under the distribution's parameter, the
\* payouts of values without expenses on days that have some), but for what
\* rounding each figure down to cents leaves: less than a cent an entry, and one
\* cent either way for the float rounding of the days' sums, which the floor
\* turns into a whole one.
NoneNegative(q) ==
  \A d \in Dates(q) :
    expenses[d] # Null => NeverNegative(expenses[d].distribution)
ProfitsAddUp ==
  Idle => \A q \in Groups, kinds \in {{"accept"}, Paid} :
    ~Raises(q) /\ NoneNegative(q) =>
      LET shown == SumOf([e \in Entries(q) |-> ProfitAt(q, e, kinds)])
          bare == {e \in Entries(q) : Spent(e[1]) # 0 /\ ExpenseAt(q, e) = 0}
          uncovered == SumOf([e \in bare |-> PayoutsAt(q, e, kinds)])
      IN TotalProfit(q, kinds) - shown - uncovered
           \in -1..Cardinality(Entries(q))

\* A report of days whose expenses are numbers, for values the API offered when
\* they were stored, is answered: neither another submission, another parameter
\* nor another period or grouping makes it fail.  A value that was not offered
\* makes some reports fail, and an amount that is not a number every report of
\* its day; schemas.py lets both in.
ReportAnswers ==
  Idle => \A q \in Groups :
    LET days == {d \in Dates(q) : expenses[d] # Null} IN
    (\A d \in days : /\ Numeric(expenses[d].distribution)
                     /\ \A v \in DOMAIN expenses[d].distribution :
                          <<d, v>> \notin strays)
      => ~Raises(q)

\* Once the gap after a period has passed, its clicks, their leads and payouts
\* are final: no later click or postback, not even of the same id, and no
\* submission of expenses changes the counts.
Outcome(q) ==
  [i \in Counted(q) |-> <<clicks[i], StatusOf(q, i), PayoutOf(q, i)>>]
ClosedPeriodIsFinal ==
  [][\A e \in Day :
       today > e + Gap =>
         \A b \in 0..e, skip \in BOOLEAN :
           LET q == [start |-> b, end |-> e, group |-> <<>>, skip |-> skip]
           IN Outcome(q)' = Outcome(q)]_vars
=============================================================================
