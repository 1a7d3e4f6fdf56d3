--------------------------- MODULE Statistics_proofs ---------------------------
(***************************************************************************)
(* Theorems about expenses and the statistics report, for every set of     *)
(* parameters, values, labels and distributions and every bound.           *)
(***************************************************************************)
EXTENDS Statistics, Sums_proofs

-----------------------------------------------------------------------------
(* Types.                                                                  *)

LEMMA InitTyped == Init => TypeOK
<1>1. 0 \in Day
  BY ConstantsAssumption DEF Day
<1>. QED BY <1>1 DEF Init, TypeOK

LEMMA RequestTyped ==
  ASSUME NEW r \in Request
  PROVE  /\ r.parameter \in Parameter
         /\ r.items \in Seq(Item)
         /\ r.at \in Nat \ {0}
         /\ r.before \in [Day -> Expense \cup {Null}]
BY DEF Request

\* An item that remains has a date of the period and a distribution.
LEMMA CurrentTyped ==
  ASSUME TypeOK, Doing
  PROVE  /\ request \in Request
         /\ request.at \in 1..Len(request.items)
         /\ Current \in Item
         /\ Current.date \in Day
         /\ Current.distribution \in Distribution
         /\ DOMAIN Current.distribution \subseteq Value
<1>1. request \in Request /\ request.at \in 1..Len(request.items)
  BY RequestTyped DEF TypeOK, Doing
<1>2. Current \in Item
  BY <1>1, RequestTyped DEF Current
<1>. QED BY <1>1, <1>2, ConstantsAssumption DEF Item

LEMMA StepTyped == TypeOK /\ [Next]_vars => TypeOK'
<1>. SUFFICES ASSUME TypeOK, [Next]_vars PROVE TypeOK'
  OBVIOUS
<1>1. CASE Tick
  BY <1>1, ConstantsAssumption DEF Tick, TypeOK, Day
<1>2. ASSUME NEW c \in ClickId, NEW l \in Labels, TrackClick(c, l) PROVE TypeOK'
  <2>1. [id |-> c, day |-> today, with |-> l] \in Click
    BY <1>2 DEF TypeOK, Click
  <2>. QED BY <1>2, <2>1 DEF TrackClick, TypeOK
<1>3. ASSUME NEW c \in ClickId, NEW s \in Status, NEW cost \in Cost,
             TrackPostback(c, s, cost)
      PROVE TypeOK'
  <2>1. PostbackOf(c, s, cost) \in Postback
    BY <1>3, ConstantsAssumption DEF PostbackOf, Postback, TypeOK
  <2>. QED BY <1>3, <2>1 DEF TrackPostback, TypeOK
<1>4. ASSUME NEW p \in Parameter, NEW items \in Items, Submit(p, items)
      PROVE TypeOK'
  <2>1. items \in Seq(Item)
    BY DEF Items
  <2>2. request' \in Request \cup {NoRequest}
    BY <1>4, <2>1 DEF Submit, Request, TypeOK
  <2>3. submissions' \in Nat
    BY <1>4 DEF Submit, TypeOK
  <2>. QED BY <1>4, <2>2, <2>3 DEF Submit, TypeOK, events
<1>5. CASE Store
  <2>1. request' \in Request
    BY <1>5, CurrentTyped DEF Store, Request
  <2>2. request.parameter \in Parameter
    BY <1>5, CurrentTyped, RequestTyped DEF Store
  <2>3. expenses' \in [Day -> Expense \cup {Null}]
    BY <1>5, <2>2, CurrentTyped DEF Store, Upserted, Expense, TypeOK
  <2>4. strays' \subseteq Day \X Value
    BY <1>5, CurrentTyped DEF Store, TypeOK
  <2>. QED BY <1>5, <2>1, <2>3, <2>4 DEF Store, TypeOK, events
<1>6. CASE Answer \/ Interrupt
  BY <1>6 DEF Answer, Interrupt, TypeOK, events
<1>7. CASE UNCHANGED vars
  BY <1>7 DEF vars, events, TypeOK
<1>. QED BY <1>1, <1>2, <1>3, <1>4, <1>5, <1>6, <1>7 DEF Next

\* Every table, the campaign's parameter and the submission under way keep
\* their types whatever is tracked and submitted, and however it fails.
THEOREM TypeCorrect == Spec => []TypeOK
<1>1. Init => TypeOK
  BY InitTyped
<1>2. TypeOK /\ [Next]_vars => TypeOK'
  BY StepTyped
<1>. QED BY <1>1, <1>2, PTL DEF Spec

-----------------------------------------------------------------------------
(* Expenses.                                                               *)

\* What makes ExpensesHaveParameter inductive: the submission under way is for
\* the campaign's parameter too.
OneParameter ==
  /\ ExpensesHaveParameter
  /\ request # NoRequest => request.parameter = parameter

LEMMA StepKeepsParameter ==
  TypeOK /\ OneParameter /\ [Next]_vars => OneParameter'
<1>. SUFFICES ASSUME TypeOK, OneParameter, [Next]_vars PROVE OneParameter'
  OBVIOUS
<1>. USE DEF OneParameter, ExpensesHaveParameter
<1>1. CASE Tick
  BY <1>1 DEF Tick
<1>2. ASSUME NEW c \in ClickId, NEW l \in Labels, TrackClick(c, l)
      PROVE OneParameter'
  BY <1>2 DEF TrackClick
<1>3. ASSUME NEW c \in ClickId, NEW s \in Status, NEW cost \in Cost,
             TrackPostback(c, s, cost)
      PROVE OneParameter'
  BY <1>3 DEF TrackPostback
<1>4. ASSUME NEW p \in Parameter, NEW items \in Items, Submit(p, items)
      PROVE OneParameter'
  <2>1. ASSUME NEW d \in Day, expenses'[d] # Null
        PROVE expenses'[d].by = parameter'
    <3>1. expenses[d].by = parameter /\ expenses[d] \in Expense
      BY <1>4, <2>1 DEF Submit, TypeOK
    <3>2. parameter # Null
      BY <3>1, ConstantsAssumption DEF Expense
    <3>. QED BY <1>4, <3>1, <3>2 DEF Submit
  <2>2. request' # NoRequest => request'.parameter = parameter'
    BY <1>4 DEF Submit, Accepts
  <2>. QED BY <2>1, <2>2
<1>5. CASE Store
  <2>1. /\ parameter' = parameter
        /\ request' # NoRequest => request'.parameter = parameter'
    BY <1>5, CurrentTyped, RequestTyped DEF Store, Doing, Request
  <2>2. ASSUME NEW d \in Day, expenses'[d] # Null
        PROVE expenses'[d].by = parameter
    BY <1>5, <2>2, CurrentTyped DEF Store, Upserted, TypeOK, Doing
  <2>. QED BY <2>1, <2>2
<1>6. CASE Answer \/ Interrupt
  BY <1>6 DEF Answer, Interrupt
<1>7. CASE UNCHANGED vars
  BY <1>7 DEF vars
<1>. QED BY <1>1, <1>2, <1>3, <1>4, <1>5, <1>6, <1>7 DEF Next

\* No sequence of submissions, refused and failed ones included, leaves an
\* expense row of another parameter than the campaign's: submit_expenses fixes
\* the parameter before it stores a row and never changes it.
THEOREM OneParameterForAll == Spec => []ExpensesHaveParameter
<1>1. Init => TypeOK /\ OneParameter
  BY InitTyped DEF Init, OneParameter, ExpensesHaveParameter
<1>2. TypeOK /\ OneParameter /\ [Next]_vars => TypeOK' /\ OneParameter'
  BY StepTyped, StepKeepsParameter
<1>3. OneParameter => ExpensesHaveParameter
  BY DEF OneParameter
<1>. QED BY <1>1, <1>2, <1>3, PTL DEF Spec

LEMMA StepKeepsPrefix ==
  TypeOK /\ PrefixIsStored /\ [Next]_vars => PrefixIsStored'
<1>. SUFFICES ASSUME TypeOK, PrefixIsStored, [Next]_vars PROVE PrefixIsStored'
  OBVIOUS
<1>1. CASE Tick
  BY <1>1 DEF Tick, PrefixIsStored
<1>2. ASSUME NEW c \in ClickId, NEW l \in Labels, TrackClick(c, l)
      PROVE PrefixIsStored'
  BY <1>2 DEF TrackClick, PrefixIsStored
<1>3. ASSUME NEW c \in ClickId, NEW s \in Status, NEW cost \in Cost,
             TrackPostback(c, s, cost)
      PROVE PrefixIsStored'
  BY <1>3 DEF TrackPostback, PrefixIsStored
<1>4. ASSUME NEW p \in Parameter, NEW items \in Items, Submit(p, items)
      PROVE PrefixIsStored'
  BY <1>4 DEF Submit, PrefixIsStored
<1>5. CASE Store
  <2>. DEFINE n == request.at
  <2>1. /\ request # NoRequest /\ request \in Request
        /\ n \in Nat \ {0} /\ n \in 1..Len(request.items)
        /\ request' = [request EXCEPT !.at = n + 1]
    BY <1>5, CurrentTyped, RequestTyped DEF Store, Doing
  <2>2. /\ request'.items = request.items /\ request'.before = request.before
        /\ request'.parameter = request.parameter /\ request'.at = n + 1
    BY <2>1 DEF Request
  <2>. SUFFICES ASSUME NEW d \in Day
       PROVE LET mine == {k \in 1..n : request.items[k].date = d} IN
             \/ mine = {} /\ expenses'[d] = request.before[d]
             \/ \E k \in mine :
                  /\ \A j \in mine : j <= k
                  /\ expenses'[d] = [by |-> request.parameter,
                               distribution |-> request.items[k].distribution]
    BY <2>1, <2>2 DEF PrefixIsStored
  <2>. DEFINE old == {k \in 1..(n - 1) : request.items[k].date = d}
              new == {k \in 1..n : request.items[k].date = d}
  <2>3. CASE Current.date = d
    <3>1. n \in new /\ \A j \in new : j <= n
      BY <2>1, <2>3 DEF Current
    <3>2. expenses'[d] = [by |-> request.parameter,
                          distribution |-> request.items[n].distribution]
      BY <1>5, <2>3 DEF Store, Upserted, TypeOK, Current
    <3>. QED BY <3>1, <3>2
  <2>4. CASE Current.date # d
    <3>1. old = new
      BY <2>1, <2>4 DEF Current
    <3>2. expenses'[d] = expenses[d]
      BY <1>5, <2>4 DEF Store, Upserted, TypeOK
    <3>3. \/ old = {} /\ expenses[d] = request.before[d]
          \/ \E k \in old :
               /\ \A j \in old : j <= k
               /\ expenses[d] = [by |-> request.parameter,
                           distribution |-> request.items[k].distribution]
      BY <2>1 DEF PrefixIsStored
    <3>. QED BY <3>1, <3>2, <3>3
  <2>. QED BY <2>3, <2>4
<1>6. CASE Answer \/ Interrupt
  BY <1>6 DEF Answer, Interrupt, PrefixIsStored
<1>7. CASE UNCHANGED vars
  BY <1>7 DEF vars, PrefixIsStored
<1>. QED BY <1>1, <1>2, <1>3, <1>4, <1>5, <1>6, <1>7 DEF Next

\* Wherever a submission stops, the rows are those before it with its first
\* items applied in their order, and it runs to the end of exactly those.
THEOREM FailuresKeepAPrefix == Spec => []PrefixIsStored
<1>1. Init => TypeOK /\ PrefixIsStored
  BY InitTyped DEF Init, PrefixIsStored
<1>2. TypeOK /\ PrefixIsStored /\ [Next]_vars => TypeOK' /\ PrefixIsStored'
  BY StepTyped, StepKeepsPrefix
<1>. QED BY <1>1, <1>2, PTL DEF Spec

-----------------------------------------------------------------------------
(* The report answers.                                                     *)

\* A stored value had a click when it was stored, or is a stray.
SeenOrStray ==
  \A d \in Day :
    expenses[d] # Null =>
      \A v \in DOMAIN expenses[d].distribution :
        Seen(expenses[d].by, v) \/ <<d, v>> \in strays

\* A click more loses no value.
LEMMA SeenStays ==
  ASSUME TypeOK, NEW c \in ClickId, NEW l \in Labels, TrackClick(c, l),
         NEW p, NEW v, Seen(p, v)
  PROVE  Seen(p, v)'
<1>1. PICK i \in 1..Len(clicks) : clicks[i].with[p] = v
  BY DEF Seen
<1>2. i \in 1..Len(clicks') /\ clicks'[i] = clicks[i]
  BY <1>1 DEF TrackClick, TypeOK
<1>. QED BY <1>1, <1>2 DEF Seen

LEMMA StepKeepsSeen ==
  TypeOK /\ SeenOrStray /\ [Next]_vars => SeenOrStray'
<1>. SUFFICES ASSUME TypeOK, SeenOrStray, [Next]_vars PROVE SeenOrStray'
  OBVIOUS
<1>1. CASE Tick
  BY <1>1 DEF Tick, SeenOrStray, Seen
<1>2. ASSUME NEW c \in ClickId, NEW l \in Labels, TrackClick(c, l)
      PROVE SeenOrStray'
  BY <1>2, SeenStays DEF TrackClick, SeenOrStray
<1>3. ASSUME NEW c \in ClickId, NEW s \in Status, NEW cost \in Cost,
             TrackPostback(c, s, cost)
      PROVE SeenOrStray'
  BY <1>3 DEF TrackPostback, SeenOrStray, Seen
<1>4. ASSUME NEW p \in Parameter, NEW items \in Items, Submit(p, items)
      PROVE SeenOrStray'
  BY <1>4 DEF Submit, SeenOrStray, Seen, events
<1>5. CASE Store
  <2>. SUFFICES ASSUME NEW d \in Day, expenses'[d] # Null,
                       NEW v \in DOMAIN expenses'[d].distribution
                PROVE Seen(expenses'[d].by, v) \/ <<d, v>> \in strays'
    BY <1>5 DEF Store, SeenOrStray, Seen, events
  <2>1. CASE Current.date = d
    <3>1. expenses'[d] = [by |-> request.parameter,
                          distribution |-> Current.distribution]
      BY <1>5, <2>1 DEF Store, Upserted, TypeOK
    <3>. QED BY <1>5, <2>1, <3>1 DEF Store, Offered
  <2>2. CASE Current.date # d
    <3>1. expenses'[d] = expenses[d]
      BY <1>5, <2>2 DEF Store, Upserted, TypeOK
    <3>2. Seen(expenses[d].by, v) \/ <<d, v>> \in strays
      BY <3>1 DEF SeenOrStray
    <3>3. <<d, v>> \in strays => <<d, v>> \in strays'
      BY <1>5, <2>2 DEF Store
    <3>. QED BY <3>1, <3>2, <3>3
  <2>. QED BY <2>1, <2>2
<1>6. CASE Answer \/ Interrupt
  BY <1>6 DEF Answer, Interrupt, SeenOrStray, Seen, events
<1>7. CASE UNCHANGED vars
  BY <1>7 DEF vars, events, SeenOrStray, Seen
<1>. QED BY <1>1, <1>2, <1>3, <1>4, <1>5, <1>6, <1>7 DEF Next

\* The statistics report fails at nothing but an expense that is not a number, or
\* is for a value that was not among those the API offers when it was stored.
THEOREM ReportFailsOnlyThere == Spec => []ReportAnswers
<1>. DEFINE I == TypeOK /\ OneParameter /\ SeenOrStray
<1>1. Init => I
  BY InitTyped DEF Init, OneParameter, ExpensesHaveParameter, SeenOrStray
<1>2. I /\ [Next]_vars => I'
  BY StepTyped, StepKeepsParameter, StepKeepsSeen
<1>3. I => ReportAnswers
  <2>. SUFFICES ASSUME I, NEW q \in Groups,
                       \A d \in Dates(q) : expenses[d] # Null =>
                         /\ Numeric(expenses[d].distribution)
                         /\ \A v \in DOMAIN expenses[d].distribution :
                              <<d, v>> \notin strays
                PROVE ~Raises(q)
    BY DEF ReportAnswers
  <2>1. ASSUME NEW x \in Missing(q) PROVE FALSE
    <3>1. /\ x \in Dates(q) \X Value
          /\ expenses[x[1]] # Null
          /\ x[2] \in DOMAIN expenses[x[1]].distribution
          /\ ~Seen(parameter, x[2])
      BY <2>1 DEF Missing
    <3>2. q.start \in Day /\ Last(q) \in Day
      BY DEF Groups, Query, Last, TypeOK
    <3>3. x[1] \in Day /\ x[1] \in Dates(q)
      BY <3>1, <3>2, ConstantsAssumption DEF Dates, Day
    <3>4. expenses[x[1]].by = parameter
      BY <3>1, <3>3 DEF OneParameter, ExpensesHaveParameter
    <3>5. <<x[1], x[2]>> \in strays
      BY <3>1, <3>3, <3>4 DEF SeenOrStray
    <3>. QED BY <3>1, <3>3, <3>5
  <2>2. Unadded(q) = {}
    BY DEF Unadded
  <2>. QED BY <2>1, <2>2 DEF Raises
<1>. QED BY <1>1, <1>2, <1>3, PTL DEF Spec

-----------------------------------------------------------------------------
(* Closed periods.                                                         *)

\* A step that may add clicks and postbacks of today, and leaves the others.
Adds ==
  /\ Len(clicks') \in Nat /\ Len(postbacks') \in Nat
  /\ Len(clicks) <= Len(clicks') /\ Len(postbacks) <= Len(postbacks')
  /\ \A i \in 1..Len(clicks) : clicks'[i] = clicks[i]
  /\ \A j \in 1..Len(postbacks) : postbacks'[j] = postbacks[j]
  /\ \A i \in (Len(clicks) + 1)..Len(clicks') : clicks'[i].day = today
  /\ \A j \in (Len(postbacks) + 1)..Len(postbacks') : postbacks'[j].day = today

LEMMA StepsAdd == TypeOK /\ [Next]_vars => Adds
<1>. SUFFICES ASSUME TypeOK, [Next]_vars PROVE Adds
  OBVIOUS
<1>1. Len(clicks) \in Nat /\ Len(postbacks) \in Nat
  BY DEF TypeOK
<1>2. ASSUME NEW c \in ClickId, NEW l \in Labels, TrackClick(c, l) PROVE Adds
  BY <1>1, <1>2 DEF TrackClick, Adds, TypeOK
<1>3. ASSUME NEW c \in ClickId, NEW s \in Status, NEW cost \in Cost,
             TrackPostback(c, s, cost)
      PROVE Adds
  BY <1>1, <1>3 DEF TrackPostback, PostbackOf, Adds, TypeOK
<1>4. CASE UNCHANGED <<clicks, postbacks>>
  BY <1>1, <1>4 DEF Adds
<1>5. CASE Tick \/ Store \/ Answer \/ Interrupt \/ UNCHANGED vars
           \/ \E p \in Parameter, items \in Items : Submit(p, items)
  BY <1>4, <1>5 DEF Tick, Store, Answer, Interrupt, Submit, vars, events
<1>. QED BY <1>2, <1>3, <1>5 DEF Next

\* A set of positive numbers with a bound has a greatest element, found as the
\* one with the fewest elements above it.
LEMMA Greatest ==
  ASSUME NEW n \in Nat, NEW S, S \subseteq 1..n, S # {}
  PROVE  \E j \in S : \A k \in S : k <= j
<1>. DEFINE Above(j) == {k \in S : k > j}
            T == {Above(j) : j \in S}
            R == StrictSubsetOrdering(S)
<1>1. IsFiniteSet(1..n)
  BY FS_Interval
<1>2. IsWellFoundedOn(R, FiniteSubsetsOf(S))
  BY FS_StrictSubsetOrderingWellFounded
<1>3. T \subseteq FiniteSubsetsOf(S) /\ T # {}
  <2>1. ASSUME NEW j \in S PROVE Above(j) \in SUBSET S /\ IsFiniteSet(Above(j))
    <3>1. Above(j) \subseteq 1..n
      OBVIOUS
    <3>2. Above(j) \in SUBSET S
      OBVIOUS
    <3>. HIDE DEF Above
    <3>3. IsFiniteSet(Above(j))
      BY <1>1, <3>1, FS_Subset
    <3>. QED BY <3>2, <3>3
  <2>. HIDE DEF Above
  <2>. QED BY <2>1 DEF FiniteSubsetsOf
<1>4. PICK x \in T : \A y \in T : ~(<<y, x>> \in R)
  <2>. HIDE DEF T, R
  <2>. QED BY <1>2, <1>3, WFMin
<1>5. PICK j \in S : x = Above(j)
  BY <1>4
<1>6. ASSUME NEW k \in S, k > j PROVE FALSE
  <2>1. \A y \in S : y \in Int
    OBVIOUS
  <2>2. Above(k) \subseteq Above(j)
    <3>. SUFFICES ASSUME NEW y \in S, y > k PROVE y > j
      OBVIOUS
    <3>. QED BY <1>6, <2>1
  <2>3. k \in Above(j) /\ k \notin Above(k)
    BY <1>6, <2>1
  <2>4. Above(k) \in SUBSET S /\ Above(j) \in SUBSET S /\ Above(k) \in T
    OBVIOUS
  <2>. HIDE DEF Above, T
  <2>5. <<Above(k), Above(j)>> \in R
    BY <2>2, <2>3, <2>4 DEF StrictSubsetOrdering
  <2>. QED BY <1>4, <1>5, <2>4, <2>5
<1>7. \A k \in S : k \in Int /\ j \in Int
  OBVIOUS
<1>. QED BY <1>6, <1>7

\* A period that ended more than the gap ago, and the step that may change it.
LEMMA ClosedUnchanged ==
  ASSUME TypeOK, Adds, NEW q \in Query, q.end # Null, today > q.end + Gap
  PROVE  Outcome(q)' = Outcome(q)
<1>1. /\ q.start \in Int /\ q.end \in Int /\ Gap \in Nat /\ today \in Int
      /\ Len(clicks) \in Nat /\ Len(postbacks) \in Nat
      /\ Len(clicks') \in Nat /\ Len(postbacks') \in Nat
  <2>1. \A d \in Day : d \in Int
    BY DEF Day
  <2>2. q.start \in Day /\ q.end \in Day
    BY DEF Query
  <2>3. today \in Day /\ Len(clicks) \in Nat /\ Len(postbacks) \in Nat
    BY DEF TypeOK
  <2>4. Gap \in Nat
    BY GapAssumption
  <2>5. Len(clicks') \in Nat /\ Len(postbacks') \in Nat
    BY DEF Adds
  <2>. QED BY <2>1, <2>2, <2>3, <2>4, <2>5
<1>2. ~Upper(q, today)
  BY <1>1 DEF Upper
<1>3. Counted(q)' = Counted(q)
  <2>1. \A i \in 1..Len(clicks) : IsRow(q, i)' <=> IsRow(q, i)
    BY DEF Adds, IsRow, Lower, Upper
  <2>2. \A i \in (Len(clicks) + 1)..Len(clicks') : ~IsRow(q, i)'
    BY <1>2 DEF Adds, IsRow, Lower, Upper
  <2>3. Dates(q)' = Dates(q)
    BY DEF Dates, Last
  <2>. QED BY <1>1, <2>1, <2>2, <2>3 DEF Counted, Adds
<1>4. ASSUME NEW c PROVE Newest(q, c)' = Newest(q, c)
  <2>1. ASSUME NEW j \in 1..Len(postbacks) PROVE postbacks'[j] = postbacks[j]
    BY <2>1 DEF Adds
  <2>2. ASSUME NEW j \in (Len(postbacks) + 1)..Len(postbacks')
        PROVE ~Upper(q, postbacks'[j].day)
    BY <1>2, <2>2 DEF Adds, Upper
  <2>3. 1..Len(postbacks')
          = (1..Len(postbacks)) \cup ((Len(postbacks) + 1)..Len(postbacks'))
    BY <1>1 DEF Adds
  <2>4. Answering(q, c)' = Answering(q, c)
    BY <2>1, <2>2, <2>3 DEF Answering, Lower, Upper
  <2>. QED BY <2>4 DEF Newest
<1>5. ASSUME NEW c, Newest(q, c) # 0
      PROVE Newest(q, c) \in 1..Len(postbacks)
  <2>1. Answering(q, c) \subseteq 1..Len(postbacks) /\ Answering(q, c) # {}
    BY <1>5 DEF Answering, Newest
  <2>2. \E j \in Answering(q, c) : \A k \in Answering(q, c) : k <= j
    BY <1>1, <2>1, Greatest
  <2>. QED BY <2>1, <2>2 DEF Newest
<1>6. ASSUME NEW i \in Counted(q)
      PROVE /\ clicks'[i] = clicks[i]
            /\ StatusOf(q, i)' = StatusOf(q, i)
            /\ PayoutOf(q, i)' = PayoutOf(q, i)
  <2>1. clicks'[i] = clicks[i]
    BY DEF Counted, Adds
  <2>2. Newest(q, clicks[i].id)' = Newest(q, clicks[i].id)
    BY <1>4, <2>1
  <2>. QED BY <1>5, <2>1, <2>2 DEF StatusOf, PayoutOf, Adds
<1>. QED BY <1>3, <1>6 DEF Outcome

\* Once its gap has passed, what a period's clicks count for never changes.
THEOREM ClosedPeriodsAreFinal == Spec => ClosedPeriodIsFinal
<1>1. Init => TypeOK
  BY InitTyped
<1>2. TypeOK /\ [Next]_vars => TypeOK'
  BY StepTyped
<1>3. TypeOK /\ [Next]_vars
        => [\A e \in Day :
              today > e + Gap =>
                \A b \in 0..e, skip \in BOOLEAN :
                  LET q == [start |-> b, end |-> e, group |-> <<>>, skip |-> skip]
                  IN Outcome(q)' = Outcome(q)]_vars
  <2>. SUFFICES ASSUME TypeOK, [Next]_vars,
                       NEW e \in Day, today > e + Gap,
                       NEW b \in 0..e, NEW skip \in BOOLEAN
                PROVE LET q == [start |-> b, end |-> e, group |-> <<>>,
                                skip |-> skip]
                      IN Outcome(q)' = Outcome(q)
    OBVIOUS
  <2>. DEFINE q == [start |-> b, end |-> e, group |-> <<>>, skip |-> skip]
  <2>1. Adds
    BY StepsAdd
  <2>2. b \in Day /\ b <= e /\ Null # e
    <3>1. LastDay \in Nat /\ Null \notin Day
      BY ConstantsAssumption
    <3>2. e \in 0..LastDay
      BY DEF Day
    <3>3. b \in 0..LastDay /\ b <= e
      BY <3>1, <3>2
    <3>. QED BY <3>1, <3>3 DEF Day
  <2>3. <<>> \in Groupings
    <3>1. 0 \in 0..MaxGroup
      BY GapAssumption
    <3>2. <<>> \in [1..0 -> Parameter]
      <4>1. 1..0 = {}
        OBVIOUS
      <4>2. <<>> = [i \in {} |-> {}]
        OBVIOUS
      <4>. QED BY <4>1, <4>2
    <3>. QED BY <3>1, <3>2 DEF Groupings
  <2>4. q \in Query
    BY <2>2, <2>3 DEF Query
  <2>. QED BY <2>1, <2>2, <2>4, ClosedUnchanged
<1>. QED BY <1>1, <1>2, <1>3, PTL DEF Spec, ClosedPeriodIsFinal

-----------------------------------------------------------------------------
(* Totals.                                                                 *)

\* Events come in the order of their days, and a postback with a status after
\* a click of its id; what it pays is known when it pays.
DaysPass ==
  /\ \A i \in 1..Len(clicks) : clicks[i].day <= today
  /\ \A j \in 1..Len(postbacks) : postbacks[j].day <= today
DaysInOrder ==
  \A j, k \in 1..Len(postbacks) : j <= k => postbacks[j].day <= postbacks[k].day
ClickBefore(j) ==
  \E i \in 1..Len(clicks) : /\ clicks[i].id = postbacks[j].id
                            /\ clicks[i].day <= postbacks[j].day
ClicksBefore ==
  \A j \in 1..Len(postbacks) : postbacks[j].status # Null => ClickBefore(j)
PaidAreCosted ==
  \A j \in 1..Len(postbacks) :
    postbacks[j].status \in Paid => postbacks[j].cost \in Cost
PostbacksFollow == DaysPass /\ DaysInOrder /\ ClicksBefore /\ PaidAreCosted

\* Days and lengths are numbers.
LEMMA Numbers ==
  ASSUME TypeOK
  PROVE  /\ today \in Int /\ Len(clicks) \in Nat /\ Len(postbacks) \in Nat
         /\ \A i \in 1..Len(clicks) : clicks[i] \in Click /\ clicks[i].day \in Int
         /\ \A j \in 1..Len(postbacks) :
              postbacks[j] \in Postback /\ postbacks[j].day \in Int
<1>1. \A d \in Day : d \in Int
  BY ConstantsAssumption DEF Day
<1>2. \A i \in 1..Len(clicks) : clicks[i] \in Click
  BY DEF TypeOK
<1>3. \A j \in 1..Len(postbacks) : postbacks[j] \in Postback
  BY DEF TypeOK
<1>4. \A c \in Click : c.day \in Day
  BY DEF Click
<1>5. \A p \in Postback : p.day \in Day
  BY DEF Postback
<1>. QED BY <1>1, <1>2, <1>3, <1>4, <1>5 DEF TypeOK

LEMMA StepKeepsFollowing ==
  TypeOK /\ PostbacksFollow /\ [Next]_vars => PostbacksFollow'
<1>. SUFFICES ASSUME TypeOK, PostbacksFollow, [Next]_vars PROVE PostbacksFollow'
  OBVIOUS
<1>1. CASE Tick
  <2>1. today' = today + 1 /\ UNCHANGED <<clicks, postbacks>>
    BY <1>1 DEF Tick
  <2>2. DaysPass'
    BY <2>1, Numbers DEF PostbacksFollow, DaysPass
  <2>. QED BY <2>1, <2>2
       DEF PostbacksFollow, DaysInOrder, ClicksBefore, ClickBefore, PaidAreCosted
<1>2. ASSUME NEW c \in ClickId, NEW l \in Labels, TrackClick(c, l)
      PROVE PostbacksFollow'
  <2>1. /\ Len(clicks') = Len(clicks) + 1
        /\ \A i \in 1..Len(clicks) : clicks'[i] = clicks[i]
        /\ clicks'[Len(clicks) + 1].day = today
        /\ UNCHANGED <<today, postbacks>>
    BY <1>2 DEF TrackClick, TypeOK
  <2>2. DaysPass'
    BY <2>1, Numbers DEF PostbacksFollow, DaysPass
  <2>3. ASSUME NEW j, ClickBefore(j) PROVE ClickBefore(j)'
    BY <2>1, <2>3, Numbers DEF ClickBefore
  <2>. QED BY <2>1, <2>2, <2>3
       DEF PostbacksFollow, DaysInOrder, ClicksBefore, PaidAreCosted
<1>3. ASSUME NEW c \in ClickId, NEW s \in Status, NEW cost \in Cost,
             TrackPostback(c, s, cost)
      PROVE PostbacksFollow'
  <2>. DEFINE n == Len(postbacks) + 1
  <2>1. /\ Len(postbacks') = n
        /\ \A j \in 1..Len(postbacks) : postbacks'[j] = postbacks[j]
        /\ postbacks'[n] = PostbackOf(c, s, cost)
        /\ UNCHANGED <<today, clicks>>
    <3>1. /\ postbacks \in Seq(Postback)
          /\ postbacks' = Append(postbacks, PostbackOf(c, s, cost))
          /\ UNCHANGED <<today, clicks>>
      BY <1>3 DEF TrackPostback, TypeOK
    <3>. QED BY <3>1
  <2>2. postbacks'[n].day = today /\ postbacks'[n].id = c
    BY <2>1 DEF PostbackOf
  <2>3. postbacks'[n].status # Null => \E i \in 1..Len(clicks) : clicks[i].id = c
    BY <2>1 DEF PostbackOf
  <2>4. postbacks'[n].status \in Paid => postbacks'[n].cost \in Cost
    <3>1. Null \notin Paid
      BY ConstantsAssumption DEF Paid, LeadStatus
    <3>. QED BY <2>1, <3>1 DEF PostbackOf
  <2>5. n \in Nat /\ \A j \in 1..n : j = n \/ j \in 1..Len(postbacks)
    BY Numbers
  <2>. HIDE DEF n
  <2>6. \A j \in 1..n : postbacks'[j].day <= today
    <3>1. today \in Int /\ \A j \in 1..Len(postbacks) : postbacks[j].day <= today
      BY Numbers DEF PostbacksFollow, DaysPass
    <3>2. ASSUME NEW j \in 1..n PROVE postbacks'[j].day <= today
      <4>1. CASE j = n
        BY <2>2, <3>1, <4>1
      <4>2. CASE j \in 1..Len(postbacks)
        BY <2>1, <3>1, <4>2
      <4>. QED BY <2>5, <4>1, <4>2
    <3>. QED BY <3>2
  <2>7. \A j, k \in 1..n : j <= k => postbacks'[j].day <= postbacks'[k].day
    <3>. SUFFICES ASSUME NEW j \in 1..n, NEW k \in 1..n, j <= k
                  PROVE postbacks'[j].day <= postbacks'[k].day
      OBVIOUS
    <3>1. CASE k = n
      BY <2>2, <2>6, <3>1
    <3>2. CASE k # n
      <4>1. k \in 1..Len(postbacks) /\ j \in 1..Len(postbacks)
        BY <2>5, <3>2, Numbers DEF n
      <4>. QED BY <2>1, <4>1 DEF PostbacksFollow, DaysInOrder
    <3>. QED BY <3>1, <3>2
  <2>8. ASSUME NEW j \in 1..n, postbacks'[j].status # Null PROVE ClickBefore(j)'
    <3>1. CASE j = n
      BY <2>1, <2>2, <2>3, <2>8, <3>1, Numbers DEF PostbacksFollow, DaysPass, ClickBefore
    <3>2. CASE j # n
      <4>1. j \in 1..Len(postbacks) /\ ClickBefore(j)
        BY <2>1, <2>5, <2>8, <3>2 DEF PostbacksFollow, ClicksBefore
      <4>. QED BY <2>1, <4>1 DEF ClickBefore
    <3>. QED BY <3>1, <3>2
  <2>9. \A j \in 1..n : postbacks'[j].status \in Paid => postbacks'[j].cost \in Cost
    BY <2>1, <2>4, <2>5 DEF PostbacksFollow, PaidAreCosted
  <2>10. DaysPass' /\ DaysInOrder' /\ ClicksBefore' /\ PaidAreCosted'
    BY <2>1, <2>6, <2>7, <2>8, <2>9
       DEF PostbacksFollow, DaysPass, DaysInOrder, ClicksBefore, PaidAreCosted
  <2>. QED BY <2>10 DEF PostbacksFollow
<1>4. CASE UNCHANGED events
  BY <1>4 DEF PostbacksFollow, DaysPass, DaysInOrder, ClicksBefore, ClickBefore,
     PaidAreCosted, events
<1>5. CASE Store \/ Answer \/ Interrupt \/ UNCHANGED vars
           \/ \E p \in Parameter, items \in Items : Submit(p, items)
  BY <1>4, <1>5 DEF Store, Answer, Interrupt, Submit, vars
<1>. QED BY <1>1, <1>2, <1>3, <1>5 DEF Next

\* The bounds of a query are days, and what it reads is finite.
LEMMA QueryTyped ==
  ASSUME TypeOK, NEW q \in Query
  PROVE  /\ q.start \in Int /\ Last(q) \in Int /\ Gap \in Nat
         /\ q.end # Null => q.end \in Int
         /\ Dates(q) \subseteq Day /\ IsFiniteSet(Dates(q))
         /\ IsFiniteSet(1..Len(clicks)) /\ IsFiniteSet(Counted(q))
<1>1. \A d \in Day : d \in Int
  BY ConstantsAssumption DEF Day
<1>2. q.start \in Day /\ Last(q) \in Day /\ (q.end # Null => q.end \in Day)
  BY DEF Query, Last, TypeOK
<1>3. Dates(q) \subseteq Day
  BY <1>2, ConstantsAssumption DEF Dates, Day
<1>4. IsFiniteSet(Dates(q)) /\ IsFiniteSet(1..Len(clicks))
  <2>1. q.start \in Int /\ Last(q) \in Int /\ Len(clicks) \in Int
    BY <1>1, <1>2, Numbers
  <2>. QED BY <2>1, FS_Interval DEF Dates
<1>5. IsFiniteSet(Counted(q))
  BY <1>4, FS_Subset DEF Counted
<1>. QED BY <1>1, <1>2, <1>3, <1>4, <1>5, GapAssumption

\* Newest finds the last of a click id's postbacks in the window.
LEMMA NewestIsLast ==
  ASSUME TypeOK, NEW q, NEW c
  PROVE  \/ Answering(q, c) = {} /\ Newest(q, c) = 0
         \/ /\ Newest(q, c) \in Answering(q, c)
            /\ Newest(q, c) \in 1..Len(postbacks)
            /\ Newest(q, c) # 0
            /\ \A k \in Answering(q, c) : k <= Newest(q, c)
<1>1. CASE Answering(q, c) = {}
  BY <1>1 DEF Newest
<1>2. CASE Answering(q, c) # {}
  <2>1. Answering(q, c) \subseteq 1..Len(postbacks)
    BY DEF Answering
  <2>2. \E j \in Answering(q, c) : \A k \in Answering(q, c) : k <= j
    BY <1>2, <2>1, Numbers, Greatest
  <2>3. /\ Newest(q, c) \in Answering(q, c)
        /\ \A k \in Answering(q, c) : k <= Newest(q, c)
    BY <1>2, <2>2 DEF Newest
  <2>4. Newest(q, c) \in 1..Len(postbacks) /\ Newest(q, c) # 0
    BY <2>1, <2>3, Numbers
  <2>. QED BY <2>3, <2>4
<1>. QED BY <1>1, <1>2

LEMMA OutcomeTyped ==
  ASSUME TypeOK, NEW q, NEW i \in 1..Len(clicks)
  PROVE  StatusOf(q, i) \in LeadStatus \cup {Null} /\ PayoutOf(q, i) \in Int
<1>. DEFINE j == Newest(q, clicks[i].id)
<1>1. j = 0 \/ j \in 1..Len(postbacks)
  BY NewestIsLast
<1>2. \A k \in 1..Len(postbacks) :
        /\ postbacks[k].status \in LeadStatus \cup {Null}
        /\ postbacks[k].cost # Null => postbacks[k].cost \in Int
  <2>1. \A p \in Postback : /\ p.status \in LeadStatus \cup {Null}
                            /\ p.cost \in Cost \cup {Null}
    BY DEF Postback
  <2>2. \A k \in 1..Len(postbacks) : postbacks[k] \in Postback
    BY Numbers
  <2>3. \A c \in Cost : c \in Int
    BY ConstantsAssumption
  <2>. QED BY <2>1, <2>2, <2>3
<1>. QED BY <1>1, <1>2 DEF StatusOf, PayoutOf

\* The report's last day is not after its end.
LEMMA PeriodCounted ==
  ASSUME TypeOK, NEW q \in Query
  PROVE  Counted(q) = {i \in 1..Len(clicks) :
                         /\ clicks[i].day \in Dates(q)
                         /\ q.skip => clicks[i].with # [p \in Parameter |-> Null]}
<1>. SUFFICES ASSUME NEW i \in 1..Len(clicks), clicks[i].day \in Dates(q)
              PROVE  IsRow(q, i)
                       <=> (q.skip => clicks[i].with # [p \in Parameter |-> Null])
  BY DEF Counted
<1>1. Lower(q, clicks[i].day) /\ Upper(q, clicks[i].day)
  BY QueryTyped, Numbers DEF Lower, Upper, Dates, Last
<1>2. clicks[i].with \in [Parameter -> Value \cup {Null}]
  BY Numbers, ConstantsAssumption DEF Click
<1>3. (\E p \in Parameter : clicks[i].with[p] # Null)
        <=> clicks[i].with # [p \in Parameter |-> Null]
  BY <1>2
<1>. QED BY <1>1, <1>3 DEF IsRow

\* For ids used once, a click of the period is a lead by the last postback for
\* it that is not too late, wherever the window begins.
LEMMA LeadIsNewest ==
  ASSUME TypeOK, PostbacksFollow, NEW q \in Query,
         \A i, k \in 1..Len(clicks) : clicks[i].id = clicks[k].id => i = k,
         NEW i \in 1..Len(clicks), clicks[i].day \in Dates(q),
         NEW j \in 1..Len(postbacks), postbacks[j].status # Null
  PROVE  j = Newest(q, clicks[i].id)
           <=> /\ postbacks[j].id = clicks[i].id
               /\ Upper(q, postbacks[j].day)
               /\ \A k \in (j + 1)..Len(postbacks) :
                    ~(postbacks[k].id = clicks[i].id /\ Upper(q, postbacks[k].day))
<1>. DEFINE c == clicks[i].id
            Answers(k) == postbacks[k].id = c /\ Upper(q, postbacks[k].day)
<1>1. /\ Len(postbacks) \in Nat /\ j \in Int
      /\ \A k \in 1..Len(postbacks) : k \in Int /\ postbacks[k].day \in Int
      /\ q.start \in Int /\ Gap \in Nat /\ clicks[i].day \in Int
  BY QueryTyped, Numbers
<1>2. ASSUME NEW k \in 1..Len(postbacks), NEW l \in 1..Len(postbacks), k <= l,
             Lower(q, postbacks[k].day), Answers(l)
      PROVE  l \in Answering(q, c)
  <2>1. postbacks[k].day <= postbacks[l].day
    BY <1>2 DEF PostbacksFollow, DaysInOrder
  <2>2. Lower(q, postbacks[l].day)
    <3>1. /\ postbacks[k].day \in Int /\ postbacks[l].day \in Int
          /\ q.start \in Int /\ Gap \in Nat
      BY <1>1
    <3>2. postbacks[k].day + Gap >= q.start
      BY <1>2 DEF Lower
    <3>3. postbacks[l].day + Gap >= q.start
      BY <2>1, <3>1, <3>2
    <3>. QED BY <3>3 DEF Lower
  <2>. QED BY <1>2, <2>2 DEF Answering
<1>3. ASSUME postbacks[j].id = c PROVE Lower(q, postbacks[j].day)
  <2>1. PICK k \in 1..Len(clicks) : /\ clicks[k].id = c
                                    /\ clicks[k].day <= postbacks[j].day
    BY <1>3 DEF PostbacksFollow, ClicksBefore, ClickBefore
  <2>2. k = i /\ q.start <= clicks[i].day
    BY <2>1, QueryTyped, <1>1 DEF Dates
  <2>. QED BY <1>1, <2>1, <2>2 DEF Lower
<1>4. ASSUME j = Newest(q, c)
      PROVE  Answers(j) /\ \A k \in (j + 1)..Len(postbacks) : ~Answers(k)
  <2>1. j \in Answering(q, c) /\ \A k \in Answering(q, c) : k <= j
    BY <1>1, <1>4, NewestIsLast
  <2>2. Lower(q, postbacks[j].day) /\ Answers(j)
    BY <2>1 DEF Answering
  <2>3. ASSUME NEW k \in (j + 1)..Len(postbacks), Answers(k) PROVE FALSE
    <3>1. k \in 1..Len(postbacks) /\ j <= k /\ ~(k <= j)
      BY <1>1, <2>3
    <3>2. k \in Answering(q, c)
      BY <1>2, <2>2, <2>3, <3>1
    <3>. QED BY <2>1, <3>1, <3>2
  <2>. QED BY <2>2, <2>3
<1>5. ASSUME Answers(j), \A k \in (j + 1)..Len(postbacks) : ~Answers(k)
      PROVE  j = Newest(q, c)
  <2>1. j \in Answering(q, c)
    BY <1>3, <1>5 DEF Answering
  <2>2. \A k \in Answering(q, c) : k \in 1..Len(postbacks) /\ Answers(k)
    BY DEF Answering
  <2>3. ASSUME NEW k \in Answering(q, c) PROVE k <= j
    <3>1. k \in 1..Len(postbacks) /\ k \notin (j + 1)..Len(postbacks)
      BY <1>5, <2>2
    <3>. QED BY <1>1, <3>1
  <2>4. /\ Newest(q, c) \in Answering(q, c) /\ Newest(q, c) \in 1..Len(postbacks)
        /\ \A k \in Answering(q, c) : k <= Newest(q, c)
    BY <2>1, NewestIsLast
  <2>. QED BY <1>1, <2>1, <2>3, <2>4
<1>. QED BY <1>4, <1>5

\* The total is true to the clicks and to the last postback of each: what the
\* window and the gap leave out is never what decides.
THEOREM TotalsTrue == Spec => []TotalsAreTrue
<1>. DEFINE I == TypeOK /\ PostbacksFollow
<1>1. Init => I
  BY InitTyped
     DEF Init, PostbacksFollow, DaysPass, DaysInOrder, ClicksBefore, PaidAreCosted
<1>2. I /\ [Next]_vars => I'
  BY StepTyped, StepKeepsFollowing
<1>3. I => TotalsAreTrue
  <2>. SUFFICES ASSUME I, NEW q \in Periods,
                       \A i, j \in 1..Len(clicks) :
                         clicks[i].id = clicks[j].id => i = j
       PROVE LET mine == {i \in 1..Len(clicks) :
                       /\ clicks[i].day \in Dates(q)
                       /\ q.skip => clicks[i].with # [p \in Parameter |-> Null]}
                 Answers(i, j) == /\ postbacks[j].id = clicks[i].id
                                  /\ q.end = Null \/ postbacks[j].day <= q.end + Gap
                 Leads(s) ==
                   {x \in mine \X (1..Len(postbacks)) :
                      /\ Answers(x[1], x[2]) /\ postbacks[x[2]].status = s
                      /\ \A k \in (x[2] + 1)..Len(postbacks) : ~Answers(x[1], k)}
             IN /\ Total(q).clicks = Cardinality(mine)
                /\ \A s \in LeadStatus :
                     LET t == Total(q).statuses[s] IN
                     /\ t.leads = Cardinality(Leads(s))
                     /\ t.payouts = IF s \in Paid
                                    THEN SumOf([x \in Leads(s) |-> postbacks[x[2]].cost])
                                    ELSE 0
    BY DEF TotalsAreTrue
  <2>. DEFINE mine == Counted(q)
              Answers(i, j) == postbacks[j].id = clicks[i].id /\ Upper(q, postbacks[j].day)
              Leads(s) ==
                {x \in mine \X (1..Len(postbacks)) :
                   /\ Answers(x[1], x[2]) /\ postbacks[x[2]].status = s
                   /\ \A k \in (x[2] + 1)..Len(postbacks) : ~Answers(x[1], k)}
              led(s) == {i \in mine : StatusOf(q, i) = s}
              payout(s) == [i \in led(s) |-> PayoutOf(q, i)]
              cost(s) == [x \in Leads(s) |-> postbacks[x[2]].cost]
  <2>1. q \in Query /\ mine \subseteq 1..Len(clicks) /\ IsFiniteSet(mine)
        /\ \A i \in mine : clicks[i].day \in Dates(q)
    BY QueryTyped DEF Periods, Counted
  <2>2. ASSUME NEW s \in LeadStatus
        PROVE  /\ Cardinality(led(s)) = Cardinality(Leads(s))
               /\ SumOf(payout(s)) = IF s \in Paid THEN SumOf(cost(s)) ELSE 0
    <3>. DEFINE new(i) == Newest(q, clicks[i].id)
                b == [i \in led(s) |-> <<i, new(i)>>]
    <3>1. s # Null
      BY ConstantsAssumption
    <3>2. ASSUME NEW i \in led(s)
          PROVE  new(i) \in 1..Len(postbacks) /\ postbacks[new(i)].status = s
      BY <3>1, NewestIsLast DEF StatusOf
    <3>3. ASSUME NEW i \in mine, NEW j \in 1..Len(postbacks)
          PROVE  <<i, j>> \in Leads(s) <=> i \in led(s) /\ j = new(i)
      <4>1. CASE postbacks[j].status # s
        BY <3>2, <4>1
      <4>2. CASE postbacks[j].status = s
        <5>1. /\ i \in 1..Len(clicks) /\ clicks[i].day \in Dates(q)
              /\ postbacks[j].status # Null
          BY <2>1, <3>1, <4>2
        <5>2. j = new(i)
                <=> Answers(i, j) /\ \A k \in (j + 1)..Len(postbacks) : ~Answers(i, k)
          BY <2>1, <5>1, LeadIsNewest
        <5>3. j = new(i) => StatusOf(q, i) = s
          <6>1. j # 0
            BY Numbers
          <6>. QED BY <4>2, <6>1 DEF StatusOf
        <5>. QED BY <4>2, <5>2, <5>3
      <4>. QED BY <4>1, <4>2
    <3>4. b \in Bijection(led(s), Leads(s))
      <4>1. \A i \in led(s) : b[i] = <<i, new(i)>> /\ b[i] \in Leads(s)
        BY <3>2, <3>3
      <4>2. \A x \in Leads(s) : \E i \in led(s) : b[i] = x
        <5>. SUFFICES ASSUME NEW x \in Leads(s) PROVE \E i \in led(s) : b[i] = x
          OBVIOUS
        <5>1. x = <<x[1], x[2]>> /\ x[1] \in mine /\ x[2] \in 1..Len(postbacks)
          OBVIOUS
        <5>2. x[1] \in led(s) /\ x[2] = new(x[1])
          BY <3>3, <5>1
        <5>. QED BY <5>1, <5>2
      <4>3. \A i, k \in led(s) : b[i] = b[k] => i = k
        BY <4>1
      <4>4. DOMAIN b = led(s) /\ b = [i \in led(s) |-> b[i]]
        OBVIOUS
      <4>. HIDE DEF b, led, Leads
      <4>. QED BY <4>1, <4>2, <4>3, <4>4
           DEF Bijection, Injection, Surjection, IsInjective
    <3>5. IsFiniteSet(led(s))
      BY <2>1, FS_Subset
    <3>6. Cardinality(led(s)) = Cardinality(Leads(s))
      <4>. HIDE DEF led, Leads
      <4>. QED BY <3>4, <3>5, FS_Bijection DEF ExistsBijection
    <3>7. \A i \in led(s) : payout(s)[i] \in Int
      BY <2>1, OutcomeTyped
    <3>8. CASE s \in Paid
      <4>1. ASSUME NEW i \in led(s) PROVE cost(s)[b[i]] = payout(s)[i]
        <5>1. new(i) \in 1..Len(postbacks) /\ postbacks[new(i)].status = s /\ new(i) # 0
          BY <3>2, Numbers
        <5>2. postbacks[new(i)].cost # Null
          BY <3>8, <5>1, ConstantsAssumption DEF PostbacksFollow, PaidAreCosted
        <5>3. PayoutOf(q, i) = postbacks[new(i)].cost
          BY <3>8, <5>1, <5>2 DEF PayoutOf
        <5>4. b[i] \in Leads(s) /\ b[i][2] = new(i)
          BY <3>2, <3>3
        <5>. QED BY <5>3, <5>4
      <4>. HIDE DEF b, led, Leads
      <4>2. DOMAIN payout(s) = led(s) /\ DOMAIN cost(s) = Leads(s)
        OBVIOUS
      <4>. HIDE DEF payout, cost
      <4>3. SumOver(cost(s), Leads(s)) = SumOver(payout(s), led(s))
        BY <3>4, <3>5, <3>7, <4>1, SumRenamed
      <4>. QED BY <3>6, <3>8, <4>2, <4>3 DEF SumOf
    <3>9. CASE s \notin Paid
      <4>1. ASSUME NEW i \in led(s) PROVE payout(s)[i] = 0
        <5>1. new(i) \in 1..Len(postbacks) /\ postbacks[new(i)].status = s
          BY <3>2
        <5>. QED BY <3>9, <5>1 DEF PayoutOf
      <4>. HIDE DEF led, Leads
      <4>2. DOMAIN payout(s) = led(s) /\ {} \in SUBSET led(s)
        OBVIOUS
      <4>. HIDE DEF payout, cost
      <4>3. SumOver(payout(s), led(s)) = SumOver(payout(s), {})
        BY <3>5, <3>7, <4>1, <4>2, SumRest
      <4>. QED BY <3>6, <3>9, <4>2, <4>3, SumEmpty DEF SumOf
    <3>. QED BY <3>8, <3>9
  <2>3. /\ Total(q).clicks = Cardinality(mine)
        /\ \A s \in LeadStatus :
             /\ Total(q).statuses[s].leads = Cardinality(led(s))
             /\ Total(q).statuses[s].payouts = SumOf(payout(s))
    BY DEF Total, Count, Statuses
  <2>4. mine = {i \in 1..Len(clicks) :
                  /\ clicks[i].day \in Dates(q)
                  /\ q.skip => clicks[i].with # [p \in Parameter |-> Null]}
    BY <2>1, PeriodCounted
  <2>. HIDE DEF mine
  <2>. QED BY <2>2, <2>3, <2>4 DEF Upper
<1>. QED BY <1>1, <1>2, <1>3, PTL DEF Spec

-----------------------------------------------------------------------------
(* Parts.                                                                  *)

\* The values a click is shown at are among those the report has.
LEMMA ValuesShown ==
  ASSUME TypeOK, NEW q \in Query
  PROVE  /\ IsFiniteSet(DistributionValues(q))
         /\ \A i \in 1..Len(clicks) : ValuesOf(q, i) \in DistributionValues(q)
<1>1. CASE q.group = <<>>
  <2>1. 1..Len(q.group) = {}
    BY <1>1
  <2>2. Places(q) = {}
    BY <2>1 DEF Places, Matches
  <2>3. <<>> = [k \in {} |-> {}]
    OBVIOUS
  <2>4. \A i : ValuesOf(q, i) = <<>>
    BY <2>2, <2>3 DEF ValuesOf
  <2>. QED BY <1>1, <2>4, FS_Singleton DEF DistributionValues
<1>2. CASE q.group # <<>>
  <2>. DEFINE D == DistributionValues(q)
              N == 1..Len(clicks)
              f == [i \in N |-> ValuesOf(q, i)]
  <2>1. /\ D = {ValuesOf(q, i) : i \in N}
        /\ IsFiniteSet(N)
    BY <1>2, QueryTyped DEF DistributionValues
  <2>2. f \in [N -> D] /\ \A x \in D : \E i \in N : f[i] = x
    BY <2>1
  <2>. HIDE DEF D, N, f
  <2>3. f \in Surjection(N, D)
    BY <2>2 DEF Surjection
  <2>4. IsFiniteSet(D)
    BY <2>1, <2>3, FS_Surjection
  <2>. QED BY <2>1, <2>4 DEF D, N
<1>. QED BY <1>1, <1>2

\* What clicks count for, by their primary key.
Ones == [i \in 1..Len(clicks) |-> 1]
Pay(q) == [i \in 1..Len(clicks) |-> PayoutOf(q, i)]

LEMMA AmountsTyped ==
  ASSUME TypeOK, NEW q
  PROVE  \A i \in 1..Len(clicks) : Ones[i] \in Int /\ Pay(q)[i] \in Int
BY OutcomeTyped DEF Ones, Pay

\* The counts of a set of clicks, as sums over it.
LEMMA CountIsSum ==
  ASSUME TypeOK, NEW q, NEW S \in SUBSET (1..Len(clicks)), NEW s \in LeadStatus
  PROVE  LET led == {i \in S : StatusOf(q, i) = s}
             t == Count(q, S).statuses[s]
         IN /\ Count(q, S).clicks = SumOver(Ones, S)
            /\ t.leads = SumOver(Ones, led)
            /\ t.payouts = SumOver(Pay(q), led)
<1>. DEFINE led == {i \in S : StatusOf(q, i) = s}
            f == [i \in led |-> PayoutOf(q, i)]
<1>1. /\ Count(q, S).clicks = Cardinality(S)
      /\ Count(q, S).statuses[s].leads = Cardinality(led)
      /\ Count(q, S).statuses[s].payouts = SumOf(f)
  BY DEF Count, Statuses
<1>2. IsFiniteSet(1..Len(clicks))
  BY Numbers, FS_Interval
<1>3. IsFiniteSet(S) /\ IsFiniteSet(led)
  BY <1>2, FS_Subset
<1>4. /\ \A i \in S : Ones[i] = 1
      /\ \A i \in led : Ones[i] = 1 /\ f[i] = Pay(q)[i]
      /\ DOMAIN f = led
  BY DEF Ones, Pay
<1>. HIDE DEF led, f
<1>5. SumOver(Ones, S) = Cardinality(S) /\ SumOver(Ones, led) = Cardinality(led)
  BY <1>3, <1>4, SumOnes
<1>6. SumOver(f, led) = SumOver(Pay(q), led)
  BY <1>3, <1>4, SumSame
<1>. QED BY <1>1, <1>4, <1>5, <1>6 DEF SumOf, led

LEMMA CountTyped ==
  ASSUME TypeOK, NEW q, NEW S \in SUBSET (1..Len(clicks))
  PROVE  Count(q, S) \in [clicks : Nat,
                          statuses : [LeadStatus -> [leads : Nat, payouts : Int]]]
<1>. DEFINE led(s) == {i \in S : StatusOf(q, i) = s}
            f(s) == [i \in led(s) |-> PayoutOf(q, i)]
<1>1. IsFiniteSet(1..Len(clicks))
  BY Numbers, FS_Interval
<1>2. Cardinality(S) \in Nat
  BY <1>1, FS_Subset, FS_CardinalityType
<1>3. ASSUME NEW s \in LeadStatus
      PROVE  Cardinality(led(s)) \in Nat /\ SumOf(f(s)) \in Int
  <2>1. IsFiniteSet(led(s)) /\ Cardinality(led(s)) \in Nat
    BY <1>1, FS_Subset, FS_CardinalityType
  <2>2. DOMAIN f(s) = led(s) /\ \A i \in led(s) : f(s)[i] \in Int
    BY OutcomeTyped
  <2>. HIDE DEF f, led
  <2>. QED BY <2>1, <2>2, SumType DEF SumOf
<1>4. Statuses(q, S) \in [LeadStatus -> [leads : Nat, payouts : Int]]
  BY <1>3 DEF Statuses
<1>. QED BY <1>2, <1>4 DEF Count

\* The clicks of a leaf, among those the total counts.
Rows(q, d, values) ==
  {i \in Counted(q) : clicks[i].day = d /\ ValuesOf(q, i) = values}

LEMMA LeafCounts ==
  ASSUME NEW q, NEW d \in Dates(q), NEW values
  PROVE  Leaf(q, d, values) = Count(q, Rows(q, d, values))
<1>1. Rows(q, d, values) = {i \in 1..Len(clicks) :
        clicks[i].day = d /\ IsRow(q, i) /\ ValuesOf(q, i) = values}
  BY DEF Rows, Counted
<1>. QED BY <1>1 DEF Leaf

\* Every counted click is in one leaf.
LEMMA LeavesPartition ==
  ASSUME TypeOK, NEW q \in Query, NEW f, \A i \in 1..Len(clicks) : f[i] \in Int,
         NEW C \in SUBSET Counted(q)
  PROVE  SumOver(f, C)
           = SumOf([x \in Dates(q) \X DistributionValues(q) |->
               SumOver(f, {i \in C : clicks[i].day = x[1] /\ ValuesOf(q, i) = x[2]})])
<1>. DEFINE parts == Dates(q) \X DistributionValues(q)
            c == [i \in C |-> <<clicks[i].day, ValuesOf(q, i)>>]
            F == [x \in parts |-> SumOver(f, {i \in C : c[i] = x})]
            G == [x \in parts |-> SumOver(f, {i \in C :
                    clicks[i].day = x[1] /\ ValuesOf(q, i) = x[2]})]
<1>1. IsFiniteSet(C) /\ IsFiniteSet(parts)
  BY QueryTyped, ValuesShown, FS_Subset, FS_Product
<1>2. \A i \in C : /\ i \in 1..Len(clicks) /\ clicks[i].day \in Dates(q)
                   /\ f[i] \in Int
  BY DEF Counted
<1>3. \A i \in C : c[i] \in parts
  BY <1>2, ValuesShown
<1>4. SumOver(f, C) = SumOver(F, parts)
  <2>. HIDE DEF c, parts
  <2>1. \A i \in C : f[i] \in Int /\ c[i] \in parts
    BY <1>2, <1>3
  <2>. QED BY <1>1, <2>1, SumByClass
<1>5. ASSUME NEW x \in parts
      PROVE  {i \in C : c[i] = x}
               = {i \in C : clicks[i].day = x[1] /\ ValuesOf(q, i) = x[2]}
  <2>1. x = <<x[1], x[2]>>
    OBVIOUS
  <2>. QED BY <2>1
<1>6. F = G
  BY <1>5
<1>7. DOMAIN G = parts
  OBVIOUS
<1>. HIDE DEF F, G, parts
<1>8. SumOver(f, C) = SumOf(G)
  BY <1>4, <1>6, <1>7 DEF SumOf
<1>. QED BY <1>8 DEF G, parts

\* In any grouping the leaves make the total: a click, a lead and a payout are
\* each in one leaf, whatever ids repeat.
THEOREM PartsMakeTotal == Spec => []PartsMakeTheTotal
<1>1. Init => TypeOK
  BY InitTyped
<1>2. TypeOK /\ [Next]_vars => TypeOK'
  BY StepTyped
<1>3. TypeOK => PartsMakeTheTotal
  <2>. SUFFICES ASSUME TypeOK, NEW q \in Groups
       PROVE LET parts == Dates(q) \X DistributionValues(q)
                 part == [x \in parts |-> Leaf(q, x[1], x[2])]
                 Counts == [clicks : Nat,
                            statuses : [LeadStatus -> [leads : Nat, payouts : Int]]]
             IN /\ part \in [parts -> Counts]
                /\ Total(q).clicks = SumOf([x \in parts |-> part[x].clicks])
                /\ \A s \in LeadStatus :
                     LET t == Total(q).statuses[s] IN
                     /\ t.leads = SumOf([x \in parts |-> part[x].statuses[s].leads])
                     /\ t.payouts = SumOf([x \in parts |-> part[x].statuses[s].payouts])
    BY DEF PartsMakeTheTotal
  <2>. DEFINE parts == Dates(q) \X DistributionValues(q)
              part == [x \in parts |-> Leaf(q, x[1], x[2])]
              C == Counted(q)
              At(S, x) == {i \in S : clicks[i].day = x[1] /\ ValuesOf(q, i) = x[2]}
              led(S, s) == {i \in S : StatusOf(q, i) = s}
  <2>1. q \in Query /\ C \in SUBSET (1..Len(clicks))
    BY DEF Groups, Counted
  <2>2. ASSUME NEW x \in parts, NEW s \in LeadStatus
        PROVE  /\ part[x].clicks = SumOver(Ones, At(C, x))
               /\ part[x].statuses[s].leads = SumOver(Ones, At(led(C, s), x))
               /\ part[x].statuses[s].payouts = SumOver(Pay(q), At(led(C, s), x))
    <3>1. x[1] \in Dates(q)
      OBVIOUS
    <3>2. part[x] = Count(q, Rows(q, x[1], x[2]))
      BY <3>1, LeafCounts
    <3>3. /\ Rows(q, x[1], x[2]) = At(C, x)
          /\ led(At(C, x), s) = At(led(C, s), x)
          /\ At(C, x) \in SUBSET (1..Len(clicks))
      BY <2>1 DEF Rows
    <3>. HIDE DEF part, At, C
    <3>4. /\ Count(q, At(C, x)).clicks = SumOver(Ones, At(C, x))
          /\ Count(q, At(C, x)).statuses[s].leads = SumOver(Ones, led(At(C, x), s))
          /\ Count(q, At(C, x)).statuses[s].payouts = SumOver(Pay(q), led(At(C, x), s))
      BY <3>3, CountIsSum
    <3>5. Rows(q, x[1], x[2]) = At(C, x) /\ led(At(C, x), s) = At(led(C, s), x)
      BY <3>3
    <3>. HIDE DEF led
    <3>. QED BY <3>2, <3>4, <3>5
  <2>3. ASSUME NEW s \in LeadStatus
        PROVE  /\ Total(q).clicks = SumOver(Ones, C)
               /\ Total(q).statuses[s].leads = SumOver(Ones, led(C, s))
               /\ Total(q).statuses[s].payouts = SumOver(Pay(q), led(C, s))
    BY <2>1, CountIsSum DEF Total
  <2>4. ASSUME NEW f, \A i \in 1..Len(clicks) : f[i] \in Int, NEW S \in SUBSET C
        PROVE  SumOver(f, S) = SumOf([x \in parts |-> SumOver(f, At(S, x))])
    BY <2>1, <2>4, LeavesPartition
  <2>5. ASSUME NEW s \in LeadStatus
        PROVE  /\ Total(q).clicks = SumOf([x \in parts |-> part[x].clicks])
               /\ Total(q).statuses[s].leads
                    = SumOf([x \in parts |-> part[x].statuses[s].leads])
               /\ Total(q).statuses[s].payouts
                    = SumOf([x \in parts |-> part[x].statuses[s].payouts])
    <3>1. /\ [x \in parts |-> part[x].clicks]
               = [x \in parts |-> SumOver(Ones, At(C, x))]
          /\ [x \in parts |-> part[x].statuses[s].leads]
               = [x \in parts |-> SumOver(Ones, At(led(C, s), x))]
          /\ [x \in parts |-> part[x].statuses[s].payouts]
               = [x \in parts |-> SumOver(Pay(q), At(led(C, s), x))]
      <4>. HIDE DEF part, parts, At, led
      <4>. QED BY <2>2
    <3>2. C \in SUBSET C /\ led(C, s) \in SUBSET C
      OBVIOUS
    <3>. HIDE DEF part, parts, At, led, C
    <3>3. /\ SumOver(Ones, C) = SumOf([x \in parts |-> SumOver(Ones, At(C, x))])
          /\ SumOver(Ones, led(C, s))
               = SumOf([x \in parts |-> SumOver(Ones, At(led(C, s), x))])
          /\ SumOver(Pay(q), led(C, s))
               = SumOf([x \in parts |-> SumOver(Pay(q), At(led(C, s), x))])
      BY <2>4, <3>2, AmountsTyped
    <3>. QED BY <2>3, <3>1, <3>3
  <2>6. "accept" \in LeadStatus
    BY DEF LeadStatus
  <2>7. ASSUME NEW x \in parts
        PROVE  part[x] \in [clicks : Nat,
                            statuses : [LeadStatus -> [leads : Nat, payouts : Int]]]
    <3>1. part[x] = Count(q, Rows(q, x[1], x[2]))
      BY LeafCounts
    <3>2. Rows(q, x[1], x[2]) \in SUBSET (1..Len(clicks))
      BY DEF Rows, Counted
    <3>. QED BY <3>1, <3>2, CountTyped
  <2>. QED BY <2>5, <2>6, <2>7
<1>. QED BY <1>1, <1>2, <1>3, PTL DEF Spec

-----------------------------------------------------------------------------
(* Profits.                                                                *)

LEMMA StatusesFinite == IsFiniteSet(LeadStatus) /\ Paid \subseteq LeadStatus
<1>1. LeadStatus = (({"accept"} \cup {"expect"}) \cup {"reject"}) \cup {"trash"}
  BY DEF LeadStatus
<1>2. IsFiniteSet(({"accept"} \cup {"expect"}) \cup {"reject"})
  <2>1. IsFiniteSet({"accept"} \cup {"expect"})
    BY FS_Singleton, FS_AddElement
  <2>. QED BY <2>1, FS_AddElement
<1>3. IsFiniteSet(LeadStatus)
  BY <1>1, <1>2, FS_AddElement
<1>. QED BY <1>3 DEF LeadStatus, Paid

\* The clicks an entry's payouts are those of.
Earning(q, e, kinds) ==
  {i \in Counted(q) : /\ clicks[i].day = e[1] /\ ValuesOf(q, i) \in Below(q, e)
                      /\ StatusOf(q, i) \in kinds}

\* A leaf's payouts of several statuses.
LEMMA LeafPayouts ==
  ASSUME TypeOK, NEW q \in Query, NEW kinds \in SUBSET LeadStatus,
         NEW d \in Dates(q), NEW values
  PROVE  SumOf([s \in kinds |-> Leaf(q, d, values).statuses[s].payouts])
           = SumOver(Pay(q), {i \in Rows(q, d, values) : StatusOf(q, i) \in kinds})
<1>. DEFINE S == {i \in Rows(q, d, values) : StatusOf(q, i) \in kinds}
            c == [i \in S |-> StatusOf(q, i)]
            F == [s \in kinds |-> SumOver(Pay(q), {i \in S : c[i] = s})]
            G == [s \in kinds |-> Leaf(q, d, values).statuses[s].payouts]
<1>1. Rows(q, d, values) \in SUBSET (1..Len(clicks))
  BY DEF Rows, Counted
<1>2. IsFiniteSet(S) /\ IsFiniteSet(kinds)
  BY <1>1, QueryTyped, StatusesFinite, FS_Subset
<1>3. /\ \A i \in S : c[i] \in kinds
      /\ \A i \in S : Pay(q)[i] \in Int
  BY <1>1, AmountsTyped
<1>4. SumOver(Pay(q), S) = SumOver(F, kinds)
  <2>. HIDE DEF S, c
  <2>. QED BY <1>2, <1>3, SumByClass
<1>5. ASSUME NEW s \in kinds PROVE F[s] = G[s]
  <2>1. {i \in S : c[i] = s} = {i \in Rows(q, d, values) : StatusOf(q, i) = s}
    OBVIOUS
  <2>2. s \in LeadStatus
    OBVIOUS
  <2>3. Leaf(q, d, values).statuses[s].payouts
          = SumOver(Pay(q), {i \in Rows(q, d, values) : StatusOf(q, i) = s})
    <3>. DEFINE R == Rows(q, d, values)
    <3>1. Leaf(q, d, values) = Count(q, R)
      BY LeafCounts
    <3>. HIDE DEF R
    <3>2. R \in SUBSET (1..Len(clicks))
      BY <1>1 DEF R
    <3>3. Count(q, R).statuses[s].payouts
            = SumOver(Pay(q), {i \in R : StatusOf(q, i) = s})
      BY <2>2, <3>2, CountIsSum
    <3>4. Leaf(q, d, values).statuses[s].payouts
            = SumOver(Pay(q), {i \in R : StatusOf(q, i) = s})
      BY <3>1, <3>3
    <3>. QED BY <3>4 DEF R
  <2>. QED BY <2>1, <2>3
<1>6. F = G /\ DOMAIN G = kinds
  BY <1>5
<1>. HIDE DEF F, G, S
<1>7. SumOver(Pay(q), S) = SumOf(G)
  BY <1>4, <1>6 DEF SumOf
<1>. QED BY <1>7 DEF G, S

\* The payouts of an entry are those of its clicks.
LEMMA EntryPayouts ==
  ASSUME TypeOK, NEW q \in Query, NEW kinds \in SUBSET LeadStatus,
         NEW e, e[1] \in Dates(q)
  PROVE  /\ PayoutsAt(q, e, kinds) = SumOver(Pay(q), Earning(q, e, kinds))
         /\ PayoutsAt(q, e, kinds) \in Int
<1>. DEFINE S == Earning(q, e, kinds)
            K == Below(q, e)
            c == [i \in S |-> ValuesOf(q, i)]
            F == [x \in K |-> SumOver(Pay(q), {i \in S : c[i] = x})]
            G == [x \in K |->
                    SumOf([s \in kinds |-> Leaf(q, e[1], x).statuses[s].payouts])]
<1>1. S \in SUBSET (1..Len(clicks)) /\ K \in SUBSET DistributionValues(q)
  BY DEF Earning, Counted, Below
<1>2. IsFiniteSet(S) /\ IsFiniteSet(K)
  BY <1>1, QueryTyped, ValuesShown, FS_Subset
<1>3. /\ \A i \in S : c[i] \in K
      /\ \A i \in S : Pay(q)[i] \in Int
  BY <1>1, AmountsTyped DEF Earning
<1>4. SumOver(Pay(q), S) = SumOver(F, K) /\ SumOver(Pay(q), S) \in Int
  <2>. HIDE DEF S, c, K
  <2>. QED BY <1>2, <1>3, SumByClass, SumType
<1>5. ASSUME NEW x \in K PROVE F[x] = G[x]
  <2>1. {i \in S : c[i] = x}
          = {i \in Rows(q, e[1], x) : StatusOf(q, i) \in kinds}
    BY DEF Earning, Rows
  <2>2. SumOf([s \in kinds |-> Leaf(q, e[1], x).statuses[s].payouts])
          = SumOver(Pay(q), {i \in Rows(q, e[1], x) : StatusOf(q, i) \in kinds})
    BY LeafPayouts
  <2>. QED BY <2>1, <2>2
<1>6. F = G /\ DOMAIN G = K
  BY <1>5
<1>7. PayoutsAt(q, e, kinds) = SumOf(G)
  BY DEF PayoutsAt
<1>. HIDE DEF F, G, S
<1>8. SumOver(Pay(q), S) = SumOf(G)
  BY <1>4, <1>6 DEF SumOf
<1>. QED BY <1>4, <1>7, <1>8 DEF S

\* The second components of the entries.
Shown(q) == IF Matches(q) THEN {x[0] : x \in DistributionValues(q)} ELSE {Null}

LEMMA EntriesShown ==
  ASSUME TypeOK, NEW q \in Query
  PROVE  /\ Entries(q) = Dates(q) \X Shown(q)
         /\ IsFiniteSet(Shown(q)) /\ IsFiniteSet(Entries(q))
<1>1. Entries(q) = Dates(q) \X Shown(q)
  BY DEF Entries, Shown
<1>2. IsFiniteSet(Shown(q))
  <2>1. CASE ~Matches(q)
    BY <2>1, FS_Singleton DEF Shown
  <2>2. CASE Matches(q)
    <3>. DEFINE D == DistributionValues(q)
                W == {x[0] : x \in D}
                f == [x \in D |-> x[0]]
    <3>1. f \in Surjection(D, W)
      <4>1. f \in [D -> W] /\ \A w \in W : \E x \in D : f[x] = w
        OBVIOUS
      <4>. HIDE DEF f, D, W
      <4>. QED BY <4>1 DEF Surjection
    <3>2. IsFiniteSet(D)
      BY ValuesShown
    <3>. HIDE DEF f, D, W
    <3>3. IsFiniteSet(W)
      BY <3>1, <3>2, FS_Surjection
    <3>. QED BY <2>2, <3>3 DEF Shown, W, D
  <2>. QED BY <2>1, <2>2
<1>. QED BY <1>1, <1>2, QueryTyped, FS_Product

\* A counted click is in one entry, of those of its day.
LEMMA EntryOfClick ==
  ASSUME TypeOK, NEW q \in Query, NEW i \in Counted(q)
  PROVE  \E e \in Entries(q) :
           \A f \in Entries(q) :
             f = e <=> clicks[i].day = f[1] /\ ValuesOf(q, i) \in Below(q, f)
<1>. DEFINE v == ValuesOf(q, i)
            w == IF Matches(q) THEN v[0] ELSE Null
            e == <<clicks[i].day, w>>
<1>1. clicks[i].day \in Dates(q) /\ v \in DistributionValues(q)
  BY ValuesShown DEF Counted
<1>2. e \in Entries(q)
  BY <1>1, EntriesShown DEF Shown
<1>3. ASSUME NEW f \in Entries(q)
      PROVE  f = e <=> clicks[i].day = f[1] /\ v \in Below(q, f)
  <2>. HIDE DEF v
  <2>1. f = <<f[1], f[2]>> /\ f[2] \in Shown(q)
    BY EntriesShown
  <2>2. v \in Below(q, f) <=> f[2] = w
    BY <1>1, <2>1 DEF Below, Shown
  <2>. QED BY <2>1, <2>2
<1>. QED BY <1>2, <1>3

\* What the total pays on days with expenses, entry by entry.
LEMMA TotalPayouts ==
  ASSUME TypeOK, NEW q \in Query, NEW kinds \in SUBSET LeadStatus
  PROVE  SumOf([i \in {i \in Counted(q) : /\ StatusOf(q, i) \in kinds
                                          /\ Spent(clicks[i].day) # 0} |->
                  PayoutOf(q, i)])
           = SumOver([e \in Entries(q) |->
               IF Spent(e[1]) # 0 THEN PayoutsAt(q, e, kinds) ELSE 0], Entries(q))
<1>. DEFINE K == Entries(q)
            Of(i, e) == clicks[i].day = e[1] /\ ValuesOf(q, i) \in Below(q, e)
            paid == {i \in Counted(q) : /\ StatusOf(q, i) \in kinds
                                        /\ Spent(clicks[i].day) # 0}
            f == [i \in paid |-> PayoutOf(q, i)]
            c == [i \in paid |-> CHOOSE e \in K : Of(i, e)]
            F == [e \in K |-> SumOver(f, {i \in paid : c[i] = e})]
            G == [e \in K |->
                    IF Spent(e[1]) # 0 THEN PayoutsAt(q, e, kinds) ELSE 0]
<1>1. paid \in SUBSET (1..Len(clicks)) /\ paid \in SUBSET Counted(q)
  BY DEF Counted
<1>2. IsFiniteSet(paid) /\ IsFiniteSet(K)
  BY <1>1, QueryTyped, EntriesShown, FS_Subset
<1>3. \A i \in paid : f[i] = Pay(q)[i] /\ f[i] \in Int
  BY <1>1, OutcomeTyped DEF Pay
<1>4. \A i \in paid : c[i] \in K /\ \A e \in K : c[i] = e <=> Of(i, e)
  <2>. SUFFICES ASSUME NEW i \in paid
                PROVE c[i] \in K /\ \A e \in K : c[i] = e <=> Of(i, e)
    OBVIOUS
  <2>1. PICK d \in K : \A e \in K : e = d <=> Of(i, e)
    BY <1>1, EntryOfClick
  <2>2. c[i] = CHOOSE e \in K : Of(i, e)
    OBVIOUS
  <2>. HIDE DEF Of, K, c
  <2>3. c[i] = d
    BY <2>1, <2>2
  <2>. QED BY <2>1, <2>3
<1>5. SumOver(f, paid) = SumOver(F, K)
  <2>. HIDE DEF f, c, K, paid, Of
  <2>. QED BY <1>2, <1>3, <1>4, SumByClass
<1>6. ASSUME NEW e \in K PROVE F[e] = G[e]
  <2>. DEFINE S == {i \in paid : c[i] = e}
  <2>1. S = {i \in paid : Of(i, e)}
    <3>. HIDE DEF c, Of, K
    <3>. QED BY <1>4
  <2>2. e[1] \in Dates(q)
    BY EntriesShown
  <2>3. CASE Spent(e[1]) # 0
    <3>1. S = Earning(q, e, kinds)
      BY <2>1, <2>3 DEF Earning
    <3>2. S \in SUBSET paid
      OBVIOUS
    <3>. HIDE DEF S, paid, f
    <3>3. SumOver(f, S) = SumOver(Pay(q), S)
      BY <1>2, <1>3, <3>2, FS_Subset, SumSame
    <3>4. SumOver(f, S) = PayoutsAt(q, e, kinds)
      BY <2>2, <3>1, <3>3, EntryPayouts
    <3>. QED BY <2>3, <3>4 DEF S
  <2>4. CASE Spent(e[1]) = 0
    <3>1. S = {}
      BY <2>1, <2>4
    <3>. QED BY <2>4, <3>1, SumEmpty
  <2>. QED BY <2>3, <2>4
<1>7. F = G /\ DOMAIN f = paid
  BY <1>6
<1>. HIDE DEF F, G, f, paid, K
<1>8. SumOf(f) = SumOver(G, K)
  BY <1>5, <1>7 DEF SumOf
<1>. QED BY <1>8 DEF f, G, K, paid

\* What a day's expenses add up to, but for the rounding of floats.
Exact(d) ==
  IF expenses[d] = Null THEN 0 ELSE SumOf(expenses[d].distribution)

\* Where the report does not raise, amounts are numbers.
LEMMA DistributionTyped ==
  ASSUME TypeOK, NEW q \in Query, ~Raises(q), NEW d \in Dates(q),
         expenses[d] # Null
  PROVE  LET D == expenses[d].distribution IN
         /\ D \in Distribution /\ Numeric(D)
         /\ IsFiniteSet(DOMAIN D) /\ DOMAIN D \subseteq Value
         /\ \A v \in DOMAIN D : D[v] \in Int
         /\ Exact(d) = SumOver(D, DOMAIN D)
         /\ Spent(d) = FloatSum[D] /\ Spent(d) \in Int
<1>. DEFINE D == expenses[d].distribution
<1>1. d \in Day
  BY QueryTyped
<1>2. D \in Distribution
  <2>1. expenses[d] \in Expense
    BY <1>1 DEF TypeOK
  <2>. QED BY <2>1 DEF Expense
<1>3. Numeric(D)
  BY DEF Raises, Unadded
<1>4. Exact(d) = SumOver(D, DOMAIN D) /\ Spent(d) = FloatSum[D]
  BY DEF Exact, Spent, SumOf
<1>. HIDE DEF D
<1>5. IsFiniteSet(DOMAIN D) /\ DOMAIN D \subseteq Value
  BY <1>2, AmountsAssumption, ConstantsAssumption
<1>6. \A v \in DOMAIN D : D[v] \in Int
  <2>1. D \in [DOMAIN D -> Int \cup {NotANumber}]
    BY <1>2, AmountsAssumption
  <2>. QED BY <1>3, <2>1 DEF Numeric
<1>7. FloatSum[D] \in Int
  BY <1>2, <1>3, FloatsAssumption
<1>. QED BY <1>2, <1>3, <1>4, <1>5, <1>6, <1>7 DEF D

LEMMA ExpensesTyped ==
  ASSUME TypeOK, NEW q \in Query, ~Raises(q), NEW d \in Dates(q)
  PROVE  /\ Spent(d) \in Int /\ Exact(d) \in Int
         /\ \A v : SpentOn(d, v) \in Int
<1>1. CASE expenses[d] = Null
  BY <1>1 DEF Spent, SpentOn, Exact
<1>2. CASE expenses[d] # Null
  <2>1. Exact(d) \in Int
    BY <1>2, DistributionTyped, SumType
  <2>2. \A v : SpentOn(d, v) \in Int
    BY <1>2, DistributionTyped DEF SpentOn
  <2>. QED BY <1>2, <2>1, <2>2, DistributionTyped
<1>. QED BY <1>1, <1>2

\* A day's expenses are those of the values shown, unless the report raises.
LEMMA DayExpenses ==
  ASSUME TypeOK, NEW q \in Query, Matches(q), ~Raises(q), NEW d \in Dates(q)
  PROVE  Exact(d) = SumOver([v \in Shown(q) |-> SpentOn(d, v)], Shown(q))
<1>. DEFINE W == Shown(q)
            g == [v \in W |-> SpentOn(d, v)]
<1>1. d \in Day /\ IsFiniteSet(W) /\ \A v \in W : g[v] \in Int
  BY QueryTyped, EntriesShown, ExpensesTyped
<1>2. CASE expenses[d] = Null
  <2>1. \A v \in W : g[v] = 0
    BY <1>2 DEF SpentOn
  <2>2. {} \in SUBSET W
    OBVIOUS
  <2>. HIDE DEF W, g
  <2>3. SumOver(g, W) = SumOver(g, {})
    BY <1>1, <2>1, <2>2, SumRest
  <2>4. Exact(d) = SumOver(g, W)
    BY <1>2, <2>3, SumEmpty DEF Exact
  <2>. QED BY <2>4 DEF g, W
<1>3. CASE expenses[d] # Null
  <2>. DEFINE D == expenses[d].distribution
              U == DOMAIN D
  <2>1. /\ IsFiniteSet(U) /\ U \subseteq Value
        /\ Exact(d) = SumOver(D, U)
    BY <1>1, <1>3, DistributionTyped
  <2>2. ASSUME NEW v \in U PROVE v \in W
    <3>1. <<d, v>> \notin Missing(q)
      BY DEF Raises
    <3>2. Seen(parameter, v)
      BY <1>3, <2>1, <3>1 DEF Missing
    <3>3. PICK i \in 1..Len(clicks) : clicks[i].with[parameter] = v
      BY <3>2 DEF Seen
    <3>4. 0 \in Places(q)
      BY DEF Places
    <3>5. ValuesOf(q, i)[0] = v
      BY <3>3, <3>4 DEF ValuesOf, ParameterAt
    <3>. QED BY <3>5, ValuesShown DEF Shown
  <2>3. \A v \in U : g[v] = D[v]
    BY <1>3, <2>2 DEF SpentOn
  <2>4. \A v \in W \ U : g[v] = 0
    BY DEF SpentOn
  <2>5. U \in SUBSET W
    BY <2>2
  <2>. HIDE DEF W, U, D, g
  <2>6. SumOver(g, W) = SumOver(g, U)
    BY <1>1, <2>4, <2>5, SumRest
  <2>7. SumOver(g, U) = SumOver(D, U)
    BY <2>1, <2>3, SumSame
  <2>8. Exact(d) = SumOver(g, W)
    BY <2>1, <2>6, <2>7
  <2>. QED BY <2>8 DEF g, W
<1>. QED BY <1>2, <1>3

\* What the entries of a day have for its expenses.
EntryExpense(q, d) == IF Matches(q) THEN Exact(d) ELSE Spent(d)

\* The expenses of the entries, day by day.
LEMMA EntryExpenses ==
  ASSUME TypeOK, NEW q \in Query, ~Raises(q)
  PROVE  SumOver([d \in Dates(q) |-> EntryExpense(q, d)], Dates(q))
           = SumOver([e \in Entries(q) |-> ExpenseAt(q, e)], Entries(q))
<1>. DEFINE D == Dates(q)
            W == Shown(q)
            K == Entries(q)
            s == [d \in D |-> EntryExpense(q, d)]
            x == [e \in K |-> ExpenseAt(q, e)]
            row(d) == [v \in W |-> SpentOn(d, v)]
<1>1. /\ D \subseteq Day /\ IsFiniteSet(D) /\ IsFiniteSet(W)
      /\ IsFiniteSet(K) /\ K = D \X W
  BY QueryTyped, EntriesShown
<1>2. /\ \A d \in D : s[d] \in Int
      /\ \A e \in K : x[e] \in Int /\ e[1] \in D
      /\ DOMAIN s = D
  BY <1>1, ExpensesTyped DEF ExpenseAt, EntryExpense
<1>3. ASSUME NEW d \in D
      PROVE  SumOver(x, {e \in K : e[1] = d}) = s[d]
  <2>. DEFINE T == {e \in K : e[1] = d}
              b == [v \in W |-> <<d, v>>]
  <2>1. b \in Bijection(W, T)
    <3>1. /\ b \in [W -> T]
          /\ \A u, v \in W : b[u] = b[v] => u = v
          /\ \A e \in T : \E v \in W : b[v] = e
      BY <1>1
    <3>. HIDE DEF b, W, T
    <3>. QED BY <3>1 DEF Bijection, Injection, Surjection, IsInjective
  <2>2. \A v \in W : b[v] = <<d, v>> /\ b[v] \in K
    BY <1>1
  <2>3. CASE Matches(q)
    <3>1. \A v \in W : row(d)[v] \in Int /\ x[b[v]] = row(d)[v]
      BY <1>1, <2>2, <2>3, ExpensesTyped DEF ExpenseAt
    <3>2. Exact(d) = SumOver(row(d), W)
      BY <2>3, DayExpenses
    <3>3. s[d] = Exact(d)
      BY <2>3 DEF EntryExpense
    <3>. HIDE DEF b, W, T, x, s, row
    <3>4. SumOver(x, T) = SumOver(row(d), W)
      BY <1>1, <2>1, <3>1, SumRenamed
    <3>5. SumOver(x, T) = s[d]
      BY <3>2, <3>3, <3>4
    <3>. QED BY <3>5 DEF T
  <2>4. CASE ~Matches(q)
    <3>1. T = {<<d, Null>>} /\ x[<<d, Null>>] = Spent(d)
      BY <1>1, <2>4 DEF Shown, ExpenseAt
    <3>2. s[d] = Spent(d) /\ Spent(d) \in Int
      BY <1>1, <2>4, ExpensesTyped DEF EntryExpense
    <3>. HIDE DEF T, x, s
    <3>3. SumOver(x, T) = s[d]
      BY <3>1, <3>2, SumSingleton
    <3>. QED BY <3>3 DEF T
  <2>. QED BY <2>3, <2>4
<1>4. SumOver(x, K) = SumOver(s, D)
  <2>. DEFINE c == [e \in K |-> e[1]]
              F == [d \in D |-> SumOver(x, {e \in K : c[e] = d})]
  <2>1. \A e \in K : c[e] \in D /\ c[e] = e[1]
    BY <1>2
  <2>2. SumOver(x, K) = SumOver(F, D)
    <3>1. /\ IsFiniteSet(K) /\ IsFiniteSet(D)
          /\ \A e \in K : c[e] \in D
          /\ \A e \in K : x[e] \in Int
      BY <1>1, <1>2, <2>1
    <3>. HIDE DEF c, K, D, x
    <3>. QED BY <3>1, SumByClass
  <2>3. ASSUME NEW d \in D PROVE F[d] = s[d]
    <3>1. {e \in K : c[e] = d} = {e \in K : e[1] = d}
      BY <2>1
    <3>. QED BY <1>3, <3>1
  <2>. HIDE DEF F, D, s, x, K
  <2>4. SumOver(F, D) = SumOver(s, D)
    BY <1>1, <2>3, SumSame
  <2>. QED BY <2>2, <2>4
<1>. HIDE DEF s, x, D, K
<1>. QED BY <1>4 DEF s, x, D, K

\* The floats that sum() rounds to leave less than a cent between the total's
\* expenses and those of the entries.
LEMMA TotalExpenses ==
  ASSUME TypeOK, NEW q \in Query, ~Raises(q), NoneNegative(q)
  PROVE  /\ SumOf([d \in Dates(q) |-> Spent(d)])
              - SumOver([e \in Entries(q) |-> ExpenseAt(q, e)], Entries(q))
              \in (1 - Cent)..(Cent - 1)
         /\ SumOf([d \in Dates(q) |-> Spent(d)]) \in Int
<1>. DEFINE D == Dates(q)
            n == Cardinality(D)
            spent == [d \in D |-> Spent(d)]
            entry == [d \in D |-> EntryExpense(q, d)]
            one == [d \in D |-> 1]
            noise == [d \in D |-> Noise]
            less == [d \in D |-> EntryExpense(q, d) - Noise]
            over == [d \in D |-> Spent(d) - (EntryExpense(q, d) - Noise)]
<1>1. /\ Cent \in Nat \ {0} /\ Noise \in Nat /\ LastDay \in Nat
      /\ (LastDay + 1) * Noise < Cent
  BY FloatsAssumption, ConstantsAssumption
<1>2. D \subseteq Day /\ IsFiniteSet(D)
  BY QueryTyped
<1>3. n \in Nat /\ n <= LastDay + 1
  <2>1. IsFiniteSet(0..LastDay) /\ Cardinality(0..LastDay) = LastDay + 1
    BY <1>1, FS_Interval
  <2>2. D \in SUBSET (0..LastDay)
    BY <1>2 DEF Day
  <2>. HIDE DEF D
  <2>. QED BY <1>2, <2>1, <2>2, FS_Subset, FS_CardinalityType
<1>4. ASSUME NEW d \in D
      PROVE  /\ Spent(d) \in Int /\ EntryExpense(q, d) \in Int
             /\ Spent(d) - EntryExpense(q, d) \in -Noise..Noise
  <2>1. Spent(d) \in Int /\ EntryExpense(q, d) \in Int
    BY ExpensesTyped DEF EntryExpense
  <2>2. CASE ~Matches(q) \/ expenses[d] = Null
    <3>1. Spent(d) = EntryExpense(q, d)
      BY <2>2 DEF EntryExpense, Exact, Spent
    <3>. QED BY <1>1, <2>1, <3>1
  <2>3. CASE Matches(q) /\ expenses[d] # Null
    <3>. DEFINE f == expenses[d].distribution
    <3>1. f \in Distribution /\ Spent(d) = FloatSum[f]
      BY <2>3, DistributionTyped
    <3>2. EntryExpense(q, d) = SumOf(f)
      BY <2>3 DEF EntryExpense, Exact
    <3>3. NeverNegative(f)
      BY <2>3 DEF NoneNegative
    <3>. HIDE DEF f
    <3>. QED BY <2>1, <3>1, <3>2, <3>3, FloatsAssumption
  <2>. QED BY <2>2, <2>3
<1>5. /\ \A d \in D : /\ spent[d] \in Int /\ entry[d] \in Int /\ one[d] = 1
                      /\ noise[d] \in Int /\ noise[d] = Noise * one[d]
                      /\ less[d] \in Int /\ over[d] \in Int
                      /\ entry[d] = less[d] + noise[d]
                      /\ spent[d] = over[d] + less[d]
                      /\ over[d] \in 0..(2 * Noise)
      /\ DOMAIN spent = D
  <2>. SUFFICES ASSUME NEW d \in D
       PROVE /\ spent[d] \in Int /\ entry[d] \in Int /\ one[d] = 1
             /\ noise[d] \in Int /\ noise[d] = Noise * one[d]
             /\ less[d] \in Int /\ over[d] \in Int
             /\ entry[d] = less[d] + noise[d]
             /\ spent[d] = over[d] + less[d]
             /\ over[d] \in 0..(2 * Noise)
    OBVIOUS
  <2>1. Noise * 1 = Noise
    BY <1>1
  <2>. QED BY <1>1, <1>4, <2>1
<1>. HIDE DEF D, spent, entry, one, noise, less, over
<1>6. SumOver(one, D) = n
  BY <1>2, <1>5, SumOnes
<1>7. SumOver(noise, D) = Noise * n
  <2>1. \A d \in D : one[d] \in Int /\ noise[d] = Noise * one[d]
    BY <1>5
  <2>2. Noise \in Int /\ IsFiniteSet(D)
    BY <1>1, <1>2
  <2>. HIDE DEF n
  <2>3. SumOver(noise, D) = Noise * SumOver(one, D)
    BY <2>1, <2>2, SumTimes
  <2>. QED BY <1>6, <2>3
<1>8. SumOver(entry, D) = SumOver(less, D) + Noise * n
  BY <1>2, <1>5, <1>7, SumPlus
<1>9. SumOver(spent, D) = SumOver(over, D) + SumOver(less, D)
  BY <1>2, <1>5, SumPlus
<1>10. SumOver(over, D) \in 0..(2 * Noise * n)
  <2>1. 2 * Noise \in Nat
    BY <1>1
  <2>. QED BY <1>2, <1>5, <2>1, SumWithin
<1>11. Noise * n \in 0..(Cent - 1)
  <2>1. Noise * n <= Noise * (LastDay + 1)
    BY <1>1, <1>3
  <2>2. Noise * n \in Nat
    BY <1>1, <1>3
  <2>. QED BY <1>1, <1>3, <2>1, <2>2
<1>12. /\ SumOver(spent, D) \in Int /\ SumOver(entry, D) \in Int
       /\ SumOver(less, D) \in Int
  BY <1>2, <1>5, SumType
<1>13. SumOver(spent, D) - SumOver(entry, D) \in (1 - Cent)..(Cent - 1)
  <2>. DEFINE N == Noise * n
  <2>1. 2 * Noise * n = 2 * N
    BY <1>1, <1>3
  <2>2. SumOver(over, D) \in 0..(2 * N)
    BY <1>10, <2>1
  <2>. HIDE DEF N, n
  <2>3. N \in 0..(Cent - 1)
    BY <1>11 DEF N
  <2>4. SumOver(entry, D) = SumOver(less, D) + N
    BY <1>8 DEF N
  <2>. QED BY <1>1, <1>9, <1>12, <2>2, <2>3, <2>4
<1>14. SumOver(entry, D) = SumOver([e \in Entries(q) |-> ExpenseAt(q, e)], Entries(q))
  BY EntryExpenses DEF entry, D
<1>15. SumOf(spent) = SumOver(spent, D)
  BY <1>5 DEF SumOf
<1>. QED BY <1>12, <1>13, <1>14, <1>15 DEF spent, D

\* Rounding down to cents leaves less than a cent out.
LEMMA CentsRoundDown ==
  ASSUME NEW x \in Int
  PROVE  Cents(x) \in Int /\ x - Cent * Cents(x) \in 0..(Cent - 1)
BY FloatsAssumption DEF Cents

\* A whole number of cents that the rounding of n entries and of a total, and
\* the noise, account for.
LEMMA WholeCents ==
  ASSUME NEW n \in Nat, NEW k \in Int, NEW T \in 0..((Cent - 1) * n),
         NEW N \in (1 - Cent)..(Cent - 1), NEW r \in 0..(Cent - 1),
         Cent * k = T - N - r
  PROVE  k \in -1..n
<1>1. Cent \in Nat \ {0}
  BY FloatsAssumption
<1>2. (Cent - 1) * n = Cent * n - n
  BY <1>1
<1>3. k >= -1
  <2>. SUFFICES ASSUME k <= -2 PROVE FALSE
    OBVIOUS
  <2>1. Cent * k <= Cent * (-2)
    BY <1>1
  <2>2. Cent * (-2) = -(2 * Cent)
    BY <1>1
  <2>. QED BY <1>1, <1>2, <2>1, <2>2
<1>4. k <= n
  <2>. SUFFICES ASSUME k >= n + 1 PROVE FALSE
    OBVIOUS
  <2>1. Cent * k >= Cent * (n + 1)
    BY <1>1
  <2>2. Cent * (n + 1) = Cent * n + Cent
    BY <1>1
  <2>3. Cent * n \in Int /\ Cent * k \in Int
    BY <1>1
  <2>. QED BY <1>1, <1>2, <2>1, <2>2, <2>3
<1>. QED BY <1>3, <1>4

\* An entry with expenses is of a day with expenses, if none is negative.
LEMMA ExpensesShow ==
  ASSUME TypeOK, NEW q \in Query, ~Raises(q), NoneNegative(q), NEW e \in Entries(q)
  PROVE  /\ ExpenseAt(q, e) \in Int /\ ExpenseAt(q, e) >= 0
         /\ ExpenseAt(q, e) > 0 => Spent(e[1]) # 0
<1>. DEFINE d == e[1]
            D == expenses[d].distribution
<1>1. d \in Dates(q) /\ d \in Day
  BY EntriesShown, QueryTyped
<1>2. CASE expenses[d] = Null
  BY <1>2 DEF ExpenseAt, SpentOn, Spent
<1>3. CASE expenses[d] # Null
  <2>1. /\ D \in Distribution /\ IsFiniteSet(DOMAIN D)
        /\ Spent(d) = FloatSum[D] /\ Spent(d) \in Int
        /\ \A v \in DOMAIN D : D[v] \in Int
    BY <1>1, <1>3, DistributionTyped
  <2>2. NeverNegative(D) /\ \A v \in DOMAIN D : D[v] >= 0
    BY <1>1, <1>3 DEF NoneNegative, NeverNegative
  <2>. HIDE DEF D
  <2>3. Spent(d) >= 0 /\ \A v \in DOMAIN D : D[v] <= Spent(d)
    BY <2>1, <2>2, FloatsAssumption
  <2>4. CASE Matches(q)
    BY <1>3, <2>1, <2>2, <2>3, <2>4 DEF ExpenseAt, SpentOn, D
  <2>5. CASE ~Matches(q)
    BY <2>1, <2>3, <2>5 DEF ExpenseAt
  <2>. QED BY <2>4, <2>5
<1>. QED BY <1>2, <1>3

\* The total profit is the profits shown and what only the total has, to within
\* a cent an entry and one cent for the floats, for every distribution without
\* negative amounts, every noise of the floats and every unit of money.
THEOREM ProfitsAdd == Spec => []ProfitsAddUp
<1>1. Init => TypeOK
  BY InitTyped
<1>2. TypeOK /\ [Next]_vars => TypeOK'
  BY StepTyped
<1>3. TypeOK => ProfitsAddUp
  <2>. SUFFICES ASSUME TypeOK, NEW q \in Groups, NEW kinds \in {{"accept"}, Paid},
                       ~Raises(q), NoneNegative(q)
       PROVE LET shown == SumOf([e \in Entries(q) |-> ProfitAt(q, e, kinds)])
                 bare == {e \in Entries(q) : Spent(e[1]) # 0 /\ ExpenseAt(q, e) = 0}
                 uncovered == SumOf([e \in bare |-> PayoutsAt(q, e, kinds)])
             IN TotalProfit(q, kinds) - shown - uncovered
                  \in -1..Cardinality(Entries(q))
    BY DEF ProfitsAddUp
  <2>. DEFINE K == Entries(q)
              bare == {e \in K : Spent(e[1]) # 0 /\ ExpenseAt(q, e) = 0}
              pay(e) == PayoutsAt(q, e, kinds)
              a == [e \in K |-> ProfitAt(q, e, kinds)]
              p == [e \in K |-> IF Spent(e[1]) # 0 THEN pay(e) ELSE 0]
              x == [e \in K |-> ExpenseAt(q, e)]
              b == [e \in K |-> IF e \in bare THEN pay(e) ELSE 0]
              bp == [e \in bare |-> pay(e)]
              ba == [e \in K |-> b[e] + a[e]]
              u == [e \in K |-> p[e] - ba[e]]
              cu == [e \in K |-> Cent * u[e]]
              t == [e \in K |-> cu[e] - x[e]]
  <2>1. /\ q \in Query /\ kinds \in SUBSET LeadStatus
        /\ Cent \in Nat \ {0}
    BY StatusesFinite, FloatsAssumption DEF Groups, Paid, LeadStatus
  <2>2. IsFiniteSet(K) /\ bare \in SUBSET K /\ IsFiniteSet(bare)
    BY <2>1, EntriesShown, FS_Subset
  <2>3. ASSUME NEW e \in K
        PROVE  /\ pay(e) \in Int
               /\ x[e] \in Int /\ x[e] >= 0 /\ (x[e] > 0 => Spent(e[1]) # 0)
               /\ a[e] = IF x[e] > 0 THEN Cents(Cent * pay(e) - x[e]) ELSE 0
    <3>1. e[1] \in Dates(q) /\ e[1] \in Day
      BY <2>1, EntriesShown, QueryTyped
    <3>. QED BY <2>1, <3>1, EntryPayouts, ExpensesShow
         DEF ProfitAt, HasProfit
  <2>4. ASSUME NEW e \in K
        PROVE  /\ a[e] \in Int /\ p[e] \in Int /\ b[e] \in Int
               /\ Cent * (p[e] - (b[e] + a[e])) - x[e] \in 0..(Cent - 1)
    <3>1. CASE x[e] > 0
      <4>1. p[e] = pay(e) /\ b[e] = 0
        BY <2>3, <3>1
      <4>2. a[e] = Cents(Cent * pay(e) - x[e])
        BY <2>3, <3>1
      <4>3. pay(e) \in Int /\ x[e] \in Int
        BY <2>3
      <4>. HIDE DEF a, b, p, x, pay, K, bare
      <4>4. Cent * pay(e) \in Int
        BY <2>1, <4>3
      <4>5. /\ a[e] \in Int
            /\ (Cent * pay(e) - x[e]) - Cent * a[e] \in 0..(Cent - 1)
        BY <4>2, <4>3, <4>4, CentsRoundDown
      <4>6. Cent * (p[e] - (b[e] + a[e])) = Cent * pay(e) - Cent * a[e]
        BY <2>1, <4>1, <4>3, <4>5
      <4>7. Cent * a[e] \in Int
        BY <2>1, <4>5
      <4>. QED BY <2>1, <4>1, <4>3, <4>4, <4>5, <4>6, <4>7
    <3>2. CASE x[e] = 0
      <4>1. p[e] = b[e] /\ a[e] = 0 /\ p[e] \in Int
        BY <2>3, <3>2
      <4>. HIDE DEF a, b, p, x, pay, K, bare
      <4>2. p[e] - (b[e] + a[e]) = 0 /\ b[e] \in Int
        BY <4>1
      <4>3. Cent * 0 = 0
        BY <2>1
      <4>4. Cent * (p[e] - (b[e] + a[e])) - x[e] = 0
        BY <3>2, <4>2, <4>3
      <4>. QED BY <2>1, <4>1, <4>2, <4>4
    <3>3. x[e] > 0 \/ x[e] = 0
      BY <2>3
    <3>. QED BY <3>1, <3>2, <3>3
  <2>. DEFINE P == SumOver(p, K)
              X == SumOver(x, K)
              B == SumOver(b, K)
              A == SumOver(a, K)
              U == SumOver(u, K)
              T == SumOver(t, K)
              n == Cardinality(K)
  <2>5. \A e \in K :
          /\ a[e] \in Int /\ b[e] \in Int /\ p[e] \in Int /\ x[e] \in Int
          /\ ba[e] \in Int /\ ba[e] = b[e] + a[e]
          /\ u[e] \in Int /\ p[e] = u[e] + ba[e]
          /\ cu[e] \in Int /\ cu[e] = Cent * u[e]
          /\ t[e] \in Int /\ cu[e] = t[e] + x[e] /\ t[e] \in 0..(Cent - 1)
    <3>. SUFFICES ASSUME NEW e \in K
         PROVE /\ a[e] \in Int /\ b[e] \in Int /\ p[e] \in Int /\ x[e] \in Int
               /\ ba[e] \in Int /\ ba[e] = b[e] + a[e]
               /\ u[e] \in Int /\ p[e] = u[e] + ba[e]
               /\ cu[e] \in Int /\ cu[e] = Cent * u[e]
               /\ t[e] \in Int /\ cu[e] = t[e] + x[e] /\ t[e] \in 0..(Cent - 1)
      OBVIOUS
    <3>1. /\ ba[e] = b[e] + a[e] /\ u[e] = p[e] - ba[e]
          /\ cu[e] = Cent * u[e] /\ t[e] = cu[e] - x[e]
      OBVIOUS
    <3>2. /\ a[e] \in Int /\ b[e] \in Int /\ p[e] \in Int /\ x[e] \in Int
          /\ Cent * (p[e] - (b[e] + a[e])) - x[e] \in 0..(Cent - 1)
      BY <2>3, <2>4
    <3>. HIDE DEF a, b, p, x, ba, u, cu, t, K
    <3>3. u[e] \in Int /\ ba[e] \in Int /\ p[e] = u[e] + ba[e]
      BY <3>1, <3>2
    <3>4. cu[e] \in Int
      BY <2>1, <3>1, <3>3
    <3>5. t[e] \in 0..(Cent - 1)
      BY <3>1, <3>2
    <3>. QED BY <2>1, <3>1, <3>2, <3>3, <3>4, <3>5
  <2>. HIDE DEF K, a, b, p, x, ba, u, cu, t
  <2>6. /\ P \in Int /\ X \in Int /\ B \in Int /\ A \in Int /\ U \in Int
        /\ T \in Int /\ n \in Nat
    BY <2>2, <2>5, SumType, FS_CardinalityType
  <2>7. T \in 0..((Cent - 1) * n)
    <3>1. Cent - 1 \in Nat
      BY <2>1
    <3>. QED BY <2>2, <2>5, <3>1, SumWithin
  <2>8. P = U + (B + A)
    <3>1. SumOver(ba, K) = B + A
      BY <2>2, <2>5, SumPlus
    <3>2. P = U + SumOver(ba, K)
      BY <2>2, <2>5, SumPlus
    <3>. QED BY <3>1, <3>2
  <2>9. Cent * U = T + X
    <3>1. SumOver(cu, K) = Cent * U
      BY <2>1, <2>2, <2>5, SumTimes
    <3>2. SumOver(cu, K) = T + X
      BY <2>2, <2>5, SumPlus
    <3>. QED BY <3>1, <3>2
  <2>10. SumOf(a) = A
    BY DEF SumOf, a
  <2>11. SumOf(bp) = B
    <3>1. /\ \A e \in K \ bare : b[e] = 0
          /\ \A e \in bare : b[e] = bp[e]
          /\ DOMAIN bp = bare
      BY DEF b
    <3>. HIDE DEF bp, bare
    <3>2. SumOver(b, K) = SumOver(b, bare)
      BY <2>2, <2>5, <3>1, SumRest
    <3>3. SumOver(b, bare) = SumOver(bp, bare)
      BY <2>2, <3>1, SumSame
    <3>. QED BY <3>1, <3>2, <3>3 DEF SumOf
  <2>. DEFINE S == SumOf([d \in Dates(q) |-> Spent(d)])
              c == Cents(Cent * P - S)
  <2>12. TotalProfit(q, kinds) = c
    <3>1. SumOf([i \in {i \in Counted(q) : /\ StatusOf(q, i) \in kinds
                                            /\ Spent(clicks[i].day) # 0} |->
                   PayoutOf(q, i)]) = P
      BY <2>1, TotalPayouts DEF p, K
    <3>. HIDE DEF P
    <3>. QED BY <3>1 DEF TotalProfit
  <2>13. S \in Int /\ S - X \in (1 - Cent)..(Cent - 1)
    BY <2>1, TotalExpenses DEF x, K
  <2>14. c - A - B \in -1..n
    <3>. HIDE DEF P, X, A, B, U, T, n, S, c
    <3>1. Cent * P \in Int
      BY <2>1, <2>6
    <3>2. c \in Int /\ (Cent * P - S) - Cent * c \in 0..(Cent - 1)
      BY <2>13, <3>1, CentsRoundDown DEF c
    <3>. DEFINE r == (Cent * P - S) - Cent * c
                N == S - X
                k == c - A - B
    <3>3. Cent * k = T - N - r
      <4>1. P - (A + B) = U
        BY <2>6, <2>8
      <4>2. Cent * k = Cent * c - Cent * (A + B)
        BY <2>1, <2>6, <3>2
      <4>3. Cent * P - Cent * (A + B) = Cent * U
        BY <2>1, <2>6, <4>1
      <4>4. Cent * c \in Int /\ Cent * (A + B) \in Int /\ Cent * U \in Int
        BY <2>1, <2>6, <3>2
      <4>. HIDE DEF k
      <4>. QED BY <2>6, <2>9, <2>13, <3>1, <4>2, <4>3, <4>4
    <3>4. k \in Int /\ r \in 0..(Cent - 1) /\ N \in (1 - Cent)..(Cent - 1)
      BY <2>6, <2>13, <3>2
    <3>. HIDE DEF r, N, k
    <3>5. k \in -1..n
      BY <2>6, <2>7, <3>3, <3>4, WholeCents
    <3>. QED BY <3>5 DEF k
  <2>. HIDE DEF bp, A, B, n, c
  <2>15. TotalProfit(q, kinds) - SumOf(a) - SumOf(bp) \in -1..n
    BY <2>10, <2>11, <2>12, <2>14
  <2>. QED BY <2>15 DEF a, bp, K, n
<1>. QED BY <1>1, <1>2, <1>3, PTL DEF Spec
=============================================================================
