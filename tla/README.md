# Bangi in TLA+

Bangi is a self-hosted tracker for paid traffic: it sends visitors of a campaign
to landing pages or redirects, takes in clicks, leads and postbacks, reports on
them, and manages the domains and certificates the campaigns run on. This
directory holds models of its API (`apps/api/src`), the TLC runs that check
them, and the TLAPS proofs about them. File names below are relative to
`apps/api/src` unless they start with `apps/` or `infra/`.

    tlc  -workers 2 -config LeadPipelineOneClick.cfg MCLeadPipeline
    tlapm LeadPipeline_proofs.tla

`PROJECT.json` lists the components, the runs, a mutant for each property, the
source lines of each definition, the findings, the hazards and the theorems.

## 1. The system

One container runs one gunicorn sync worker. It has two threads that matter:

* the **HTTP thread**, which serves one request at a time;
* the **supervisor thread** (`core/supervisor.py`), a loop that calls the
  registered workers one after another, ten rounds a second; each worker
  throttles itself. An exception is logged and the loop goes on.

They share a MariaDB without transactions around their statements (peewee
autocommit, Aria tables for the tracker), an in-memory queue, and the nginx
directories of the host. A restart loses what is in memory; tables and files stay.
So all concurrency is: two threads, interleaved at every statement, queue call,
file system call and host command, and a restart between any two of them.

### Inventory

| component | state | operations | what makes it correct | model |
|---|---|---|---|---|
| tracker: clicks, postbacks, leads (`tracker/services.py`) | `track_click`, `track_postback`, `track_lead` | track a click, a postback (status mapped and payout frozen), a lead; enqueue a refresh | what is stored reaches the report | LeadPipeline |
| reports: leads worker (`reports/workers.py`) | `report_lead`, the queue, `last_executed_at` | drain, insert for leads, select newest postbacks, upsert | no row is stale without a refresh ahead; rows never go back; a row is one event | LeadPipeline, LeadLedger |
| core: supervisor (`core/supervisor.py`) | the queues and worker states | run the workers in turn, swallow errors | errors delay, and do not stop, the workers | LeadPipeline, ManagedDomains (scheduling) |
| core: flows and campaigns (`core/services.py`) | `flow`, `campaign`, landing directories | create, update, delete, order, upload; name the default flow | a render flow has a page; the default is not a deleted flow | FlowRouting |
| tracker: process route (`tracker/routes.py`) | two cookies in the browser, `track_discard` | choose a flow, answer, set cookies, discard | visitors move forward; nobody is turned away unalerted | FlowRouting |
| domains: service (`domains/services.py`) | `domain`, `domain_cookie` | create, PATCH, publish, disable | a site serves only what its row asks for | ManagedDomains |
| domains: DNS worker (`domains/workers/refresh_domain_dns.py`) | `domain.is_a_record_set` | look up, publish, mark | a domain that points here is marked so, and only that | ManagedDomains |
| domains: certificate worker (`domains/workers/renew_ca_certificates.py`) | `domain_certificate` | choose candidates, order, record, publish | every enabled domain gets a certificate; orders are paced; the one in use is not lost | ManagedDomains |
| domains: nginx publishing (`domains/services.py`, `NginxService`) | versioned files, links, the running nginx | write, link, validate, reload, restore | a publish is one step or none, and says which; no link to nothing; nothing rejected stays | NginxPublish, SiteSwitch |
| domains: cookie sealing | `domain_cookie` keys, an `lru_cache` | name, seal, open | an absent row is not remembered | partly (rows and ages only) |
| core: default flow alert (`core/alerts.py`) | none | read | up whenever visitors may be turned away | FlowRouting (`DefaultFlowAlert`) |
| reports: expenses (`reports/services.py` 283-300) | `expense`, a campaign's distribution parameter | submit expenses | rows are of the campaign's parameter; a failed submission keeps exactly its first items | Expenses |
| reports: statistics (`reports/services.py`, `reports/repositories.py`) | none (reads) | totals, leaves, profits, by period and grouping | each click once, its newest postback, parts make the total, closed periods are final, the report answers | Statistics |
| reports: discard alert | none (reads) | count clicks and discards over three windows | the clean-up takes nothing that is still counted | Housekeeping (counts) |
| facebook_pacs (`facebook_pacs/services.py`) | campaigns in two tables, executors, pages, cabinets, portfolios, access URLs | create, bind, unbind, edit; access URLs come and go | both rows or a named failure; an edit reaches both; what is named exists; the default flow | FacebookCampaigns, Housekeeping |
| health, tracker: clean-up (`health/workers.py`, `tracker/workers.py`) | `health_disk_utilization`, `track_discard`, when each worker ran | ingest, delete what is past its retention | outdated rows go, and no alert loses what it is about | Housekeeping |
| health: validation snapshots, diagnostics | `health_nginx_validation_snapshot` | append, read | - | not modelled |
| alerts (`alerts/`) | none | ask every source, skip one that raises | each alert fits the rows | those of Housekeeping and FlowRouting |
| auth | `pat_token` | generate, verify, revoke a token; check a password | one statement each | not modelled |
| mcp | `agent_note` | JSON-RPC reads; upsert the note of a session | one statement | not modelled |
| container, api | none | wiring | one process, one supervisor thread: an assumption | not modelled |
| web dashboard (`apps/web`) | client side | forms and tables | no server state | not modelled |
| infra (`infra/`) | host files | install, scripts | run once; host commands are nondeterministic outcomes in the models | not modelled |
| `.agents`, `_bmad`, `_bmad-output` | - | - | not part of the program | not modelled |

### How they interact

    browser --nginx--> Process.get --> process_flows --> track_click --> cookies
    advertiser --> track_postback --> queue ==> leads worker ==> report_lead
    operator --> DomainService --> rows, NginxService --> links, nginx
                 DNS worker ==> rows, NginxService       (==> supervisor thread)
                 certificate worker ==> ACME, rows, NginxService

The hard parts are, in the order they were taken up: the two threads around the
report row; the two threads and three programs around a domain's row and site;
links moved with a crash between any two calls; the history of a visitor
whose flows change under it; submissions and edits of several statements that
stop between two of them; and rows that are deleted while something is still
worked out from them. PROJECT.json lists every hazard at its line, with
the properties meant to catch it or the reason there is none yet.

## 2. The modules

### LeadPipeline, LeadLedger

`LeadPipeline` has an action for each statement of the two threads.

| code | model |
|---|---|
| `track_click` / `track_lead` / `track_postback` | `TrackClick`, `TrackLead`, `TrackPostback`: the stored row, then `Enqueue`, the `put` that ends the handler (`pending` in between) |
| `_map_lead_status`, payout | `MapStatus`, `PostbackOf` |
| any click of the id, unordered | `TermsFor`: the choice is nondeterministic |
| throttle of 10 s and MIN_QUEUE_SIZE | `Throttled`, `recent`, `PeriodElapses` |
| drain loop | `WorkerStart`, `WorkerGet`, `WorkerDrained` |
| `INSERT IGNORE ... SELECT` | `WorkerUpsertLeads`, `WorkerUpsertLeadsFails` |
| join with the newest postback, upsert | `WorkerSelect`, `WorkerUpsert`, `WorkerPostbacksFail` |
| supervisor restarted | `Restart` |

The database ids order postbacks (`postbacks[i]` has primary key `i`). Two history
parts exist only for properties: `src` in a report row, the postback it shows,
and `dropped`, the refreshes that a failure, a restart or a missing click gave up.

`LeadLedger` is the promise to the report's reader, in three actions: events
arrive, clicks become known, and any set of lines appears or moves to a *newer
postback of its own click*. `LedgerSpec` is LeadLedger under the mapping at the
end of `LeadPipeline`; a pipeline step is `Receive`, `Click`, `Publish` or a stutter.

### NginxPublish, SiteSwitch

`NginxService.publish` and `disable` of one hostname, one action per file system
or host call: version file, look for and unlink the temporary link, symlink,
replace, `nginx -t`, reload, and the way back. `Restart` stops every publisher
where it is; `rejected` is which versions nginx would refuse, chosen at the
start; host commands may also fail by themselves (`Fault`). It opens up what
ManagedDomains takes as one step, `Publish` / `PublishFails`.

The publishers are the two threads, and only the HTTP thread disables. The
history `crossed` is who overlapped the other in its last operation, `met` who
ever did: what the code promises a publisher that has the hostname for itself it
does not promise one that is crossed, and the properties say just that.

`SiteSwitch` is what the rest of the program relies on: a publish switches the
site in one step or not at all, and answers which; a disable takes it away in
one; a restart leaves a publish done or not done. Publishers that cross may get
any site and any answer until each has ended. `SwitchSpec` is SiteSwitch under
the mapping at the end of `NginxPublish`: the site is what is enabled, but
between the move of the link and the reload of an uncrossed publisher
(`Undecided`) it is still what that publisher found. So ManagedDomains is right
to take `Publish`, `PublishFails` and `DisablePrevious` as single steps, but for
a hostname that both threads publish at once: what such a pair leaves is a
matter of NginxPublish, and outside ManagedDomains.

### ManagedDomains

Rows, certificates, sites and the DNS, with the HTTP thread (`Create`,
`PatchLoad` / `PatchSave` / `Publish` / `DisablePrevious`: a PATCH reads, saves
*every column*, publishes, removes the previous link), a pass of the DNS worker
(`DnsFetch` ... `DnsMarkFalse`) and a pass of the certificate worker
(`CertificateFetch` ... `OrdersDone`). Both workers copy rows at the start of a
pass (`todo`) and write by id at the end: the stale copies are the point of the
module. Time is abstract: an expiry is far or near, a retry later or due.
`FirstOf` translates the candidates' ORDER BY and LIMIT. History: `diverged`,
the hostnames last written by a failed, interrupted or stale publish, and
`abandoned`, the domains whose order was cut short.

### FlowRouting

One campaign. `Chosen` is `process_flows`; `Visit`, then `Answer`, `AnswerLost`
or `Discard`, is `Process.get`. Operators' requests are split where the code
writes in more than one step: `Create` then `Wipe`, `Unpack`; `Upload`; `Delete`
then `ClearDefault`. A rule is the set of clients it matches, the empty set for
one that does not run. History: `passed`, the flows a visitor has left, `fellBack`,
that it was given the default for want of a match, and `spoiled`, flows whose
upload failed or was cut short.

A domain's nginx template sends a visitor that carries the flow cookie from `/`
straight to the landing renderer (`domains/nginx_templates/campaign_http.conf.template`
14-15). The model is of the visits that reach `/process`: first visits on a
campaign domain, and all visits to `/process/<id>` of the dashboard's host
(`dashboard_http.conf.template` 28), whose cookies the route reads as well.

### Expenses, Statistics

`Expenses` is one campaign's submissions: `Submit` reads the campaign and fixes
its distribution parameter if it has none, `Store` upserts one item, `Answer`
ends the request and `Interrupt` ends it anywhere (an item without a
distribution raises a KeyError in the loop; a statement fails; a restart). The
clicks and postbacks the reports are made of come between submissions, all on
the HTTP thread. History: the parameter each row was submitted for (`by`), the
rows that stood when a submission came (`before`), and `strays`, values that no
click had when their expense was stored.

`Statistics` extends it with the report as operators over that state, one for
each query and loop: the window and its gap (`Lower`, `Upper`), the row-numbered
join (`Newest`), the grouping with the expenses' parameter in front (`Places`,
`ParameterAt`), the leaves (`Leaf`), the total, expenses and profits, and when it
raises (`Missing`, `Unadded`). Amounts are what JSON may hold: integers in a unit
finer than a cent for numbers, which keeps the binary fractions that
`Decimal.from_float` keeps, and `NotANumber` for the rest. `FloatSum` is what
`sum()` makes of a day's amounts, within `Noise` of their exact sum; `Cents` is
`quantize` with ROUND_FLOOR. The
properties compare them with definitions of their own, over every query of a
small instance. `Sums` is the sum of a function's values: with the function as
an ordinary argument, facts about sums can be stated for all functions and
proved (`Sums_proofs`), which a fold over an operator does not allow.

### FacebookCampaigns

`CreateRow` and the binds are one statement each. `CreateCampaign` writes the core
row and leaves `InsertCampaign` to do; `EditCampaign` writes the core row,
`SaveCampaign` the other; `DeleteFlow` leaves `ClearDefault`. `Fail` is what may
happen instead: a lookup finds nothing, a statement raises, the process restarts.
The core's own create, update and delete work on the same rows. History: which
core rows were made for Facebook (`made`), the last edit that reached each row
(`reached`, `edit`), the default last asked for (`asked`), who lost it to an edit
(`edited`), and what ended half-way (`lost`, `half`, `cut`).

### Housekeeping

Rows carry their age, access URLs what is left to them; `Tick` moves all of it on,
up to the age from which nothing depends on it. `Arrive` stores a visit's click and
`TurnAway` the discard, or fails to; a failure or a restart between the two leaves
a visitor who was turned away without a discard (a visit like any other, then). `SweepDiscards` and
`CleanReports` are the two workers, with the note of when they ran or, after an
exception, without it; `Restart` loses the notes. `Visited`, `Discarded`,
`DiskAlert` and `UrlAlert` are what the alerts read. `last`, the host's latest
report, is history.

## 3. The runs

| run | question | bounds, and why they are enough |
|---|---|---|
| `leads_one_click` | can a row be silently stale, a lead forgotten, a row a mix of two events, a payout on an unpaid status? | one id (ids meet only in the queue), two campaigns that price and map differently, two postbacks (an older and a newer one), a lead, one database error, one restart |
| `leads_two_clicks` | is it the ledger, and does every postback settle? | two ids share the queue, both sets and the upsert; threshold 2, so that one event waits for the period and two do not |
| `nginx` | is an uncrossed publish one step or none, truly answered (SiteSwitch); does a publisher not raise and leave nothing rejected; is there ever a link to nothing, with both threads on one hostname? | three versions (one in place, one that fails, one after it), one fault, one restart between any two calls |
| `domains_one` | do site and row agree; are certificates pending, paced and kept as they should? | one domain over two hostnames, two edits (a rename and one more), each of DNS move, expiry, fault and restart once |
| `domains_live` | is a domain resolved, and certified, in the end? | two domains for one candidate a pass, so that one can crowd out the other; one fault |
| `flows` | do visitors move forward, render flows have pages, are discards alerted? | three flows (left, current, next), three visits, four edits, one restart; two kinds of client, four forms |
| `statistics` | are expense rows one parameter's and a prefix of what was submitted; are the totals, parts and profits right, closed periods final, and when does a report raise? | three days and a gap of one, so that events fall inside, in the gap and beyond it; three events, at most two of them clicks and two postbacks, on two ids (a click twice, or a click and two postbacks); two items for the middle day, the second replacing what the first stored (for any number of days the theorems of section 4 speak); one submission with rows after any number of empty ones, which is enough to fix a parameter and then name another; amounts of 10.1 and 40.1 cents, since 0.1 and 0.4 are as floats a little more than they say, whose float sum is 50 cents again, a text for an amount, and a value no click has; payouts of 1.00 against them |
| `facebook` | are campaigns whole, edits whole, defaults kept? | two campaigns, two flows, two edits (a second one can meet what a first left half-way), two portfolios and one row of each other table, ids that exist or not yet |
| `housekeeping` | do clean-ups take what an alert needs; do outdated rows go? | a window as long as the retention, its sharpest case, and one of no length; two discards and two reports of different ages; two URLs of two portfolios; any number of restarts and failed passes, which need no bound |

Deadlock is checked, except of FlowRouting, where the bounds let the model stop:
with every edit and visit used up there is nothing left to do. The program's server waits
for the next request.

The remaining runs each show one disagreement; section 6.

### Fairness

* LeadPipeline: WF of `Enqueue` (a handler is not stopped between its two
  statements but by a restart, which is a step of its own), of `Worker` (the
  supervisor's loop catches everything and goes on) and of `PeriodElapses` (time).
  None of `TrackPostback`, `SaveCampaign` or `Restart`: nobody has to come.
* ManagedDomains: WF of `HttpStep` and `PassStep`, for the same reason; SF of
  `DnsFetch` and `CertificateFetch`: each is enabled only while the supervisor
  is between passes, so only ever again and not continuously, and the loop calls
  every worker in each round, so that neither is passed over for ever; WF of
  `RetryComesDue` (time). None of the DNS: `ResolvedEventually` speaks of
  hostnames that keep pointing here.
* Housekeeping: WF of `Tick` (time), of `TurnAway` (a request ends) and of each worker's pass that ends well: a
  pass that is due stays due until one ends well, and the loop calls every
  worker in each round; that not every pass fails for ever is assumed. None of
  `Arrive`, `Ingest` or `Restart`.
* `EveryPostbackSettles` needs events to stop coming at some point, which the
  bound on postbacks gives: the drain loop of `reports/workers.py` 34 does not
  end while events arrive faster than it takes them. This is the one hazard of the
  pipeline that the bounds hide.

## 4. What is proved

For every value of the constants under the named assumptions (the `ASSUME`s of
each module, which TLC evaluates in the runs): bounds are naturals, the "no such
thing" values are none of the things, a campaign's cost is not NULL, order values
are integers, a certificate pass looks at one candidate at least, expenses are
submitted for days of the calendar, a distribution has finitely many amounts,
which are integers of any sign in any unit of which a whole number make a cent, or
no numbers, the float sum of amounts that are not negative is not negative, no less
than the largest and, over all the days of the calendar, less than a cent from the
exact one, no window is longer than the
retention and a report is stale before it is deleted. Bounds can be any size, and nothing in the
proofs depends on them, so the results hold for unbounded behaviours.

| theorem | statement | argument |
|---|---|---|
| `LeadPipeline_proofs!TypeCorrect` | `Spec => []TypeOK` | inductive |
| `NeverSilentlyStale`, `LeadsNeverForgotten`, `RowsAreEvents`, `PayoutsFitStatus` | the four invariants of `leads_one_click` | one `IInv`, below |
| `ImplementsLedger` | `Spec => LedgerSpec` | `LedgerStep`: by the action, from `IInv` |
| `NginxPublish_proofs!LinksNeverDangle` | `Spec => []LinkNeverDangles`, any number of publishers | `HeldLinks` |
| `NothingRaisesAlone`, `ResultsAreTrue`, `RejectedDoesNotStay` | `[]NothingRaises`, `ResultIsTrue`, `[]NothingRejectedStays`, any number of publishers | `Alone`, `Clean` |
| `PublishesInOneStep` | `Spec => SwitchSpec`, any number of publishers | `StepSwitches`: by the step, from `SwitchInv` |
| `ManagedDomains_proofs!SitesFollowRows` | `Spec => []SiteFollowsRows` | `SitesExplained` |
| `PendingIsOrdering` | `Spec => []PendingMeansOrdering` | `Orders` |
| `FilesStay` | `Spec => FilesNeverForgotten` | by the step, from `Orders` |
| `OrdersPaced` | `Spec => OrdersArePaced` | `Scheduled` |
| `FlowRouting_proofs!VisitorsGoForward` | `Spec => []NeverBack` | `Descending` |
| `DiscardsShowInAlert` | `Spec => []DiscardsAreAlerted` | the rows do not change between choice and answer |
| `PagesAreThere`, `DefaultStaysAlive` | `Spec => []RenderFlowsHavePages`, `[]DefaultNotDeleted` | each with what a request still has to store |
| `Statistics_proofs!OneParameterForAll` | `Spec => []ExpensesHaveParameter` | `OneParameter` |
| `FailuresKeepAPrefix` | `Spec => []PrefixIsStored` | inductive with the type of the request |
| `ReportFailsOnlyThere` | `Spec => []ReportAnswers` | `SeenOrStray` |
| `ClosedPeriodsAreFinal` | `Spec => ClosedPeriodIsFinal` | `StepsAdd` |
| `TotalsTrue` | `Spec => []TotalsAreTrue` | `PostbacksFollow`, `LeadIsNewest` |
| `PartsMakeTotal` | `Spec => []PartsMakeTheTotal` | `LeavesPartition` |
| `ProfitsAdd` | `Spec => []ProfitsAddUp` | `TotalPayouts`, `TotalExpenses`, `CentsRoundDown`, `WholeCents` |
| `FacebookCampaigns_proofs!CampaignsComeInPairs`, `EditsReachBothRows` | `Spec => []CampaignsAreWhole`, `[]EditsArriveWhole` | `Whole` |
| `DefaultsAreKept` | `Spec => []DefaultIsKept` | `DefaultsSound` |
| `Housekeeping_proofs!DiscardAlertsAreComplete` | `Spec => []DiscardsAreCounted` | `DeletedAreOutdated` |
| `DiskAlertIsCurrent` | `Spec => []DiskAlertFits` | `ReportsSound` |
| `UrlAlertFits` | `Spec => []AlertFitsLastUrl` | `Longest` |

(with a `TypeCorrect` of each module.) Why the properties are not inductive as they stand:

* **LeadPipeline.** `NoSilentlyStaleRow` says that a refresh in `upsert` will
  see all postbacks; when the upsert happens, that its row *is* of that click and not
  older than what is shown is `SelectedRows`: the worker's copy was made from the
  table, and the table only grew since. Nothing but the worker writes the
  report, so no newer row can be overwritten. `PayoutIffPaidStatus` of the report
  comes from `PostbackPayout` of the table by `RowIsOneEvent`.
* **NginxPublish.** A publisher moves the link to its own version or back to what
  it remembered; `HeldLinks` says that both are written files wherever they may
  still be linked. Whose temporary link `replace` moves does not matter then.
* **ManagedDomains.** `SiteFollowsRows` excuses a hostname the HTTP thread is
  at, and a restart takes that excuse away. `SitesExplained` is the stronger
  invariant that excuses only the previous hostname of a saved request.
  It needs `RequestRow`, that the row in hand agrees with the table but for DNS marks
  (the bulk updates change nothing a site depends on), and `PassRows`, that the
  ids of a pass still exist.
  `OrdersArePaced` needs `Scheduled`: the candidates a certificate pass has
  still to order are distinct and were due when it read them, and only the order
  of a domain, or time, writes its certificate.
* **FlowRouting.** `Descending` says that all a visitor has left comes before its
  own flow in the list's order; `NeverBack` is then irreflexivity. It needs
  `AnswerSound` (the flow about to be given is one of the table, not before the
  cookie's) and `StoreSound` (an upload under way keeps the order).
* **NginxPublish, alone.** A publisher that is not crossed finds the links where
  its own last step left them: `Alone` says, for each place in the program, what is
  enabled and what the temporary link is, and that everybody else is idle. The
  start of another makes both crossed, and `Alone` has nothing to say of them any
  more. `Clean` adds, while nobody met and nothing restarted, that a rejected
  configuration is enabled only on its publisher's way back to one that is not.
* **NginxPublish as SiteSwitch.** Where the site is what an undecided publisher found,
  a restart or a crossing brings to light what is enabled: that this is the
  version it was asked for is `LinkIsItsOwn`, and that this version is none the
  hostname had before is `Numbered` (otherwise `target` would not tell a link moved
  forward from one moved back).
* **Statistics.** Every step adds rows of today to clicks and postbacks, if any, and
  leaves the others (`StepsAdd`): those are outside a closed window, so its clicks
  and the newest postback of each stay the same. `ReportAnswers` needs
  that each stored value had a click or is a stray (`SeenOrStray`), which clicks,
  never deleted, preserve, and that the parameter does not change under the rows
  (`OneParameter`); amounts that are no numbers are the other way to fail, and it
  makes no assumption that there are none.
  `TotalsAreTrue` needs `PostbacksFollow`: rows are in the order of their days, a
  postback with a status comes after a click of its id, and one that pays has a
  cost. Without the first two, a postback before the window's start could be the
  newest of a click in the period, and the window would hide it. Then the clicks
  counted under a status and the pairs of a click and its newest postback are in
  one-to-one correspondence, by their places (`LeadIsNewest`).
  `PartsMakeTheTotal` holds because each click counted is in the one leaf of its
  day and values, and a sum over a set is the sum of the sums over its classes
  (`SumByClass`). `ProfitsAddUp` uses it twice: payouts (`TotalPayouts`) and
  expenses (`EntryExpenses`) of the entries make those of the total, except that
  a value never seen has no entry, which `~Raises` excludes, and that the total
  adds float sums of the days, which together are less than a cent off
  (`TotalExpenses`). Each of the rounded profits, and the total's, is less than a
  cent below the exact one; what is left is a whole number of cents, so it is at
  least -1 and at most one an entry (`WholeCents`).
* **Sums.** The library's induction theorems over finite sets take a predicate, which the
  provers cannot instantiate. `Additions` states induction with a family of
  subsets in its place: one that has the empty set, and with each set that set and
  any one element more, has the whole set. It follows from the strict subsets of a
  finite set being well-founded (`Smallest`). The recursive function inside the
  fold is shown to exist, and then unfolded, by it (`PartialSumsExist`, `SumPick`).
* **FacebookCampaigns.** `CampaignsAreWhole` cannot be shown by itself: that the row
  to be inserted brings no second campaign for a core row needs that the core row
  of the request under way was made for it and has none (`RequestFits`).
  `EditsArriveWhole` needs in addition that the edit counter bounds every edit
  recorded (`EditsCounted`). `Whole` is all of them together. `DefaultIsKept` needs
  `Whole`, that the flow last asked for is one of its campaign, and that the
  flow being cleared is a deleted one (`DefaultsSound`).
* **Housekeeping.** `DiscardsAreCounted` follows from what is deleted being older
  than the retention, which time preserves (`DeletedAreOutdated`), and every window
  lying inside it. `DiskAlertFits` needs that the last row is the host's latest
  report, and that without rows there was none or it is outdated (`ReportsSound`).
  `AlertFitsLastUrl` follows from the types; that some URL lasts longest is
  `Longest`, from the strict subsets of a finite set being well-founded.

## 5. What is only model-checked

* Liveness: `EveryPostbackSettles`, `ResolvedEventually`, `CertifiedEventually`,
  `OutdatedRowsGo`. Fairness and ENABLED are out of the proof system's reach.

Every invariant and action property that the passing runs check is also a
theorem; `ResultIsTrue`, which SiteSwitch implies, is a theorem only.

No module uses recursive operators.

## 6. Findings

Three places where the code does something else than its tests or texts say. Each
has a run whose counterexample TLC prints.

1. `domains_issued`: `renew_ca_certificates.py:147` publishes the certificate just
   issued with `is_enabled=False`, so the site goes dark until its next publish. The
   property is about that publish alone (`CertificatePublish`), and about rows that
   ask for a live site: the run shows it turning off an enabled dashboard's. The test
   that would show it is skipped (`tests/integration/domains/test_certificate_renewal_worker.py:46`).
2. `domains_renamed`: the DNS worker's bulk update marks by id; a domain renamed
   since the lookup is TRUE under a hostname that was never looked up, and TRUE
   rows are not looked at again.
3. `flows_shown_once`: after the default flow, given for want of a match, the search
   starts after the default flow, and gives a show-once flow again. The dashboard
   says it is skipped (`apps/web/src/i18n/locales/en.json:72`).

Behaviour of the code that the models show and that is not called wrong here:

* a DNS pass publishes the campaign it read at its start, and so turns a campaign
  on again that was detached meanwhile (`diverged`); tests/integration/domains/test_nginx.py:547
  says a detached campaign goes dark, for one thread at a time;
* a renamed domain is published with the certificate of its previous hostname until
  the certificate is renewed (`site[h].tls` in ManagedDomains);
* two threads that publish one hostname at a time share the name
  `<host>.conf.tmp`: one may move the other's link into place and report success for
  a version that is not enabled, or find the link gone and raise (`crossed`, `met`);
* a publish that nginx rejects in a DNS pass is logged, and the domain is
  marked TRUE: no later pass publishes it (`diverged` in `SiteFollowsRows`);
* an order cut short leaves its certificate pending, which no query selects again
  (`abandoned` in `PendingMeansOrdering` and `CertifiedEventually`);
* candidates that do not point here are passed over without a trace, and can
  fill the LIMIT of every pass (`Crowded` in `CertifiedEventually`);
* only an active certificate is used, so a pending or failed renewal drops HTTPS
  at the next publish although the old certificate is still valid;
* `disable` of a previous hostname is not followed by a reload: the running nginx serves
  it until the next one (`running` in NginxPublish);
* a refresh lost with its queue, or taken before its click is tracked, is not
  repeated: the row stays behind until the click's next event (`dropped`).
* nginx sends a visitor with the flow cookie from `/` straight to the renderer:
  the tracker, its 24 hours, rules and show-once are not asked again;
* a Facebook creation that names a missing cabinet, executor or page leaves a core
  campaign without its other row, and an edit that does leaves its first half
  (`lost`, `half`); every edit through Facebook drops the default flow (`edited`);
* a cost of zero, like an empty name, is falsy and is not written by an update
  (`core/services.py` 150-157);
* a refused or failed submission of expenses keeps the rows before it, and a first
  one without rows fixes the distribution parameter for good;
* expenses for a value no click has had make every report of their period that
  groups by their parameter raise a KeyError (`strays`), until a click has it;
* an amount that is a text, null, a list or an object is accepted and stored
  (`fields.Dict()`, `reports/schemas.py` 33), and from then on every report of its
  day raises a TypeError when it adds up the amounts (`reports/services.py` 157, 184,
  217), until the day's expenses are submitted again (`Unadded`);
* `Decimal.from_float` keeps what a float really is, and figures are rounded down:
  expenses of 0.1 and 0.4 against payouts of 1.00 each show profits of 0.89 and 0.59,
  and a total of 1.50. The difference is a cent an entry at most (`ProfitsAddUp`);
* a reload whose answer is lost has happened: the link is put back, the publish
  reports failure, and the running nginx serves the new version until its next
  reload, since nothing reloads after the link was put back (`ReloadFails`; `Serve`
  in SiteSwitch);
* a restart or a failed statement between a visit's click and its discard leaves a
  visitor who was turned away uncounted (`TurnAway`);
* postbacks after a period and its gap are ignored by its statistics, while the
  single lead's page shows them; two clicks of one id are two leads of its newest
  postback, and pay twice;
* an access URL that ends today has expired already: it ends with the day's first
  moment; deleting another portfolio's URL deletes nothing and says nothing;
* a host that never reported its disk is not alerted about, and one that fell
  silent is no longer once the clean-up has taken its last report; the disk history
  takes the row with the highest id for the latest, the alert the newest by time;
* `list_expenses` without a period raises a TypeError when a campaign has no rows
  (not modelled).

## 7. Abstractions

Request parameters other than the mapped one, formatting, logging, validation
snapshots and the text of configurations are left out. Queries that read one
snapshot are one step, also where MariaDB could interleave inside a statement:
single statements on these tables are taken as atomic. A host
command is its outcome. One hostname (NginxPublish) and one campaign (FlowRouting)
are modelled at a time: files and flows of others are disjoint, but for the
validation, which reads all sites: a configuration rejected for another hostname is
a fault here. Landing pages are uploaded by the one HTTP thread, and the renderer is a
server of its own whose answers are passed on whatever they are.

Statistics takes money in units of which a whole number make a cent, as fine as it
takes for every amount to be a whole number of them: binary fractions are such.
Decimals are exact here, where the code's context keeps 28 digits: that moves a
figure, before it is rounded, by far less than a cent, like the noise of the floats,
and `ProfitsAddUp` counts whole cents. `quantize` raises InvalidOperation for what
would need more than 28 digits (amounts of 10^26, returns on expenses near zero),
and so do comparisons with NaN, which is not JSON; both are left out. Returns on investment are not modelled. The model
counts in days: the default gap of 30 hours is a whole number of days here, which
is the sharper case for the last hours of a day and the same everywhere else.
The API does not refuse negative amounts in a distribution (`fields.Dict()` in
`reports/schemas.py`), and the models take them; `ProfitsAddUp` is about periods
without any, since a negative expense hides its entry's profit but counts in the
total's. One campaign at a time, since every query selects by campaign. Group values that
have the name of one of the report's own keys (`expenses`, `statuses`) would
collide with them in the nested dictionaries, and are left out.

Housekeeping counts time in ticks from each row: the workers' notes use the
monotonic clock and the rows wall-clock time, which are taken to advance
together. The two statements of a visit (`Arrive`, `TurnAway`) fall in one tick, and no
other visit comes between them: one thread serves all. The alert's discard rates and severity are arithmetic on its counts and
left out. In FacebookCampaigns the ids campaigns name go up to `MaxId`, existing
or not; names, bans and terms are data no property here is about.

### Not modelled

* **Validation snapshots, diagnostics, lists and counts**: appends and reads of one
  table each; nothing acts on them.
* **auth, mcp**: one statement on one row per request, on one thread. (`mcp/protocol.py`
  tells agents to pass `session_handle`; the tool's argument is `sessionId`,
  `mcp/schemas.py` 46.)
* **cookie sealing**: encryption, and a cache of rows that never change: an absence
  read just before another thread's insert may be remembered, and the insert that then
  finds the row clears the cache and reads again.
* **migrations**: DDL is not transactional in MariaDB, and one that stops half-way
  has to be repaired by hand; they run once, before the program starts.
* **web dashboard, infra**: no server state; scripts run once on the host.
* **`.agents`, `_bmad`**: tooling for coding agents that is stored in the repository and
  never runs with the program. It is more than half of the repository's Python, so
  any share of *all* lines understates how much of the API is covered.

## 8. Plan

Done, in order of importance: LeadPipeline, ManagedDomains, NginxPublish,
FlowRouting, Expenses and Statistics, FacebookCampaigns, Housekeeping.

What would add most next:

1. ManagedDomains over SiteSwitch in place of single steps, with two threads that
   cross on one hostname;
2. the discard rates and the certificate back-off as pure functions.

Each run checks one module's questions together, so that the whole set stays
quick enough to run on every change.
