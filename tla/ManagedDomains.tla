---------------------------- MODULE ManagedDomains ----------------------------
(***************************************************************************)
(* Managed domains: table domain, its certificates, the nginx site of each *)
(* hostname, and the three programs that write them.                       *)
(*                                                                         *)
(* The HTTP thread (domains/services.py, DomainService) creates and edits  *)
(* rows and publishes them.  The supervisor thread runs two workers in     *)
(* turn: refresh_domain_dns_worker and renew_ca_certificates_worker; each  *)
(* reads its rows once, at the start of a pass, and works from that copy.  *)
(* Nothing locks the rows between the threads.  A publish is one step here *)
(* (NginxPublish opens it up); its steps before and after are not.         *)
(*                                                                         *)
(* Time is abstract: a certificate's expiry is "far" until it enters the   *)
(* renewal window, and a retry is "later" until it is "due".               *)
(***************************************************************************)
EXTENDS Naturals, Sequences, FiniteSets

CONSTANTS
  MaxDomains,     \* the rows of table domain are 1..MaxDomains
  Hostname, Campaign,
  MaxCandidates,  \* CERTIFICATE_RENEWAL_MAX_CANDIDATES
  NoDomain, NoCertificate, NoSite, NoCampaign, NoHost, Idle,
  MaxEdits, MaxMoves, MaxRenewals, MaxFaults, MaxRestarts  \* model bounds

ASSUME DomainsAssumption ==
  /\ MaxDomains \in Nat /\ MaxCandidates \in Nat \ {0}
  /\ MaxEdits \in Nat /\ MaxMoves \in Nat /\ MaxRenewals \in Nat
  /\ MaxFaults \in Nat /\ MaxRestarts \in Nat
  /\ NoCampaign \notin Campaign /\ NoHost \notin Hostname

Domain == 1..MaxDomains

\* aRecord is is_a_record_set: NULL, TRUE or FALSE.
Row == [host : Hostname, purpose : {"campaign", "dashboard"},
        campaign : Campaign \cup {NoCampaign},
        aRecord : {"unknown", "yes", "no"}, enabled : BOOLEAN]

\* host is the hostname whose files certificate_path and private_key_path name;
\* retry is next_retry_at.
Certificate == [status : {"pending", "active", "failed", "expired"},
                host : Hostname \cup {NoHost},
                expires : {"none", "far", "near"},
                retry : {"none", "later", "due"}]

\* A site: what it serves, and the hostname of the certificate it presents.
Config == [target : Campaign \cup {"dashboard", "off"},
           tls : Hostname \cup {NoHost}]
Off == [target |-> "off", tls |-> NoHost]

\* What a pass of a worker read of a domain.
Candidate == [id : Domain, row : Row, tls : Hostname \cup {NoHost}]

Request == [at : {"save", "publish", "disable"}, id : Domain, row : Row,
            previous : Hostname]

ASSUME NullsAssumption ==
  /\ NoDomain \notin Row /\ NoCertificate \notin Certificate
  /\ NoSite \notin Config /\ Idle \notin Request

VARIABLES
  domains,       \* table domain
  certificates,  \* table domain_certificate, by domain
  cookies,       \* the domains with a flow_id row in domain_cookie
  site,          \* sites-enabled: Hostname -> Config or NoSite
  pointsHere,    \* the hostnames whose A record is this host
  http,          \* HTTP thread: Idle, or the write it is in the middle of
  step,          \* supervisor thread: where the pass is
  todo,          \* ... the candidates it has still to look at
  found, lost,   \* ... ids it will mark as having, not having, an A record
  edits, moves, renewals, faults, restarts,  \* how often each happened
  diverged,      \* history: hosts last written by a publish that failed, was
                 \* cut short, or used a row that had changed since
  abandoned      \* history: domains whose certificate order was cut short

tables == <<domains, certificates, cookies>>
pass == <<step, todo, found, lost>>
counters == <<edits, moves, renewals, faults, restarts>>
vars == <<tables, site, pointsHere, http, pass, counters, diverged, abandoned>>

Existing == {d \in Domain : domains[d] # NoDomain}
Certified == {d \in Domain : certificates[d] # NoCertificate}

TypeOK ==
  /\ domains \in [Domain -> Row \cup {NoDomain}]
  /\ certificates \in [Domain -> Certificate \cup {NoCertificate}]
  /\ cookies \subseteq Domain
  /\ site \in [Hostname -> Config \cup {NoSite}]
  /\ pointsHere \subseteq Hostname
  /\ http \in Request \cup {Idle}
  /\ step \in {"idle", "dns", "markTrue", "markFalse", "order", "acme", "https"}
  /\ todo \in Seq(Candidate)
  /\ found \subseteq Domain /\ lost \subseteq Domain
  /\ edits \in Nat /\ moves \in Nat /\ renewals \in Nat
  /\ faults \in Nat /\ restarts \in Nat
  /\ diverged \subseteq Hostname
  /\ abandoned \subseteq Domain
  /\ step \in {"acme", "https"} => todo # <<>>

Init ==
  /\ domains = [d \in Domain |-> NoDomain]
  /\ certificates = [d \in Domain |-> NoCertificate]
  /\ cookies = {}
  /\ site = [h \in Hostname |-> NoSite]
  /\ pointsHere \in SUBSET Hostname
  /\ http = Idle
  /\ step = "idle" /\ todo = <<>> /\ found = {} /\ lost = {}
  /\ edits = 0 /\ moves = 0 /\ renewals = 0 /\ faults = 0 /\ restarts = 0
  /\ diverged = {} /\ abandoned = {}

-----------------------------------------------------------------------------
(* Rendering and publishing.                                               *)

\* What the owner of a row asked its hostname to serve.
Wanted(row) ==
  IF ~row.enabled \/ (row.purpose = "campaign" /\ row.campaign = NoCampaign)
  THEN "off"
  ELSE IF row.purpose = "dashboard" THEN "dashboard" ELSE row.campaign

\* Mutant: a disabled row is rendered like an enabled one.
RenderIgnoringEnabled(row, aRecord, tls) ==
  IF aRecord = "no" \/ Wanted([row EXCEPT !.enabled = TRUE]) = "off" THEN Off
  ELSE [target |-> Wanted([row EXCEPT !.enabled = TRUE]), tls |-> tls]

\* _render_domain_config.
Render(row, aRecord, tls) ==
  IF aRecord = "no" \/ Wanted(row) = "off" THEN Off
  ELSE [target |-> Wanted(row), tls |-> tls]

\* The certificate _publish_domain and the DNS pass use: an active one.
ActiveTls(d) ==
  IF d \in Certified /\ certificates[d].status = "active"
  THEN certificates[d].host ELSE NoHost

\* The flow_id cookie is made before a campaign is first published.
WithCookie(d, row) ==
  IF row.purpose = "campaign" /\ row.campaign # NoCampaign
  THEN cookies \cup {d} ELSE cookies

Published(h, config) == site' = [site EXCEPT ![h] = config]

-----------------------------------------------------------------------------
(* The HTTP thread.                                                        *)

Taken(d, h) == \E e \in Existing \ {d} : domains[e].host = h
Bound(d, k) == \E e \in Existing \ {d} : domains[e].campaign = k

\* The refusals of create and update: 409 and 400 answers.
Acceptable(d, row) ==
  /\ ~Taken(d, row.host)
  /\ row.campaign # NoCampaign =>
       row.purpose = "campaign" /\ ~Bound(d, row.campaign)

Edit == edits < MaxEdits /\ edits' = edits + 1

Unused == Domain \ Existing

\* The row gets the next primary key.
Create(d, row) ==
  /\ http = Idle
  /\ d \in Unused /\ \A e \in Unused : d <= e
  /\ row.aRecord = "unknown"
  /\ Acceptable(d, row)
  /\ Edit
  /\ domains' = [domains EXCEPT ![d] = row]
  /\ http' = [at |-> "publish", id |-> d, row |-> row, previous |-> row.host]
  /\ UNCHANGED <<certificates, cookies, site, pointsHere, pass, moves,
                 renewals, faults, restarts, diverged, abandoned>>

\* The row after a PATCH: a new hostname has to be looked up again.
Edited(old, new) ==
  [new EXCEPT !.aRecord = IF new.host = old.host THEN old.aRecord ELSE "unknown"]

\* PATCH reads the row; an absent campaign id detaches the campaign.
PatchLoad(d, row) ==
  /\ http = Idle
  /\ d \in Existing
  /\ Acceptable(d, row)
  /\ Edit
  /\ http' = [at |-> "save", id |-> d, row |-> Edited(domains[d], row),
              previous |-> domains[d].host]
  /\ UNCHANGED <<tables, site, pointsHere, pass, moves, renewals, faults,
                 restarts, diverged, abandoned>>

\* save() writes every column, those the thread did not change included.
PatchSave ==
  /\ http # Idle /\ http.at = "save"
  /\ domains' = [domains EXCEPT ![http.id] = http.row]
  /\ http' = [http EXCEPT !.at = "publish"]
  /\ UNCHANGED <<certificates, cookies, site, pointsHere, pass, counters,
                 diverged, abandoned>>

Publish ==
  /\ http # Idle /\ http.at = "publish"
  /\ Published(http.row.host,
               Render(http.row, http.row.aRecord, ActiveTls(http.id)))
  /\ cookies' = WithCookie(http.id, http.row)
  /\ http' = IF http.previous # http.row.host
             THEN [http EXCEPT !.at = "disable"] ELSE Idle
  /\ diverged' = diverged \ {http.row.host}
  /\ UNCHANGED <<domains, certificates, pointsHere, pass, counters, abandoned>>

Fault == faults < MaxFaults /\ faults' = faults + 1

\* nginx rejects the configuration: the row stays saved, the old link is put
\* back, and the link of a previous hostname is kept.
PublishFails ==
  /\ http # Idle /\ http.at = "publish"
  /\ Fault
  /\ cookies' = WithCookie(http.id, http.row)
  /\ http' = Idle
  /\ diverged' = diverged \cup {http.row.host, http.previous}
  /\ UNCHANGED <<domains, certificates, site, pointsHere, pass, edits, moves,
                 renewals, restarts, abandoned>>

\* Mutant: the link of the previous hostname is left.
KeepPrevious ==
  /\ http # Idle /\ http.at = "disable"
  /\ http' = Idle
  /\ diverged' = diverged \ {http.previous}
  /\ UNCHANGED <<tables, site, pointsHere, pass, counters, abandoned>>

\* The link of the hostname the domain had before is removed.
DisablePrevious ==
  /\ http # Idle /\ http.at = "disable"
  /\ Published(http.previous, NoSite)
  /\ http' = Idle
  /\ diverged' = diverged \ {http.previous}
  /\ UNCHANGED <<tables, pointsHere, pass, counters, abandoned>>

\* A visit (tracker/routes.py, Process) makes the cookie row of its domain.
Visit(d) ==
  /\ http = Idle
  /\ d \in Existing \ cookies
  /\ Wanted(domains[d]) \in Campaign
  /\ cookies' = cookies \cup {d}
  /\ UNCHANGED <<domains, certificates, site, pointsHere, http, pass, counters,
                 diverged, abandoned>>

-----------------------------------------------------------------------------
(* The supervisor thread: refresh_domain_dns_worker.                       *)

\* ORDER BY id: the one ascending sequence of the ids.
Ascending(ids) ==
  {s \in [1..Cardinality(ids) -> ids] :
     \A i, j \in 1..Cardinality(ids) : i < j => s[i] < s[j]}

CandidateOf(d) == [id |-> d, row |-> domains[d], tls |-> ActiveTls(d)]
Candidates(ids) == [i \in DOMAIN ids |-> CandidateOf(ids[i])]

\* Mutant: only the domains never looked up are selected.
NeverLookedUp == {d \in Existing : domains[d].aRecord = "unknown"}

NeedRefresh == {d \in Existing : domains[d].aRecord # "yes"}

DnsFetch ==
  /\ step = "idle"
  /\ \E ids \in Ascending(NeedRefresh) : todo' = Candidates(ids)
  /\ step' = "dns" /\ found' = {} /\ lost' = {}
  /\ UNCHANGED <<tables, site, pointsHere, http, counters, diverged, abandoned>>

Current == Head(todo)
NextCandidate == todo' = Tail(todo)

\* A lookup that fails counts as no record.
NoRecord(h) ==
  \/ h \notin pointsHere /\ UNCHANGED faults
  \/ h \in pointsHere /\ Fault

\* The row the pass holds differs from the row the table holds.
Stale(c) == [c.row EXCEPT !.aRecord = "unknown"]
              # [domains[c.id] EXCEPT !.aRecord = "unknown"]

\* The site is published from the pass's copy of the row; a publish nginx
\* rejects is logged, and the domain is marked all the same.
DnsResolves ==
  /\ step = "dns" /\ todo # <<>>
  /\ Current.row.host \in pointsHere
  /\ cookies' = WithCookie(Current.id, Current.row)
  /\ \/ /\ Published(Current.row.host, Render(Current.row, "yes", Current.tls))
        /\ diverged' = IF Stale(Current)
                       THEN diverged \cup {Current.row.host}
                       ELSE diverged \ {Current.row.host}
        /\ UNCHANGED faults
     \/ Fault /\ UNCHANGED <<site, diverged>>
  /\ found' = found \cup {Current.id}
  /\ NextCandidate
  /\ UNCHANGED <<domains, certificates, pointsHere, http, step, lost, edits,
                 moves, renewals, restarts, abandoned>>

\* No record: nothing is published, a row already marked so is left alone.
DnsMisses ==
  /\ step = "dns" /\ todo # <<>>
  /\ NoRecord(Current.row.host)
  /\ lost' = IF Current.row.aRecord = "unknown"
             THEN lost \cup {Current.id} ELSE lost
  /\ NextCandidate
  /\ UNCHANGED <<tables, site, pointsHere, http, step, found, edits, moves,
                 renewals, restarts, diverged, abandoned>>

DnsDone ==
  /\ step = "dns" /\ todo = <<>>
  /\ step' = "markTrue"
  /\ UNCHANGED <<tables, site, pointsHere, http, todo, found, lost, counters,
                 diverged, abandoned>>

Marked(ids, a) == [d \in Domain |->
  IF d \in ids THEN [domains[d] EXCEPT !.aRecord = a] ELSE domains[d]]

\* UPDATE domain SET is_a_record_set = TRUE WHERE id IN (...): by id, whatever
\* hostname the row has by now.
DnsMarkTrue ==
  /\ step = "markTrue"
  /\ domains' = Marked(found, "yes")
  /\ step' = "markFalse"
  /\ UNCHANGED <<certificates, cookies, site, pointsHere, http, todo, found,
                 lost, counters, diverged, abandoned>>

DnsMarkFalse ==
  /\ step = "markFalse"
  /\ domains' = Marked(lost, "no")
  /\ step' = "idle" /\ found' = {} /\ lost' = {}
  /\ UNCHANGED <<certificates, cookies, site, pointsHere, http, todo, counters,
                 diverged, abandoned>>

-----------------------------------------------------------------------------
(* The supervisor thread: renew_ca_certificates_worker.                    *)

RenewalDue(d) ==
  /\ d \in Certified
  /\ certificates[d].status \in {"active", "expired"}
  /\ certificates[d].expires # "far"

\* Mutants: a failed order is retried only if it has no retry time; always.
RetryNever(d) ==
  /\ d \in Certified /\ certificates[d].status = "failed"
  /\ certificates[d].retry = "none"
RetryAtOnce(d) == d \in Certified /\ certificates[d].status = "failed"

RetryDue(d) ==
  /\ d \in Certified /\ certificates[d].status = "failed"
  /\ certificates[d].retry # "later"

CertificateDue ==
  {d \in Existing : domains[d].enabled
                    /\ (d \notin Certified \/ RenewalDue(d) \/ RetryDue(d))}

Rank(d) == IF RenewalDue(d) THEN 0 ELSE IF RetryDue(d) THEN 1 ELSE 2

\* ORDER BY rank, expires_at, id.  NULL sorts first; two dates of one class may
\* be in either order.
Before(d, e) ==
  LET expiry(f) == IF f \in Certified THEN certificates[f].expires ELSE "none"
  IN \/ Rank(d) < Rank(e)
     \/ Rank(d) = Rank(e) /\ expiry(d) = "none" /\ expiry(e) # "none"
     \/ Rank(d) = Rank(e) /\ expiry(d) = "near" /\ expiry(e) = "far"
     \/ /\ Rank(d) = Rank(e) /\ expiry(d) = "none" /\ expiry(e) = "none"
        /\ d < e

\* The first rows of that order, as many as the LIMIT allows.
FirstOf(due) ==
  LET n == IF Cardinality(due) < MaxCandidates THEN Cardinality(due)
           ELSE MaxCandidates
  IN {s \in [1..n -> due] :
        \A i \in 1..n :
          /\ \A j \in 1..n : i < j => s[i] # s[j] /\ ~Before(s[j], s[i])
          /\ \A d \in due \ {s[j] : j \in 1..n} : ~Before(d, s[i])}

CertificateFetch ==
  /\ step = "idle"
  /\ \E ids \in FirstOf(CertificateDue) : todo' = Candidates(ids)
  /\ step' = "order"
  /\ UNCHANGED <<tables, site, pointsHere, http, found, lost, counters,
                 diverged, abandoned>>

\* A domain without an A record is passed over, and nothing is recorded of it.
OrderSkips ==
  /\ step = "order" /\ todo # <<>>
  /\ NoRecord(Current.row.host)
  /\ NextCandidate
  /\ UNCHANGED <<tables, site, pointsHere, http, step, found, lost, edits,
                 moves, renewals, restarts, diverged, abandoned>>

Pending(d) ==
  IF d \in Certified THEN [certificates[d] EXCEPT !.status = "pending"]
  ELSE [status |-> "pending", host |-> NoHost, expires |-> "none",
        retry |-> "none"]

\* Marked pending before the ACME client runs on the host.
OrderStarts ==
  /\ step = "order" /\ todo # <<>>
  /\ Current.row.host \in pointsHere
  /\ certificates' = [certificates EXCEPT ![Current.id] = Pending(Current.id)]
  /\ step' = "acme"
  /\ UNCHANGED <<domains, cookies, site, pointsHere, http, todo, found, lost,
                 counters, diverged, abandoned>>

\* Mutant: the candidate is dropped before its site is published.
AcmeSucceedsMovingOn ==
  /\ step = "acme"
  /\ certificates' = [certificates EXCEPT ![Current.id] =
       [status |-> "active", host |-> Current.row.host, expires |-> "far",
        retry |-> "none"]]
  /\ step' = "https"
  /\ NextCandidate
  /\ UNCHANGED <<domains, cookies, site, pointsHere, http, found, lost,
                 counters, diverged, abandoned>>

AcmeSucceeds ==
  /\ step = "acme"
  /\ certificates' = [certificates EXCEPT ![Current.id] =
       [status |-> "active", host |-> Current.row.host, expires |-> "far",
        retry |-> "none"]]
  /\ step' = "https"
  /\ UNCHANGED <<domains, cookies, site, pointsHere, http, todo, found, lost,
                 counters, diverged, abandoned>>

\* Mutants: a failed renewal forgets the certificate it was to replace; a
\* failed order only records its retry time.
FailedForgettingFiles(c) ==
  [c EXCEPT !.status = "failed", !.retry = "later", !.host = NoHost]
FailedStillPending(c) == [c EXCEPT !.retry = "later"]

\* The files of an earlier certificate stay on record.
Failed(c) == [c EXCEPT !.status = "failed", !.retry = "later"]

AcmeFails ==
  /\ step = "acme"
  /\ Fault
  /\ certificates' =
       [certificates EXCEPT ![Current.id] = Failed(certificates[Current.id])]
  /\ step' = "order"
  /\ NextCandidate
  /\ UNCHANGED <<domains, cookies, site, pointsHere, http, found, lost, edits,
                 moves, renewals, restarts, diverged, abandoned>>

\* _publish_https_config publishes with is_enabled=False; a campaign without a
\* flow cookie is passed over.
CertificatePublish ==
  /\ step = "https"
  /\ IF Current.row.purpose = "campaign" /\ Current.id \notin cookies
     THEN UNCHANGED <<site, faults>>
     ELSE \/ /\ Published(Current.row.host,
                  Render([Current.row EXCEPT !.enabled = FALSE], "yes",
                         certificates[Current.id].host))
             /\ UNCHANGED faults
          \/ Fault /\ UNCHANGED site
  /\ step' = "order"
  /\ NextCandidate
  /\ UNCHANGED <<tables, pointsHere, http, found, lost, edits, moves, renewals,
                 restarts, diverged, abandoned>>

OrdersDone ==
  /\ step = "order" /\ todo = <<>>
  /\ step' = "idle"
  /\ UNCHANGED <<tables, site, pointsHere, http, todo, found, lost, counters,
                 diverged, abandoned>>

-----------------------------------------------------------------------------
(* Faults and the world.                                                   *)

CutShort == IF step = "acme" THEN {Current.id} ELSE {}

\* A worker raises: the supervisor logs it and drops the pass.
WorkerRaises ==
  /\ step # "idle"
  /\ Fault
  /\ step' = "idle" /\ todo' = <<>> /\ found' = {} /\ lost' = {}
  /\ abandoned' = abandoned \cup CutShort
  /\ UNCHANGED <<tables, site, pointsHere, http, edits, moves, renewals,
                 restarts, diverged>>

\* The container restarts between two steps of either thread.
Restart ==
  /\ restarts < MaxRestarts
  /\ restarts' = restarts + 1
  /\ http' = Idle
  /\ step' = "idle" /\ todo' = <<>> /\ found' = {} /\ lost' = {}
  /\ diverged' = IF http # Idle /\ http.at # "save"
                 THEN diverged \cup {http.row.host, http.previous} ELSE diverged
  /\ abandoned' = abandoned \cup CutShort
  /\ UNCHANGED <<tables, site, pointsHere, edits, moves, renewals, faults>>

\* The owner of a hostname points its A record here, or elsewhere.
DnsMoves(h) ==
  /\ moves < MaxMoves
  /\ moves' = moves + 1
  /\ pointsHere' = IF h \in pointsHere THEN pointsHere \ {h} ELSE pointsHere \cup {h}
  /\ UNCHANGED <<tables, site, http, pass, edits, renewals, faults, restarts,
                 diverged, abandoned>>

\* A certificate comes within 30 days of its expiry.
ExpiryNears(d) ==
  /\ d \in Certified /\ certificates[d].expires = "far"
  /\ renewals < MaxRenewals
  /\ renewals' = renewals + 1
  /\ certificates' = [certificates EXCEPT ![d].expires = "near"]
  /\ UNCHANGED <<domains, cookies, site, pointsHere, http, pass, edits, moves,
                 faults, restarts, diverged, abandoned>>

RetryComesDue(d) ==
  /\ d \in Certified /\ certificates[d].retry = "later"
  /\ certificates' = [certificates EXCEPT ![d].retry = "due"]
  /\ UNCHANGED <<domains, cookies, site, pointsHere, http, pass, counters,
                 diverged, abandoned>>

HttpStep == PatchSave \/ Publish \/ PublishFails \/ DisablePrevious

PassStep ==
  \/ DnsResolves \/ DnsMisses \/ DnsDone \/ DnsMarkTrue \/ DnsMarkFalse
  \/ OrderSkips \/ OrderStarts \/ AcmeSucceeds \/ AcmeFails
  \/ CertificatePublish \/ OrdersDone
  \/ WorkerRaises

NewRow == {row \in Row : row.aRecord = "unknown"}

Next ==
  \/ \E d \in Domain, row \in NewRow : Create(d, row) \/ PatchLoad(d, row)
  \/ HttpStep
  \/ \E d \in Domain : Visit(d) \/ ExpiryNears(d) \/ RetryComesDue(d)
  \/ DnsFetch \/ CertificateFetch \/ PassStep
  \/ \E h \in Hostname : DnsMoves(h)
  \/ Restart

\* A request is carried through; the supervisor's loop calls both workers again
\* and again, each pass runs to its end; a retry time comes.
Fairness ==
  /\ WF_vars(HttpStep) /\ WF_vars(PassStep)
  /\ SF_vars(DnsFetch) /\ SF_vars(CertificateFetch)
  /\ \A d \in Domain : WF_vars(RetryComesDue(d))

Spec == Init /\ [][Next]_vars
FairSpec == Spec /\ Fairness

-----------------------------------------------------------------------------
(* Safety.                                                                 *)

\* The HTTP thread is between the row and the sites of h.
Publishing(h) == http # Idle /\ h \in {http.row.host, http.previous}

\* The enabled row of h asks for what its site serves.
AskedFor(h) ==
  \E d \in Existing :
    domains[d].host = h /\ Wanted(domains[d]) = site[h].target

Live(h) == site[h] # NoSite /\ site[h].target # "off"

\* A hostname serves a campaign or the dashboard only while an enabled row asks
\* for just that: renames, detached campaigns, disabled rows and both workers
\* leave no other site behind, except a publish that failed, one a restart cut
\* short, and a DNS pass that published a row edited since it was read.
SiteFollowsRows ==
  \A h \in Hostname :
    Live(h) => Publishing(h) \/ h \in diverged \/ AskedFor(h)

\* A certificate is "pending" only while its order runs, or for good after the
\* order was cut short: nothing selects a pending certificate again
\* (workers/renew_ca_certificates.py, _fetch_certificate_candidates).
PendingMeansOrdering ==
  \A d \in Certified :
    certificates[d].status = "pending" =>
      (step = "acme" /\ Current.id = d) \/ d \in abandoned

HasFiles(d) == d \in Certified /\ certificates[d].host # NoHost

\* What CertificateService.update_status writes on the way of a renewal, failed,
\* cut short or started over, never loses the files of the certificate in use.
FilesNeverForgotten ==
  [][\A d \in Domain : HasFiles(d) => HasFiles(d)']_vars

\* No order goes to the CA before the retry time of the failed one, nor for a
\* certificate that is not near its expiry, although the time is checked at the
\* start of a pass and the order comes steps, and other orders, later.
OrdersArePaced ==
  [][step' = "acme" /\ step # "acme" =>
       LET d == Current.id IN
       d \in Certified =>
         \/ certificates[d].status = "failed" /\ certificates[d].retry # "later"
         \/ certificates[d].status # "failed" /\ certificates[d].expires # "far"]_vars

\* is_a_record_set is TRUE only of a hostname that was looked up with that
\* result: here, of one that still points to this host.
TrueMeansPointsHere ==
  \A d \in Existing :
    domains[d].aRecord = "yes" => domains[d].host \in pointsHere

\* The publish that ends an order leaves the hostname of a row that asks for a
\* live site with one: the certificate just issued is there to be used.
IssuedIsPublished ==
  [][CertificatePublish /\ site' # site /\ Wanted(Current.row) # "off"
       => site'[Current.row.host].target # "off"]_vars

-----------------------------------------------------------------------------
(* Liveness.                                                               *)

Points(d) == d \in Existing /\ domains[d].host \in pointsHere

\* A domain whose hostname keeps pointing here is marked so in the end: lookups
\* that fail, passes that raise and edits in between only delay it.
ResolvedEventually ==
  \A d \in Domain : <>[]Points(d) => <>[](Points(d) /\ domains[d].aRecord = "yes")

\* Domains that are due, and passed over in every pass, fill the LIMIT.
Crowded(d) ==
  Cardinality({e \in CertificateDue \ {d} : ~Points(e)}) >= MaxCandidates

\* An enabled domain that keeps pointing here gets its certificate in the end,
\* unless an order of it was cut short, which leaves it pending for good, or as
\* many domains that do not point here as a pass looks at keep being due: they
\* are passed over without a trace, and may come first in every pass.
CertifiedEventually ==
  \A d \in Domain :
    <>[](Points(d) /\ domains[d].enabled) =>
      \/ <>(d \in abandoned \/ (d \in Certified /\ certificates[d].status = "active"))
      \/ []<>Crowded(d)
=============================================================================
