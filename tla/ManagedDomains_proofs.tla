------------------------- MODULE ManagedDomains_proofs -------------------------
(***************************************************************************)
(* Proofs about ManagedDomains, for any number of domains, hostnames and   *)
(* campaigns, and any bounds.                                              *)
(***************************************************************************)
EXTENDS ManagedDomains, SequenceTheorems, FiniteSetTheorems, TLAPS

\* The request in hand is about an existing row: the one it read, until it is
\* saved, and then the one it saved, but for what a DNS pass marks.
RequestRow ==
  http # Idle =>
    /\ http.id \in Existing
    /\ http.at = "save" => domains[http.id].host = http.previous
    /\ http.at # "save" =>
         /\ domains[http.id].host = http.row.host
         /\ Wanted(domains[http.id]) = Wanted(http.row)

\* Rows are never deleted, so the ids a pass holds keep theirs.
PassRows ==
  /\ \A i \in 1..Len(todo) : todo[i].id \in Existing
  /\ found \subseteq Existing /\ lost \subseteq Existing

\* The hostname a saved request has yet to republish or to take down.
Unfinished(h) == http # Idle /\ http.at # "save" /\ h = http.previous

\* SiteFollowsRows without the requests that have not saved anything yet, and
\* without the new hostname of one that has: a restart would expose those.
SitesExplained ==
  \A h \in Hostname :
    Live(h) => Unfinished(h) \/ h \in diverged \/ AskedFor(h)

IInv == TypeOK /\ RequestRow /\ PassRows /\ SitesExplained

\* An order that runs has its certificate row, and only it is pending.
Orders ==
  /\ step = "acme" => Current.id \in Certified
  /\ PendingMeansOrdering

-----------------------------------------------------------------------------
(* Lemmas about the operators.                                             *)

LEMMA WantedType ==
  ASSUME NEW row \in Row
  PROVE  Wanted(row) \in Campaign \cup {"dashboard", "off"}
BY DEF Wanted, Row

LEMMA RenderType ==
  ASSUME NEW row \in Row, NEW a, NEW tls \in Hostname \cup {NoHost}
  PROVE  /\ Render(row, a, tls) \in Config
         /\ Render(row, a, tls).target \in {"off", Wanted(row)}
BY WantedType DEF Render, Config, Off

\* What a row asks for does not depend on its A record.
LEMMA WantedIgnoresRecord ==
  ASSUME NEW row \in Row, NEW a \in {"unknown", "yes", "no"}
  PROVE  /\ [row EXCEPT !.aRecord = a] \in Row
         /\ [row EXCEPT !.aRecord = a].host = row.host
         /\ Wanted([row EXCEPT !.aRecord = a]) = Wanted(row)
BY DEF Row, Wanted

\* Of a row that is not stale, host and wanted target are those of the table.
LEMMA FreshRow ==
  ASSUME NEW c \in Candidate, NEW row \in Row,
         [c.row EXCEPT !.aRecord = "unknown"] = [row EXCEPT !.aRecord = "unknown"]
  PROVE  row.host = c.row.host /\ Wanted(row) = Wanted(c.row)
<1>1. c.row \in Row
  BY DEF Candidate
<1> QED BY <1>1, WantedIgnoresRecord

LEMMA ActiveTlsType ==
  ASSUME TypeOK, NEW d \in Domain
  PROVE  ActiveTls(d) \in Hostname \cup {NoHost}
BY DEF TypeOK, ActiveTls, Certified, Certificate

\* The copies a pass makes of the rows of a list of ids.
LEMMA CandidatesType ==
  ASSUME TypeOK, NEW n \in Nat, NEW ids \in [1..n -> Existing]
  PROVE  /\ Candidates(ids) \in Seq(Candidate)
         /\ \A i \in 1..Len(Candidates(ids)) : Candidates(ids)[i].id \in Existing
<1>1. \A d \in Existing : CandidateOf(d) \in Candidate
  BY ActiveTlsType DEF CandidateOf, Candidate, TypeOK, Existing
<1>2. DOMAIN ids = 1..n /\ \A i \in 1..n : ids[i] \in Existing
  OBVIOUS
<1>3. Candidates(ids) \in [1..n -> Candidate]
  BY <1>1, <1>2 DEF Candidates
<1>4. Candidates(ids) \in Seq(Candidate) /\ Len(Candidates(ids)) = n
  BY <1>3, IsASeq, LenProperties
<1>5. \A i \in 1..n : Candidates(ids)[i].id = ids[i]
  BY <1>2 DEF Candidates, CandidateOf
<1> QED BY <1>2, <1>4, <1>5

LEMMA FiniteSubset ==
  ASSUME NEW S \in SUBSET Domain
  PROVE  IsFiniteSet(S) /\ Cardinality(S) \in Nat
<1>1. MaxDomains \in Nat /\ IsFiniteSet(Domain)
  BY DomainsAssumption, FS_Interval, 1 \in Int DEF Domain
<1>2. IsFiniteSet(S)
  BY <1>1, FS_Subset
<1> QED BY <1>2, FS_CardinalityType

\* The rest of a pass is a part of it.
LEMMA NextCandidateRows ==
  ASSUME TypeOK, PassRows, todo # <<>>
  PROVE  /\ Current \in Candidate /\ Current.id \in Existing
         /\ Tail(todo) \in Seq(Candidate)
         /\ \A i \in 1..Len(Tail(todo)) : Tail(todo)[i].id \in Existing
<1>1. todo \in Seq(Candidate) /\ Len(todo) >= 1
  BY EmptySeq DEF TypeOK
<1>2. Current = todo[1] /\ Current \in Candidate
  BY <1>1 DEF Current
<1>3. Tail(todo) \in Seq(Candidate) /\ Len(Tail(todo)) = Len(todo) - 1
  BY <1>1, HeadTailProperties
<1>4. \A i \in 1..Len(Tail(todo)) : Tail(todo)[i] = todo[i + 1]
  BY <1>1, <1>3, HeadTailProperties
<1> QED BY <1>1, <1>2, <1>3, <1>4 DEF PassRows

-----------------------------------------------------------------------------
(* The actions, one group for each part of the state they write.           *)

LEMMA InitIInv == Init => IInv
<1> SUFFICES ASSUME Init PROVE IInv
  OBVIOUS
<1>1. TypeOK
  BY EmptySeq DEF Init, TypeOK
<1>2. RequestRow /\ PassRows
  BY EmptySeq DEF Init, RequestRow, PassRows
<1>3. SitesExplained
  BY DEF Init, SitesExplained, Live
<1> QED BY <1>1, <1>2, <1>3 DEF IInv

\* The HTTP thread.
LEMMA CreateStep ==
  ASSUME IInv, NEW d \in Domain, NEW row \in NewRow, Create(d, row)
  PROVE  IInv'
<1> USE DEF IInv, Create, Unused, Existing
<1>0. row \in Row /\ d \in Domain /\ domains[d] = NoDomain
  BY DEF NewRow, TypeOK
<1>1. TypeOK'
  BY <1>0 DEF TypeOK, Request, Row, Edit, pass, counters
<1>2. RequestRow'
  BY <1>0, NullsAssumption DEF RequestRow, TypeOK, Request
<1>3. PassRows'
  BY <1>0, NullsAssumption DEF PassRows, TypeOK, pass
<1>4. SitesExplained'
  <2>1. \A h \in Hostname : AskedFor(h) => AskedFor(h)'
    BY <1>0 DEF AskedFor, TypeOK
  <2> QED BY <2>1 DEF SitesExplained, Live, Unfinished
<1> QED BY <1>1, <1>2, <1>3, <1>4

LEMMA PatchLoadStep ==
  ASSUME IInv, NEW d \in Domain, NEW row \in NewRow, PatchLoad(d, row)
  PROVE  IInv'
<1> USE DEF IInv, PatchLoad
<1>0. /\ d \in Existing /\ domains[d] \in Row
      /\ Edited(domains[d], row) \in Row
  BY DEF NewRow, TypeOK, Existing, Edited, Row
<1>1. TypeOK'
  BY <1>0 DEF TypeOK, Request, Row, Edit, pass, counters, tables
<1>2. RequestRow'
  BY <1>0, NullsAssumption DEF RequestRow, TypeOK, Request, Existing, tables
<1>3. PassRows'
  BY <1>0 DEF PassRows, pass, tables, Existing
<1>4. SitesExplained'
  BY NullsAssumption DEF SitesExplained, Live, Unfinished, AskedFor, Existing, tables
<1> QED BY <1>1, <1>2, <1>3, <1>4

LEMMA PatchSaveStep ==
  ASSUME IInv, PatchSave
  PROVE  IInv'
<1> USE DEF IInv, PatchSave
<1>0. /\ http \in Request /\ http.id \in Existing /\ http.row \in Row
      /\ http' = [http EXCEPT !.at = "publish"] /\ http' \in Request
      /\ domains[http.id].host = http.previous
  BY DEF TypeOK, Request, RequestRow, Existing
<1>1. TypeOK'
  BY <1>0 DEF TypeOK, Existing, pass, counters
<1>2. RequestRow'
  BY <1>0, NullsAssumption DEF RequestRow, TypeOK, Request, Existing
<1>3. PassRows'
  BY <1>0, NullsAssumption DEF PassRows, pass, TypeOK, Existing
<1>4. SitesExplained'
  <2> SUFFICES ASSUME NEW h \in Hostname, Live(h)
               PROVE  Unfinished(h)' \/ h \in diverged \/ AskedFor(h)'
    BY DEF SitesExplained, Live
  <2>1. CASE h = http.previous
    BY <2>1, <1>0, NullsAssumption DEF Unfinished, Request
  <2>2. CASE h # http.previous
    <3>1. ~Unfinished(h)
      BY <2>2 DEF Unfinished
    <3>2. CASE AskedFor(h)
      BY <3>2, <2>2, <1>0 DEF AskedFor, TypeOK, Existing
    <3> QED BY <3>1, <3>2 DEF SitesExplained
  <2> QED BY <2>1, <2>2
<1> QED BY <1>1, <1>2, <1>3, <1>4

\* What the HTTP thread publishes is what the saved row asks for, or nothing.
LEMMA PublishStep ==
  ASSUME IInv, Publish
  PROVE  IInv'
<1> DEFINE config == Render(http.row, http.row.aRecord, ActiveTls(http.id))
<1> USE DEF IInv, Publish
<1>0. /\ http \in Request /\ http.id \in Existing /\ http.id \in Domain
      /\ http.row \in Row /\ http.row.host \in Hostname
      /\ http' \in Request \cup {Idle}
      /\ domains[http.id].host = http.row.host
      /\ Wanted(domains[http.id]) = Wanted(http.row)
  BY DEF TypeOK, Request, RequestRow, Existing, Row
<1>1. config \in Config /\ config.target \in {"off", Wanted(http.row)}
  BY <1>0, RenderType, ActiveTlsType
<1>2. site' = [site EXCEPT ![http.row.host] = config]
  BY DEF Published
<1> HIDE DEF config
<1>3. TypeOK'
  BY <1>0, <1>1, <1>2 DEF TypeOK, WithCookie, Certified, pass, counters
<1>4. RequestRow'
  BY <1>0, NullsAssumption DEF RequestRow, TypeOK, Request, Existing
<1>5. PassRows'
  BY DEF PassRows, pass, Existing
<1>6. SitesExplained'
  <2> SUFFICES ASSUME NEW h \in Hostname, Live(h)'
               PROVE  Unfinished(h)' \/ h \in diverged' \/ AskedFor(h)'
    BY DEF SitesExplained
  <2>1. CASE h = http.row.host
    <3>1. site'[h] = config
      BY <2>1, <1>2, <1>0 DEF TypeOK
    <3> QED BY <3>1, <2>1, <1>0, <1>1 DEF AskedFor, Live, Existing
  <2>2. CASE h # http.row.host
    <3>1. site'[h] = site[h] /\ (h \in diverged => h \in diverged')
      BY <2>2, <1>2, <1>0 DEF TypeOK
    <3>2. Live(h) /\ (AskedFor(h) => AskedFor(h)')
      BY <3>1 DEF Live, AskedFor, Existing
    <3>3. Unfinished(h) => Unfinished(h)'
      BY <2>2, <1>0, NullsAssumption DEF Unfinished, Request
    <3> QED BY <3>1, <3>2, <3>3 DEF SitesExplained
  <2> QED BY <2>1, <2>2
<1> QED BY <1>3, <1>4, <1>5, <1>6

LEMMA PublishFailsStep ==
  ASSUME IInv, PublishFails
  PROVE  IInv'
<1> USE DEF IInv, PublishFails
<1>0. http \in Request /\ http.row.host \in Hostname /\ http.previous \in Hostname
      /\ http.id \in Domain
  BY DEF TypeOK, Request, Row
<1>1. TypeOK'
  BY <1>0 DEF TypeOK, WithCookie, Fault, pass
<1>2. RequestRow' /\ PassRows'
  BY DEF RequestRow, PassRows, pass, Existing
<1>3. SitesExplained'
  BY DEF SitesExplained, Live, Unfinished, AskedFor, Existing
<1> QED BY <1>1, <1>2, <1>3

LEMMA DisablePreviousStep ==
  ASSUME IInv, DisablePrevious
  PROVE  IInv'
<1> USE DEF IInv, DisablePrevious
<1>0. http \in Request /\ http.previous \in Hostname
  BY DEF TypeOK, Request
<1>1. TypeOK'
  BY <1>0 DEF TypeOK, Published, pass, counters, tables
<1>2. RequestRow' /\ PassRows'
  BY DEF RequestRow, PassRows, pass, tables, Existing
<1>3. SitesExplained'
  BY <1>0 DEF SitesExplained, Live, Unfinished, AskedFor, Existing, Published,
     TypeOK, tables
<1> QED BY <1>1, <1>2, <1>3

\* Steps of the world and of the retry clock: they write no row, site or pass.
LEMMA WorldStep ==
  ASSUME IInv,
         \/ \E d \in Domain : Visit(d) \/ ExpiryNears(d) \/ RetryComesDue(d)
         \/ \E h \in Hostname : DnsMoves(h)
  PROVE  IInv'
<1> USE DEF IInv, Visit, ExpiryNears, RetryComesDue, DnsMoves
<1>1. UNCHANGED <<domains, site, http, pass, diverged>>
  BY DEF tables
<1>2. TypeOK'
  BY DEF TypeOK, pass, counters, tables, Certificate, Certified
<1>3. RequestRow' /\ PassRows' /\ SitesExplained'
  BY <1>1 DEF RequestRow, PassRows, SitesExplained, Live, Unfinished, AskedFor,
     Existing, pass
<1> QED BY <1>2, <1>3

\* A pass that is dropped leaves rows and sites as they are.
LEMMA WorkerRaisesStep ==
  ASSUME IInv, WorkerRaises
  PROVE  IInv'
<1> USE DEF IInv, WorkerRaises
<1>0. CutShort \subseteq Domain
  BY NextCandidateRows DEF CutShort, Candidate, TypeOK
<1>1. TypeOK'
  BY <1>0, EmptySeq DEF TypeOK, Fault, tables
<1>2. RequestRow' /\ PassRows' /\ SitesExplained'
  BY EmptySeq DEF RequestRow, PassRows, SitesExplained, Live, Unfinished,
     AskedFor, Existing, tables
<1> QED BY <1>1, <1>2

LEMMA RestartStep ==
  ASSUME IInv, Restart
  PROVE  IInv'
<1> USE DEF IInv, Restart
<1>0. CutShort \subseteq Domain
  BY NextCandidateRows DEF CutShort, Candidate, TypeOK
<1>1. http # Idle => http.row.host \in Hostname /\ http.previous \in Hostname
  BY DEF TypeOK, Request, Row
<1>2. TypeOK'
  BY <1>0, <1>1, EmptySeq DEF TypeOK, tables
<1>3. RequestRow' /\ PassRows'
  BY EmptySeq DEF RequestRow, PassRows
<1>4. SitesExplained'
  BY DEF SitesExplained, Live, Unfinished, AskedFor, Existing, tables
<1> QED BY <1>2, <1>3, <1>4

-----------------------------------------------------------------------------
(* The supervisor thread.                                                  *)

\* A pass starts with the rows of some existing domains.
LEMMA FetchStep ==
  ASSUME IInv, DnsFetch \/ CertificateFetch
  PROVE  IInv'
<1> USE DEF IInv
<1>0. todo' \in Seq(Candidate) /\ \A i \in 1..Len(todo') : todo'[i].id \in Existing
  <2>1. CASE DnsFetch
    <3>1. NeedRefresh \subseteq Existing /\ NeedRefresh \in SUBSET Domain
      BY DEF NeedRefresh, Existing
    <3>2. PICK ids \in [1..Cardinality(NeedRefresh) -> NeedRefresh] :
            todo' = Candidates(ids)
      BY <2>1 DEF DnsFetch, Ascending
    <3>3. ids \in [1..Cardinality(NeedRefresh) -> Existing]
      BY <3>1
    <3> QED BY <3>1, <3>2, <3>3, FiniteSubset, CandidatesType
  <2>2. CASE CertificateFetch
    <3>1. CertificateDue \subseteq Existing /\ CertificateDue \in SUBSET Domain
      BY DEF CertificateDue, Existing
    <3>2. PICK n \in Nat : \E s \in [1..n -> CertificateDue] : todo' = Candidates(s)
      BY <2>2, <3>1, FiniteSubset, DomainsAssumption DEF CertificateFetch, FirstOf
    <3>3. PICK ids \in [1..n -> CertificateDue] : todo' = Candidates(ids)
      BY <3>2
    <3>4. ids \in [1..n -> Existing]
      BY <3>1
    <3> QED BY <3>3, <3>4, CandidatesType
  <2> QED BY <2>1, <2>2
<1>1. TypeOK'
  BY <1>0 DEF TypeOK, DnsFetch, CertificateFetch, tables, counters
<1>2. RequestRow' /\ PassRows' /\ SitesExplained'
  BY <1>0 DEF DnsFetch, CertificateFetch, RequestRow, PassRows, SitesExplained,
     Live, Unfinished, AskedFor, Existing, tables
<1> QED BY <1>1, <1>2

\* The DNS pass publishes its copy of a row: that of the table, or it is marked.
LEMMA DnsResolvesStep ==
  ASSUME IInv, DnsResolves
  PROVE  IInv'
<1> DEFINE c == Current
           config == Render(c.row, "yes", c.tls)
<1> USE DEF IInv
<1>0. /\ todo # <<>> /\ c \in Candidate /\ c.id \in Existing /\ c.id \in Domain
      /\ c.row \in Row /\ c.row.host \in Hostname
      /\ todo' = Tail(todo) /\ Tail(todo) \in Seq(Candidate)
      /\ \A i \in 1..Len(Tail(todo)) : Tail(todo)[i].id \in Existing
  BY NextCandidateRows DEF DnsResolves, NextCandidate, Candidate, Row
<1>1. config \in Config /\ config.target \in {"off", Wanted(c.row)}
  BY <1>0, RenderType DEF Candidate
<1>2. TypeOK'
  BY <1>0, <1>1 DEF TypeOK, DnsResolves, WithCookie, Published, Fault
<1>3. RequestRow' /\ PassRows'
  BY <1>0 DEF DnsResolves, RequestRow, PassRows, Existing
<1>4. \A h \in Hostname : AskedFor(h) /\ site'[h] = site[h] => AskedFor(h)'
  BY DEF DnsResolves, AskedFor, Existing
<1>5. UNCHANGED <<site, diverged>> => SitesExplained'
  BY <1>4 DEF SitesExplained, Live, Unfinished, DnsResolves
<1>6. CASE /\ site' = [site EXCEPT ![c.row.host] = config]
           /\ diverged' = IF Stale(c) THEN diverged \cup {c.row.host}
                          ELSE diverged \ {c.row.host}
  <2> HIDE DEF config, c
  <2>1. \A h \in Hostname \ {c.row.host} :
          site'[h] = site[h] /\ (h \in diverged => h \in diverged')
    BY <1>6, <1>0 DEF TypeOK
  <2>2. ASSUME NEW h \in Hostname, h = c.row.host, Live(h)', ~Stale(c)
        PROVE  AskedFor(h)'
    <3>1. domains[c.id] \in Row
      BY <1>0 DEF TypeOK, Existing
    <3>2. domains[c.id].host = h /\ Wanted(domains[c.id]) = Wanted(c.row)
      BY <1>0, <2>2, <3>1, FreshRow DEF Stale
    <3>3. site'[h] = config
      BY <1>6, <1>0, <2>2 DEF TypeOK
    <3>4. UNCHANGED domains
      BY DEF DnsResolves
    <3>5. PICK d \in Existing :
            domains[d].host = h /\ Wanted(domains[d]) = site'[h].target
      BY <3>2, <3>3, <2>2, <1>0, <1>1 DEF Live
    <3> QED BY <3>4, <3>5 DEF AskedFor, Existing
  <2>3. ASSUME NEW h \in Hostname, h = c.row.host, Stale(c)
        PROVE  h \in diverged'
    BY <1>6, <2>3
  <2>4. UNCHANGED http
    BY DEF DnsResolves
  <2>5. SitesExplained'
    <3> SUFFICES ASSUME NEW h \in Hostname, Live(h)'
                 PROVE  Unfinished(h)' \/ h \in diverged' \/ AskedFor(h)'
      BY DEF SitesExplained
    <3>1. CASE h = c.row.host
      BY <3>1, <2>2, <2>3
    <3>2. CASE h # c.row.host
      BY <3>2, <1>4, <2>1, <2>4 DEF SitesExplained, Live, Unfinished
    <3> QED BY <3>1, <3>2
  <2> QED BY <1>2, <1>3, <2>5
<1> QED
  BY <1>2, <1>3, <1>5, <1>6 DEF DnsResolves, Published

\* A candidate passed over: only the list of the pass changes.
LEMMA PassedOverStep ==
  ASSUME IInv, DnsMisses \/ OrderSkips
  PROVE  IInv'
<1> USE DEF IInv, DnsMisses, OrderSkips
<1>0. /\ todo # <<>> /\ Current.id \in Existing /\ Current.id \in Domain
      /\ todo' = Tail(todo) /\ Tail(todo) \in Seq(Candidate)
      /\ \A i \in 1..Len(Tail(todo)) : Tail(todo)[i].id \in Existing
  BY NextCandidateRows DEF NextCandidate, Existing
<1>1. TypeOK'
  BY <1>0 DEF TypeOK, NoRecord, Fault, tables
<1>2. RequestRow' /\ PassRows' /\ SitesExplained'
  BY <1>0 DEF RequestRow, PassRows, SitesExplained, Live, Unfinished, AskedFor,
     Existing, tables
<1> QED BY <1>1, <1>2

\* Marking rows changes no hostname and nothing a row asks for.
LEMMA MarkStep ==
  ASSUME IInv, DnsMarkTrue \/ DnsMarkFalse
  PROVE  IInv'
<1> USE DEF IInv
<1>1. PICK ids \in SUBSET Existing, a \in {"yes", "no"} : domains' = Marked(ids, a)
  BY DEF DnsMarkTrue, DnsMarkFalse, PassRows
<1>2. /\ domains' \in [Domain -> Row \cup {NoDomain}]
      /\ Existing' = Existing
      /\ \A d \in Existing : /\ domains'[d].host = domains[d].host
                             /\ Wanted(domains'[d]) = Wanted(domains[d])
  <2>1. \A d \in Existing : domains[d] \in Row
    BY DEF TypeOK, Existing
  <2>2. \A d \in ids : /\ domains'[d] \in Row
                       /\ domains'[d].host = domains[d].host
                       /\ Wanted(domains'[d]) = Wanted(domains[d])
    BY <1>1, <2>1, WantedIgnoresRecord DEF Marked, Existing
  <2>3. \A d \in Domain \ ids : domains'[d] = domains[d]
    BY <1>1 DEF Marked
  <2>4. domains' = [d \in Domain |-> domains'[d]]
    BY <1>1 DEF Marked
  <2> QED
    BY <2>1, <2>2, <2>3, <2>4, NullsAssumption DEF Existing, TypeOK
<1>3. UNCHANGED <<certificates, cookies, site, pointsHere, http, todo, counters,
                  diverged, abandoned>>
  BY DEF DnsMarkTrue, DnsMarkFalse
<1>4. TypeOK'
  BY <1>2, <1>3 DEF TypeOK, DnsMarkTrue, DnsMarkFalse, counters
<1>5. RequestRow'
  BY <1>2, <1>3 DEF RequestRow
<1>6. PassRows'
  BY <1>2, <1>3 DEF PassRows, DnsMarkTrue, DnsMarkFalse
<1>7. SitesExplained'
  BY <1>2, <1>3 DEF SitesExplained, Live, Unfinished, AskedFor
<1> QED BY <1>4, <1>5, <1>6, <1>7

\* Steps that write only the certificate of the current candidate, or nothing.
LEMMA OrderStep ==
  ASSUME IInv, Orders,
         \/ DnsDone \/ OrdersDone \/ OrderStarts \/ AcmeSucceeds \/ AcmeFails
  PROVE  IInv'
<1> USE DEF IInv
<1>0. todo # <<>> => /\ Current \in Candidate /\ Current.id \in Domain
                     /\ Current.row.host \in Hostname
                     /\ Tail(todo) \in Seq(Candidate)
                     /\ \A i \in 1..Len(Tail(todo)) : Tail(todo)[i].id \in Existing
  BY NextCandidateRows DEF Candidate, Row
<1>1. UNCHANGED <<domains, cookies, site, pointsHere, http, found, lost, diverged,
                  abandoned>>
  BY DEF DnsDone, OrdersDone, OrderStarts, AcmeSucceeds, AcmeFails, tables
<1>2. todo' = todo \/ (todo # <<>> /\ todo' = Tail(todo))
  BY DEF DnsDone, OrdersDone, OrderStarts, AcmeSucceeds, AcmeFails, TypeOK,
     NextCandidate
<1>3. TypeOK'
  <2>1. CASE DnsDone \/ OrdersDone
    BY <2>1 DEF DnsDone, OrdersDone, TypeOK, tables, counters
  <2>2. CASE OrderStarts
    BY <1>0, <2>2 DEF OrderStarts, TypeOK, Pending, Certificate, Certified, counters
  <2>3. CASE AcmeSucceeds
    BY <1>0, <2>3 DEF AcmeSucceeds, TypeOK, Certificate, counters
  <2>4. CASE AcmeFails
    <3>0. certificates[Current.id] \in Certificate
      BY <1>0, <2>4 DEF AcmeFails, Orders, Certified, TypeOK
    <3>1. Failed(certificates[Current.id]) \in Certificate
      BY <3>0 DEF Failed, Certificate
    <3> QED BY <1>0, <2>4, <3>1 DEF AcmeFails, TypeOK, Fault, NextCandidate
  <2> QED BY <2>1, <2>2, <2>3, <2>4
<1>4. RequestRow' /\ SitesExplained'
  BY <1>1 DEF RequestRow, SitesExplained, Live, Unfinished, AskedFor, Existing
<1>5. PassRows'
  BY <1>0, <1>1, <1>2 DEF PassRows, Existing
<1> QED BY <1>3, <1>4, <1>5

\* After an order the site is Off, whatever the row says: never a wrong target.
LEMMA CertificatePublishStep ==
  ASSUME IInv, CertificatePublish
  PROVE  IInv'
<1> USE DEF IInv
<1>0. /\ todo # <<>> /\ Current \in Candidate /\ Current.row.host \in Hostname
      /\ todo' = Tail(todo) /\ Tail(todo) \in Seq(Candidate)
      /\ \A i \in 1..Len(Tail(todo)) : Tail(todo)[i].id \in Existing
  BY NextCandidateRows DEF CertificatePublish, NextCandidate, Candidate, Row, TypeOK
<1>1. site' = site \/ site' = [site EXCEPT ![Current.row.host] = Off]
  <2>1. \A tls : Render([Current.row EXCEPT !.enabled = FALSE], "yes", tls) = Off
    BY <1>0 DEF Render, Wanted, Candidate, Row
  <2> QED BY <2>1 DEF CertificatePublish, Published
<1>2. UNCHANGED <<domains, certificates, cookies, pointsHere, http, found, lost,
                  diverged, abandoned>>
  BY DEF CertificatePublish, tables
<1>3. TypeOK'
  BY <1>0, <1>1, <1>2 DEF TypeOK, CertificatePublish, Fault, Off, Config
<1>4. RequestRow' /\ PassRows'
  BY <1>0, <1>2 DEF RequestRow, PassRows, Existing
<1>5. SitesExplained'
  <2>1. \A h \in Hostname : Live(h)' => site'[h] = site[h]
    BY <1>0, <1>1 DEF Live, Off, TypeOK
  <2> QED BY <1>2, <2>1 DEF SitesExplained, Live, Unfinished, AskedFor, Existing
<1> QED BY <1>3, <1>4, <1>5

-----------------------------------------------------------------------------
LEMMA NextIInv == IInv /\ Orders /\ [Next]_vars => IInv'
<1> SUFFICES ASSUME IInv, Orders, [Next]_vars PROVE IInv'
  OBVIOUS
<1>1. CASE \E d \in Domain, row \in NewRow : Create(d, row) \/ PatchLoad(d, row)
  BY <1>1, CreateStep, PatchLoadStep
<1>2. CASE HttpStep
  BY <1>2, PatchSaveStep, PublishStep, PublishFailsStep, DisablePreviousStep
  DEF HttpStep
<1>3. CASE \/ \E d \in Domain : Visit(d) \/ ExpiryNears(d) \/ RetryComesDue(d)
           \/ \E h \in Hostname : DnsMoves(h)
  BY <1>3, WorldStep
<1>4. CASE DnsFetch \/ CertificateFetch
  BY <1>4, FetchStep
<1>5. CASE PassStep
  BY <1>5, DnsResolvesStep, PassedOverStep, MarkStep, OrderStep,
     CertificatePublishStep, WorkerRaisesStep DEF PassStep
<1>6. CASE Restart
  BY <1>6, RestartStep
<1>7. CASE UNCHANGED vars
  BY <1>7 DEF vars, tables, pass, counters, IInv, TypeOK, RequestRow, PassRows,
     SitesExplained, Live, Unfinished, AskedFor, Existing
<1> QED BY <1>1, <1>2, <1>3, <1>4, <1>5, <1>6, <1>7 DEF Next

\* Only an order that starts makes a certificate pending; it ends it or is noted.
LEMMA NextOrders == IInv /\ Orders /\ [Next]_vars => Orders'
<1> SUFFICES ASSUME IInv, Orders, [Next]_vars PROVE Orders'
  OBVIOUS
<1> USE DEF Orders, PendingMeansOrdering, Certified
<1>0. /\ certificates \in [Domain -> Certificate \cup {NoCertificate}]
      /\ step \in {"acme", "https"} => todo # <<>>
      /\ todo # <<>> => Current.id \in Domain
  BY NextCandidateRows DEF IInv, TypeOK, Candidate
<1>1. CASE UNCHANGED <<certificates, step, todo, abandoned>>
  BY <1>1 DEF Current
<1>2. CASE /\ UNCHANGED <<certificates, abandoned>>
           /\ step # "acme" /\ step' # "acme"
  BY <1>2
<1>3. CASE /\ UNCHANGED <<step, todo, abandoned>>
           /\ \E d \in Domain : ExpiryNears(d) \/ RetryComesDue(d)
  <2>1. PICK d \in Domain : ExpiryNears(d) \/ RetryComesDue(d)
    BY <1>3
  <2>2. certificates[d] \in Certificate
    BY <1>0, <2>1 DEF ExpiryNears, RetryComesDue
  <2>3. /\ certificates'[d] \in Certificate
        /\ certificates'[d].status = certificates[d].status
        /\ \A e \in Domain \ {d} : certificates'[e] = certificates[e]
    BY <1>0, <2>1, <2>2 DEF ExpiryNears, RetryComesDue, Certificate
  <2>4. /\ Certified' = Certified
        /\ \A e \in Certified : certificates'[e].status = certificates[e].status
    BY <2>2, <2>3, NullsAssumption
  <2>5. Current' = Current
    BY <1>3 DEF Current
  <2> QED BY <1>3, <2>4, <2>5
<1>4. CASE OrderStarts
  <2>1. Pending(Current.id) \in Certificate
    BY <1>0, <1>4 DEF OrderStarts, Pending, Certificate
  <2> QED BY <1>0, <1>4, <2>1, NullsAssumption DEF OrderStarts, Current
<1>5. CASE AcmeSucceeds
  <2>1. [status |-> "active", host |-> Current.row.host, expires |-> "far",
         retry |-> "none"].status # "pending"
    OBVIOUS
  <2> QED BY <1>0, <1>5, <2>1 DEF AcmeSucceeds
<1>6. CASE AcmeFails
  <2>1. certificates[Current.id] \in Certificate
    BY <1>0, <1>6 DEF AcmeFails
  <2>2. Failed(certificates[Current.id]).status # "pending"
    BY <2>1 DEF Failed, Certificate
  <2> QED BY <1>0, <1>6, <2>2 DEF AcmeFails
<1>7. CASE /\ UNCHANGED certificates /\ step' = "idle"
           /\ abandoned' = abandoned \cup CutShort
  BY <1>7 DEF CutShort
<1>8. \/ UNCHANGED <<certificates, step, todo, abandoned>>
      \/ UNCHANGED <<certificates, abandoned>> /\ step # "acme" /\ step' # "acme"
      \/ /\ UNCHANGED <<step, todo, abandoned>>
         /\ \E d \in Domain : ExpiryNears(d) \/ RetryComesDue(d)
      \/ OrderStarts \/ AcmeSucceeds \/ AcmeFails
      \/ /\ UNCHANGED certificates /\ step' = "idle"
         /\ abandoned' = abandoned \cup CutShort
  <2>1. CASE HttpStep \/ \E d \in Domain, row \in NewRow :
                           Create(d, row) \/ PatchLoad(d, row)
    BY <2>1 DEF HttpStep, Create, PatchLoad, PatchSave, Publish, PublishFails,
       DisablePrevious, tables, pass
  <2>2. CASE \/ \E d \in Domain : Visit(d) \/ ExpiryNears(d) \/ RetryComesDue(d)
             \/ \E h \in Hostname : DnsMoves(h)
    BY <2>2 DEF Visit, ExpiryNears, RetryComesDue, DnsMoves, tables, pass
  <2>3. CASE DnsFetch \/ CertificateFetch \/ PassStep
    BY <2>3 DEF DnsFetch, CertificateFetch, PassStep, DnsResolves, DnsMisses,
       DnsDone, DnsMarkTrue, DnsMarkFalse, OrderSkips, CertificatePublish,
       OrdersDone, WorkerRaises, tables
  <2>4. CASE Restart \/ UNCHANGED vars
    BY <2>4 DEF Restart, vars, tables, pass
  <2> QED BY <2>1, <2>2, <2>3, <2>4 DEF Next
<1> QED BY <1>1, <1>2, <1>3, <1>4, <1>5, <1>6, <1>7, <1>8

LEMMA Invariant == Spec => [](IInv /\ Orders)
<1>1. Init => Orders
  BY DEF Init, Orders, PendingMeansOrdering, Certified
<1> QED BY <1>1, InitIInv, NextIInv, NextOrders, PTL DEF Spec

\* Every variable keeps its type.
THEOREM TypeCorrect == Spec => []TypeOK
<1>1. IInv => TypeOK
  BY DEF IInv
<1> QED BY <1>1, Invariant, PTL

\* A hostname serves only what an enabled row of it asks for, except while a
\* request is between its row and its site, and after a publish that failed, was
\* cut short or used a row edited since (DomainService.update, the two workers).
THEOREM SitesFollowRows == Spec => []SiteFollowsRows
<1>1. IInv => SiteFollowsRows
  BY DEF IInv, SitesExplained, SiteFollowsRows, Unfinished, Publishing
<1> QED BY <1>1, Invariant, PTL

\* A certificate is pending only while its order runs, or because a restart or an
\* exception cut the order short (renew_ca_certificates_worker).
THEOREM PendingIsOrdering == Spec => []PendingMeansOrdering
<1>1. Orders => PendingMeansOrdering
  BY DEF Orders
<1> QED BY <1>1, Invariant, PTL

-----------------------------------------------------------------------------
(* What an order may do: its files and its times.                          *)

\* The candidates of a certificate pass are distinct, and those whose order has
\* not started yet may be ordered: no other order of the pass concerns them.
MayOrder(d) ==
  d \in Certified =>
    \/ certificates[d].status = "failed" /\ certificates[d].retry # "later"
    \/ certificates[d].status # "failed" /\ certificates[d].expires # "far"

Scheduled ==
  step \in {"order", "acme", "https"} =>
    /\ \A i, j \in 1..Len(todo) : i < j => todo[i].id # todo[j].id
    /\ \A i \in 1..Len(todo) : step = "order" \/ i > 1 => MayOrder(todo[i].id)

\* Which steps write a certificate, or move a certificate pass on.
LEMMA WhoOrders ==
  ASSUME TypeOK, [Next]_vars
  PROVE  \/ UNCHANGED <<certificates, step, todo>>
         \/ UNCHANGED certificates /\ step' \notin {"order", "acme", "https"}
         \/ /\ UNCHANGED <<step, todo>>
            /\ \E d \in Domain : ExpiryNears(d) \/ RetryComesDue(d)
         \/ CertificateFetch \/ OrderStarts \/ AcmeSucceeds \/ AcmeFails
         \/ /\ UNCHANGED certificates /\ step \in {"order", "https"}
            /\ step' = "order" /\ todo # <<>> /\ todo' = Tail(todo)
         \/ UNCHANGED <<certificates, step>> /\ step \notin {"order", "acme", "https"}
<1>1. CASE HttpStep \/ \E d \in Domain, row \in NewRow :
                         Create(d, row) \/ PatchLoad(d, row)
  BY <1>1 DEF HttpStep, Create, PatchLoad, PatchSave, Publish, PublishFails,
     DisablePrevious, tables, pass
<1>2. CASE \/ \E d \in Domain : Visit(d) \/ ExpiryNears(d) \/ RetryComesDue(d)
           \/ \E h \in Hostname : DnsMoves(h)
  BY <1>2 DEF Visit, ExpiryNears, RetryComesDue, DnsMoves, tables, pass
<1>3. CASE DnsFetch \/ DnsResolves \/ DnsMisses \/ DnsDone \/ DnsMarkTrue
           \/ DnsMarkFalse
  BY <1>3 DEF DnsFetch, DnsResolves, DnsMisses, DnsDone, DnsMarkTrue,
     DnsMarkFalse, tables
<1>4. CASE OrderSkips \/ OrdersDone \/ WorkerRaises
  BY <1>4 DEF OrderSkips, OrdersDone, WorkerRaises, NextCandidate, tables
<1>5. CASE CertificatePublish
  BY <1>5 DEF CertificatePublish, NextCandidate, tables, TypeOK
<1>6. CASE Restart \/ UNCHANGED vars
  BY <1>6 DEF Restart, vars, tables, pass
<1> QED BY <1>1, <1>2, <1>3, <1>4, <1>5, <1>6 DEF Next, PassStep

\* A certificate that is not touched may be ordered as before.
LEMMA SameMayOrder ==
  ASSUME NEW d \in Domain, MayOrder(d), certificates'[d] = certificates[d]
  PROVE  MayOrder(d)'
BY DEF MayOrder, Certified

\* The list of a pass after its head: the rest, one place earlier.
LEMMA TailPlaces ==
  ASSUME TypeOK, todo # <<>>
  PROVE  /\ Len(todo) \in Nat /\ Len(todo) >= 1 /\ Current = todo[1]
         /\ Len(Tail(todo)) = Len(todo) - 1
         /\ \A i \in 1..Len(Tail(todo)) : Tail(todo)[i] = todo[i + 1]
         /\ \A i \in 1..Len(todo) : todo[i].id \in Domain
<1>1. todo \in Seq(Candidate) /\ Len(todo) \in Nat /\ Len(todo) >= 1
  BY EmptySeq, LenProperties DEF TypeOK
<1>2. \A i \in 1..Len(todo) : todo[i] \in Candidate
  BY <1>1
<1>3. /\ Len(Tail(todo)) = Len(todo) - 1
      /\ \A i \in 1..Len(Tail(todo)) : Tail(todo)[i] = todo[i + 1]
  BY <1>1, HeadTailProperties
<1>4. Current = todo[1]
  BY <1>1 DEF Current
<1> QED BY <1>1, <1>2, <1>3, <1>4 DEF Candidate

\* Moving on: the head is dropped, and only its certificate may have changed.
LEMMA MovingOn ==
  ASSUME TypeOK, Scheduled, step \in {"order", "acme", "https"}, todo # <<>>,
         todo' = Tail(todo),
         \A d \in Domain \ {Current.id} : certificates'[d] = certificates[d]
  PROVE  Scheduled'
<1>1. \A i, j \in 1..Len(todo') : i < j => todo'[i].id # todo'[j].id
  <2>1. \A i \in 1..Len(todo') : i + 1 \in 1..Len(todo) /\ todo'[i] = todo[i + 1]
    BY TailPlaces
  <2>2. \A i, j \in 1..Len(todo') : i < j => i + 1 < j + 1
    OBVIOUS
  <2> QED BY <2>1, <2>2 DEF Scheduled
<1>2. ASSUME NEW i \in 1..Len(todo')
      PROVE  MayOrder(todo[i].id)'
  <2>1. /\ i + 1 \in 1..Len(todo) /\ i + 1 > 1 /\ 1 \in 1..Len(todo)
        /\ todo'[i] = todo[i + 1]
    BY TailPlaces
  <2>2. MayOrder(todo[i + 1].id) /\ todo[i + 1].id \in Domain \ {Current.id}
    BY <2>1, TailPlaces DEF Scheduled
  <2>3. PICK d \in Domain \ {Current.id} : d = todo[i + 1].id
    BY <2>2
  <2>4. MayOrder(d)'
    BY <2>2, <2>3, SameMayOrder
  <2> QED BY <2>1, <2>3, <2>4
<1> QED BY <1>1, <1>2 DEF Scheduled

\* An order of the head is under way: only its certificate changes.
LEMMA HeadOrdered ==
  ASSUME TypeOK, Scheduled, step \in {"order", "acme", "https"}, todo # <<>>,
         UNCHANGED todo, step' \in {"acme", "https"},
         \A d \in Domain \ {Current.id} : certificates'[d] = certificates[d]
  PROVE  Scheduled'
<1>1. ASSUME NEW i \in 1..Len(todo), i > 1
      PROVE  MayOrder(todo[i].id)'
  <2>1. MayOrder(todo[i].id) /\ 1 \in 1..Len(todo)
    BY <1>1, TailPlaces DEF Scheduled
  <2>2. todo[i].id \in Domain \ {Current.id}
    BY <1>1, <2>1, TailPlaces DEF Scheduled
  <2>3. PICK d \in Domain \ {Current.id} : d = todo[i].id
    BY <2>2
  <2>4. MayOrder(d)'
    BY <2>1, <2>3, SameMayOrder
  <2> QED BY <2>3, <2>4
<1> QED BY <1>1 DEF Scheduled

LEMMA InitScheduled == Init => Scheduled
BY DEF Init, Scheduled

\* The candidates a pass starts with are distinct, and due.
LEMMA FetchScheduled ==
  ASSUME TypeOK, CertificateFetch
  PROVE  Scheduled'
<1>1. CertificateDue \in SUBSET Domain
  BY DEF CertificateDue, Existing
<1>2. PICK n \in Nat :
        \E s \in [1..n -> CertificateDue] :
          /\ todo' = Candidates(s)
          /\ \A i, j \in 1..n : i < j => s[i] # s[j]
  BY <1>1, FiniteSubset, DomainsAssumption DEF CertificateFetch, FirstOf
<1>3. PICK s \in [1..n -> CertificateDue] :
        /\ todo' = Candidates(s)
        /\ \A i, j \in 1..n : i < j => s[i] # s[j]
  BY <1>2
<1>4. s \in [1..n -> Existing]
  BY <1>3 DEF CertificateDue
<1>5. /\ Len(todo') = n
      /\ \A i \in 1..n : todo'[i].id = s[i]
  <2>1. todo' = [i \in 1..n |-> CandidateOf(s[i])]
    BY <1>3 DEF Candidates
  <2> QED BY <2>1 DEF CandidateOf
<1>6. \A d \in CertificateDue : MayOrder(d)
  BY DEF CertificateDue, MayOrder, RenewalDue, RetryDue
<1>7. ASSUME NEW i \in 1..n
      PROVE  MayOrder(todo[i].id)'
  <2>1. s[i] \in Domain /\ MayOrder(s[i])
    BY <1>1, <1>3, <1>6
  <2>2. UNCHANGED certificates
    BY DEF CertificateFetch, tables
  <2>3. PICK d \in Domain : d = s[i]
    BY <2>1
  <2>4. MayOrder(d)'
    BY <2>1, <2>2, <2>3, SameMayOrder
  <2> QED BY <2>3, <2>4, <1>5
<1> QED BY <1>3, <1>5, <1>7 DEF Scheduled

LEMMA NextScheduled == TypeOK /\ Orders /\ Scheduled /\ [Next]_vars => Scheduled'
<1> SUFFICES ASSUME TypeOK, Orders, Scheduled, [Next]_vars PROVE Scheduled'
  OBVIOUS
<1>1. CASE UNCHANGED <<certificates, step, todo>>
  BY <1>1 DEF Scheduled, MayOrder, Certified
<1>2. CASE step' \notin {"order", "acme", "https"}
  BY <1>2 DEF Scheduled
<1>3. CASE /\ UNCHANGED <<step, todo>>
           /\ \E d \in Domain : ExpiryNears(d) \/ RetryComesDue(d)
  <2>1. PICK d \in Domain : ExpiryNears(d) \/ RetryComesDue(d)
    BY <1>3
  <2>2. certificates[d] \in Certificate /\ d \in Certified
    BY <2>1 DEF ExpiryNears, RetryComesDue, TypeOK, Certified
  <2>3. \/ certificates' = [certificates EXCEPT ![d].expires = "near"]
        \/ certificates' = [certificates EXCEPT ![d].retry = "due"]
    BY <2>1 DEF ExpiryNears, RetryComesDue
  <2>4. MayOrder(d) => MayOrder(d)'
    BY <2>2, <2>3 DEF MayOrder, Certificate, TypeOK
  <2>5. \A e \in Domain : MayOrder(e) => MayOrder(e)'
    BY <2>3, <2>4, SameMayOrder DEF TypeOK
  <2>6. \A i \in 1..Len(todo) : todo[i].id \in Domain
    <3>1. todo \in Seq(Candidate)
      BY DEF TypeOK
    <3>2. \A i \in 1..Len(todo) : todo[i] \in Candidate
      BY <3>1
    <3> QED BY <3>2 DEF Candidate
  <2> QED BY <1>3, <2>5, <2>6 DEF Scheduled
<1>4. CASE OrderStarts \/ AcmeSucceeds
  <2>1. /\ step \in {"order", "acme"} /\ todo # <<>> /\ UNCHANGED todo
        /\ step' \in {"acme", "https"}
    BY <1>4 DEF OrderStarts, AcmeSucceeds, TypeOK
  <2>2. \A d \in Domain \ {Current.id} : certificates'[d] = certificates[d]
    BY <1>4 DEF OrderStarts, AcmeSucceeds, TypeOK
  <2> QED BY <2>1, <2>2, HeadOrdered
<1>5. CASE AcmeFails
  BY <1>5, MovingOn DEF AcmeFails, NextCandidate, TypeOK
<1>6. CASE /\ UNCHANGED certificates /\ step \in {"order", "https"}
           /\ todo # <<>> /\ todo' = Tail(todo)
  BY <1>6, MovingOn
<1>7. CASE UNCHANGED <<certificates, step>> /\ step \notin {"order", "acme", "https"}
  BY <1>7 DEF Scheduled
<1> QED
  BY <1>1, <1>2, <1>3, <1>4, <1>5, <1>6, <1>7, FetchScheduled, WhoOrders

\* A renewal that fails, is cut short or is started over keeps the files of the
\* certificate in use on record (CertificateService.update_status).
THEOREM FilesStay == Spec => FilesNeverForgotten
<1>1. IInv /\ Orders /\ [Next]_vars => \A d \in Domain : HasFiles(d) => HasFiles(d)'
  <2> SUFFICES ASSUME IInv, Orders, [Next]_vars, NEW d \in Domain, HasFiles(d)
               PROVE  HasFiles(d)'
    OBVIOUS
  <2>0. /\ TypeOK /\ certificates[d] \in Certificate /\ certificates[d].host # NoHost
        /\ todo # <<>> => /\ Current.id \in Domain
                          /\ Current.row.host \in Hostname
    BY NextCandidateRows DEF IInv, HasFiles, Certified, TypeOK, Candidate, Row
  <2>1. CASE certificates'[d] = certificates[d]
    BY <2>1 DEF HasFiles, Certified
  <2>2. ASSUME NEW c \in Certificate, certificates'[d] = c, c.host # NoHost
        PROVE  HasFiles(d)'
    BY <2>2, NullsAssumption DEF HasFiles, Certified
  <2>3. ASSUME NEW e \in Domain, ExpiryNears(e) \/ RetryComesDue(e)
        PROVE  HasFiles(d)'
    <3>1. \/ certificates'[d] = certificates[d]
          \/ certificates'[d] = [certificates[d] EXCEPT !.expires = "near"]
          \/ certificates'[d] = [certificates[d] EXCEPT !.retry = "due"]
      BY <2>0, <2>3 DEF ExpiryNears, RetryComesDue, TypeOK
    <3>2. /\ [certificates[d] EXCEPT !.expires = "near"] \in Certificate
          /\ [certificates[d] EXCEPT !.expires = "near"].host = certificates[d].host
          /\ [certificates[d] EXCEPT !.retry = "due"] \in Certificate
          /\ [certificates[d] EXCEPT !.retry = "due"].host = certificates[d].host
      BY <2>0 DEF Certificate
    <3> QED BY <2>0, <2>1, <2>2, <3>1, <3>2
  <2>4. CASE OrderStarts
    <3>1. \/ certificates'[d] = certificates[d]
          \/ certificates'[d] = [certificates[d] EXCEPT !.status = "pending"]
      BY <2>0, <2>4 DEF OrderStarts, Pending, HasFiles, TypeOK
    <3>2. /\ [certificates[d] EXCEPT !.status = "pending"] \in Certificate
          /\ [certificates[d] EXCEPT !.status = "pending"].host = certificates[d].host
      BY <2>0 DEF Certificate
    <3> QED BY <2>0, <2>1, <2>2, <3>1, <3>2
  <2>5. CASE AcmeSucceeds
    <3> DEFINE issued == [status |-> "active", host |-> Current.row.host,
                          expires |-> "far", retry |-> "none"]
    <3>1. todo # <<>> /\ issued \in Certificate /\ issued.host # NoHost
      BY <2>0, <2>5, DomainsAssumption DEF AcmeSucceeds, TypeOK, Certificate
    <3>2. certificates'[d] = certificates[d] \/ certificates'[d] = issued
      BY <2>0, <2>5 DEF AcmeSucceeds, TypeOK
    <3> QED BY <2>1, <2>2, <3>1, <3>2
  <2>6. CASE AcmeFails
    <3>1. certificates'[d] = certificates[d] \/ certificates'[d] = Failed(certificates[d])
      BY <2>0, <2>6 DEF AcmeFails, TypeOK
    <3>2. /\ Failed(certificates[d]) \in Certificate
          /\ Failed(certificates[d]).host = certificates[d].host
      BY <2>0 DEF Failed, Certificate
    <3> QED BY <2>0, <2>1, <2>2, <3>1, <3>2
  <2>7. CASE CertificateFetch
    BY <2>1, <2>7 DEF CertificateFetch, tables
  <2> QED BY <2>0, <2>1, <2>3, <2>4, <2>5, <2>6, <2>7, WhoOrders
<1> QED BY <1>1, Invariant, PTL DEF Spec, FilesNeverForgotten

\* No order goes to the CA before its retry time, nor for a certificate that is
\* not near its expiry, whatever the other orders of the pass did meanwhile
\* (renew_ca_certificates_worker).
THEOREM OrdersPaced == Spec => OrdersArePaced
<1> DEFINE Paced ==
      step' = "acme" /\ step # "acme" =>
        LET d == Current.id IN
        d \in Certified =>
          \/ certificates[d].status = "failed" /\ certificates[d].retry # "later"
          \/ certificates[d].status # "failed" /\ certificates[d].expires # "far"
<1>1. TypeOK /\ Scheduled /\ [Next]_vars => Paced
  <2> SUFFICES ASSUME TypeOK, Scheduled, [Next]_vars, step' = "acme", step # "acme"
               PROVE  MayOrder(Current.id)
    BY DEF MayOrder
  <2>1. OrderStarts
    BY WhoOrders DEF ExpiryNears, RetryComesDue, CertificateFetch, AcmeSucceeds,
       AcmeFails
  <2>2. step = "order" /\ todo # <<>>
    BY <2>1 DEF OrderStarts
  <2> QED BY <2>2, TailPlaces DEF Scheduled
<1>2. IInv => TypeOK
  BY DEF IInv
<1>3. Spec => []Scheduled
  BY <1>2, Invariant, InitScheduled, NextScheduled, PTL DEF Spec
<1>4. [][Paced]_vars <=> OrdersArePaced
  BY DEF OrdersArePaced
<1> HIDE DEF Paced
<1> QED BY <1>1, <1>2, <1>3, <1>4, Invariant, PTL DEF Spec
=============================================================================
