-------------------------- MODULE NginxPublish_proofs --------------------------
(***************************************************************************)
(* Proofs about NginxPublish, for any set of publishers and any bounds.    *)
(***************************************************************************)
EXTENDS NginxPublish, TLAPS

Moving == {"look", "unlink", "symlink", "replace"}

\* What each publisher holds: the link it remembers is to a written file, and so
\* is the one it is about to make, from the moment its own file is written.
HeldLinks ==
  \A p \in Publisher :
    /\ previous[p] \in written \cup {None}
    /\ at[p] = "write" => target[p] = mine[p] /\ mine[p] # None
    /\ at[p] \in Moving => target[p] \in written /\ target[p] # None

IInv == TypeOK /\ LinkNeverDangles /\ HeldLinks

LEMMA InitIInv == Init => IInv
BY BoundsAssumption DEF Init, IInv, TypeOK, LinkNeverDangles, HeldLinks, Moving,
  Idle, Steps, None, Version

\* One publisher's step keeps the invariant, whatever the others are doing.
LEMMA StepIInv ==
  ASSUME NEW p \in Publisher, IInv, Step(p)
  PROVE  IInv'
<1> USE BoundsAssumption DEF IInv, TypeOK, LinkNeverDangles, HeldLinks, Moving,
      Idle, Steps, None, Version, Goes, Begins, Fault, disk, overlap
<1>1. CASE Start(p)
  BY <1>1 DEF Start
<1>2. CASE Write(p)
  BY <1>2 DEF Write
<1>3. CASE Look(p)
  BY <1>3 DEF Look
<1>4. CASE Unlink(p)
  BY <1>4 DEF Unlink
<1>5. CASE Symlink(p)
  BY <1>5 DEF Symlink
<1>6. CASE Replace(p)
  BY <1>6 DEF Replace
<1>7. CASE Validate(p)
  BY <1>7 DEF Validate
<1>8. CASE ValidateFails(p)
  BY <1>8 DEF ValidateFails
<1>9. CASE Reload(p)
  BY <1>9 DEF Reload
<1>10. CASE ReloadFails(p)
  BY <1>10 DEF ReloadFails
<1>11. CASE Restore(p)
  BY <1>11 DEF Restore
<1>12. CASE Remove(p)
  BY <1>12 DEF Remove
<1>13. CASE Disable(p)
  BY <1>13 DEF Disable
<1>14. CASE UnlinkEnabled(p)
  BY <1>14 DEF UnlinkEnabled
<1> QED
  BY <1>1, <1>2, <1>3, <1>4, <1>5, <1>6, <1>7, <1>8, <1>9, <1>10, <1>11, <1>12,
     <1>13, <1>14 DEF Step

LEMMA NextIInv == IInv /\ [Next]_vars => IInv'
<1> SUFFICES ASSUME IInv, [Next]_vars PROVE IInv'
  OBVIOUS
<1>1. CASE \E p \in Publisher : Step(p)
  BY <1>1, StepIInv
<1>2. CASE Restart
  BY <1>2 DEF Restart, IInv, TypeOK, LinkNeverDangles, HeldLinks, Moving, Idle,
     Steps, None, disk, overlap
<1>3. CASE UNCHANGED vars
  BY <1>3 DEF vars, disk, local, overlap, IInv, TypeOK, LinkNeverDangles, HeldLinks
<1> QED
  BY <1>1, <1>2, <1>3 DEF Next

LEMMA Invariant == Spec => []IInv
BY InitIInv, NextIInv, PTL DEF Spec

-----------------------------------------------------------------------------
\* A publisher that has the hostname for itself: what it checked still holds at
\* its next call, and what it moved is what is enabled.
AloneAt(p) ==
  /\ \A q \in Publisher \ {p} : at[q] \in Idle
  /\ at[p] = "unlink" => temporary # None
  /\ at[p] = "symlink" => temporary = None
  /\ at[p] = "replace" => temporary = target[p]
  /\ at[p] \in {"validate", "reload", "restore"} => enabled = mine[p]
  /\ at[p] \in {"remove", "unlinkEnabled"} => enabled # None
  /\ at[p] = "remove" => previous[p] = None
  /\ at[p] \in Moving /\ target[p] # mine[p] => target[p] = previous[p]

Alone == \A p \in Publisher \ crossed : at[p] \notin Idle => AloneAt(p)

LEMMA InitAlone == Init => Alone
BY DEF Init, Alone, Idle

LEMMA StepAlone ==
  ASSUME NEW p \in Publisher, IInv, Alone, Step(p)
  PROVE  Alone'
<1> USE DEF IInv, TypeOK, HeldLinks, Alone, AloneAt, Moving, Idle, Steps, None,
      Goes, Begins, Fault, disk, overlap
<1>1. CASE Start(p)
  BY <1>1 DEF Start
<1>2. CASE Write(p)
  BY <1>2 DEF Write
<1>3. CASE Look(p)
  BY <1>3 DEF Look
<1>4. CASE Unlink(p)
  BY <1>4 DEF Unlink
<1>5. CASE Symlink(p)
  BY <1>5 DEF Symlink
<1>6. CASE Replace(p)
  BY <1>6 DEF Replace
<1>7. CASE Validate(p)
  BY <1>7 DEF Validate
<1>8. CASE ValidateFails(p)
  BY <1>8 DEF ValidateFails
<1>9. CASE Reload(p)
  BY <1>9 DEF Reload
<1>10. CASE ReloadFails(p)
  BY <1>10 DEF ReloadFails
<1>11. CASE Restore(p)
  BY <1>11 DEF Restore
<1>12. CASE Remove(p)
  BY <1>12 DEF Remove
<1>13. CASE Disable(p)
  BY <1>13 DEF Disable
<1>14. CASE UnlinkEnabled(p)
  BY <1>14 DEF UnlinkEnabled
<1> QED
  BY <1>1, <1>2, <1>3, <1>4, <1>5, <1>6, <1>7, <1>8, <1>9, <1>10, <1>11, <1>12,
     <1>13, <1>14 DEF Step

LEMMA NextAlone == IInv /\ Alone /\ [Next]_vars => Alone'
<1> SUFFICES ASSUME IInv, Alone, [Next]_vars PROVE Alone'
  OBVIOUS
<1>1. CASE \E p \in Publisher : Step(p)
  BY <1>1, StepAlone
<1>2. CASE Restart
  BY <1>2 DEF Restart, Alone, Idle
<1>3. CASE UNCHANGED vars
  BY <1>3 DEF vars, disk, local, overlap, Alone, AloneAt
<1> QED
  BY <1>1, <1>2, <1>3 DEF Next

LEMMA AloneInvariant == Spec => [](IInv /\ Alone)
BY InitIInv, NextIInv, InitAlone, NextAlone, PTL DEF Spec

-----------------------------------------------------------------------------
\* As long as no two publishers ever met and nothing restarted, a rejected
\* configuration is enabled only while its own publisher is still on its way
\* back to a link that is not rejected.
Unwinding(p) ==
  \/ at[p] \in {"validate", "restore", "remove"}
  \/ at[p] \in Moving /\ target[p] # mine[p]

Clean ==
  met = {} /\ restarts = 0 =>
    /\ crossed = {}
    /\ enabled \in rejected => \E p \in Publisher : Unwinding(p)
    /\ \A p \in Publisher : at[p] \notin Idle \cup {"unlinkEnabled"} =>
         previous[p] \notin rejected

LEMMA InitClean == Init => Clean
BY BoundsAssumption DEF Init, Clean, None, Version, Idle

\* With nobody met, one publisher at most is not idle.
LEMMA OneAtATime ==
  ASSUME Alone, crossed = {}, NEW p \in Publisher, NEW q \in Publisher, at[p] \notin Idle,
         at[q] \notin Idle
  PROVE  p = q
BY DEF Alone, AloneAt

LEMMA StepClean ==
  ASSUME NEW p \in Publisher, IInv, Alone, Clean, Step(p)
  PROVE  Clean'
<1> USE BoundsAssumption DEF IInv, TypeOK, HeldLinks, Alone, AloneAt, Clean, Unwinding, Moving, Idle,
      Steps, None, Version, Goes, Begins, Fault, disk, overlap
<1>1. CASE Start(p)
  BY <1>1 DEF Start
<1>2. CASE Write(p)
  BY <1>2 DEF Write
<1>3. CASE Look(p)
  BY <1>3 DEF Look
<1>4. CASE Unlink(p)
  BY <1>4 DEF Unlink
<1>5. CASE Symlink(p)
  BY <1>5 DEF Symlink
<1>6. CASE Replace(p)
  BY <1>6 DEF Replace
<1>7. CASE Validate(p)
  BY <1>7 DEF Validate
<1>8. CASE ValidateFails(p)
  BY <1>8 DEF ValidateFails
<1>9. CASE Reload(p)
  BY <1>9 DEF Reload
<1>10. CASE ReloadFails(p)
  BY <1>10 DEF ReloadFails
<1>11. CASE Restore(p)
  BY <1>11 DEF Restore
<1>12. CASE Remove(p)
  BY <1>12 DEF Remove
<1>13. CASE Disable(p)
  BY <1>13 DEF Disable
<1>14. CASE UnlinkEnabled(p)
  BY <1>14 DEF UnlinkEnabled
<1> QED
  BY <1>1, <1>2, <1>3, <1>4, <1>5, <1>6, <1>7, <1>8, <1>9, <1>10, <1>11, <1>12,
     <1>13, <1>14 DEF Step

LEMMA NextClean == IInv /\ Alone /\ Clean /\ [Next]_vars => Clean'
<1> SUFFICES ASSUME IInv, Alone, Clean, [Next]_vars PROVE Clean'
  OBVIOUS
<1>1. CASE \E p \in Publisher : Step(p)
  BY <1>1, StepClean
<1>2. CASE Restart
  BY <1>2 DEF Restart, Clean, IInv, TypeOK
<1>3. CASE UNCHANGED vars
  BY <1>3 DEF vars, disk, local, overlap, Clean, Unwinding
<1> QED
  BY <1>1, <1>2, <1>3 DEF Next

LEMMA CleanInvariant == Spec => [](IInv /\ Alone /\ Clean)
BY InitIInv, NextIInv, InitAlone, NextAlone, InitClean, NextClean, PTL DEF Spec

-----------------------------------------------------------------------------
\* Every variable keeps its type.
THEOREM TypeCorrect == Spec => []TypeOK
<1>1. IInv => TypeOK
  BY DEF IInv
<1> QED BY <1>1, Invariant, PTL

\* What is enabled, or about to be, is a complete file: with any number of
\* publishers sharing the temporary link, and restarts at any point
\* (NginxService._activate_version and _restore_previous_active).
THEOREM LinksNeverDangle == Spec => []LinkNeverDangles
<1>1. IInv => LinkNeverDangles
  BY DEF IInv
<1> QED BY <1>1, Invariant, PTL

\* A publisher that had the hostname for itself does not raise: every check that
\* precedes a file system call still holds at the call.
THEOREM NothingRaisesAlone == Spec => []NothingRaises
<1>1. Init => NothingRaises
  BY DEF Init, NothingRaises
<1>2. IInv /\ Alone /\ NothingRaises /\ [Next]_vars => NothingRaises'
  <2> SUFFICES ASSUME IInv, Alone, NothingRaises, [Next]_vars PROVE NothingRaises'
    OBVIOUS
  <2>1. ASSUME NEW p \in Publisher, Step(p) PROVE NothingRaises'
    <3> USE DEF NothingRaises, Alone, AloneAt, IInv, TypeOK, Idle, Steps, Moving, None,
          Goes, Begins, Fault, disk, overlap
    <3>1. CASE Start(p)
      BY <3>1 DEF Start
    <3>2. CASE Unlink(p)
      BY <3>2 DEF Unlink
    <3>3. CASE Symlink(p)
      BY <3>3 DEF Symlink
    <3>4. CASE Replace(p)
      BY <3>4, <2>1 DEF Replace, HeldLinks
    <3>5. CASE Remove(p)
      BY <3>5 DEF Remove
    <3>6. CASE Disable(p)
      BY <3>6 DEF Disable
    <3>7. CASE UnlinkEnabled(p)
      BY <3>7 DEF UnlinkEnabled
    <3>8. CASE Write(p) \/ Look(p) \/ Validate(p) \/ ValidateFails(p)
      BY <3>8 DEF Write, Look, Validate, ValidateFails
    <3>9. CASE Reload(p) \/ ReloadFails(p) \/ Restore(p)
      BY <3>9 DEF Reload, ReloadFails, Restore
    <3> QED
      BY <2>1, <3>1, <3>2, <3>3, <3>4, <3>5, <3>6, <3>7, <3>8, <3>9 DEF Step
  <2>2. CASE Restart
    BY <2>2 DEF Restart, NothingRaises
  <2>3. CASE UNCHANGED vars
    BY <2>3 DEF vars, local, overlap, NothingRaises
  <2> QED BY <2>1, <2>2, <2>3 DEF Next
<1> QED BY <1>1, <1>2, AloneInvariant, PTL DEF Spec

\* The result of such a publish is true: after a success its version is enabled
\* and running, after a failure the link it found is back.
THEOREM ResultsAreTrue == Spec => ResultIsTrue
<1> DEFINE True == \A p \in Publisher \ crossed : at'[p] # at[p] =>
       /\ at'[p] = "success" => enabled' = mine[p] /\ running' = mine[p]
       /\ at'[p] = "failed" => enabled' = previous[p]
<1>1. IInv /\ Alone /\ [Next]_vars => [True]_vars
  <2> SUFFICES ASSUME IInv, Alone, Next PROVE True
    OBVIOUS
  <2>1. ASSUME NEW q \in Publisher, Step(q) PROVE True
    BY <2>1 DEF Step, Start, Write, Look, Unlink, Symlink, Replace, Validate,
       ValidateFails, Reload, ReloadFails, Restore, Remove, Disable, UnlinkEnabled,
       Goes, Begins, Fault, disk, overlap, Alone, AloneAt, IInv, TypeOK, Idle, Steps,
       Moving, None
  <2>2. CASE Restart
    BY <2>2 DEF Restart, IInv, TypeOK
  <2> QED BY <2>1, <2>2 DEF Next
<1> QED BY <1>1, AloneInvariant, PTL DEF Spec, ResultIsTrue

\* While no two publishers have met and nothing has restarted, no rejected
\* configuration is left enabled: every failed publish has gone back to a link
\* that validated (NginxService.publish, _restore_previous_active).
THEOREM RejectedDoesNotStay == Spec => []NothingRejectedStays
<1>1. IInv /\ Clean => NothingRejectedStays
  BY DEF IInv, TypeOK, Clean, Unwinding, NothingRejectedStays, Idle, Moving
<1> QED BY <1>1, CleanInvariant, PTL
-----------------------------------------------------------------------------
(* That the steps implement SiteSwitch.                                     *)

Publishing(p) == at[p] \notin Idle \cup {"unlinkEnabled"}

\* A publish has a version that nothing had before it.
Numbered ==
  /\ written \subseteq 1..versions /\ running \in 0..versions
  /\ \A p \in Publisher :
       /\ mine[p] <= versions
       /\ Publishing(p) => mine[p] # None /\ previous[p] # mine[p]

\* A publisher that has the hostname for itself has enabled its own version if it
\* is undecided, and has not moved the link otherwise.
LinkIsItsOwn ==
  \A p \in Publisher \ crossed :
    Publishing(p) => enabled = IF p \in Undecided THEN mine[p] ELSE previous[p]

LEMMA InitNumbered == Init => Numbered /\ LinkIsItsOwn
BY BoundsAssumption DEF Init, Numbered, LinkIsItsOwn, Publishing, Idle, None, Version

LEMMA NumbersBounded ==
  ASSUME IInv, Numbered
  PROVE  /\ enabled \in 0..versions
         /\ \A p \in Publisher :
              /\ previous[p] \in 0..versions
              /\ at[p] = "write" => mine[p] \in 1..versions
<1> USE DEF IInv
<1>1. enabled \in 0..versions
  BY DEF TypeOK, LinkNeverDangles, Numbered, None
<1>2. ASSUME NEW p \in Publisher
      PROVE  previous[p] \in 0..versions /\ (at[p] = "write" => mine[p] \in 1..versions)
  <2>1. previous[p] \in written \cup {None} /\ written \subseteq 1..versions
        /\ versions \in Nat
    BY DEF TypeOK, HeldLinks, Numbered, None
  <2>2. previous[p] = None => previous[p] \in 0..versions
    BY <2>1 DEF None
  <2>3. previous[p] \in written => previous[p] \in 0..versions
    <3>1. \A x \in 1..versions : x \in 0..versions
      BY <2>1
    <3> QED BY <2>1, <3>1
  <2>4. at[p] = "write" => mine[p] \in 1..versions
    BY <2>1, BoundsAssumption DEF TypeOK, HeldLinks, Numbered, None, Version
  <2> QED BY <2>1, <2>2, <2>3, <2>4
<1> QED BY <1>1, <1>2

LEMMA StepNumbered ==
  ASSUME NEW p \in Publisher, IInv, Numbered, Step(p)
  PROVE  Numbered'
<1> USE DEF IInv, TypeOK
<1>1. CASE Start(p)
  BY <1>1, NumbersBounded, BoundsAssumption
  DEF Start, Numbered, Publishing, Idle, Version, None, Goes, disk
<1>2. CASE Write(p)
  BY <1>2, NumbersBounded DEF Write, Numbered, Publishing, Idle, Goes
\* The other steps number nothing.
<1> DEFINE Frame == /\ versions' = versions /\ written' = written /\ mine' = mine
                    /\ previous' = previous /\ running' \in {running, enabled}
                    /\ \A r \in Publisher : Publishing(r)' => Publishing(r)
<1>3. CASE Look(p) \/ Unlink(p) \/ Symlink(p) \/ Replace(p)
  <2>1. Frame
    BY <1>3 DEF Look, Unlink, Symlink, Replace, Publishing, Idle, Goes, disk
  <2> QED BY <2>1, NumbersBounded DEF Numbered
<1>4. CASE Validate(p) \/ ValidateFails(p) \/ Reload(p) \/ ReloadFails(p)
  <2>1. Frame
    BY <1>4 DEF Validate, ValidateFails, Reload, ReloadFails, Publishing, Idle, Goes, disk
  <2> QED BY <2>1, NumbersBounded DEF Numbered
<1>5. CASE Restore(p) \/ Remove(p) \/ Disable(p) \/ UnlinkEnabled(p)
  <2>1. Frame
    BY <1>5 DEF Restore, Remove, Disable, UnlinkEnabled, Publishing, Idle, Goes, disk
  <2> QED BY <2>1, NumbersBounded DEF Numbered
<1> QED
  BY <1>1, <1>2, <1>3, <1>4, <1>5 DEF Step

LEMMA StepLinkIsItsOwn ==
  ASSUME NEW p \in Publisher, IInv, Alone, Numbered, LinkIsItsOwn, Step(p)
  PROVE  LinkIsItsOwn'
<1> USE DEF IInv, TypeOK, HeldLinks, Alone, AloneAt, Numbered, LinkIsItsOwn, Publishing,
      Undecided, Moving, Idle, Steps, None, Version, Goes, Begins, Fault, disk, overlap
<1>1. CASE Start(p)
  BY <1>1 DEF Start
<1>2. CASE Write(p)
  BY <1>2 DEF Write
<1>3. CASE Look(p)
  BY <1>3 DEF Look
<1>4. CASE Unlink(p)
  BY <1>4 DEF Unlink
<1>5. CASE Symlink(p)
  BY <1>5 DEF Symlink
<1>6. CASE Replace(p)
  BY <1>6 DEF Replace
<1>7. CASE Validate(p) \/ ValidateFails(p)
  BY <1>7 DEF Validate, ValidateFails
<1>8. CASE Reload(p) \/ ReloadFails(p)
  BY <1>8 DEF Reload, ReloadFails
<1>9. CASE Restore(p)
  BY <1>9 DEF Restore
<1>10. CASE Remove(p)
  BY <1>10 DEF Remove
<1>11. CASE Disable(p)
  BY <1>11 DEF Disable
<1>12. CASE UnlinkEnabled(p)
  BY <1>12 DEF UnlinkEnabled
<1> QED
  BY <1>1, <1>2, <1>3, <1>4, <1>5, <1>6, <1>7, <1>8, <1>9, <1>10, <1>11, <1>12 DEF Step

SwitchInv == IInv /\ Alone /\ Numbered /\ LinkIsItsOwn

LEMMA NextSwitchInv == SwitchInv /\ [Next]_vars => SwitchInv'
<1> SUFFICES ASSUME SwitchInv, [Next]_vars PROVE Numbered' /\ LinkIsItsOwn'
  BY NextIInv, NextAlone DEF SwitchInv
<1> USE DEF SwitchInv
<1>1. CASE \E p \in Publisher : Step(p)
  BY <1>1, StepNumbered, StepLinkIsItsOwn
<1>2. CASE Restart
  BY <1>2 DEF Restart, IInv, Numbered, LinkIsItsOwn, Publishing, Idle, disk
<1>3. CASE UNCHANGED vars
  BY <1>3 DEF vars, disk, local, overlap, Numbered, LinkIsItsOwn, Publishing, Undecided
<1> QED
  BY <1>1, <1>2, <1>3 DEF Next

LEMMA SwitchInvariant == Spec => []SwitchInv
<1>1. Init => SwitchInv
  BY InitIInv, InitAlone, InitNumbered DEF SwitchInv
<1> QED BY <1>1, NextSwitchInv, PTL DEF Spec

\* What the site is: for a publisher that has the hostname for itself what it
\* found, and what is enabled when there is none.
SettledFacts ==
  /\ SettledSite \in 0..versions /\ SettledSite \in Version \cup {None}
  /\ \A p \in Publisher \ crossed : Publishing(p) => SettledSite = previous[p]
  /\ (\A p \in Publisher \ crossed : ~Publishing(p)) => SettledSite = enabled

LEMMA SettledIs == SwitchInv => SettledFacts
<1> SUFFICES ASSUME SwitchInv PROVE SettledFacts
  OBVIOUS
<1> USE DEF SwitchInv
<1>1. enabled \in 0..versions /\ enabled \in Version \cup {None}
  BY NumbersBounded DEF IInv, TypeOK
<1>2. \A p \in Publisher : previous[p] \in 0..versions /\ previous[p] \in Version \cup {None}
  BY NumbersBounded DEF IInv, TypeOK
<1>3. \A p \in Undecided : p \in Publisher \ crossed /\ Publishing(p)
  BY DEF Undecided, Publishing, Idle
<1>4. \A p, q \in Publisher \ crossed : Publishing(p) /\ Publishing(q) => p = q
  BY DEF Alone, AloneAt, Publishing
<1>5. CASE Undecided = {}
  <2>1. SettledSite = enabled
    BY <1>5 DEF SettledSite
  <2> QED BY <1>1, <1>5, <2>1 DEF SettledFacts, LinkIsItsOwn
<1>6. CASE Undecided # {}
  <2>1. PICK p \in Undecided : SettledSite = previous[p]
    BY <1>6 DEF SettledSite
  <2> QED BY <1>2, <1>3, <1>4, <2>1 DEF SettledFacts
<1> QED BY <1>5, <1>6

\* A step of a publisher is one of the promise's, or changes nothing it speaks of.
LEMMA StepSwitches ==
  ASSUME NEW p \in Publisher, SwitchInv, SettledFacts, SwitchInv', SettledFacts', Step(p)
  PROVE  Switch!Next \/ UNCHANGED Switch!vars
<1> DEFINE doing == [r \in Publisher |-> Doing(r)]
           busy == {r \in Publisher : at[r] \notin Idle}
<1>t. /\ at \in [Publisher -> Idle \cup Steps] /\ mine \in [Publisher -> Version \cup {None}]
      /\ running \in Version \cup {None} /\ running' \in Version \cup {None}
      /\ SettledSite' \in Version \cup {None} /\ crossed \subseteq Publisher
  BY DEF SwitchInv, IInv, TypeOK, SettledFacts
<1>b. Switch!Busy = busy
  BY DEF Switch!Busy, Switch!Ended, Doing, Idle
<1>d. ASSUME NEW step, Goes(p, step)
      PROVE  \A r \in Publisher :
               Doing(r)' = IF r = p
                           THEN IF step \in Idle THEN step
                                ELSE IF step = "unlinkEnabled" THEN "disable" ELSE "publish"
                           ELSE Doing(r)
  BY <1>t, <1>d DEF Goes, Doing
<1>1. CASE Start(p)
  <2>1. /\ at[p] \in Idle /\ versions \in Nat /\ versions < MaxVersion
        /\ versions' = versions + 1 /\ mine' = [mine EXCEPT ![p] = versions + 1]
        /\ previous' = [previous EXCEPT ![p] = enabled]
        /\ at' = [at EXCEPT ![p] = "write"] /\ enabled' = enabled /\ running' = running
    BY <1>1 DEF Start, Goes, disk, SwitchInv, IInv, TypeOK
  <2>c. crossed' = IF busy = {} THEN crossed \ {p} ELSE crossed \cup {p} \cup busy
    <3>1. busy = {q \in Publisher \ {p} : at[q] \notin Idle}
      BY <2>1
    <3> QED BY <1>1, <3>1 DEF Start, Begins
  <2>2. versions + 1 \in Version /\ versions + 1 \notin {SettledSite, running}
    BY <2>1, BoundsAssumption DEF SettledFacts, SwitchInv, Numbered, Version
  <2>3. doing' = [doing EXCEPT ![p] = "publish"]
    <3>1. Goes(p, "write")
      BY <1>1 DEF Start
    <3>2. \A r \in Publisher : Doing(r)' = IF r = p THEN "publish" ELSE Doing(r)
      BY <1>d, <3>1 DEF Idle
    <3> QED BY <3>2
  <2>4. CASE busy = {}
    <3>1. SettledSite = enabled
      BY <2>4 DEF SettledFacts, Publishing
    <3>2. SettledSite' = enabled
      BY <1>t, <2>1, <2>c, <2>4 DEF SettledFacts, Publishing, SwitchInv, IInv, TypeOK, Idle
    <3> QED
      BY <1>b, <2>1, <2>c, <2>2, <2>3, <2>4, <3>1, <3>2
      DEF Switch!Next, Switch!Publish, Switch!Begins
  <2>5. CASE busy # {}
    <3>1. SettledSite' = enabled
      BY <1>t, <2>1, <2>c, <2>5 DEF SettledFacts, Publishing
    <3>2. enabled \in {SettledSite} \cup {mine[r] : r \in busy}
      BY DEF SettledFacts, SwitchInv, LinkIsItsOwn, Publishing
    <3> QED
      BY <1>b, <2>1, <2>c, <2>2, <2>3, <2>5, <3>1, <3>2
      DEF Switch!Next, Switch!Publish, Switch!Begins
  <2> QED BY <2>4, <2>5
<1>2. CASE Disable(p)
  <2>1. /\ at[p] \in Idle /\ mine' = mine /\ enabled' = enabled /\ running' = running
        /\ Goes(p, IF enabled # None THEN "unlinkEnabled" ELSE "idle")
    BY <1>2 DEF Disable, disk
  <2>c. crossed' = IF busy = {} THEN crossed \ {p} ELSE crossed \cup {p} \cup busy
    <3>1. busy = {q \in Publisher \ {p} : at[q] \notin Idle}
      BY <2>1
    <3> QED BY <1>2, <3>1 DEF Disable, Begins
  <2>2. doing' = [doing EXCEPT ![p] = IF enabled # None THEN "disable" ELSE "idle"]
    <3>1. \A r \in Publisher :
            Doing(r)' = IF r = p THEN IF enabled # None THEN "disable" ELSE "idle" ELSE Doing(r)
      BY <1>d, <2>1 DEF Idle
    <3> QED BY <3>1
  <2>3. SettledSite' = enabled
    BY <1>t, <2>1, <2>c DEF SettledFacts, Publishing, Goes, Idle
  <2>4. IF busy = {} THEN SettledSite = enabled
        ELSE enabled \in {SettledSite} \cup {mine[r] : r \in busy}
    BY DEF SettledFacts, SwitchInv, LinkIsItsOwn, Publishing
  <2>5. p \notin busy
    BY <2>1
  <2>6. CASE enabled # None
    BY <1>b, <2>1, <2>c, <2>2, <2>3, <2>4, <2>5, <2>6
    DEF Switch!Next, Switch!Disable, Switch!Begins
  <2>7. CASE enabled = None
    BY <1>b, <2>1, <2>c, <2>2, <2>3, <2>4, <2>5, <2>7
    DEF Switch!Next, Switch!Disable, Switch!Begins
  <2> QED BY <2>6, <2>7
\* The other steps are of a publisher at work; a crossed one may do anything.
<1>3. ASSUME at[p] \notin Idle, p \in crossed PROVE Switch!Cross(p)
  <2>1. /\ mine' = mine /\ crossed' = crossed
        /\ \E step \in Idle \cup Steps :
             /\ Goes(p, step)
             /\ step \in Idle \/ (step # "unlinkEnabled" /\ at[p] # "unlinkEnabled")
    BY <1>3 DEF Step, Start, Write, Look, Unlink, Symlink, Replace, Validate, ValidateFails,
       Reload, ReloadFails, Restore, Remove, Disable, UnlinkEnabled, Idle, Steps, overlap
  <2>2. PICK step \in Idle \cup Steps :
             /\ Goes(p, step)
             /\ step \in Idle \/ (step # "unlinkEnabled" /\ at[p] # "unlinkEnabled")
    BY <2>1
  <2>3. PICK end \in Idle \cup {doing[p]} : \A r \in Publisher :
          Doing(r)' = IF r = p THEN end ELSE Doing(r)
    <3>1. CASE step \in Idle
      BY <1>d, <2>2, <3>1
    <3>2. CASE step \notin Idle
      BY <1>d, <1>3, <2>2, <3>2 DEF Doing
    <3> QED BY <3>1, <3>2
  <2>4. doing' = [doing EXCEPT ![p] = end]
    BY <2>3
  <2> QED
    BY <1>3, <1>b, <1>t, <2>1, <2>4 DEF Switch!Cross, Switch!Ended, Switch!Sites, Idle
\* One that is not has the hostname for itself.
<1>4. ASSUME at[p] \notin Idle, p \notin crossed PROVE Switch!Next \/ UNCHANGED Switch!vars
  <2>a. AloneAt(p)
    BY <1>4 DEF SwitchInv, Alone
  <2>i. ASSUME NEW step \in Idle, Goes(p, step), crossed' = crossed
        PROVE  SettledSite' = enabled'
    BY <1>t, <2>a, <2>i DEF Goes, SettledFacts, Publishing, AloneAt
  <2>p. Publishing(p) => SettledSite = previous[p]
    BY <1>4 DEF SettledFacts
  \* Until it ends, the site is what it found.
  <2>q. ASSUME NEW step \in Steps \ {"unlinkEnabled"}, Goes(p, step), Publishing(p),
               crossed' = crossed, previous' = previous, mine' = mine,
               running' \in {running, mine[p]}
        PROVE  Switch!Serve(p) \/ UNCHANGED Switch!vars
    <3>1. Publishing(p)'
      BY <1>t, <2>q DEF Goes, Publishing, Idle, Steps
    <3>2. SettledSite' = SettledSite
      BY <1>4, <2>p, <2>q, <3>1 DEF SettledFacts
    <3>3. \A r \in Publisher : Doing(r)' = Doing(r)
      BY <1>d, <2>q DEF Doing, Publishing, Idle, Steps
    <3>4. doing' = doing /\ doing[p] = "publish"
      BY <2>q, <3>3 DEF Doing, Publishing, Idle
    <3> QED BY <1>4, <2>q, <3>2, <3>4 DEF Switch!vars, Switch!Serve
  <2>s. Switch!Serve(p) => Switch!Next
    BY DEF Switch!Next
  <2>1. CASE Write(p) \/ Look(p) \/ Unlink(p) \/ Symlink(p)
    <3>1. \E step \in Steps \ {"unlinkEnabled"} : Goes(p, step)
      BY <2>1, <2>a DEF Write, Look, Unlink, Symlink, Steps, AloneAt
    <3> QED
      BY <2>1, <2>q, <2>s, <3>1 DEF Write, Look, Unlink, Symlink, Publishing, Idle, disk, overlap
  <2>2. CASE Validate(p) \/ ValidateFails(p) \/ ReloadFails(p)
    <3>1. \E step \in Steps \ {"unlinkEnabled"} : Goes(p, step)
      BY <2>2 DEF Validate, ValidateFails, ReloadFails, Steps
    <3>2. /\ Publishing(p) /\ running' \in {running, mine[p]}
          /\ crossed' = crossed /\ previous' = previous /\ mine' = mine
      BY <2>2, <2>a DEF Validate, ValidateFails, ReloadFails, AloneAt, Publishing, Idle,
         disk, overlap
    <3> QED
      BY <2>q, <2>s, <3>1, <3>2
  <2>f. ASSUME Publishing(p), Goes(p, "failed"), crossed' = crossed, mine' = mine,
               running' = running, enabled' = previous[p]
        PROVE  Switch!Fail(p)
    <3>1. SettledSite' = SettledSite
      BY <2>f, <2>i, <2>p DEF Idle
    <3>2. \A r \in Publisher : Doing(r)' = IF r = p THEN "failed" ELSE Doing(r)
      BY <1>d, <2>f DEF Idle
    <3>3. doing' = [doing EXCEPT ![p] = "failed"] /\ doing[p] = "publish"
      BY <2>f, <3>2 DEF Publishing, Doing
    <3> QED BY <1>4, <2>f, <3>1, <3>3 DEF Switch!Fail
  <2>3. CASE Replace(p)
    <3>1. CASE target[p] = mine[p]
      BY <2>3, <2>a, <2>q, <2>s, <3>1, <1>4
      DEF Replace, Publishing, Idle, Steps, AloneAt, SwitchInv, IInv, HeldLinks, Moving, overlap
    <3>2. CASE target[p] # mine[p]
      <4>1. enabled' = previous[p] /\ Goes(p, "failed")
        BY <2>3, <2>a, <3>2 DEF Replace, AloneAt, SwitchInv, IInv, HeldLinks, Moving
      <4>2. Switch!Fail(p)
        BY <2>3, <2>f, <4>1 DEF Replace, Publishing, Idle, overlap
      <4> QED BY <4>2 DEF Switch!Next
    <3> QED BY <3>1, <3>2
  <2>4. CASE Reload(p)
    <3>1. enabled' = mine[p] /\ running' = mine[p] /\ mine' = mine /\ crossed' = crossed
      BY <2>4, <2>a DEF Reload, AloneAt, overlap
    <3>2. SettledSite' = mine[p]
      BY <2>4, <2>i, <3>1 DEF Reload, Idle
    <3>3. \A r \in Publisher : Doing(r)' = IF r = p THEN "success" ELSE Doing(r)
      BY <1>d, <2>4 DEF Reload, Idle
    <3>4. doing' = [doing EXCEPT ![p] = "success"] /\ doing[p] = "publish"
      BY <2>4, <3>3 DEF Reload, Doing, Idle
    <3> QED BY <1>4, <3>1, <3>2, <3>4 DEF Switch!Succeed, Switch!Next
  <2>5. CASE Restore(p)
    <3>1. enabled # None
      BY <2>5, <2>a, <1>4 DEF Restore, AloneAt, SwitchInv, Numbered, Publishing, Idle
    <3>2. \E step \in Steps \ {"unlinkEnabled"} : Goes(p, step)
      BY <2>5, <3>1 DEF Restore, Steps
    <3> QED
      BY <2>5, <2>q, <2>s, <3>2 DEF Restore, Publishing, Idle, disk, overlap
  <2>6. CASE Remove(p)
    <3>1. enabled' = previous[p] /\ Goes(p, "failed")
      BY <2>6, <2>a DEF Remove, AloneAt
    <3>2. Switch!Fail(p)
      BY <2>6, <2>f, <3>1 DEF Remove, Publishing, Idle, overlap
    <3> QED BY <3>2 DEF Switch!Next
  <2>7. CASE UnlinkEnabled(p)
    <3>1. /\ enabled' = None /\ Goes(p, "idle") /\ mine' = mine /\ crossed' = crossed
          /\ running' = running
      BY <2>7, <2>a DEF UnlinkEnabled, AloneAt, overlap
    <3>2. SettledSite' = None
      BY <2>i, <3>1 DEF Idle
    <3>3. \A r \in Publisher : Doing(r)' = IF r = p THEN "idle" ELSE Doing(r)
      BY <1>d, <3>1 DEF Idle
    <3>4. doing' = [doing EXCEPT ![p] = "idle"] /\ doing[p] = "disable"
      BY <2>7, <3>3 DEF UnlinkEnabled, Doing, Idle
    <3> QED BY <1>4, <3>1, <3>2, <3>4 DEF Switch!Disabled, Switch!Next
  <2> QED
    BY <1>4, <2>1, <2>2, <2>3, <2>4, <2>5, <2>6, <2>7 DEF Step, Start, Disable
<1>5. at[p] \in Idle => Start(p) \/ Disable(p)
  BY DEF Step, Write, Look, Unlink, Symlink, Replace, Validate, ValidateFails, Reload,
     ReloadFails, Restore, Remove, UnlinkEnabled, Idle
<1>6. Switch!Cross(p) => Switch!Next
  BY DEF Switch!Next
<1> QED
  BY <1>1, <1>2, <1>3, <1>4, <1>5, <1>6

LEMMA RestartSwitches ==
  ASSUME SwitchInv, SettledFacts, SettledFacts', Restart
  PROVE  Switch!Restart
<1>1. SettledSite' = enabled
  BY DEF Restart, SettledFacts, Publishing, Idle, disk
<1>2. enabled \in {SettledSite} \cup {mine[r] : r \in {q \in Publisher : at[q] \notin Idle}}
  BY DEF SettledFacts, SwitchInv, LinkIsItsOwn, Publishing
<1>3. [r \in Publisher |-> Doing(r)]' = [r \in Publisher |-> "idle"]
  BY DEF Restart, Doing, Idle
<1>4. Switch!Busy = {q \in Publisher : at[q] \notin Idle}
  BY DEF Switch!Busy, Switch!Ended, Doing, Idle
<1> QED
  BY <1>1, <1>2, <1>3, <1>4 DEF Switch!Restart, Restart, disk, overlap

\* With any number of publishers, one that no other crosses switches the site in one
\* step, at its reload, or leaves it as it was, answers which, and does not raise; a
\* restart leaves it switched or not (NginxService.publish, disable).
THEOREM PublishesInOneStep == Spec => SwitchSpec
<1>1. Init => Switch!Init
  <2> SUFFICES ASSUME Init PROVE Switch!Init
    OBVIOUS
  <2>1. SettledSite = None
    BY DEF Init, SettledSite, Undecided
  <2> QED BY <2>1 DEF Init, Switch!Init, Doing, Idle
<1>2. SwitchInv /\ SettledFacts /\ SwitchInv' /\ SettledFacts' /\ [Next]_vars
        => [Switch!Next]_(Switch!vars)
  <2> SUFFICES ASSUME SwitchInv, SettledFacts, SwitchInv', SettledFacts', [Next]_vars
               PROVE  Switch!Next \/ UNCHANGED Switch!vars
    OBVIOUS
  <2>1. CASE \E p \in Publisher : Step(p)
    BY <2>1, StepSwitches
  <2>2. CASE Restart
    BY <2>2, RestartSwitches DEF Switch!Next
  <2>3. CASE UNCHANGED vars
    BY <2>3 DEF vars, disk, local, overlap, Switch!vars, SettledSite, Undecided, Doing
  <2> QED BY <2>1, <2>2, <2>3 DEF Next
<1>3. Spec => [](SwitchInv /\ SettledFacts)
  BY SwitchInvariant, SettledIs, PTL
<1> QED BY <1>1, <1>2, <1>3, PTL DEF Spec, SwitchSpec, Switch!Spec
=============================================================================
