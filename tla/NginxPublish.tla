----------------------------- MODULE NginxPublish -----------------------------
(***************************************************************************)
(* How the site of one hostname is switched to a new configuration         *)
(* (domains/services.py, NginxService.publish and disable): a versioned    *)
(* file is written, sites-enabled/<host>.conf is moved onto it by way of   *)
(* the one temporary link <host>.conf.tmp, the host validates and reloads, *)
(* and the previous link is put back when either fails.                    *)
(*                                                                         *)
(* Each file system or host call is a step.  The publishers are the HTTP   *)
(* thread and the supervisor thread; nothing keeps both from publishing    *)
(* one hostname at a time.  A restart stops them where they are; the files *)
(* and links stay.  crossed and met are history: the publishers whose last *)
(* operation overlapped another's, and those that ever overlapped.         *)
(***************************************************************************)
EXTENDS Naturals

CONSTANTS
  Publisher, Editor,  \* the threads; those that also disable a hostname
  MaxVersion,  \* publishes in a behaviour; versions are numbered as they start
  MaxFaults, MaxRestarts

ASSUME BoundsAssumption ==
  Editor \subseteq Publisher /\ MaxVersion \in Nat /\ MaxFaults \in Nat /\ MaxRestarts \in Nat

Version == 1..MaxVersion
None == 0

VARIABLES
  versions,   \* versions started so far
  written,    \* files in sites-available
  rejected,   \* the versions nginx would not accept
  enabled,    \* what sites-enabled/<host>.conf points to
  temporary,  \* what <host>.conf.tmp points to
  running,    \* the version nginx was last reloaded with
  at,         \* where each publisher is
  mine,       \* ... the version it publishes
  previous,   \* ... what was enabled when it started
  target,     \* ... where it is moving the link: its version, or back
  crossed, met,  \* history: who overlapped another in its last operation, or ever
  faults, restarts

disk == <<written, rejected, enabled, temporary, running>>
local == <<at, mine, previous, target>>
overlap == <<crossed, met>>
vars == <<versions, disk, local, overlap, faults, restarts>>

Idle == {"idle", "success", "failed", "raised"}
Steps == {"write", "look", "unlink", "symlink", "replace", "validate", "reload",
          "restore", "remove", "disable", "unlinkEnabled"}

TypeOK ==
  /\ versions \in 0..MaxVersion
  /\ written \subseteq Version /\ rejected \subseteq Version
  /\ enabled \in Version \cup {None} /\ temporary \in Version \cup {None}
  /\ running \in Version \cup {None}
  /\ at \in [Publisher -> Idle \cup Steps]
  /\ mine \in [Publisher -> Version \cup {None}]
  /\ previous \in [Publisher -> Version \cup {None}]
  /\ target \in [Publisher -> Version \cup {None}]
  /\ crossed \subseteq Publisher /\ met \subseteq Publisher
  /\ faults \in Nat /\ restarts \in Nat

Init ==
  /\ versions = 0
  /\ written = {} /\ rejected \in SUBSET Version
  /\ enabled = None /\ temporary = None /\ running = None
  /\ at = [p \in Publisher |-> "idle"]
  /\ mine = [p \in Publisher |-> None]
  /\ previous = [p \in Publisher |-> None]
  /\ target = [p \in Publisher |-> None]
  /\ crossed = {} /\ met = {}
  /\ faults = 0 /\ restarts = 0

Goes(p, step) == at' = [at EXCEPT ![p] = step]
\* A publisher begins: alone, or while others are at it.
Begins(p) ==
  LET others == {q \in Publisher \ {p} : at[q] \notin Idle}
  IN  /\ crossed' = IF others = {} THEN crossed \ {p} ELSE crossed \cup {p} \cup others
      /\ met' = IF others = {} THEN met ELSE met \cup {p} \cup others
Fault == faults < MaxFaults /\ faults' = faults + 1

-----------------------------------------------------------------------------
\* Mutant: the new version gets no number of its own.
StartUnnumbered(p) ==
  /\ at[p] \in Idle
  /\ versions < MaxVersion
  /\ versions' = versions + 1
  /\ target' = [target EXCEPT ![p] = mine[p]]
  /\ previous' = [previous EXCEPT ![p] = enabled]
  /\ Goes(p, "write") /\ Begins(p)
  /\ UNCHANGED <<disk, mine, faults, restarts>>

\* A new version number; the link that is enabled now is remembered.
Start(p) ==
  /\ at[p] \in Idle
  /\ versions < MaxVersion
  /\ versions' = versions + 1
  /\ mine' = [mine EXCEPT ![p] = versions + 1]
  /\ target' = [target EXCEPT ![p] = versions + 1]
  /\ previous' = [previous EXCEPT ![p] = enabled]
  /\ Goes(p, "write") /\ Begins(p)
  /\ UNCHANGED <<disk, faults, restarts>>

\* Mutant: the link is made first.
WriteLater(p) ==
  /\ at[p] = "write"
  /\ Goes(p, "look")
  /\ UNCHANGED <<versions, overlap, disk, mine, previous, target, faults, restarts>>

\* Written under a temporary name and renamed: complete once it is there.
Write(p) ==
  /\ at[p] = "write"
  /\ written' = written \cup {mine[p]}
  /\ Goes(p, "look")
  /\ UNCHANGED <<versions, overlap, rejected, enabled, temporary, running, mine,
                 previous, target, faults, restarts>>

\* Mutant: a temporary link left by a crash is not looked for.
LookNever(p) ==
  /\ at[p] = "look"
  /\ Goes(p, "symlink")
  /\ UNCHANGED <<versions, overlap, disk, mine, previous, target, faults, restarts>>

\* Is there a temporary link of an earlier, unfinished move?
Look(p) ==
  /\ at[p] = "look"
  /\ Goes(p, IF temporary # None THEN "unlink" ELSE "symlink")
  /\ UNCHANGED <<versions, overlap, disk, mine, previous, target, faults, restarts>>

\* FileNotFoundError when it is gone by now.
Unlink(p) ==
  /\ at[p] = "unlink"
  /\ IF temporary # None
     THEN temporary' = None /\ Goes(p, "symlink")
     ELSE Goes(p, "raised") /\ UNCHANGED temporary
  /\ UNCHANGED <<versions, overlap, written, rejected, enabled, running, mine, previous,
                 target, faults, restarts>>

\* FileExistsError when there is one again.
Symlink(p) ==
  /\ at[p] = "symlink"
  /\ IF temporary = None
     THEN temporary' = target[p] /\ Goes(p, "replace")
     ELSE Goes(p, "raised") /\ UNCHANGED temporary
  /\ UNCHANGED <<versions, overlap, written, rejected, enabled, running, mine, previous,
                 target, faults, restarts>>

\* Moves whatever the temporary link is now; a restored link ends the publish.
Replace(p) ==
  /\ at[p] = "replace"
  /\ IF temporary # None
     THEN /\ enabled' = temporary /\ temporary' = None
          /\ Goes(p, IF target[p] = mine[p] THEN "validate" ELSE "failed")
     ELSE Goes(p, "raised") /\ UNCHANGED <<enabled, temporary>>
  /\ UNCHANGED <<versions, overlap, written, rejected, running, mine, previous, target,
                 faults, restarts>>

\* nginx -t on the host reads what is enabled, whoever enabled it.
Validate(p) ==
  /\ at[p] = "validate"
  /\ enabled \notin rejected
  /\ Goes(p, "reload")
  /\ UNCHANGED <<versions, overlap, disk, mine, previous, target, faults, restarts>>

\* Mutant: a configuration nginx rejects is left enabled.
ValidateFailsLeaving(p) ==
  /\ at[p] = "validate"
  /\ \/ enabled \in rejected /\ UNCHANGED faults
     \/ enabled \notin rejected /\ Fault
  /\ Goes(p, "failed")
  /\ UNCHANGED <<versions, overlap, disk, mine, previous, target, restarts>>

\* nginx rejects it, or the host cannot be asked.
ValidateFails(p) ==
  /\ at[p] = "validate"
  /\ \/ enabled \in rejected /\ UNCHANGED faults
     \/ enabled \notin rejected /\ Fault
  /\ Goes(p, "restore")
  /\ UNCHANGED <<versions, overlap, disk, mine, previous, target, restarts>>

Reload(p) ==
  /\ at[p] = "reload"
  /\ enabled \notin rejected
  /\ running' = enabled
  /\ Goes(p, "success")
  /\ UNCHANGED <<versions, overlap, written, rejected, enabled, temporary, mine,
                 previous, target, faults, restarts>>

\* Mutant: a failed reload is reported, and the new link stays.
ReloadFailsLeaving(p) ==
  /\ at[p] = "reload"
  /\ \/ enabled \in rejected /\ UNCHANGED <<running, faults>>
     \/ enabled \notin rejected /\ Fault /\ running' \in {running, enabled}
  /\ Goes(p, "failed")
  /\ UNCHANGED <<versions, overlap, written, rejected, enabled, temporary, mine,
                 previous, target, restarts>>

\* nginx rejects it, or the host gives no answer: it may have reloaded.
ReloadFails(p) ==
  /\ at[p] = "reload"
  /\ \/ enabled \in rejected /\ UNCHANGED <<running, faults>>
     \/ enabled \notin rejected /\ Fault /\ running' \in {running, enabled}
  /\ Goes(p, "restore")
  /\ UNCHANGED <<versions, overlap, written, rejected, enabled, temporary, mine,
                 previous, target, restarts>>

\* Back to the remembered link, the same way; there may have been none.
Restore(p) ==
  /\ at[p] = "restore"
  /\ IF previous[p] # None
     THEN /\ target' = [target EXCEPT ![p] = previous[p]]
          /\ Goes(p, "look")
     ELSE /\ Goes(p, IF enabled # None THEN "remove" ELSE "failed")
          /\ UNCHANGED target
  /\ UNCHANGED <<versions, overlap, disk, mine, previous, faults, restarts>>

Remove(p) ==
  /\ at[p] = "remove"
  /\ Goes(p, IF enabled # None THEN "failed" ELSE "raised")
  /\ enabled' = None
  /\ UNCHANGED <<versions, overlap, written, rejected, temporary, running, mine,
                 previous, target, faults, restarts>>

\* disable(hostname), after a rename: no reload follows.
Disable(p) ==
  /\ p \in Editor
  /\ at[p] \in Idle
  /\ Begins(p)
  /\ Goes(p, IF enabled # None THEN "unlinkEnabled" ELSE "idle")
  /\ UNCHANGED <<versions, disk, mine, previous, target, faults, restarts>>

UnlinkEnabled(p) ==
  /\ at[p] = "unlinkEnabled"
  /\ Goes(p, IF enabled # None THEN "idle" ELSE "raised")
  /\ enabled' = None
  /\ UNCHANGED <<versions, overlap, written, rejected, temporary, running, mine,
                 previous, target, faults, restarts>>

Restart ==
  /\ restarts < MaxRestarts
  /\ restarts' = restarts + 1
  /\ at' = [p \in Publisher |-> "idle"]
  /\ UNCHANGED <<versions, overlap, disk, mine, previous, target, faults>>

Step(p) ==
  \/ Start(p) \/ Write(p) \/ Look(p) \/ Unlink(p) \/ Symlink(p) \/ Replace(p)
  \/ Validate(p) \/ ValidateFails(p) \/ Reload(p) \/ ReloadFails(p)
  \/ Restore(p) \/ Remove(p) \/ Disable(p) \/ UnlinkEnabled(p)

Next == (\E p \in Publisher : Step(p)) \/ Restart

Spec == Init /\ [][Next]_vars

-----------------------------------------------------------------------------
\* Whatever is enabled, or about to be moved there, is a complete file: nginx
\* never finds a link to nothing, with any number of publishers on the one
\* temporary link, failed publishes that go back, and restarts in between.
LinkNeverDangles == {enabled, temporary} \subseteq written \cup {None}

\* No file system call of a publish raises unless another publisher of the same
\* hostname was at work meanwhile, although each call is preceded by a check made
\* earlier and a crash or a crossed publish may leave a temporary link behind.
NothingRaises == \A p \in Publisher : at[p] = "raised" => p \in crossed

\* The result tells the truth when it is returned: after a success the version
\* just published is enabled and running, after a failure the one that was
\* enabled before is.  Two publishers at a time can deceive each other; one that
\* had the hostname for itself is right, whatever others left behind.  SwitchSpec
\* below implies it.
ResultIsTrue ==
  [][\A p \in Publisher \ crossed : at'[p] # at[p] =>
       /\ at'[p] = "success" => enabled' = mine[p] /\ running' = mine[p]
       /\ at'[p] = "failed" => enabled' = previous[p]]_vars

\* No rejected configuration stays enabled once every publisher is done: it
\* would make the validation of every later publish, of any hostname, fail.  A
\* restart in the middle of a publish may leave one, and so may two publishers
\* at a time.
NothingRejectedStays ==
  (\A p \in Publisher : at[p] \in Idle) =>
    enabled \notin rejected \/ restarts > 0 \/ met # {}

-----------------------------------------------------------------------------
(* What publishing promises, SiteSwitch, and how these steps implement it.  *)

\* Publishers, not crossed, whose link has been moved and may yet go back.
Undecided ==
  {p \in Publisher \ crossed :
     \/ at[p] \in {"validate", "reload", "restore", "remove"}
     \/ at[p] \in {"look", "unlink", "symlink", "replace"} /\ target[p] # mine[p]}

\* Until the reload the site is the one there was.
SettledSite ==
  IF Undecided = {} THEN enabled ELSE previous[CHOOSE p \in Undecided : TRUE]

Doing(p) ==
  IF at[p] \in Idle THEN at[p]
  ELSE IF at[p] = "unlinkEnabled" THEN "disable" ELSE "publish"

Switch == INSTANCE SiteSwitch WITH
  site <- SettledSite,
  served <- running,
  doing <- [p \in Publisher |-> Doing(p)],
  asked <- mine

\* A publish that no other crosses takes effect in one step, at its reload, or
\* leaves the site as it was; its answer says which, and it does not raise.  What
\* nginx serves may be ahead, when the host does not say that it reloaded.
SwitchSpec == Switch!Spec
=============================================================================
