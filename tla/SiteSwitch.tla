------------------------------ MODULE SiteSwitch ------------------------------
(***************************************************************************)
(* What publishing promises the rest of the program, for one hostname: a   *)
(* publish takes effect in one step, or not at all, and says which; a      *)
(* disable takes the site away in one step; a restart leaves a publish     *)
(* done or not done.  Less is promised to publishers that cross: from the  *)
(* moment the second begins to the end of each of them, theirs may be any  *)
(* site and any answer.                                                    *)
(***************************************************************************)
CONSTANTS Publisher, Version, None

VARIABLES
  site,    \* the version the hostname leads to
  served,  \* the version nginx was last reloaded with
  doing,   \* what each publisher is at, or how its last operation ended
  asked,   \* the version each publisher was last asked to publish
  crossed  \* the publishers whose last operation overlapped another's

vars == <<site, served, doing, asked, crossed>>

Ended == {"idle", "success", "failed", "raised"}
Busy == {p \in Publisher : doing[p] \notin Ended}
Sites == Version \cup {None}

Init ==
  /\ site = None /\ served = None
  /\ doing = [p \in Publisher |-> "idle"]
  /\ asked = [p \in Publisher |-> None]
  /\ crossed = {}

\* With nobody at work the site is what it was; otherwise what the others are
\* in the middle of may come to light.
Begins(p, what) ==
  /\ p \notin Busy
  /\ doing' = [doing EXCEPT ![p] = what]
  /\ UNCHANGED served
  /\ IF Busy = {}
     THEN crossed' = crossed \ {p} /\ UNCHANGED site
     ELSE /\ crossed' = crossed \cup {p} \cup Busy
          /\ site' \in {site} \cup {asked[q] : q \in Busy}

\* A new version is asked for: not what the hostname has now.
Publish(p, v) ==
  /\ v \notin {site, served}
  /\ Begins(p, "publish")
  /\ asked' = [asked EXCEPT ![p] = v]

Succeed(p) ==
  /\ doing[p] = "publish" /\ p \notin crossed
  /\ site' = asked[p] /\ served' = asked[p]
  /\ doing' = [doing EXCEPT ![p] = "success"]
  /\ UNCHANGED <<asked, crossed>>

Fail(p) ==
  /\ doing[p] = "publish" /\ p \notin crossed
  /\ doing' = [doing EXCEPT ![p] = "failed"]
  /\ UNCHANGED <<site, served, asked, crossed>>

\* The new version is served by a reload the host did not confirm; the publish
\* fails after that, and the version is served until the next reload.
Serve(p) ==
  /\ doing[p] = "publish" /\ p \notin crossed
  /\ served' = asked[p]
  /\ UNCHANGED <<site, doing, asked, crossed>>

\* Of a hostname without a site there is nothing left to do.
Disable(p) ==
  /\ \/ Begins(p, "disable")
     \/ Begins(p, "idle") /\ site' = None
  /\ UNCHANGED asked

Disabled(p) ==
  /\ doing[p] = "disable" /\ p \notin crossed
  /\ site' = None
  /\ doing' = [doing EXCEPT ![p] = "idle"]
  /\ UNCHANGED <<served, asked, crossed>>

\* A publisher that another crosses goes on, or ends in any way.
Cross(p) ==
  /\ p \in Busy \cap crossed
  /\ site' \in Sites /\ served' \in Sites
  /\ \E end \in Ended \cup {doing[p]} : doing' = [doing EXCEPT ![p] = end]
  /\ UNCHANGED <<asked, crossed>>

Restart ==
  /\ doing' = [p \in Publisher |-> "idle"]
  /\ site' \in {site} \cup {asked[p] : p \in Busy}
  /\ UNCHANGED <<served, asked, crossed>>

Next ==
  \/ \E p \in Publisher :
       \/ \E v \in Version : Publish(p, v)
       \/ Succeed(p) \/ Fail(p) \/ Serve(p) \/ Disable(p) \/ Disabled(p) \/ Cross(p)
  \/ Restart

Spec == Init /\ [][Next]_vars
=============================================================================
