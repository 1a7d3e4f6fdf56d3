------------------------------ MODULE LeadLedger ------------------------------
(***************************************************************************)
(* What the leads report promises its reader, whatever runs behind it: a   *)
(* click is listed only once it is known and stays listed; the postback    *)
(* its line shows is one of its own, and only ever moves to a newer one.   *)
(***************************************************************************)
EXTENDS Naturals, Sequences

CONSTANT ClickId

VARIABLES
  posted,   \* the click id of every postback received, oldest first
  clicked,  \* the click ids with a tracked click
  listed,   \* the click ids with a line in the report
  shown     \* for each click id the postback its line shows, 0 for none

vars == <<posted, clicked, listed, shown>>

TypeOK ==
  /\ posted \in Seq(ClickId)
  /\ clicked \subseteq ClickId
  /\ listed \subseteq clicked
  /\ shown \in [ClickId -> Nat]

Init ==
  /\ posted = <<>>
  /\ clicked = {}
  /\ listed = {}
  /\ shown = [c \in ClickId |-> 0]

Receive(c) ==
  /\ posted' = Append(posted, c)
  /\ UNCHANGED <<clicked, listed, shown>>

Click(c) ==
  /\ clicked' = clicked \cup {c}
  /\ UNCHANGED <<posted, listed, shown>>

\* Any number of lines appear or move to a newer postback at once.
Publish ==
  /\ listed \subseteq listed' /\ listed' \subseteq clicked
  /\ \A c \in ClickId :
       \/ shown'[c] = shown[c]
       \/ /\ c \in listed'
          /\ shown'[c] > shown[c]
          /\ shown'[c] \in 1..Len(posted) /\ posted[shown'[c]] = c
  /\ shown' = [c \in ClickId |-> shown'[c]]
  /\ UNCHANGED <<posted, clicked>>

Next == \/ \E c \in ClickId : Receive(c) \/ Click(c)
        \/ Publish

Spec == Init /\ [][Next]_vars
=============================================================================
