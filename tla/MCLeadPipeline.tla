---------------------------- MODULE MCLeadPipeline ----------------------------
(***************************************************************************)
(* Small instances of LeadPipeline for TLC.                                *)
(***************************************************************************)
EXTENDS LeadPipeline, TLC

CONSTANTS c1, c2

\* One mapper that knows two values of the advertiser's status parameter, one
\* of them mapped to something that is no lead status, and no mapper at all.
MCMapper == ("sale" :> "accept") @@ ("odd" :> "paid")
MCTerms == {[mapper |-> MCMapper, cost |-> 5], [mapper |-> NoMapper, cost |-> 7]}
OneTerms == {[mapper |-> MCMapper, cost |-> 5]}
=============================================================================
