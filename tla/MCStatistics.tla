----------------------------- MODULE MCStatistics -----------------------------
(***************************************************************************)
(* A small instance of Statistics for TLC.                                 *)
(***************************************************************************)
EXTENDS Statistics, TLC

CONSTANTS ad, geo, v1, v2, c1, c2

\* Clicks with both parameters, with one of them, and with none.
MCLabels == {(ad :> v1) @@ (geo :> v2), (ad :> v2) @@ (geo :> Null),
             (ad :> Null) @@ (geo :> Null)}

Ids == Permutations(ClickId)

\* 0.1 and 0.4, each a little more than ten and forty cents; their sum is 0.5
\* again, fifty cents.
Tenths == (v1 :> 101) @@ (v2 :> 401)
Text == (v1 :> NotANumber)

MCDistributions == {Tenths, Text}
MCFloatSum == (Tenths :> 500)
=============================================================================
