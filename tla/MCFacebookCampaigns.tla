------------------------- MODULE MCFacebookCampaigns -------------------------
(***************************************************************************)
(* A small instance of FacebookCampaigns for TLC.                          *)
(***************************************************************************)
EXTENDS FacebookCampaigns

\* Two portfolios for one cabinet to move between, and one row of the rest.
MCMaxRows == [k \in Kind |-> IF k = "portfolio" THEN 2 ELSE 1]
=============================================================================
