---------------------------- MODULE MCHousekeeping ----------------------------
(***************************************************************************)
(* A small instance of Housekeeping for TLC.                               *)
(***************************************************************************)
EXTENDS Housekeeping

CONSTANTS p1, p2
=============================================================================
