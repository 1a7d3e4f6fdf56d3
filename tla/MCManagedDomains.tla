--------------------------- MODULE MCManagedDomains ---------------------------
(***************************************************************************)
(* Small instances of ManagedDomains for TLC.                              *)
(***************************************************************************)
EXTENDS ManagedDomains

CONSTANTS h1, h2, k1
=============================================================================
