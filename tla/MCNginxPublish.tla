---------------------------- MODULE MCNginxPublish ----------------------------
(***************************************************************************)
(* Small instances of NginxPublish for TLC.                                *)
(***************************************************************************)
EXTENDS NginxPublish

CONSTANTS http, supervisor

=============================================================================
