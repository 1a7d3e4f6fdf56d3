----------------------------- MODULE MCFlowRouting -----------------------------
(***************************************************************************)
(* Small instances of FlowRouting for TLC.                                 *)
(***************************************************************************)
EXTENDS FlowRouting

CONSTANTS v1, us

\* A flow for everybody, a render flow shown once, one shown once to some
\* clients only, and one that is switched off.
MCForms == {
  [rule |-> NoRule, action |-> "redirect", enabled |-> TRUE, once |-> FALSE],
  [rule |-> NoRule, action |-> "render", enabled |-> TRUE, once |-> TRUE],
  [rule |-> {us}, action |-> "redirect", enabled |-> TRUE, once |-> TRUE],
  [rule |-> {}, action |-> "render", enabled |-> FALSE, once |-> FALSE]}
=============================================================================
