\* Three flows, one visitor whose client two rules tell apart.
CONSTANTS
  v1 = v1
  us = us
  Visitor = {v1}
  Client = {us, "other"}
  Forms <- MCForms
  NoRule = NoRule
  Orders = {10}
  NoFlow = NoFlow
  Null = Null
  Idle = Idle
  MaxFlows = 3
  MaxVisits = 3
  MaxEdits = 4
  MaxCrashes = 1
SPECIFICATION Spec
INVARIANTS TypeOK NeverBack RenderFlowsHavePages DiscardsAreAlerted
CHECK_DEADLOCK FALSE
