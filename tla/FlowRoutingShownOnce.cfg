\* A show-once flow is given again after the default flow.
CONSTANTS
  v1 = v1
  us = us
  Visitor = {v1}
  Client = {us, "other"}
  Forms <- MCForms
  NoRule = NoRule
  Orders = {10}
  NoFlow = NoFlow
  Null = Null
  Idle = Idle
  MaxFlows = 3
  MaxVisits = 3
  MaxEdits = 4
  MaxCrashes = 1
SPECIFICATION Spec
PROPERTIES ShownOnce
CHECK_DEADLOCK FALSE
