SPECIFICATION Spec
CONSTANTS
  http = http
  supervisor = supervisor
  Publisher = {http, supervisor}
  Editor = {http}
  MaxVersion = 3
  MaxFaults = 1
  MaxRestarts = 1
INVARIANTS
  TypeOK
  LinkNeverDangles
  NothingRaises
  NothingRejectedStays
PROPERTIES
  SwitchSpec
