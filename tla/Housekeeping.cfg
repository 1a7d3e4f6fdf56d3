\* A window as long as the retention, a report stale before it is deleted.
CONSTANTS
  p1 = p1
  p2 = p2
  Windows = {0, 2}
  Retention = 2
  Period = 1
  StaleAfter = 1
  History = 2
  HistoryPeriod = 1
  Level = {"normal", "critical"}
  Soon = 1
  Portfolio = {p1, p2}
  Lifetime = {0, 2}
  NoUrl = NoUrl
  NotYet = NotYet
  Never = Never
  MaxVisits = 2
  MaxReports = 2
  MaxUrls = 2
SPECIFICATION Spec
INVARIANTS TypeOK DiscardsAreCounted DiskAlertFits AlertFitsLastUrl
PROPERTY OutdatedRowsGo
