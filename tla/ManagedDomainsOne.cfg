SPECIFICATION Spec
CONSTANTS
  MaxDomains = 1
  Hostname = {h1, h2}
  Campaign = {k1}
  h1 = h1
  h2 = h2
  k1 = k1
  MaxCandidates = 2
  NoDomain = NoDomain
  NoCertificate = NoCertificate
  NoSite = NoSite
  NoCampaign = NoCampaign
  NoHost = NoHost
  Idle = Idle
  MaxEdits = 2
  MaxMoves = 1
  MaxRenewals = 1
  MaxFaults = 1
  MaxRestarts = 1
INVARIANTS
  TypeOK
  SiteFollowsRows
  PendingMeansOrdering
PROPERTIES
  FilesNeverForgotten
  OrdersArePaced
