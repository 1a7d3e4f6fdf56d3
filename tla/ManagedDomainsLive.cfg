SPECIFICATION FairSpec
CONSTANTS
  MaxDomains = 2
  Hostname = {h1, h2}
  Campaign = {}
  h1 = h1
  h2 = h2
  k1 = k1
  MaxCandidates = 1
  NoDomain = NoDomain
  NoCertificate = NoCertificate
  NoSite = NoSite
  NoCampaign = NoCampaign
  NoHost = NoHost
  Idle = Idle
  MaxEdits = 2
  MaxMoves = 0
  MaxRenewals = 0
  MaxFaults = 1
  MaxRestarts = 0
PROPERTIES
  ResolvedEventually
  CertifiedEventually
