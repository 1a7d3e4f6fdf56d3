SPECIFICATION Spec
CONSTANTS
  MaxDomains = 1
  Hostname = {h1, h2}
  Campaign = {k1}
  h1 = h1
  h2 = h2
  k1 = k1
  MaxCandidates = 2
  NoDomain = NoDomain
  NoCertificate = NoCertificate
  NoSite = NoSite
  NoCampaign = NoCampaign
  NoHost = NoHost
  Idle = Idle
  MaxEdits = 2
  MaxMoves = 0
  MaxRenewals = 0
  MaxFaults = 0
  MaxRestarts = 0
PROPERTIES
  IssuedIsPublished
