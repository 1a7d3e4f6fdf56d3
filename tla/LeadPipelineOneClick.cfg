\* One click id in full depth: clicks in two campaigns, changing settings, two
\* postbacks, a lead, a database error and a restart.
CONSTANTS
  c1 = c1
  c2 = c2
  ClickId = {c1}
  CampaignId = {1, 2}
  Terms <- MCTerms
  External = {"sale", "odd"}
  NoMapper = NoMapper
  NoExternal = NoExternal
  NoCampaign = NoCampaign
  NoRow = NoRow
  NoMessage = NoMessage
  Null = Null
  MinQueueSize = 2
  MaxPostbacks = 2
  MaxLeads = 1
  MaxFaults = 1
  MaxRestarts = 1
SPECIFICATION Spec
INVARIANTS TypeOK NoSilentlyStaleRow NoForgottenLead RowIsOneEvent PayoutIffPaidStatus
