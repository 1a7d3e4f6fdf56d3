\* Two click ids that share the queue, the batches and the upserts: the pipeline
\* implements the ledger, and every stored postback settles, with a database
\* error, a restart and the throttle on the way.
CONSTANTS
  c1 = c1
  c2 = c2
  ClickId = {c1, c2}
  CampaignId = {1}
  Terms <- OneTerms
  External = {"sale"}
  NoMapper = NoMapper
  NoExternal = NoExternal
  NoCampaign = NoCampaign
  NoRow = NoRow
  NoMessage = NoMessage
  Null = Null
  MinQueueSize = 2
  MaxPostbacks = 2
  MaxLeads = 1
  MaxFaults = 1
  MaxRestarts = 1
SPECIFICATION FairSpec
PROPERTIES LedgerSpec EveryPostbackSettles
