\* Two campaigns of either origin, two flows, two edits.
CONSTANTS
  MaxRows <- MCMaxRows
  MaxId = 1
  MaxCampaigns = 2
  MaxFlows = 2
  MaxEdits = 2
  Null = Null
  NoRequest = NoRequest
SPECIFICATION Spec
INVARIANTS TypeOK CampaignsAreWhole EditsArriveWhole DefaultIsKept
