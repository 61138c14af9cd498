CONSTANTS
  t1 = t1
  campaign = campaign
  gold = gold
  None = None
  Request = {r1, r2, r3}
  Journey = {j1, j2}
  Key = {r1, r2, r3, j1, j2}
  ClientId = {r1, r2, r3}
  Code = {c1}
  Campaign = {campaign}
  PanelCampaign = campaign
  Token = {t1}
  DemoToken = {}
  Tier = {gold}
  TokenCampaign <- Campaigns
  TokenTier <- Tiers
SPECIFICATION PanelSpec
SYMMETRY Symmetry
INVARIANTS
  PanelTypeOK
  SomeClickIsOK
  TraceIsComplete
  TraceIsCausal
CHECK_DEADLOCK FALSE
