CONSTANTS
  t1 = t1
  t2 = t2
  t3 = t3
  campaign = campaign
  otherCampaign = otherCampaign
  gold = gold
  silver = silver
  None = None
  Request = {r1, r2, r3}
  Key = {k1, k2}
  ClientId = {c1}
  Campaign = {campaign, otherCampaign}
  Token = {t1, t2, t3}
  DemoToken = {t1}
  Tier = {gold, silver}
  TokenCampaign <- Campaigns
  TokenTier <- Tiers
  PoolSize = 2
  r1 = r1
  r2 = r2
  k1 = k1
SPECIFICATION FairInstance
INVARIANTS
  TypeOK
  InventoryMatchesLedger
  SameKeySameResult
  OutboxMatchesLedger
PROPERTIES
  ReservationIsFinal
  ImplementsContract
  EveryDrawAnswered
