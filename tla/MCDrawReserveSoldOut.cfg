CONSTANTS
  t1 = t1
  t2 = t2
  t3 = t3
  campaign = campaign
  otherCampaign = otherCampaign
  gold = gold
  silver = silver
  None = None
  Request = {r1, r2, r3}
  Key = {k1, k2}
  ClientId = {c1}
  Campaign = {campaign}
  Token = {t1, t2}
  DemoToken = {}
  Tier = {gold}
  TokenCampaign <- OneCampaign
  TokenTier <- OneTier
  PoolSize = 3
  r1 = r1
  r2 = r2
  k1 = k1
SPECIFICATION ServeSpec
INVARIANT NoWinOnlyWhenSoldOut
