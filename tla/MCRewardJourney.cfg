CONSTANTS
  t1 = t1
  t2 = t2
  t3 = t3
  home = home
  away = away
  gold = gold
  plain = plain
  silver = silver
  bean = bean
  leaf = leaf
  None = None
  r1 = r1
  k1 = k1
  c1 = c1
  Request = {r1, r2}
  Key = {k1, k2}
  ClientId = {c1, c2}
  Campaign = {home, away}
  Token = {t1, t2, t3}
  DemoToken = {t1}
  Tier = {gold, plain, silver}
  Item = {bean, leaf}
  TokenCampaign <- Campaigns
  TokenTier <- Tiers
  LinkedItem <- Links
  ItemCampaign <- Places
  CurrentCampaign = home
SPECIFICATION FairInstance
INVARIANTS
  JourneyTypeOK
  CreditedOnceAsDrawn
  UnlockedOnceAsWon
  AnsweredMeansSettled
  MeShowsSettledDraws
PROPERTIES
  ImplementsSettlement
  DrawsAreSettled
