CONSTANTS
  Creator = {p1, p2}
  Runner = {d1, d2}
  Command = {"up", "dry run", "down", "redo"}
  Slug = {"a", "b"}
  NoSlug = NoSlug
  NormalizeSlug <- Normal
  SlugRank <- Ranks
  Stray = {}
  Someone = Someone
  ByHand <- Hands
  Free = Free
  Argv <- GoodArgvs
  MaxClock = 0
  MaxEdits = 2
SPECIFICATION MCSpec
INVARIANT FieldsInOrder
CHECK_DEADLOCK FALSE
