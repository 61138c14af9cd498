CONSTANTS
  Creator = {p1, p2}
  Runner = {d1, d2}
  Command = {"up", "dry run", "down", "redo"}
  Slug = {"a", "b"}
  NoSlug = NoSlug
  NormalizeSlug <- Normal
  SlugRank <- Ranks
  Stray = {}
  Someone = Someone
  ByHand <- Hands
  Free = Free
  Argv <- Argvs
  MaxClock = 1
  MaxEdits = 2
SPECIFICATION MCSpec
SYMMETRY Symmetry
INVARIANTS
  TypeOK
  CreatedIsKept
  CollisionIsReal
  
  ParsedAsWritten
  AppliedInOrder
  AppliedIsValid
  UpAppliesAll
PROPERTY OneAtATime
CHECK_DEADLOCK FALSE
