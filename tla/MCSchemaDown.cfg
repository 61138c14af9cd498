CONSTANTS
  scan_event = scan_event
  code = code
  ledger_entry = ledger_entry
  scan1 = scan1
  scan2 = scan2
  reseed = reseed
  post = post
  Seed = Seed
  Table = {scan_event, code}
  Writer = {scan1, scan2, reseed}
  DropOrder <- QrOrder
  Parent <- QrParent
  Target <- QrTarget
SPECIFICATION FairSpec
INVARIANTS
  TypeOK
  OnlyWhileEmpty
  AllOrNothing
PROPERTY DownEnds
