CONSTANTS
  scan_event = scan_event
  code = code
  ledger_entry = ledger_entry
  scan1 = scan1
  scan2 = scan2
  reseed = reseed
  post = post
  Seed = Seed
  Table = {ledger_entry}
  Writer = {post}
  DropOrder <- WalletOrder
  Parent <- WalletParent
  Target <- WalletTarget
SPECIFICATION Spec
INVARIANT OnlyWhileEmpty
