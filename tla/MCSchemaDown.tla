---------------------------- MODULE MCSchemaDown ----------------------------
(***************************************************************************)
(* Instances of SchemaDown for TLC: the QR tables, whose scan_event refers *)
(* to code, and the wallet, a table of its own.                            *)
(***************************************************************************)
EXTENDS SchemaDown, TLC

CONSTANTS scan_event, code, ledger_entry, scan1, scan2, reseed, post

QrOrder == <<scan_event, code>>
QrParent == scan_event :> {code} @@ code :> {}
QrTarget == scan1 :> scan_event @@ scan2 :> scan_event @@ reseed :> code

\* What NoRowIsDropped asks of a migration holds of this one.
ASSUME QrGuarded == DropOrder = QrOrder => GuardsSeeEveryRow

WalletOrder == <<ledger_entry>>
WalletParent == ledger_entry :> {}
WalletTarget == post :> ledger_entry
=============================================================================
