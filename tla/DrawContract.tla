---------------------------- MODULE DrawContract ----------------------------
(***************************************************************************)
(* What draw() promises: a draw is one atomic reservation that takes a     *)
(* token out of the stock or none, is entered in the ledger under its key, *)
(* and is what every call with that key and fingerprint is told from then  *)
(* on.  DrawReserve implements it.                                         *)
(***************************************************************************)
CONSTANTS Request, Key, ClientId, Campaign, Token, Tier,
          TokenCampaign, TokenTier, DemoToken, None

VARIABLES input,      \* the arguments of each call
          answer,     \* the kind of answer each call was given
          told,       \* the draw each call was told, when DrawReserved
          stock,      \* the tokens that can be won
          ledger      \* the reservations

vars == <<input, answer, told, stock, ledger>>

Fingerprint == [campaign : Campaign, clientRequestId : ClientId]

Reserved(r) == {row \in ledger : row.key = input[r].key}
Own(r, row) == row.fingerprint = input[r].fingerprint
Public(row) == [drawId |-> row.drawId, resultType |-> row.resultType,
                prizeTier |-> row.prizeTier]

Init ==
  /\ input \in [Request -> [key : Key, fingerprint : Fingerprint]]
  /\ answer = [r \in Request |-> "none"]
  /\ told = [r \in Request |-> None]
  /\ stock = Token
  /\ ledger = {}

Tell(r, a, draw) == /\ answer[r] = "none"
                    /\ answer' = [answer EXCEPT ![r] = a]
                    /\ told' = [told EXCEPT ![r] = draw]

\* The caller may be gone before it hears the outcome.
Enter(r, type, tier) ==
  LET row == [drawId |-> r, key |-> input[r].key,
              fingerprint |-> input[r].fingerprint,
              resultType |-> type, prizeTier |-> tier]
  IN  /\ Reserved(r) = {}
      /\ ledger' = ledger \cup {row}
      /\ \/ Tell(r, "DrawReserved", Public(row))
         \/ Tell(r, "ERROR", None)

ReservePrize(r) ==
  /\ \E t \in stock : /\ TokenCampaign[t] = input[r].fingerprint.campaign
                      /\ stock' = stock \ {t}
                      /\ Enter(r, "PRIZE", TokenTier[t])
  /\ UNCHANGED input

ReserveOther(r) ==
  /\ \E type \in {"POINT", "NO_WIN"} : Enter(r, type, None)
  /\ UNCHANGED <<input, stock>>

\* Mutant: a key that a call has brought, and not yet reserved, is a conflict.
Inform_AnyConflict(r) ==
  /\ \/ \E row \in Reserved(r) :
          IF Own(r, row) THEN Tell(r, "DrawReserved", Public(row))
                         ELSE Tell(r, "IDEMPOTENCY_CONFLICT", None)
     \/ Reserved(r) = {} /\ Tell(r, "IDEMPOTENCY_CONFLICT", None)
     \/ Tell(r, "ERROR", None)
  /\ UNCHANGED <<input, stock, ledger>>

\* Answers that reserve nothing.
Inform(r) ==
  /\ \/ \E row \in Reserved(r) :
          IF Own(r, row) THEN Tell(r, "DrawReserved", Public(row))
                         ELSE Tell(r, "IDEMPOTENCY_CONFLICT", None)
     \/ Tell(r, "ERROR", None)
  /\ UNCHANGED <<input, stock, ledger>>

\* The seed puts a demo token back; the draw that won it stays.
Restock(t) ==
  /\ stock' = stock \cup {t}
  /\ UNCHANGED <<input, answer, told, ledger>>

Next == \/ \E r \in Request : ReservePrize(r) \/ ReserveOther(r) \/ Inform(r)
        \/ \E t \in DemoToken : Restock(t)

Spec == Init /\ [][Next]_vars
=============================================================================
