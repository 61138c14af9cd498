---------------------------- MODULE DrawReserve ----------------------------
(***************************************************************************)
(* DrawService.draw (packages/domain/reward/src/index.ts) over PostgreSQL  *)
(* at READ COMMITTED.  Each Request is one call of draw(); a retry is      *)
(* another Request with the same key.  Requests interleave at every await; *)
(* SELECT ... FOR UPDATE SKIP LOCKED never waits, the INSERT into          *)
(* reward.draw_ledger waits for an uncommitted row with the same           *)
(* idempotency_key, and every statement needs a client of the pg pool.     *)
(* Writes of a transaction become visible at its Commit.                   *)
(*                                                                         *)
(* draw_id is a fresh UUID of each attempt, and a call makes one attempt:  *)
(* the draw id is the Request.  The demo seed (scripts/seed/run-seed.mjs)  *)
(* may run at any time beside the draws: it makes the demo tokens          *)
(* Available, one autocommit statement per token on a pool of its own, and *)
(* keeps the draws that won them.                                          *)
(*                                                                         *)
(* The SHA-256 fingerprint of (campaign_id, client_request_id) is the      *)
(* pair.  point_amount is 100 for POINT and null otherwise, so result_type *)
(* stands for it.                                                          *)
(***************************************************************************)
EXTENDS Naturals, FiniteSets

CONSTANTS Request,        \* calls of draw()
          Key,            \* values of the Idempotency-Key header
          ClientId,       \* values of client_request_id
          Campaign,       \* values of campaign_id
          Token,          \* rows of reward.prize_token
          Tier,           \* rows of reward.prize_tier
          TokenCampaign,  \* prize_token.campaign_id
          TokenTier,      \* prize_token.prize_tier_id
          DemoToken,      \* the rows that the seed resets
          None,           \* NULL, no holder, no token
          PoolSize        \* clients of the pg pool

ASSUME DrawAssumption == /\ TokenCampaign \in [Token -> Campaign]
                         /\ TokenTier \in [Token -> Tier]
                         /\ DemoToken \subseteq Token
                         /\ None \notin Request \cup Token \cup Tier
                         /\ PoolSize \in Nat \ {0}

VARIABLES input,        \* the arguments of each call
          pc,           \* the await each call is at
          category,     \* what pickCategory returned
          token,        \* the token row each call has locked and claimed
          result,       \* the DrawResult each call has in hand
          answer,       \* what the caller of draw() was told
          tokenStatus,  \* prize_token.status, committed
          claimedBy,    \* prize_token.claimed_by_draw_id, committed
          ledger,       \* reward.draw_ledger, committed
          outbox,       \* platform.event_outbox, committed
          returned,     \* history: the draws whose token was reset later
          tokenLock,    \* the FOR UPDATE holder of each token row
          keyLock       \* the holder of the uncommitted unique-index entry

local  == <<input, pc, category, token, result, answer>>
tables == <<tokenStatus, claimedBy, ledger, outbox, returned>>
locks  == <<tokenLock, keyLock>>
vars   == <<input, pc, category, token, result, answer, tokenStatus,
            claimedBy, ledger, outbox, returned, tokenLock, keyLock>>

ResultType == {"PRIZE", "POINT", "NO_WIN"}
Fingerprint == [campaign : Campaign, clientRequestId : ClientId]
DrawResult == [drawId : Request \cup {None}, resultType : ResultType,
               prizeTier : Tier \cup {None}]
LedgerRow == [drawId : Request, key : Key, fingerprint : Fingerprint,
              resultType : ResultType, prizeTier : Tier \cup {None}]

InTransaction == {"pick", "insert", "commit"}
Step == {"start", "connect", "reread", "done"} \cup InTransaction

TypeOK ==
  /\ input \in [Request -> [key : Key, fingerprint : Fingerprint]]
  /\ pc \in [Request -> Step]
  /\ category \in [Request -> ResultType \cup {None}]
  /\ token \in [Request -> Token \cup {None}]
  /\ result \in [Request -> DrawResult]
  /\ answer \in [Request -> {"none", "DrawReserved", "IDEMPOTENCY_CONFLICT",
                             "ERROR"}]
  /\ tokenStatus \in [Token -> {"Available", "Claimed"}]
  /\ claimedBy \in [Token -> Request \cup {None}]
  /\ ledger \subseteq LedgerRow
  /\ outbox \subseteq DrawResult
  /\ returned \subseteq Request
  /\ tokenLock \in [Token -> Request \cup {None}]
  /\ keyLock \in [Key -> Request \cup {None}]

-----------------------------------------------------------------------------
ClientFree == Cardinality({r \in Request : pc[r] \in InTransaction}) < PoolSize

KeyOf(r) == input[r].key
Fp(r) == input[r].fingerprint

\* checkIdempotency: the row under the caller's key, and toDrawResult of it.
Recorded(r) == {row \in ledger : row.key = KeyOf(r)}
ToDrawResult(row) == [drawId |-> row.drawId, resultType |-> row.resultType,
                      prizeTier |-> row.prizeTier]

NoResult == [drawId |-> None, resultType |-> "NO_WIN", prizeTier |-> None]

Goto(r, step) == pc' = [pc EXCEPT ![r] = step] /\ UNCHANGED answer

Reply(r, a) == /\ pc' = [pc EXCEPT ![r] = "done"]
               /\ answer' = [answer EXCEPT ![r] = a]

\* Mutant: the fingerprint of the recorded row is not compared.
Replay_AnyFingerprint(r) ==
  \E row \in Recorded(r) :
    /\ result' = [result EXCEPT ![r] = ToDrawResult(row)]
    /\ Reply(r, "DrawReserved")

\* The answer a row recorded under the caller's key leads to.
Replay(r) ==
  \E row \in Recorded(r) :
    \/ /\ row.fingerprint = Fp(r)
       /\ result' = [result EXCEPT ![r] = ToDrawResult(row)]
       /\ Reply(r, "DrawReserved")
    \/ /\ row.fingerprint # Fp(r)
       /\ Reply(r, "IDEMPOTENCY_CONFLICT")
       /\ UNCHANGED result

\* COMMIT and ROLLBACK release the token row and the index entry of r.
Release(r) ==
  /\ tokenLock' = [t \in Token |-> IF tokenLock[t] = r THEN None
                                                       ELSE tokenLock[t]]
  /\ keyLock' = [k \in Key |-> IF keyLock[k] = r THEN None ELSE keyLock[k]]

\* Mutant: SELECT without FOR UPDATE SKIP LOCKED.
Claimable_NoLock(r) == {t \in Token : /\ TokenCampaign[t] = Fp(r).campaign
                                      /\ tokenStatus[t] = "Available"}

\* Mutant: the token query forgets the campaign.
Claimable_AnyCampaign(r) == {t \in Token : /\ tokenStatus[t] = "Available"
                                           /\ tokenLock[t] = None}

\* The tokens SELECT ... WHERE status = 'Available' FOR UPDATE SKIP LOCKED
\* can return to r.
Claimable(r) == {t \in Token : /\ TokenCampaign[t] = Fp(r).campaign
                               /\ tokenStatus[t] = "Available"
                               /\ tokenLock[t] = None}

-----------------------------------------------------------------------------
Init ==
  /\ input \in [Request -> [key : Key, fingerprint : Fingerprint]]
  /\ pc = [r \in Request |-> "start"]
  /\ category = [r \in Request |-> None]
  /\ token = [r \in Request |-> None]
  /\ result = [r \in Request |-> NoResult]
  /\ answer = [r \in Request |-> "none"]
  /\ tokenStatus = [t \in Token |-> "Available"]
  /\ claimedBy = [t \in Token |-> None]
  /\ ledger = {}
  /\ outbox = {}
  /\ returned = {}
  /\ tokenLock = [t \in Token |-> None]
  /\ keyLock = [k \in Key |-> None]

\* The first checkIdempotency, outside any transaction.
Precheck(r) ==
  /\ pc[r] = "start"
  /\ ClientFree
  /\ \/ Recorded(r) = {} /\ Goto(r, "connect") /\ UNCHANGED result
     \/ Replay(r)
  /\ UNCHANGED <<input, category, token, tables, locks>>

\* withTransaction: pool.connect() and BEGIN.
Begin(r) ==
  /\ pc[r] = "connect"
  /\ ClientFree
  /\ Goto(r, "pick")
  /\ UNCHANGED <<input, category, token, result, tables, locks>>

\* The outcome is rolled once; a PRIZE roll claims a token nobody holds, and
\* degrades to NO_WIN when the query returns none.
Determine(r, c, type, t) ==
  /\ category' = [category EXCEPT ![r] = c]
  /\ token' = [token EXCEPT ![r] = t]
  /\ result' = [result EXCEPT ![r] =
                 [drawId |-> r, resultType |-> type,
                  prizeTier |-> IF t = None THEN None ELSE TokenTier[t]]]
  /\ Goto(r, "insert")

PickPrize(r) ==
  /\ pc[r] = "pick"
  /\ \E t \in Claimable(r) :
       /\ tokenLock' = [tokenLock EXCEPT ![t] = r]
       /\ Determine(r, "PRIZE", "PRIZE", t)
  /\ UNCHANGED <<input, tables, keyLock>>

\* Mutant: a sold-out roll is recorded as a PRIZE all the same.
PickSoldOut_Oversell(r) ==
  /\ pc[r] = "pick"
  /\ Claimable(r) = {}
  /\ Determine(r, "PRIZE", "PRIZE", None)
  /\ UNCHANGED <<input, tables, locks>>

PickSoldOut(r) ==
  /\ pc[r] = "pick"
  /\ Claimable(r) = {}
  /\ Determine(r, "PRIZE", "NO_WIN", None)
  /\ UNCHANGED <<input, tables, locks>>

\* Mutant: a category the CHECK constraint of result_type refuses.
PickOther_Unknown(r) ==
  /\ pc[r] = "pick"
  /\ \E c \in {"POINT", "NO_WIN"} : Determine(r, c, "POINTS", None)
  /\ UNCHANGED <<input, tables, locks>>

PickOther(r) ==
  /\ pc[r] = "pick"
  /\ \E c \in {"POINT", "NO_WIN"} : Determine(r, c, c, None)
  /\ UNCHANGED <<input, tables, locks>>

\* INSERT INTO reward.draw_ledger: waits for an uncommitted row with the
\* same key; a committed one is error 23505, the transaction rolls back,
\* claimed token included, and draw() reads the winner.
InsertLedger(r) ==
  /\ pc[r] = "insert"
  /\ keyLock[KeyOf(r)] = None
  /\ \/ /\ Recorded(r) = {}
        /\ keyLock' = [keyLock EXCEPT ![KeyOf(r)] = r]
        /\ Goto(r, "commit")
        /\ UNCHANGED <<token, tokenLock>>
     \/ /\ Recorded(r) # {}
        /\ Goto(r, "reread")
        /\ token' = [token EXCEPT ![r] = None]
        /\ Release(r)
  /\ UNCHANGED <<input, category, result, tables>>

\* Mutant: the token is claimed, its result is not in the outbox.
Commit_NoOutbox(r) ==
  /\ pc[r] = "commit"
  /\ tokenStatus' = [t \in Token |-> IF t = token[r] THEN "Claimed"
                                                     ELSE tokenStatus[t]]
  /\ claimedBy' = [t \in Token |-> IF t = token[r] THEN r ELSE claimedBy[t]]
  /\ ledger' = ledger \cup {[drawId |-> r, key |-> KeyOf(r),
                             fingerprint |-> Fp(r),
                             resultType |-> result[r].resultType,
                             prizeTier |-> result[r].prizeTier]}
  /\ \E a \in {"DrawReserved", "ERROR"} : Reply(r, a)
  /\ Release(r)
  /\ UNCHANGED <<input, category, token, result, outbox, returned>>

\* writeOutboxEvent and COMMIT; the acknowledgement may be lost (ERROR).
Commit(r) ==
  /\ pc[r] = "commit"
  /\ tokenStatus' = [t \in Token |-> IF t = token[r] THEN "Claimed"
                                                     ELSE tokenStatus[t]]
  /\ claimedBy' = [t \in Token |-> IF t = token[r] THEN r ELSE claimedBy[t]]
  /\ ledger' = ledger \cup {[drawId |-> r, key |-> KeyOf(r),
                             fingerprint |-> Fp(r),
                             resultType |-> result[r].resultType,
                             prizeTier |-> result[r].prizeTier]}
  /\ outbox' = outbox \cup {result[r]}
  /\ \E a \in {"DrawReserved", "ERROR"} : Reply(r, a)
  /\ Release(r)
  /\ UNCHANGED <<input, category, token, result, returned>>

\* Mutant: the loser of the race answers the outcome it had rolled itself.
Reread_OwnRoll(r) ==
  /\ pc[r] = "reread"
  /\ ClientFree
  /\ Reply(r, "DrawReserved")
  /\ UNCHANGED <<input, category, token, result, tables, locks>>

\* checkIdempotency after the rollback; without a row the error is rethrown.
Reread(r) ==
  /\ pc[r] = "reread"
  /\ ClientFree
  /\ \/ Replay(r)
     \/ Recorded(r) = {} /\ Reply(r, "ERROR") /\ UNCHANGED result
  /\ UNCHANGED <<input, category, token, tables, locks>>

\* Mutant: the catch block forgets ROLLBACK, the client keeps its locks.
Abort_NoRollback(r) ==
  /\ pc[r] # "done"
  /\ Reply(r, "ERROR")
  /\ UNCHANGED <<input, category, token, result, tables, locks>>

\* A query throws (ROLLBACK, rethrow) or the process stops.
Abort(r) ==
  /\ pc[r] # "done"
  /\ Reply(r, "ERROR")
  /\ token' = [token EXCEPT ![r] = None]
  /\ Release(r)
  /\ UNCHANGED <<input, category, result, tables>>

\* Mutant: the seed forgets claimed_by_draw_id.
SeedToken_KeepsClaim(t) ==
  /\ tokenLock[t] = None
  /\ tokenStatus' = [tokenStatus EXCEPT ![t] = "Available"]
  /\ returned' = returned \cup ({claimedBy[t]} \ {None})
  /\ UNCHANGED <<local, claimedBy, ledger, outbox, locks>>

\* seedRewardPool: INSERT ... ON CONFLICT DO UPDATE of one token waits for
\* the holder of its row, then makes it Available.
SeedToken(t) ==
  /\ tokenLock[t] = None
  /\ tokenStatus' = [tokenStatus EXCEPT ![t] = "Available"]
  /\ claimedBy' = [claimedBy EXCEPT ![t] = None]
  /\ returned' = returned \cup ({claimedBy[t]} \ {None})
  /\ UNCHANGED <<local, ledger, outbox, locks>>

Progress(r) ==
  \/ Precheck(r) \/ Begin(r) \/ PickPrize(r) \/ PickSoldOut(r) \/ PickOther(r)
  \/ InsertLedger(r) \/ Commit(r) \/ Reread(r)

Finished == (\A r \in Request : pc[r] = "done") /\ UNCHANGED vars

\* Without errors, lost connections or stops.
Serve == (\E r \in Request : Progress(r)) \/ Finished

Next == \/ Serve
        \/ \E r \in Request : Abort(r)
        \/ \E t \in DemoToken : SeedToken(t)

Spec == Init /\ [][Next]_vars
ServeSpec == Init /\ [][Serve]_vars

\* The event loop and the database serve every call that is not waiting;
\* nothing forces an error, or a run of the seed, to happen.
Fairness == \A r \in Request : WF_vars(Progress(r))
FairSpec == Spec /\ Fairness

-----------------------------------------------------------------------------
\* No oversell (header comment, lines 13-18), as an account that balances in
\* every committed state: each Claimed token is the prize of exactly one
\* PRIZE row of its campaign and tier, each PRIZE row owns exactly one token,
\* or none once the seed has returned it, and the transactions that lost or
\* failed left no token claimed.
InventoryMatchesLedger ==
  /\ \A t \in Token : tokenStatus[t] = "Claimed" <=> claimedBy[t] # None
  /\ \A t \in Token : claimedBy[t] # None =>
       \E row \in ledger :
         /\ row.drawId = claimedBy[t]
         /\ row.resultType = "PRIZE"
         /\ row.prizeTier = TokenTier[t]
         /\ row.fingerprint.campaign = TokenCampaign[t]
  /\ \A row \in ledger : row.resultType = "PRIZE" =>
       IF row.drawId \in returned
       THEN \A t \in Token : claimedBy[t] # row.drawId
       ELSE \E t \in Token : \A u \in Token :
              claimedBy[u] = row.drawId <=> u = t

\* One logical draw has one outcome: two calls under one key that are both
\* told a result are told the same draw, whichever of them won the race to
\* the ledger, and whatever each had rolled meanwhile.
SameKeySameResult ==
  \A r, s \in Request :
    /\ KeyOf(r) = KeyOf(s)
    /\ answer[r] = "DrawReserved" /\ answer[s] = "DrawReserved"
    => result[r] = result[s] /\ Fp(r) = Fp(s)

\* The ledger and the outbox describe the same draws, whatever failed or was
\* rolled back meanwhile (withTransaction: "the sole mechanism by which a
\* domain write and its outbox row share one atomic transaction").
OutboxMatchesLedger == outbox = {ToDrawResult(row) : row \in ledger}

\* No settlement rerandomization (header comment, lines 8-11): a reserved
\* outcome is final, and so is the claim of a token until the seed returns it.
ReservationIsFinal ==
  [][/\ ledger \subseteq ledger'
     /\ \A t \in Token : claimedBy[t] # None =>
          claimedBy'[t] = claimedBy[t] \/ claimedBy[t] \in returned'
     /\ \A r \in Request : answer[r] # "none" =>
          answer'[r] = answer[r] /\ result'[r] = result[r]]_vars

\* Every draw is answered: neither the ledger's index nor the pool ever
\* leaves calls waiting for one another.
EveryDrawAnswered == \A r \in Request : <>(pc[r] = "done")

\* The service implements its contract: seen through what is committed, every
\* draw is one atomic reservation.
Contract == INSTANCE DrawContract WITH
  told  <- [r \in Request |-> IF answer[r] = "DrawReserved" THEN result[r]
                                                            ELSE None],
  stock <- {t \in Token : tokenStatus[t] = "Available"}
ImplementsContract == Contract!Spec

\* Header comment, lines 19-20, and the comment at line 203: a PRIZE roll
\* becomes NO_WIN when no token is available (sold out), so once every call
\* has ended a campaign that turned a PRIZE roll away has no token left.
NoWinOnlyWhenSoldOut ==
  (\A r \in Request : pc[r] = "done") =>
    \A r \in Request :
      /\ category[r] = "PRIZE"
      /\ answer[r] = "DrawReserved"
      /\ result[r].drawId = r
      /\ result[r].resultType = "NO_WIN"
      => \A t \in Token :
           TokenCampaign[t] = Fp(r).campaign => tokenStatus[t] = "Claimed"
=============================================================================
