--------------------------- MODULE RewardJourney ---------------------------
(***************************************************************************)
(* POST /api/v1/reward/draws and GET /api/v1/me: what the BFF composes out *)
(* of the reward, wallet and collection services.  The draw is the atomic  *)
(* reservation of DrawContract; it is followed, in transactions of their   *)
(* own, by the wallet posting of a POINT or the collection unlock of a     *)
(* PRIZE, and any of these calls may fail, or succeed and not be heard of. *)
(* A client may send a failed request again, with the same key and body.   *)
(* /me reads member, wallet and campaign in any order, then the            *)
(* collection.                                                             *)
(*                                                                         *)
(* The demo seed may make tokens Available meanwhile; it leaves points and *)
(* unlocks alone.                                                          *)
(*                                                                         *)
(* No code changes a campaign, so getCurrent returns the same one always.  *)
(* There is one member (DemoMemberContextProvider).  A Request enters at   *)
(* most one row in the draw ledger, in whichever attempt does, so that it  *)
(* still names the draw.  The feature flags are on.                        *)
(***************************************************************************)
EXTENDS DrawContract, Naturals, FiniteSets

CONSTANTS Item,            \* rows of ip_asset.collection_item
          ItemCampaign,    \* the campaign of each item
          LinkedItem,      \* the item linked to each tier, or None
          CurrentCampaign  \* the oldest campaign that is Active

ASSUME JourneyAssumption == /\ LinkedItem \in [Tier -> Item \cup {None}]
                            /\ None \notin Item
                            /\ ItemCampaign \in [Item -> Campaign]
                            /\ CurrentCampaign \in Campaign
                            /\ TokenTier \in [Token -> Tier]
                            /\ DemoToken \subseteq Token

VARIABLES stage,     \* the await of createDraw each request is at
          http,      \* the status code each request was answered with
          wallet,    \* wallet.ledger_entry
          unlocks,   \* ip_asset.member_unlock
          pending,   \* the parts of /me that were not read yet
          sawWallet, \* the entries getSummary folded for /me
          sawItems,  \* the unlocked items getCollection returned
          settled    \* the requests answered 200 when /me was asked for

draws == <<input, answer, told, stock, ledger>>
posts == <<wallet, unlocks>>
me    == <<pending, sawWallet, sawItems, settled>>
journeyVars == <<draws, stage, http, posts, me>>

Part == {"member", "wallet", "campaign", "collection"}
PointAward == 100

\* The items that /me lists: those of the current campaign.
Collection == {i \in Item : ItemCampaign[i] = CurrentCampaign}

JourneyTypeOK ==
  /\ stage \in [Request -> {"draw", "wallet", "select", "unlock", "done"}]
  /\ http \in [Request -> {"none", "200", "409", "500"}]
  /\ wallet \subseteq [source : Request, amount : {PointAward}, by : Request]
  /\ unlocks \subseteq [item : Item, source : Request, by : Request]
  /\ pending \subseteq Part
  /\ sawWallet \subseteq wallet
  /\ sawItems \subseteq Collection
  /\ settled \subseteq Request

-----------------------------------------------------------------------------
JourneyInit ==
  /\ Init
  /\ stage = [r \in Request |-> "draw"]
  /\ http = [r \in Request |-> "none"]
  /\ wallet = {}
  /\ unlocks = {}
  /\ pending = {}
  /\ sawWallet = {}
  /\ sawItems = {}
  /\ settled = {}

Goto(r, s) == stage' = [stage EXCEPT ![r] = s] /\ UNCHANGED http

Respond(r, code) == /\ stage' = [stage EXCEPT ![r] = "done"]
                    /\ http' = [http EXCEPT ![r] = code]

\* Mutant: the settlement is not awaited.
Continue_NoAwait(r) ==
  \/ answer'[r] = "ERROR" /\ Respond(r, "500")
  \/ answer'[r] = "IDEMPOTENCY_CONFLICT" /\ Respond(r, "409")
  \/ answer'[r] = "DrawReserved" /\ Respond(r, "200")

\* Mutant: a replayed draw is not settled again.
Continue_FreshOnly(r) ==
  \/ answer'[r] = "ERROR" /\ Respond(r, "500")
  \/ answer'[r] = "IDEMPOTENCY_CONFLICT" /\ Respond(r, "409")
  \/ /\ answer'[r] = "DrawReserved"
     /\ \/ ledger' # ledger /\ told'[r].resultType = "POINT" /\ Goto(r, "wallet")
        \/ ledger' # ledger /\ told'[r].resultType = "PRIZE" /\ Goto(r, "select")
        \/ /\ ledger' = ledger \/ told'[r].resultType = "NO_WIN"
           /\ Respond(r, "200")

\* What createDraw does with the answer of draw().
Continue(r) ==
  \/ answer'[r] = "ERROR" /\ Respond(r, "500")
  \/ answer'[r] = "IDEMPOTENCY_CONFLICT" /\ Respond(r, "409")
  \/ /\ answer'[r] = "DrawReserved"
     /\ \/ told'[r].resultType = "POINT" /\ Goto(r, "wallet")
        \/ told'[r].resultType = "PRIZE" /\ Goto(r, "select")
        \/ told'[r].resultType = "NO_WIN" /\ Respond(r, "200")

Draw(r) ==
  /\ stage[r] = "draw"
  /\ ReservePrize(r) \/ ReserveOther(r) \/ Inform(r)
  /\ Continue(r)
  /\ UNCHANGED <<posts, me>>

\* Mutant: without ON CONFLICT DO NOTHING and its unique constraint.
PostPoints_Always(r) ==
  /\ stage[r] = "wallet"
  /\ wallet' = wallet \cup {[source |-> told[r].drawId,
                             amount |-> PointAward, by |-> r]}
  /\ \E code \in {"200", "500"} : Respond(r, code)
  /\ UNCHANGED <<draws, unlocks, me>>

\* postDrawPoints: INSERT ... ON CONFLICT (source_type, source_id) DO NOTHING.
PostPoints(r) ==
  /\ stage[r] = "wallet"
  /\ wallet' = wallet \cup
       {e \in {[source |-> told[r].drawId, amount |-> PointAward, by |-> r]} :
          \A f \in wallet : f.source # e.source}
  /\ \E code \in {"200", "500"} : Respond(r, code)
  /\ UNCHANGED <<draws, unlocks, me>>

Linked(r) == LinkedItem[told[r].prizeTier]

\* Mutant: the row count of the first query is not looked at.
SelectItem_NoCheck(r) ==
  /\ stage[r] = "select"
  /\ Goto(r, "unlock")
  /\ UNCHANGED <<draws, posts, me>>

\* unlockFromPrizeDraw: the item of the tier; a tier may have none.
SelectItem(r) ==
  /\ stage[r] = "select"
  /\ \/ Linked(r) = None /\ Respond(r, "200")
     \/ Linked(r) # None /\ Goto(r, "unlock")
  /\ UNCHANGED <<draws, posts, me>>

\* Mutant: unique by source only, so that an item is unlocked per draw.
InsertUnlock_PerDraw(r) ==
  /\ stage[r] = "unlock"
  /\ unlocks' = unlocks \cup
       {v \in {[item |-> Linked(r), source |-> told[r].drawId, by |-> r]} :
          \A u \in unlocks : u.source # v.source}
  /\ \E code \in {"200", "500"} : Respond(r, code)
  /\ UNCHANGED <<draws, wallet, me>>

\* INSERT ... ON CONFLICT (member_id, item_id) DO NOTHING.
InsertUnlock(r) ==
  /\ stage[r] = "unlock"
  /\ unlocks' = unlocks \cup
       {v \in {[item |-> Linked(r), source |-> told[r].drawId, by |-> r]} :
          \A u \in unlocks : u.item # v.item}
  /\ \E code \in {"200", "500"} : Respond(r, code)
  /\ UNCHANGED <<draws, wallet, me>>

\* A call of the wallet or collection service throws, or the process stops.
Outage(r) ==
  /\ stage[r] \in {"wallet", "select", "unlock"}
  /\ Respond(r, "500")
  /\ UNCHANGED <<draws, posts, me>>

\* A client that was answered 500 sends the same request again.
Retry(r) ==
  /\ http[r] = "500"
  /\ stage' = [stage EXCEPT ![r] = "draw"]
  /\ http' = [http EXCEPT ![r] = "none"]
  /\ answer' = [answer EXCEPT ![r] = "none"]
  /\ told' = [told EXCEPT ![r] = None]
  /\ UNCHANGED <<input, stock, ledger, posts, me>>

\* Mutant: the seed takes the unlocks back as well.
Reseed_Unlocks(t) ==
  /\ Restock(t)
  /\ unlocks' = {u \in unlocks : u.item # LinkedItem[TokenTier[t]]}
  /\ UNCHANGED <<stage, http, wallet, me>>

\* "unlock state is not reset -- earned unlocks persist across reseed".
Reseed(t) ==
  /\ Restock(t)
  /\ UNCHANGED <<stage, http, posts, me>>

-----------------------------------------------------------------------------
\* GET /api/v1/me.
AskMe ==
  /\ pending = {}
  /\ pending' = Part
  /\ settled' = {r \in Request : http[r] = "200"}
  /\ sawWallet' = {}
  /\ sawItems' = {}
  /\ UNCHANGED <<draws, stage, http, posts>>

\* Mutant: the summary is that of an earlier request (a cached fold).
ReadPart_CachedWallet(part) ==
  /\ part \in pending
  /\ pending' = pending \ {part}
  /\ UNCHANGED <<draws, stage, http, posts, sawWallet, sawItems, settled>>

\* One of the three reads of Promise.all.
ReadPart(part) ==
  /\ part \in pending
  /\ pending' = pending \ {part}
  /\ sawWallet' = IF part = "wallet" THEN wallet ELSE sawWallet
  /\ UNCHANGED <<draws, stage, http, posts, sawItems, settled>>

\* getCollection of the current campaign, once the three are there.
ReadCollection ==
  /\ pending = {"collection"}
  /\ pending' = {}
  /\ sawItems' = {i \in Collection : \E u \in unlocks : u.item = i}
  /\ UNCHANGED <<draws, stage, http, posts, sawWallet, settled>>

Handle(r) ==
  Draw(r) \/ PostPoints(r) \/ SelectItem(r) \/ InsertUnlock(r) \/ Outage(r)

ReadMe == AskMe \/ (\E part \in Part \ {"collection"} : ReadPart(part))
                \/ ReadCollection

JourneyNext == \/ \E r \in Request : Handle(r) \/ Retry(r)
               \/ ReadMe
               \/ \E t \in DemoToken : Reseed(t)

JourneySpec == JourneyInit /\ [][JourneyNext]_journeyVars

\* A step that neither fails nor loses its answer.
Heard(A, r) == A /\ http'[r] # "500"

\* The client keeps retrying and no outage lasts for ever.
JourneyFairness ==
  \A r \in Request :
    /\ WF_journeyVars(Retry(r))
    /\ SF_journeyVars(Heard(Draw(r), r))
    /\ SF_journeyVars(Heard(PostPoints(r) \/ SelectItem(r), r))
    /\ SF_journeyVars(Heard(InsertUnlock(r), r))
FairJourneySpec == JourneySpec /\ JourneyFairness

-----------------------------------------------------------------------------
\* The rows of the draw ledger that are worth something, and their effect.
Credited(row) == \E e \in wallet : e.source = row.drawId
Unlocked(row) == \E u \in unlocks : u.item = LinkedItem[row.prizeTier]
IsSettled(row) ==
  /\ row.resultType = "POINT" => Credited(row)
  /\ row.resultType = "PRIZE" /\ LinkedItem[row.prizeTier] # None
       => Unlocked(row)

\* No double credit and no credit out of nothing (reward.controller.ts:66-71,
\* "it never double-credits"): however calls of one draw overlap, fail and
\* are retried, the points of the member are 100 for each of a subset of the
\* POINT draws of the ledger.
CreditedOnceAsDrawn ==
  /\ \A e \in wallet : \E row \in ledger :
       row.drawId = e.source /\ row.resultType = "POINT"
  /\ \A e, f \in wallet : e.source = f.source => e = f

\* Collection membership is a state, not a count (ip_asset/src:5-9): an item
\* has one unlock, made by a draw that won its tier.
UnlockedOnceAsWon ==
  /\ \A u \in unlocks : \E row \in ledger :
       /\ row.drawId = u.source
       /\ row.resultType = "PRIZE"
       /\ LinkedItem[row.prizeTier] = u.item
  /\ \A u, v \in unlocks : u.item = v.item => u = v

\* A 200 is only sent once the draw it shows is settled, whichever call did
\* the settling.
AnsweredMeansSettled ==
  \A r \in Request : http[r] = "200" =>
    \E row \in Reserved(r) : Public(row) = told[r] /\ IsSettled(row)

\* /me, although it is four reads at four moments, shows every draw whose 200
\* was out when /me was asked for, if its item is of the current campaign.  (A
\* draw may be of any campaign, and its points are always shown.)
MeShowsSettledDraws ==
  pending = {} =>
    \A r \in settled :
      /\ told[r].resultType = "POINT" =>
           \E e \in sawWallet : e.source = told[r].drawId
      /\ told[r].resultType = "PRIZE" /\ Linked(r) \in Collection =>
           Linked(r) \in sawItems

\* Points and unlocks are never taken back, not even by a run of the seed
\* (run-seed.mjs:140, "earned unlocks persist across reseed").
NothingTakenBack ==
  [][wallet \subseteq wallet' /\ unlocks \subseteq unlocks']_journeyVars

\* What the handlers, services, outages and retries of this module add up to:
\* every draw is settled in one step, once, and only then shown
\* (reward.controller.ts:56-94).
Settlement == INSTANCE SettlementContract WITH
  draws    <- ledger,
  credited <- {e.source : e \in wallet},
  points   <- PointAward * Cardinality(wallet),
  items    <- {u.item : u \in unlocks},
  status   <- http,
  shown    <- [r \in Request |-> IF http[r] = "200" THEN told[r] ELSE None]
ImplementsSettlement == Settlement!Spec

\* A reserved draw whose handler failed half-way is settled in the end, if
\* its client keeps sending the request and no outage lasts for ever.
DrawsAreSettled ==
  \A r \in Request :
    (\E row \in ledger : row.drawId = r)
      ~> (\E row \in ledger : row.drawId = r /\ IsSettled(row))
=============================================================================
