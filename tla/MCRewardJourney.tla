-------------------------- MODULE MCRewardJourney --------------------------
(***************************************************************************)
(* Instances of RewardJourney for TLC.                                     *)
(***************************************************************************)
EXTENDS RewardJourney, TLC

CONSTANTS t1, t2, t3, home, away, gold, plain, silver, bean, leaf, r1, k1, c1

\* A token of a tier with an item and one of a tier without in the current
\* campaign, and one of a tier with an item in another.
Campaigns == t1 :> home @@ t2 :> home @@ t3 :> away
Tiers == t1 :> gold @@ t2 :> plain @@ t3 :> silver
Links == gold :> bean @@ plain :> None @@ silver :> leaf
Places == bean :> home @@ leaf :> away

\* Keys and client ids are alike: let those of r1 be k1 and c1.  (Liveness
\* forbids the symmetry reduction.)  r1 plays at home, r2 anywhere.
FirstNames == /\ input[r1].key = k1
              /\ input[r1].fingerprint.clientRequestId = c1
              /\ input[r1].fingerprint.campaign = home
InstanceInit == JourneyInit /\ FirstNames
FairInstance == InstanceInit /\ [][JourneyNext]_journeyVars /\ JourneyFairness
=============================================================================
