--------------------------- MODULE MCDrawReserve ---------------------------
(***************************************************************************)
(* Instances of DrawReserve for TLC.                                       *)
(***************************************************************************)
EXTENDS DrawReserve, TLC

CONSTANTS t1, t2, t3, campaign, otherCampaign, gold, silver, r1, r2, k1

\* Two tokens of a campaign, one of another; two tiers.
Campaigns == t1 :> campaign @@ t2 :> campaign @@ t3 :> otherCampaign
Tiers == t1 :> gold @@ t2 :> silver @@ t3 :> gold

\* Two equal tokens of one campaign.
OneCampaign == [t \in Token |-> campaign]
OneTier == [t \in Token |-> gold]

\* Of three requests with two keys, two share one: let them be r1 and r2, and
\* the key k1.  (Liveness forbids the symmetry reduction.)
TwoShareAKey == \A r \in {r1, r2} : KeyOf(r) = k1
InstanceInit == Init /\ TwoShareAKey
FairInstance == InstanceInit /\ [][Next]_vars /\ Fairness
=============================================================================
