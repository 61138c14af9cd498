--------------------------- MODULE MCJourneyPanel ---------------------------
(***************************************************************************)
(* Instances of JourneyPanel for TLC.                                      *)
(***************************************************************************)
EXTENDS JourneyPanel, TLC

CONSTANTS t1, campaign, gold

\* One token.
Campaigns == [t \in Token |-> campaign]
Tiers == [t \in Token |-> gold]

Symmetry == Permutations(Request) \cup Permutations(Journey)
=============================================================================
