------------------------------ MODULE MCQrScan ------------------------------
(***************************************************************************)
(* Instances of QrScan for TLC.                                            *)
(***************************************************************************)
EXTENDS QrScan, TLC

CONSTANTS r1, r2, k1

\* Of three requests with two ids, two share one: let them be r1 and r2, and
\* the id k1.  (Liveness forbids the symmetry reduction.)
TwoShareAnId == \A r \in {r1, r2} : Id(r) = k1
InstanceInit == Init /\ TwoShareAnId
FairInstance == InstanceInit /\ [][Next]_vars /\ Fairness
=============================================================================
