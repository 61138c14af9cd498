------------------------- MODULE SettlementContract -------------------------
(***************************************************************************)
(* What POST /api/v1/reward/draws promises its client: a key has one draw; *)
(* a draw that is worth something is settled once, in one step that adds   *)
(* its points or its item; and a 200 shows a draw that is settled.  A 500  *)
(* promises nothing, and may be sent again.  RewardJourney implements it.  *)
(***************************************************************************)
EXTENDS Naturals

CONSTANTS Request, Key, ClientId, Campaign, Tier, Item, LinkedItem, None

VARIABLES input,     \* the arguments of each request
          draws,     \* the reserved draws
          credited,  \* the draws whose points were added
          points,    \* the points of the member
          items,     \* the items of the member
          status,    \* the status code each request was answered with
          shown      \* the draw each 200 shows

vars == <<input, draws, credited, points, items, status, shown>>

PointAward == 100
Fingerprint == [campaign : Campaign, clientRequestId : ClientId]
Worth == {[resultType |-> "POINT", prizeTier |-> None],
          [resultType |-> "NO_WIN", prizeTier |-> None]}
           \cup [resultType : {"PRIZE"}, prizeTier : Tier]

Reserved(r) == {row \in draws : row.key = input[r].key}
Own(r, row) == row.fingerprint = input[r].fingerprint
Public(row) == [drawId |-> row.drawId, resultType |-> row.resultType,
                prizeTier |-> row.prizeTier]

OwesPoints(row) == row.resultType = "POINT" /\ row.drawId \notin credited
OwesItem(row) == /\ row.resultType = "PRIZE"
                 /\ LinkedItem[row.prizeTier] \notin items \cup {None}

Init ==
  /\ input \in [Request -> [key : Key, fingerprint : Fingerprint]]
  /\ draws = {}
  /\ credited = {}
  /\ points = 0
  /\ items = {}
  /\ status = [r \in Request |-> "none"]
  /\ shown = [r \in Request |-> None]

Respond(r, code, draw) == /\ status[r] = "none"
                          /\ status' = [status EXCEPT ![r] = code]
                          /\ shown' = [shown EXCEPT ![r] = draw]

\* A 200 for a draw just settled, or the 500 of a client that is not told.
Conclude(r, row) == Respond(r, "200", Public(row)) \/ Respond(r, "500", None)

Reserve(r) ==
  /\ Reserved(r) = {}
  /\ \E worth \in Worth :
       LET row == [drawId |-> r, key |-> input[r].key,
                   fingerprint |-> input[r].fingerprint,
                   resultType |-> worth.resultType, prizeTier |-> worth.prizeTier]
       IN  /\ draws' = draws \cup {row}
           /\ \/ UNCHANGED <<status, shown>>
              \/ Respond(r, "500", None)
              \/ row.resultType = "NO_WIN" /\ Respond(r, "200", Public(row))
  /\ UNCHANGED <<input, credited, points, items>>

AddPoints(r) ==
  /\ \E row \in Reserved(r) : /\ Own(r, row) /\ OwesPoints(row)
                              /\ credited' = credited \cup {row.drawId}
                              /\ Conclude(r, row)
  /\ points' = points + PointAward
  /\ UNCHANGED <<input, draws, items>>

AddItem(r) ==
  /\ \E row \in Reserved(r) : /\ Own(r, row) /\ OwesItem(row)
                              /\ items' = items \cup {LinkedItem[row.prizeTier]}
                              /\ Conclude(r, row)
  /\ UNCHANGED <<input, draws, credited, points>>

\* Answers that settle nothing.
Inform(r) ==
  /\ \/ \E row \in Reserved(r) :
          \/ /\ Own(r, row) /\ ~ OwesPoints(row) /\ ~ OwesItem(row)
             /\ Respond(r, "200", Public(row))
          \/ ~ Own(r, row) /\ Respond(r, "409", None)
     \/ Respond(r, "500", None)
  /\ UNCHANGED <<input, draws, credited, points, items>>

Retry(r) ==
  /\ status[r] = "500"
  /\ status' = [status EXCEPT ![r] = "none"]
  /\ UNCHANGED <<input, draws, credited, points, items, shown>>

Next == \E r \in Request :
          Reserve(r) \/ AddPoints(r) \/ AddItem(r) \/ Inform(r) \/ Retry(r)

Spec == Init /\ [][Next]_vars
=============================================================================
