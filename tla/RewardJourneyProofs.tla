------------------------ MODULE RewardJourneyProofs ------------------------
(***************************************************************************)
(* Theorems about RewardJourney, for any number of requests, keys, tokens, *)
(* tiers and items.                                                        *)
(***************************************************************************)
EXTENDS RewardJourney, FiniteSetTheorems, TLAPS

(***************************************************************************)
(* The inductive invariant.  The draw is not settled by whoever reserved   *)
(* it, but by whichever call gets that far: what ties the calls together   *)
(* is the row of the ledger that each of them was told of.                 *)
(***************************************************************************)

ResultType == {"PRIZE", "POINT", "NO_WIN"}
Shown == [drawId : Request, resultType : ResultType, prizeTier : Tier \cup {None}]
LedgerRow == [drawId : Request, key : Key, fingerprint : Fingerprint,
              resultType : ResultType, prizeTier : Tier \cup {None}]

\* The types of the contract's own variables; a PRIZE has a tier.
DrawTypeOK ==
  /\ input \in [Request -> [key : Key, fingerprint : Fingerprint]]
  /\ answer \in [Request -> {"none", "DrawReserved", "IDEMPOTENCY_CONFLICT", "ERROR"}]
  /\ told \in [Request -> Shown \cup {None}]
  /\ stock \subseteq Token
  /\ ledger \subseteq LedgerRow
  /\ \A row \in ledger : row.resultType = "PRIZE" => row.prizeTier \in Tier

\* What r was told is on record under its key and fingerprint.
OnRecord(r) == \E row \in Reserved(r) : Own(r, row) /\ Public(row) = told[r]

Settling == {"wallet", "select", "unlock"}

\* A call that is settling a draw was told of that draw, and of a kind that
\* has something to settle; a call that has answered is done.
StageTrace ==
  \A r \in Request :
    /\ stage[r] \in Settling => OnRecord(r)
    /\ stage[r] = "wallet" => told[r].resultType = "POINT"
    /\ stage[r] \in {"select", "unlock"} => told[r].resultType = "PRIZE"
    /\ stage[r] = "unlock" => Linked(r) # None
    /\ http[r] # "none" => stage[r] = "done"

\* A part of /me that has been read shows the draws that were settled before.
PartsShow ==
  /\ settled \subseteq {r \in Request : http[r] = "200"}
  /\ \A r \in settled :
       /\ "wallet" \notin pending /\ told[r].resultType = "POINT" =>
            \E e \in sawWallet : e.source = told[r].drawId
       /\ "collection" \notin pending /\ told[r].resultType = "PRIZE"
            /\ Linked(r) \in Collection => Linked(r) \in sawItems

IInv == /\ JourneyTypeOK
        /\ DrawTypeOK
        /\ StageTrace
        /\ CreditedOnceAsDrawn
        /\ UnlockedOnceAsWon
        /\ AnsweredMeansSettled
        /\ PartsShow

LEMMA InvInit == JourneyInit => IInv
<1> SUFFICES ASSUME JourneyInit
             PROVE  IInv
  OBVIOUS
<1>1. JourneyTypeOK /\ DrawTypeOK
  BY DEF JourneyInit, Init, JourneyTypeOK, DrawTypeOK
<1>2. StageTrace /\ AnsweredMeansSettled /\ PartsShow
  BY DEF JourneyInit, StageTrace, AnsweredMeansSettled, PartsShow, Settling
<1>3. CreditedOnceAsDrawn /\ UnlockedOnceAsWon
  BY DEF JourneyInit, CreditedOnceAsDrawn, UnlockedOnceAsWon
<1> QED
  BY <1>1, <1>2, <1>3 DEF IInv

-----------------------------------------------------------------------------
(***************************************************************************)
(* Draw and Retry touch the tables of DrawContract only.                   *)
(***************************************************************************)

\* What a draw may do to the ledger, and what its caller may be told.
LEMMA DrawStep ==
  ASSUME DrawTypeOK, NEW r \in Request,
         ReservePrize(r) \/ ReserveOther(r) \/ Inform(r)
  PROVE  /\ input' = input /\ stock' \subseteq stock
         /\ ledger \subseteq ledger' /\ ledger' \subseteq LedgerRow
         /\ \A row \in ledger' : row.resultType = "PRIZE" => row.prizeTier \in Tier
         /\ \E a \in {"DrawReserved", "IDEMPOTENCY_CONFLICT", "ERROR"} :
              answer' = [answer EXCEPT ![r] = a]
         /\ \E draw \in Shown \cup {None} : told' = [told EXCEPT ![r] = draw]
         /\ answer'[r] = "DrawReserved" =>
              \E row \in ledger' : /\ row.key = input[r].key
                                   /\ row.fingerprint = input[r].fingerprint
                                   /\ told' = [told EXCEPT ![r] = Public(row)]
<1> DEFINE Row(type, tier) ==
      [drawId |-> r, key |-> input[r].key, fingerprint |-> input[r].fingerprint,
       resultType |-> type, prizeTier |-> tier]
<1>1. ASSUME NEW type \in ResultType, NEW tier \in Tier \cup {None},
             Enter(r, type, tier), type = "PRIZE" => tier \in Tier
      PROVE  /\ ledger' = ledger \cup {Row(type, tier)}
             /\ Row(type, tier) \in LedgerRow
             /\ \E a \in {"DrawReserved", "ERROR"} :
                  answer' = [answer EXCEPT ![r] = a]
             /\ \E draw \in Shown \cup {None} : told' = [told EXCEPT ![r] = draw]
             /\ answer'[r] = "DrawReserved" =>
                  told' = [told EXCEPT ![r] = Public(Row(type, tier))]
  BY <1>1 DEF Enter, Tell, DrawTypeOK, LedgerRow, Public, Shown
<1>2. CASE ReservePrize(r)
  <2>1. PICK t \in stock : stock' = stock \ {t} /\ Enter(r, "PRIZE", TokenTier[t])
    BY <1>2 DEF ReservePrize
  <2>2. TokenTier[t] \in Tier
    BY JourneyAssumption DEF DrawTypeOK
  <2>3. "PRIZE" \in ResultType /\ TokenTier[t] \in Tier \cup {None}
    BY <2>2 DEF ResultType
  <2>4. /\ ledger' = ledger \cup {Row("PRIZE", TokenTier[t])}
        /\ Row("PRIZE", TokenTier[t]) \in LedgerRow
        /\ \E a \in {"DrawReserved", "ERROR"} :
             answer' = [answer EXCEPT ![r] = a]
        /\ \E draw \in Shown \cup {None} : told' = [told EXCEPT ![r] = draw]
        /\ answer'[r] = "DrawReserved" =>
             told' = [told EXCEPT ![r] = Public(Row("PRIZE", TokenTier[t]))]
    BY <1>1, <2>1, <2>2, <2>3 DEF Enter
  <2>5. input' = input
    BY <1>2 DEF ReservePrize
  <2>6. \A row \in ledger' : row.resultType = "PRIZE" => row.prizeTier \in Tier
    BY <2>2, <2>4 DEF DrawTypeOK
  <2>7. answer'[r] = "DrawReserved" =>
          \E row \in ledger' : /\ row.key = input[r].key
                               /\ row.fingerprint = input[r].fingerprint
                               /\ told' = [told EXCEPT ![r] = Public(row)]
    BY <2>4
  <2> QED
    BY <2>1, <2>4, <2>5, <2>6, <2>7 DEF DrawTypeOK
<1>3. CASE ReserveOther(r)
  <2>1. PICK type \in {"POINT", "NO_WIN"} : Enter(r, type, None)
    BY <1>3 DEF ReserveOther
  <2> QED
    BY <1>1, <1>3, <2>1 DEF ReserveOther, Enter, ResultType, DrawTypeOK
<1>4. CASE Inform(r)
  <2>1. \A row \in ledger : Public(row) \in Shown
    BY DEF DrawTypeOK, LedgerRow, Public, Shown
  <2> QED
    BY <1>4, <2>1 DEF Inform, Tell, Reserved, Own, DrawTypeOK
<1> QED
  BY <1>2, <1>3, <1>4

LEMMA DrawKind ==
  ASSUME NEW r \in Request, Draw(r)
  PROVE  ReservePrize(r) \/ ReserveOther(r) \/ Inform(r)
  BY DEF Draw

\* History grows: requests keep their arguments, tables lose nothing.
LEMMA Grows ==
  ASSUME IInv, [JourneyNext]_journeyVars
  PROVE  /\ input' = input /\ ledger \subseteq ledger'
         /\ wallet \subseteq wallet' /\ unlocks \subseteq unlocks'
<1> USE DEF draws, posts, me
<1>1. ASSUME NEW r \in Request, Draw(r)
      PROVE  input' = input /\ ledger \subseteq ledger' /\ UNCHANGED posts
  BY <1>1, DrawKind, DrawStep DEF IInv, Draw
<1>2. ASSUME NEW r \in Request, Handle(r) \/ Retry(r), ~ Draw(r)
      PROVE  /\ input' = input /\ ledger' = ledger
             /\ wallet \subseteq wallet' /\ unlocks \subseteq unlocks'
  BY <1>2 DEF Handle, PostPoints, SelectItem, InsertUnlock, Outage, Retry
<1>3. CASE ReadMe
  BY <1>3 DEF ReadMe, AskMe, ReadPart, ReadCollection
<1>4. ASSUME NEW t \in DemoToken, Reseed(t)
      PROVE  UNCHANGED <<input, ledger, posts>>
  BY <1>4 DEF Reseed, Restock
<1>5. CASE UNCHANGED journeyVars
  BY <1>5 DEF journeyVars
<1> QED
  BY <1>1, <1>2, <1>3, <1>4, <1>5 DEF JourneyNext

\* A step of one request leaves the others alone.
LEMMA Frame ==
  ASSUME IInv, NEW r \in Request, NEW s \in Request \ {r}, Handle(r) \/ Retry(r)
  PROVE  /\ stage'[s] = stage[s] /\ http'[s] = http[s]
         /\ answer'[s] = answer[s] /\ told'[s] = told[s]
<1> USE DEF Goto, Respond, draws
<1>1. CASE Draw(r)
  BY <1>1, DrawKind, DrawStep DEF IInv, Draw, Continue, JourneyTypeOK, DrawTypeOK
<1>2. CASE ~ Draw(r)
  BY <1>2 DEF Handle, PostPoints, SelectItem, InsertUnlock, Outage, Retry, IInv,
     JourneyTypeOK, DrawTypeOK
<1> QED
  BY <1>1, <1>2

\* What a call that settles, or has answered 200, was told.
LEMMA ToldType ==
  ASSUME IInv, NEW r \in Request, OnRecord(r)
  PROVE  /\ told[r] \in Shown
         /\ told[r].resultType = "PRIZE" => /\ told[r].prizeTier \in Tier
                                            /\ Linked(r) \in Item \cup {None}
<1>1. PICK row \in ledger : Public(row) = told[r]
  BY DEF OnRecord, Reserved
<1>2. row \in LedgerRow /\ (row.resultType = "PRIZE" => row.prizeTier \in Tier)
  BY DEF IInv, DrawTypeOK
<1> QED
  BY <1>1, <1>2, JourneyAssumption DEF Public, LedgerRow, Shown, Linked

-----------------------------------------------------------------------------
LEMMA TypeStep ==
  IInv /\ [JourneyNext]_journeyVars => JourneyTypeOK' /\ DrawTypeOK'
<1> SUFFICES ASSUME IInv, [JourneyNext]_journeyVars
             PROVE  JourneyTypeOK' /\ DrawTypeOK'
  OBVIOUS
<1> USE DEF draws, posts, me, Goto, Respond
<1>a. JourneyTypeOK /\ DrawTypeOK /\ StageTrace
  BY DEF IInv
<1>1. ASSUME NEW r \in Request, Draw(r)
      PROVE  JourneyTypeOK' /\ DrawTypeOK'
  <2>1. JourneyTypeOK'
    BY <1>1, <1>a DEF Draw, Continue, JourneyTypeOK
  <2>2. DrawTypeOK'
    BY <1>1, <1>a, DrawKind, DrawStep DEF DrawTypeOK
  <2> QED
    BY <2>1, <2>2
<1>2. ASSUME NEW r \in Request, PostPoints(r)
      PROVE  JourneyTypeOK' /\ DrawTypeOK'
  <2>1. told[r] \in Shown
    BY <1>2, <1>a, ToldType DEF StageTrace, Settling, PostPoints
  <2>2. wallet' \subseteq [source : Request, amount : {PointAward}, by : Request]
    BY <1>2, <1>a, <2>1 DEF PostPoints, JourneyTypeOK, Shown
  <2> QED
    BY <1>2, <1>a, <2>2 DEF PostPoints, JourneyTypeOK, DrawTypeOK
<1>3. ASSUME NEW r \in Request, InsertUnlock(r)
      PROVE  JourneyTypeOK' /\ DrawTypeOK'
  <2>1. told[r] \in Shown /\ Linked(r) \in Item
    BY <1>3, <1>a, ToldType DEF StageTrace, Settling, InsertUnlock
  <2>2. unlocks' \subseteq [item : Item, source : Request, by : Request]
    BY <1>3, <1>a, <2>1 DEF InsertUnlock, JourneyTypeOK, Shown
  <2> QED
    BY <1>3, <1>a, <2>2 DEF InsertUnlock, JourneyTypeOK, DrawTypeOK
<1>4. ASSUME NEW r \in Request, SelectItem(r) \/ Outage(r) \/ Retry(r)
      PROVE  JourneyTypeOK' /\ DrawTypeOK'
  BY <1>4, <1>a DEF SelectItem, Outage, Retry, JourneyTypeOK, DrawTypeOK
<1>5. CASE ReadMe
  BY <1>5, <1>a DEF ReadMe, AskMe, ReadPart, ReadCollection, JourneyTypeOK,
     DrawTypeOK, Part
<1>6. ASSUME NEW t \in DemoToken, Reseed(t)
      PROVE  JourneyTypeOK' /\ DrawTypeOK'
  BY <1>6, <1>a, JourneyAssumption DEF Reseed, Restock, JourneyTypeOK, DrawTypeOK
<1>7. CASE UNCHANGED journeyVars
  BY <1>7, <1>a DEF journeyVars, JourneyTypeOK, DrawTypeOK
<1> QED
  BY <1>1, <1>2, <1>3, <1>4, <1>5, <1>6, <1>7 DEF JourneyNext, Handle

\* What is on record stays so.
LEMMA RecordKept ==
  ASSUME IInv, [JourneyNext]_journeyVars, NEW r \in Request, OnRecord(r),
         told'[r] = told[r]
  PROVE  OnRecord(r)'
  BY Grows DEF OnRecord, Reserved, Own

LEMMA StageStep == IInv /\ [JourneyNext]_journeyVars => StageTrace'
<1> SUFFICES ASSUME IInv, [JourneyNext]_journeyVars
             PROVE  StageTrace'
  OBVIOUS
<1> DEFINE Goal(r) == /\ stage'[r] \in Settling => OnRecord(r)'
                      /\ stage'[r] = "wallet" => told'[r].resultType = "POINT"
                      /\ stage'[r] \in {"select", "unlock"} =>
                           told'[r].resultType = "PRIZE"
                      /\ stage'[r] = "unlock" => Linked(r)' # None
                      /\ http'[r] # "none" => stage'[r] = "done"
<1>a. JourneyTypeOK /\ DrawTypeOK /\ StageTrace
  BY DEF IInv
<1>b. ASSUME NEW r \in Request, stage'[r] = stage[r], http'[r] = http[r],
             told'[r] = told[r]
      PROVE  Goal(r)
  BY <1>a, <1>b, RecordKept DEF StageTrace, Linked
<1>1. ASSUME NEW r \in Request, Draw(r)
      PROVE  Goal(r)
  <2>1. http[r] = "none"
    BY <1>1, <1>a DEF Draw, StageTrace
  <2>2. CASE answer'[r] \in {"ERROR", "IDEMPOTENCY_CONFLICT"}
    BY <1>1, <1>a, <2>2 DEF Draw, Continue, Respond, JourneyTypeOK, Settling
  <2>3. CASE answer'[r] = "DrawReserved"
    <3>1. PICK row \in ledger' : /\ row.key = input[r].key
                                 /\ row.fingerprint = input[r].fingerprint
                                 /\ told' = [told EXCEPT ![r] = Public(row)]
      BY <1>1, <1>a, <2>3, DrawKind, DrawStep
    <3>2. input' = input
      BY Grows
    <3>3. OnRecord(r)'
      BY <3>1, <3>2, <1>a DEF OnRecord, Reserved, Own, DrawTypeOK
    <3> QED
      BY <1>1, <1>a, <2>1, <2>3, <3>3 DEF Draw, Continue, Goto, Respond, JourneyTypeOK,
         Settling
  <2> QED
    BY <1>1, <2>2, <2>3 DEF Draw, Continue
<1>2. ASSUME NEW r \in Request, SelectItem(r)
      PROVE  Goal(r)
  <2>1. told'[r] = told[r] /\ stage[r] = "select" /\ Linked(r)' = Linked(r)
    BY <1>2 DEF SelectItem, draws, Linked
  <2> QED
    BY <1>2, <1>a, <2>1, RecordKept
    DEF SelectItem, StageTrace, Goto, Respond, JourneyTypeOK, Settling
<1>3. ASSUME NEW r \in Request, PostPoints(r) \/ InsertUnlock(r) \/ Outage(r)
      PROVE  Goal(r)
  BY <1>3, <1>a DEF PostPoints, InsertUnlock, Outage, Respond, JourneyTypeOK, Settling
<1>4. ASSUME NEW r \in Request, Retry(r)
      PROVE  Goal(r)
  BY <1>4, <1>a DEF Retry, JourneyTypeOK, Settling
<1>5. ASSUME NEW r \in Request, Handle(r) \/ Retry(r)
      PROVE  \A s \in Request : Goal(s)
  BY <1>1, <1>2, <1>3, <1>4, <1>5, <1>b, Frame DEF Handle
<1>6. ASSUME ReadMe \/ (\E t \in DemoToken : Reseed(t)) \/ UNCHANGED journeyVars
      PROVE  \A s \in Request : Goal(s)
  <2>1. UNCHANGED <<stage, http, told>>
    BY <1>6 DEF ReadMe, AskMe, ReadPart, ReadCollection, Reseed, Restock,
       journeyVars, draws
  <2> QED
    BY <2>1, <1>b
<1> HIDE DEF Goal
<1>7. \A r \in Request : Goal(r)
  BY <1>5, <1>6 DEF JourneyNext
<1> QED
  BY <1>7 DEF StageTrace, Goal

-----------------------------------------------------------------------------
\* The entry of a posting is that of a POINT draw, and the only one of it.
LEMMA CreditedStep == IInv /\ [JourneyNext]_journeyVars => CreditedOnceAsDrawn'
<1> SUFFICES ASSUME IInv, [JourneyNext]_journeyVars
             PROVE  CreditedOnceAsDrawn'
  OBVIOUS
<1>a. CreditedOnceAsDrawn /\ StageTrace /\ ledger \subseteq ledger'
  BY Grows DEF IInv
<1>1. CASE UNCHANGED wallet
  BY <1>1, <1>a DEF CreditedOnceAsDrawn
<1>2. ASSUME NEW r \in Request, PostPoints(r)
      PROVE  CreditedOnceAsDrawn'
  <2>1. OnRecord(r) /\ told[r].resultType = "POINT"
    BY <1>2, <1>a DEF StageTrace, Settling, PostPoints
  <2>2. PICK row \in ledger : /\ row.drawId = told[r].drawId
                              /\ row.resultType = "POINT"
    BY <2>1 DEF OnRecord, Reserved, Public
  <2>3. \A e \in wallet' \ wallet :
          /\ e = [source |-> told[r].drawId, amount |-> PointAward, by |-> r]
          /\ \A f \in wallet : f.source # e.source
    BY <1>2 DEF PostPoints
  <2>4. \A e \in wallet' : \E w \in ledger' :
          w.drawId = e.source /\ w.resultType = "POINT"
    BY <1>a, <2>2, <2>3 DEF CreditedOnceAsDrawn
  <2>5. \A e, f \in wallet' : e.source = f.source => e = f
    BY <1>a, <2>3 DEF CreditedOnceAsDrawn
  <2> QED
    BY <2>4, <2>5 DEF CreditedOnceAsDrawn
<1>3. ASSUME NEW r \in Request, Handle(r) \/ Retry(r), ~ PostPoints(r)
      PROVE  UNCHANGED wallet
  BY <1>3 DEF Handle, Draw, SelectItem, InsertUnlock, Outage, Retry, posts
<1>4. ASSUME ReadMe \/ (\E t \in DemoToken : Reseed(t)) \/ UNCHANGED journeyVars
      PROVE  UNCHANGED wallet
  BY <1>4 DEF ReadMe, AskMe, ReadPart, ReadCollection, Reseed, journeyVars, posts
<1> QED
  BY <1>1, <1>2, <1>3, <1>4 DEF JourneyNext, Handle

\* The row of an unlock is that of a draw that won its tier, and the only one
\* of its item.
LEMMA UnlockedStep == IInv /\ [JourneyNext]_journeyVars => UnlockedOnceAsWon'
<1> SUFFICES ASSUME IInv, [JourneyNext]_journeyVars
             PROVE  UnlockedOnceAsWon'
  OBVIOUS
<1>a. UnlockedOnceAsWon /\ StageTrace /\ ledger \subseteq ledger'
  BY Grows DEF IInv
<1>1. CASE UNCHANGED unlocks
  BY <1>1, <1>a DEF UnlockedOnceAsWon
<1>2. ASSUME NEW r \in Request, InsertUnlock(r)
      PROVE  UnlockedOnceAsWon'
  <2>1. OnRecord(r) /\ told[r].resultType = "PRIZE"
    BY <1>2, <1>a DEF StageTrace, Settling, InsertUnlock
  <2>2. PICK row \in ledger : /\ row.drawId = told[r].drawId
                              /\ row.resultType = "PRIZE"
                              /\ LinkedItem[row.prizeTier] = Linked(r)
    BY <2>1 DEF OnRecord, Reserved, Public, Linked
  <2>3. \A u \in unlocks' \ unlocks :
          /\ u = [item |-> Linked(r), source |-> told[r].drawId, by |-> r]
          /\ \A v \in unlocks : v.item # u.item
    BY <1>2 DEF InsertUnlock
  <2>4. \A u \in unlocks' : \E w \in ledger' :
          /\ w.drawId = u.source /\ w.resultType = "PRIZE"
          /\ LinkedItem[w.prizeTier] = u.item
    BY <1>a, <2>2, <2>3 DEF UnlockedOnceAsWon
  <2>5. \A u, v \in unlocks' : u.item = v.item => u = v
    BY <1>a, <2>3 DEF UnlockedOnceAsWon
  <2> QED
    BY <2>4, <2>5 DEF UnlockedOnceAsWon
<1>3. ASSUME NEW r \in Request, Handle(r) \/ Retry(r), ~ InsertUnlock(r)
      PROVE  UNCHANGED unlocks
  BY <1>3 DEF Handle, Draw, SelectItem, PostPoints, Outage, Retry, posts
<1>4. ASSUME ReadMe \/ (\E t \in DemoToken : Reseed(t)) \/ UNCHANGED journeyVars
      PROVE  UNCHANGED unlocks
  BY <1>4 DEF ReadMe, AskMe, ReadPart, ReadCollection, Reseed, journeyVars, posts
<1> QED
  BY <1>1, <1>2, <1>3, <1>4 DEF JourneyNext, Handle

-----------------------------------------------------------------------------
\* A 200 is final, and so is what it showed.
LEMMA FinalAnswer ==
  ASSUME IInv, [JourneyNext]_journeyVars, NEW r \in Request, http[r] = "200"
  PROVE  http'[r] = "200" /\ told'[r] = told[r]
<1>1. stage[r] = "done"
  BY DEF IInv, StageTrace
<1>2. ~ (Handle(r) \/ Retry(r))
  BY <1>1 DEF Handle, Draw, PostPoints, SelectItem, InsertUnlock, Outage, Retry
<1>3. ASSUME NEW s \in Request, Handle(s) \/ Retry(s)
      PROVE  http'[r] = http[r] /\ told'[r] = told[r]
  BY <1>2, <1>3, Frame
<1>4. ASSUME ReadMe \/ (\E t \in DemoToken : Reseed(t)) \/ UNCHANGED journeyVars
      PROVE  http'[r] = http[r] /\ told'[r] = told[r]
  BY <1>4 DEF ReadMe, AskMe, ReadPart, ReadCollection, Reseed, Restock,
     journeyVars, draws
<1> QED
  BY <1>3, <1>4 DEF JourneyNext

\* What is settled stays settled.
LEMMA SettledStays ==
  ASSUME IInv, [JourneyNext]_journeyVars, NEW row \in ledger, IsSettled(row)
  PROVE  IsSettled(row)'
  BY Grows DEF IsSettled, Credited, Unlocked

LEMMA AnsweredStep == IInv /\ [JourneyNext]_journeyVars => AnsweredMeansSettled'
<1> SUFFICES ASSUME IInv, [JourneyNext]_journeyVars,
                    NEW r \in Request, http'[r] = "200"
             PROVE  (\E row \in Reserved(r) : Public(row) = told[r] /\ IsSettled(row))'
  BY DEF AnsweredMeansSettled
<1> DEFINE Goal ==
      (\E row \in Reserved(r) : Public(row) = told[r] /\ IsSettled(row))'
<1>a. JourneyTypeOK /\ DrawTypeOK /\ StageTrace /\ AnsweredMeansSettled
  BY DEF IInv
<1>b. /\ input' = input /\ ledger \subseteq ledger'
      /\ wallet \subseteq wallet' /\ unlocks \subseteq unlocks'
  BY Grows
<1>1. CASE http[r] = "200"
  <2>1. PICK row \in Reserved(r) : Public(row) = told[r] /\ IsSettled(row)
    BY <1>1, <1>a DEF AnsweredMeansSettled
  <2>2. row \in Reserved(r)' /\ Public(row) = told'[r] /\ IsSettled(row)'
    BY <1>1, <1>b, <2>1, FinalAnswer, SettledStays DEF Reserved
  <2> QED
    BY <2>2
<1>2. CASE Draw(r)
  <2>1. http[r] = "none" /\ answer'[r] = "DrawReserved"
          /\ told'[r].resultType = "NO_WIN"
    BY <1>2, <1>a DEF Draw, StageTrace, Continue, Goto, Respond, JourneyTypeOK
  <2>2. PICK row \in ledger' : /\ row.key = input[r].key
                               /\ told' = [told EXCEPT ![r] = Public(row)]
    BY <1>2, <1>a, <2>1, DrawKind, DrawStep
  <2>3. Public(row) = told'[r] /\ row \in Reserved(r)'
    BY <1>a, <1>b, <2>2 DEF Reserved, DrawTypeOK
  <2>4. IsSettled(row)'
    BY <2>1, <2>3 DEF IsSettled, Public
  <2> QED
    BY <2>3, <2>4
<1>3. ASSUME PostPoints(r) \/ SelectItem(r) \/ InsertUnlock(r)
      PROVE  Goal
  <2>1. told' = told /\ OnRecord(r)
    BY <1>3, <1>a DEF StageTrace, Settling, PostPoints, SelectItem, InsertUnlock, draws
  <2>2. PICK row \in Reserved(r) : Public(row) = told[r]
    BY <2>1 DEF OnRecord
  <2>3. row \in Reserved(r)' /\ Public(row) = told'[r]
    BY <1>b, <2>1, <2>2 DEF Reserved
  <2>4. /\ row.drawId = told[r].drawId /\ row.resultType = told[r].resultType
        /\ row.prizeTier = told[r].prizeTier
    BY <2>2 DEF Public
  <2>5. CASE PostPoints(r)
    <3>1. told[r].resultType = "POINT"
      BY <2>5, <1>a DEF StageTrace, PostPoints
    <3>2. \E e \in wallet' : e.source = told[r].drawId
      <4> DEFINE e == [source |-> told[r].drawId, amount |-> PointAward, by |-> r]
      <4>1. wallet' = wallet \cup {x \in {e} : \A f \in wallet : f.source # x.source}
        BY <2>5 DEF PostPoints
      <4>2. e.source = told[r].drawId
        OBVIOUS
      <4> HIDE DEF e
      <4> QED
        BY <4>1, <4>2
    <3> QED
      BY <2>3, <2>4, <3>1, <3>2 DEF IsSettled, Credited
  <2>6. CASE SelectItem(r)
    <3>1. told[r].resultType = "PRIZE" /\ http[r] = "none"
      BY <2>6, <1>a DEF StageTrace, SelectItem, JourneyTypeOK
    <3>2. Linked(r) = None
      BY <2>6, <3>1 DEF SelectItem, Goto
    <3> QED
      BY <2>3, <2>4, <3>1, <3>2 DEF IsSettled, Linked
  <2>7. CASE InsertUnlock(r)
    <3>1. told[r].resultType = "PRIZE"
      BY <2>7, <1>a DEF StageTrace, InsertUnlock
    <3>2. \E u \in unlocks' : u.item = Linked(r)
      <4> DEFINE v == [item |-> Linked(r), source |-> told[r].drawId, by |-> r]
      <4>1. unlocks' = unlocks \cup {x \in {v} : \A u \in unlocks : u.item # x.item}
        BY <2>7 DEF InsertUnlock
      <4>2. v.item = Linked(r)
        OBVIOUS
      <4> HIDE DEF v
      <4> QED
        BY <4>1, <4>2
    <3> QED
      BY <2>3, <2>4, <3>1, <3>2 DEF IsSettled, Unlocked, Linked
  <2> QED
    BY <1>3, <2>5, <2>6, <2>7
<1>4. CASE Outage(r) \/ Retry(r)
  BY <1>4, <1>a DEF Outage, Retry, Respond, JourneyTypeOK
<1>5. CASE http'[r] = http[r]
  BY <1>1, <1>5
<1>6. ASSUME NEW s \in Request \ {r}, Handle(s) \/ Retry(s)
      PROVE  Goal
  BY <1>5, <1>6, Frame
<1>7. CASE ReadMe \/ (\E t \in DemoToken : Reseed(t)) \/ UNCHANGED journeyVars
  BY <1>5, <1>7 DEF ReadMe, AskMe, ReadPart, ReadCollection, Reseed, journeyVars
<1> QED
  BY <1>2, <1>3, <1>4, <1>6, <1>7 DEF JourneyNext, Handle

-----------------------------------------------------------------------------
\* A draw that is settled, and was told to r.
LEMMA SettledRow ==
  ASSUME IInv, NEW r \in Request, http[r] = "200"
  PROVE  /\ told[r].resultType = "POINT" =>
              \E e \in wallet : e.source = told[r].drawId
         /\ told[r].resultType = "PRIZE" /\ Linked(r) # None =>
              \E u \in unlocks : u.item = Linked(r)
<1>1. PICK row \in ledger : Public(row) = told[r] /\ IsSettled(row)
  BY DEF IInv, AnsweredMeansSettled, Reserved
<1>2. /\ row.drawId = told[r].drawId /\ row.resultType = told[r].resultType
      /\ row.prizeTier = told[r].prizeTier
  BY <1>1 DEF Public
<1> QED
  BY <1>1, <1>2 DEF IsSettled, Credited, Unlocked, Linked

LEMMA PartsStep == IInv /\ [JourneyNext]_journeyVars => PartsShow'
<1> SUFFICES ASSUME IInv, [JourneyNext]_journeyVars
             PROVE  PartsShow'
  OBVIOUS
<1>a. PartsShow /\ JourneyTypeOK
  BY DEF IInv
<1>b. \A r \in Request : http[r] = "200" =>
        http'[r] = "200" /\ told'[r] = told[r] /\ Linked(r)' = Linked(r)
  BY FinalAnswer DEF Linked
<1>1. CASE UNCHANGED me
  BY <1>1, <1>a, <1>b DEF PartsShow, me
<1>2. CASE AskMe
  BY <1>2, <1>a, <1>b DEF PartsShow, AskMe, Part
<1>3. ASSUME NEW part \in Part \ {"collection"}, ReadPart(part)
      PROVE  PartsShow'
  <2>1. UNCHANGED <<told, http, settled, sawItems>> /\ pending' = pending \ {part}
    BY <1>3 DEF ReadPart, draws
  <2>2. "collection" \notin pending' => "collection" \notin pending
    BY <1>3, <2>1
  <2>3. CASE part = "wallet"
    BY <1>3, <1>a, <1>b, <2>1, <2>2, <2>3, SettledRow DEF PartsShow, ReadPart
  <2>4. CASE part # "wallet"
    BY <1>3, <1>a, <1>b, <2>1, <2>2, <2>4 DEF PartsShow, ReadPart
  <2> QED
    BY <2>3, <2>4
<1>4. CASE ReadCollection
  <2>1. UNCHANGED <<told, http, settled, sawWallet>> /\ "wallet" \notin pending
    BY <1>4 DEF ReadCollection, draws
  <2>2. \A r \in settled : told[r].resultType = "PRIZE" /\ Linked(r) \in Collection =>
          Linked(r) \in sawItems'
    <3>1. \A r \in settled : r \in Request /\ http[r] = "200"
      BY <1>4, <1>a DEF PartsShow, ReadCollection, JourneyTypeOK
    <3>2. \A i \in Collection : i # None
      BY JourneyAssumption DEF Collection
    <3>3. ASSUME NEW r \in settled, told[r].resultType = "PRIZE", Linked(r) \in Collection
          PROVE  \E u \in unlocks : u.item = Linked(r)
      BY <3>1, <3>2, <3>3, SettledRow
    <3>4. sawItems' = {i \in Collection : \E u \in unlocks : u.item = i}
      BY <1>4 DEF ReadCollection
    <3> QED
      BY <3>3, <3>4
  <2> QED
    BY <1>a, <1>b, <2>1, <2>2 DEF PartsShow
<1>5. ASSUME NEW r \in Request, Handle(r) \/ Retry(r)
      PROVE  UNCHANGED me
  BY <1>5 DEF Handle, Draw, PostPoints, SelectItem, InsertUnlock, Outage, Retry
<1>6. ASSUME (\E t \in DemoToken : Reseed(t)) \/ UNCHANGED journeyVars
      PROVE  UNCHANGED me
  BY <1>6 DEF Reseed, journeyVars
<1> QED
  BY <1>1, <1>2, <1>3, <1>4, <1>5, <1>6 DEF JourneyNext, ReadMe

LEMMA Invariance == JourneySpec => []IInv
<1>1. IInv /\ [JourneyNext]_journeyVars => IInv'
  BY TypeStep, StageStep, CreditedStep, UnlockedStep, AnsweredStep, PartsStep DEF IInv
<1> QED
  BY <1>1, InvInit, PTL DEF JourneySpec

-----------------------------------------------------------------------------
\* The tables, the handlers and the reads of /me keep their types.
THEOREM TypeCorrect == JourneySpec => []JourneyTypeOK
<1>1. IInv => JourneyTypeOK
  BY DEF IInv
<1> QED
  BY <1>1, Invariance, PTL

\* No double credit (reward.controller.ts:66-71): whatever calls of a draw
\* overlap, fail and are retried, its points are credited at most once, and
\* only to a POINT draw of the ledger.
THEOREM CreditOnce == JourneySpec => []CreditedOnceAsDrawn
<1>1. IInv => CreditedOnceAsDrawn
  BY DEF IInv
<1> QED
  BY <1>1, Invariance, PTL

\* An item has at most one unlock, made by a draw that won its tier.
THEOREM UnlockOnce == JourneySpec => []UnlockedOnceAsWon
<1>1. IInv => UnlockedOnceAsWon
  BY DEF IInv
<1> QED
  BY <1>1, Invariance, PTL

\* A 200 shows a draw of the caller's key that is settled.
THEOREM AnswerIsSettled == JourneySpec => []AnsweredMeansSettled
<1>1. IInv => AnsweredMeansSettled
  BY DEF IInv
<1> QED
  BY <1>1, Invariance, PTL

\* /me misses no draw that was answered 200 before it was asked for, although
\* its parts are read at different moments: the points of every such draw are
\* among those it adds up, and the item of each such prize is among those it
\* shows as unlocked, if it is of the current campaign.
THEOREM MeIsUpToDate == JourneySpec => []MeShowsSettledDraws
<1>1. IInv => MeShowsSettledDraws
  BY DEF IInv, PartsShow, MeShowsSettledDraws
<1> QED
  BY <1>1, Invariance, PTL

\* No step, not even one of the seed, takes points or unlocks back.
THEOREM NothingLost == JourneySpec => NothingTakenBack
<1>1. IInv /\ [JourneyNext]_journeyVars =>
        [wallet \subseteq wallet' /\ unlocks \subseteq unlocks']_journeyVars
  BY Grows
<1> QED
  BY <1>1, Invariance, PTL DEF JourneySpec, NothingTakenBack

-----------------------------------------------------------------------------
(***************************************************************************)
(* RewardJourney implements SettlementContract.  The points are counted,   *)
(* so that the wallet has to be finite; a posting adds an entry that was   *)
(* not there, because no entry has its source.                             *)
(***************************************************************************)

\* The abstract state, by name.
Paid == {e.source : e \in wallet}
Kept == {u.item : u \in unlocks}
Shows == [r \in Request |-> IF http[r] = "200" THEN told[r] ELSE None]

LEMMA SettlementInit == JourneyInit => Settlement!Init
<1> SUFFICES ASSUME JourneyInit
             PROVE  Settlement!Init
  OBVIOUS
<1>1. Cardinality({}) = 0
  BY FS_EmptySet
<1>2. /\ Paid = {} /\ Kept = {} /\ PointAward * Cardinality(wallet) = 0
      /\ Shows = [r \in Request |-> None]
  BY <1>1 DEF JourneyInit, Paid, Kept, Shows, PointAward
<1>3. input \in [Request -> [key : Key, fingerprint : Settlement!Fingerprint]]
  BY DEF JourneyInit, Init, Fingerprint, Settlement!Fingerprint
<1> QED
  BY <1>2, <1>3 DEF JourneyInit, Init, Settlement!Init, Paid, Kept, Shows

LEMMA FiniteInit == JourneyInit => IsFiniteSet(wallet)
  BY FS_EmptySet DEF JourneyInit

LEMMA FiniteStep ==
  ASSUME IsFiniteSet(wallet), [JourneyNext]_journeyVars
  PROVE  IsFiniteSet(wallet)'
<1>1. CASE UNCHANGED wallet
  BY <1>1
<1>2. ASSUME NEW r \in Request, PostPoints(r)
      PROVE  IsFiniteSet(wallet)'
  <2> DEFINE e == [source |-> told[r].drawId, amount |-> PointAward, by |-> r]
  <2>1. wallet' = wallet \/ wallet' = wallet \cup {e}
    BY <1>2 DEF PostPoints
  <2> QED
    BY <2>1, FS_AddElement
<1>3. ASSUME NEW r \in Request, Handle(r) \/ Retry(r), ~ PostPoints(r)
      PROVE  UNCHANGED wallet
  BY <1>3 DEF Handle, Draw, SelectItem, InsertUnlock, Outage, Retry, posts
<1>4. ASSUME ReadMe \/ (\E t \in DemoToken : Reseed(t)) \/ UNCHANGED journeyVars
      PROVE  UNCHANGED wallet
  BY <1>4 DEF ReadMe, AskMe, ReadPart, ReadCollection, Reseed, journeyVars, posts
<1> QED
  BY <1>1, <1>2, <1>3, <1>4 DEF JourneyNext, Handle

LEMMA FiniteWallet == JourneySpec => []IsFiniteSet(wallet)
  BY FiniteInit, FiniteStep, PTL DEF JourneySpec

\* A step that writes no table of the contract and answers nobody.
LEMMA Unseen ==
  ASSUME UNCHANGED <<input, ledger, posts, http, Shows>>
  PROVE  UNCHANGED Settlement!vars
  BY DEF Settlement!vars, posts, Shows

\* A handler that answers changes the answer of its own request,
LEMMA Responds ==
  ASSUME IInv, NEW r \in Request, Handle(r),
         NEW code \in {"200", "409", "500"}, Respond(r, code)
  PROVE  Settlement!Respond(r, code, IF code = "200" THEN told'[r] ELSE None)
<1>1. http[r] = "none"
  BY DEF Handle, Draw, PostPoints, SelectItem, InsertUnlock, Outage, IInv, StageTrace
<1>2. http' = [http EXCEPT ![r] = code]
  BY DEF Respond
<1>3. \A s \in Request \ {r} : told'[s] = told[s]
  BY Frame
<1>4. http \in [Request -> {"none", "200", "409", "500"}]
  BY DEF IInv, JourneyTypeOK
<1>5. Shows' = [Shows EXCEPT ![r] = IF code = "200" THEN told'[r] ELSE None]
  BY <1>2, <1>3, <1>4 DEF Shows
<1> QED
  BY <1>1, <1>2, <1>5 DEF Settlement!Respond, Shows

\* and one that goes on shows nothing yet.
LEMMA GoesOn ==
  ASSUME IInv, NEW r \in Request, Handle(r), http' = http
  PROVE  Shows' = Shows
<1>1. http[r] = "none"
  BY DEF Handle, Draw, PostPoints, SelectItem, InsertUnlock, Outage, IInv, StageTrace
<1>2. \A s \in Request \ {r} : told'[s] = told[s]
  BY Frame
<1> QED
  BY <1>1, <1>2 DEF Shows

\* The reservation; a NO_WIN is answered at once, the others have still to be
\* settled.
LEMMA EnterReserves ==
  ASSUME IInv, NEW r \in Request, Draw(r), input' = input,
         NEW type \in ResultType, NEW tier, Enter(r, type, tier),
         IF type = "PRIZE" THEN tier \in Tier ELSE tier = None
  PROVE  Settlement!Reserve(r)
<1> DEFINE row == [drawId |-> r, key |-> input[r].key,
                   fingerprint |-> input[r].fingerprint,
                   resultType |-> type, prizeTier |-> tier]
           worth == [resultType |-> type, prizeTier |-> tier]
<1>1. /\ Reserved(r) = {} /\ ledger' = ledger \cup {row}
      /\ Tell(r, "DrawReserved", Public(row)) \/ Tell(r, "ERROR", None)
  BY DEF Enter
<1>2. worth \in Settlement!Worth
  BY DEF Settlement!Worth, ResultType
<1>3. wallet' = wallet /\ unlocks' = unlocks
  BY DEF Draw, posts
<1>4. Handle(r) /\ Continue(r)
  BY DEF Handle, Draw
<1>5. \/ UNCHANGED <<http, Shows>>
      \/ Settlement!Respond(r, "500", None)
      \/ type = "NO_WIN" /\ Settlement!Respond(r, "200", Public(row))
  <2>1. CASE Tell(r, "ERROR", None)
    <3>1. answer'[r] = "ERROR"
      BY <2>1 DEF Tell, IInv, DrawTypeOK
    <3>2. Respond(r, "500")
      BY <1>4, <3>1 DEF Continue
    <3> QED
      BY <1>4, <3>2, Responds DEF Settlement!Respond
  <2>2. CASE Tell(r, "DrawReserved", Public(row))
    <3>1. answer'[r] = "DrawReserved" /\ told'[r] = Public(row)
      BY <2>2 DEF Tell, IInv, DrawTypeOK
    <3>2. told'[r].resultType = type
      BY <3>1 DEF Public
    <3>3. CASE http' = http
      BY <1>4, <3>3, GoesOn
    <3>4. CASE http' # http
      <4>1. type = "NO_WIN" /\ Respond(r, "200")
        BY <1>4, <3>1, <3>2, <3>4 DEF Continue, Goto
      <4> QED
        BY <1>4, <3>1, <4>1, Responds DEF Settlement!Respond
    <3> QED
      BY <3>3, <3>4
  <2> QED
    BY <1>1, <2>1, <2>2
<1>6. /\ Settlement!Reserved(r) = {}
      /\ Settlement!Public(row) = Public(row)
  BY <1>1 DEF Reserved, Settlement!Reserved, Public, Settlement!Public
<1> QED
  BY <1>1, <1>2, <1>3, <1>5, <1>6
  DEF Settlement!Reserve, Settlement!Respond, Shows

\* A request that finds its row, or an error.
LEMMA DrawInforms ==
  ASSUME IInv, NEW r \in Request, Draw(r), Inform(r)
  PROVE  Settlement!Inform(r) \/ UNCHANGED Settlement!vars
<1>1. /\ wallet' = wallet /\ unlocks' = unlocks
      /\ input' = input /\ ledger' = ledger
  BY DEF Draw, posts, Inform
<1>2. Handle(r) /\ Continue(r)
  BY DEF Handle, Draw
<1>a. DrawTypeOK
  BY DEF IInv
<1>3. CASE Tell(r, "ERROR", None)
  <2>1. Respond(r, "500")
    BY <1>2, <1>3, <1>a DEF Tell, DrawTypeOK, Continue
  <2>2. Settlement!Respond(r, "500", None)
    BY <1>2, <2>1, Responds DEF Settlement!Respond
  <2> QED
    BY <1>1, <2>2 DEF Settlement!Inform, Settlement!Respond
<1>4. ASSUME NEW row \in Reserved(r), ~ Own(r, row),
             Tell(r, "IDEMPOTENCY_CONFLICT", None)
      PROVE  Settlement!Inform(r)
  <2>1. Respond(r, "409")
    BY <1>2, <1>4, <1>a DEF Tell, DrawTypeOK, Continue
  <2>2. Settlement!Respond(r, "409", None)
    BY <1>2, <2>1, Responds DEF Settlement!Respond
  <2>3. row \in Settlement!Reserved(r) /\ ~ Settlement!Own(r, row)
    BY <1>4 DEF Reserved, Own, Settlement!Reserved, Settlement!Own
  <2> QED
    BY <1>1, <2>2, <2>3 DEF Settlement!Inform, Settlement!Respond, Settlement!Own
<1>5. ASSUME NEW row \in Reserved(r), Own(r, row),
             Tell(r, "DrawReserved", Public(row))
      PROVE  Settlement!Inform(r) \/ UNCHANGED Settlement!vars
  <2>1. answer'[r] = "DrawReserved" /\ told'[r] = Public(row)
    BY <1>5, <1>a DEF Tell, DrawTypeOK
  <2>2. CASE http' = http
    BY <1>1, <1>2, <2>2, GoesOn, Unseen DEF posts
  <2>3. CASE http' # http
    <3>1. row.resultType = "NO_WIN" /\ Respond(r, "200")
      BY <1>2, <2>1, <2>3 DEF Continue, Goto, Public
    <3>2. Settlement!Respond(r, "200", Public(row))
      BY <1>2, <2>1, <3>1, Responds DEF Settlement!Respond
    <3>3. /\ row \in Settlement!Reserved(r) /\ Settlement!Own(r, row)
          /\ Settlement!Public(row) = Public(row)
      BY <1>5 DEF Reserved, Own, Public, Settlement!Reserved, Settlement!Own,
         Settlement!Public
    <3>4. ~ Settlement!OwesPoints(row) /\ ~ Settlement!OwesItem(row)
      BY <3>1 DEF Settlement!OwesPoints, Settlement!OwesItem
    <3> QED
      BY <1>1, <3>2, <3>3, <3>4 DEF Settlement!Inform, Settlement!Respond
  <2> QED
    BY <2>2, <2>3
<1> QED
  BY <1>3, <1>4, <1>5 DEF Inform

\* A handler that settles has the row of its draw at hand.
LEMMA RowAtHand ==
  ASSUME IInv, NEW r \in Request, stage[r] \in Settling
  PROVE  \E row \in Settlement!Reserved(r) :
           /\ Settlement!Own(r, row)
           /\ Settlement!Public(row) = told[r]
           /\ row.drawId = told[r].drawId
           /\ row.resultType = told[r].resultType
           /\ LinkedItem[row.prizeTier] = Linked(r)
<1>1. PICK row \in Reserved(r) : Own(r, row) /\ Public(row) = told[r]
  BY DEF IInv, StageTrace, OnRecord
<1>2. /\ row.drawId = told[r].drawId /\ row.resultType = told[r].resultType
      /\ row.prizeTier = told[r].prizeTier
  BY <1>1 DEF Public
<1> QED
  BY <1>1, <1>2 DEF Reserved, Own, Public, Linked, Settlement!Reserved,
     Settlement!Own, Settlement!Public

\* Whoever finds nothing left to settle, or is not heard of, just answers.
LEMMA AnswerInforms ==
  ASSUME IInv, NEW r \in Request, Handle(r), stage[r] \in Settling,
         UNCHANGED <<input, ledger, told, posts>>,
         \/ Respond(r, "500")
         \/ /\ Respond(r, "200")
            /\ told[r].resultType = "POINT" => told[r].drawId \in Paid
            /\ told[r].resultType = "PRIZE" => Linked(r) \in Kept \cup {None}
  PROVE  Settlement!Inform(r)
<1>1. wallet' = wallet /\ unlocks' = unlocks
  BY DEF posts
<1>2. CASE Respond(r, "500")
  <2>1. Settlement!Respond(r, "500", None)
    BY <1>2, Responds DEF Settlement!Respond
  <2> QED
    BY <1>1, <2>1 DEF Settlement!Inform, Settlement!Respond
<1>3. CASE ~ Respond(r, "500")
  <2>1. Settlement!Respond(r, "200", told[r])
    BY <1>3, Responds DEF Settlement!Respond
  <2>2. PICK row \in Settlement!Reserved(r) :
          /\ Settlement!Own(r, row)
          /\ Settlement!Public(row) = told[r]
          /\ row.drawId = told[r].drawId
          /\ row.resultType = told[r].resultType
          /\ LinkedItem[row.prizeTier] = Linked(r)
    BY RowAtHand
  <2>3. ~ Settlement!OwesPoints(row)
    BY <1>3, <2>2 DEF Settlement!OwesPoints, Paid
  <2>4. ~ Settlement!OwesItem(row)
    BY <1>3, <2>2 DEF Settlement!OwesItem, Kept
  <2> QED
    BY <1>1, <2>1, <2>2, <2>3, <2>4 DEF Settlement!Inform, Settlement!Respond
<1> QED
  BY <1>2, <1>3

\* postDrawPoints adds the points of a draw that is owed them, and nothing
\* when an earlier call has posted them.
LEMMA PostPointsMaps ==
  ASSUME IInv, IsFiniteSet(wallet), NEW r \in Request, PostPoints(r)
  PROVE  Settlement!AddPoints(r) \/ Settlement!Inform(r)
<1>1. /\ Handle(r) /\ stage[r] = "wallet" /\ told' = told
      /\ input' = input /\ ledger' = ledger /\ unlocks' = unlocks
  BY DEF PostPoints, Handle, draws
<1>2. told[r].resultType = "POINT"
  BY <1>1 DEF IInv, StageTrace
<1>3. PICK code \in {"200", "500"} : Respond(r, code)
  BY DEF PostPoints
<1> DEFINE e == [source |-> told[r].drawId, amount |-> PointAward, by |-> r]
<1>4. wallet' = wallet \cup {x \in {e} : \A f \in wallet : f.source # x.source}
  BY DEF PostPoints
<1>5. CASE told[r].drawId \in Paid
  <2>1. wallet' = wallet
    BY <1>4, <1>5 DEF Paid
  <2> QED
    BY <1>1, <1>2, <1>3, <1>5, <2>1, AnswerInforms DEF Settling, posts
<1>6. CASE told[r].drawId \notin Paid
  <2>1. wallet' = wallet \cup {e} /\ e \notin wallet
    BY <1>4, <1>6 DEF Paid
  <2>2. Paid' = Paid \cup {told[r].drawId}
    BY <2>1 DEF Paid
  <2>3. PointAward * Cardinality(wallet') =
          PointAward * Cardinality(wallet) + Settlement!PointAward
    <3>1. /\ Cardinality(wallet') = Cardinality(wallet) + 1
          /\ Cardinality(wallet) \in Nat
      BY <2>1, FS_AddElement, FS_CardinalityType
    <3> QED
      BY <3>1 DEF PointAward, Settlement!PointAward
  <2>4. PICK row \in Settlement!Reserved(r) :
          /\ Settlement!Own(r, row)
          /\ Settlement!Public(row) = told[r]
          /\ row.drawId = told[r].drawId
          /\ row.resultType = told[r].resultType
    BY <1>1, RowAtHand DEF Settling
  <2>5. Settlement!OwesPoints(row)
    BY <1>2, <1>6, <2>4 DEF Settlement!OwesPoints, Paid
  <2>6. Settlement!Conclude(r, row)
    BY <1>1, <1>3, <2>4, Responds DEF Settlement!Conclude, Settlement!Respond
  <2>7. Settlement!AddPoints(r)
    BY <1>1, <2>2, <2>3, <2>4, <2>5, <2>6
    DEF Settlement!AddPoints, Settlement!Conclude, Settlement!Respond, Paid
  <2> QED
    BY <2>7
<1> QED
  BY <1>5, <1>6

\* So does the INSERT into member_unlock.
LEMMA InsertUnlockMaps ==
  ASSUME IInv, NEW r \in Request, InsertUnlock(r)
  PROVE  Settlement!AddItem(r) \/ Settlement!Inform(r)
<1>1. /\ Handle(r) /\ stage[r] = "unlock" /\ told' = told
      /\ input' = input /\ ledger' = ledger /\ wallet' = wallet
  BY DEF InsertUnlock, Handle, draws
<1>2. told[r].resultType = "PRIZE" /\ Linked(r) # None
  BY <1>1 DEF IInv, StageTrace
<1>3. PICK code \in {"200", "500"} : Respond(r, code)
  BY DEF InsertUnlock
<1> DEFINE v == [item |-> Linked(r), source |-> told[r].drawId, by |-> r]
<1>4. unlocks' = unlocks \cup {x \in {v} : \A u \in unlocks : u.item # x.item}
  BY DEF InsertUnlock
<1>5. CASE Linked(r) \in Kept
  <2>1. unlocks' = unlocks
    BY <1>4, <1>5 DEF Kept
  <2> QED
    BY <1>1, <1>2, <1>3, <1>5, <2>1, AnswerInforms DEF Settling, posts
<1>6. CASE Linked(r) \notin Kept
  <2>1. unlocks' = unlocks \cup {v}
    BY <1>4, <1>6 DEF Kept
  <2>2. Kept' = Kept \cup {Linked(r)}
    <3>1. v.item = Linked(r)
      OBVIOUS
    <3> HIDE DEF v
    <3> QED
      BY <2>1, <3>1 DEF Kept
  <2>3. PICK row \in Settlement!Reserved(r) :
          /\ Settlement!Own(r, row)
          /\ Settlement!Public(row) = told[r]
          /\ row.resultType = told[r].resultType
          /\ LinkedItem[row.prizeTier] = Linked(r)
    BY <1>1, RowAtHand DEF Settling
  <2>4. Settlement!OwesItem(row)
    BY <1>2, <1>6, <2>3 DEF Settlement!OwesItem, Kept
  <2>5. Settlement!Conclude(r, row)
    BY <1>1, <1>3, <2>3, Responds DEF Settlement!Conclude, Settlement!Respond
  <2>6. Settlement!AddItem(r)
    BY <1>1, <2>2, <2>3, <2>4, <2>5
    DEF Settlement!AddItem, Settlement!Conclude, Settlement!Respond, Kept
  <2> QED
    BY <2>6
<1> QED
  BY <1>5, <1>6

\* Every step of the journey is a step of the contract, or invisible.
LEMMA SettlementStep ==
  IInv /\ IsFiniteSet(wallet) /\ [JourneyNext]_journeyVars =>
    [Settlement!Next]_Settlement!vars
<1> SUFFICES ASSUME IInv, IsFiniteSet(wallet), [JourneyNext]_journeyVars
             PROVE  Settlement!Next \/ UNCHANGED Settlement!vars
  OBVIOUS
<1> DEFINE Goal == Settlement!Next \/ UNCHANGED Settlement!vars
<1> USE DEF draws
<1>1. ASSUME NEW r \in Request, Draw(r)
      PROVE  Goal
  <2>1. input' = input
    BY <1>1, DrawKind, DrawStep DEF IInv
  <2>2. CASE ReservePrize(r)
    <3>1. PICK t \in stock : Enter(r, "PRIZE", TokenTier[t])
      BY <2>2 DEF ReservePrize
    <3>2. TokenTier[t] \in Tier
      BY JourneyAssumption DEF IInv, DrawTypeOK
    <3> QED
      BY <1>1, <2>1, <3>1, <3>2, EnterReserves DEF ResultType, Settlement!Next
  <2>3. CASE ReserveOther(r)
    <3>1. PICK type \in {"POINT", "NO_WIN"} : Enter(r, type, None)
      BY <2>3 DEF ReserveOther
    <3> QED
      BY <1>1, <2>1, <3>1, EnterReserves DEF ResultType, Settlement!Next
  <2>4. CASE Inform(r)
    BY <1>1, <2>4, DrawInforms DEF Settlement!Next
  <2> QED
    BY <1>1, <2>2, <2>3, <2>4, DrawKind
<1>2. ASSUME NEW r \in Request, PostPoints(r) \/ InsertUnlock(r)
      PROVE  Goal
  BY <1>2, PostPointsMaps, InsertUnlockMaps DEF Settlement!Next
<1>3. ASSUME NEW r \in Request, SelectItem(r)
      PROVE  Goal
  <2>1. /\ Handle(r) /\ stage[r] = "select"
        /\ UNCHANGED <<input, ledger, told, posts>>
    BY <1>3 DEF SelectItem, Handle
  <2>2. told[r].resultType = "PRIZE"
    BY <2>1 DEF IInv, StageTrace
  <2>3. CASE http' = http
    BY <2>1, <2>3, GoesOn, Unseen
  <2>4. CASE http' # http
    <3>1. Linked(r) = None /\ Respond(r, "200")
      BY <1>3, <2>4 DEF SelectItem, Goto
    <3> QED
      BY <2>1, <2>2, <3>1, AnswerInforms DEF Settling, Settlement!Next
  <2> QED
    BY <2>3, <2>4
<1>4. ASSUME NEW r \in Request, Outage(r)
      PROVE  Goal
  BY <1>4, AnswerInforms DEF Outage, Handle, Settling, Settlement!Next
<1>5. ASSUME NEW r \in Request, Retry(r)
      PROVE  Goal
  <2>1. /\ http[r] = "500" /\ http' = [http EXCEPT ![r] = "none"]
        /\ told' = [told EXCEPT ![r] = None]
        /\ UNCHANGED <<input, ledger, wallet, unlocks>>
    BY <1>5 DEF Retry, posts
  <2>2. Shows' = Shows
    BY <2>1 DEF Shows, IInv, JourneyTypeOK, DrawTypeOK
  <2>3. Settlement!Retry(r)
    BY <2>1, <2>2 DEF Settlement!Retry, Shows
  <2> QED
    BY <2>3 DEF Settlement!Next
<1>6. ASSUME ReadMe \/ (\E t \in DemoToken : Reseed(t)) \/ UNCHANGED journeyVars
      PROVE  Goal
  <2>1. UNCHANGED <<input, ledger, posts, http, told>>
    BY <1>6 DEF ReadMe, AskMe, ReadPart, ReadCollection, Reseed, Restock, journeyVars
  <2> QED
    BY <2>1, Unseen DEF Shows
<1> QED
  BY <1>1, <1>2, <1>3, <1>4, <1>5, <1>6 DEF JourneyNext, Handle

\* createDraw, with the overlaps, outages and retries of the calls it makes,
\* implements SettlementContract: a draw is settled in one step and
\* once, and a 200 is the answer of a draw that has been.
THEOREM Settles == JourneySpec => ImplementsSettlement
  BY SettlementInit, SettlementStep, Invariance, FiniteWallet, PTL
  DEF JourneySpec, ImplementsSettlement, Settlement!Spec
=============================================================================
