------------------------- MODULE DrawReserveProofs -------------------------
(***************************************************************************)
(* Theorems about DrawReserve, for any number of draws, keys, tokens and   *)
(* campaigns, and any pool size.                                           *)
(***************************************************************************)
EXTENDS DrawReserve, FiniteSetTheorems, TLAPS

Answers == {"DrawReserved", "IDEMPOTENCY_CONFLICT", "ERROR"}

\* What every action that ends a call does to pc and answer.
LEMMA ReplyType ==
  ASSUME TypeOK, NEW r \in Request, NEW a \in Answers, Reply(r, a)
  PROVE  /\ pc' \in [Request -> Step]
         /\ answer' \in [Request -> Answers \cup {"none"}]
  BY DEF TypeOK, Reply, Step, Answers

LEMMA GotoType ==
  ASSUME TypeOK, NEW r \in Request, NEW s \in Step, Goto(r, s)
  PROVE  /\ pc' \in [Request -> Step]
         /\ answer' \in [Request -> Answers \cup {"none"}]
  BY DEF TypeOK, Goto, Answers

\* COMMIT and ROLLBACK leave the locks well-typed.
LEMMA ReleaseType ==
  ASSUME TypeOK, NEW r \in Request, Release(r)
  PROVE  /\ tokenLock' \in [Token -> Request \cup {None}]
         /\ keyLock' \in [Key -> Request \cup {None}]
  BY DEF TypeOK, Release

LEMMA InputType ==
  ASSUME TypeOK, NEW r \in Request
  PROVE  KeyOf(r) \in Key /\ Fp(r) \in Fingerprint
  BY DEF TypeOK, KeyOf, Fp

LEMMA RowType ==
  ASSUME NEW row \in LedgerRow
  PROVE  ToDrawResult(row) \in DrawResult
  BY DEF LedgerRow, ToDrawResult, DrawResult

\* What Replay does, whichever row it finds.
LEMMA ReplayType ==
  ASSUME TypeOK, NEW r \in Request, Replay(r)
  PROVE  /\ pc' \in [Request -> Step]
         /\ answer' \in [Request -> Answers \cup {"none"}]
         /\ result' \in [Request -> DrawResult]
<1>1. PICK row \in Recorded(r) :
        \/ /\ result' = [result EXCEPT ![r] = ToDrawResult(row)]
           /\ Reply(r, "DrawReserved")
        \/ Reply(r, "IDEMPOTENCY_CONFLICT") /\ UNCHANGED result
  BY DEF Replay
<1>2. {"DrawReserved", "IDEMPOTENCY_CONFLICT"} \subseteq Answers
  BY DEF Answers
<1>3. ToDrawResult(row) \in DrawResult
  BY <1>1, RowType DEF Recorded, TypeOK
<1>4. result' \in [Request -> DrawResult]
  BY <1>1, <1>3 DEF TypeOK
<1> QED
  BY <1>1, <1>2, <1>4, ReplyType

\* What a roll puts in the hands of a call.
LEMMA DetermineType ==
  ASSUME TypeOK, NEW r \in Request, NEW c \in ResultType, NEW x \in ResultType,
         NEW t \in Token \cup {None}, Determine(r, c, x, t)
  PROVE  /\ pc' \in [Request -> Step]
         /\ answer' \in [Request -> Answers \cup {"none"}]
         /\ category' \in [Request -> ResultType \cup {None}]
         /\ token' \in [Request -> Token \cup {None}]
         /\ result' \in [Request -> DrawResult]
<1>1. "insert" \in Step
  BY DEF Step, InTransaction
<1>2. (IF t = None THEN None ELSE TokenTier[t]) \in Tier \cup {None}
  BY DrawAssumption
<1>3. [drawId |-> r, resultType |-> x,
       prizeTier |-> IF t = None THEN None ELSE TokenTier[t]] \in DrawResult
  BY <1>2 DEF DrawResult
<1>4. result' \in [Request -> DrawResult]
  BY <1>3 DEF Determine, TypeOK
<1> QED
  BY <1>1, <1>4, GotoType DEF Determine, TypeOK

LEMMA TypeInit == Init => TypeOK
  BY DEF Init, TypeOK, Step, NoResult, DrawResult, ResultType

LEMMA TypeStep == TypeOK /\ [Next]_vars => TypeOK'
<1> SUFFICES ASSUME TypeOK, [Next]_vars
             PROVE  TypeOK'
  OBVIOUS
<1> USE DEF tables, locks
<1>a. /\ {"connect", "pick", "insert", "commit", "reread"} \subseteq Step
      /\ {"PRIZE", "POINT", "NO_WIN"} \subseteq ResultType
      /\ {"DrawReserved", "ERROR"} \subseteq Answers
  BY DEF Step, InTransaction, ResultType, Answers
<1>b. Answers \cup {"none"}
        = {"none", "DrawReserved", "IDEMPOTENCY_CONFLICT", "ERROR"}
  BY DEF Answers
<1>1. ASSUME NEW r \in Request, Precheck(r) \/ Begin(r) \/ Reread(r)
      PROVE  TypeOK'
  <2>1. /\ pc' \in [Request -> Step]
        /\ answer' \in [Request -> Answers \cup {"none"}]
        /\ result' \in [Request -> DrawResult]
    <3>1. CASE Replay(r)
      BY <3>1, ReplayType
    <3>2. CASE UNCHANGED result /\ (Goto(r, "connect") \/ Goto(r, "pick"))
      BY <3>2, <1>a, GotoType DEF TypeOK
    <3>3. CASE UNCHANGED result /\ Reply(r, "ERROR")
      BY <3>3, <1>a, ReplyType DEF TypeOK
    <3> QED
      BY <1>1, <3>1, <3>2, <3>3 DEF Precheck, Begin, Reread
  <2>2. UNCHANGED <<input, category, token, tables, locks>>
    BY <1>1 DEF Precheck, Begin, Reread
  <2> QED
    BY <2>1, <2>2, <1>b DEF TypeOK
<1>2. ASSUME NEW r \in Request, PickPrize(r)
      PROVE  TypeOK'
  <2>1. PICK t \in Token : /\ tokenLock' = [tokenLock EXCEPT ![t] = r]
                           /\ Determine(r, "PRIZE", "PRIZE", t)
    BY <1>2 DEF PickPrize, Claimable
  <2>2. tokenLock' \in [Token -> Request \cup {None}]
    BY <2>1 DEF TypeOK
  <2> QED
    BY <1>2, <2>1, <2>2, <1>a, <1>b, DetermineType DEF PickPrize, TypeOK
<1>3. ASSUME NEW r \in Request, PickSoldOut(r) \/ PickOther(r)
      PROVE  TypeOK'
  <2>1. PICK c \in ResultType, x \in ResultType : Determine(r, c, x, None)
    BY <1>3, <1>a DEF PickSoldOut, PickOther
  <2>2. UNCHANGED <<input, tables, locks>>
    BY <1>3 DEF PickSoldOut, PickOther
  <2> QED
    BY <2>1, <2>2, <1>b, DetermineType DEF TypeOK
<1>4. ASSUME NEW r \in Request, InsertLedger(r)
      PROVE  TypeOK'
  <2>1. /\ pc' \in [Request -> Step]
        /\ answer' \in [Request -> Answers \cup {"none"}]
    BY <1>4, <1>a, GotoType DEF InsertLedger
  <2>2. /\ tokenLock' \in [Token -> Request \cup {None}]
        /\ keyLock' \in [Key -> Request \cup {None}]
        /\ token' \in [Request -> Token \cup {None}]
    BY <1>4, ReleaseType, InputType DEF InsertLedger, TypeOK
  <2> QED
    BY <1>4, <2>1, <2>2, <1>b DEF InsertLedger, TypeOK
<1>5. ASSUME NEW r \in Request, Commit(r)
      PROVE  TypeOK'
  <2>1. /\ pc' \in [Request -> Step]
        /\ answer' \in [Request -> Answers \cup {"none"}]
    BY <1>5, <1>a, ReplyType DEF Commit
  <2>2. /\ tokenLock' \in [Token -> Request \cup {None}]
        /\ keyLock' \in [Key -> Request \cup {None}]
    BY <1>5, ReleaseType DEF Commit
  <2>3. /\ tokenStatus' \in [Token -> {"Available", "Claimed"}]
        /\ claimedBy' \in [Token -> Request \cup {None}]
    BY <1>5 DEF Commit, TypeOK
  <2>4. result[r] \in DrawResult
    BY DEF TypeOK
  <2>5. ledger' \subseteq LedgerRow
    BY <1>5, <2>4, InputType DEF Commit, TypeOK, LedgerRow, DrawResult
  <2>6. outbox' \subseteq DrawResult
    BY <1>5, <2>4 DEF Commit, TypeOK
  <2> QED
    BY <1>5, <2>1, <2>2, <2>3, <2>5, <2>6, <1>b DEF Commit, TypeOK
<1>6. ASSUME NEW r \in Request, Abort(r)
      PROVE  TypeOK'
  BY <1>6, <1>a, <1>b, ReplyType, ReleaseType DEF Abort, TypeOK
<1>7. ASSUME NEW t \in DemoToken, SeedToken(t)
      PROVE  TypeOK'
  <2>1. t \in Token
    BY DrawAssumption
  <2>2. /\ tokenStatus' \in [Token -> {"Available", "Claimed"}]
        /\ claimedBy' \in [Token -> Request \cup {None}]
        /\ returned' \subseteq Request
    BY <1>7, <2>1, DrawAssumption DEF SeedToken, TypeOK
  <2> QED
    BY <1>7, <2>2 DEF SeedToken, TypeOK, local
<1>8. CASE UNCHANGED vars
  BY <1>8 DEF vars, TypeOK
<1> QED
  BY <1>1, <1>2, <1>3, <1>4, <1>5, <1>6, <1>7, <1>8
  DEF Next, Serve, Progress, Finished

\* The tables, locks and answers keep their types in every reachable state.
THEOREM TypeCorrect == Spec => []TypeOK
  BY TypeInit, TypeStep, PTL DEF Spec

-----------------------------------------------------------------------------
(***************************************************************************)
(* The inductive invariant.  A commit is right because of what its call    *)
(* has held since it rolled: the token row, which nobody can claim or      *)
(* reset meanwhile, and the index entry of its key.                        *)
(***************************************************************************)

\* A roll in hand is a PRIZE exactly when it holds a token, and that token is
\* locked, Available, of the campaign asked for and of the tier rolled.
TokenHeld ==
  \A r \in Request : pc[r] \in {"insert", "commit"} =>
    /\ result[r].drawId = r
    /\ result[r].resultType = "PRIZE" <=> token[r] # None
    /\ token[r] = None => result[r].prizeTier = None
    /\ token[r] # None => /\ tokenLock[token[r]] = r
                          /\ tokenStatus[token[r]] = "Available"
                          /\ result[r].prizeTier = TokenTier[token[r]]
                          /\ TokenCampaign[token[r]] = Fp(r).campaign

\* Whoever is past its INSERT holds the entry of its key, which no committed
\* row has.
KeyHeld ==
  \A r \in Request : pc[r] = "commit" =>
    keyLock[KeyOf(r)] = r /\ Recorded(r) = {}

\* A call that has not ended has answered nothing and left nothing behind.
Pending ==
  \A r \in Request : pc[r] # "done" =>
    /\ answer[r] = "none"
    /\ r \notin returned
    /\ \A row \in ledger : row.drawId # r

\* A row is that of its draw, and the only one of its key.
LedgerTrace ==
  /\ \A row \in ledger : /\ row.key = KeyOf(row.drawId)
                         /\ row.fingerprint = Fp(row.drawId)
  /\ \A e, f \in ledger : e.key = f.key => e = f

\* What a caller is told is the committed row of its own key and fingerprint:
\* never the outcome of a draw that was rolled back, nor of another request.
ToldIsReserved ==
  \A r \in Request : answer[r] = "DrawReserved" =>
    \E row \in Recorded(r) : /\ ToDrawResult(row) = result[r]
                             /\ row.fingerprint = Fp(r)

IInv == /\ TypeOK
        /\ TokenHeld
        /\ KeyHeld
        /\ Pending
        /\ LedgerTrace
        /\ ToldIsReserved
        /\ InventoryMatchesLedger
        /\ OutboxMatchesLedger

LEMMA InvInit == Init => IInv
<1> SUFFICES ASSUME Init
             PROVE  IInv
  OBVIOUS
<1>1. TypeOK
  BY TypeInit
<1>2. TokenHeld /\ KeyHeld /\ Pending /\ LedgerTrace /\ ToldIsReserved
  BY DEF Init, TokenHeld, KeyHeld, Pending, LedgerTrace, ToldIsReserved
<1>3. InventoryMatchesLedger /\ OutboxMatchesLedger
  BY DEF Init, InventoryMatchesLedger, OutboxMatchesLedger
<1> QED
  BY <1>1, <1>2, <1>3 DEF IInv

-----------------------------------------------------------------------------
LEMMA InputFixed ==
  ASSUME [Next]_vars
  PROVE  /\ input' = input
         /\ \A r \in Request : KeyOf(r)' = KeyOf(r) /\ Fp(r)' = Fp(r)
<1>1. input' = input
  BY DEF Next, Serve, Progress, Finished, vars, local, Precheck, Begin, PickPrize,
     PickSoldOut, PickOther, InsertLedger, Commit, Reread, Abort, SeedToken
<1> QED
  BY <1>1 DEF KeyOf, Fp

\* COMMIT and ROLLBACK give back the locks of their own call only.
LEMMA ReleaseFrame ==
  ASSUME NEW r \in Request, NEW s \in Request, r # s, Release(r)
  PROVE  /\ \A t \in Token : tokenLock[t] = s => tokenLock'[t] = s
         /\ \A k \in Key : keyLock[k] = s => keyLock'[k] = s
  BY DEF Release

\* A step of one call leaves the others, and what they hold, alone.
LEMMA Frame ==
  ASSUME TypeOK, NEW r \in Request, NEW s \in Request, r # s,
         Progress(r) \/ Abort(r)
  PROVE  /\ pc'[s] = pc[s] /\ answer'[s] = answer[s]
         /\ token'[s] = token[s] /\ result'[s] = result[s]
         /\ \A t \in Token : tokenLock[t] = s => tokenLock'[t] = s
         /\ \A k \in Key : keyLock[k] = s => keyLock'[k] = s
<1> USE DEF Goto, Reply, TypeOK
<1>a. s # None
  BY DrawAssumption
<1>1. CASE Precheck(r) \/ Begin(r) \/ Reread(r)
  BY <1>1 DEF Precheck, Begin, Reread, Replay, locks
<1>2. CASE PickPrize(r)
  BY <1>2, <1>a DEF PickPrize, Claimable, Determine
<1>3. CASE PickSoldOut(r) \/ PickOther(r)
  BY <1>3 DEF PickSoldOut, PickOther, Determine, locks
<1>4. CASE InsertLedger(r)
  <2>1. CASE Recorded(r) = {}
    BY <1>4, <2>1, <1>a DEF InsertLedger
  <2>2. CASE Recorded(r) # {}
    BY <1>4, <2>2, ReleaseFrame DEF InsertLedger
  <2> QED
    BY <2>1, <2>2
<1>5. CASE Commit(r) \/ Abort(r)
  BY <1>5, ReleaseFrame DEF Commit, Abort
<1> QED
  BY <1>1, <1>2, <1>3, <1>4, <1>5 DEF Progress

\* Only COMMIT and the seed write tables.
LEMMA TablesKept ==
  ASSUME NEW r \in Request, Progress(r) \/ Abort(r), ~ Commit(r)
  PROVE  UNCHANGED tables
  BY DEF Progress, Precheck, Begin, PickPrize, PickSoldOut, PickOther,
     InsertLedger, Reread, Abort

\* The row that a COMMIT adds to the ledger.
NewRow(r) == [drawId |-> r, key |-> KeyOf(r), fingerprint |-> Fp(r),
              resultType |-> result[r].resultType,
              prizeTier |-> result[r].prizeTier]

LEMMA LedgerGrows ==
  ASSUME [Next]_vars
  PROVE  /\ ledger \subseteq ledger'
         /\ \A row \in ledger' \ ledger :
              \E r \in Request : Commit(r) /\ row = NewRow(r)
<1>1. ASSUME NEW r \in Request, Commit(r)
      PROVE  ledger' = ledger \cup {NewRow(r)}
  BY <1>1 DEF Commit, NewRow
<1>2. ASSUME NEW r \in Request, Progress(r) \/ Abort(r), ~ Commit(r)
      PROVE  ledger' = ledger
  BY <1>2, TablesKept DEF tables
<1>3. ASSUME NEW t \in DemoToken, SeedToken(t)
      PROVE  ledger' = ledger
  BY <1>3 DEF SeedToken
<1>4. CASE UNCHANGED vars
  BY <1>4 DEF vars
<1> QED
  BY <1>1, <1>2, <1>3, <1>4 DEF Next, Serve, Finished

\* The token of a call with a roll in hand stays its own.
LEMMA TokenHeldStep == IInv /\ [Next]_vars => TokenHeld'
<1> SUFFICES ASSUME IInv, [Next]_vars,
                    NEW s \in Request, pc'[s] \in {"insert", "commit"}
             PROVE  /\ result'[s].drawId = s
                    /\ result'[s].resultType = "PRIZE" <=> token'[s] # None
                    /\ token'[s] = None => result'[s].prizeTier = None
                    /\ token'[s] # None =>
                         /\ tokenLock'[token'[s]] = s
                         /\ tokenStatus'[token'[s]] = "Available"
                         /\ result'[s].prizeTier = TokenTier[token'[s]]
                         /\ TokenCampaign[token'[s]] = Fp(s).campaign
  BY InputFixed DEF TokenHeld
<1> DEFINE Goal == /\ result'[s].drawId = s
                   /\ result'[s].resultType = "PRIZE" <=> token'[s] # None
                   /\ token'[s] = None => result'[s].prizeTier = None
                   /\ token'[s] # None =>
                        /\ tokenLock'[token'[s]] = s
                        /\ tokenStatus'[token'[s]] = "Available"
                        /\ result'[s].prizeTier = TokenTier[token'[s]]
                        /\ TokenCampaign[token'[s]] = Fp(s).campaign
<1>a. TypeOK /\ s # None
  BY DrawAssumption DEF IInv
<1>b. ASSUME pc[s] \in {"insert", "commit"},
             token'[s] = token[s], result'[s] = result[s],
             token[s] # None => /\ tokenLock'[token[s]] = s
                                /\ tokenStatus'[token[s]] = "Available"
      PROVE  Goal
  BY <1>b DEF IInv, TokenHeld
<1>1. ASSUME NEW r \in Request, Progress(r) \/ Abort(r), r # s
      PROVE  Goal
  <2>1. pc[s] \in {"insert", "commit"}
    BY <1>1, <1>a, Frame
  <2>2. CASE token[s] = None
    BY <1>1, <1>a, <1>b, <2>1, <2>2, Frame
  <2>3. CASE token[s] # None
    <3>1. /\ token[s] \in Token
          /\ tokenLock[token[s]] = s
          /\ tokenStatus[token[s]] = "Available"
      BY <2>1, <2>3, <1>a DEF IInv, TokenHeld, TypeOK
    <3>2. tokenStatus'[token[s]] = "Available"
      <4>1. CASE Commit(r)
        <5>1. token[r] # token[s]
          BY <4>1, <3>1, <2>3, <1>1 DEF Commit, IInv, TokenHeld
        <5> QED
          BY <4>1, <5>1, <3>1 DEF Commit
      <4>2. CASE ~ Commit(r)
        BY <4>2, <1>1, <3>1, TablesKept DEF tables
      <4> QED
        BY <4>1, <4>2
    <3> QED
      BY <1>1, <1>a, <1>b, <2>1, <3>1, <3>2, Frame
  <2> QED
    BY <2>2, <2>3
<1>2. CASE PickPrize(s)
  <2>1. PICK t \in Claimable(s) : /\ tokenLock' = [tokenLock EXCEPT ![t] = s]
                                  /\ Determine(s, "PRIZE", "PRIZE", t)
    BY <1>2 DEF PickPrize
  <2>2. /\ t \in Token
        /\ t # None
        /\ TokenCampaign[t] = Fp(s).campaign
        /\ tokenStatus[t] = "Available"
    BY DrawAssumption DEF Claimable
  <2>3. /\ token'[s] = t
        /\ result'[s] = [drawId |-> s, resultType |-> "PRIZE",
                         prizeTier |-> TokenTier[t]]
    BY <2>1, <2>2, <1>a DEF Determine, TypeOK
  <2>4. tokenLock'[t] = s /\ tokenStatus'[t] = "Available"
    BY <1>2, <2>1, <2>2, <1>a DEF PickPrize, tables, TypeOK
  <2> QED
    BY <2>2, <2>3, <2>4
<1>3. CASE PickSoldOut(s) \/ PickOther(s)
  <2>1. PICK c \in {"PRIZE", "POINT", "NO_WIN"}, x \in {"POINT", "NO_WIN"} :
          Determine(s, c, x, None)
    BY <1>3 DEF PickSoldOut, PickOther
  <2>2. /\ token'[s] = None
        /\ result'[s].drawId = s
        /\ result'[s].resultType # "PRIZE"
        /\ result'[s].prizeTier = None
    BY <2>1, <1>a DEF Determine, TypeOK
  <2> QED
    BY <2>2
<1>4. CASE InsertLedger(s)
  BY <1>4, <1>a, <1>b DEF InsertLedger, Goto, TypeOK, tables, IInv, TokenHeld
<1>5. CASE Precheck(s) \/ Begin(s) \/ Commit(s) \/ Reread(s) \/ Abort(s)
  BY <1>5, <1>a
  DEF Precheck, Begin, Commit, Reread, Abort, Replay, Goto, Reply, TypeOK
<1>6. ASSUME NEW t \in DemoToken, SeedToken(t)
      PROVE  Goal
  BY <1>6, <1>a, <1>b, DrawAssumption
  DEF SeedToken, local, locks, IInv, TokenHeld, TypeOK
<1>7. CASE UNCHANGED vars
  BY <1>7, <1>b DEF vars, IInv, TokenHeld
<1> QED
  BY <1>1, <1>2, <1>3, <1>4, <1>5, <1>6, <1>7
  DEF Next, Serve, Progress, Finished

\* The uncommitted entry of a key keeps every other row of that key out.
LEMMA KeyHeldStep == IInv /\ [Next]_vars => KeyHeld'
<1> SUFFICES ASSUME IInv, [Next]_vars, NEW s \in Request, pc'[s] = "commit"
             PROVE  keyLock'[KeyOf(s)] = s /\ Recorded(s)' = {}
  BY InputFixed DEF KeyHeld
<1> DEFINE Goal == keyLock'[KeyOf(s)] = s /\ Recorded(s)' = {}
<1>a. TypeOK /\ s # None /\ KeyOf(s) \in Key
  BY DrawAssumption, InputType DEF IInv
<1>b. ASSUME ledger' = ledger
      PROVE  Recorded(s)' = Recorded(s)
  BY <1>b, InputFixed DEF Recorded
<1>1. ASSUME NEW r \in Request, Progress(r) \/ Abort(r), r # s
      PROVE  Goal
  <2>1. /\ keyLock[KeyOf(s)] = s /\ Recorded(s) = {}
        /\ keyLock'[KeyOf(s)] = s
    BY <1>1, <1>a, Frame DEF IInv, KeyHeld
  <2>2. CASE Commit(r)
    <3>1. KeyOf(r) # KeyOf(s)
      BY <1>1, <2>1, <2>2 DEF Commit, IInv, KeyHeld
    <3>2. ledger' = ledger \cup {NewRow(r)} /\ NewRow(r).key = KeyOf(r)
      BY <2>2 DEF Commit, NewRow
    <3> QED
      BY <2>1, <3>1, <3>2, InputFixed DEF Recorded
  <2>3. CASE ~ Commit(r)
    BY <1>1, <2>1, <2>3, <1>b, TablesKept DEF tables
  <2> QED
    BY <2>2, <2>3
<1>2. CASE InsertLedger(s)
  BY <1>2, <1>a, <1>b DEF InsertLedger, Goto, TypeOK, tables
<1>3. CASE Precheck(s) \/ Begin(s) \/ Commit(s) \/ Reread(s) \/ Abort(s)
  BY <1>3, <1>a
  DEF Precheck, Begin, Commit, Reread, Abort, Replay, Goto, Reply, TypeOK
<1>4. CASE PickPrize(s) \/ PickSoldOut(s) \/ PickOther(s)
  BY <1>4, <1>a
  DEF PickPrize, PickSoldOut, PickOther, Determine, Goto, TypeOK
<1>5. ASSUME NEW t \in DemoToken, SeedToken(t)
      PROVE  Goal
  BY <1>5, <1>b DEF SeedToken, local, locks, IInv, KeyHeld
<1>6. CASE UNCHANGED vars
  BY <1>6, <1>b DEF vars, IInv, KeyHeld
<1> QED
  BY <1>1, <1>2, <1>3, <1>4, <1>5, <1>6 DEF Next, Serve, Progress, Finished
\* A reservation is entered by its own call, when it ends.
LEMMA PendingStep == IInv /\ [Next]_vars => Pending'
<1> SUFFICES ASSUME IInv, [Next]_vars, NEW s \in Request, pc'[s] # "done"
             PROVE  /\ answer'[s] = "none"
                    /\ s \notin returned'
                    /\ \A row \in ledger' : row.drawId # s
  BY DEF Pending
<1> DEFINE Goal == /\ answer'[s] = "none"
                   /\ s \notin returned'
                   /\ \A row \in ledger' : row.drawId # s
<1>a. TypeOK /\ s # None
  BY DrawAssumption DEF IInv
<1>b. ASSUME pc[s] # "done", answer'[s] = answer[s], UNCHANGED tables
      PROVE  Goal
  BY <1>b DEF IInv, Pending, tables
<1>1. ASSUME NEW r \in Request, Progress(r) \/ Abort(r), r # s
      PROVE  Goal
  <2>1. pc[s] # "done" /\ answer'[s] = answer[s]
    BY <1>1, <1>a, Frame
  <2>2. CASE Commit(r)
    <3>1. ledger' = ledger \cup {NewRow(r)} /\ NewRow(r).drawId = r
      BY <2>2 DEF Commit, NewRow
    <3> QED
      BY <1>1, <2>1, <2>2, <3>1 DEF Commit, IInv, Pending
  <2>3. CASE ~ Commit(r)
    BY <1>1, <1>b, <2>1, <2>3, TablesKept
  <2> QED
    BY <2>2, <2>3
<1>2. CASE PickPrize(s) \/ PickSoldOut(s) \/ PickOther(s)
  BY <1>2, <1>b
  DEF PickPrize, PickSoldOut, PickOther, Determine, Goto
<1>3. CASE Precheck(s) \/ Begin(s) \/ InsertLedger(s) \/ Reread(s)
  BY <1>3, <1>a, <1>b
  DEF Precheck, Begin, InsertLedger, Reread, Replay, Goto, Reply, TypeOK
<1>4. CASE Commit(s) \/ Abort(s)
  BY <1>4, <1>a DEF Commit, Abort, Reply, TypeOK
<1>5. ASSUME NEW t \in DemoToken, SeedToken(t)
      PROVE  Goal
  <2>1. /\ pc[s] # "done" /\ answer'[s] = answer[s] /\ ledger' = ledger
        /\ t \in Token
    BY <1>5, DrawAssumption DEF SeedToken, local
  <2>2. claimedBy[t] # s
    BY <2>1, <1>a DEF IInv, Pending, InventoryMatchesLedger
  <2> QED
    BY <1>5, <2>1, <2>2 DEF SeedToken, IInv, Pending
<1>6. CASE UNCHANGED vars
  BY <1>6, <1>b DEF vars, tables
<1> QED
  BY <1>1, <1>2, <1>3, <1>4, <1>5, <1>6 DEF Next, Serve, Progress, Finished

LEMMA LedgerTraceStep == IInv /\ [Next]_vars => LedgerTrace'
<1> SUFFICES ASSUME IInv, [Next]_vars
             PROVE  LedgerTrace'
  OBVIOUS
<1>1. ledger' \ ledger = {} => ledger' = ledger
  BY LedgerGrows
<1>2. CASE ledger' = ledger
  BY <1>2, InputFixed DEF IInv, LedgerTrace, TypeOK, LedgerRow
<1>3. ASSUME NEW row \in ledger' \ ledger
      PROVE  LedgerTrace'
  <2>1. PICK r \in Request : Commit(r) /\ row = NewRow(r)
    BY <1>3, LedgerGrows
  <2>2. ledger' = ledger \cup {NewRow(r)}
    BY <2>1 DEF Commit, NewRow
  <2>3. \A e \in ledger : e.key # KeyOf(r)
    BY <2>1 DEF Commit, IInv, KeyHeld, Recorded
  <2>4. \A e \in ledger : e.drawId \in Request
    BY DEF IInv, TypeOK, LedgerRow
  <2> QED
    BY <2>2, <2>3, <2>4, InputFixed DEF NewRow, IInv, LedgerTrace
<1> QED
  BY <1>1, <1>2, <1>3

\* What Replay tells is in the ledger.
LEMMA ReplayTells ==
  ASSUME TypeOK, NEW r \in Request, Replay(r), answer'[r] = "DrawReserved"
  PROVE  \E row \in Recorded(r) : /\ ToDrawResult(row) = result'[r]
                                  /\ row.fingerprint = Fp(r)
<1>1. PICK row \in Recorded(r) :
        \/ /\ row.fingerprint = Fp(r)
           /\ result' = [result EXCEPT ![r] = ToDrawResult(row)]
        \/ Reply(r, "IDEMPOTENCY_CONFLICT")
  BY DEF Replay
<1> QED
  BY <1>1 DEF Reply, TypeOK

\* The row of a COMMIT says what its call has rolled.
LEMMA RowOfRoll ==
  ASSUME IInv, NEW r \in Request, pc[r] = "commit"
  PROVE  ToDrawResult(NewRow(r)) = result[r]
<1>1. result[r] \in DrawResult /\ result[r].drawId = r
  BY DEF IInv, TypeOK, TokenHeld
<1> QED
  BY <1>1 DEF ToDrawResult, NewRow, DrawResult

LEMMA ToldStep == IInv /\ [Next]_vars => ToldIsReserved'
<1> SUFFICES ASSUME IInv, [Next]_vars,
                    NEW s \in Request, answer'[s] = "DrawReserved"
             PROVE  \E row \in Recorded(s)' : /\ ToDrawResult(row) = result'[s]
                                              /\ row.fingerprint = Fp(s)
  BY InputFixed DEF ToldIsReserved, ToDrawResult
<1> DEFINE Goal == \E row \in Recorded(s)' : /\ ToDrawResult(row) = result'[s]
                                             /\ row.fingerprint = Fp(s)
<1>a. TypeOK
  BY DEF IInv
<1>b. Recorded(s) \subseteq Recorded(s)'
  BY LedgerGrows, InputFixed DEF Recorded
<1>c. ASSUME answer'[s] = answer[s], result'[s] = result[s]
      PROVE  Goal
  BY <1>b, <1>c DEF IInv, ToldIsReserved
<1>d. answer[s] = "DrawReserved" => pc[s] = "done"
  BY DEF IInv, Pending
<1>1. ASSUME NEW r \in Request, Progress(r) \/ Abort(r), r # s
      PROVE  Goal
  BY <1>1, <1>a, <1>c, Frame
<1>2. CASE Replay(s)
  BY <1>2, <1>a, <1>b, ReplayTells
<1>3. CASE Precheck(s) \/ Begin(s) \/ Reread(s)
  BY <1>2, <1>3, <1>a, <1>d
  DEF Precheck, Begin, Reread, Goto, Reply, TypeOK
<1>4. CASE PickPrize(s) \/ PickSoldOut(s) \/ PickOther(s) \/ InsertLedger(s)
  BY <1>4, <1>d
  DEF PickPrize, PickSoldOut, PickOther, InsertLedger, Determine, Goto
<1>5. CASE Commit(s)
  <2>1. NewRow(s) \in Recorded(s)' /\ NewRow(s).fingerprint = Fp(s)
    BY <1>5, InputFixed DEF Commit, NewRow, Recorded
  <2>2. ToDrawResult(NewRow(s)) = result'[s]
    BY <1>5, RowOfRoll DEF Commit
  <2> QED
    BY <2>1, <2>2
<1>6. CASE Abort(s)
  BY <1>6, <1>a DEF Abort, Reply, TypeOK
<1>7. ASSUME NEW t \in DemoToken, SeedToken(t)
      PROVE  Goal
  BY <1>7, <1>c DEF SeedToken, local
<1>8. CASE UNCHANGED vars
  BY <1>8, <1>c DEF vars
<1> QED
  BY <1>1, <1>2, <1>3, <1>4, <1>5, <1>6, <1>7, <1>8
  DEF Next, Serve, Progress, Finished

LEMMA OutboxStep == IInv /\ [Next]_vars => OutboxMatchesLedger'
<1> SUFFICES ASSUME IInv, [Next]_vars
             PROVE  OutboxMatchesLedger'
  OBVIOUS
<1>1. ASSUME NEW r \in Request, Commit(r)
      PROVE  OutboxMatchesLedger'
  <2>1. /\ ledger' = ledger \cup {NewRow(r)}
        /\ outbox' = outbox \cup {ToDrawResult(NewRow(r))}
    BY <1>1, RowOfRoll DEF Commit, NewRow
  <2> QED
    BY <2>1 DEF IInv, OutboxMatchesLedger, ToDrawResult
<1>2. CASE ledger' = ledger /\ outbox' = outbox
  BY <1>2 DEF IInv, OutboxMatchesLedger, ToDrawResult
<1>3. ASSUME NEW r \in Request, Progress(r) \/ Abort(r), ~ Commit(r)
      PROVE  OutboxMatchesLedger'
  BY <1>2, <1>3, TablesKept DEF tables
<1>4. ASSUME NEW t \in DemoToken, SeedToken(t)
      PROVE  OutboxMatchesLedger'
  BY <1>2, <1>4 DEF SeedToken
<1>5. CASE UNCHANGED vars
  BY <1>2, <1>5 DEF vars
<1> QED
  BY <1>1, <1>3, <1>4, <1>5 DEF Next, Serve, Finished
-----------------------------------------------------------------------------
\* The parts of InventoryMatchesLedger.
StatusMatches == \A t \in Token : tokenStatus[t] = "Claimed" <=> claimedBy[t] # None

ClaimIsPrize ==
  \A t \in Token : claimedBy[t] # None =>
    \E row \in ledger : /\ row.drawId = claimedBy[t]
                        /\ row.resultType = "PRIZE"
                        /\ row.prizeTier = TokenTier[t]
                        /\ row.fingerprint.campaign = TokenCampaign[t]

PrizeIsClaim ==
  \A row \in ledger : row.resultType = "PRIZE" =>
    IF row.drawId \in returned
    THEN \A t \in Token : claimedBy[t] # row.drawId
    ELSE \E t \in Token : \A u \in Token : claimedBy[u] = row.drawId <=> u = t

LEMMA Inventory ==
  InventoryMatchesLedger <=> StatusMatches /\ ClaimIsPrize /\ PrizeIsClaim
  BY DEF InventoryMatchesLedger, StatusMatches, ClaimIsPrize, PrizeIsClaim

\* A COMMIT claims the token that its PRIZE row speaks of, or none.
LEMMA CommitInventory ==
  ASSUME IInv, NEW r \in Request, Commit(r)
  PROVE  StatusMatches' /\ ClaimIsPrize' /\ PrizeIsClaim'
<1>a. /\ TypeOK /\ StatusMatches /\ ClaimIsPrize /\ PrizeIsClaim
      /\ r # None /\ None \notin Token
  BY Inventory, DrawAssumption DEF IInv
<1>b. /\ r \notin returned /\ returned' = returned
      /\ \A row \in ledger : row.drawId # r
  BY DEF Commit, IInv, Pending
<1>c. \A t \in Token : claimedBy[t] # r
  BY <1>a, <1>b DEF ClaimIsPrize
<1>1. \A t \in Token :
        /\ tokenStatus'[t] = IF t = token[r] THEN "Claimed" ELSE tokenStatus[t]
        /\ claimedBy'[t] = IF t = token[r] THEN r ELSE claimedBy[t]
  BY DEF Commit
<1>2. /\ ledger' = ledger \cup {NewRow(r)}
      /\ NewRow(r).drawId = r
      /\ NewRow(r).resultType = result[r].resultType
      /\ NewRow(r).prizeTier = result[r].prizeTier
      /\ NewRow(r).fingerprint = Fp(r)
  BY DEF Commit, NewRow
<1>3. /\ result[r].resultType = "PRIZE" <=> token[r] # None
      /\ token[r] # None => /\ tokenStatus[token[r]] = "Available"
                            /\ result[r].prizeTier = TokenTier[token[r]]
                            /\ TokenCampaign[token[r]] = Fp(r).campaign
  BY DEF Commit, IInv, TokenHeld
<1>4. token[r] # None => token[r] \in Token /\ claimedBy[token[r]] = None
  BY <1>a, <1>3 DEF TypeOK, StatusMatches
<1>5. StatusMatches'
  BY <1>a, <1>1 DEF StatusMatches
<1>6. ClaimIsPrize'
  <2> SUFFICES ASSUME NEW t \in Token, claimedBy'[t] # None
               PROVE  \E row \in ledger' :
                        /\ row.drawId = claimedBy'[t]
                        /\ row.resultType = "PRIZE"
                        /\ row.prizeTier = TokenTier[t]
                        /\ row.fingerprint.campaign = TokenCampaign[t]
    BY DEF ClaimIsPrize
  <2>1. CASE t = token[r]
    BY <2>1, <1>a, <1>1, <1>2, <1>3
  <2>2. CASE t # token[r]
    BY <2>2, <1>a, <1>1, <1>2 DEF ClaimIsPrize
  <2> QED
    BY <2>1, <2>2
<1>7. PrizeIsClaim'
  <2> SUFFICES ASSUME NEW row \in ledger', row.resultType = "PRIZE"
               PROVE  IF row.drawId \in returned
                      THEN \A t \in Token : claimedBy'[t] # row.drawId
                      ELSE \E t \in Token : \A u \in Token :
                             claimedBy'[u] = row.drawId <=> u = t
    BY <1>b DEF PrizeIsClaim
  <2>1. CASE row = NewRow(r)
    <3>1. token[r] \in Token
      BY <2>1, <1>2, <1>3, <1>4
    <3>2. \A u \in Token : claimedBy'[u] = r <=> u = token[r]
      BY <1>c, <1>1
    <3> QED
      BY <2>1, <3>1, <3>2, <1>b, <1>2
  <2>2. CASE row \in ledger
    <3>1. row.drawId # r /\ row.drawId # None
      BY <2>2, <1>a, <1>b, DrawAssumption DEF TypeOK, LedgerRow
    <3>2. \A u \in Token : claimedBy'[u] = row.drawId
                             <=> claimedBy[u] = row.drawId
      BY <3>1, <1>a, <1>1, <1>4
    <3> QED
      BY <2>2, <3>2, <1>a DEF PrizeIsClaim
  <2> QED
    BY <2>1, <2>2, <1>2
<1> QED
  BY <1>5, <1>6, <1>7

\* The seed takes a token from the one draw that had it.
LEMMA SeedInventory ==
  ASSUME IInv, NEW t \in DemoToken, SeedToken(t)
  PROVE  StatusMatches' /\ ClaimIsPrize' /\ PrizeIsClaim'
<1>a. /\ TypeOK /\ StatusMatches /\ ClaimIsPrize /\ PrizeIsClaim
      /\ t \in Token
  BY Inventory, DrawAssumption DEF IInv
<1>1. \A u \in Token :
        /\ tokenStatus'[u] = IF u = t THEN "Available" ELSE tokenStatus[u]
        /\ claimedBy'[u] = IF u = t THEN None ELSE claimedBy[u]
  BY <1>a DEF SeedToken, TypeOK
<1>2. /\ ledger' = ledger
      /\ returned' = returned \cup ({claimedBy[t]} \ {None})
  BY DEF SeedToken
<1>3. StatusMatches'
  BY <1>a, <1>1 DEF StatusMatches
<1>4. ClaimIsPrize'
  BY <1>a, <1>1, <1>2 DEF ClaimIsPrize
<1>5. PrizeIsClaim'
  <2> SUFFICES ASSUME NEW row \in ledger, row.resultType = "PRIZE"
               PROVE  IF row.drawId \in returned'
                      THEN \A u \in Token : claimedBy'[u] # row.drawId
                      ELSE \E v \in Token : \A u \in Token :
                             claimedBy'[u] = row.drawId <=> u = v
    BY <1>2 DEF PrizeIsClaim
  <2>0. row.drawId # None
    BY <1>a, DrawAssumption DEF TypeOK, LedgerRow
  <2>1. CASE claimedBy[t] = row.drawId
    <3>1. row.drawId \notin returned
      BY <2>1, <1>a DEF PrizeIsClaim
    <3>2. \A u \in Token : claimedBy[u] = row.drawId => u = t
      BY <2>1, <3>1, <1>a DEF PrizeIsClaim
    <3> QED
      BY <2>0, <2>1, <3>2, <1>1, <1>2
  <2>2. CASE claimedBy[t] # row.drawId
    <3>1. \A u \in Token : claimedBy'[u] = row.drawId
                             <=> claimedBy[u] = row.drawId
      BY <2>0, <2>2, <1>1
    <3>2. row.drawId \in returned' <=> row.drawId \in returned
      BY <2>2, <1>2
    <3> QED
      BY <3>1, <3>2, <1>a DEF PrizeIsClaim
  <2> QED
    BY <2>1, <2>2
<1> QED
  BY <1>3, <1>4, <1>5

LEMMA InventoryStep == IInv /\ [Next]_vars => InventoryMatchesLedger'
<1> SUFFICES ASSUME IInv, [Next]_vars
             PROVE  InventoryMatchesLedger'
  OBVIOUS
<1>1. StatusMatches' /\ ClaimIsPrize' /\ PrizeIsClaim' => InventoryMatchesLedger'
  BY DEF InventoryMatchesLedger, StatusMatches, ClaimIsPrize, PrizeIsClaim
<1>2. CASE UNCHANGED tables
  BY <1>2 DEF IInv, InventoryMatchesLedger, tables
<1>3. ASSUME NEW r \in Request, Progress(r) \/ Abort(r)
      PROVE  InventoryMatchesLedger'
  BY <1>1, <1>2, <1>3, CommitInventory, TablesKept
<1>4. ASSUME NEW t \in DemoToken, SeedToken(t)
      PROVE  InventoryMatchesLedger'
  BY <1>1, <1>4, SeedInventory
<1>5. CASE UNCHANGED vars
  BY <1>2, <1>5 DEF vars, tables
<1> QED
  BY <1>3, <1>4, <1>5 DEF Next, Serve, Finished

LEMMA InvStep == IInv /\ [Next]_vars => IInv'
<1> SUFFICES ASSUME IInv, [Next]_vars
             PROVE  IInv'
  OBVIOUS
<1>1. TypeOK'
  BY TypeStep DEF IInv
<1> QED
  BY <1>1, TokenHeldStep, KeyHeldStep, PendingStep, LedgerTraceStep, ToldStep,
     InventoryStep, OutboxStep DEF IInv

LEMMA Invariance == Spec => []IInv
  BY InvInit, InvStep, PTL DEF Spec

-----------------------------------------------------------------------------
\* No oversell (reward/src/index.ts:13-18): whatever draws race, fail or roll
\* back, and whenever the seed puts a token back, the claimed tokens and the
\* PRIZE rows that still own one are in one-to-one correspondence.
THEOREM NoOversell == Spec => []InventoryMatchesLedger
<1>1. IInv => InventoryMatchesLedger
  BY DEF IInv
<1> QED
  BY <1>1, Invariance, PTL

\* The ledger and the outbox describe the same draws.
THEOREM OutboxComplete == Spec => []OutboxMatchesLedger
<1>1. IInv => OutboxMatchesLedger
  BY DEF IInv
<1> QED
  BY <1>1, Invariance, PTL

\* One key, one outcome: calls under one key that are told a result are told
\* the same one, whatever each had rolled.
THEOREM OneOutcome == Spec => []SameKeySameResult
<1>1. IInv => SameKeySameResult
  <2> SUFFICES ASSUME IInv, NEW r \in Request, NEW s \in Request,
                      KeyOf(r) = KeyOf(s),
                      answer[r] = "DrawReserved", answer[s] = "DrawReserved"
               PROVE  result[r] = result[s] /\ Fp(r) = Fp(s)
    BY DEF SameKeySameResult
  <2>1. PICK e \in Recorded(r) : ToDrawResult(e) = result[r]
                                 /\ e.fingerprint = Fp(r)
    BY DEF IInv, ToldIsReserved
  <2>2. PICK f \in Recorded(s) : ToDrawResult(f) = result[s]
                                 /\ f.fingerprint = Fp(s)
    BY DEF IInv, ToldIsReserved
  <2>3. e = f
    BY <2>1, <2>2 DEF Recorded, IInv, LedgerTrace
  <2> QED
    BY <2>1, <2>2, <2>3
<1> QED
  BY <1>1, Invariance, PTL

\* No settlement rerandomization (reward/src/index.ts:8-11): a reservation,
\* its token and the answer about it are final, up to the seed.
THEOREM FinalReservation == Spec => ReservationIsFinal
<1> DEFINE Kept ==
      /\ ledger \subseteq ledger'
      /\ \A t \in Token : claimedBy[t] # None =>
           claimedBy'[t] = claimedBy[t] \/ claimedBy[t] \in returned'
      /\ \A r \in Request : answer[r] # "none" =>
           answer'[r] = answer[r] /\ result'[r] = result[r]
<1>1. IInv /\ [Next]_vars => Kept
  <2> SUFFICES ASSUME IInv, [Next]_vars
               PROVE  Kept
    OBVIOUS
  <2>a. TypeOK /\ ledger \subseteq ledger'
    BY LedgerGrows DEF IInv
  <2>b. \A r \in Request : answer[r] # "none" => pc[r] = "done"
    BY DEF IInv, Pending
  <2>1. ASSUME NEW r \in Request, Progress(r) \/ Abort(r)
        PROVE  Kept
    <3>1. pc[r] # "done"
      BY <2>1 DEF Progress, Precheck, Begin, PickPrize, PickSoldOut, PickOther,
         InsertLedger, Commit, Reread, Abort
    <3>2. \A s \in Request : answer[s] # "none" =>
            answer'[s] = answer[s] /\ result'[s] = result[s]
      BY <2>1, <2>a, <2>b, <3>1, Frame
    <3>3. \A t \in Token : claimedBy[t] # None => claimedBy'[t] = claimedBy[t]
      <4>1. CASE Commit(r)
        <5>1. token[r] # None => claimedBy[token[r]] = None
          BY <4>1, <2>a, Inventory
          DEF Commit, IInv, TokenHeld, TypeOK, StatusMatches
        <5> QED
          BY <4>1, <5>1, DrawAssumption DEF Commit
      <4>2. CASE ~ Commit(r)
        BY <2>1, <4>2, TablesKept DEF tables
      <4> QED
        BY <4>1, <4>2
    <3> QED
      BY <2>a, <3>2, <3>3
  <2>2. ASSUME NEW t \in DemoToken, SeedToken(t)
        PROVE  Kept
    BY <2>2, <2>a, DrawAssumption DEF SeedToken, local, TypeOK
  <2>3. CASE UNCHANGED vars
    BY <2>3, <2>a DEF vars
  <2> QED
    BY <2>1, <2>2, <2>3 DEF Next, Serve, Finished
<1> QED
  BY <1>1, Invariance, PTL DEF Spec, ReservationIsFinal

-----------------------------------------------------------------------------
(***************************************************************************)
(* Calls wait for a client of the pool or for the index entry of their     *)
(* key; nothing else.  Whoever waits for an entry has a client, and the    *)
(* holder of the entry has one too and waits for nothing.                  *)
(***************************************************************************)

\* The entry of a key belongs to a call that is about to commit.
EntryHolders == \A k \in Key : keyLock[k] # None => pc[keyLock[k]] = "commit"

\* The call has not ended and nothing keeps it waiting.
CanGoOn(r) == /\ pc[r] # "done"
              /\ pc[r] \in {"start", "connect", "reread"} => ClientFree
              /\ pc[r] = "insert" => keyLock[KeyOf(r)] = None

\* As long as a call has not ended, one can go on: the pool and the unique
\* index never have everyone waiting for everyone.
NeverStuck == (\E r \in Request : pc[r] # "done") => \E r \in Request : CanGoOn(r)

LEMMA EntryHoldersStep == IInv /\ EntryHolders /\ [Next]_vars => EntryHolders'
<1> SUFFICES ASSUME IInv, EntryHolders, [Next]_vars
             PROVE  EntryHolders'
  OBVIOUS
<1>a. /\ TypeOK
      /\ \A r \in Request : KeyOf(r) \in Key /\ r # None
  BY InputType, DrawAssumption DEF IInv
<1>b. ASSUME NEW r \in Request, Release(r),
             \A q \in Request \ {r} : pc'[q] = pc[q]
      PROVE  EntryHolders'
  <2>1. \A k \in Key : keyLock'[k] # None =>
          /\ keyLock'[k] = keyLock[k] /\ keyLock[k] # r
          /\ keyLock[k] \in Request
    BY <1>b, <1>a DEF Release, TypeOK
  <2> QED
    BY <1>b, <2>1 DEF EntryHolders
<1>c. ASSUME NEW r \in Request, pc[r] # "commit", keyLock' = keyLock,
             \A q \in Request \ {r} : pc'[q] = pc[q]
      PROVE  EntryHolders'
  <2>1. \A k \in Key : keyLock[k] # None => keyLock[k] \in Request \ {r}
    BY <1>c, <1>a DEF EntryHolders, TypeOK
  <2> QED
    BY <1>c, <2>1 DEF EntryHolders
<1>1. ASSUME NEW r \in Request, Precheck(r) \/ Begin(r) \/ Reread(r)
      PROVE  EntryHolders'
  <2>1. pc[r] # "commit" /\ keyLock' = keyLock
    BY <1>1 DEF Precheck, Begin, Reread, locks
  <2>2. \A q \in Request \ {r} : pc'[q] = pc[q]
    BY <1>1, <1>a, Frame DEF Progress
  <2> QED
    BY <2>1, <2>2, <1>c
<1>2. ASSUME NEW r \in Request, PickPrize(r) \/ PickSoldOut(r) \/ PickOther(r)
      PROVE  EntryHolders'
  <2>1. pc[r] # "commit" /\ keyLock' = keyLock
    BY <1>2 DEF PickPrize, PickSoldOut, PickOther, locks
  <2>2. \A q \in Request \ {r} : pc'[q] = pc[q]
    BY <1>2, <1>a, Frame DEF Progress
  <2> QED
    BY <2>1, <2>2, <1>c
<1>3. ASSUME NEW r \in Request, InsertLedger(r)
      PROVE  EntryHolders'
  <2>1. CASE Recorded(r) = {}
    BY <1>3, <2>1, <1>a DEF InsertLedger, Goto, EntryHolders, TypeOK
  <2>2. CASE Recorded(r) # {}
    <3>1. Release(r) /\ \A q \in Request \ {r} : pc'[q] = pc[q]
      BY <1>3, <2>2, <1>a, Frame DEF InsertLedger, Progress
    <3> QED
      BY <3>1, <1>b
  <2> QED
    BY <2>1, <2>2
<1>4. ASSUME NEW r \in Request, Commit(r) \/ Abort(r)
      PROVE  EntryHolders'
  <2>1. Release(r) /\ \A q \in Request \ {r} : pc'[q] = pc[q]
    BY <1>4, <1>a, Frame DEF Commit, Abort, Progress
  <2> QED
    BY <2>1, <1>b
<1>5. ASSUME (\E t \in DemoToken : SeedToken(t)) \/ UNCHANGED vars
      PROVE  EntryHolders'
  BY <1>5 DEF SeedToken, local, locks, vars, EntryHolders
<1> QED
  BY <1>1, <1>2, <1>3, <1>4, <1>5 DEF Next, Serve, Progress, Finished

\* A pool of one client is enough: the re-read of a draw that lost the race
\* follows the rollback that gives its client back (reward/src/index.ts:129-140).
THEOREM NoStandstill == Spec => []NeverStuck
<1>1. IInv /\ EntryHolders => NeverStuck
  <2> SUFFICES ASSUME IInv, EntryHolders, NEW r \in Request, pc[r] # "done"
               PROVE  \E q \in Request : CanGoOn(q)
    BY DEF NeverStuck
  <2>a. TypeOK
    BY DEF IInv
  <2>1. CASE \E q \in Request : pc[q] \in {"pick", "commit"}
    BY <2>1 DEF CanGoOn
  <2>2. CASE \E q \in Request : pc[q] = "insert"
    <3>1. PICK q \in Request : pc[q] = "insert"
      BY <2>2
    <3>2. CASE keyLock[KeyOf(q)] = None
      BY <3>1, <3>2 DEF CanGoOn
    <3>3. CASE keyLock[KeyOf(q)] # None
      <4>1. /\ keyLock[KeyOf(q)] \in Request
            /\ pc[keyLock[KeyOf(q)]] = "commit"
        BY <3>3, <2>a, InputType DEF EntryHolders, TypeOK
      <4> QED
        BY <4>1, <2>1
    <3> QED
      BY <3>2, <3>3
  <2>3. CASE \A q \in Request : pc[q] \notin InTransaction
    <3>1. {q \in Request : pc[q] \in InTransaction} = {}
      BY <2>3
    <3>2. Cardinality({q \in Request : pc[q] \in InTransaction}) = 0
      BY <3>1, FS_EmptySet
    <3>3. ClientFree
      BY <3>2, DrawAssumption DEF ClientFree
    <3> QED
      BY <2>3, <3>3 DEF CanGoOn, InTransaction
  <2> QED
    BY <2>1, <2>2, <2>3 DEF InTransaction
<1>2. Init => EntryHolders
  BY DEF Init, EntryHolders
<1>3. IInv /\ EntryHolders /\ [Next]_vars => EntryHolders'
  BY EntryHoldersStep
<1> QED
  BY <1>1, <1>2, <1>3, Invariance, PTL DEF Spec

-----------------------------------------------------------------------------
(***************************************************************************)
(* DrawReserve implements DrawContract: with its transactions, skipped     *)
(* locks, lost races and failures, draw() behaves as if each reservation   *)
(* were one atomic step.  The stock is read off the committed tokens.      *)
(***************************************************************************)


\* The abstract state, by name.
Told == [r \in Request |-> IF answer[r] = "DrawReserved" THEN result[r] ELSE None]
Stock == {t \in Token : tokenStatus[t] = "Available"}

LEMMA InitMaps == Init => Contract!Init
<1> SUFFICES ASSUME Init
             PROVE  Contract!Init
  OBVIOUS
<1>1. Stock = Token
  BY DEF Init, Stock
<1>2. Told = [r \in Request |-> None]
  BY DEF Init, Told
<1>3. input \in [Request -> [key : Key, fingerprint : Contract!Fingerprint]]
  BY DEF Init, Fingerprint, Contract!Fingerprint
<1> QED
  BY <1>1, <1>2, <1>3 DEF Init, Contract!Init, Stock, Told

\* A step that writes no table and answers nobody is invisible; what a call
\* rolls before it has answered is its own affair.
LEMMA Silent ==
  ASSUME input' = input, answer' = answer, UNCHANGED tables,
         \A s \in Request : answer[s] = "DrawReserved" => result'[s] = result[s]
  PROVE  UNCHANGED Contract!vars
<1>1. Told' = Told
  BY DEF Told
<1>2. Stock' = Stock
  BY DEF Stock, tables
<1> QED
  BY <1>1, <1>2 DEF Contract!vars, Told, Stock, tables

\* An answer changes what one caller was told.
LEMMA Tells ==
  ASSUME TypeOK, NEW r \in Request, NEW a \in Answers, Reply(r, a),
         answer[r] = "none",
         \A s \in Request \ {r} : result'[s] = result[s]
  PROVE  Contract!Tell(r, a, IF a = "DrawReserved" THEN result'[r] ELSE None)
<1>1. answer' = [answer EXCEPT ![r] = a]
  BY DEF Reply
<1>2. Told' = [Told EXCEPT ![r] = IF a = "DrawReserved" THEN result'[r] ELSE None]
  BY <1>1 DEF Told, TypeOK
<1> QED
  BY <1>1, <1>2 DEF Contract!Tell, Told

\* checkIdempotency informs: of the draw on record, or of a conflict.
LEMMA ReplayInforms ==
  ASSUME IInv, NEW r \in Request, Replay(r), pc[r] # "done",
         input' = input, UNCHANGED tables
  PROVE  Contract!Next
<1>a. TypeOK /\ answer[r] = "none"
  BY DEF IInv, Pending
<1>b. input' = input /\ tokenStatus' = tokenStatus /\ ledger' = ledger
  BY DEF tables
<1>1. PICK row \in Recorded(r) :
        \/ /\ row.fingerprint = Fp(r)
           /\ result' = [result EXCEPT ![r] = ToDrawResult(row)]
           /\ Reply(r, "DrawReserved")
        \/ /\ row.fingerprint # Fp(r)
           /\ Reply(r, "IDEMPOTENCY_CONFLICT")
           /\ UNCHANGED result
  BY DEF Replay
<1>2. row \in Contract!Reserved(r)
  BY <1>1 DEF Recorded, KeyOf, Contract!Reserved
<1>3. CASE /\ row.fingerprint = Fp(r)
           /\ result' = [result EXCEPT ![r] = ToDrawResult(row)]
           /\ Reply(r, "DrawReserved")
  <2>1. result'[r] = Contract!Public(row)
    BY <1>3, <1>a DEF TypeOK, ToDrawResult, Contract!Public
  <2>2. \A s \in Request \ {r} : result'[s] = result[s]
    BY <1>3, <1>a DEF TypeOK
  <2>3. Contract!Tell(r, "DrawReserved", Contract!Public(row))
    BY <1>3, <1>a, <2>1, <2>2, Tells DEF Answers, Reply, Contract!Tell
  <2>4. Contract!Own(r, row)
    BY <1>3 DEF Contract!Own, Fp
  <2>5. Contract!Inform(r)
    BY <1>b, <1>2, <2>3, <2>4 DEF Contract!Inform, Contract!Own, Contract!Tell
  <2> QED
    BY <2>5 DEF Contract!Next
<1>4. CASE /\ row.fingerprint # Fp(r)
           /\ Reply(r, "IDEMPOTENCY_CONFLICT")
           /\ UNCHANGED result
  <2>1. Contract!Tell(r, "IDEMPOTENCY_CONFLICT", None)
    BY <1>4, <1>a, Tells DEF Answers, Reply, Contract!Tell
  <2>2. ~ Contract!Own(r, row)
    BY <1>4 DEF Contract!Own, Fp
  <2>3. Contract!Inform(r)
    BY <1>b, <1>2, <2>1, <2>2 DEF Contract!Inform, Contract!Own, Contract!Tell
  <2> QED
    BY <2>3 DEF Contract!Next
<1> QED
  BY <1>1, <1>3, <1>4

\* A call that ends with an error has reserved nothing.
LEMMA ErrorInforms ==
  ASSUME IInv, NEW r \in Request, Reply(r, "ERROR"), pc[r] # "done",
         input' = input, result' = result, UNCHANGED tables
  PROVE  Contract!Next
<1>1. Contract!Tell(r, "ERROR", None)
  BY Tells DEF IInv, Pending, Answers, Reply, Contract!Tell
<1>2. Contract!Inform(r)
  BY <1>1 DEF Contract!Inform, Contract!Tell, tables
<1> QED
  BY <1>2 DEF Contract!Next

\* COMMIT is the reservation.
LEMMA CommitReserves ==
  ASSUME IInv, NEW r \in Request, Commit(r)
  PROVE  Contract!Next
<1>a. /\ TypeOK /\ pc[r] = "commit" /\ answer[r] = "none"
      /\ None \notin Token /\ result' = result /\ input' = input
  BY DrawAssumption DEF Commit, IInv, Pending
<1>b. result[r] \in DrawResult
  BY <1>a DEF TypeOK
<1>1. /\ result[r].drawId = r
      /\ result[r].resultType = "PRIZE" <=> token[r] # None
      /\ token[r] = None => result[r].prizeTier = None
      /\ token[r] # None => /\ token[r] \in Token
                            /\ tokenStatus[token[r]] = "Available"
                            /\ result[r].prizeTier = TokenTier[token[r]]
                            /\ TokenCampaign[token[r]] = Fp(r).campaign
  BY <1>a DEF IInv, TokenHeld, TypeOK
<1> DEFINE type == result[r].resultType
           tier == result[r].prizeTier
           row == [drawId |-> r, key |-> input[r].key,
                   fingerprint |-> input[r].fingerprint,
                   resultType |-> type, prizeTier |-> tier]
<1>2. Contract!Reserved(r) = {}
  BY <1>a DEF IInv, KeyHeld, Recorded, KeyOf, Contract!Reserved
<1>3. ledger' = ledger \cup {row}
  BY DEF Commit, KeyOf, Fp
<1>4. Contract!Public(row) = result[r]
  BY <1>1, <1>b DEF Contract!Public, DrawResult
<1>5. \/ Contract!Tell(r, "DrawReserved", Contract!Public(row))
      \/ Contract!Tell(r, "ERROR", None)
  <2>1. PICK a \in {"DrawReserved", "ERROR"} : Reply(r, a)
    BY DEF Commit
  <2>2. Contract!Tell(r, a, IF a = "DrawReserved" THEN result'[r] ELSE None)
    BY <2>1, <1>a, Tells DEF Answers
  <2> QED
    <3>1. CASE a = "DrawReserved"
      BY <2>2, <3>1, <1>a, <1>4 DEF Contract!Tell
    <3>2. CASE a = "ERROR"
      BY <2>2, <3>2 DEF Contract!Tell
    <3> QED
      BY <2>1, <3>1, <3>2
<1>6. Contract!Enter(r, type, tier)
  BY <1>2, <1>3, <1>5 DEF Contract!Enter
<1>7. \A t \in Token : tokenStatus'[t] =
        IF t = token[r] THEN "Claimed" ELSE tokenStatus[t]
  BY DEF Commit
<1> HIDE DEF type, tier, row
<1>8. CASE token[r] = None
  <2>1. Stock' = Stock
    BY <1>7, <1>8, <1>a DEF Stock
  <2>2. type \in {"POINT", "NO_WIN"} /\ tier = None
    BY <1>1, <1>8, <1>b DEF DrawResult, ResultType, type, tier
  <2>3. Contract!ReserveOther(r)
    BY <1>6, <1>a, <2>1, <2>2 DEF Contract!ReserveOther, Stock
  <2> QED
    BY <2>3 DEF Contract!Next
<1>9. CASE token[r] # None
  <2>1. /\ token[r] \in Stock
        /\ TokenCampaign[token[r]] = input[r].fingerprint.campaign
        /\ type = "PRIZE" /\ tier = TokenTier[token[r]]
    BY <1>1, <1>9 DEF Stock, Fp, type, tier
  <2>2. Stock' = Stock \ {token[r]}
    BY <1>1, <1>7, <1>9 DEF Stock
  <2>3. Contract!ReservePrize(r)
    BY <1>6, <1>a, <2>1, <2>2 DEF Contract!ReservePrize, Stock
  <2> QED
    BY <2>3 DEF Contract!Next
<1> QED
  BY <1>8, <1>9

\* The seed's UPDATE is Restock.
LEMMA SeedRestocks ==
  ASSUME TypeOK, NEW t \in DemoToken, SeedToken(t)
  PROVE  Contract!Next
<1>1. t \in Token /\ tokenStatus' = [tokenStatus EXCEPT ![t] = "Available"]
  BY DrawAssumption DEF SeedToken
<1>2. Stock' = Stock \cup {t}
  BY <1>1 DEF Stock, TypeOK
<1>3. Told' = Told /\ UNCHANGED <<input, answer, ledger>>
  BY DEF SeedToken, local, Told
<1>4. Contract!Restock(t)
  BY <1>2, <1>3 DEF Contract!Restock, Stock, Told
<1> QED
  BY <1>4 DEF Contract!Next

\* Every step of the service is a step of the contract, or invisible.
LEMMA StepMaps == IInv /\ [Next]_vars => [Contract!Next]_Contract!vars
<1> SUFFICES ASSUME IInv, [Next]_vars
             PROVE  Contract!Next \/ UNCHANGED Contract!vars
  OBVIOUS
<1> DEFINE Goal == Contract!Next \/ UNCHANGED Contract!vars
<1>a. TypeOK
  BY DEF IInv
<1>b. \A r \in Request : pc[r] # "done" => answer[r] = "none"
  BY DEF IInv, Pending
<1>1. ASSUME NEW r \in Request, Precheck(r) \/ Begin(r) \/ Reread(r)
      PROVE  Goal
  <2>1. pc[r] # "done" /\ input' = input /\ UNCHANGED tables
    BY <1>1 DEF Precheck, Begin, Reread
  <2>2. CASE Replay(r)
    BY <2>1, <2>2, ReplayInforms
  <2>3. CASE UNCHANGED <<answer, result>>
    BY <2>1, <2>3, Silent
  <2>4. CASE Reply(r, "ERROR") /\ UNCHANGED result
    BY <2>1, <2>4, ErrorInforms
  <2> QED
    BY <1>1, <2>2, <2>3, <2>4 DEF Precheck, Begin, Reread, Goto
<1>2. ASSUME NEW r \in Request, PickPrize(r) \/ PickSoldOut(r) \/ PickOther(r)
      PROVE  Goal
  <2>1. /\ input' = input /\ answer' = answer /\ UNCHANGED tables
        /\ answer[r] = "none"
    BY <1>2, <1>b DEF PickPrize, PickSoldOut, PickOther, Determine, Goto
  <2>2. \A s \in Request : s # r => result'[s] = result[s]
    BY <1>2, <1>a, Frame DEF Progress
  <2> QED
    BY <2>1, <2>2, Silent
<1>3. ASSUME NEW r \in Request, InsertLedger(r)
      PROVE  Goal
  BY <1>3, Silent DEF InsertLedger, Goto
<1>4. ASSUME NEW r \in Request, Abort(r)
      PROVE  Goal
  BY <1>4, ErrorInforms DEF Abort
<1>5. CASE UNCHANGED vars
  BY <1>5, Silent DEF vars, tables
<1> QED
  BY <1>1, <1>2, <1>3, <1>4, <1>5, <1>a, CommitReserves, SeedRestocks
  DEF Next, Serve, Progress, Finished

\* draw(), with its transactions, skipped locks, lost races and failures,
\* implements the atomic contract, for any number of draws, keys and tokens.
THEOREM Refinement == Spec => ImplementsContract
  BY InitMaps, StepMaps, Invariance, PTL
  DEF Spec, ImplementsContract, Contract!Spec
=============================================================================
