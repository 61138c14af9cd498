-------------------------- MODULE QrScanRefinement --------------------------
(***************************************************************************)
(* QrScan implements ScanContract: with its transactions, locks, races and *)
(* failures, scan() behaves as if each call took effect in one atomic      *)
(* step.  The abstract state is read off the committed tables.             *)
(***************************************************************************)
EXTENDS QrScanProofs

\* A call is answered once, when it ends.
Unanswered == \A r \in Request : pc[r] # "done" => answer[r] = "none"

LEMMA UnansweredStep == TypeOK /\ Unanswered /\ [Next]_vars => Unanswered'
<1> SUFFICES ASSUME TypeOK, Unanswered, [Next]_vars,
                    NEW s \in Request, pc'[s] # "done"
             PROVE  answer'[s] = "none"
  BY DEF Unanswered
<1> USE DEF Unanswered, TypeOK, Goto, Reply
<1>1. ASSUME NEW r \in Request,
             Precheck(r) \/ Begin(r) \/ LockCode(r) \/ NotFound(r)
      PROVE  answer'[s] = "none"
  BY <1>1 DEF Precheck, Begin, LockCode, NotFound
<1>2. ASSUME NEW r \in Request,
             Replay(r) \/ Refuse(r) \/ Claim(r) \/ InsertEvent(r) \/ Commit(r)
      PROVE  answer'[s] = "none"
  BY <1>2 DEF Replay, Refuse, Claim, InsertEvent, Commit
<1>3. ASSUME NEW r \in Request,
             RecordConnect(r) \/ RecordInsert(r) \/ RecordCommit(r)
      PROVE  answer'[s] = "none"
  BY <1>3 DEF RecordConnect, RecordInsert, RecordCommit
<1>4. ASSUME NEW r \in Request, RecordFails(r) \/ Abort(r)
      PROVE  answer'[s] = "none"
  BY <1>4 DEF RecordFails, Abort
<1>5. ASSUME NEW c \in DemoCode, SeedCode(c)
      PROVE  answer'[s] = "none"
  BY <1>5 DEF SeedCode, local
<1>6. CASE UNCHANGED vars
  BY <1>6 DEF vars
<1> QED
  BY <1>1, <1>2, <1>3, <1>4, <1>5, <1>6 DEF Next, Serve, Progress, Finished

\* The abstract state, by name.
Inactive == {c \in Code : status[c] = "Inactive"}
Winner == [c \in Code |-> IF usedBy[c] = NoRequest THEN NoRequest
                                                   ELSE Id(usedBy[c])]
Public(e) == [clientRequestId |-> e.clientRequestId,
              fingerprint |-> e.fingerprint, result |-> e.result]
Record == {Public(e) : e \in scanEvent}

LEMMA InitMaps == Init => Contract!Init
<1> SUFFICES ASSUME Init
             PROVE  Contract!Init
  OBVIOUS
<1>1. {[clientRequestId |-> e.clientRequestId, fingerprint |-> e.fingerprint,
        result |-> e.result] : e \in scanEvent} = {}
  BY DEF Init
<1>2. [c \in Code |-> IF usedBy[c] = NoRequest THEN NoRequest
                                               ELSE Id(usedBy[c])]
        = [c \in Code |-> NoRequest]
  BY DEF Init
<1> QED
  BY <1>1, <1>2 DEF Init, Contract!Init

\* A step that writes no table and answers nobody is invisible.
LEMMA Silent ==
  ASSUME input' = input, answer' = answer, UNCHANGED tables
  PROVE  UNCHANGED Contract!vars
  BY DEF Contract!vars, tables, Id

\* A step that writes no table and gives a justified answer is Inform.
LEMMA Informs ==
  ASSUME NEW r \in Request, NEW a \in Answer,
         answer[r] = "none", answer' = [answer EXCEPT ![r] = a],
         input' = input, UNCHANGED tables, Contract!Justified(r, a)
  PROVE  Contract!Next
<1>1. Contract!Tell(r, a)
  BY DEF Contract!Tell
<1>2. Contract!Inform(r)
  BY <1>1 DEF Contract!Inform, Answer, ResultCode, tables, Id
<1> QED
  BY <1>2 DEF Contract!Next

\* A code is refused because it is Inactive, or because of a rival.
LEMMA RefusalJustified ==
  ASSUME NEW r \in Request, NEW x, Fp(r) \in Code,
         \/ x = "Inactive" /\ status[Fp(r)] = "Inactive"
         \/ x = "Used" /\ Rival(Id(r), Fp(r))
  PROVE  Contract!Refusal(r, FailureOutcome(x))
<1>1. CASE x = "Inactive" /\ status[Fp(r)] = "Inactive"
  BY <1>1 DEF FailureOutcome, Contract!Refusal, Contract!Fp, Fp
<1>2. CASE x = "Used" /\ Rival(Id(r), Fp(r))
  <2>1. PICK e \in scanEvent : /\ e.fingerprint = Fp(r)
                               /\ e.result = "SUCCESS"
                               /\ e.clientRequestId # Id(r)
    BY <1>2 DEF Rival
  <2>2. /\ Public(e) \in Record
        /\ Public(e).fingerprint = Contract!Fp(r)
        /\ Public(e).result = "SUCCESS"
        /\ Public(e).clientRequestId # Contract!Id(r)
    BY <2>1 DEF Public, Record, Contract!Fp, Contract!Id, Fp, Id
  <2>3. FailureOutcome(x) = "ALREADY_USED" /\ Contract!Fp(r) \in Code
    BY <1>2 DEF FailureOutcome, Contract!Fp, Fp
  <2> QED
    BY <2>2, <2>3 DEF Contract!Refusal, Record, Public
<1> QED
  BY <1>1, <1>2

\* What checkIdempotency answers is justified by the record.
LEMMA VerdictJustified ==
  ASSUME IInv, NEW r \in Request, NEW a \in Verdicts(r)
  PROVE  Contract!Justified(r, a)
<1>1. PICK e \in Recorded(r) : a = Verdict(e, r)
  BY DEF Verdicts
<1> DEFINE p == Public(e)
           R == {[clientRequestId |-> x.clientRequestId,
                  fingerprint |-> x.fingerprint,
                  result |-> x.result] : x \in scanEvent}
<1>2. p \in R /\ p.clientRequestId = Id(r) /\ p.fingerprint = e.fingerprint
  BY <1>1 DEF Recorded, Public
<1>3. CASE e.fingerprint = Fp(r)
  <2>1. p = Contract!Outcome(r, a)
    BY <1>1, <1>2, <1>3
    DEF Public, Verdict, Contract!Outcome, Contract!Id, Contract!Fp, Id, Fp
  <2> QED
    BY <1>2, <2>1 DEF Contract!Justified
<1>4. CASE e.fingerprint # Fp(r)
  <2>1. a = "IDEMPOTENCY_CONFLICT"
    BY <1>1, <1>4 DEF Verdict
  <2> QED
    BY <1>2, <1>4, <2>1
    DEF Contract!Justified, Contract!Id, Contract!Fp, Id, Fp
<1> QED
  BY <1>3, <1>4

\* A refusal on its way to the record is justified.
LEMMA RecordingJustified ==
  ASSUME IInv, NEW r \in Request, pc[r] \in Recording
  PROVE  Contract!Refusal(r, FailureOutcome(seen[r]))
<1>1. /\ Fp(r) \in Code
      /\ seen[r] \in {"Used", "Inactive"}
      /\ seen[r] = "Inactive" => status[Fp(r)] = "Inactive"
      /\ seen[r] = "Used" => Rival(Id(r), Fp(r))
  BY DEF IInv, TypeOK, Status, KnownCode, SeenCurrent, RefusalStands, Rivals
<1> QED
  BY <1>1, RefusalJustified

\* The commit of a claim is Win.
LEMMA CommitWins ==
  ASSUME IInv, Unanswered, NEW r \in Request, Commit(r)
  PROVE  Contract!Next
<1>a. TypeOK /\ r # NoRequest
  BY QrAssumption DEF IInv
<1>1. /\ Fp(r) \in Code
      /\ status[Fp(r)] = "Unused"
      /\ usedBy[Fp(r)] = NoRequest
  BY DEF Commit, IInv, KnownCode, SeenCurrent, ClaimTrace, HoldsRow
<1>2. /\ input' = input
      /\ status' = [status EXCEPT ![Fp(r)] = "Used"]
      /\ usedBy' = [usedBy EXCEPT ![Fp(r)] = r]
      /\ scanEvent' = scanEvent \cup {EventRow(r, "SUCCESS")}
  BY DEF Commit
<1>3. \A e \in scanEvent : e.clientRequestId # Id(r)
  BY DEF Commit, IInv, Fresh, HoldsEntry
<1>4. Inactive' = Inactive
  BY <1>1, <1>2, <1>a DEF Inactive, TypeOK
<1>5. Winner' = [Winner EXCEPT ![Fp(r)] = Id(r)]
  BY <1>1, <1>2, <1>a DEF Winner, TypeOK, Id
<1>6. Record' = Record \cup {Contract!Outcome(r, "SUCCESS")}
  <2>1. Public(EventRow(r, "SUCCESS")) = Contract!Outcome(r, "SUCCESS")
    BY DEF Public, EventRow, Contract!Outcome, Contract!Id, Contract!Fp, Id, Fp
  <2>2. Record' = {Public(e) : e \in scanEvent \cup {EventRow(r, "SUCCESS")}}
    BY <1>2 DEF Record, Public
  <2> QED
    BY <2>1, <2>2 DEF Record
<1>7. \E a \in {"SUCCESS", "ERROR"} : Contract!Tell(r, a)
  BY DEF Commit, Reply, Unanswered, Contract!Tell
<1>8. Contract!Fp(r) \in Code \ Inactive
  BY <1>1 DEF Contract!Fp, Fp, Inactive
<1>9. Winner[Contract!Fp(r)] = NoRequest
  BY <1>1 DEF Contract!Fp, Fp, Winner
<1>10. \A e \in Record : e.clientRequestId # Contract!Id(r)
  BY <1>3 DEF Record, Public, Contract!Id, Id
<1>11. Contract!Win(r)
  BY <1>2, <1>4, <1>5, <1>6, <1>7, <1>8, <1>9, <1>10
  DEF Contract!Win, Contract!Unrecorded, Contract!Id, Contract!Fp,
      Id, Fp, Inactive, Winner, Record, Public
<1> QED
  BY <1>11 DEF Contract!Next

\* The seed's UPDATE is Reset.
LEMMA SeedResets ==
  ASSUME IInv, NEW c \in DemoCode, SeedCode(c)
  PROVE  Contract!Next
<1>a. TypeOK /\ c \in Code
  BY QrAssumption DEF IInv
<1>1. /\ status' = [status EXCEPT ![c] = "Unused"]
      /\ usedBy' = [usedBy EXCEPT ![c] = NoRequest]
      /\ UNCHANGED <<input, answer, scanEvent>>
  BY DEF SeedCode, local
<1>2. status[c] # "Inactive"
  BY DEF IInv, RefusalStands
<1>3. Inactive' = Inactive
  BY <1>1, <1>2, <1>a DEF Inactive, TypeOK
<1>4. Winner' = [Winner EXCEPT ![c] = NoRequest]
  BY <1>1, <1>a DEF Winner, TypeOK, Id
<1>5. Contract!Reset(c)
  BY <1>1, <1>3, <1>4 DEF Contract!Reset, Inactive, Winner, Id
<1> QED
  BY <1>5 DEF Contract!Next

\* The commit of recordFailure is Refuse.
LEMMA RecordRefuses ==
  ASSUME IInv, Unanswered, NEW r \in Request, RecordCommit(r)
  PROVE  Contract!Next
<1> DEFINE x == FailureOutcome(seen[r])
<1>1. /\ UNCHANGED <<input, status, usedBy>>
      /\ scanEvent' = scanEvent \cup {EventRow(r, x)}
  BY DEF RecordCommit
<1>2. \A e \in scanEvent : e.clientRequestId # Id(r)
  BY DEF RecordCommit, IInv, Fresh, HoldsEntry
<1>3. Record' = Record \cup {Contract!Outcome(r, x)}
  <2>1. Public(EventRow(r, x)) = Contract!Outcome(r, x)
    BY DEF Public, EventRow, Contract!Outcome, Contract!Id, Contract!Fp, Id, Fp
  <2>2. Record' = {Public(e) : e \in scanEvent \cup {EventRow(r, x)}}
    BY <1>1 DEF Record, Public
  <2> QED
    BY <2>1, <2>2 DEF Record
<1>4. Contract!Refusal(r, x)
  BY RecordingJustified DEF RecordCommit, Recording
<1>5. \E a \in {x, "ERROR"} : Contract!Tell(r, a)
  BY DEF RecordCommit, Reply, Unanswered, Contract!Tell
<1>6. \A e \in Record : e.clientRequestId # Contract!Id(r)
  BY <1>2 DEF Record, Public, Contract!Id, Id
<1>7. x \in {"ALREADY_USED", "INACTIVE"}
  BY FailureType
<1>8. Inactive' = Inactive /\ Winner' = Winner
  BY <1>1 DEF Inactive, Winner, Id
<1>9. Contract!Refuse(r)
  <2> HIDE DEF x
  <2> QED
    BY <1>1, <1>3, <1>4, <1>5, <1>6, <1>7, <1>8
    DEF Contract!Refuse, Contract!Unrecorded, Contract!Id,
        Id, Inactive, Winner, Record, Public
<1> QED
  BY <1>9 DEF Contract!Next

\* Every step of the service is a step of the contract, or invisible.
LEMMA StepMaps ==
  IInv /\ Unanswered /\ [Next]_vars => [Contract!Next]_Contract!vars
<1> SUFFICES ASSUME IInv, Unanswered, [Next]_vars
             PROVE  Contract!Next \/ UNCHANGED Contract!vars
  OBVIOUS
<1>a. TypeOK
  BY DEF IInv
<1>b. \A r \in Request : pc[r] # "done" => answer[r] = "none"
  BY DEF Unanswered
<1> DEFINE Goal == Contract!Next \/ UNCHANGED Contract!vars
<1>1. ASSUME NEW r \in Request, Precheck(r)
      PROVE  Goal
  <2>1. CASE Goto(r, "connect")
    BY <1>1, <2>1, Silent DEF Precheck, Goto
  <2>2. ASSUME NEW a \in Verdicts(r), Reply(r, a)
        PROVE  Goal
    BY <1>1, <2>2, <1>a, <1>b, Informs, VerdictJustified, VerdictType
    DEF Precheck, Reply
  <2> QED
    BY <1>1, <2>1, <2>2 DEF Precheck
<1>2. ASSUME NEW r \in Request, Replay(r)
      PROVE  Goal
  <2>1. PICK a \in Verdicts(r) : Reply(r, a)
    BY <1>2 DEF Replay
  <2> QED
    BY <1>2, <2>1, <1>a, <1>b, Informs, VerdictJustified, VerdictType
    DEF Replay, Reply
<1>3. ASSUME NEW r \in Request, NotFound(r)
      PROVE  Goal
  <2>1. Contract!Justified(r, "NOT_FOUND") /\ "NOT_FOUND" \in Answer
    BY <1>3 DEF NotFound, Contract!Justified, Contract!Fp, Fp, Answer
  <2> QED
    BY <1>3, <2>1, <1>b, Informs DEF NotFound, Reply
<1>4. ASSUME NEW r \in Request, InsertEvent(r)
      PROVE  Goal
  <2>1. CASE Recorded(r) = {}
    BY <1>4, <2>1, Silent DEF InsertEvent, Goto
  <2>2. CASE Recorded(r) # {}
    <3>1. PICK e \in scanEvent : /\ e.clientRequestId = Id(r)
                                 /\ e.fingerprint # Fp(r)
      BY <1>4, <2>2 DEF InsertEvent, Recorded, IInv, Fresh
    <3>2. /\ Public(e) \in Record
          /\ Public(e).clientRequestId = Contract!Id(r)
          /\ Public(e).fingerprint # Contract!Fp(r)
      BY <3>1 DEF Record, Public, Contract!Id, Contract!Fp, Id, Fp
    <3>3. Contract!Justified(r, "IDEMPOTENCY_CONFLICT")
      BY <3>2 DEF Contract!Justified, Record, Public
    <3>4. "IDEMPOTENCY_CONFLICT" \in Answer
      BY DEF Answer
    <3> QED
      BY <1>4, <2>2, <3>3, <3>4, <1>b, Informs DEF InsertEvent, Reply
  <2> QED
    BY <2>1, <2>2
<1>5. ASSUME NEW r \in Request,
             \/ Begin(r) \/ LockCode(r) \/ Refuse(r) \/ Claim(r)
             \/ RecordConnect(r)
      PROVE  Goal
  BY <1>5, Silent DEF Begin, LockCode, Refuse, Claim, RecordConnect, Goto
<1>6. ASSUME NEW r \in Request, RecordInsert(r) \/ RecordFails(r)
      PROVE  Goal
  <2>1. CASE RecordInsert(r) /\ Recorded(r) = {}
    BY <2>1, Silent DEF RecordInsert, Goto
  <2>2. CASE RecordFails(r) \/ (RecordInsert(r) /\ Recorded(r) # {})
    <3>1. pc[r] \in Recording
      BY <2>2 DEF RecordInsert, RecordFails, Recording
    <3>2. Contract!Justified(r, FailureOutcome(seen[r]))
      BY <3>1, RecordingJustified DEF Contract!Justified
    <3>3. /\ UNCHANGED <<input, tables>>
          /\ answer' = [answer EXCEPT ![r] = FailureOutcome(seen[r])]
      BY <2>2 DEF RecordInsert, RecordFails, Reply
    <3>4. answer[r] = "none"
      BY <3>1, <1>b DEF Recording
    <3> QED
      BY <3>2, <3>3, <3>4, FailureType, Informs
  <2> QED
    BY <1>6, <2>1, <2>2
<1>7. ASSUME NEW r \in Request, Abort(r)
      PROVE  Goal
  <2>1. Contract!Justified(r, "ERROR") /\ "ERROR" \in Answer
    BY DEF Contract!Justified, Answer
  <2> QED
    BY <1>7, <2>1, <1>b, Informs DEF Abort, Reply
<1>8. CASE UNCHANGED vars
  BY <1>8, Silent DEF vars, tables
<1> QED
  BY <1>1, <1>2, <1>3, <1>4, <1>5, <1>6, <1>7, <1>8, CommitWins, RecordRefuses,
     SeedResets
  DEF Next, Serve, Progress, Finished

\* scan(), with its transactions, locks, races and failures, implements the
\* atomic contract, for any number of calls, ids and codes.
THEOREM Refinement == Spec => ImplementsContract
<1>1. Init => Contract!Init /\ Unanswered
  BY InitMaps DEF Init, Unanswered
<1>2. IInv /\ Unanswered /\ [Next]_vars => Unanswered'
  BY UnansweredStep DEF IInv
<1> QED
  BY <1>1, <1>2, StepMaps, Invariance, PTL
  DEF Spec, ImplementsContract, Contract!Spec
=============================================================================
