---------------------------- MODULE QrScanProofs ----------------------------
(***************************************************************************)
(* Theorems about QrScan, for any number of requests, client request ids   *)
(* and codes, and any pool size.                                           *)
(***************************************************************************)
EXTENDS QrScan, FiniteSetTheorems, TLAPS

\* What every action that ends a call does to pc and answer.
LEMMA ReplyType ==
  ASSUME TypeOK, NEW r \in Request, NEW a \in Answer, Reply(r, a)
  PROVE  /\ pc' \in [Request -> Step]
         /\ answer' \in [Request -> Answer \cup {"none"}]
  BY DEF TypeOK, Reply, Step

LEMMA GotoType ==
  ASSUME TypeOK, NEW r \in Request, NEW s \in Step, Goto(r, s)
  PROVE  /\ pc' \in [Request -> Step]
         /\ answer' \in [Request -> Answer \cup {"none"}]
  BY DEF TypeOK, Goto

\* COMMIT and ROLLBACK leave the locks well-typed.
LEMMA ReleaseType ==
  ASSUME TypeOK, NEW r \in Request, Release(r)
  PROVE  /\ rowLock' \in [Code -> Request \cup {NoRequest}]
         /\ indexLock' \in [ClientId -> Request \cup {NoRequest}]
  BY DEF TypeOK, Release

\* checkIdempotency only ever yields an answer.
LEMMA VerdictType ==
  ASSUME TypeOK, NEW r \in Request, NEW a \in Verdicts(r)
  PROVE  a \in Answer
  BY DEF TypeOK, Verdicts, Verdict, Recorded, Event, Answer

LEMMA InputType ==
  ASSUME TypeOK, NEW r \in Request
  PROVE  /\ Id(r) \in ClientId
         /\ Fp(r) \in Fingerprint
  BY DEF TypeOK, Id, Fp

LEMMA FailureType ==
  ASSUME NEW s
  PROVE  /\ FailureOutcome(s) \in {"ALREADY_USED", "INACTIVE"}
         /\ FailureOutcome(s) \in ResultCode
         /\ FailureOutcome(s) \in Answer
  BY DEF FailureOutcome, ResultCode, Answer

LEMMA EventType ==
  ASSUME TypeOK, NEW r \in Request, NEW x \in ResultCode
  PROVE  EventRow(r, x) \in Event
  BY InputType DEF EventRow, Event

\* Only a call whose SELECT found a row gets past it.
KnownCode ==
  \A r \in Request : pc[r] \in HoldsRow \cup Recording => Fp(r) \in Code

LEMMA TypeInit == Init => TypeOK
  BY DEF Init, TypeOK, Status, Step

LEMMA TypeStep == TypeOK /\ KnownCode /\ [Next]_vars => TypeOK'
<1> SUFFICES ASSUME TypeOK, KnownCode, [Next]_vars
             PROVE  TypeOK'
  OBVIOUS
<1> USE DEF tables, locks
<1>1. ASSUME NEW r \in Request, Precheck(r)
      PROVE  TypeOK'
  <2>1. "connect" \in Step
    BY DEF Step
  <2>2. /\ pc' \in [Request -> Step]
        /\ answer' \in [Request -> Answer \cup {"none"}]
    BY <1>1, <2>1, GotoType, ReplyType, VerdictType DEF Precheck
  <2> QED
    BY <1>1, <2>2 DEF Precheck, TypeOK
<1>2. ASSUME NEW r \in Request, Begin(r) \/ Claim(r) \/ RecordConnect(r)
      PROVE  TypeOK'
  <2>1. {"lock", "insert", "recinsert"} \subseteq Step
    BY DEF Step, InTransaction, Recording
  <2>2. /\ pc' \in [Request -> Step]
        /\ answer' \in [Request -> Answer \cup {"none"}]
    BY <1>2, <2>1, GotoType DEF Begin, Claim, RecordConnect
  <2> QED
    BY <1>2, <2>2 DEF Begin, Claim, RecordConnect, TypeOK
<1>3. ASSUME NEW r \in Request, LockCode(r)
      PROVE  TypeOK'
  <2>1. "recheck" \in Step
    BY DEF Step, InTransaction
  <2>2. /\ pc' \in [Request -> Step]
        /\ answer' \in [Request -> Answer \cup {"none"}]
    BY <1>3, <2>1, GotoType DEF LockCode
  <2> QED
    BY <1>3, <2>2 DEF LockCode, TypeOK
<1>4. ASSUME NEW r \in Request, NotFound(r)
      PROVE  TypeOK'
  <2>1. /\ pc' \in [Request -> Step]
        /\ answer' \in [Request -> Answer \cup {"none"}]
    BY <1>4, ReplyType DEF NotFound, Answer
  <2> QED
    BY <1>4, <2>1 DEF NotFound, TypeOK
<1>5. ASSUME NEW r \in Request, Replay(r) \/ Refuse(r)
      PROVE  TypeOK'
  <2>1. "record" \in Step
    BY DEF Step, Recording
  <2>2. /\ pc' \in [Request -> Step]
        /\ answer' \in [Request -> Answer \cup {"none"}]
    BY <1>5, <2>1, GotoType, ReplyType, VerdictType DEF Replay, Refuse
  <2>3. /\ rowLock' \in [Code -> Request \cup {NoRequest}]
        /\ indexLock' \in [ClientId -> Request \cup {NoRequest}]
    BY <1>5, ReleaseType DEF Replay, Refuse
  <2> QED
    BY <1>5, <2>2, <2>3 DEF Replay, Refuse, TypeOK
<1>6. ASSUME NEW r \in Request, InsertEvent(r)
      PROVE  TypeOK'
  <2>1. /\ "commit" \in Step
        /\ "IDEMPOTENCY_CONFLICT" \in Answer
    BY DEF Step, InTransaction, Answer
  <2>2. /\ pc' \in [Request -> Step]
        /\ answer' \in [Request -> Answer \cup {"none"}]
    BY <1>6, <2>1, GotoType, ReplyType DEF InsertEvent
  <2>3. /\ rowLock' \in [Code -> Request \cup {NoRequest}]
        /\ indexLock' \in [ClientId -> Request \cup {NoRequest}]
    BY <1>6, ReleaseType, InputType DEF InsertEvent, TypeOK
  <2> QED
    BY <1>6, <2>2, <2>3 DEF InsertEvent, TypeOK
<1>7. ASSUME NEW r \in Request, Commit(r)
      PROVE  TypeOK'
  <2>1. /\ pc' \in [Request -> Step]
        /\ answer' \in [Request -> Answer \cup {"none"}]
    <3>1. {"SUCCESS", "ERROR"} \subseteq Answer
      BY DEF Answer, ResultCode
    <3> QED
      BY <1>7, <3>1, ReplyType DEF Commit
  <2>2. /\ rowLock' \in [Code -> Request \cup {NoRequest}]
        /\ indexLock' \in [ClientId -> Request \cup {NoRequest}]
    BY <1>7, ReleaseType DEF Commit
  <2>3. /\ status' \in [Code -> Status]
        /\ usedBy' \in [Code -> Request \cup {NoRequest}]
    BY <1>7 DEF Commit, TypeOK, Status
  <2>4. scanEvent' \subseteq Event
    BY <1>7, EventType DEF Commit, TypeOK, ResultCode
  <2>5. outbox' \subseteq [code : Code, by : Request]
    BY <1>7 DEF Commit, TypeOK, KnownCode, HoldsRow
  <2> QED
    BY <1>7, <2>1, <2>2, <2>3, <2>4, <2>5 DEF Commit, TypeOK
<1>8. ASSUME NEW r \in Request, RecordInsert(r)
      PROVE  TypeOK'
  <2>1. "reccheck" \in Step
    BY DEF Step, Recording
  <2>2. /\ pc' \in [Request -> Step]
        /\ answer' \in [Request -> Answer \cup {"none"}]
    BY <1>8, <2>1, GotoType, ReplyType, FailureType DEF RecordInsert
  <2>3. indexLock' \in [ClientId -> Request \cup {NoRequest}]
    BY <1>8 DEF RecordInsert, TypeOK
  <2> QED
    BY <1>8, <2>2, <2>3 DEF RecordInsert, TypeOK
<1>9. ASSUME NEW r \in Request, RecordCommit(r) \/ RecordFails(r) \/ Abort(r)
      PROVE  TypeOK'
  <2>1. "ERROR" \in Answer
    BY DEF Answer
  <2>2. /\ pc' \in [Request -> Step]
        /\ answer' \in [Request -> Answer \cup {"none"}]
    BY <1>9, <2>1, ReplyType, FailureType DEF RecordCommit, RecordFails, Abort
  <2>3. /\ rowLock' \in [Code -> Request \cup {NoRequest}]
        /\ indexLock' \in [ClientId -> Request \cup {NoRequest}]
    BY <1>9, ReleaseType DEF RecordCommit, RecordFails, Abort
  <2>4. scanEvent' \subseteq Event
    BY <1>9, EventType, FailureType DEF RecordCommit, RecordFails, Abort, TypeOK
  <2> QED
    BY <1>9, <2>2, <2>3, <2>4 DEF RecordCommit, RecordFails, Abort, TypeOK
<1>10. ASSUME NEW c \in DemoCode, SeedCode(c)
       PROVE  TypeOK'
  <2>1. /\ status' \in [Code -> Status]
        /\ usedBy' \in [Code -> Request \cup {NoRequest}]
    BY <1>10 DEF SeedCode, TypeOK, Status
  <2>2. reseeded' \subseteq Request
    BY <1>10, QrAssumption DEF SeedCode, TypeOK
  <2> QED
    BY <1>10, <2>1, <2>2 DEF SeedCode, TypeOK, local
<1>11. CASE UNCHANGED vars
  BY <1>11 DEF vars, TypeOK
<1> QED
  BY <1>1, <1>2, <1>3, <1>4, <1>5, <1>6, <1>7, <1>8, <1>9, <1>10, <1>11
  DEF Next, Serve, Progress, Finished

LEMMA KnownCodeInit == Init => KnownCode
  BY DEF Init, KnownCode, HoldsRow, Recording

LEMMA KnownCodeStep == TypeOK /\ KnownCode /\ [Next]_vars => KnownCode'
<1> SUFFICES ASSUME TypeOK, KnownCode, [Next]_vars,
                    NEW s \in Request, pc'[s] \in HoldsRow \cup Recording
             PROVE  Fp(s)' \in Code
  BY DEF KnownCode
<1> USE DEF KnownCode, HoldsRow, Recording, TypeOK, Goto, Reply, Fp
<1>1. ASSUME NEW r \in Request, Precheck(r) \/ Begin(r) \/ LockCode(r)
      PROVE  Fp(s)' \in Code
  BY <1>1 DEF Precheck, Begin, LockCode
<1>2. ASSUME NEW r \in Request,
             NotFound(r) \/ Replay(r) \/ Refuse(r) \/ Claim(r)
      PROVE  Fp(s)' \in Code
  BY <1>2 DEF NotFound, Replay, Refuse, Claim
<1>3. ASSUME NEW r \in Request, InsertEvent(r) \/ Commit(r)
      PROVE  Fp(s)' \in Code
  BY <1>3 DEF InsertEvent, Commit
<1>4. ASSUME NEW r \in Request,
             RecordConnect(r) \/ RecordInsert(r) \/ RecordCommit(r)
      PROVE  Fp(s)' \in Code
  BY <1>4 DEF RecordConnect, RecordInsert, RecordCommit
<1>5. ASSUME NEW r \in Request, RecordFails(r) \/ Abort(r)
      PROVE  Fp(s)' \in Code
  BY <1>5 DEF RecordFails, Abort
<1>6. ASSUME NEW c \in DemoCode, SeedCode(c)
      PROVE  Fp(s)' \in Code
  BY <1>6 DEF SeedCode, local
<1>7. CASE UNCHANGED vars
  BY <1>7 DEF vars
<1> QED
  BY <1>1, <1>2, <1>3, <1>4, <1>5, <1>6, <1>7
  DEF Next, Serve, Progress, Finished

\* The tables, locks and answers keep their types in every reachable state.
THEOREM TypeCorrect == Spec => []TypeOK
<1>1. Init => TypeOK /\ KnownCode
  BY TypeInit, KnownCodeInit
<1>2. TypeOK /\ KnownCode /\ [Next]_vars => (TypeOK /\ KnownCode)'
  BY TypeStep, KnownCodeStep
<1> QED
  BY <1>1, <1>2, PTL DEF Spec

-----------------------------------------------------------------------------
(***************************************************************************)
(* The inductive invariant.  What is committed is never wrong by itself;   *)
(* what makes the next commit right is what a transaction knows while it   *)
(* holds its locks.                                                        *)
(***************************************************************************)

\* The row lock is exclusive: whoever is past SELECT ... FOR UPDATE is the
\* holder of its own code row.
RowOwned == \A r \in Request : pc[r] \in HoldsRow => rowLock[Fp(r)] = r

\* So is the uncommitted entry of the unique index.
EntryOwned == \A r \in Request : pc[r] \in HoldsEntry => indexLock[Id(r)] = r

\* The status read under the lock is still the status of the row when it is
\* acted on.
SeenCurrent ==
  \A r \in Request :
    /\ pc[r] \in HoldsRow => seen[r] = status[Fp(r)]
    /\ pc[r] \in {"insert", "commit"} => seen[r] = "Unused"
    /\ pc[r] \in Recording => seen[r] # "Unused"

\* The seed took code c from a scan that had used it.
WasReset(c) == \E e \in Successes(c) : e.by \in reseeded

\* A refusal that is not recorded yet is still true of its code, unless the
\* seed has reset the code meanwhile; an Inactive code is never reset.
RefusalStands ==
  /\ \A r \in Request : pc[r] \in Recording =>
       seen[r] = status[Fp(r)] \/ (seen[r] = "Used" /\ WasReset(Fp(r)))
  /\ \A c \in DemoCode : status[c] # "Inactive"

\* After the second idempotency check nobody else can record the same request
\* while the row is locked, nor any request of this id once the entry is held.
Fresh ==
  \A r \in Request : \A e \in scanEvent :
    e.clientRequestId = Id(r) =>
      /\ pc[r] \notin HoldsEntry
      /\ pc[r] = "insert" => e.fingerprint # Fp(r)

\* The success of request q, in qr.scan_event.
Succeeded(q) == EventRow(q, "SUCCESS") \in scanEvent

\* The three tables tell the same story about each code, the scans from whom
\* the seed took it back aside.
ClaimTrace ==
  /\ \A e \in scanEvent : e.result = "SUCCESS" =>
       /\ e.fingerprint \in Code
       /\ e = EventRow(e.by, "SUCCESS")
       /\ e.by \in reseeded \/ usedBy[e.fingerprint] = e.by
       /\ [code |-> e.fingerprint, by |-> e.by] \in outbox
  /\ \A c \in Code : usedBy[c] # NoRequest =>
       /\ Fp(usedBy[c]) = c
       /\ Succeeded(usedBy[c])
       /\ usedBy[c] \notin reseeded
  /\ \A o \in outbox : Fp(o.by) = o.code /\ Succeeded(o.by)
  /\ \A q \in reseeded : Succeeded(q)
  /\ \A c \in Code : status[c] = "Used" <=> usedBy[c] # NoRequest

\* Somebody used code f under another id than k.
Rival(k, f) ==
  \E e \in scanEvent : /\ e.fingerprint = f
                       /\ e.result = "SUCCESS"
                       /\ e.clientRequestId # k

\* A refusal for a used code always has a rival behind it: while it is on its
\* way to the record, in the record, and in what callers were told.
Rivals ==
  /\ \A r \in Request : pc[r] \in Recording /\ seen[r] = "Used" =>
       Rival(Id(r), Fp(r))
  /\ \A e \in scanEvent : e.result = "ALREADY_USED" =>
       Rival(e.clientRequestId, e.fingerprint)
  /\ RefusedOnlyByAnother

IInv == /\ TypeOK
        /\ KnownCode
        /\ RowOwned
        /\ EntryOwned
        /\ SeenCurrent
        /\ RefusalStands
        /\ Fresh
        /\ ClaimTrace
        /\ Rivals
        /\ SuccessIsRecorded
        /\ ConflictOnlyOnReuse

LEMMA InvInit == Init => IInv
<1> SUFFICES ASSUME Init PROVE IInv
  OBVIOUS
<1>1. TypeOK /\ KnownCode
  BY TypeInit, KnownCodeInit
<1>2. RowOwned /\ EntryOwned /\ SeenCurrent /\ RefusalStands
  BY DEF Init, RowOwned, EntryOwned, SeenCurrent, RefusalStands, HoldsRow,
         HoldsEntry, Recording
<1>3. Fresh /\ ClaimTrace
  BY DEF Init, Fresh, ClaimTrace
<1>4. Rivals /\ SuccessIsRecorded /\ ConflictOnlyOnReuse
  BY DEF Init, Rivals, RefusedOnlyByAnother, SuccessIsRecorded,
         ConflictOnlyOnReuse, Recording
<1> QED
  BY <1>1, <1>2, <1>3, <1>4 DEF IInv

\* Ending a transaction frees its own locks and nobody else's.
LEMMA ReleaseFrame ==
  ASSUME TypeOK, NEW r \in Request, Release(r)
  PROVE  /\ \A c \in Code : rowLock[c] # r => rowLock'[c] = rowLock[c]
         /\ \A k \in ClientId : indexLock[k] # r => indexLock'[k] = indexLock[k]
  BY DEF TypeOK, Release

\* A step of r is invisible in the local state of the others.
LEMMA Frame ==
  ASSUME TypeOK, NEW r \in Request, Progress(r) \/ RecordFails(r) \/ Abort(r)
  PROVE  /\ input' = input
         /\ \A s \in Request \ {r} :
              pc'[s] = pc[s] /\ seen'[s] = seen[s] /\ answer'[s] = answer[s]
<1> USE DEF TypeOK, Goto, Reply
<1>1. CASE Precheck(r) \/ Begin(r) \/ LockCode(r) \/ NotFound(r)
  BY <1>1 DEF Precheck, Begin, LockCode, NotFound
<1>2. CASE Replay(r) \/ Refuse(r) \/ Claim(r) \/ InsertEvent(r) \/ Commit(r)
  BY <1>2 DEF Replay, Refuse, Claim, InsertEvent, Commit
<1>3. CASE RecordConnect(r) \/ RecordInsert(r) \/ RecordCommit(r)
  BY <1>3 DEF RecordConnect, RecordInsert, RecordCommit
<1>4. CASE RecordFails(r) \/ Abort(r)
  BY <1>4 DEF RecordFails, Abort
<1> QED
  BY <1>1, <1>2, <1>3, <1>4 DEF Progress

\* The arguments of a call are fixed.
LEMMA InputFixed ==
  ASSUME TypeOK, [Next]_vars
  PROVE  /\ input' = input
         /\ \A s \in Request : Id(s)' = Id(s) /\ Fp(s)' = Fp(s)
<1>1. input' = input
  BY Frame DEF Next, Serve, Finished, vars, SeedCode, local
<1> QED
  BY <1>1 DEF Id, Fp

LEMMA RowOwnedStep == IInv /\ [Next]_vars => RowOwned'
<1> SUFFICES ASSUME IInv, [Next]_vars,
                    NEW s \in Request, pc'[s] \in HoldsRow
             PROVE  rowLock'[Fp(s)] = s
  BY InputFixed DEF RowOwned, IInv
<1>a. /\ Fp(s) \in Fingerprint
      /\ pc[s] \in HoldsRow => Fp(s) \in Code /\ rowLock[Fp(s)] = s
  BY InputType DEF IInv, RowOwned, KnownCode
<1>b. ASSUME NEW r \in Request, Release(r), pc[s] \in HoldsRow, r # s
      PROVE  rowLock'[Fp(s)] = s
  BY <1>a, <1>b, ReleaseFrame DEF IInv
<1> USE DEF HoldsRow, Goto, Reply, locks
<1>c. TypeOK
  BY DEF IInv
<1>1. ASSUME NEW r \in Request, Precheck(r) \/ Begin(r) \/ NotFound(r)
      PROVE  rowLock'[Fp(s)] = s
  BY <1>1, <1>a, <1>c DEF Precheck, Begin, NotFound, TypeOK
<1>2. ASSUME NEW r \in Request, LockCode(r)
      PROVE  rowLock'[Fp(s)] = s
  BY <1>2, <1>a, <1>c, QrAssumption DEF LockCode, TypeOK
<1>3. ASSUME NEW r \in Request, Replay(r) \/ Refuse(r) \/ Commit(r)
      PROVE  rowLock'[Fp(s)] = s
  BY <1>3, <1>b, <1>c DEF Replay, Refuse, Commit, TypeOK
<1>4. ASSUME NEW r \in Request, Claim(r) \/ InsertEvent(r)
      PROVE  rowLock'[Fp(s)] = s
  BY <1>4, <1>a, <1>b, <1>c DEF Claim, InsertEvent, TypeOK
<1>5. ASSUME NEW r \in Request, RecordConnect(r) \/ RecordInsert(r)
      PROVE  rowLock'[Fp(s)] = s
  BY <1>5, <1>a, <1>c DEF RecordConnect, RecordInsert, TypeOK
<1>6. ASSUME NEW r \in Request, RecordCommit(r) \/ RecordFails(r) \/ Abort(r)
      PROVE  rowLock'[Fp(s)] = s
  BY <1>6, <1>b, <1>c DEF RecordCommit, RecordFails, Abort, TypeOK
<1>7. ASSUME NEW c \in DemoCode, SeedCode(c)
      PROVE  rowLock'[Fp(s)] = s
  BY <1>7, <1>a DEF SeedCode, local
<1>8. CASE UNCHANGED vars
  BY <1>8, <1>a DEF vars
<1> QED
  BY <1>1, <1>2, <1>3, <1>4, <1>5, <1>6, <1>7, <1>8
  DEF Next, Serve, Progress, Finished

LEMMA EntryOwnedStep == IInv /\ [Next]_vars => EntryOwned'
<1> SUFFICES ASSUME IInv, [Next]_vars,
                    NEW s \in Request, pc'[s] \in HoldsEntry
             PROVE  indexLock'[Id(s)] = s
  BY InputFixed DEF EntryOwned, IInv
<1>a. /\ Id(s) \in ClientId
      /\ pc[s] \in HoldsEntry => indexLock[Id(s)] = s
  BY InputType DEF IInv, EntryOwned
<1>b. ASSUME NEW r \in Request, Release(r), pc[s] \in HoldsEntry, r # s
      PROVE  indexLock'[Id(s)] = s
  BY <1>a, <1>b, ReleaseFrame DEF IInv
<1> USE DEF HoldsEntry, Goto, Reply, locks
<1>c. TypeOK
  BY DEF IInv
<1>1. ASSUME NEW r \in Request,
             Precheck(r) \/ Begin(r) \/ LockCode(r) \/ NotFound(r) \/ Claim(r)
      PROVE  indexLock'[Id(s)] = s
  BY <1>1, <1>a, <1>c DEF Precheck, Begin, LockCode, NotFound, Claim, TypeOK
<1>2. ASSUME NEW r \in Request, Replay(r) \/ Refuse(r) \/ Commit(r)
      PROVE  indexLock'[Id(s)] = s
  BY <1>2, <1>b, <1>c DEF Replay, Refuse, Commit, TypeOK
<1>3. ASSUME NEW r \in Request, InsertEvent(r)
      PROVE  indexLock'[Id(s)] = s
  BY <1>3, <1>a, <1>b, <1>c, QrAssumption DEF InsertEvent, TypeOK
<1>4. ASSUME NEW r \in Request, RecordConnect(r) \/ RecordInsert(r)
      PROVE  indexLock'[Id(s)] = s
  BY <1>4, <1>a, <1>c, QrAssumption DEF RecordConnect, RecordInsert, TypeOK
<1>5. ASSUME NEW r \in Request, RecordCommit(r) \/ RecordFails(r) \/ Abort(r)
      PROVE  indexLock'[Id(s)] = s
  BY <1>5, <1>b, <1>c DEF RecordCommit, RecordFails, Abort, TypeOK
<1>6. ASSUME NEW c \in DemoCode, SeedCode(c)
      PROVE  indexLock'[Id(s)] = s
  BY <1>6, <1>a DEF SeedCode, local
<1>7. CASE UNCHANGED vars
  BY <1>7, <1>a DEF vars
<1> QED
  BY <1>1, <1>2, <1>3, <1>4, <1>5, <1>6, <1>7
  DEF Next, Serve, Progress, Finished

\* Only the two commits and the seed write the tables.
LEMMA TablesKept ==
  ASSUME [Next]_vars
  PROVE  \/ UNCHANGED tables
         \/ \E r \in Request : Commit(r) \/ RecordCommit(r)
         \/ \E c \in DemoCode : SeedCode(c)
  BY DEF Next, Serve, Progress, Finished, vars, tables, Precheck, Begin,
         LockCode, NotFound, Replay, Refuse, Claim, InsertEvent, RecordConnect,
         RecordInsert, RecordFails, Abort

\* A row that is locked keeps its status in the steps of the others.
LEMMA StatusKept ==
  ASSUME IInv, [Next]_vars, NEW s \in Request,
         pc[s] \in HoldsRow, ~Commit(s)
  PROVE  status'[Fp(s)] = status[Fp(s)]
<1>1. CASE UNCHANGED tables
  BY <1>1 DEF tables
<1>2. ASSUME NEW r \in Request, Commit(r)
      PROVE  status'[Fp(s)] = status[Fp(s)]
  <2>1. Fp(r) # Fp(s)
    BY <1>2 DEF IInv, RowOwned, Commit, HoldsRow
  <2> QED
    BY <1>2, <2>1 DEF Commit, IInv, TypeOK
<1>3. ASSUME NEW r \in Request, RecordCommit(r)
      PROVE  status'[Fp(s)] = status[Fp(s)]
  BY <1>3 DEF RecordCommit
<1>4. ASSUME NEW c \in DemoCode, SeedCode(c)
      PROVE  status'[Fp(s)] = status[Fp(s)]
  <2>1. c # Fp(s)
    BY <1>4, QrAssumption DEF IInv, RowOwned, SeedCode
  <2> QED
    BY <1>4, <2>1 DEF SeedCode, IInv, TypeOK
<1> QED
  BY <1>1, <1>2, <1>3, <1>4, TablesKept

LEMMA SeenCurrentStep == IInv /\ [Next]_vars => SeenCurrent'
<1> SUFFICES ASSUME IInv, [Next]_vars, NEW s \in Request
             PROVE  /\ pc'[s] \in HoldsRow => seen'[s] = status'[Fp(s)]
                    /\ pc'[s] \in {"insert", "commit"} => seen'[s] = "Unused"
                    /\ pc'[s] \in Recording => seen'[s] # "Unused"
  BY InputFixed DEF SeenCurrent, IInv
<1> DEFINE Goal == /\ pc'[s] \in HoldsRow => seen'[s] = status'[Fp(s)]
                   /\ pc'[s] \in {"insert", "commit"} => seen'[s] = "Unused"
                   /\ pc'[s] \in Recording => seen'[s] # "Unused"
<1>a. /\ TypeOK
      /\ pc[s] \in HoldsRow => seen[s] = status[Fp(s)]
      /\ pc[s] \in {"insert", "commit"} => seen[s] = "Unused"
      /\ pc[s] \in Recording => seen[s] # "Unused"
  BY DEF IInv, SeenCurrent
<1>b. CASE pc'[s] = pc[s] /\ seen'[s] = seen[s]
  <2>1. ~Commit(s)
    BY <1>b, <1>a DEF Commit, Reply, TypeOK
  <2> QED
    BY <1>a, <1>b, <2>1, StatusKept
<1>c. ASSUME NEW r \in Request, Progress(r) \/ RecordFails(r) \/ Abort(r),
             r # s
      PROVE  Goal
  BY <1>b, <1>c, <1>a, Frame
<1> USE DEF HoldsRow, Recording, Goto, Reply, tables
<1>1. CASE Precheck(s) \/ Begin(s) \/ NotFound(s)
  BY <1>1, <1>a DEF Precheck, Begin, NotFound, TypeOK
<1>2. CASE LockCode(s)
  BY <1>2, <1>a DEF LockCode, TypeOK
<1>3. CASE Replay(s) \/ Refuse(s) \/ Claim(s)
  BY <1>3, <1>a DEF Replay, Refuse, Claim, TypeOK
<1>4. CASE InsertEvent(s) \/ Commit(s)
  BY <1>4, <1>a DEF InsertEvent, Commit, TypeOK
<1>5. CASE RecordConnect(s) \/ RecordInsert(s) \/ RecordCommit(s)
  BY <1>5, <1>a DEF RecordConnect, RecordInsert, RecordCommit, TypeOK
<1>6. CASE RecordFails(s) \/ Abort(s)
  BY <1>6, <1>a DEF RecordFails, Abort, TypeOK
<1>7. ASSUME NEW c \in DemoCode, SeedCode(c)
      PROVE  Goal
  BY <1>7, <1>b DEF SeedCode, local
<1>8. CASE UNCHANGED vars
  BY <1>8, <1>b DEF vars
<1> QED
  BY <1>c, <1>1, <1>2, <1>3, <1>4, <1>5, <1>6, <1>7, <1>8
  DEF Next, Serve, Progress, Finished

\* What a commit adds to qr.scan_event.
LEMMA NewRow ==
  ASSUME IInv, [Next]_vars, NEW e \in scanEvent' \ scanEvent
  PROVE  \E r \in Request :
           \/ Commit(r) /\ e = EventRow(r, "SUCCESS")
           \/ RecordCommit(r) /\ e = EventRow(r, FailureOutcome(seen[r]))
  BY TablesKept DEF tables, Commit, RecordCommit, SeedCode

LEMMA RowsKept == IInv /\ [Next]_vars => scanEvent \subseteq scanEvent'
  BY TablesKept DEF tables, Commit, RecordCommit, SeedCode

\* The history of the seed only grows.
LEMMA ResetsKept == [Next]_vars => reseeded \subseteq reseeded'
  BY TablesKept DEF tables, Commit, RecordCommit, SeedCode

LEMMA FreshStep == IInv /\ [Next]_vars => Fresh'
<1> SUFFICES ASSUME IInv, [Next]_vars,
                    NEW s \in Request, NEW e \in scanEvent',
                    e.clientRequestId = Id(s)
             PROVE  /\ pc'[s] \notin HoldsEntry
                    /\ pc'[s] = "insert" => e.fingerprint # Fp(s)
  BY InputFixed DEF Fresh, IInv
<1> DEFINE Goal == /\ pc'[s] \notin HoldsEntry
                   /\ pc'[s] = "insert" => e.fingerprint # Fp(s)
<1>a. TypeOK
  BY DEF IInv
\* A new row of this id, while s is at work, could only be its own.
<1>1. CASE e \notin scanEvent
  <2>1. PICK r \in Request :
               \/ Commit(r) /\ e = EventRow(r, "SUCCESS")
               \/ RecordCommit(r) /\ e = EventRow(r, FailureOutcome(seen[r]))
    BY <1>1, NewRow
  <2>2. /\ Id(r) = Id(s)
        /\ e.fingerprint = Fp(r)
        /\ pc[r] \in HoldsEntry
        /\ pc'[r] = "done"
    BY <2>1, <1>a DEF EventRow, Commit, RecordCommit, HoldsEntry, Reply, TypeOK
  <2>3. CASE r = s
    BY <2>2, <2>3 DEF HoldsEntry
  <2>4. CASE r # s
    <3>1. pc'[s] = pc[s]
      BY <2>1, <2>4, <1>a, Frame DEF Progress
    <3>2. pc[s] \notin HoldsEntry
      BY <2>2, <2>4 DEF IInv, EntryOwned
    <3>3. pc[s] = "insert" => Fp(s) # Fp(r)
      BY <2>1, <2>2, <2>4, QrAssumption
      DEF IInv, RowOwned, HoldsRow, Commit, RecordCommit
    <3> QED
      BY <3>1, <3>2, <3>3, <2>2
  <2> QED
    BY <2>3, <2>4
\* An old row of this id stops s at the checks.
<1>2. CASE e \in scanEvent
  <2>a. /\ pc[s] \notin HoldsEntry
        /\ pc[s] = "insert" => e.fingerprint # Fp(s)
        /\ e \in Recorded(s)
    BY <1>2 DEF IInv, Fresh, Recorded
  <2>b. CASE pc'[s] = pc[s]
    BY <2>a, <2>b
  <2>c. ASSUME NEW r \in Request, Progress(r) \/ RecordFails(r) \/ Abort(r),
               r # s
        PROVE  Goal
    BY <2>b, <2>c, <1>a, Frame
  <2> USE DEF HoldsEntry, Goto, Reply
  <2>1. CASE Precheck(s) \/ Begin(s) \/ LockCode(s) \/ NotFound(s)
    BY <2>1, <1>a DEF Precheck, Begin, LockCode, NotFound, TypeOK
  <2>2. CASE Replay(s) \/ Refuse(s) \/ Claim(s)
    BY <2>2, <2>a, <1>a DEF Replay, Refuse, Claim, TypeOK
  <2>3. CASE InsertEvent(s) \/ Commit(s)
    BY <2>3, <2>a, <1>a DEF InsertEvent, Commit, TypeOK
  <2>4. CASE RecordConnect(s) \/ RecordInsert(s) \/ RecordCommit(s)
    BY <2>4, <2>a, <1>a DEF RecordConnect, RecordInsert, RecordCommit, TypeOK
  <2>5. CASE RecordFails(s) \/ Abort(s)
    BY <2>5, <1>a DEF RecordFails, Abort, TypeOK
  <2>6. ASSUME NEW c \in DemoCode, SeedCode(c)
        PROVE  Goal
    BY <2>6, <2>b DEF SeedCode, local
  <2>7. CASE UNCHANGED vars
    BY <2>7, <2>b DEF vars
  <2> QED
    BY <2>c, <2>1, <2>2, <2>3, <2>4, <2>5, <2>6, <2>7
    DEF Next, Serve, Progress, Finished
<1> QED
  BY <1>1, <1>2

\* A claim starts the trace of a code in the three tables, a reset closes it,
\* no other step touches it.
LEMMA CommitTrace ==
  ASSUME IInv, [Next]_vars, NEW r \in Request, Commit(r)
  PROVE  ClaimTrace'
<1> DEFINE c == Fp(r)
           n == EventRow(r, "SUCCESS")
<1>a. /\ TypeOK
      /\ ClaimTrace
      /\ input' = input
  BY InputFixed DEF IInv
<1>1. /\ c \in Code
      /\ status[c] = "Unused"
      /\ usedBy[c] = NoRequest
      /\ r # NoRequest
      /\ r \notin reseeded
  <2>1. ~Succeeded(r)
    BY DEF Succeeded, EventRow, Commit, IInv, Fresh, HoldsEntry
  <2> QED
    BY <2>1, QrAssumption
    DEF Commit, IInv, KnownCode, SeenCurrent, ClaimTrace, HoldsRow
<1>2. /\ usedBy' = [usedBy EXCEPT ![c] = r]
      /\ status' = [status EXCEPT ![c] = "Used"]
      /\ scanEvent' = scanEvent \cup {n}
      /\ outbox' = outbox \cup {[code |-> c, by |-> r]}
      /\ reseeded' = reseeded
  BY DEF Commit
<1>3. \A q, x : EventRow(q, x)' = EventRow(q, x) /\ Fp(q)' = Fp(q)
  BY <1>a DEF EventRow, Id, Fp
<1>4. n.by = r /\ n.fingerprint = c /\ n.result = "SUCCESS"
  BY DEF EventRow
<1>5. ASSUME NEW e \in scanEvent', e.result = "SUCCESS"
      PROVE  /\ e.fingerprint \in Code
             /\ e = EventRow(e.by, "SUCCESS")
             /\ e.by \in reseeded \/ usedBy'[e.fingerprint] = e.by
             /\ [code |-> e.fingerprint, by |-> e.by] \in outbox'
  <2>1. CASE e = n
    <3>1. e.by = r /\ e.fingerprint = c
      BY <2>1, <1>4
    <3>2. usedBy'[c] = r
      BY <1>1, <1>2, <1>a DEF TypeOK
    <3> QED
      BY <2>1, <3>1, <3>2, <1>1, <1>2
  <2>2. CASE e \in scanEvent
    <3>1. e.by \in Request /\ e.by # NoRequest
      BY <2>2, <1>a, QrAssumption DEF TypeOK, Event
    <3>2. e.by \in reseeded \/ e.fingerprint # c
      BY <2>2, <3>1, <1>1, <1>5, <1>a DEF ClaimTrace
    <3> QED
      BY <2>2, <3>2, <1>2, <1>5, <1>a DEF ClaimTrace, TypeOK
  <2> QED
    BY <2>1, <2>2, <1>2
<1>6. \A q : Succeeded(q) => Succeeded(q)'
  BY <1>2, <1>3 DEF Succeeded
<1>7. Succeeded(r)'
  BY <1>2, <1>3 DEF Succeeded
<1>8. ASSUME NEW d \in Code, usedBy'[d] # NoRequest
      PROVE  /\ Fp(usedBy'[d]) = d
             /\ Succeeded(usedBy[d])'
             /\ usedBy'[d] \notin reseeded
  <2>1. CASE d = c
    <3>1. usedBy'[d] = r
      BY <2>1, <1>1, <1>2, <1>a DEF TypeOK
    <3> QED
      BY <3>1, <2>1, <1>1, <1>7 DEF Succeeded
  <2>2. CASE d # c
    <3>1. usedBy'[d] = usedBy[d]
      BY <2>2, <1>2, <1>a DEF TypeOK
    <3>2. Succeeded(usedBy[d]) /\ Fp(usedBy[d]) = d /\ usedBy[d] \notin reseeded
      BY <3>1, <1>8, <1>a DEF ClaimTrace
    <3>3. EventRow(usedBy[d], "SUCCESS")' = EventRow(usedBy[d], "SUCCESS")
      BY <3>1, <1>a DEF EventRow, Id, Fp
    <3> QED
      BY <3>1, <3>2, <3>3, <1>2 DEF Succeeded
  <2> QED
    BY <2>1, <2>2
<1>9. \A o \in outbox' : Fp(o.by) = o.code /\ Succeeded(o.by)'
  BY <1>2, <1>6, <1>7, <1>a DEF ClaimTrace
<1>10. \A q \in reseeded : Succeeded(q)'
  BY <1>6, <1>a DEF ClaimTrace
<1>11. \A d \in Code : status'[d] = "Used" <=> usedBy'[d] # NoRequest
  BY <1>1, <1>2, <1>a DEF ClaimTrace, TypeOK
<1> QED
  BY <1>2, <1>3, <1>5, <1>8, <1>9, <1>10, <1>11 DEF ClaimTrace

LEMMA SeedTrace ==
  ASSUME IInv, [Next]_vars, NEW c \in DemoCode, SeedCode(c)
  PROVE  ClaimTrace'
<1>a. /\ TypeOK
      /\ ClaimTrace
      /\ input' = input
      /\ c \in Code
  BY InputFixed, QrAssumption DEF IInv
<1>1. /\ usedBy' = [usedBy EXCEPT ![c] = NoRequest]
      /\ status' = [status EXCEPT ![c] = "Unused"]
      /\ reseeded' = reseeded \cup ({usedBy[c]} \ {NoRequest})
      /\ scanEvent' = scanEvent
      /\ outbox' = outbox
  BY DEF SeedCode
<1>2. \A q, x : EventRow(q, x)' = EventRow(q, x) /\ Fp(q)' = Fp(q)
  BY <1>a DEF EventRow, Id, Fp
<1>3. \A q : Succeeded(q)' <=> Succeeded(q)
  BY <1>1, <1>2 DEF Succeeded
<1>4. /\ usedBy'[c] = NoRequest
      /\ \A d \in Code \ {c} : usedBy'[d] = usedBy[d]
      /\ status'[c] = "Unused"
      /\ \A d \in Code \ {c} : status'[d] = status[d]
  BY <1>1, <1>a DEF TypeOK
<1>5. ASSUME NEW e \in scanEvent, e.result = "SUCCESS"
      PROVE  e.by \in reseeded' \/ usedBy'[e.fingerprint] = e.by
  <2>1. e.by \in Request /\ e.by # NoRequest /\ e.fingerprint \in Code
    BY <1>5, <1>a, QrAssumption DEF TypeOK, Event, ClaimTrace
  <2>2. e.by \in reseeded \/ usedBy[e.fingerprint] = e.by
    BY <1>5, <1>a DEF ClaimTrace
  <2> QED
    BY <2>1, <2>2, <1>1, <1>4
<1>6. ASSUME NEW d \in Code, usedBy'[d] # NoRequest
      PROVE  /\ Fp(usedBy'[d]) = d
             /\ Succeeded(usedBy[d])'
             /\ usedBy'[d] \notin reseeded'
  <2>1. d # c /\ usedBy'[d] = usedBy[d] /\ usedBy[d] # NoRequest
    BY <1>4, <1>6
  <2>2. /\ Fp(usedBy[d]) = d
        /\ Succeeded(usedBy[d])
        /\ usedBy[d] \notin reseeded
    BY <2>1, <1>a DEF ClaimTrace
  <2>3. usedBy[d] # usedBy[c]
    BY <2>1, <2>2, <1>a DEF ClaimTrace
  <2>4. EventRow(usedBy[d], "SUCCESS")' = EventRow(usedBy[d], "SUCCESS")
    BY <2>1, <1>a DEF EventRow, Id, Fp
  <2> QED
    BY <2>1, <2>2, <2>3, <2>4, <1>1 DEF Succeeded
<1>7. \A o \in outbox' : Fp(o.by) = o.code /\ Succeeded(o.by)'
  BY <1>1, <1>3, <1>a DEF ClaimTrace
<1>8. \A q \in reseeded' : Succeeded(q)'
  BY <1>1, <1>3, <1>a DEF ClaimTrace
<1>9. \A d \in Code : status'[d] = "Used" <=> usedBy'[d] # NoRequest
  BY <1>4, <1>a DEF ClaimTrace
<1>10. \A e \in scanEvent : e.result = "SUCCESS" =>
         /\ e.fingerprint \in Code
         /\ e = EventRow(e.by, "SUCCESS")
         /\ [code |-> e.fingerprint, by |-> e.by] \in outbox
  BY <1>a DEF ClaimTrace
<1> QED
  BY <1>1, <1>2, <1>5, <1>6, <1>7, <1>8, <1>9, <1>10 DEF ClaimTrace

LEMMA ClaimTraceStep == IInv /\ [Next]_vars => ClaimTrace'
<1> SUFFICES ASSUME IInv, [Next]_vars
             PROVE  ClaimTrace'
  OBVIOUS
<1>a. /\ TypeOK
      /\ ClaimTrace
      /\ input' = input
  BY InputFixed DEF IInv
<1>1. CASE UNCHANGED tables
  BY <1>1, <1>a DEF tables, ClaimTrace, Succeeded, EventRow, Id, Fp
<1>2. ASSUME NEW r \in Request, RecordCommit(r)
      PROVE  ClaimTrace'
  <2>1. \A e \in scanEvent' : e.result = "SUCCESS" => e \in scanEvent
    BY <1>2, FailureType DEF RecordCommit, EventRow
  <2>2. /\ UNCHANGED <<input, status, usedBy, outbox, reseeded>>
        /\ scanEvent \subseteq scanEvent'
    BY <1>2 DEF RecordCommit
  <2> QED
    BY <2>1, <2>2, <1>a DEF ClaimTrace, Succeeded, EventRow, Id, Fp
<1> QED
  BY <1>1, <1>2, CommitTrace, SeedTrace, TablesKept

LEMMA WasResetKept ==
  ASSUME IInv, [Next]_vars, NEW c, WasReset(c)
  PROVE  WasReset(c)'
  BY RowsKept, ResetsKept DEF WasReset, Successes

\* What the steps of the others leave of a refusal on its way.
LEMMA RefusalKept ==
  ASSUME IInv, [Next]_vars, NEW s \in Request, pc[s] \in Recording
  PROVE  seen[s] = status'[Fp(s)] \/ (seen[s] = "Used" /\ WasReset(Fp(s))')
<1> DEFINE f == Fp(s)
<1>a. /\ TypeOK
      /\ f \in Code
      /\ seen[s] = status[f] \/ (seen[s] = "Used" /\ WasReset(f))
      /\ seen[s] # "Unused"
      /\ f' = f
  BY InputFixed DEF IInv, KnownCode, RefusalStands, SeenCurrent
<1>1. CASE seen[s] = "Used" /\ WasReset(f)
  <2>1. WasReset(f)'
    BY <1>1, RowsKept, ResetsKept, <1>a DEF WasReset, Successes
  <2> QED
    BY <1>1, <2>1
<1>2. CASE seen[s] = status[f]
  <2>1. CASE UNCHANGED tables \/ \E r \in Request : RecordCommit(r)
    BY <2>1, <1>2 DEF tables, RecordCommit
  <2>2. ASSUME NEW r \in Request, Commit(r)
        PROVE  status'[f] = status[f]
    <3>1. status[Fp(r)] = "Unused"
      BY <2>2 DEF IInv, SeenCurrent, Commit, HoldsRow
    <3> QED
      BY <3>1, <2>2, <1>2, <1>a DEF Commit, TypeOK
  <2>3. ASSUME NEW c \in DemoCode, SeedCode(c)
        PROVE  \/ status'[f] = status[f]
               \/ seen[s] = "Used" /\ WasReset(f)'
    <3>1. CASE c # f
      BY <2>3, <3>1, <1>a DEF SeedCode, TypeOK
    <3>2. CASE c = f
      <4> DEFINE u == usedBy[f]
                 e == EventRow(u, "SUCCESS")
      <4>1. status[f] = "Used"
        BY <2>3, <3>2, <1>2, <1>a DEF IInv, RefusalStands, TypeOK, Status
      <4>2. u # NoRequest /\ e \in scanEvent /\ Fp(u) = f
        BY <4>1, <1>a DEF IInv, ClaimTrace, Succeeded
      <4>3. e.by = u /\ e.fingerprint = f /\ e.result = "SUCCESS"
        BY <4>2 DEF EventRow
      <4>4. e \in scanEvent' /\ u \in reseeded'
        BY <2>3, <3>2, <4>2 DEF SeedCode
      <4>5. WasReset(f)'
        BY <4>3, <4>4, <1>a DEF WasReset, Successes
      <4> QED
        BY <4>1, <4>5, <1>2
    <3> QED
      BY <3>1, <3>2
  <2> QED
    BY <2>1, <2>2, <2>3, <1>2, TablesKept
<1> QED
  BY <1>1, <1>2, <1>a

LEMMA RefusalStandsStep == IInv /\ [Next]_vars => RefusalStands'
<1> SUFFICES ASSUME IInv, [Next]_vars
             PROVE  RefusalStands'
  OBVIOUS
<1>a. TypeOK
  BY DEF IInv
<1>1. ASSUME NEW s \in Request, pc'[s] \in Recording
      PROVE  \/ seen'[s] = status'[Fp(s)]
             \/ seen'[s] = "Used" /\ WasReset(Fp(s))'
  <2>a. CASE pc[s] \in Recording /\ seen'[s] = seen[s]
    BY <2>a, RefusalKept
  <2>b. ASSUME NEW r \in Request, Progress(r) \/ RecordFails(r) \/ Abort(r),
               r # s
        PROVE  pc[s] \in Recording /\ seen'[s] = seen[s]
    BY <2>b, <1>1, <1>a, Frame
  <2> USE DEF Recording, Goto, Reply, TypeOK
  <2>1. CASE Precheck(s) \/ Begin(s) \/ LockCode(s) \/ NotFound(s)
    BY <2>1, <1>1, <1>a DEF Precheck, Begin, LockCode, NotFound
  <2>2. CASE Replay(s) \/ Claim(s) \/ InsertEvent(s) \/ Commit(s)
    BY <2>2, <1>1, <1>a DEF Replay, Claim, InsertEvent, Commit
  <2>3. CASE Refuse(s)
    BY <2>3 DEF Refuse, tables, IInv, SeenCurrent, HoldsRow
  <2>4. CASE RecordConnect(s) \/ RecordInsert(s) \/ RecordCommit(s)
    BY <2>4, <2>a, <1>1, <1>a DEF RecordConnect, RecordInsert, RecordCommit
  <2>5. CASE RecordFails(s) \/ Abort(s)
    BY <2>5, <1>1, <1>a DEF RecordFails, Abort
  <2>6. ASSUME NEW c \in DemoCode, SeedCode(c)
        PROVE  pc[s] \in Recording /\ seen'[s] = seen[s]
    BY <2>6, <1>1 DEF SeedCode, local
  <2>7. CASE UNCHANGED vars
    BY <2>7, <2>a, <1>1 DEF vars
  <2> QED
    BY <2>a, <2>b, <2>1, <2>2, <2>3, <2>4, <2>5, <2>6, <2>7
    DEF Next, Serve, Progress, Finished
<1>2. ASSUME NEW c \in DemoCode
      PROVE  status'[c] # "Inactive"
  <2>1. status[c] # "Inactive" /\ c \in Code
    BY QrAssumption DEF IInv, RefusalStands
  <2> QED
    BY <2>1, <1>a, TablesKept DEF tables, Commit, RecordCommit, SeedCode, TypeOK
<1>3. \A s \in Request : Fp(s)' = Fp(s)
  BY InputFixed, <1>a
<1> QED
  BY <1>1, <1>2, <1>3 DEF RefusalStands

LEMMA RivalKept ==
  ASSUME IInv, [Next]_vars, NEW k, NEW f, Rival(k, f)
  PROVE  Rival(k, f)'
  BY RowsKept DEF Rival

LEMMA OwnRivalKept ==
  ASSUME IInv, [Next]_vars, NEW s \in Request, Rival(Id(s), Fp(s))
  PROVE  Rival(Id(s), Fp(s))'
<1>1. PICK e \in scanEvent : /\ e.fingerprint = Fp(s)
                             /\ e.result = "SUCCESS"
                             /\ e.clientRequestId # Id(s)
  BY DEF Rival
<1>2. e \in scanEvent'
  BY RowsKept
<1>3. Id(s)' = Id(s) /\ Fp(s)' = Fp(s)
  BY InputFixed DEF IInv
<1> QED
  BY <1>1, <1>2, <1>3 DEF Rival

\* A refusal that says ALREADY_USED comes from a used code.
LEMMA RefusedForUse ==
  ASSUME IInv, NEW r \in Request, pc[r] \in Recording,
         FailureOutcome(seen[r]) = "ALREADY_USED"
  PROVE  Rival(Id(r), Fp(r))
  BY DEF IInv, TypeOK, SeenCurrent, Rivals, FailureOutcome, Status

LEMMA RivalsStep == IInv /\ [Next]_vars => Rivals'
<1> SUFFICES ASSUME IInv, [Next]_vars
             PROVE  Rivals'
  OBVIOUS
<1>a. TypeOK /\ Rivals
  BY DEF IInv
<1>1. ASSUME NEW s \in Request, pc'[s] \in Recording, seen'[s] = "Used"
      PROVE  Rival(Id(s), Fp(s))'
  <2>a. CASE pc[s] \in Recording /\ seen'[s] = seen[s]
    BY <2>a, <1>1, <1>a, OwnRivalKept DEF Rivals
  <2>b. ASSUME NEW r \in Request, Progress(r) \/ RecordFails(r) \/ Abort(r),
               r # s
        PROVE  pc[s] \in Recording /\ seen'[s] = seen[s]
    BY <2>b, <1>1, <1>a, Frame
  <2> USE DEF Recording, Goto, Reply, TypeOK
  <2>1. CASE Precheck(s) \/ Begin(s) \/ LockCode(s) \/ NotFound(s)
    BY <2>1, <1>1, <1>a DEF Precheck, Begin, LockCode, NotFound
  <2>2. CASE Replay(s) \/ Claim(s) \/ InsertEvent(s) \/ Commit(s)
    BY <2>2, <1>1, <1>a DEF Replay, Claim, InsertEvent, Commit
  <2>3. CASE Refuse(s)
    <3>1. /\ seen[s] = "Used"
          /\ pc[s] = "recheck"
          /\ Recorded(s) = {}
      BY <2>3, <1>1 DEF Refuse
    <3>2. Fp(s) \in Code /\ status[Fp(s)] = "Used"
      BY <3>1 DEF IInv, KnownCode, SeenCurrent, HoldsRow
    <3>3. /\ usedBy[Fp(s)] \in Request
          /\ Fp(usedBy[Fp(s)]) = Fp(s)
          /\ EventRow(usedBy[Fp(s)], "SUCCESS") \in scanEvent
      BY <3>2, <1>a DEF IInv, ClaimTrace, Succeeded, TypeOK
    <3>4. Rival(Id(s), Fp(s))
      BY <3>1, <3>3 DEF Rival, EventRow, Recorded
    <3> QED
      BY <3>4, OwnRivalKept
  <2>4. CASE RecordConnect(s) \/ RecordInsert(s) \/ RecordCommit(s)
    BY <2>4, <2>a, <1>1, <1>a DEF RecordConnect, RecordInsert, RecordCommit
  <2>5. CASE RecordFails(s) \/ Abort(s)
    BY <2>5, <1>1, <1>a DEF RecordFails, Abort
  <2>6. ASSUME NEW c \in DemoCode, SeedCode(c)
        PROVE  Rival(Id(s), Fp(s))'
    BY <2>6, <2>a, <1>1 DEF SeedCode, local
  <2>7. CASE UNCHANGED vars
    BY <2>7, <2>a, <1>1 DEF vars
  <2> QED
    BY <2>a, <2>b, <2>1, <2>2, <2>3, <2>4, <2>5, <2>6, <2>7
    DEF Next, Serve, Progress, Finished
<1>2. ASSUME NEW e \in scanEvent', e.result = "ALREADY_USED"
      PROVE  Rival(e.clientRequestId, e.fingerprint)'
  <2>1. CASE e \in scanEvent
    BY <2>1, <1>2, <1>a, RivalKept DEF Rivals, Rival
  <2>2. CASE e \notin scanEvent
    <3>1. PICK r \in Request :
            RecordCommit(r) /\ e = EventRow(r, FailureOutcome(seen[r]))
      BY <2>2, <1>2, NewRow DEF EventRow
    <3>2. /\ FailureOutcome(seen[r]) = "ALREADY_USED"
          /\ pc[r] \in Recording
          /\ e.clientRequestId = Id(r)
          /\ e.fingerprint = Fp(r)
      BY <3>1, <1>2 DEF RecordCommit, EventRow, Recording
    <3>3. Rival(e.clientRequestId, e.fingerprint)
      BY <3>2, RefusedForUse
    <3> QED
      BY <3>3, RivalKept DEF Rival
  <2> QED
    BY <2>1, <2>2
<1>3. ASSUME NEW s \in Request, answer'[s] = "ALREADY_USED"
      PROVE  Rival(Id(s), Fp(s))'
  <2>a. CASE answer'[s] = answer[s]
    <3>1. Rival(Id(s), Fp(s))
      BY <2>a, <1>3, <1>a DEF Rivals, RefusedOnlyByAnother, Rival
    <3> QED
      BY <3>1, OwnRivalKept
  <2>b. ASSUME NEW r \in Request, Progress(r) \/ RecordFails(r) \/ Abort(r),
               r # s
        PROVE  answer'[s] = answer[s]
    BY <2>b, <1>a, Frame
  <2>c. CASE "ALREADY_USED" \in Verdicts(s)
    <3>1. Rival(Id(s), Fp(s))
      BY <2>c, <1>a DEF Verdicts, Verdict, Recorded, Rivals
    <3> QED
      BY <3>1, OwnRivalKept
  <2>d. CASE FailureOutcome(seen[s]) = "ALREADY_USED" /\ pc[s] \in Recording
    BY <2>d, RefusedForUse, OwnRivalKept
  <2> USE DEF Recording, Goto, Reply, TypeOK
  <2>1. CASE Precheck(s) \/ Replay(s)
    BY <2>1, <2>a, <2>c, <1>3, <1>a DEF Precheck, Replay
  <2>2. CASE Begin(s) \/ LockCode(s) \/ Refuse(s) \/ Claim(s) \/ RecordConnect(s)
    BY <2>2, <2>a DEF Begin, LockCode, Refuse, Claim, RecordConnect
  <2>3. CASE NotFound(s) \/ InsertEvent(s) \/ Commit(s) \/ Abort(s)
    BY <2>3, <2>a, <1>3, <1>a DEF NotFound, InsertEvent, Commit, Abort
  <2>4. CASE RecordInsert(s) \/ RecordCommit(s) \/ RecordFails(s)
    BY <2>4, <2>a, <2>d, <1>3, <1>a DEF RecordInsert, RecordCommit, RecordFails
  <2>5. ASSUME NEW c \in DemoCode, SeedCode(c)
        PROVE  Rival(Id(s), Fp(s))'
    BY <2>5, <2>a DEF SeedCode, local
  <2>6. CASE UNCHANGED vars
    BY <2>6, <2>a DEF vars
  <2> QED
    BY <2>a, <2>b, <2>1, <2>2, <2>3, <2>4, <2>5, <2>6
    DEF Next, Serve, Progress, Finished
<1> QED
  BY <1>1, <1>2, <1>3 DEF Rivals, RefusedOnlyByAnother, Rival

\* What a replay answers is on record.
LEMMA VerdictRecorded ==
  ASSUME IInv, NEW r \in Request, NEW a \in Verdicts(r)
  PROVE  /\ a = "SUCCESS" =>
              \E e \in Recorded(r) : e.fingerprint = Fp(r) /\ e.result = "SUCCESS"
         /\ a = "IDEMPOTENCY_CONFLICT" =>
              \E e \in Recorded(r) : e.fingerprint # Fp(r)
  BY DEF IInv, TypeOK, Event, ResultCode, Verdicts, Verdict, Recorded

\* The two answers that speak of a record are only given when it is there.
LEMMA AnswersStep ==
  IInv /\ [Next]_vars => SuccessIsRecorded' /\ ConflictOnlyOnReuse'
<1> SUFFICES ASSUME IInv, [Next]_vars, NEW s \in Request
             PROVE  /\ answer'[s] = "SUCCESS" =>
                         \E e \in Recorded(s)' : /\ e.fingerprint = Fp(s)
                                                 /\ e.result = "SUCCESS"
                    /\ answer'[s] = "IDEMPOTENCY_CONFLICT" =>
                         \E e \in Recorded(s)' : e.fingerprint # Fp(s)
  BY InputFixed DEF SuccessIsRecorded, ConflictOnlyOnReuse, IInv
<1> DEFINE Goal == /\ answer'[s] = "SUCCESS" =>
                        \E e \in Recorded(s)' : /\ e.fingerprint = Fp(s)
                                                /\ e.result = "SUCCESS"
                   /\ answer'[s] = "IDEMPOTENCY_CONFLICT" =>
                        \E e \in Recorded(s)' : e.fingerprint # Fp(s)
<1>a. TypeOK
  BY DEF IInv
<1>b. Recorded(s) \subseteq Recorded(s)'
  BY RowsKept, InputFixed, <1>a DEF Recorded
<1>c. CASE answer'[s] = answer[s]
  BY <1>c, <1>b DEF IInv, SuccessIsRecorded, ConflictOnlyOnReuse
<1>d. ASSUME NEW r \in Request, Progress(r) \/ RecordFails(r) \/ Abort(r),
             r # s
      PROVE  answer'[s] = answer[s]
  BY <1>d, <1>a, Frame
<1>e. CASE answer'[s] \in Verdicts(s)
  BY <1>e, <1>b, VerdictRecorded
<1> USE DEF Goto, Reply, TypeOK
<1>1. CASE Precheck(s) \/ Replay(s)
  BY <1>1, <1>c, <1>e, <1>a DEF Precheck, Replay
<1>2. CASE Begin(s) \/ LockCode(s) \/ Refuse(s) \/ Claim(s) \/ RecordConnect(s)
  BY <1>2, <1>c DEF Begin, LockCode, Refuse, Claim, RecordConnect
<1>3. CASE InsertEvent(s)
  <2>1. CASE Recorded(s) = {}
    BY <1>3, <2>1, <1>c DEF InsertEvent
  <2>2. CASE Recorded(s) # {}
    <3>1. \E e \in Recorded(s) : e.fingerprint # Fp(s)
      BY <1>3, <2>2 DEF InsertEvent, Recorded, IInv, Fresh
    <3>2. answer'[s] = "IDEMPOTENCY_CONFLICT"
      BY <1>3, <2>2, <1>a DEF InsertEvent
    <3> QED
      BY <3>1, <3>2, <1>b
  <2> QED
    BY <2>1, <2>2
<1>4. CASE Commit(s)
  <2>1. EventRow(s, "SUCCESS") \in Recorded(s)'
    BY <1>4, InputFixed, <1>a DEF Commit, Recorded, EventRow
  <2>2. answer'[s] \in {"SUCCESS", "ERROR"}
    BY <1>4, <1>a DEF Commit
  <2> QED
    BY <2>1, <2>2 DEF EventRow
<1>5. CASE RecordInsert(s) \/ RecordCommit(s) \/ RecordFails(s)
  BY <1>5, <1>c, <1>a, FailureType DEF RecordInsert, RecordCommit, RecordFails
<1>6. CASE NotFound(s) \/ Abort(s)
  BY <1>6, <1>a DEF NotFound, Abort
<1>7. ASSUME NEW c \in DemoCode, SeedCode(c)
      PROVE  Goal
  BY <1>7, <1>c DEF SeedCode, local
<1>8. CASE UNCHANGED vars
  BY <1>8, <1>c DEF vars
<1> QED
  BY <1>c, <1>d, <1>1, <1>2, <1>3, <1>4, <1>5, <1>6, <1>7, <1>8
  DEF Next, Serve, Progress, Finished

LEMMA InvStep == IInv /\ [Next]_vars => IInv'
<1> SUFFICES ASSUME IInv, [Next]_vars
             PROVE  IInv'
  OBVIOUS
<1>1. TypeOK' /\ KnownCode'
  BY TypeStep, KnownCodeStep DEF IInv
<1> QED
  BY <1>1, RowOwnedStep, EntryOwnedStep, SeenCurrentStep, RefusalStandsStep,
     FreshStep, ClaimTraceStep, RivalsStep, AnswersStep DEF IInv

LEMMA Invariance == Spec => []IInv
  BY InvInit, InvStep, PTL DEF Spec

-----------------------------------------------------------------------------
\* One-time use: however scans of a code interleave, fail or are retried, at
\* most one is recorded as a success between two resets by the seed.
THEOREM OneTimeUse == Spec => []OneSuccessPerCode
<1>1. IInv => OneSuccessPerCode
  <2> SUFFICES ASSUME IInv, NEW c \in Code,
                      NEW e \in Successes(c), NEW f \in Successes(c),
                      e.by \notin reseeded, f.by \notin reseeded
               PROVE  e = f
    BY DEF OneSuccessPerCode
  <2>1. /\ e = EventRow(e.by, "SUCCESS") /\ e.by = usedBy[c]
        /\ f = EventRow(f.by, "SUCCESS") /\ f.by = usedBy[c]
    BY DEF IInv, ClaimTrace, Successes
  <2> QED
    BY <2>1
<1> QED
  BY <1>1, Invariance, PTL

\* A claim is all or nothing over qr.code, qr.scan_event and the outbox.
THEOREM AtomicClaim == Spec => []ClaimIsAtomic
<1>1. IInv => ClaimIsAtomic
  <2> SUFFICES ASSUME IInv, NEW c \in Code
               PROVE  /\ {e.by : e \in Successes(c)}
                          = {o.by : o \in {x \in outbox : x.code = c}}
                      /\ {e.by : e \in Successes(c)} \ reseeded
                          = {usedBy[c]} \ {NoRequest}
                      /\ status[c] = "Used" <=> usedBy[c] # NoRequest
    BY DEF ClaimIsAtomic
  <2>1. ClaimTrace /\ TypeOK
    BY DEF IInv
  <2>2. \A e \in Successes(c) :
          /\ \E o \in outbox : o.code = c /\ o.by = e.by
          /\ e.by \in reseeded \/ e.by = usedBy[c]
          /\ e.by # NoRequest
    BY <2>1, QrAssumption DEF ClaimTrace, Successes, TypeOK, Event
  <2>3. ASSUME NEW q, Succeeded(q), Fp(q) = c
        PROVE  \E e \in Successes(c) : e.by = q
    <3> DEFINE e == EventRow(q, "SUCCESS")
    <3>1. e.fingerprint = c /\ e.result = "SUCCESS" /\ e.by = q
      BY <2>3 DEF EventRow
    <3> QED
      BY <2>3, <3>1 DEF Successes, Succeeded
  <2>4. \A o \in outbox : o.code = c => \E e \in Successes(c) : e.by = o.by
    BY <2>1, <2>3 DEF ClaimTrace
  <2>5. usedBy[c] # NoRequest =>
          /\ \E e \in Successes(c) : e.by = usedBy[c]
          /\ usedBy[c] \notin reseeded
    BY <2>1, <2>3 DEF ClaimTrace
  <2>6. status[c] = "Used" <=> usedBy[c] # NoRequest
    BY <2>1 DEF ClaimTrace
  <2>7. {e.by : e \in Successes(c)} = {o.by : o \in {x \in outbox : x.code = c}}
    BY <2>2, <2>4
  <2>8. {e.by : e \in Successes(c)} \ reseeded = {usedBy[c]} \ {NoRequest}
    BY <2>2, <2>5
  <2> QED
    BY <2>6, <2>7, <2>8
<1> QED
  BY <1>1, Invariance, PTL

\* A lock belongs to a call that has taken it and not ended since.
Holders ==
  /\ \A c \in Code : rowLock[c] # NoRequest =>
       pc[rowLock[c]] \in HoldsRow /\ Fp(rowLock[c]) = c
  /\ \A k \in ClientId : indexLock[k] # NoRequest =>
       pc[indexLock[k]] \in HoldsEntry

LEMMA HoldersInit == Init => Holders
  BY DEF Init, Holders

LEMMA HoldersStep == IInv /\ Holders /\ [Next]_vars => Holders'
<1> SUFFICES ASSUME IInv, Holders, [Next]_vars
             PROVE  Holders'
  OBVIOUS
<1>a. /\ TypeOK
      /\ \A r \in Request : Id(r) \in ClientId /\ r # NoRequest
      /\ \A r \in Request : Fp(r)' = Fp(r) /\ Id(r)' = Id(r)
  BY InputFixed, InputType, QrAssumption DEF IInv
<1>b. ASSUME NEW r \in Request, NEW s, Goto(r, s) \/ Reply(r, s), Release(r)
      PROVE  Holders'
  <2>1. \A q \in Request \ {r} : pc'[q] = pc[q]
    BY <1>b, <1>a DEF Reply, Goto, TypeOK
  <2>2. \A c \in Code : rowLock'[c] # NoRequest =>
          rowLock'[c] = rowLock[c] /\ rowLock[c] # r /\ rowLock[c] \in Request
    BY <1>b, <1>a DEF Release, TypeOK
  <2>3. \A k \in ClientId : indexLock'[k] # NoRequest =>
          indexLock'[k] = indexLock[k] /\ indexLock[k] # r
            /\ indexLock[k] \in Request
    BY <1>b, <1>a DEF Release, TypeOK
  <2> QED
    BY <2>1, <2>2, <2>3, <1>a DEF Holders
<1>c. ASSUME NEW r \in Request, NEW s, Goto(r, s) \/ Reply(r, s),
             pc[r] \notin HoldsRow \cup HoldsEntry, UNCHANGED locks
      PROVE  Holders'
  <2>1. \A q \in Request \ {r} : pc'[q] = pc[q]
    BY <1>c, <1>a DEF Reply, Goto, TypeOK
  <2>2. /\ \A c \in Code : rowLock[c] # NoRequest =>
             rowLock[c] \in Request \ {r}
        /\ \A k \in ClientId : indexLock[k] # NoRequest =>
             indexLock[k] \in Request \ {r}
    BY <1>c, <1>a DEF Holders, TypeOK
  <2> QED
    BY <2>1, <2>2, <1>a, <1>c DEF Holders, locks
<1>d. ASSUME NEW r \in Request, NEW s, pc' = [pc EXCEPT ![r] = s],
             pc[r] \in HoldsRow => s \in HoldsRow,
             pc[r] \in HoldsEntry => s \in HoldsEntry,
             \/ rowLock' = rowLock
             \/ rowLock' = [rowLock EXCEPT ![Fp(r)] = r] /\ s \in HoldsRow,
             \/ indexLock' = indexLock
             \/ indexLock' = [indexLock EXCEPT ![Id(r)] = r] /\ s \in HoldsEntry
      PROVE  Holders'
  <2>1. \A q \in Request : pc'[q] = IF q = r THEN s ELSE pc[q]
    BY <1>d, <1>a DEF TypeOK
  <2>2. ASSUME NEW c \in Code, rowLock'[c] # NoRequest
        PROVE  /\ rowLock'[c] \in Request /\ Fp(rowLock'[c]) = c
               /\ pc'[rowLock'[c]] \in HoldsRow
    <3>1. \/ rowLock'[c] = rowLock[c]
          \/ rowLock'[c] = r /\ c = Fp(r) /\ s \in HoldsRow
      BY <1>d, <1>a DEF TypeOK
    <3>2. rowLock[c] # NoRequest =>
            /\ rowLock[c] \in Request /\ Fp(rowLock[c]) = c
            /\ pc[rowLock[c]] \in HoldsRow
      BY <1>a DEF Holders, TypeOK
    <3> QED
      BY <1>d, <2>1, <2>2, <3>1, <3>2
  <2>3. ASSUME NEW k \in ClientId, indexLock'[k] # NoRequest
        PROVE  pc'[indexLock'[k]] \in HoldsEntry
    <3>1. \/ indexLock'[k] = indexLock[k]
          \/ indexLock'[k] = r /\ s \in HoldsEntry
      BY <1>d, <1>a DEF TypeOK
    <3>2. indexLock[k] # NoRequest =>
            indexLock[k] \in Request /\ pc[indexLock[k]] \in HoldsEntry
      BY <1>a DEF Holders, TypeOK
    <3> QED
      BY <1>d, <2>1, <2>3, <3>1, <3>2
  <2> QED
    BY <1>a, <2>2, <2>3 DEF Holders
<1>1. ASSUME NEW r \in Request, Precheck(r) \/ Begin(r) \/ NotFound(r)
      PROVE  Holders'
  <2>1. pc[r] \notin HoldsRow \cup HoldsEntry
    BY <1>1 DEF Precheck, Begin, NotFound, HoldsRow, HoldsEntry
  <2>2. \E s : Goto(r, s) \/ Reply(r, s)
    BY <1>1 DEF Precheck, Begin, NotFound
  <2>3. UNCHANGED locks
    BY <1>1 DEF Precheck, Begin, NotFound
  <2> QED
    BY <2>1, <2>2, <2>3, <1>c
<1>2. ASSUME NEW r \in Request, LockCode(r)
      PROVE  Holders'
  BY <1>2, <1>d DEF LockCode, Goto, HoldsRow, HoldsEntry
<1>3. ASSUME NEW r \in Request, Replay(r) \/ Refuse(r)
      PROVE  Holders'
  <2>1. Release(r) /\ \E s : Goto(r, s) \/ Reply(r, s)
    BY <1>3 DEF Replay, Refuse
  <2> QED
    BY <2>1, <1>b
<1>4. ASSUME NEW r \in Request, Claim(r)
      PROVE  Holders'
  BY <1>4, <1>d DEF Claim, Goto, HoldsRow, HoldsEntry, locks
<1>5. ASSUME NEW r \in Request, InsertEvent(r)
      PROVE  Holders'
  <2>1. CASE Recorded(r) = {}
    BY <1>5, <2>1, <1>d DEF InsertEvent, Goto, HoldsRow, HoldsEntry
  <2>2. CASE Recorded(r) # {}
    <3>1. Reply(r, "IDEMPOTENCY_CONFLICT") /\ Release(r)
      BY <1>5, <2>2 DEF InsertEvent
    <3> QED
      BY <3>1, <1>b
  <2> QED
    BY <2>1, <2>2
<1>6. ASSUME NEW r \in Request,
             Commit(r) \/ RecordCommit(r) \/ RecordFails(r) \/ Abort(r)
      PROVE  Holders'
  <2>1. Release(r) /\ \E a : Reply(r, a)
    BY <1>6 DEF Commit, RecordCommit, RecordFails, Abort
  <2> QED
    BY <2>1, <1>b
<1>7. ASSUME NEW r \in Request, RecordConnect(r)
      PROVE  Holders'
  <2>1. pc[r] \notin HoldsRow \cup HoldsEntry
    BY <1>7 DEF RecordConnect, HoldsRow, HoldsEntry
  <2> QED
    BY <1>7, <2>1, <1>c DEF RecordConnect
<1>8. ASSUME NEW r \in Request, RecordInsert(r)
      PROVE  Holders'
  <2>1. pc[r] \notin HoldsRow \cup HoldsEntry
    BY <1>8 DEF RecordInsert, HoldsRow, HoldsEntry
  <2>2. CASE Recorded(r) = {}
    BY <1>8, <2>1, <2>2, <1>d DEF RecordInsert, Goto, HoldsRow, HoldsEntry
  <2>3. CASE Recorded(r) # {}
    BY <1>8, <2>1, <2>3, <1>c DEF RecordInsert, locks
  <2> QED
    BY <2>2, <2>3
<1>9. ASSUME NEW c \in DemoCode, SeedCode(c)
      PROVE  Holders'
  BY <1>9, <1>a DEF SeedCode, local, locks, Holders, TypeOK
<1>10. CASE UNCHANGED vars
  BY <1>10, <1>a DEF vars, Holders, TypeOK
<1> QED
  BY <1>1, <1>2, <1>3, <1>4, <1>5, <1>6, <1>7, <1>8, <1>9, <1>10
  DEF Next, Serve, Progress, Finished

\* Calls wait for one another in a circle only after the seed has reset the
\* code of a refusal that was on its way to the record.
THEOREM DeadlockCause == Spec => []DeadlockNeedsReset
<1>1. IInv /\ Holders => DeadlockNeedsReset
  <2> SUFFICES ASSUME IInv, Holders,
                      NEW D \in SUBSET Request, Deadlock(D)
               PROVE  \E r \in D : /\ pc[r] = "reccheck"
                                   /\ WasReset(Fp(r))
    BY DEF DeadlockNeedsReset, WasReset
  <2>a. \A r \in Request : Id(r) \in ClientId /\ r # NoRequest
    BY InputType, QrAssumption DEF IInv
  \* Whoever is waited for holds something, whoever waits is at a statement.
  <2>1. ASSUME NEW r \in D
        PROVE  pc[r] \in {"insert", "reccheck"}
    <3>1. pc[r] \in {"lock", "reccheck", "insert", "recinsert"}
      BY DEF Deadlock, WaitsFor
    <3>2. pc[r] \in HoldsRow \cup HoldsEntry
      BY <2>a DEF Deadlock, WaitsFor, Holders
    <3> QED
      BY <3>1, <3>2 DEF HoldsRow, HoldsEntry
  <2>2. PICK q \in D : TRUE
    BY DEF Deadlock
  <2>3. \E r \in D : pc[r] = "reccheck"
    <3>1. CASE pc[q] = "insert"
      <4>1. PICK s \in D : indexLock[Id(q)] = s
        BY <3>1 DEF Deadlock, WaitsFor
      <4>2. pc[s] \in HoldsEntry
        BY <4>1, <2>a DEF Holders
      <4> QED
        BY <4>2, <2>1 DEF HoldsEntry
    <3> QED
      BY <3>1, <2>1
  <2>4. PICK r \in D : pc[r] = "reccheck"
    BY <2>3
  <2>5. PICK s \in D : /\ Fp(r) \in Code
                       /\ rowLock[Fp(r)] = s
    BY <2>4 DEF Deadlock, WaitsFor
  <2>6. pc[s] = "insert" /\ Fp(s) = Fp(r)
    BY <2>1, <2>5, <2>a DEF Holders, HoldsRow
  <2>7. status[Fp(r)] = "Unused"
    BY <2>6 DEF IInv, SeenCurrent, HoldsRow
  <2>8. seen[r] # "Unused" /\ (seen[r] = status[Fp(r)] \/ WasReset(Fp(r)))
    BY <2>4 DEF IInv, SeenCurrent, RefusalStands, Recording
  <2> QED
    BY <2>4, <2>7, <2>8
<1>2. Init => Holders
  BY HoldersInit
<1>3. IInv /\ Holders /\ [Next]_vars => Holders'
  BY HoldersStep
<1> QED
  BY <1>1, <1>2, <1>3, Invariance, PTL DEF Spec

(***************************************************************************)
(* Calls wait for a client of the pool, for a code row, or for the index   *)
(* entry of their id; whoever waits for a row or an entry has a client.    *)
(* The chain from a call to the one it waits for ends at a call that can   *)
(* go on, or at a refusal whose code the seed has reset.                   *)
(***************************************************************************)

\* The call has not ended and nothing keeps it waiting.
CanGoOn(r) ==
  /\ pc[r] # "done"
  /\ pc[r] \in {"start", "connect", "record"} => ClientFree
  /\ pc[r] \in {"lock", "reccheck"} /\ Fp(r) \in Code => rowLock[Fp(r)] = NoRequest
  /\ pc[r] \in {"insert", "recinsert"} => indexLock[Id(r)] = NoRequest

\* As long as a call has not ended, one can go on, unless the record of a
\* refusal is waiting for a code that the seed has reset.
NeverStuck ==
  (\E r \in Request : pc[r] # "done") =>
    \E r \in Request : CanGoOn(r) \/ (pc[r] = "reccheck" /\ WasReset(Fp(r)))

\* Nobody holds a row before a record that waits for it, but for a reset.
LEMMA RecordWaitsForReset ==
  ASSUME IInv, Holders, NEW r \in Request, pc[r] = "reccheck"
  PROVE  CanGoOn(r) \/ WasReset(Fp(r)) \/ \E s \in Request : pc[s] \in {"recheck", "commit"}
<1> SUFFICES ASSUME ~ CanGoOn(r), ~ WasReset(Fp(r))
             PROVE  \E s \in Request : pc[s] \in {"recheck", "commit"}
  OBVIOUS
<1> DEFINE s == rowLock[Fp(r)]
<1>1. Fp(r) \in Code /\ s # NoRequest
  BY DEF CanGoOn
<1>2. s \in Request /\ pc[s] \in HoldsRow /\ Fp(s) = Fp(r)
  BY <1>1 DEF Holders, IInv, TypeOK
<1>3. seen[r] # "Unused" /\ seen[r] = status[Fp(r)]
  BY DEF IInv, SeenCurrent, RefusalStands, Recording
<1>4. pc[s] # "insert"
  BY <1>2, <1>3 DEF IInv, SeenCurrent, HoldsRow
<1> QED
  BY <1>2, <1>4 DEF HoldsRow

\* A pool of one client is enough: recordFailure asks for its client after
\* the transaction of the refusal has given its own back
\* (qr/src/index.ts:143-155).
THEOREM NoStandstill == Spec => []NeverStuck
<1>1. IInv /\ Holders => NeverStuck
  <2> DEFINE Moving == \E q \in Request :
                         CanGoOn(q) \/ (pc[q] = "reccheck" /\ WasReset(Fp(q)))
  <2> SUFFICES ASSUME IInv, Holders, NEW r \in Request, pc[r] # "done"
               PROVE  Moving
    BY DEF NeverStuck
  <2>a. /\ TypeOK
        /\ \A q \in Request : Id(q) \in ClientId
    BY InputType DEF IInv
  <2>1. ASSUME \E q \in Request : pc[q] \in {"recheck", "commit"}
        PROVE  Moving
    BY <2>1 DEF CanGoOn
  <2>2. ASSUME \E q \in Request : pc[q] = "reccheck"
        PROVE  Moving
    BY <2>1, <2>2, RecordWaitsForReset
  \* Whoever waits for an index entry waits for a commit or a record.
  <2>3. ASSUME NEW q \in Request, pc[q] \in {"insert", "recinsert"}
        PROVE  Moving
    <3>1. CASE indexLock[Id(q)] = NoRequest
      BY <2>3, <3>1 DEF CanGoOn
    <3>2. CASE indexLock[Id(q)] # NoRequest
      <4>1. /\ indexLock[Id(q)] \in Request
            /\ pc[indexLock[Id(q)]] \in {"commit", "reccheck"}
        BY <3>2, <2>a DEF Holders, HoldsEntry, TypeOK
      <4> QED
        BY <4>1, <2>1, <2>2
    <3> QED
      BY <3>1, <3>2
  \* Whoever waits for a row waits for a call past SELECT ... FOR UPDATE.
  <2>4. ASSUME NEW q \in Request, pc[q] = "lock"
        PROVE  Moving
    <3>1. CASE Fp(q) \in Code => rowLock[Fp(q)] = NoRequest
      BY <2>4, <3>1 DEF CanGoOn
    <3>2. CASE Fp(q) \in Code /\ rowLock[Fp(q)] # NoRequest
      <4>1. /\ rowLock[Fp(q)] \in Request
            /\ pc[rowLock[Fp(q)]] \in {"recheck", "insert", "commit"}
        BY <3>2, <2>a DEF Holders, HoldsRow, TypeOK
      <4> QED
        BY <4>1, <2>1, <2>3
    <3> QED
      BY <3>1, <3>2
  <2>5. CASE \A q \in Request : pc[q] \notin HoldsClient
    <3>1. {q \in Request : pc[q] \in HoldsClient} = {}
      BY <2>5
    <3>2. ClientFree
      BY <3>1, FS_EmptySet, QrAssumption DEF ClientFree
    <3> QED
      BY <2>5, <3>2 DEF CanGoOn, HoldsClient, InTransaction
  <2> HIDE DEF Moving
  <2> QED
    BY <2>1, <2>2, <2>3, <2>4, <2>5 DEF HoldsClient, InTransaction
<1>2. Init => Holders
  BY HoldersInit
<1>3. IInv /\ Holders /\ [Next]_vars => Holders'
  BY HoldersStep
<1> QED
  BY <1>1, <1>2, <1>3, Invariance, PTL DEF Spec

\* A caller is refused for use only when the code went to another request.
THEOREM FairRefusal == Spec => []RefusedOnlyByAnother
<1>1. IInv => RefusedOnlyByAnother
  BY DEF IInv, Rivals
<1> QED
  BY <1>1, Invariance, PTL

\* SUCCESS is only ever answered on a committed record.
THEOREM DurableSuccess == Spec => []SuccessIsRecorded
<1>1. IInv => SuccessIsRecorded
  BY DEF IInv
<1> QED
  BY <1>1, Invariance, PTL

\* An exact retry is never taken for a reused client_request_id.
THEOREM TrueConflict == Spec => []ConflictOnlyOnReuse
<1>1. IInv => ConflictOnlyOnReuse
  BY DEF IInv
<1> QED
  BY <1>1, Invariance, PTL

\* Recorded outcomes stay, and a code that is not Unused keeps its status and
\* the scan that used it.
THEOREM FinalHistory == Spec => HistoryIsFinal
<1>1. IInv /\ [Next]_vars => [HistoryKept]_vars
  <2> SUFFICES ASSUME IInv, [Next]_vars
               PROVE  HistoryKept
    OBVIOUS
  <2>1. CASE UNCHANGED tables
    BY <2>1 DEF tables, HistoryKept
  <2>2. ASSUME NEW r \in Request, Commit(r)
        PROVE  HistoryKept
    <3>1. status[Fp(r)] = "Unused"
      BY <2>2 DEF IInv, SeenCurrent, Commit, HoldsRow
    <3> QED
      BY <2>2, <3>1 DEF Commit, HistoryKept, IInv, TypeOK
  <2>3. ASSUME NEW r \in Request, RecordCommit(r)
        PROVE  HistoryKept
    BY <2>3 DEF RecordCommit, HistoryKept
  <2>4. ASSUME NEW c \in DemoCode, SeedCode(c)
        PROVE  HistoryKept
    <3>1. ASSUME NEW d \in Code, status[d] # "Unused"
          PROVE  \/ status'[d] = status[d] /\ usedBy'[d] = usedBy[d]
                 \/ usedBy[d] \in reseeded'
      <4>1. CASE d = c
        <5>1. usedBy[d] # NoRequest
          BY <3>1, <4>1
          DEF IInv, RefusalStands, ClaimTrace, TypeOK, Status
        <5> QED
          BY <5>1, <4>1, <2>4 DEF SeedCode
      <4>2. CASE d # c
        BY <4>2, <2>4 DEF SeedCode, IInv, TypeOK
      <4> QED
        BY <4>1, <4>2
    <3> QED
      BY <3>1, <2>4 DEF SeedCode, HistoryKept
  <2> QED
    BY <2>1, <2>2, <2>3, <2>4, TablesKept
<1> QED
  BY <1>1, Invariance, PTL DEF Spec, HistoryIsFinal
=============================================================================
