------------------------------- MODULE QrScan -------------------------------
(***************************************************************************)
(* QrService.scan (packages/domain/qr/src/index.ts) over PostgreSQL at     *)
(* READ COMMITTED.  Each Request is one call of scan(); an exact retry is  *)
(* another Request with the same input.  The requests interleave at every  *)
(* await of the code, and wait where the database makes them wait:         *)
(*   - SELECT ... FOR UPDATE waits for the row lock of qr.code;            *)
(*   - INSERT INTO qr.scan_event waits for an uncommitted row with the     *)
(*     same client_request_id (the UNIQUE index);                          *)
(*   - the foreign key of qr.scan_event takes KEY SHARE on the code row,   *)
(*     which waits for a FOR UPDATE holder;                                *)
(*   - every statement outside a transaction, and every transaction, needs *)
(*     one of the PoolSize clients of the pg pool.                         *)
(* What a transaction has written and not committed is invisible to the    *)
(* others, so its writes are applied by Commit; the locks and the index    *)
(* entry it holds meanwhile are state.                                     *)
(*                                                                         *)
(* The HMAC is taken as injective: a raw code and its fingerprint are the  *)
(* same value.  member_id and correlation_id are abstracted to the request *)
(* that carried them (the fields usedBy and by).                           *)
(*                                                                         *)
(* The demo seed (scripts/seed/run-seed.mjs) may run at any time beside    *)
(* the scans: it sets the demo codes to Unused, one autocommit statement   *)
(* per code on a pool of its own, and keeps what is recorded about them.   *)
(***************************************************************************)
EXTENDS Naturals, FiniteSets

CONSTANTS Request,      \* calls of scan()
          ClientId,     \* values of client_request_id
          Fingerprint,  \* hashes of the raw values that are scanned
          Code,         \* the hashes that have a row in qr.code
          DemoCode,     \* those of the rows that the seed resets
          NoRequest,    \* the holder of a lock that is free
          PoolSize      \* clients of the pg pool

ASSUME QrAssumption == /\ Code \subseteq Fingerprint
                       /\ DemoCode \subseteq Code
                       /\ NoRequest \notin Request \cup ClientId
                       /\ PoolSize \in Nat \ {0}

VARIABLES input,      \* the arguments of each call
          pc,         \* the await each call is at
          seen,       \* codeRow.status, read under the row lock
          answer,     \* what the caller of scan() was told
          status,     \* qr.code.status, committed
          usedBy,     \* qr.code.used_by_member_id, committed
          scanEvent,  \* qr.scan_event, committed
          outbox,     \* platform.event_outbox, committed
          reseeded,   \* history: the scans whose code was reset later
          rowLock,    \* the FOR UPDATE holder of each code row
          indexLock   \* the holder of the uncommitted unique-index entry

local  == <<input, pc, seen, answer>>
tables == <<status, usedBy, scanEvent, outbox, reseeded>>
locks  == <<rowLock, indexLock>>
vars   == <<input, pc, seen, answer, status, usedBy, scanEvent, outbox,
            reseeded, rowLock, indexLock>>

Status     == {"Unused", "Used", "Inactive"}
ResultCode == {"SUCCESS", "ALREADY_USED", "INACTIVE"}
\* A recorded outcome is answered by its result code (STATE_CONFLICT carries
\* it in details.reason); ERROR is a 500 or a connection that went away.
Answer     == ResultCode \cup {"IDEMPOTENCY_CONFLICT", "NOT_FOUND", "ERROR"}

InTransaction == {"lock", "recheck", "insert", "commit"}
HoldsRow      == {"recheck", "insert", "commit"}
HoldsEntry    == {"commit", "reccheck"}
Recording     == {"record", "recinsert", "reccheck"}
HoldsClient   == InTransaction \cup {"recinsert", "reccheck"}
Step          == {"start", "connect", "done"} \cup InTransaction \cup Recording

Event == [clientRequestId : ClientId, fingerprint : Fingerprint,
          result : ResultCode, by : Request]

TypeOK ==
  /\ input \in [Request -> [clientRequestId : ClientId,
                            fingerprint : Fingerprint]]
  /\ pc \in [Request -> Step]
  /\ seen \in [Request -> Status]
  /\ answer \in [Request -> Answer \cup {"none"}]
  /\ status \in [Code -> Status]
  /\ usedBy \in [Code -> Request \cup {NoRequest}]
  /\ scanEvent \subseteq Event
  /\ outbox \subseteq [code : Code, by : Request]
  /\ reseeded \subseteq Request
  /\ rowLock \in [Code -> Request \cup {NoRequest}]
  /\ indexLock \in [ClientId -> Request \cup {NoRequest}]

-----------------------------------------------------------------------------
Id(r) == input[r].clientRequestId
Fp(r) == input[r].fingerprint

ClientFree == Cardinality({r \in Request : pc[r] \in HoldsClient}) < PoolSize

\* checkIdempotency: the row recorded under the caller's client_request_id ...
Recorded(r) == {e \in scanEvent : e.clientRequestId = Id(r)}
\* ... and what it makes the caller answer.
Verdict(e, r) == IF e.fingerprint # Fp(r) THEN "IDEMPOTENCY_CONFLICT"
                                          ELSE e.result
Verdicts(r) == {Verdict(e, r) : e \in Recorded(r)}

\* Mutant: the error code is recorded where the result code belongs.
FailureOutcome_ErrorCode(s) == "STATE_CONFLICT"

\* buildFailureOutcome
FailureOutcome(s) == IF s = "Inactive" THEN "INACTIVE" ELSE "ALREADY_USED"

Goto(r, step) == /\ pc' = [pc EXCEPT ![r] = step]
                 /\ UNCHANGED answer

Reply(r, a) == /\ pc' = [pc EXCEPT ![r] = "done"]
               /\ answer' = [answer EXCEPT ![r] = a]

\* COMMIT and ROLLBACK release the row lock and the index entry of r.
Release(r) ==
  /\ rowLock' = [c \in Code |-> IF rowLock[c] = r THEN NoRequest
                                                  ELSE rowLock[c]]
  /\ indexLock' = [k \in ClientId |-> IF indexLock[k] = r THEN NoRequest
                                                          ELSE indexLock[k]]

EventRow(r, result) == [clientRequestId |-> Id(r), fingerprint |-> Fp(r),
                        result |-> result, by |-> r]

-----------------------------------------------------------------------------
\* Nothing in src/ deactivates a code: Inactive rows are there beforehand,
\* and the codes that were seeded are not among them.
Init ==
  /\ input \in [Request -> [clientRequestId : ClientId,
                            fingerprint : Fingerprint]]
  /\ pc = [r \in Request |-> "start"]
  /\ seen = [r \in Request |-> "Unused"]
  /\ answer = [r \in Request |-> "none"]
  /\ status \in [Code -> {"Unused", "Inactive"}]
  /\ \A c \in DemoCode : status[c] = "Unused"
  /\ usedBy = [c \in Code |-> NoRequest]
  /\ scanEvent = {}
  /\ outbox = {}
  /\ reseeded = {}
  /\ rowLock = [c \in Code |-> NoRequest]
  /\ indexLock = [k \in ClientId |-> NoRequest]

\* The first checkIdempotency, outside any transaction.
Precheck(r) ==
  /\ pc[r] = "start"
  /\ ClientFree
  /\ \/ Recorded(r) = {} /\ Goto(r, "connect")
     \/ \E a \in Verdicts(r) : Reply(r, a)
  /\ UNCHANGED <<input, seen, tables, locks>>

\* withTransaction: pool.connect() and BEGIN.
Begin(r) ==
  /\ pc[r] = "connect"
  /\ ClientFree
  /\ Goto(r, "lock")
  /\ UNCHANGED <<input, seen, tables, locks>>

\* Mutant: SELECT without FOR UPDATE.
LockCode_NoLock(r) ==
  /\ pc[r] = "lock"
  /\ Fp(r) \in Code
  /\ seen' = [seen EXCEPT ![r] = status[Fp(r)]]
  /\ Goto(r, "recheck")
  /\ UNCHANGED <<input, tables, locks>>

\* SELECT ... FOR UPDATE: no row, or the row once nobody else holds it.
LockCode(r) ==
  /\ pc[r] = "lock"
  /\ Fp(r) \in Code
  /\ rowLock[Fp(r)] = NoRequest
  /\ rowLock' = [rowLock EXCEPT ![Fp(r)] = r]
  /\ seen' = [seen EXCEPT ![r] = status[Fp(r)]]
  /\ Goto(r, "recheck")
  /\ UNCHANGED <<input, tables, indexLock>>

NotFound(r) ==
  /\ pc[r] = "lock"
  /\ Fp(r) \notin Code
  /\ Reply(r, "NOT_FOUND")
  /\ UNCHANGED <<input, seen, tables, locks>>

\* The second checkIdempotency, under the row lock: replay (COMMIT) or
\* conflict (throw and ROLLBACK) both end the transaction with no write.
Replay(r) ==
  /\ pc[r] = "recheck"
  /\ \E a \in Verdicts(r) : Reply(r, a)
  /\ Release(r)
  /\ UNCHANGED <<input, seen, tables>>

\* Mutant: no second idempotency check under the row lock.
Refuse_NoRecheck(r) ==
  /\ pc[r] = "recheck"
  /\ seen[r] # "Unused"
  /\ Goto(r, "record")
  /\ Release(r)
  /\ UNCHANGED <<input, seen, tables>>

\* Not Unused: the transaction commits nothing and recordFailure follows.
Refuse(r) ==
  /\ pc[r] = "recheck"
  /\ Recorded(r) = {}
  /\ seen[r] # "Unused"
  /\ Goto(r, "record")
  /\ Release(r)
  /\ UNCHANGED <<input, seen, tables>>

\* Mutant: only Inactive codes are refused.
Claim_Again(r) ==
  /\ pc[r] = "recheck"
  /\ Recorded(r) = {}
  /\ seen[r] # "Inactive"
  /\ Goto(r, "insert")
  /\ UNCHANGED <<input, seen, tables, locks>>

\* UPDATE qr.code SET status = 'Used', invisible until the commit.
Claim(r) ==
  /\ pc[r] = "recheck"
  /\ Recorded(r) = {}
  /\ seen[r] = "Unused"
  /\ Goto(r, "insert")
  /\ UNCHANGED <<input, seen, tables, locks>>

\* Mutant: error 23505 is taken for a replay of the caller's own success.
InsertEvent_ReplayOnViolation(r) ==
  /\ pc[r] = "insert"
  /\ indexLock[Id(r)] = NoRequest
  /\ \/ /\ Recorded(r) = {}
        /\ indexLock' = [indexLock EXCEPT ![Id(r)] = r]
        /\ Goto(r, "commit")
        /\ UNCHANGED rowLock
     \/ /\ Recorded(r) # {}
        /\ Reply(r, "SUCCESS")
        /\ Release(r)
  /\ UNCHANGED <<input, seen, tables>>

\* INSERT INTO qr.scan_event: waits for an uncommitted row with the same
\* client_request_id; a committed one is error 23505 and rolls back.
InsertEvent(r) ==
  /\ pc[r] = "insert"
  /\ indexLock[Id(r)] = NoRequest
  /\ \/ /\ Recorded(r) = {}
        /\ indexLock' = [indexLock EXCEPT ![Id(r)] = r]
        /\ Goto(r, "commit")
        /\ UNCHANGED rowLock
     \/ /\ Recorded(r) # {}
        /\ Reply(r, "IDEMPOTENCY_CONFLICT")
        /\ Release(r)
  /\ UNCHANGED <<input, seen, tables>>

\* Mutant: the outbox row is left to a transaction of its own, and lost.
Commit_NoOutbox(r) ==
  /\ pc[r] = "commit"
  /\ status' = [status EXCEPT ![Fp(r)] = "Used"]
  /\ usedBy' = [usedBy EXCEPT ![Fp(r)] = r]
  /\ scanEvent' = scanEvent \cup {EventRow(r, "SUCCESS")}
  /\ \E a \in {"SUCCESS", "ERROR"} : Reply(r, a)
  /\ Release(r)
  /\ UNCHANGED <<input, seen, outbox, reseeded>>

\* writeOutboxEvent and COMMIT; the acknowledgement may be lost (ERROR).
Commit(r) ==
  /\ pc[r] = "commit"
  /\ status' = [status EXCEPT ![Fp(r)] = "Used"]
  /\ usedBy' = [usedBy EXCEPT ![Fp(r)] = r]
  /\ scanEvent' = scanEvent \cup {EventRow(r, "SUCCESS")}
  /\ outbox' = outbox \cup {[code |-> Fp(r), by |-> r]}
  /\ \E a \in {"SUCCESS", "ERROR"} : Reply(r, a)
  /\ Release(r)
  /\ UNCHANGED <<input, seen, reseeded>>

\* recordFailure: one autocommit statement on a client of its own.
RecordConnect(r) ==
  /\ pc[r] = "record"
  /\ ClientFree
  /\ Goto(r, "recinsert")
  /\ UNCHANGED <<input, seen, tables, locks>>

\* INSERT ... ON CONFLICT (client_request_id) DO NOTHING.
RecordInsert(r) ==
  /\ pc[r] = "recinsert"
  /\ indexLock[Id(r)] = NoRequest
  /\ \/ /\ Recorded(r) = {}
        /\ indexLock' = [indexLock EXCEPT ![Id(r)] = r]
        /\ Goto(r, "reccheck")
     \/ /\ Recorded(r) # {}
        /\ Reply(r, FailureOutcome(seen[r]))
        /\ UNCHANGED indexLock
  /\ UNCHANGED <<input, seen, tables, rowLock>>

\* Its foreign key check waits for the FOR UPDATE holder of the code row;
\* then the statement commits and scan() throws the failure (the caller may
\* be gone by then: ERROR).
RecordCommit(r) ==
  /\ pc[r] = "reccheck"
  /\ rowLock[Fp(r)] = NoRequest
  /\ scanEvent' = scanEvent \cup {EventRow(r, FailureOutcome(seen[r]))}
  /\ \E a \in {FailureOutcome(seen[r]), "ERROR"} : Reply(r, a)
  /\ Release(r)
  /\ UNCHANGED <<input, seen, status, usedBy, outbox, reseeded>>

\* Any error of that statement is logged and swallowed.
RecordFails(r) ==
  /\ pc[r] \in Recording
  /\ Reply(r, FailureOutcome(seen[r]))
  /\ Release(r)
  /\ UNCHANGED <<input, seen, tables>>

\* Mutant: the catch block forgets ROLLBACK, the client keeps its locks.
Abort_NoRollback(r) ==
  /\ pc[r] # "done"
  /\ Reply(r, "ERROR")
  /\ UNCHANGED <<input, seen, tables, locks>>

\* A query throws (ROLLBACK, rethrow) or the process stops: the database
\* rolls back what was in flight and the caller has no outcome.
Abort(r) ==
  /\ pc[r] # "done"
  /\ Reply(r, "ERROR")
  /\ Release(r)
  /\ UNCHANGED <<input, seen, tables>>

\* Mutant: the seed forgets used_by_member_id.
SeedCode_KeepsUser(c) ==
  /\ rowLock[c] = NoRequest
  /\ status' = [status EXCEPT ![c] = "Unused"]
  /\ reseeded' = reseeded \cup ({usedBy[c]} \ {NoRequest})
  /\ UNCHANGED <<local, usedBy, scanEvent, outbox, locks>>

\* seedQrCodes: INSERT ... ON CONFLICT DO UPDATE of one code waits for the
\* holder of its row, then makes it Unused.
SeedCode(c) ==
  /\ rowLock[c] = NoRequest
  /\ status' = [status EXCEPT ![c] = "Unused"]
  /\ usedBy' = [usedBy EXCEPT ![c] = NoRequest]
  /\ reseeded' = reseeded \cup ({usedBy[c]} \ {NoRequest})
  /\ UNCHANGED <<local, scanEvent, outbox, locks>>

Progress(r) ==
  \/ Precheck(r) \/ Begin(r) \/ LockCode(r) \/ NotFound(r)
  \/ Replay(r) \/ Refuse(r) \/ Claim(r) \/ InsertEvent(r) \/ Commit(r)
  \/ RecordConnect(r) \/ RecordInsert(r) \/ RecordCommit(r)

Finished == (\A r \in Request : pc[r] = "done") /\ UNCHANGED vars

\* Without errors, lost connections or stops.
Serve == (\E r \in Request : Progress(r)) \/ Finished

Next == \/ Serve
        \/ \E r \in Request : RecordFails(r) \/ Abort(r)
        \/ \E c \in DemoCode : SeedCode(c)

Spec == Init /\ [][Next]_vars
ServeSpec == Init /\ [][Serve]_vars

\* Who keeps r waiting for a row or an index entry.
WaitsFor(r, s) ==
  \/ /\ pc[r] \in {"lock", "reccheck"}
     /\ Fp(r) \in Code
     /\ rowLock[Fp(r)] = s
  \/ pc[r] \in {"insert", "recinsert"} /\ indexLock[Id(r)] = s

\* The members of D all wait, in cycles, for one another.
Deadlock(D) ==
  /\ D # {}
  /\ \A r \in D : /\ \E s \in D : WaitsFor(r, s)
                 /\ \E s \in D : WaitsFor(s, r)

\* PostgreSQL makes one of them fail (error 40P01).
BreakDeadlock ==
  \E D \in SUBSET Request :
    /\ Deadlock(D)
    /\ \E r \in D : IF pc[r] \in Recording THEN RecordFails(r) ELSE Abort(r)

\* The event loop and the database serve every call that is not waiting, and
\* the database breaks deadlocks; nothing forces another error, or a run of
\* the seed, to happen.
Fairness == /\ \A r \in Request : WF_vars(Progress(r))
            /\ WF_vars(BreakDeadlock)
FairSpec == Spec /\ Fairness

-----------------------------------------------------------------------------
Successes(c) == {e \in scanEvent : e.fingerprint = c /\ e.result = "SUCCESS"}

\* One-time use (header comment, lines 12-16): however the scans of a code
\* interleave, fail or are retried, at most one of them is recorded as a
\* success between two resets of the code by the seed.
OneSuccessPerCode ==
  \A c \in Code : \A e, f \in Successes(c) :
    e.by \notin reseeded /\ f.by \notin reseeded => e = f

\* A claim is atomic over three tables: a code is Used exactly when the scan
\* that used it has its SUCCESS row and its QRCodeScanned outbox row; a scan
\* that rolled back or was refused leaves none of the three.  A reset of the
\* code takes back the first, and never catches a claim half-way.
ClaimIsAtomic ==
  \A c \in Code :
    /\ {e.by : e \in Successes(c)} = {o.by : o \in {x \in outbox : x.code = c}}
    /\ {e.by : e \in Successes(c)} \ reseeded = {usedBy[c]} \ {NoRequest}
    /\ status[c] = "Used" <=> usedBy[c] # NoRequest

\* A caller told ALREADY_USED lost to somebody else: the code was used under
\* another client_request_id, never by an earlier try of the same request.
RefusedOnlyByAnother ==
  \A r \in Request : answer[r] = "ALREADY_USED" =>
    \E e \in scanEvent : /\ e.fingerprint = Fp(r)
                         /\ e.result = "SUCCESS"
                         /\ e.clientRequestId # Id(r)

\* A caller told SUCCESS has a committed SUCCESS row under its own
\* client_request_id and fingerprint (so that any retry replays it).
SuccessIsRecorded ==
  \A r \in Request : answer[r] = "SUCCESS" =>
    \E e \in Recorded(r) : e.fingerprint = Fp(r) /\ e.result = "SUCCESS"

\* IDEMPOTENCY_CONFLICT is only ever answered to a real reuse: a row with the
\* same client_request_id and another fingerprint exists.  An exact retry
\* never gets it, even when both tries race to the unique index.
ConflictOnlyOnReuse ==
  \A r \in Request : answer[r] = "IDEMPOTENCY_CONFLICT" =>
    \E e \in Recorded(r) : e.fingerprint # Fp(r)

\* No step rewrites history: a recorded outcome stays, and a used code keeps
\* the scan that used it unless the seed resets it.
HistoryKept ==
  /\ scanEvent \subseteq scanEvent'
  /\ outbox \subseteq outbox'
  /\ \A c \in Code : status[c] # "Unused" =>
       \/ status'[c] = status[c] /\ usedBy'[c] = usedBy[c]
       \/ usedBy[c] \in reseeded'
HistoryIsFinal == [][HistoryKept]_vars

\* A refusal is recorded outside the transaction that read the status, so
\* that its foreign key check may meet a claim.  The two wait for each other
\* only when the seed has reset the code in between: then a first try that was
\* refused holds the index entry, and its retry, let in, holds the row.
DeadlockNeedsReset ==
  \A D \in SUBSET Request : Deadlock(D) =>
    \E r \in D : /\ pc[r] = "reccheck"
                 /\ \E e \in Successes(Fp(r)) : e.by \in reseeded

\* Every scan is answered: the row lock, the index entry, the foreign key
\* check and the pool never leave calls waiting for one another for ever.
EveryScanAnswered == \A r \in Request : <>(pc[r] = "done")

\* The whole service implements its contract: seen through what is committed,
\* every call takes effect in one atomic step.
Contract == INSTANCE ScanContract WITH
  NoClient <- NoRequest,
  inactive <- {c \in Code : status[c] = "Inactive"},
  winner   <- [c \in Code |-> IF usedBy[c] = NoRequest THEN NoRequest
                                                       ELSE Id(usedBy[c])],
  record   <- {[clientRequestId |-> e.clientRequestId,
                fingerprint |-> e.fingerprint,
                result |-> e.result] : e \in scanEvent}
ImplementsContract == Contract!Spec

\* openapi.yaml:224-228 and the header comment, lines 21-22: "the same
\* client_request_id with a different code returns IDEMPOTENCY_CONFLICT", so
\* of two calls that reuse an id for two existing codes at most one may have
\* an outcome of its own.
ReusedIdRejected ==
  \A r, s \in Request :
    /\ Id(r) = Id(s) /\ Fp(r) # Fp(s)
    /\ answer[r] \in ResultCode
    => answer[s] \notin ResultCode
=============================================================================
