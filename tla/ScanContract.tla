---------------------------- MODULE ScanContract ----------------------------
(***************************************************************************)
(* What scan() promises, with no transactions, locks or retries in sight:  *)
(* every call takes effect in at most one atomic step, in which it wins    *)
(* the code, is refused on the record, or is told something that the       *)
(* recorded outcomes justify at that very moment.  QrScan implements it.   *)
(***************************************************************************)
CONSTANTS Request, ClientId, Fingerprint, Code, DemoCode,
          NoClient      \* the winner of a code nobody has used

VARIABLES input,      \* the arguments of each call
          answer,     \* what each caller was told
          inactive,   \* the codes that were deactivated
          winner,     \* the client_request_id that has used each code
          record      \* the outcome recorded for each client_request_id

vars == <<input, answer, inactive, winner, record>>

Id(r) == input[r].clientRequestId
Fp(r) == input[r].fingerprint

Outcome(r, result) == [clientRequestId |-> Id(r), fingerprint |-> Fp(r),
                       result |-> result]

Unrecorded(r) == \A e \in record : e.clientRequestId # Id(r)

\* Why an existing code may be refused to r.  Somebody else has won it; a
\* reset of the code since then does not call the refusal back.
Refusal(r, a) ==
  /\ Fp(r) \in Code
  /\ \/ a = "INACTIVE" /\ Fp(r) \in inactive
     \/ /\ a = "ALREADY_USED"
        /\ \E e \in record : /\ e.fingerprint = Fp(r)
                             /\ e.result = "SUCCESS"
                             /\ e.clientRequestId # Id(r)

Init ==
  /\ input \in [Request -> [clientRequestId : ClientId,
                            fingerprint : Fingerprint]]
  /\ answer = [r \in Request |-> "none"]
  /\ inactive \in SUBSET Code
  /\ winner = [c \in Code |-> NoClient]
  /\ record = {}

Tell(r, a) == /\ answer[r] = "none"
              /\ answer' = [answer EXCEPT ![r] = a]

\* The caller may be gone before it hears the outcome.
Win(r) ==
  /\ Fp(r) \in Code \ inactive
  /\ winner[Fp(r)] = NoClient
  /\ Unrecorded(r)
  /\ winner' = [winner EXCEPT ![Fp(r)] = Id(r)]
  /\ record' = record \cup {Outcome(r, "SUCCESS")}
  /\ \E a \in {"SUCCESS", "ERROR"} : Tell(r, a)
  /\ UNCHANGED <<input, inactive>>

Refuse(r) ==
  /\ Unrecorded(r)
  /\ \E result \in {"ALREADY_USED", "INACTIVE"} :
       /\ Refusal(r, result)
       /\ record' = record \cup {Outcome(r, result)}
       /\ \E a \in {result, "ERROR"} : Tell(r, a)
  /\ UNCHANGED <<input, inactive, winner>>

\* An answer that changes nothing: a replay, a conflict, an unknown code, a
\* refusal that could not be recorded, or no outcome at all.
Justified(r, a) ==
  \/ \E e \in record : e = Outcome(r, a)
  \/ /\ a = "IDEMPOTENCY_CONFLICT"
     /\ \E e \in record : e.clientRequestId = Id(r) /\ e.fingerprint # Fp(r)
  \/ a = "NOT_FOUND" /\ Fp(r) \notin Code
  \/ Refusal(r, a)
  \/ a = "ERROR"

Inform(r) ==
  /\ \E a \in {"SUCCESS", "ALREADY_USED", "INACTIVE", "IDEMPOTENCY_CONFLICT",
               "NOT_FOUND", "ERROR"} : Justified(r, a) /\ Tell(r, a)
  /\ UNCHANGED <<input, inactive, winner, record>>

\* The seed gives a demo code back; the outcomes stay on record.
Reset(c) ==
  /\ winner' = [winner EXCEPT ![c] = NoClient]
  /\ UNCHANGED <<input, answer, inactive, record>>

Next == \/ \E r \in Request : Win(r) \/ Refuse(r) \/ Inform(r)
        \/ \E c \in DemoCode : Reset(c)

Spec == Init /\ [][Next]_vars
=============================================================================
