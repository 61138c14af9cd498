-------------------------- MODULE JourneyPanelProofs --------------------------
(***************************************************************************)
(* Theorems about JourneyPanel, for any number of clicks, journeys and     *)
(* codes.                                                                  *)
(***************************************************************************)
EXTENDS JourneyPanel, FiniteSetTheorems, TLAPS

Answer == {"DrawReserved", "IDEMPOTENCY_CONFLICT", "ERROR", "SUCCESS", "ALREADY_USED",
           "INACTIVE", "NOT_FOUND", "OK"}
OKAnswer == {"SUCCESS", "DrawReserved", "OK"}
Drawing == {"draw", "replay"}

ServiceTypeOK ==
  /\ answer \in [Request -> Answer \cup {"none"}]
  /\ DOMAIN told = Request
  /\ DOMAIN input = Request
  /\ IsFiniteSet(outbox)

\* Every click brings an id of its own.
IdsAreOwn ==
  \A r \in Request :
    /\ click[r] = "scan" => input[r].clientRequestId = r
    /\ click[r] \in Drawing => input[r].fingerprint.clientRequestId = r

\* A click is made, served, and then shown.
Stages ==
  \A r \in Request :
    /\ click[r] = "none" => answer[r] = "none"
    /\ block[r] \in {"listed", "gone"} => answer[r] # "none"

\* A row is left by a click that has had its answer since.
DrawRows ==
  \A row \in ledger :
    /\ row.drawId \in Request
    /\ click[row.drawId] \in Drawing
    /\ row.key = input[row.drawId].key
    /\ row.fingerprint = input[row.drawId].fingerprint
    /\ answer[row.drawId] \in {"DrawReserved", "ERROR"}

ScanRows ==
  \A e \in record : /\ e.clientRequestId \in Request
                    /\ answer[e.clientRequestId] # "none"

\* A draw is turned away for a row that is there.
Conflicts ==
  \A r \in Request : click[r] \in Drawing /\ answer[r] = "IDEMPOTENCY_CONFLICT" =>
    \E row \in ledger : row.key = input[r].key

\* The event of an OK click is its own.
EventIsOut ==
  \A r \in Request : click[r] \in Writing /\ OK(r) => Event(r) = r /\ r \in outbox

\* created_at is a strict order of the transactions of clicks that write.
Order ==
  /\ begun \subseteq {r \in Request : click[r] \in Writing}
  /\ outbox \subseteq {r \in begun : answer[r] # "none"}
  /\ \A a, b \in Request : a \in earlier[b] => b \in begun /\ b \notin earlier[a]

\* A trace shows rows of the outbox.
ShownIsOut == \A t \in Request : \A i \in DOMAIN shown[t] : shown[t][i] \in outbox

\* What was on the screen at a click had its answer, and began before what the
\* click begins.
KnownFirst ==
  \A t \in Request : \A r \in known[t] :
    /\ click[t] # "none" /\ click[r] \in Writing /\ answer[r] # "none"
    /\ t \in begun /\ r \in outbox => r \in earlier[t]

IInv == PanelTypeOK /\ ServiceTypeOK /\ IdsAreOwn /\ Stages /\ DrawRows /\ ScanRows
          /\ Conflicts /\ EventIsOut /\ Order /\ ShownIsOut
          /\ KnownFirst /\ TraceIsComplete /\ TraceIsCausal

-----------------------------------------------------------------------------
LEMMA InvInit == PanelInit => IInv
BY FS_EmptySet
   DEF PanelInit, IInv, PanelTypeOK, ServiceTypeOK, IdsAreOwn, Stages, DrawRows, ScanRows,
       Conflicts, EventIsOut, Order, ShownIsOut, KnownFirst, TraceIsComplete,
       TraceIsCausal, Traced, Button, Writing, Drawing

-----------------------------------------------------------------------------
\* A step that leaves the clicks and the services alone.
LEMMA ShowStep ==
  ASSUME IInv, StartJourney \/ \E r \in Request : PushResult(r)
  PROVE  IInv'
<1>a. PanelTypeOK /\ Stages
  BY DEF IInv
<1>b. UNCHANGED <<clicks, services>>
  BY DEF StartJourney, PushResult
<1>1. PanelTypeOK'
  <2>1. block' \in [Request -> {"none", "awaited", "listed", "gone"}]
    BY <1>a DEF PanelTypeOK, StartJourney, PushResult, ClearResults
  <2>2. /\ correlationId' \in Journey \cup {None}
        /\ idempotencyKey' \in Key \cup {None}
        /\ correlationId' = None <=> idempotencyKey' = None
    BY <1>a, PanelAssumption DEF PanelTypeOK, StartJourney, PushResult
  <2> QED
    BY <1>a, <1>b, <2>1, <2>2 DEF PanelTypeOK, clicks, services
<1>2. Stages'
  BY <1>a, <1>b
     DEF PanelTypeOK, Stages, StartJourney, PushResult, ClearResults, clicks, services
<1>3. ServiceTypeOK' /\ IdsAreOwn' /\ DrawRows' /\ ScanRows' /\ Conflicts'
        /\ EventIsOut' /\ Order' /\ ShownIsOut' /\ KnownFirst'
        /\ TraceIsComplete' /\ TraceIsCausal'
  BY <1>b
     DEF IInv, ServiceTypeOK, IdsAreOwn, DrawRows, ScanRows, Conflicts, EventIsOut, OK,
         Event, Order, ShownIsOut, KnownFirst, TraceIsComplete, TraceIsCausal, Traced,
         clicks, services, ToSet
<1> QED
  BY <1>1, <1>2, <1>3 DEF IInv

\* What the five buttons have in common.
PressStep(r) ==
  \/ ScanQr(r) \/ TriggerDraw(r) \/ ReplayDraw(r)
  \/ RefreshMemberCenter(r) \/ ViewTrace(r)

LEMMA PressMakes ==
  ASSUME IInv, NEW r \in Request, PressStep(r)
  PROVE  /\ click[r] = "none" /\ correlationId # None
         /\ UNCHANGED <<correlationId, services>>
         /\ block' = [block EXCEPT ![r] = "awaited"]
         /\ correlation' = [correlation EXCEPT ![r] = correlationId]
         /\ known' = [known EXCEPT ![r] =
              {s \in Request : block[s] = "listed" /\ click[s] \in Writing}]
         /\ idempotencyKey' \in {idempotencyKey, r}
         /\ \E button \in Button : click' = [click EXCEPT ![r] = button]
         /\ \E request : input' = [input EXCEPT ![r] = request]
         /\ click'[r] = "scan" => input'[r].clientRequestId = r
         /\ click'[r] \in Drawing => input'[r].fingerprint.clientRequestId = r
<1>a. r \in DOMAIN click /\ r \in DOMAIN input
  BY DEF IInv, PanelTypeOK, ServiceTypeOK
<1>1. CASE ScanQr(r)
  <2>1. PICK code \in Code :
          Click(r, "scan", [clientRequestId |-> r, fingerprint |-> code])
    BY <1>1 DEF ScanQr
  <2>2. idempotencyKey' = idempotencyKey
    BY <1>1 DEF ScanQr
  <2> QED
    BY <2>1, <2>2, <1>a DEF Click, Button, Drawing
<1>2. CASE TriggerDraw(r)
  BY <1>2, <1>a DEF TriggerDraw, Click, DrawRequest, Button, Drawing
<1>3. CASE ReplayDraw(r)
  BY <1>3, <1>a DEF ReplayDraw, Click, DrawRequest, Button, Drawing
<1>4. CASE RefreshMemberCenter(r) \/ ViewTrace(r)
  BY <1>4, <1>a DEF RefreshMemberCenter, ViewTrace, Read, Click, Button, Drawing
<1> QED
  BY <1>1, <1>2, <1>3, <1>4 DEF PressStep

LEMMA PressKeeps == ASSUME IInv, NEW r \in Request, PressStep(r) PROVE IInv'
<1>a. /\ PanelTypeOK /\ ServiceTypeOK /\ IdsAreOwn /\ Stages /\ DrawRows /\ ScanRows
      /\ Conflicts /\ EventIsOut /\ Order /\ ShownIsOut /\ KnownFirst
      /\ TraceIsComplete /\ TraceIsCausal
  BY DEF IInv
<1> DEFINE seen == {s \in Request : block[s] = "listed" /\ click[s] \in Writing}
<1>b. /\ click[r] = "none" /\ correlationId # None
      /\ UNCHANGED <<correlationId, services>>
      /\ block' = [block EXCEPT ![r] = "awaited"]
      /\ correlation' = [correlation EXCEPT ![r] = correlationId]
      /\ known' = [known EXCEPT ![r] = seen]
      /\ idempotencyKey' \in {idempotencyKey, r}
      /\ click'[r] = "scan" => input'[r].clientRequestId = r
      /\ click'[r] \in Drawing => input'[r].fingerprint.clientRequestId = r
  BY PressMakes
<1>c. /\ \E button \in Button : click' = [click EXCEPT ![r] = button]
      /\ \E request : input' = [input EXCEPT ![r] = request]
  BY PressMakes
<1>d. \A s \in seen : s \in Request /\ s # r /\ click[s] \in Writing /\ answer[s] # "none"
  BY <1>a, <1>b DEF Stages, Writing
<1> HIDE DEF seen
<1>e. \A s \in Request : s # r =>
        /\ click'[s] = click[s] /\ input'[s] = input[s] /\ known'[s] = known[s]
        /\ correlation'[s] = correlation[s] /\ block'[s] = block[s]
  BY <1>a, <1>b, <1>c DEF PanelTypeOK, ServiceTypeOK
<1>f. /\ UNCHANGED <<answer, told, ledger, record, begun, earlier, outbox, shown>>
      /\ answer[r] = "none" /\ r \notin begun /\ block'[r] = "awaited"
      /\ \A t \in Request : r \notin known[t]
      /\ known'[r] = seen /\ click'[r] \in Button
      /\ correlation'[r] = correlationId
  <2>1. UNCHANGED <<answer, told, ledger, record, begun, earlier, outbox, shown>>
    BY <1>b DEF services
  <2>2. answer[r] = "none" /\ r \notin begun /\ \A t \in Request : r \notin known[t]
    BY <1>a, <1>b DEF Stages, Order, KnownFirst, Writing
  <2>3. /\ block'[r] = "awaited" /\ known'[r] = seen /\ click'[r] \in Button
        /\ correlation'[r] = correlationId
    BY <1>a, <1>b, <1>c DEF PanelTypeOK
  <2> QED
    BY <2>1, <2>2, <2>3
<1>1. PanelTypeOK'
  <2>1. /\ block' \in [Request -> {"none", "awaited", "listed", "gone"}]
        /\ click' \in [Request -> Button \cup {"none"}]
        /\ correlation' \in [Request -> Journey \cup {None}]
    BY <1>a, <1>b, <1>c DEF PanelTypeOK
  <2>2. known' \in [Request -> SUBSET Request]
    BY <1>a, <1>b, <1>d DEF PanelTypeOK
  <2>3. /\ correlationId' = correlationId
        /\ idempotencyKey' \in Key \cup {None}
        /\ correlationId' = None <=> idempotencyKey' = None
    BY <1>a, <1>b, PanelAssumption DEF PanelTypeOK
  <2> QED
    BY <1>a, <1>f, <2>1, <2>2, <2>3 DEF PanelTypeOK
<1>2. ServiceTypeOK' /\ IdsAreOwn' /\ Stages'
  BY <1>a, <1>b, <1>c, <1>e, <1>f
     DEF ServiceTypeOK, IdsAreOwn, Stages, Button, PanelTypeOK
<1>3. DrawRows' /\ ScanRows' /\ Conflicts'
  BY <1>a, <1>e, <1>f DEF DrawRows, ScanRows, Conflicts
<1>4. EventIsOut'
  BY <1>a, <1>e, <1>f DEF EventIsOut, OK, Event
<1>5. Order' /\ ShownIsOut'
  BY <1>a, <1>e, <1>f DEF Order, ShownIsOut
<1>6. KnownFirst'
  BY <1>a, <1>d, <1>e, <1>f DEF KnownFirst, Button, PanelTypeOK
<1>g. ASSUME NEW t \in Request, Traced(t)'
      PROVE  /\ t # r /\ Traced(t) /\ shown'[t] = shown[t] /\ known'[t] = known[t]
             /\ correlation'[t] = correlation[t]
  BY <1>e, <1>f, <1>g DEF Traced, OK
<1>7. TraceIsComplete'
  <2> SUFFICES ASSUME NEW t \in Request, Traced(t)', NEW s \in known'[t],
                      click'[s] \in Writing, OK(s)', correlation'[s] = correlation'[t]
               PROVE  (Event(s) \in ToSet(shown[t]))'
    BY DEF TraceIsComplete, Writing
  <2>1. s \in known[t] /\ s \in Request /\ s # r
    BY <1>a, <1>f, <1>g DEF PanelTypeOK
  <2>2. Event(s) \in ToSet(shown[t])
    BY <1>a, <1>e, <1>f, <1>g, <2>1 DEF TraceIsComplete, OK
  <2>3. Event(s)' = Event(s) /\ shown'[t] = shown[t]
    BY <1>e, <1>f, <1>g, <2>1 DEF Event
  <2> QED
    BY <2>2, <2>3 DEF ToSet
<1>8. TraceIsCausal'
  <2> SUFFICES ASSUME NEW t \in Request, Traced(t)', NEW i \in DOMAIN shown'[t],
                      NEW k \in DOMAIN shown'[t], shown'[t][i] \in known'[shown'[t][k]]
               PROVE  i < k
    BY DEF TraceIsCausal
  <2>1. shown[t][k] \in Request /\ shown[t][k] # r
    BY <1>a, <1>f, <1>g DEF ShownIsOut, Order
  <2> QED
    BY <1>a, <1>e, <1>g, <2>1 DEF TraceIsCausal
<1> QED
  BY <1>1, <1>2, <1>3, <1>4, <1>5, <1>6, <1>7, <1>8 DEF IInv

-----------------------------------------------------------------------------
Quiet == UNCHANGED <<correlationId, idempotencyKey, block, clicks>>

LEMMA BeginKeeps == ASSUME IInv, NEW r \in Request, Begin(r), Quiet PROVE IInv'
<1>a. /\ PanelTypeOK /\ ServiceTypeOK /\ IdsAreOwn /\ Stages /\ DrawRows /\ ScanRows
      /\ Conflicts /\ EventIsOut /\ Order /\ ShownIsOut /\ KnownFirst
      /\ TraceIsComplete /\ TraceIsCausal
  BY DEF IInv
<1>b. UNCHANGED <<answer, told, ledger, record, outbox, shown, correlationId, idempotencyKey,
                  block, click, correlation, known, input>>
  BY DEF Begin, Quiet, clicks
<1>c. /\ r \notin begun /\ click[r] \in Writing /\ answer[r] = "none"
      /\ begun' = begun \cup {r}
      /\ earlier' = [earlier EXCEPT ![r] = begun]
  BY DEF Begin
<1>1. PanelTypeOK'
  <2>1. earlier' \in [Request -> SUBSET begun']
    BY <1>a, <1>c DEF PanelTypeOK
  <2> QED
    BY <1>a, <1>b, <1>c, <2>1 DEF PanelTypeOK
<1>2. Order'
  BY <1>a, <1>b, <1>c DEF Order, PanelTypeOK
<1>3. KnownFirst'
  BY <1>a, <1>b, <1>c DEF KnownFirst, Order, PanelTypeOK
<1>4. ServiceTypeOK' /\ IdsAreOwn' /\ Stages' /\ DrawRows' /\ ScanRows' /\ Conflicts'
        /\ ShownIsOut'
  BY <1>a, <1>b
     DEF ServiceTypeOK, IdsAreOwn, Stages, DrawRows, ScanRows, Conflicts, ShownIsOut
<1>5. EventIsOut' /\ TraceIsComplete' /\ TraceIsCausal'
  BY <1>a, <1>b DEF EventIsOut, OK, Event, TraceIsComplete, TraceIsCausal, Traced, ToSet
<1> QED
  BY <1>1, <1>2, <1>3, <1>4, <1>5 DEF IInv

\* What all handlers do when they answer.
AnswerStep(r, a) ==
  /\ a \in Answer /\ answer[r] = "none" /\ click[r] # "none"
  /\ answer' = [answer EXCEPT ![r] = a]
  /\ Quiet
  /\ DOMAIN told' = Request
  /\ \A s \in Request : s # r => told'[s] = told[s]
  /\ Publish(r) \/ Leave(r) \/ UNCHANGED <<begun, earlier, outbox>>
  /\ a \in OKAnswer /\ click[r] \in Writing => Publish(r) /\ Event(r)' = r
  /\ shown' \in [Request -> Seq(Request)]

LEMMA AnswerKeeps ==
  ASSUME IInv, NEW r \in Request, NEW a, AnswerStep(r, a)
  PROVE  /\ PanelTypeOK' /\ ServiceTypeOK' /\ IdsAreOwn' /\ Stages'
         /\ EventIsOut' /\ Order' /\ KnownFirst'
<1>a. /\ PanelTypeOK /\ ServiceTypeOK /\ IdsAreOwn /\ Stages
      /\ EventIsOut /\ Order /\ KnownFirst
  BY DEF IInv
<1>b. /\ UNCHANGED <<correlationId, idempotencyKey, block, click, correlation, known, input>>
      /\ answer[r] = "none" /\ click[r] # "none" /\ a \in Answer
      /\ answer'[r] = a
      /\ \A s \in Request : s # r => answer'[s] = answer[s]
      /\ answer' \in [Request -> Answer \cup {"none"}]
  BY <1>a DEF AnswerStep, Quiet, clicks, ServiceTypeOK
<1>c. r \notin outbox
  BY <1>a, <1>b DEF Order
<1>d. \/ r \in begun /\ outbox' = outbox \cup {r} /\ begun' = begun /\ earlier' = earlier
      \/ /\ begun' = begun \ {r} /\ outbox' = outbox
         /\ earlier' = [s \in Request |-> IF s = r THEN {} ELSE earlier[s] \ {r}]
      \/ begun' = begun /\ earlier' = earlier /\ outbox' = outbox
  BY DEF AnswerStep, Publish, Leave
<1>1. PanelTypeOK'
  <2>1. begun' \subseteq Request /\ earlier' \in [Request -> SUBSET begun']
    BY <1>a, <1>d DEF PanelTypeOK
  <2>2. outbox' \subseteq Request
    BY <1>a, <1>d DEF PanelTypeOK
  <2> QED
    BY <1>a, <1>b, <2>1, <2>2 DEF PanelTypeOK, AnswerStep
<1>2. ServiceTypeOK'
  <2>1. outbox' = outbox \/ outbox' = outbox \cup {r}
    BY <1>d
  <2>2. IsFiniteSet(outbox')
    BY <1>a, <2>1, FS_AddElement DEF ServiceTypeOK
  <2> QED
    BY <1>a, <1>b, <2>2 DEF ServiceTypeOK, AnswerStep
<1>3. IdsAreOwn' /\ Stages'
  BY <1>a, <1>b DEF IdsAreOwn, Stages, Answer
<1>4. EventIsOut'
  <2> SUFFICES ASSUME NEW s \in Request, click'[s] \in Writing, OK(s)'
               PROVE  (Event(s) = s /\ s \in outbox)'
    BY DEF EventIsOut, Writing
  <2>1. CASE s = r
    BY <2>1, <1>b DEF AnswerStep, Publish, OK, OKAnswer
  <2>2. CASE s # r
    <3>1. Event(s) = s /\ s \in outbox
      BY <2>2, <1>a, <1>b DEF EventIsOut, OK
    <3>2. Event(s)' = Event(s)
      BY <2>2, <1>b DEF Event, AnswerStep
    <3> QED
      BY <3>1, <3>2, <1>d
  <2> QED
    BY <2>1, <2>2
<1>5. Order'
  <2>1. \A x \in Request : answer[x] # "none" => answer'[x] # "none"
    BY <1>b
  <2>2. /\ begun' \subseteq begun
        /\ outbox' \subseteq {x \in begun' : answer'[x] # "none"}
    BY <1>a, <1>b, <1>c, <1>d, <2>1 DEF Order, PanelTypeOK, Answer
  <2>3. ASSUME NEW x \in Request, NEW y \in Request, x \in earlier'[y]
        PROVE  y \in begun' /\ y \notin earlier'[x]
    BY <1>a, <1>d, <2>3 DEF Order, PanelTypeOK
  <2> QED
    BY <1>a, <1>b, <2>2, <2>3 DEF Order
<1>6. KnownFirst'
  <2> SUFFICES ASSUME NEW t \in Request, NEW s \in known[t]
               PROVE  /\ click[t] # "none" /\ click[s] \in Writing /\ answer'[s] # "none"
                      /\ t \in begun' /\ s \in outbox' => s \in earlier'[t]
    BY <1>b DEF KnownFirst, Writing
  <2>1. /\ click[t] # "none" /\ click[s] \in Writing /\ answer[s] # "none"
        /\ t \in begun /\ s \in outbox => s \in earlier[t]
        /\ s \in Request /\ s # r
    BY <1>a, <1>b DEF KnownFirst, PanelTypeOK
  <2>2. answer'[s] # "none"
    BY <1>b, <2>1
  <2>3. t \in begun' /\ s \in outbox' => s \in earlier'[t]
    BY <1>d, <2>1
  <2> QED
    BY <2>1, <2>2, <2>3
<1> QED
  BY <1>1, <1>2, <1>3, <1>4, <1>5, <1>6

\* The traces that were answered before.
LEMMA OldTraces ==
  ASSUME IInv, NEW r \in Request, NEW a, AnswerStep(r, a),
         NEW t \in Request, t # r, Traced(t)', shown'[t] = shown[t]
  PROVE  /\ \A s \in known'[t] :
              click'[s] \in Writing /\ OK(s)' /\ correlation'[s] = correlation'[t] =>
                Event(s)' \in ToSet(shown'[t])
         /\ \A i, k \in DOMAIN shown'[t] : shown'[t][i] \in known'[shown'[t][k]] => i < k
<1>a. /\ PanelTypeOK /\ ServiceTypeOK /\ KnownFirst /\ TraceIsComplete /\ TraceIsCausal
  BY DEF IInv
<1>b. /\ UNCHANGED <<click, correlation, known>>
      /\ answer[r] = "none"
      /\ \A s \in Request : s # r => answer'[s] = answer[s] /\ told'[s] = told[s]
  BY <1>a DEF AnswerStep, Quiet, clicks, ServiceTypeOK
<1>c. Traced(t)
  BY <1>b DEF Traced, OK
<1>1. ASSUME NEW s \in known'[t], click'[s] \in Writing, OK(s)',
             correlation'[s] = correlation'[t]
      PROVE  Event(s)' \in ToSet(shown'[t])
  <2>1. s \in known[t] /\ s \in Request /\ s # r
    BY <1>a, <1>b DEF PanelTypeOK, KnownFirst
  <2>2. OK(s) /\ Event(s)' = Event(s)
    BY <1>1, <1>b, <2>1 DEF OK, Event
  <2>3. Event(s) \in ToSet(shown[t])
    BY <1>1, <1>a, <1>b, <1>c, <2>1, <2>2 DEF TraceIsComplete
  <2> QED
    BY <2>2, <2>3 DEF ToSet
<1>2. \A i, k \in DOMAIN shown'[t] : shown'[t][i] \in known'[shown'[t][k]] => i < k
  BY <1>a, <1>b, <1>c DEF TraceIsCausal
<1> QED
  BY <1>1, <1>2

LEMMA TracesKept ==
  ASSUME IInv, NEW r \in Request, NEW a, AnswerStep(r, a), click[r] # "trace",
         shown' = shown
  PROVE  ShownIsOut' /\ TraceIsComplete' /\ TraceIsCausal'
<1>1. \A t \in Request : Traced(t)' => t # r
  BY DEF Traced, AnswerStep, Quiet, clicks
<1>2. outbox \subseteq outbox'
  BY DEF AnswerStep, Publish, Leave
<1>3. TraceIsComplete' /\ TraceIsCausal'
  BY <1>1, OldTraces DEF TraceIsComplete, TraceIsCausal
<1> QED
  BY <1>2, <1>3 DEF ShownIsOut, IInv

-----------------------------------------------------------------------------
LEMMA ScanMakes ==
  ASSUME IInv, NEW r \in Request, HandleScan(r), Quiet
  PROVE  \E a : /\ AnswerStep(r, a)
                /\ \A e \in record' : e \in record \/ e.clientRequestId = r
                /\ UNCHANGED <<told, ledger, shown>>
<1>a. /\ PanelTypeOK /\ ServiceTypeOK /\ IdsAreOwn /\ ScanRows
  BY DEF IInv
<1>b. click[r] = "scan" /\ UNCHANGED <<told, ledger, shown>>
  BY DEF HandleScan
<1>c. input[r].clientRequestId = r
  BY <1>a, <1>b DEF IdsAreOwn
<1>1. CASE Scan!Win(r) /\ Publish(r)
  <2>1. PICK a \in {"SUCCESS", "ERROR"} : answer[r] = "none" /\ answer' = [answer EXCEPT ![r] = a]
    BY <1>1 DEF Scan!Win, Scan!Tell
  <2>2. \A e \in record' : e \in record \/ e.clientRequestId = r
    BY <1>1, <1>c DEF Scan!Win, Scan!Outcome, Scan!Id
  <2>3. Event(r)' = r
    BY <1>b DEF Event, Quiet, clicks
  <2> QED
    BY <1>1, <1>a, <1>b, <2>1, <2>2, <2>3
       DEF AnswerStep, Answer, PanelTypeOK, ServiceTypeOK
<1>2. CASE (Scan!Refuse(r) \/ Scan!Inform(r)) /\ Leave(r)
  <2>1. PICK a \in {"ALREADY_USED", "INACTIVE", "IDEMPOTENCY_CONFLICT", "NOT_FOUND", "ERROR"} :
          answer[r] = "none" /\ answer' = [answer EXCEPT ![r] = a]
    <3>1. CASE Scan!Refuse(r)
      BY <3>1 DEF Scan!Refuse, Scan!Tell
    <3>2. CASE Scan!Inform(r)
      <4>1. PICK a \in {"SUCCESS", "ALREADY_USED", "INACTIVE", "IDEMPOTENCY_CONFLICT",
                        "NOT_FOUND", "ERROR"} : Scan!Justified(r, a) /\ Scan!Tell(r, a)
        BY <3>2 DEF Scan!Inform
      <4>2. \A e \in record : e.clientRequestId # r
        BY <4>1, <1>a DEF ScanRows, Scan!Tell
      <4>3. a # "SUCCESS"
        BY <4>1, <4>2, <1>c DEF Scan!Justified, Scan!Outcome, Scan!Id, Scan!Refusal
      <4> QED
        BY <4>1, <4>3 DEF Scan!Tell
    <3> QED
      BY <1>2, <3>1, <3>2
  <2>2. \A e \in record' : e \in record \/ e.clientRequestId = r
    BY <1>2, <1>c DEF Scan!Refuse, Scan!Inform, Scan!Outcome, Scan!Id
  <2> QED
    BY <1>2, <1>a, <1>b, <2>1, <2>2
       DEF AnswerStep, Answer, OKAnswer, PanelTypeOK, ServiceTypeOK
<1> QED
  BY <1>1, <1>2 DEF HandleScan

\* A draw click that is answered OK has reserved: no earlier click had its
\* client_request_id, so none of the rows is its own.
LEMMA DrawMakes ==
  ASSUME IInv, NEW r \in Request, HandleDraw(r), Quiet
  PROVE  \E a \in {"DrawReserved", "IDEMPOTENCY_CONFLICT", "ERROR"} :
           /\ AnswerStep(r, a)
           /\ UNCHANGED <<record, shown>>
           /\ \/ /\ a \in {"DrawReserved", "ERROR"}
                 /\ \E row : /\ ledger' = ledger \cup {row}
                            /\ row.drawId = r
                            /\ row.key = input[r].key
                            /\ row.fingerprint = input[r].fingerprint
              \/ /\ ledger' = ledger
                 /\ a = "IDEMPOTENCY_CONFLICT" => Reserved(r) # {}
<1>a. /\ PanelTypeOK /\ ServiceTypeOK /\ IdsAreOwn /\ DrawRows
  BY DEF IInv
<1>b. click[r] \in Drawing /\ UNCHANGED <<record, shown>>
  BY DEF HandleDraw, Drawing
<1>c. input[r].fingerprint.clientRequestId = r
  BY <1>a, <1>b DEF IdsAreOwn
<1>1. ASSUME NEW type, NEW tier, Enter(r, type, tier), Publish(r)
      PROVE  \E a \in {"DrawReserved", "ERROR"} :
               /\ AnswerStep(r, a)
               /\ \E row : /\ ledger' = ledger \cup {row}
                          /\ row.drawId = r
                          /\ row.key = input[r].key
                          /\ row.fingerprint = input[r].fingerprint
  <2> DEFINE row == [drawId |-> r, key |-> input[r].key,
                     fingerprint |-> input[r].fingerprint,
                     resultType |-> type, prizeTier |-> tier]
  <2>1. /\ ledger' = ledger \cup {row}
        /\ Tell(r, "DrawReserved", Public(row)) \/ Tell(r, "ERROR", None)
    BY <1>1 DEF Enter
  <2>2. /\ row.drawId = r /\ row.key = input[r].key
        /\ row.fingerprint = input[r].fingerprint
        /\ Public(row).drawId = r
    BY DEF Public
  <2> HIDE DEF row
  <2>3. PICK a \in {"DrawReserved", "ERROR"} :
          /\ answer[r] = "none" /\ answer' = [answer EXCEPT ![r] = a]
          /\ DOMAIN told' = Request
          /\ \A s \in Request : s # r => told'[s] = told[s]
          /\ a = "DrawReserved" => told'[r].drawId = r
    BY <1>a, <2>1, <2>2 DEF Tell, ServiceTypeOK
  <2>4. a \in OKAnswer => Event(r)' = r
    BY <1>b, <2>3 DEF Event, Quiet, clicks, OKAnswer, Drawing
  <2>5. AnswerStep(r, a)
    BY <1>1, <1>a, <1>b, <2>3, <2>4 DEF AnswerStep, Answer, Drawing, PanelTypeOK
  <2> QED
    BY <2>1, <2>2, <2>3, <2>5
<1>2. CASE Inform(r) /\ Leave(r)
  <2>1. PICK a \in {"DrawReserved", "IDEMPOTENCY_CONFLICT", "ERROR"} :
          /\ \E draw : Tell(r, a, draw)
          /\ a = "IDEMPOTENCY_CONFLICT" => Reserved(r) # {}
          /\ a = "DrawReserved" => \E row \in Reserved(r) : Own(r, row)
    BY <1>2 DEF Inform
  <2>2. answer[r] = "none"
    BY <2>1 DEF Tell
  <2>3. \A row \in Reserved(r) : ~ Own(r, row)
    BY <1>a, <1>c, <2>2 DEF Reserved, Own, DrawRows, IdsAreOwn
  <2>4. AnswerStep(r, a)
    BY <1>2, <1>a, <1>b, <2>1, <2>3
       DEF AnswerStep, Answer, OKAnswer, PanelTypeOK, ServiceTypeOK, Tell, Drawing
  <2>5. ledger' = ledger
    BY <1>2 DEF Inform
  <2> QED
    BY <1>b, <2>1, <2>4, <2>5
<1>3. CASE (ReservePrize(r) \/ ReserveOther(r)) /\ Publish(r)
  <2>1. \E type, tier : Enter(r, type, tier)
    BY <1>3 DEF ReservePrize, ReserveOther
  <2> QED
    BY <1>1, <1>3, <1>b, <2>1
<1> QED
  BY <1>2, <1>3 DEF HandleDraw

LEMMA ScanKeeps == ASSUME IInv, NEW r \in Request, HandleScan(r), Quiet PROVE IInv'
<1>a. DrawRows /\ ScanRows /\ Conflicts /\ ServiceTypeOK
  BY DEF IInv
<1>1. PICK a : /\ AnswerStep(r, a)
               /\ \A e \in record' : e \in record \/ e.clientRequestId = r
               /\ UNCHANGED <<told, ledger, shown>>
  BY ScanMakes
<1>2. /\ UNCHANGED <<click, input>> /\ answer[r] = "none"
      /\ \A s \in Request : s # r => answer'[s] = answer[s]
      /\ answer'[r] # "none" /\ click[r] = "scan"
  BY <1>1, <1>a DEF AnswerStep, Quiet, clicks, ServiceTypeOK, Answer, HandleScan
<1>3. DrawRows' /\ Conflicts'
  BY <1>1, <1>2, <1>a DEF DrawRows, Conflicts, Drawing
<1>4. ScanRows'
  BY <1>1, <1>2, <1>a DEF ScanRows
<1>5. click[r] # "trace"
  BY <1>2
<1> QED
  BY <1>1, <1>3, <1>4, <1>5, AnswerKeeps, TracesKept DEF IInv

LEMMA DrawKeeps == ASSUME IInv, NEW r \in Request, HandleDraw(r), Quiet PROVE IInv'
<1>a. DrawRows /\ ScanRows /\ Conflicts /\ ServiceTypeOK
  BY DEF IInv
<1>1. PICK a \in {"DrawReserved", "IDEMPOTENCY_CONFLICT", "ERROR"} :
           /\ AnswerStep(r, a)
           /\ UNCHANGED <<record, shown>>
           /\ \/ /\ a \in {"DrawReserved", "ERROR"}
                 /\ \E row : /\ ledger' = ledger \cup {row}
                            /\ row.drawId = r
                            /\ row.key = input[r].key
                            /\ row.fingerprint = input[r].fingerprint
              \/ /\ ledger' = ledger
                 /\ a = "IDEMPOTENCY_CONFLICT" => Reserved(r) # {}
  BY DrawMakes
<1>2. /\ UNCHANGED <<click, input>> /\ answer[r] = "none"
      /\ \A s \in Request : s # r => answer'[s] = answer[s]
      /\ answer'[r] = a /\ click[r] \in Drawing
  BY <1>1, <1>a DEF AnswerStep, Quiet, clicks, ServiceTypeOK, HandleDraw, Drawing
<1>3. DrawRows'
  <2>1. \A row \in ledger : row.drawId # r
    BY <1>2, <1>a DEF DrawRows
  <2>2. ASSUME NEW row \in ledger
        PROVE  /\ row.drawId \in Request
               /\ click'[row.drawId] \in Drawing
               /\ row.key = input'[row.drawId].key
               /\ row.fingerprint = input'[row.drawId].fingerprint
               /\ answer'[row.drawId] \in {"DrawReserved", "ERROR"}
    BY <1>2, <1>a, <2>1 DEF DrawRows
  <2> QED
    BY <1>1, <1>2, <2>2 DEF DrawRows, Drawing
<1>4. Conflicts'
  <2> SUFFICES ASSUME NEW s \in Request, click'[s] \in Drawing,
                      answer'[s] = "IDEMPOTENCY_CONFLICT"
               PROVE  \E row \in ledger' : row.key = input'[s].key
    BY DEF Conflicts, Drawing
  <2>1. \E row \in ledger : row.key = input[s].key
    BY <1>1, <1>2, <1>a DEF Conflicts, Reserved
  <2>2. ledger \subseteq ledger'
    BY <1>1
  <2> QED
    BY <1>2, <2>1, <2>2
<1>5. ScanRows'
  BY <1>1, <1>2, <1>a DEF ScanRows
<1>6. click[r] # "trace"
  BY <1>2 DEF Drawing
<1> QED
  BY <1>1, <1>3, <1>4, <1>5, <1>6, AnswerKeeps, TracesKept DEF IInv

LEMMA ReadKeeps ==
  ASSUME IInv, NEW r \in Request, AnswerStep(r, "OK"), UNCHANGED <<told, ledger, record>>
  PROVE  DrawRows' /\ ScanRows' /\ Conflicts'
<1>1. DrawRows /\ ScanRows /\ Conflicts /\ ServiceTypeOK
  BY DEF IInv
<1>2. /\ UNCHANGED <<click, input>> /\ answer[r] = "none"
      /\ \A s \in Request : s # r => answer'[s] = answer[s]
      /\ answer'[r] = "OK"
  BY <1>1 DEF AnswerStep, Quiet, clicks, ServiceTypeOK
<1> QED
  BY <1>1, <1>2 DEF DrawRows, ScanRows, Conflicts

LEMMA MeKeeps == ASSUME IInv, NEW r \in Request, HandleMe(r), Quiet PROVE IInv'
<1>1. AnswerStep(r, "OK")
  BY DEF HandleMe, Respond, AnswerStep, Answer, Writing, IInv, ServiceTypeOK, PanelTypeOK
<1>2. UNCHANGED <<told, ledger, record, shown>> /\ click[r] # "trace"
  BY DEF HandleMe
<1> QED
  BY <1>1, <1>2, ReadKeeps, AnswerKeeps, TracesKept DEF IInv

LEMMA TraceKeeps == ASSUME IInv, NEW r \in Request, HandleTrace(r), Quiet PROVE IInv'
<1>a. /\ PanelTypeOK /\ ServiceTypeOK /\ EventIsOut /\ Order /\ ShownIsOut /\ KnownFirst
      /\ TraceIsComplete /\ TraceIsCausal
  BY DEF IInv
<1>b. /\ click[r] = "trace" /\ answer[r] = "none"
      /\ answer' = [answer EXCEPT ![r] = "OK"]
      /\ UNCHANGED <<told, ledger, record, begun, earlier, outbox, click, correlation, known,
                     input>>
  BY DEF HandleTrace, Respond, Quiet, clicks
<1> DEFINE events == EventsOf(correlation[r])
<1>c. PICK rows \in [1 .. Cardinality(events) -> events] :
         /\ ToSet(rows) = events
         /\ \A i, k \in DOMAIN rows : i < k => rows[i] \in earlier[rows[k]]
         /\ shown' = [shown EXCEPT ![r] = rows]
  BY DEF HandleTrace, Trace
<1>d. /\ events = {s \in outbox : correlation[s] = correlation[r]}
      /\ events \subseteq outbox /\ events \subseteq Request
  BY <1>a DEF EventsOf, CorrelationHeader, Order, PanelTypeOK
<1>e. Cardinality(events) \in Nat
  BY <1>a, <1>d, FS_Subset, FS_CardinalityType DEF ServiceTypeOK
<1> HIDE DEF events
<1>1. shown' \in [Request -> Seq(Request)] /\ shown'[r] = rows
  <2>1. rows \in Seq(Request)
    <3>1. rows \in [1 .. Cardinality(events) -> Request]
      BY <1>c, <1>d
    <3> QED
      BY <3>1, <1>e
  <2>2. shown \in [Request -> Seq(Request)]
    BY <1>a DEF PanelTypeOK
  <2> QED
    BY <1>c, <2>1, <2>2
<1>2. AnswerStep(r, "OK")
  BY <1>a, <1>b, <1>1 DEF HandleTrace, AnswerStep, Answer, Writing, ServiceTypeOK
<1>3. \A t \in Request : t # r => shown'[t] = shown[t]
  BY <1>a, <1>c DEF PanelTypeOK
<1>4. \A i \in DOMAIN rows : rows[i] \in outbox /\ rows[i] \in Request
  BY <1>c, <1>d
<1>5. ShownIsOut'
  BY <1>a, <1>b, <1>1, <1>3, <1>4 DEF ShownIsOut
<1>6. ASSUME NEW s \in known'[r], click'[s] \in Writing, OK(s)',
             correlation'[s] = correlation'[r]
      PROVE  Event(s)' \in ToSet(shown'[r])
  <2>1. s \in Request /\ s # r
    BY <1>6, <1>a, <1>b DEF PanelTypeOK, Writing
  <2>2. OK(s) /\ Event(s)' = Event(s)
    BY <1>6, <1>a, <1>b, <2>1 DEF OK, Event, ServiceTypeOK
  <2>3. Event(s) = s /\ s \in outbox
    BY <1>6, <1>a, <1>b, <2>1, <2>2 DEF EventIsOut
  <2>4. s \in ToSet(rows)
    BY <1>6, <1>b, <1>c, <1>d, <2>3
  <2> QED
    BY <1>1, <2>2, <2>3, <2>4 DEF ToSet
<1>7. ASSUME NEW i \in DOMAIN rows, NEW k \in DOMAIN rows, rows[i] \in known[rows[k]]
      PROVE  i < k
  <2>1. rows[i] \in earlier[rows[k]]
    BY <1>7, <1>a, <1>4 DEF KnownFirst, Order
  <2>2. rows[k] \notin earlier[rows[i]]
    BY <1>a, <1>4, <2>1 DEF Order
  <2>3. i # k /\ ~ k < i
    BY <1>c, <2>1, <2>2
  <2> QED
    BY <1>c, <1>e, <2>3
<1>8. TraceIsComplete' /\ TraceIsCausal'
  BY <1>1, <1>2, <1>3, <1>6, <1>7, <1>b, OldTraces DEF TraceIsComplete, TraceIsCausal
<1> QED
  BY <1>2, <1>5, <1>8, <1>b, ReadKeeps, AnswerKeeps DEF IInv

LEMMA Invariance == PanelSpec => []IInv
<1>1. IInv /\ [PanelNext]_panelVars => IInv'
  <2> SUFFICES ASSUME IInv, [PanelNext]_panelVars PROVE IInv'
    OBVIOUS
  <2>1. CASE StartJourney \/ \E r \in Request : PushResult(r)
    BY <2>1, ShowStep
  <2>2. ASSUME NEW r \in Request, PressStep(r)
        PROVE  IInv'
    BY <2>2, PressKeeps
  <2>3. ASSUME NEW r \in Request, Serve(r)
        PROVE  IInv'
    BY <2>3, BeginKeeps, ScanKeeps, DrawKeeps, MeKeeps, TraceKeeps DEF Serve, Quiet
  <2>4. CASE UNCHANGED panelVars
    BY <2>4
       DEF panelVars, clicks, services, IInv, PanelTypeOK, ServiceTypeOK, IdsAreOwn,
           Stages, DrawRows, ScanRows, Conflicts, EventIsOut, OK, Event, Order,
           ShownIsOut, KnownFirst, TraceIsComplete, TraceIsCausal, Traced, ToSet
  <2> QED
    BY <2>1, <2>2, <2>3, <2>4 DEF PanelNext, PressStep
<1> QED
  BY <1>1, InvInit, PTL DEF PanelSpec

-----------------------------------------------------------------------------
\* Panel, clicks and services keep their types, and a journey has its key from
\* its first click on.
THEOREM PanelTypeCorrect == PanelSpec => []PanelTypeOK
<1>1. IInv => PanelTypeOK
  BY DEF IInv
<1> QED
  BY <1>1, Invariance, PTL

\* The draw clicks of a key never all turn each other away
\* (journey-panel.tsx:48-57).
THEOREM DrawIsAnswered == PanelSpec => []SomeClickIsOK
<1>1. IInv => SomeClickIsOK
  <2> SUFFICES ASSUME IInv, NEW key \in Key, NEW s \in Sent(key),
                      \A r \in Sent(key) :
                        answer[r] \in {"DrawReserved", "IDEMPOTENCY_CONFLICT"}
               PROVE  \E r \in Sent(key) : OK(r)
    BY DEF SomeClickIsOK
  <2>1. CASE answer[s] = "DrawReserved"
    BY <2>1 DEF OK
  <2>2. CASE answer[s] = "IDEMPOTENCY_CONFLICT"
    <3>1. PICK row \in ledger : row.key = key
      BY <2>2 DEF Sent, IInv, Conflicts, Drawing
    <3>2. row.drawId \in Sent(key) /\ answer[row.drawId] \in {"DrawReserved", "ERROR"}
      BY <3>1 DEF Sent, IInv, DrawRows, Drawing
    <3> QED
      BY <3>2 DEF OK
  <2> QED
    BY <2>1, <2>2
<1> QED
  BY <1>1, Invariance, PTL

\* A trace shows the event of every OK scan and draw that was on the screen
\* when it was asked for (correlation.middleware.ts:13-14).
THEOREM TraceShowsAll == PanelSpec => []TraceIsComplete
<1>1. IInv => TraceIsComplete
  BY DEF IInv
<1> QED
  BY <1>1, Invariance, PTL

\* ... and causes before effects.
THEOREM TraceShowsCauses == PanelSpec => []TraceIsCausal
<1>1. IInv => TraceIsCausal
  BY DEF IInv
<1> QED
  BY <1>1, Invariance, PTL
=============================================================================
