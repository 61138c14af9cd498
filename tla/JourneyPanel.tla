---------------------------- MODULE JourneyPanel ----------------------------
(***************************************************************************)
(* The web panel (apps/web/app/journey-panel.tsx) over the API client, the *)
(* scan and draw services (their contracts) and the correlation trace.     *)
(* Clicks are not serialised: a button may be pressed again, or the        *)
(* journey restarted, while answers are on their way, and the answers come *)
(* back in any order or not at all.  The panel never retries by itself.    *)
(*                                                                         *)
(* A Request is one click.  crypto.randomUUID() yields a value of its own: *)
(* the client_request_id and the Idempotency-Key that click r draws are r, *)
(* the correlation_id and the key that journey j starts with are j.        *)
(*                                                                         *)
(* A DrawReserved that cannot be settled is answered as the ERROR of the   *)
(* draw.  The feature flags are on; the body of the member centre and the  *)
(* error answers of the two reads are left out.                            *)
(***************************************************************************)
EXTENDS DrawContract, SequencesExt

CONSTANTS Code,          \* what the input field may hold
          Journey,       \* presses of "Start new journey"
          PanelCampaign  \* the campaignId of the page

ASSUME PanelAssumption == /\ Request \subseteq ClientId
                          /\ Request \cup Journey \subseteq Key
                          /\ PanelCampaign \in Campaign
                          /\ None \notin Request \cup Journey

VARIABLES correlationId,   \* React state, None before the first journey
          idempotencyKey,  \* React state
          block,           \* where the result block of each click is
          click,           \* the button of each click
          correlation,     \* the correlationId each click was made with
          known,           \* history: the blocks on the screen at each click
          winner,          \* ScanContract: who used each code
          record,          \* ScanContract: the recorded outcomes
          begun,           \* the transactions that have begun and left a row, or
                           \* still may
          earlier,         \* those of them that began before each: the order of
                           \* created_at
          outbox,          \* the clicks whose event is in event_outbox
          shown            \* the events that each trace returned

services == <<answer, told, stock, ledger, winner, record, begun,
              earlier, outbox, shown>>
clicks   == <<click, correlation, known, input>>
panelVars == <<correlationId, idempotencyKey, block, clicks, services>>

Scan == INSTANCE ScanContract WITH
  Fingerprint <- Code, DemoCode <- {}, NoClient <- None, inactive <- {}

Button == {"scan", "draw", "replay", "me", "trace"}
Writing == {"scan", "draw", "replay"}

PanelTypeOK ==
  /\ correlationId \in Journey \cup {None}
  /\ idempotencyKey \in Key \cup {None}
  /\ correlationId = None <=> idempotencyKey = None
  /\ block \in [Request -> {"none", "awaited", "listed", "gone"}]
  /\ click \in [Request -> Button \cup {"none"}]
  /\ correlation \in [Request -> Journey \cup {None}]
  /\ known \in [Request -> SUBSET Request]
  /\ begun \subseteq Request
  /\ earlier \in [Request -> SUBSET begun]
  /\ outbox \subseteq Request
  /\ shown \in [Request -> Seq(Request)]

-----------------------------------------------------------------------------
PanelInit ==
  /\ correlationId = None
  /\ idempotencyKey = None
  /\ block = [r \in Request |-> "none"]
  /\ click = [r \in Request |-> "none"]
  /\ correlation = [r \in Request |-> None]
  /\ known = [r \in Request |-> {}]
  /\ input = [r \in Request |-> None]
  /\ answer = [r \in Request |-> "none"]
  /\ told = [r \in Request |-> None]
  /\ stock = Token
  /\ ledger = {}
  /\ winner = [c \in Code |-> None]
  /\ record = {}
  /\ begun = {}
  /\ earlier = [r \in Request |-> {}]
  /\ outbox = {}
  /\ shown = [r \in Request |-> <<>>]

ClearResults == block' = [r \in Request |-> IF block[r] = "listed" THEN "gone"
                                                                   ELSE block[r]]

\* Mutant: the journey starts without a key of its own.
StartJourney_NoKey ==
  /\ \E j \in Journey \ {correlation[r] : r \in Request} :
       /\ j # correlationId
       /\ correlationId' = j
  /\ ClearResults
  /\ UNCHANGED <<idempotencyKey, clicks, services>>

\* "Start new journey": new ids, and an empty result list.
StartJourney ==
  /\ \E j \in Journey \ {correlation[r] : r \in Request} :
       /\ j # correlationId
       /\ correlationId' = j
       /\ idempotencyKey' = j
  /\ ClearResults
  /\ UNCHANGED <<clicks, services>>

\* The handler of a button sends its request with the state it was rendered
\* with, and awaits the answer.
Click(r, button, request) ==
  /\ correlationId # None
  /\ click[r] = "none"
  /\ click' = [click EXCEPT ![r] = button]
  /\ input' = [input EXCEPT ![r] = request]
  /\ correlation' = [correlation EXCEPT ![r] = correlationId]
  /\ known' = [known EXCEPT ![r] =
       {s \in Request : block[s] = "listed" /\ click[s] \in Writing}]
  /\ block' = [block EXCEPT ![r] = "awaited"]
  /\ UNCHANGED <<correlationId, services>>

DrawRequest(r, key) ==
  [key |-> key, fingerprint |-> [campaign |-> PanelCampaign,
                                 clientRequestId |-> r]]

ScanQr(r) ==
  /\ \E code \in Code :
       Click(r, "scan", [clientRequestId |-> r, fingerprint |-> code])
  /\ UNCHANGED idempotencyKey

\* "2. Trigger draw": a new key, which the panel keeps.
TriggerDraw(r) == /\ Click(r, "draw", DrawRequest(r, r))
                  /\ idempotencyKey' = r

\* "2b. Replay same draw": the key of the panel, a new client_request_id.
ReplayDraw(r) == /\ Click(r, "replay", DrawRequest(r, idempotencyKey))
                 /\ UNCHANGED idempotencyKey

Read(r, button) == Click(r, button, None) /\ UNCHANGED idempotencyKey
RefreshMemberCenter(r) == Read(r, "me")
ViewTrace(r) == Read(r, "trace")

\* pushResult: into the list there is by then.  A rejected fetch pushes nothing:
\* its block is awaited for ever.
PushResult(r) ==
  /\ block[r] = "awaited"
  /\ answer[r] # "none"
  /\ block' = [block EXCEPT ![r] = "listed"]
  /\ UNCHANGED <<correlationId, idempotencyKey, clicks, services>>

-----------------------------------------------------------------------------
\* withTransaction: BEGIN fixes the created_at of what r will write.
Begin(r) ==
  /\ click[r] \in Writing
  /\ answer[r] = "none"
  /\ r \notin begun
  /\ begun' = begun \cup {r}
  /\ earlier' = [earlier EXCEPT ![r] = begun]
  /\ UNCHANGED <<answer, told, stock, ledger, winner, record, outbox, shown>>

\* Only a transaction that claims or reserves writes an event; of the others
\* nothing is left to see.
Publish(r) == r \in begun /\ outbox' = outbox \cup {r} /\ UNCHANGED <<begun, earlier>>
Leave(r) == /\ begun' = begun \ {r}
            /\ earlier' = [s \in Request |-> IF s = r THEN {} ELSE earlier[s] \ {r}]
            /\ UNCHANGED outbox

HandleScan(r) ==
  /\ click[r] = "scan"
  /\ \/ Scan!Win(r) /\ Publish(r)
     \/ (Scan!Refuse(r) \/ Scan!Inform(r)) /\ Leave(r)
  /\ UNCHANGED <<told, stock, ledger, shown>>

HandleDraw(r) ==
  /\ click[r] \in {"draw", "replay"}
  /\ \/ (ReservePrize(r) \/ ReserveOther(r)) /\ Publish(r)
     \/ Inform(r) /\ Leave(r)
  /\ UNCHANGED <<winner, record, shown>>

Respond(r) == answer[r] = "none" /\ answer' = [answer EXCEPT ![r] = "OK"]

HandleMe(r) ==
  /\ click[r] = "me"
  /\ Respond(r)
  /\ UNCHANGED <<told, stock, ledger, winner, record, begun, earlier, outbox,
                 shown>>

\* Mutant: one of the calls of the API client forgets the header.
CorrelationHeader_NotOnReplay(r) ==
  IF click[r] = "replay" THEN None ELSE correlation[r]

\* x-correlation-id, as the client sends it and the middleware takes it over.
CorrelationHeader(r) == correlation[r]

EventsOf(id) == {r \in outbox : CorrelationHeader(r) = id}

\* Mutant: the newest event first.
Trace_Descending(id) ==
  {rows \in [1 .. Cardinality(EventsOf(id)) -> EventsOf(id)] :
     /\ ToSet(rows) = EventsOf(id)
     /\ \A i, k \in DOMAIN rows : i < k => rows[k] \in earlier[rows[i]]}

\* SELECT ... WHERE correlation_id = $1 ORDER BY created_at ASC: the one way
\* to list the events so.
Trace(id) ==
  {rows \in [1 .. Cardinality(EventsOf(id)) -> EventsOf(id)] :
     /\ ToSet(rows) = EventsOf(id)
     /\ \A i, k \in DOMAIN rows : i < k => rows[i] \in earlier[rows[k]]}

HandleTrace(r) ==
  /\ click[r] = "trace"
  /\ Respond(r)
  /\ \E rows \in Trace(correlation[r]) : shown' = [shown EXCEPT ![r] = rows]
  /\ UNCHANGED <<told, stock, ledger, winner, record, begun, earlier, outbox>>

Serve(r) ==
  /\ Begin(r) \/ HandleScan(r) \/ HandleDraw(r) \/ HandleMe(r) \/ HandleTrace(r)
  /\ UNCHANGED <<correlationId, idempotencyKey, block, clicks>>

PanelNext ==
  \/ StartJourney
  \/ \E r \in Request :
       \/ ScanQr(r) \/ TriggerDraw(r) \/ ReplayDraw(r)
       \/ RefreshMemberCenter(r) \/ ViewTrace(r)
       \/ PushResult(r) \/ Serve(r)

PanelSpec == PanelInit /\ [][PanelNext]_panelVars

-----------------------------------------------------------------------------
Sent(key) == {r \in Request : /\ click[r] \in {"draw", "replay"}
                              /\ input[r].key = key}
OK(r) == answer[r] \in {"SUCCESS", "DrawReserved", "OK"}

\* When the draw clicks of a key have all been answered and nothing failed,
\* one of them has been answered OK: whatever their order of arrival, they
\* never all turn each other away (journey-panel.tsx:48-57).
SomeClickIsOK ==
  \A key \in Key :
    /\ Sent(key) # {}
    /\ \A r \in Sent(key) : answer[r] \in {"DrawReserved", "IDEMPOTENCY_CONFLICT"}
    => \E r \in Sent(key) : OK(r)

\* The event behind an OK block: the scan, or the draw that the block shows.
Event(r) == IF click[r] = "scan" THEN r ELSE told[r].drawId

Traced(t) == click[t] = "trace" /\ OK(t)

\* "request -> domain write -> event_outbox row, all sharing the same value"
\* (correlation.middleware.ts:13-14): a trace shows the event of every OK scan
\* and draw that the panel listed in this journey before the trace was asked
\* for, however many others are on their way.
TraceIsComplete ==
  \A t \in Request : Traced(t) =>
    \A r \in known[t] :
      /\ click[r] \in Writing
      /\ OK(r)
      /\ correlation[r] = correlation[t]
      => Event(r) \in ToSet(shown[t])

\* A trace lists causes before effects: of two clicks, the second made with
\* the answer of the first on the screen, the first comes first, although
\* created_at is the time of the BEGIN and rows appear at their COMMIT.
TraceIsCausal ==
  \A t \in Request : Traced(t) =>
    \A i, k \in DOMAIN shown[t] : shown[t][i] \in known[shown[t][k]] => i < k

\* The label of the button, "2b. Replay same draw (idempotent)"
\* (journey-panel.tsx:56, 86), and openapi.yaml:74, "the identical prior
\* result, if replayed": a replay answered after its draw is that draw.
ReplayShowsTheDraw ==
  \A r, s \in Request :
    /\ block[r] = "listed" /\ click[r] = "draw" /\ OK(r)
    /\ block[s] = "listed" /\ click[s] = "replay"
    /\ input[s].key = input[r].key
    /\ answer[s] # "ERROR"
    => OK(s) /\ told[s] = told[r]
=============================================================================
