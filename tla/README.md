# Formal models of the 5min platform prototype

TLA+ specifications of the state-changing parts of this repository, TLC
configurations that check them on small instances, and TLAPS proofs of their
safety for every number of calls, codes, keys, tokens, tables, files, lines and
clicks.
Paths below are relative to the repository root.

    tlc -config MCQrScan.cfg MCQrScan.tla      # any run of the table below
    tlapm QrScanProofs.tla                     # the proofs
    tlapm QrScanRefinement.tla
    tlapm DrawReserveProofs.tla
    tlapm RewardJourneyProofs.tla
    tlapm JourneyPanelProofs.tla
    tlapm SchemaDownProofs.tla
    tlapm MigrationRunProofs.tla
    tlapm MigrationInputProofs.tla

## 1. The system

A member scans a one-time QR code, triggers a draw, and sees points and
collectibles in the member centre. `apps/web` talks to `apps/api` (the BFF) over
HTTP; the BFF composes domain services (`packages/domain/*`), each of which owns
one PostgreSQL schema and touches no other. A domain write and its
`platform.event_outbox` row share one transaction (`packages/shared/db`).
Migrations and the demo seed are scripts run by an operator.

| Part | State | Operations | Talks to |
|---|---|---|---|
| QR scan service, `packages/domain/qr` | `qr.code` (status, used_by), `qr.scan_event` | `scan` | pool, outbox |
| Draw service, `packages/domain/reward` | `reward.prize_token`, `reward.draw_ledger` | `draw`, `getById` | pool, outbox |
| DB layer, `packages/shared/db` | the pg pool, `platform.event_outbox` | `withTransaction`, `writeOutboxEvent`, outbox query | PostgreSQL |
| Draw orchestration, `apps/api/src/reward` | none of its own | `POST reward/draws`, `GET reward/draws/:id` | draw, wallet, collection services |
| Wallet service, `packages/domain/wallet` | `wallet.ledger_entry` (append-only) | `postDrawPoints`, `getSummary` | pool |
| Collection service, `packages/domain/ip_asset` | `ip_asset.collection_item`, `ip_asset.member_unlock` | `unlockFromPrizeDraw`, `getCollection` | pool |
| Member centre, `apps/api/src/member-center` | none | `GET me` | crm, wallet, campaign, collection services |
| Journey panel, `apps/web/app/journey-panel.tsx` | correlation id, idempotency key, result list (React state) | start, scan, draw, replay, refresh, trace | BFF through `packages/shared/api-contract` |
| Demo seed, `scripts/seed/run-seed.mjs` | none | upserts of campaign, member, codes, tokens, items | PostgreSQL |
| Migration creation and validation, `scripts/migrate` | files under `migrations/`, a temp directory | `create`, `validate` | file system |
| Migration runs, `scripts/migrate` | `public.pgmigrations` | `up`, `down`, `redo` | node-pg-migrate |
| Schema, `migrations/*.sql` | the tables | up halves, guarded down halves | PostgreSQL |
| Campaign and member lookups, `packages/domain/campaign`, `crm` | rows the seed writes | one SELECT each | pool |
| Admin trace, `apps/api/src/admin` | none | one SELECT over the outbox behind two flags | DB layer |
| Flags, money, time, errors, HTTP shell | none (values fixed at start-up) | pure functions | - |

What makes each of them correct, and what is hard about it:

* **QR scan.** A code is used once, for good, whatever scans race, fail half-way
  or are retried; code, scan event and outbox row are written together or not at
  all; an exact retry hears what the first try heard; a reused
  `client_request_id` is turned away. Hard: the row lock orders scans of one
  code, the unique index orders scans under one id, and the failure record is
  written by a third, lock-free statement; each pair of the three can meet.
* **Draw.** The account of tokens balances with the ledger; one
  `Idempotency-Key` has one outcome, the committed one, even for a caller that
  had rolled another; nothing is rolled again later. Hard: two tries of one draw
  hold different tokens when they meet at the ledger's unique key; `SKIP LOCKED`
  reads around transactions that may still roll back.
* **Draw orchestration, wallet, collection.** Every POINT draw is credited once
  and every won item is unlocked once; 200 means settled. Hard: three
  transactions of three services with no coordinator; each may fail, or succeed
  unheard; the client's retry is the only recovery.
* **Member centre.** Four reads at different moments must not miss what was
  answered before.
* **Panel.** Buttons are not disabled while a request is on its way; answers come
  back in any order; the key changes when a draw is sent.
* **Seed.** Gives codes and tokens back, statement by statement, while scans and
  draws may hold them, and leaves their history alone: what counts as one success,
  and whom a refusal blames, must survive it.
* **Correlation trace.** Rows carry the time of their BEGIN and appear at their
  COMMIT; the trace of a journey must still show what the member was answered, and
  causes before effects.
* **Migrations.** Run beside the service or beside each other; two-step checks
  (prefix then link, guard then DROP, down then up) without a common lock.

## 2. Modules

| Module | What it is | Code |
|---|---|---|
| `ScanContract` | what `scan()` promises: each call takes effect in one atomic step | interface of `packages/domain/qr/src/index.ts` |
| `QrScan` | `scan()` at its awaits, over PostgreSQL at READ COMMITTED, and the seed's reset of codes | `packages/domain/qr/src/index.ts`, `scripts/seed/run-seed.mjs`, `packages/shared/db/src/index.ts`, `migrations/20260804231803_create-qr-tables.sql` |
| `QrScanProofs` | type correctness and the safety properties of `QrScan`; where it can stand still | |
| `QrScanRefinement` | `QrScan` implements `ScanContract` | |
| `DrawContract` | what `draw()` promises: one atomic reservation per key | interface of `packages/domain/reward/src/index.ts` |
| `DrawReserve` | `draw()` at its awaits, over PostgreSQL, and the seed's reset of tokens | `packages/domain/reward/src/index.ts`, `scripts/seed/run-seed.mjs`, `packages/shared/db/src/index.ts`, `migrations/20260806161801_create-reward-tables.sql` |
| `DrawReserveProofs` | type correctness and the safety properties of `DrawReserve`; that it never stands still and implements `DrawContract` | |
| `SettlementContract` | what the BFF's draw promises its client: one draw per key, settled in one step, then shown | interface of `apps/api/src/reward/reward.controller.ts` |
| `RewardJourney` | the BFF's draw and `/me`; uses `DrawContract` for the draw itself | `reward.controller.ts`, `member-center.controller.ts`, wallet and ip_asset services |
| `JourneyPanel` | the buttons of the panel over `ScanContract` and `DrawContract`, and the correlation trace | `apps/web/app/journey-panel.tsx`, `packages/shared/api-contract/src/index.ts`, `packages/shared/db/src/index.ts`, `apps/api/src/admin` |
| `RewardJourneyProofs`, `JourneyPanelProofs` | type correctness and the safety properties of the two compositions; `RewardJourney` implements `SettlementContract` | |
| `SchemaDown` | a guarded down half beside sessions that insert | `migrations/*.sql` (down halves), `scripts/migrate/down.mjs`, claim transaction of the QR service |
| `MigrationArgs` | the argument parser of the `migrate:*` commands, and what it should accept | `scripts/migrate/lib/arg-parsing.mjs` |
| `MigrationFile` | a migration file as its lines: header parser, markers, validator, and what a valid file is | `scripts/migrate/lib/header-parser.mjs`, `validator.mjs`, `constants.mjs` |
| `MigrationCreate` | concurrent runs of `migrate:create` over one directory; extends the two above | `scripts/migrate/lib/creation.mjs`, `create.mjs` |
| `MigrationRun` | `migrate:up`, `down` and `redo` beside `migrate:create`; extends `MigrationCreate` | `scripts/migrate/up.mjs`, `down.mjs`, `redo.mjs`, `lib/cli-resolution.mjs` |
| `MigrationInput` | a file and an argument list of any content, and what validator and parser say of them; extends `MigrationCreate` | |
| `SchemaDownProofs` | type correctness of `SchemaDown`, atomicity, and when no row is dropped | |
| `MigrationRunProofs` | type correctness and the safety properties of `MigrationCreate` and `MigrationRun` | |
| `MigrationInputProofs` | what validator and argument parser accept, for every file and every list | |
| `MC*` | the constants of the TLC instances, and how they name or permute them | |

Operators that start with the name of a definition and an underscore
(`LockCode_NoLock`, `Reread_OwnRoll`, ...) are *mutants*: the definition with a
plausible bug. No specification uses them. They are kept because a property
that no mutant breaks says nothing; `PROJECT.json` names the one that breaks
each property.

### QrScan and DrawReserve

A `Request` is one call; a retry is another call with the same `input`. `pc` is
the await a call is at. One action is what happens between two awaits together
with the effect of the statement that is awaited:

    start --Precheck--> connect --Begin--> lock --LockCode--> recheck
      recheck --Replay--> done             (an outcome was recorded meanwhile)
      recheck --Refuse--> record --RecordConnect--> recinsert
                          --RecordInsert--> reccheck --RecordCommit--> done
      recheck --Claim--> insert --InsertEvent--> commit --Commit--> done

`draw()` is the same with `pick` in place of `lock`/`recheck`, and with
`reread` after a lost race for the key. `Abort` is any statement that throws or a
process that stops, at any of these points; `Commit` may answer ERROR although it
has committed.

PostgreSQL is modelled by what the code relies on. Writes of a transaction are
invisible until its commit, so they are applied by `Commit`; what others can feel
of an open transaction is state: the `FOR UPDATE` lock of a row (`rowLock`,
`tokenLock`) and the unique-index entry that an uncommitted INSERT holds
(`indexLock`, `keyLock`), on which a second INSERT waits. The foreign key of
`qr.scan_event` takes KEY SHARE on the code row, which waits for a `FOR UPDATE`
holder (`RecordCommit`). A statement outside a transaction needs a pool client
while it runs, a transaction from `Begin` to its end (`ClientFree`,
`PoolSize`).

`SeedCode` and `SeedToken` are the upserts of the seed, one statement each, at any
time between the statements of the calls; a run of the seed that dies half-way is
one of which the rest never comes. They wait for row locks like anybody else. Only
the codes and tokens that the seed knows (`DemoCode`, `DemoToken`) are touched.
The ghost variables `reseeded` and `returned` remember whose code or token was
taken back, which is what the properties need to say what the history means after
a reset.

With resets the scans can deadlock. A scan that was refused records its refusal
in a statement that holds the index entry of its id and then waits for the row of
the code, which the foreign key needs; if the code was reset after the refusal was
decided, a retry under the same id is let in, holds the row, and waits for the
index entry. `BreakDeadlock` is PostgreSQL's detector, which makes one of them
fail. `DeadlockNeedsReset` says that this is the only way: with no reset the
order row, then entry is never inverted.

Data: hashes are taken as injective, so a raw code and its fingerprint are one
value. Timestamps, correlation ids and row ids that nothing compares are left
out; `usedBy` and `by` name the call itself, which is finer than the
member id of the code.

### RewardJourney and JourneyPanel

`RewardJourney` extends `DrawContract`, not `DrawReserve`: `DrawReserveProofs`
proves that `DrawReserve` implements the contract, so the composition may use
the contract. After the draw, `stage` walks through `PostPoints`, or `SelectItem`
and `InsertUnlock`, each of which may fail before it takes effect (`Outage`) or
take effect and not be heard of (a `500` after the write). `Retry` is the client
sending the same request again. `AskMe`, `ReadPart` and `ReadCollection` are
`GET /me`; it lists the items of the current campaign only (`Collection`), as
`getCollection` does, although a draw may be of any campaign. `Reseed` is the seed, which puts tokens back and leaves points and
unlocks alone.

`SettlementContract` is what all this adds up to for the client. It knows no stages,
services or tokens: a request reserves a draw under its key (`Reserve`), a draw that
is owed points or an item gets them in one step (`AddPoints`, `AddItem`), and an
answer either shows a draw to which nothing is owed or promises nothing
(`Inform`, `Conclude`). `RewardJourney` instantiates it as `Settlement`: the credits
are the draws that the wallet entries name, the points their sum, the items those of
the unlocks, and a draw is shown by a 200.

`JourneyPanel` is the browser over the two contracts, `DrawContract` by EXTENDS
and `ScanContract` by an instance with the same `input` and `answer`. A click sends
its request with the correlation id and the key on the screen at that moment
(`Click`); its block is pushed into whatever list there is when its answer comes
(`PushResult`), if it ever does. `Begin` is the BEGIN of a transaction, which
fixes the `created_at` of the event it may write; the event becomes visible with
the effect (`Publish`), or never does (`Leave`), so that begin order and commit
order differ freely: `earlier` is the order of the `created_at`. `Trace` is the SELECT
of the audit log, as the set of the sequences that list the events of a correlation
id in that order; there is one. `known` remembers
which answers were on the screen when a click was made: it is what "caused by"
means here. The panel itself never retries.

### SchemaDown

`SchemaDown` is the down half of a migration as its SQL has it: for each table a
guard (`Guard`) and a DROP (`TakeLock`, `Drop`), all in one transaction
(`CommitDown`, `FailDown`). The sessions beside it read the row they will refer
to, insert, and commit, as the claim transaction of a scan does. Table locks are
state: a session holds a weak one on every table it has `touched`, the migration
ACCESS EXCLUSIVE on those in `held`; `Victim` is PostgreSQL's deadlock detector.
`MCSchemaDown` makes two instances of it: the QR tables, where `scan_event`
refers to `code`, and the wallet, whose one table refers to nothing.

### MigrationArgs, MigrationFile, MigrationCreate and MigrationRun

`MigrationFile` takes a file as a sequence of lines, each of them what the parser
can take it for (a field with a key and a kind of value, a marker, a comment, a
blank line, SQL). `ParseLine` and `ParseArg` are one turn of the loops in the code, and `HeaderLoop` and
`ArgLoop` the recursive functions of what is known after each turn.
`WellFormed` and `FitsAllowlist` say without a loop what should be accepted.
`MigrationInput` compares the two on samples in the run `migrations`, and
`MigrationInputProofs` for every input. The code differs from its documents twice:

* `WellFormed` leaves the order of the four fields open, as the header parser does.
  `FieldsInOrder` asks for the order that `migrations/README.md` prescribes, and the
  run `header_order` shows that the code does not keep it.
* `allowedFlags` is an object literal, so `allowedFlags[flagName]` also finds what
  every object inherits (`Inherited`), and a flag such as `--constructor` or
  `--toString` is accepted, once and without a value, by every command. The documented
  rule, `FitsAllowlist`, does not admit it; `FitsButForInherited` is what gets through
  beyond that rule, and `ParsedAsWritten` says that it is no more and no less than
  this. `InheritedIsAccepted` is the disagreement as a theorem.

`MigrationCreate` has one action per system call of `createMigrationFile`: read
the clock, list the directory, make the temporary directory, write, validate,
`link`, `unlink`, clean up; `Refuse` is every return before the first of them. A
run may be killed at any of them (`Kill`). What is created is the template filled
in with the values of the flags, and `Validate` runs the validator of
`MigrationFile` over it. There may be one file beforehand that somebody wrote by
hand, unvalidated, on a machine whose clock was ahead.

`MigrationRun` is the three wrappers: `Check` (the validation) or `RefuseRun`,
then the process of node-pg-migrate: `Load` takes the advisory lock and reads
directory and `pgmigrations` again, `Commit` or `RunFails` ends its transaction,
possibly with the process killed after the COMMIT; `Conclude` is what the wrapper
prints. `Sortings` is a set of files in the order of their names, in which
node-pg-migrate takes them, and `Plans` what the
CLI then has to do; both are sets of sequences with one member (names differ), which
is how the proofs can speak of them without a recursive sort. `RedoUp` starts the second process of a redo; between its two halves
other commands run. node-pg-migrate is not in this repository and is modelled by
the options it is given (`--lock`, `--check-order`, `--single-transaction`, the
count).

## 3. Runs

| Run | Question | Instance |
|---|---|---|
| `qr_scan` | safety of `scan()` under races, failures and resets; refinement of `ScanContract`; where deadlocks come from; does every scan end? | 3 scans, 2 ids, 2 codes (one of them reset at any time) and an unknown one, pool of 2 |
| `qr_scan_reuse` | is a reused id always rejected? **No** | 2 scans, 1 id, 2 codes, no failures |
| `draw` | safety of `draw()` under races, failures and resets; refinement of `DrawContract`; does every draw end? | 3 draws, 2 keys, 3 tokens (one of them put back at any time), 2 campaigns, 2 tiers, pool of 2 |
| `draw_sold_out` | is NO_WIN after a PRIZE roll always sold out? **No** | 3 draws, 2 keys, 2 tokens, no failures |
| `journey` | credits, unlocks, 200s and `/me` under failures and retries; refinement of `SettlementContract`; is a reserved draw settled in the end? | 2 requests, 2 keys, 2 ids, 2 campaigns, 3 tokens (one of them put back) of 3 tiers, 2 of them with an item |
| `panel` | do the draw clicks of a key ever all turn each other away? does a trace show what its journey was answered, in order? | 3 clicks on any button, 2 journeys, 1 code, 1 token |
| `panel_replay` | does the replay button show the draw? **No** | as `panel` |
| `schema_down` | is the down half of the QR tables safe beside scans? | 2 scans, a reseed, 2 tables |
| `schema_down_wallet` | does the guard keep rows from being dropped? **No** | 1 posting, 1 table |
| `create_prefix` | is the timestamp prefix unique? **No** | 2 runs, 2 slugs |
| `migrations` | do concurrent `migrate:create` keep each other's files? do up, down and redo keep order, validity and count beside each other and a late file? what do validator and argument parser accept? | 2 `migrate:create`, 6 argument lists, 2 slugs, 2 seconds; or one of them (2 lists), 2 commands of 4 kinds and 1 older file; all files and argument lists 2 edits from a good one |
| `header_order` | does the validator keep the fields in the documented order? **No** | all files 2 edits from a good one |

Why these bounds are enough to meet the hard cases: a race for a lock needs two
calls, and a third lets a race be observed, or lost again, by a call that came
late (a precheck before, a recheck after). Two ids over two codes give every
combination of same and different that `checkIdempotency` distinguishes. Three
tokens over two campaigns and two tiers give a last token, a wrong campaign and
a wrong tier. In `RewardJourney` two requests may be two draws of one tier, of
two, or one draw and its replay, each retried without bound; one is of the current
campaign and the other of any, so that an item may be won that `/me` lists and one that
it does not, and a tier with no item. Every tier has a token
of its own, so each branch of the unlock is met. One code and one
token that the seed knows, beside others that it does not, are reset any number of
times. In `JourneyPanel` three clicks are a draw, its replay and a second replay,
or two writes of overlapping transactions and the trace that looks at them, in one
journey or around a restart. In `SchemaDown`
two sessions that go from `code` to `scan_event` meet the one DROP that goes the
other way, and a third inserts into `code` alone. In `MCMigration` a variable, `team`, says who
runs, for the questions are apart: two runs of `migrate:create`, one beside two
commands, or nobody, while the samples are edited. Two runs
and a file from before, with two slugs and two seconds, have same and different
names and prefixes. Two commands are what can meet at the lock,
at the two readings of the directory and between the halves of a redo; an up
has at most two files to apply, one of which may come late. Two edits are an
insertion and a removal, so they reach the swap of two lines, a repeated field, a
missing one and a field after the block; the bound is `MaxEdits`.

Requests, keys and ids are alike in the code. The runs without liveness use TLC's
symmetry reduction; those with liveness must not, and instead name the values:
of three requests with two ids two share one, and those are called `r1` and `r2`
and the id `k1` (`TwoShareAnId`, `TwoShareAKey`, `FirstNames`). These are
conditions on the initial states and lose nothing but other names of the same
behaviour. `FirstNames` also has `r1` play in the current campaign: left out are two
requests of the other one, which meet nothing that two of the current one do not,
except that `/me` shows neither.

`CHECK_DEADLOCK FALSE` stands only where the system stops when all is done: in
the runs over `JourneyPanel` (finitely many clicks) and in those of `MCMigration`
(every command ends).

No counter in the models grows without bound, so no run needs a state
constraint; attempts are unbounded (`Retry`).

### Fairness

`QrScan` and `DrawReserve` assume weak fairness of the steps of each call, `QrScan`
also of the deadlock detector (`deadlock_timeout` is on by default and no script
here changes it), and neither of failures or of the seed: Node's event loop runs every callback whose statement has
ended, and PostgreSQL ends every statement that waits for nothing. Weak fairness
is enough, for strong fairness would hide starvation of a waiting call behind
others; since calls are finite in number none can overtake for ever.
`journey` assumes that a client who got a 500 sends the request again, and
strong fairness of a step that neither fails nor loses its answer: no outage
lasts for ever. Without it a draw whose wallet call fails every time is never
settled, and that is true of the code, too. `SchemaDown` assumes that statements
that wait for nothing end and that the deadlock detector runs; an operator need
not start or repeat anything. `MigrationCreate` and `MigrationRun` make no
assumption: a command that is killed or never run again is no fault of theirs.

### Findings

* **A reused `client_request_id` can be given two outcomes** (`qr_scan_reuse`,
  `packages/domain/qr/src/index.ts:277`). Two scans under one id for two codes, of
  which at least one is refused, pass both checks before either is recorded. In the
  trace one uses its code, SUCCESS; the record of the other's refusal is skipped by ON
  CONFLICT DO NOTHING, and its caller is told INACTIVE, which is recorded nowhere,
  where the API document promises IDEMPOTENCY_CONFLICT.
* **NO_WIN does not mean sold out** (`draw_sold_out`,
  `packages/domain/reward/src/index.ts:194`). A draw that loses the race for its
  key gives its token back, after another draw may have skipped it.
* **The replay button cannot replay** (`panel_replay`,
  `apps/web/app/journey-panel.tsx:52`). It sends a new `client_request_id`, which
  is part of the fingerprint: the answer is always 409 once its draw is recorded.
* **The guard of a down half does not keep writers out** (`schema_down_wallet`,
  `migrations/20260807165122_create-wallet-ledger-entry.sql:47-54`). A posting
  that inserted before DROP asks for its lock commits first, and its row is
  dropped. The QR tables are safe (`schema_down`) for a reason no comment gives:
  a scan event needs a code row, and the second guard looks at `code` when DROP
  of `scan_event` has already locked it. The guards stay useful as a check of an
  idle database; `LOCK TABLE` before them would make the comment true.
* **A refusal and its retry can deadlock after a reseed** (`DeadlockNeedsReset`,
  `packages/domain/qr/src/index.ts:277`). No text of the repository says otherwise,
  so no run expects a violation: the service recovers, at the price of an error
  for one of the two callers or of a refusal that is not recorded. Without the
  detector `EveryScanAnswered` fails.
* **Two migrations can share a prefix** (`create_prefix`,
  `scripts/migrate/lib/creation.mjs:138`). The prefix is looked for before the
  file is linked, and `link` excludes equal names only.
* **The header fields may come in any order** (`header_order`,
  `scripts/migrate/lib/header-parser.mjs:68`). `migrations/README.md:55-56` says
  "exactly these four fields, in this exact order"; the parser collects them by name,
  and the validator never looks at the order.
* **A flag that no list allows is accepted** (`InheritedIsAccepted`,
  `scripts/migrate/lib/arg-parsing.mjs:20`), if it is named like a property of
  `Object.prototype`, where lines 1-3 say "Rejects unknown flags" and
  `scripts/migrate/down.mjs:3` "zero arguments of any kind". It changes nothing a
  command does. It has a theorem instead of a run.
* **A redo may apply another migration than it reverted**
  (`scripts/migrate/redo.mjs:82`): its second half applies the first pending file.
  That is another one if the first half found nothing to revert, or if an older file
  came between the halves; `migrations/README.md:127` says "Reverts exactly one
  migration, then reapplies it". No run expects it; `OneAtATime` says what does hold.
* **The panel never settles what an outage left.** `DrawsAreSettled` is about a client
  that sends a failed request again with its key and its `client_request_id`. The
  replay button sends a new `client_request_id` and is answered 409, so of the panel's
  own draws one whose wallet call failed stays without its points.
* **`/me` does not show everything that was won.** A prize of a campaign that is not
  the current one is unlocked and answered 200, and `/me`, which lists the current
  campaign, leaves it out. `MeShowsSettledDraws` says so; no document says otherwise.

## 4. Proofs

`QrScanProofs` proves, for all values of the constants that satisfy
`QrAssumption`, that `Spec` implies `[]TypeOK`, `[]OneSuccessPerCode`,
`[]ClaimIsAtomic`, `[]RefusedOnlyByAnother`, `[]SuccessIsRecorded`,
`[]ConflictOnlyOnReuse`, `[]DeadlockNeedsReset` and the action property
`HistoryIsFinal`, with the seed resetting codes at any time.
`QrScanRefinement` proves `ImplementsContract`. The assumption says that the codes
in the table are among the fingerprints, that "nobody" is no request and no
id, and that the pool has a client.

None of the properties is inductive. The invariant that is, `IInv`, says in
addition how a transaction in flight is tied to what it has read:

* `KnownCode`: a call past `lock` has a fingerprint with a code row;
* `RowOwned`, `EntryOwned`: whoever is between `LockCode` and its end holds the
  row lock, whoever is between its INSERT and its end holds the index entry;
* `SeenCurrent`: the status read under the lock is still the committed one. This
  is what the lock is for, and the step where `LockCode_NoLock` would fail;
* `Fresh`: a call that holds an index entry has no committed row under its id.
  This is what the unique index is for;
* `ClaimTrace`, `Rivals`: the committed tables agree on who used a code, up to
  resets, and a refusal in flight was caused by another id;
* `RefusalStands`: a refusal being recorded is still borne out by the table, or the
  code was reset after a success. This is what `DeadlockNeedsReset` rests on:
  `Holders` says who can hold a row or an entry, so that a cycle of waits must
  contain a recording call and a claiming one of its own id.

Each theorem follows from `IInv` at a state, or from `IInv` and one step. The
refinement maps `Commit` to `Win`, `RecordCommit` to `Refuse`, the steps that
answer without writing to `Inform`, and all others to a stutter; the invariant is
needed to show that the guard of the abstract step holds at that moment.

`DrawReserveProofs` proves, under `DrawAssumption` (every token has a campaign and
a tier, the seed knows tokens of the table only, "nobody" is no request, token or
tier, and the pool has a client), that `Spec` implies `[]TypeOK`,
`[]InventoryMatchesLedger`, `[]OutboxMatchesLedger`, `[]SameKeySameResult` and the
action property `ReservationIsFinal`. The first three are conjuncts of its `IInv`,
which needs in addition:

* `TokenHeld`: a roll in hand is a PRIZE exactly when it holds a token, which is
  locked by this call, still Available, and of the right campaign and tier. Without
  it two commits could claim one token; it is where `Claimable_NoLock` fails, and
  what makes `SeedToken` wait for the row;
* `KeyHeld`: a call past its INSERT holds the entry of its key, and no committed
  row has that key;
* `Pending`: a call that has not ended has answered nothing and has no row, so that
  a COMMIT adds a new draw;
* `LedgerTrace`: a row carries the key and fingerprint of its draw, and is the only
  row of its key;
* `ToldIsReserved`: whoever was told a result was told the committed row of its own
  key and fingerprint. With `LedgerTrace` this gives `SameKeySameResult`.

`Refinement` in the same module proves `ImplementsContract`: `Commit` is `ReservePrize` or
`ReserveOther`, whether it is heard or not; a replay, a conflict and an error are
`Inform`; `SeedToken` is `Restock`; all other steps stutter, since nothing they do
can be seen in the tables. The token of a PRIZE is in the abstract stock at that
moment by `TokenHeld`, and the key is free by `KeyHeld`.

Liveness is out of the prover's reach, but what it rests on besides fairness is not.
`NoStandstill`, in `DrawReserveProofs` and in `QrScanProofs`, says that as long as a
call is unanswered there is a call that nothing keeps waiting (`CanGoOn`): neither
the pool, the row locks and the index entries nor the three together ever leave
everybody waiting for everybody. In both, whoever waits for a lock waits for a call
that has a client already, and the calls that have clients are what the pool is full
of; so a chain of waits ends, and a draw that lost its race has given its client
back before it asks for one to read again. A pool of one client is enough. For scans there is the
exception that the deadlock needs, a refusal whose code was reset, and TLC reaches
it. `CanGoOn` is written out, not ENABLED: TLC agrees, in every state of `qr_scan`
and `draw`, that it is equivalent to a step of the call being enabled.

`RewardJourneyProofs` proves, under `JourneyAssumption` (a tier is linked to an item
or to none, items have campaigns, tokens have tiers, the seed knows tokens of the table
only), that
`JourneySpec` implies `[]JourneyTypeOK`, `[]CreditedOnceAsDrawn`,
`[]UnlockedOnceAsWon`, `[]AnsweredMeansSettled`, `[]MeShowsSettledDraws`, the
action property `NothingTakenBack` and the refinement `ImplementsSettlement`. A draw is settled by whichever call gets that
far, not by the one that reserved it. What ties calls together, and is needed in the
invariant, is:

* `DrawTypeOK`: the rows of the ledger, and that a PRIZE has a tier;
* `StageTrace`: a call that posts or unlocks was told of a committed row under its
  own key, of the kind that has something to post or unlock; only a call that is
  done has a status;
* `PartsShow`: a part of `/me` that has been read shows the draws settled when `/me`
  was asked for, its items as far as they are of the current campaign.
  `MeShowsSettledDraws` is this with no part pending.

The refinement (`Settles`) has one lemma for each kind of step. A first draw is
`Reserve`, with a 500 if the client hears of nothing and a 200 if there is nothing to
settle. `PostPoints` is `AddPoints` if the wallet had no entry of the draw; the number of
entries, of which there are finitely many, then grows by one, and the points by what
one draw is worth. If there
was one already, ON CONFLICT DO NOTHING makes it `Inform`, or a stutter if the client
hears nothing. `InsertUnlock` is `AddItem` or `Inform` in the same way. `RowAtHand`
is what all of them need: the row that the call holds is the committed one of its own
key and fingerprint, and nothing of it is owed once its call says 200. A seed that
took unlocks back would be no step of the contract, and so would an answer that came
before its posting.

`JourneyPanelProofs` proves, under `PanelAssumption` (ids are fresh UUIDs, so clicks
and journeys are among the ids and keys, and null is none of them), that `PanelSpec`
implies `[]PanelTypeOK`, `[]SomeClickIsOK`, `[]TraceIsComplete` and
`[]TraceIsCausal`. The three steps of the argument are conjuncts of its `IInv`:

* `IdsAreOwn`, `DrawRows`, `Conflicts`: a conflict is with a row under the key, and
  that row is of a click that was answered DrawReserved or with an error. If nobody
  was answered with an error, it is the click that was not turned away;
* `EventIsOut`: an OK scan or draw has its own event in the outbox. This is what the
  fresh `client_request_id` of a click is for: without it an OK draw could be a
  replay, whose event is another click's;
* `Order`, `KnownFirst`: `created_at` is a strict order of the transactions that have
  begun, and a click made with an answer on the screen begins after that answer's
  transaction. A trace lists by the former, `known` is of the latter.

`SchemaDownProofs` proves, under `DownAssumption` (every table is dropped once or
more, foreign keys lead to tables of the migration), that `Spec` implies `[]TypeOK`,
`[]AllOrNothing` and, for the tables that satisfy `GuardsSeeEveryRow`,
`[]OnlyWhileEmpty`. That condition, on `DropOrder` and `Parent` alone, says why some
down halves are safe: each table is referred to by one whose DROP came earlier (so it
is locked when its guard looks), or refers to one whose guard comes later. The QR and
the collection tables satisfy it, which TLC evaluates for the former as an assumption
of `MCSchemaDown`. A migration with one table does not (wallet, outbox, campaign,
member), nor do the reward tables, whose foreign key from `draw_ledger` may be null;
`schema_down_wallet` shows what happens then. The invariant says what DROP has locked
(`DroppedIsHeld`), that nobody else has touched it (`Exclusive`), that a row has the
rows it refers to (`References`, and `SessionTouched` for rows on their way), and
that what a guard found empty under a lock stays so (`SeenEmpty`).

`MigrationRunProofs` proves two layers. For `migrate:create` alone, and also beside
the other commands, it proves `[]CreatedIsKept` and `[]CollisionIsReal`, under
`CreateAssumption`; its invariant `CInv` says that no two files share a name
(`UniqueNames`), and follows a run's own file from `link` on (`OwnFile`, `Placed`,
`Collided`, `LinksValid`). For `migrate:up`, `down` and `redo` it proves `[]TypeOK`,
`[]AppliedInOrder`, `[]AppliedIsValid`, `[]UpAppliesAll` and the action property
`OneAtATime`, under `RunAssumption`, where the order of the slugs is a strict one
as that of file names is. `RInv` adds to `CInv`:

* `LockHeld`, `PlanFits`: only the holder of the lock is loaded, so its plan still
  fits the applied migrations when it commits;
* `FilesValid`: as long as a wrapper has passed the validation and something may
  come of it, every file is valid. The directory is read twice, but between the two
  only `migrate:create` adds files, and `LinksValid` says that those are valid;
* `RedoPlans`: the process of a redo has at most one migration to apply, whatever files
  are pending;
* `Said`: what PASS says of the process that has ended.

`MigrationInputProofs` is about the two loops of the migration scripts.
`ValidatorIsExact` says that `validateMigrationBody` has nothing to say of exactly
the files that `WellFormed` describes, and `ParserIsExactForAll` that `parseStrictArgs`
accepts exactly the lists that `FitsAllowlist` or `FitsButForInherited` describes and
hands on the values of the flags, for every allowlist (`ParserIsExact`: for that of
`migrate:create`), for files and lists of every length and with any names. Both are
inductions over the input. The induction theorems of the library take an operator as
a parameter, which the provers cannot instantiate; here induction is a fact about a
set of numbers (`AllNumbers`, `UpTo`), which follows from `<` being well founded, and
the loops are recursive functions, whose solution is shown to exist first
(`HeaderLoopSteps`, `ArgLoopSteps`). The invariants of the loops are:

* `Knows`: as long as all lines were header fields or blank, the block has not ended,
  the loop has the keys of those lines, it has no diagnosis if and only if no key came
  twice, and then it has their values;
* `CodesGrow`: a diagnosis stays, and after its end the block stays as it is. So only
  the first line that is neither field nor blank matters (`IsWholeBlock`): it ends a
  complete block, and gets an incomplete one a diagnosis or leaves it incomplete;
* `Has`: the parser is still content if and only if every flag so far is right and
  none came twice; it then has their names, and all other arguments as positionals.
  That no name came twice is that there are as many names as flags (`NamesCounted`).

The only hypothesis is that the input is a sequence of lines, or of arguments, which
TLC confirms for every sample of the run `migrations`, and that no allowlist has a
flag `__proto__`, which an object literal cannot have.

Only model-checked: liveness (`EveryScanAnswered`, `EveryDrawAnswered`,
`DrawsAreSettled`, `DownEnds`), which is out of the prover's reach. Every other
property of a passing run is a theorem. The properties of the runs that expect a
violation are false.

## 5. Not modelled

* The campaign and member lookups, flags, money, time, errors and most of the HTTP
  shell: see the notes in `PROJECT.json`.
* A campaign that begins or ends: no code changes the status of one, so the current
  campaign is a constant (`CurrentCampaign`).
* A seed with other constants than the last run's: the text of `run-seed.mjs` is
  the same on every run, so its upserts of campaign, member, tiers and items change
  nothing.
* The body of `/me` in `JourneyPanel` (it is in `RewardJourney`) and the errors of
  the two reads, which show nothing.
* More than one member: `DemoMemberContextProvider` knows one.
* The weights of `pickCategory`: any category may be rolled.
* An outbox publisher: there is none; rows stay PENDING.
* Statement timeouts of PostgreSQL, and in `DrawReserve`, where nothing can form a
  cycle, its deadlock detection: an `Abort` at any await covers what the caller sees
  of them.
* In the migration scripts: slug normalization beyond a table of examples,
  trimming and UTF-8, the calendar check of a timestamp, the symlink and
  containment checks (which only refuse), the check of `template.sql`, and the
  single checks of the CLI's identity (one refusal, `RefuseRun`).
* What node-pg-migrate does to `pgmigrations` when files it has applied are
  removed: no script here removes one.

## 6. Plan

Every safety property and every refinement of a passing run is a theorem. What is left
is small and in the models: the flag gates as an operator, and the calendar check of a
migration's timestamp.
