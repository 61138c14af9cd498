----------------------------- MODULE SchemaDown -----------------------------
(***************************************************************************)
(* migrate:down of a migration whose down half is a list of guarded DROPs  *)
(* (migrations/20260804231803, 20260806161801, 20260807165122,             *)
(* 20260809162938), beside sessions of the service or of the seed that     *)
(* insert into the same tables.                                            *)
(*                                                                         *)
(* The down half is one transaction (--single-transaction).  For each      *)
(* table, in order, it looks for a committed row and raises if there is    *)
(* one, and then drops the table: DROP TABLE takes ACCESS EXCLUSIVE on the *)
(* table and then, to remove its foreign keys, on the tables it            *)
(* references, and waits for every open transaction that has touched them. *)
(* A statement of a session waits for an ACCESS EXCLUSIVE holder.  When    *)
(* the two wait for each other PostgreSQL aborts one of them.              *)
(*                                                                         *)
(* The sessions work on rows of their own, so row locks play no part.      *)
(***************************************************************************)
EXTENDS Naturals, Sequences

CONSTANTS Table,      \* the tables the migration created
          DropOrder,  \* the order of its DROPs
          Parent,     \* the tables each table has a foreign key to
          Writer,     \* sessions; each inserts one row
          Target,     \* the table each session inserts into
          Seed        \* the author of the rows that are there beforehand

ASSUME DownAssumption ==
  /\ DropOrder \in Seq(Table)
  /\ {DropOrder[i] : i \in 1 .. Len(DropOrder)} = Table
  /\ Table # {}
  /\ Parent \in [Table -> SUBSET Table]
  /\ Target \in [Writer -> Table]
  /\ Seed \notin Writer

VARIABLES exists,   \* the tables there are
          rows,     \* the committed rows
          lost,     \* the committed rows that went with their table
          stage,    \* where each session is
          touched,  \* the tables whose lock each session holds
          down,     \* where migrate:down is
          next,     \* the DROP it is at
          held      \* the tables it holds ACCESS EXCLUSIVE on

data == <<exists, rows, lost>>
session == <<stage, touched>>
migrate == <<down, next, held>>
vars == <<data, session, migrate>>

Row == [table : Table, by : Writer \cup {Seed}]

TypeOK ==
  /\ exists \subseteq Table
  /\ rows \subseteq Row
  /\ lost \subseteq Row
  /\ stage \in [Writer -> {"begin", "insert", "commit", "done"}]
  /\ touched \in [Writer -> SUBSET Table]
  /\ down \in {"idle", "guard", "drop", "commit", "ok", "failed"}
  /\ next \in 1 .. Len(DropOrder) + 1
  /\ held \subseteq Table

Filled(t) == \E row \in rows : row.table = t

-----------------------------------------------------------------------------
\* Any tables may have rows already, if those they reference have.
Init ==
  /\ exists = Table
  /\ rows \in SUBSET [table : Table, by : {Seed}]
  /\ \A t \in Table : Filled(t) => \A p \in Parent[t] : Filled(p)
  /\ lost = {}
  /\ stage = [w \in Writer |-> "begin"]
  /\ touched = [w \in Writer |-> {}]
  /\ down = "idle"
  /\ next = 1
  /\ held = {}

\* A statement of w on the tables ts: none is locked by the migration.
Touch(w, ts) == /\ ts \subseteq exists
                /\ ts \cap held = {}
                /\ touched' = [touched EXCEPT ![w] = @ \cup ts]

Move(w, s) == stage' = [stage EXCEPT ![w] = s]

End(w) == /\ Move(w, "done")
          /\ touched' = [touched EXCEPT ![w] = {}]

\* The row the new one will refer to is read first (SELECT ... FOR UPDATE).
ReadParent(w) ==
  /\ stage[w] = "begin"
  /\ \A p \in Parent[Target[w]] : Filled(p)
  /\ Touch(w, Parent[Target[w]])
  /\ Move(w, "insert")
  /\ UNCHANGED <<data, migrate>>

\* It is not there (NOT_FOUND), or the table is gone.
NoParent(w) ==
  /\ stage[w] = "begin"
  /\ Parent[Target[w]] \cap held = {}
  /\ \E p \in Parent[Target[w]] : p \notin exists \/ ~Filled(p)
  /\ End(w)
  /\ UNCHANGED <<data, migrate>>

Insert(w) ==
  /\ stage[w] = "insert"
  /\ Touch(w, {Target[w]})
  /\ Move(w, "commit")
  /\ UNCHANGED <<data, migrate>>

Commit(w) ==
  /\ stage[w] = "commit"
  /\ rows' = rows \cup {[table |-> Target[w], by |-> w]}
  /\ End(w)
  /\ UNCHANGED <<exists, lost, migrate>>

\* Mutant: the catch block forgets ROLLBACK, the client keeps its locks.
Abort_NoRollback(w) ==
  /\ stage[w] # "done"
  /\ Move(w, "done")
  /\ UNCHANGED <<data, touched, migrate>>

\* The session fails, as it must when its table is gone.
Abort(w) ==
  /\ stage[w] # "done"
  /\ End(w)
  /\ UNCHANGED <<data, migrate>>

-----------------------------------------------------------------------------
\* An operator runs migrate:down, again if it failed.
Start ==
  /\ down \in {"idle", "failed"}
  /\ exists = Table
  /\ down' = "guard"
  /\ next' = 1
  /\ UNCHANGED <<data, session, held>>

Rollback == /\ down' = "failed"
            /\ next' = 1
            /\ held' = {}

\* Mutant: only the first table is guarded.
Guard_FirstOnly ==
  /\ down = "guard"
  /\ \/ /\ ~Filled(DropOrder[next]) \/ next > 1
        /\ down' = "drop"
        /\ UNCHANGED <<next, held>>
     \/ Filled(DropOrder[next]) /\ next = 1 /\ Rollback
  /\ UNCHANGED <<data, session>>

\* IF EXISTS (SELECT 1 ...) THEN RAISE EXCEPTION.
Guard ==
  /\ down = "guard"
  /\ \/ ~Filled(DropOrder[next]) /\ down' = "drop" /\ UNCHANGED <<next, held>>
     \/ Filled(DropOrder[next]) /\ Rollback
  /\ UNCHANGED <<data, session>>

\* The next table DROP needs a lock on: its own, then those it references.
Wanted(t) == IF t \notin held THEN {t} ELSE Parent[t] \ held

TakeLock ==
  /\ down = "drop"
  /\ \E t \in Wanted(DropOrder[next]) :
       /\ \A w \in Writer : t \notin touched[w]
       /\ held' = held \cup {t}
  /\ UNCHANGED <<data, session, down, next>>

AfterDrop == /\ next' = next + 1
             /\ down' = IF next = Len(DropOrder) THEN "commit" ELSE "guard"

\* Mutant: without --single-transaction, a DROP is final by itself.
Drop_Autocommit ==
  /\ down = "drop"
  /\ Wanted(DropOrder[next]) = {}
  /\ exists' = exists \ {DropOrder[next]}
  /\ lost' = lost \cup {row \in rows : row.table = DropOrder[next]}
  /\ rows' = {row \in rows : row.table # DropOrder[next]}
  /\ AfterDrop
  /\ held' = {}
  /\ UNCHANGED session

\* Nobody else sees the table go before the commit.
Drop ==
  /\ down = "drop"
  /\ Wanted(DropOrder[next]) = {}
  /\ AfterDrop
  /\ UNCHANGED <<data, session, held>>

Dropped == {DropOrder[i] : i \in 1 .. next - 1}

\* Mutant: the status of a killed process (null) is not looked at.
CommitDown_NullStatus ==
  /\ down = "commit"
  /\ exists' = exists \ Dropped
  /\ lost' = lost \cup {row \in rows : row.table \in Dropped}
  /\ rows' = {row \in rows : row.table \notin Dropped}
  /\ down' \in {"ok", "null"}
  /\ held' = {}
  /\ UNCHANGED <<session, next>>

\* COMMIT; the process may be killed before it can say so.
CommitDown ==
  /\ down = "commit"
  /\ exists' = exists \ Dropped
  /\ lost' = lost \cup {row \in rows : row.table \in Dropped}
  /\ rows' = {row \in rows : row.table \notin Dropped}
  /\ down' \in {"ok", "failed"}
  /\ held' = {}
  /\ UNCHANGED <<session, next>>

\* A statement fails or the process is killed.
FailDown ==
  /\ down \in {"guard", "drop", "commit"}
  /\ Rollback
  /\ UNCHANGED <<data, session>>

\* deadlock_timeout: w waits for the migration and the migration for w.
WaitsFor(w) == \/ stage[w] = "begin" /\ Parent[Target[w]] \cap held # {}
               \/ stage[w] = "insert" /\ Target[w] \in held

Victim(w) ==
  /\ down = "drop"
  /\ WaitsFor(w)
  /\ Wanted(DropOrder[next]) \cap touched[w] # {}
  /\ \/ End(w) /\ UNCHANGED <<data, migrate>>
     \/ Rollback /\ UNCHANGED <<data, session>>

-----------------------------------------------------------------------------
Serve(w) == ReadParent(w) \/ NoParent(w) \/ Insert(w) \/ Commit(w)
Migrate == Guard \/ TakeLock \/ Drop \/ CommitDown

Finished == /\ \A w \in Writer : stage[w] = "done"
            /\ down = "ok" \/ exists # Table
            /\ UNCHANGED vars

Next == \/ \E w \in Writer : Serve(w) \/ Abort(w) \/ Victim(w)
        \/ Start \/ Migrate \/ FailDown
        \/ Finished

Spec == Init /\ [][Next]_vars

\* Statements that do not wait end, and the deadlock detector runs.
Fairness == /\ WF_vars(Migrate)
            /\ \A w \in Writer : WF_vars(Serve(w) \/ Victim(w))
FairSpec == Spec /\ Fairness

-----------------------------------------------------------------------------
\* The comment above every guard (20260807165122:44-46): the guards "are what
\* actually enforce the rollback_notes' 'only while empty' rule", so no
\* committed row ever goes with its table.
OnlyWhileEmpty == lost = {}

\* When is that so?  A guard sees every row of its table that can ever commit
\* if an earlier DROP has locked the table already (it referenced it); and the
\* guard of a table that is referenced, looking later, sees the rows of the
\* referencing one, too.  The QR and the collection tables are ordered so.
LockedByThen(i) ==
  \E j \in DOMAIN DropOrder : j < i /\ DropOrder[i] \in Parent[DropOrder[j]]
GuardsSeeEveryRow ==
  \A i \in DOMAIN DropOrder :
    \/ LockedByThen(i)
    \/ \E j \in DOMAIN DropOrder : i < j /\ DropOrder[j] \in Parent[DropOrder[i]]

\* A down half that fails, at whichever of its guards or DROPs, leaves every
\* table of the migration in place (down.mjs:33, --single-transaction).
AllOrNothing == exists \in {Table, {}}

\* migrate:down ends, one way or the other: no session keeps it waiting for
\* ever, not even the one that reads the referenced table first.
DownEnds == down = "guard" ~> down \in {"ok", "failed"}
=============================================================================
