---------------------------- MODULE MigrationRun ----------------------------
(***************************************************************************)
(* migrate:up, migrate:down and migrate:redo (scripts/migrate/up.mjs,      *)
(* down.mjs, redo.mjs) beside runs of migrate:create.  A command validates *)
(* migrations/ and then has node-pg-migrate do the work, which reads       *)
(* migrations/ again.  node-pg-migrate is external; it is modelled by the  *)
(* options it is given: --lock (it fails if another run holds the lock),   *)
(* --check-order (the applied migrations are the first of the files) and   *)
(* --single-transaction.  redo is two such processes, one after the other. *)
(***************************************************************************)
EXTENDS MigrationCreate

CONSTANTS Runner,    \* runs of migrate:up, migrate:down and migrate:redo
          Command,   \* what they may be
          Stray,     \* entries of migrations/ that are no migrations
          SlugRank,  \* the order of the slugs
          Free       \* no runner

ASSUME RunAssumption == /\ Command \subseteq {"up", "dry run", "down", "redo"}
                        /\ Stray \subseteq DOMAIN StrayCode
                        /\ SlugRank \in [Slug -> Nat]
                        /\ IsInjective(SlugRank)
                        /\ Free \notin Runner

VARIABLES command,      \* what each runner is
          at,           \* where it is
          action,       \* what its node-pg-migrate does, "up" or "down"
          plan,         \* the migrations that one is going to apply or revert
          exit,         \* how that one ended
          report,       \* what the runner printed
          unseen,       \* the files it has validated and not seen applied
          lock,         \* the runner whose process holds the advisory lock
          pgmigrations  \* the applied migrations

runVars == <<command, at, action, plan, exit, report, unseen, lock, pgmigrations>>
vars == <<createVars, runVars>>

TypeOK ==
  /\ CreateTypeOK
  /\ command \in [Runner -> Command]
  /\ at \in [Runner -> {"start", "spawn", "loaded", "exited", "done"}]
  /\ action \in [Runner -> {"up", "down"}]
  /\ plan \in [Runner -> Seq(files)]
  /\ exit \in [Runner -> {"none", "0", "1", "killed"}]
  /\ report \in [Runner -> {"none", "INVALID", "REFUSED", "PASS", "FAIL",
                            "MIG031", "MIG035"}]
  /\ unseen \in [Runner -> SUBSET files]
  /\ lock \in Runner \cup {Free}
  /\ pgmigrations \in Seq(files)

-----------------------------------------------------------------------------
Init ==
  /\ CreateInit
  /\ command \in [Runner -> Command]
  /\ at = [d \in Runner |-> "start"]
  /\ action = [d \in Runner |-> IF command[d] \in {"down", "redo"}
                                THEN "down" ELSE "up"]
  /\ plan = [d \in Runner |-> <<>>]
  /\ exit = [d \in Runner |-> "none"]
  /\ report = [d \in Runner |-> "none"]
  /\ unseen = [d \in Runner |-> {}]
  /\ lock = Free
  /\ pgmigrations = <<>>

Move(d, place) == at' = [at EXCEPT ![d] = place]

Report(d, line) == /\ Move(d, "done")
                   /\ report' = [report EXCEPT ![d] = line]

\* main(): the directory is validated before the CLI is looked at.
Check(d) ==
  /\ at[d] = "start"
  /\ \/ /\ ValidateDirectory(files, Stray) = {}
        /\ Move(d, "spawn")
        /\ unseen' = [unseen EXCEPT ![d] = files]
        /\ UNCHANGED report
     \/ /\ ValidateDirectory(files, Stray) # {}
        /\ Report(d, "INVALID")
        /\ UNCHANGED unseen
  /\ UNCHANGED <<createVars, command, action, plan, exit, lock, pgmigrations>>

\* DATABASE_URL is not set, or resolveVerifiedCli finds no genuine CLI.
RefuseRun(d) ==
  /\ at[d] = "start"
  /\ Report(d, "REFUSED")
  /\ UNCHANGED <<createVars, command, action, plan, exit, unseen, lock,
                 pgmigrations>>

Exit(d, how) == /\ Move(d, "exited")
                /\ exit' = [exit EXCEPT ![d] = how]

Before(f, g) == \/ f.prefix < g.prefix
                \/ f.prefix = g.prefix /\ SlugRank[f.slug] < SlugRank[g.slug]

\* The order in which node-pg-migrate takes migration files: that of their
\* names.  Names differ, so there is one way to sort them.
Sortings(S) ==
  {s \in [1 .. Cardinality(S) -> S] :
     /\ ToSet(s) = S
     /\ \A i, j \in DOMAIN s : i < j => Before(s[i], s[j])}

InOrder ==
  \E sorted \in Sortings(files) :
    \A i \in DOMAIN pgmigrations : pgmigrations[i] = sorted[i]

\* Mutant: no command is given a count.
Counted_Never(d) == FALSE

\* Mutant: up is given the count of redo's second half.
Counted_Always(d) == TRUE

\* "down 1", and "up 1" for the second half of redo.
Counted(d) == action[d] = "down" \/ command[d] = "redo"

First(s) == IF s = <<>> THEN <<>> ELSE <<Head(s)>>

\* The migrations the CLI is going to revert or to apply.
Plans(d) ==
  LET todo == IF action[d] = "down" THEN {Reverse(pgmigrations)}
              ELSE Sortings(files \ ToSet(pgmigrations))
  IN CASE command[d] = "dry run" -> {<<>>}
       [] Counted(d)             -> {First(s) : s \in todo}
       [] OTHER                  -> todo

\* Mutant: without --check-order.
Load_AnyOrder(d) ==
  /\ at[d] = "spawn"
  /\ lock = Free
  /\ lock' = d
  /\ \E migrations \in Plans(d) : plan' = [plan EXCEPT ![d] = migrations]
  /\ Move(d, "loaded")
  /\ UNCHANGED <<createVars, command, action, exit, report, unseen, pgmigrations>>

\* The process takes the lock and reads the files and the applied migrations.
Load(d) ==
  /\ at[d] = "spawn"
  /\ lock = Free
  /\ InOrder
  /\ lock' = d
  /\ \E migrations \in Plans(d) : plan' = [plan EXCEPT ![d] = migrations]
  /\ Move(d, "loaded")
  /\ UNCHANGED <<createVars, command, action, exit, report, unseen, pgmigrations>>

\* The lock is taken, or a file precedes an applied migration.
LoadFails(d) ==
  /\ at[d] = "spawn"
  /\ lock # Free \/ ~InOrder
  /\ Exit(d, "1")
  /\ UNCHANGED <<createVars, command, action, plan, report, unseen, lock,
                 pgmigrations>>

\* COMMIT.  The process may be killed before it can exit.
Commit(d) ==
  /\ at[d] = "loaded"
  /\ pgmigrations' = IF action[d] = "up" THEN pgmigrations \o plan[d]
                     ELSE SubSeq(pgmigrations, 1, Len(pgmigrations) - Len(plan[d]))
  /\ unseen' = [unseen EXCEPT ![d] = @ \ ToSet(pgmigrations')]
  /\ lock' = Free
  /\ \E how \in {"0", "killed"} : Exit(d, how)
  /\ UNCHANGED <<createVars, command, action, plan, report>>

\* A statement fails or the process is killed; the transaction is rolled back.
RunFails(d) ==
  /\ at[d] = "loaded"
  /\ lock' = Free
  /\ \E how \in {"1", "killed"} : Exit(d, how)
  /\ UNCHANGED <<createVars, command, action, plan, report, unseen, pgmigrations>>

\* The wrapper has the status of its process; isCommandExecutionFailure.
Conclude(d) ==
  /\ at[d] = "exited"
  /\ \/ /\ command[d] # "redo" \/ action[d] = "up"
        /\ exit[d] = "0"
        /\ Report(d, "PASS")
     \/ command[d] = "redo" /\ action[d] = "up" /\ exit[d] # "0" /\ Report(d, "MIG035")
     \/ /\ command[d] # "redo" \/ action[d] = "down"
        /\ \/ exit[d] = "1" /\ Report(d, "FAIL")
           \/ exit[d] = "killed" /\ Report(d, "MIG031")
  /\ UNCHANGED <<createVars, command, action, plan, exit, unseen, lock,
                 pgmigrations>>

\* The first half of redo exited with 0: the second is started.
RedoUp(d) ==
  /\ at[d] = "exited"
  /\ command[d] = "redo" /\ action[d] = "down" /\ exit[d] = "0"
  /\ action' = [action EXCEPT ![d] = "up"]
  /\ Move(d, "spawn")
  /\ UNCHANGED <<createVars, command, plan, exit, report, unseen, lock,
                 pgmigrations>>

Migrate(d) == \/ Check(d) \/ RefuseRun(d) \/ Load(d) \/ LoadFails(d)
              \/ Commit(d) \/ RunFails(d) \/ Conclude(d) \/ RedoUp(d)

Next == \/ CreateNext /\ UNCHANGED runVars
        \/ \E d \in Runner : Migrate(d)

Spec == Init /\ [][Next]_vars

-----------------------------------------------------------------------------
\* "Migration filenames encode a strictly monotonic ... ordering key"
\* (migrations/README.md, 6): the migrations were applied in the order of their
\* names, although a slow migrate:create may place an older file late.
AppliedInOrder ==
  \A i, j \in DOMAIN pgmigrations :
    i < j => Before(pgmigrations[i], pgmigrations[j])

\* No migration reaches the database that the validator has not passed, even
\* one that was placed between the validation and the second reading.
AppliedIsValid ==
  \A i \in DOMAIN pgmigrations :
    ValidateMigrationBody(pgmigrations[i].body) = {}

\* migrate:up says PASS only if every migration that was there when it started
\* was applied by the time its transaction ended.
UpAppliesAll ==
  \A d \in Runner :
    command[d] = "up" /\ report[d] = "PASS" => unseen[d] = {}

\* "Rolls back exactly one migration" (down.mjs:2) and "Reverts exactly one
\* migration, then reapplies it" (migrations/README.md, 3): no step takes away
\* more than the last applied migration, and no step of a redo adds more than
\* one, although files may be there that nobody has applied yet.
OneAtATime ==
  [][/\ \/ IsPrefix(pgmigrations, pgmigrations')
        \/ pgmigrations' = Front(pgmigrations)
     /\ \A d \in Runner : command[d] = "redo" /\ at'[d] # at[d] =>
          Len(pgmigrations') <= Len(pgmigrations) + 1]_vars
=============================================================================
