----------------------------- MODULE MCMigration -----------------------------
(***************************************************************************)
(* An instance of the migration commands for TLC: two runs of              *)
(* migrate:create beside each other, or one of them beside two other       *)
(* commands.  Where none runs, a migration file and an argument list are   *)
(* edited, element by element: the inputs over which the validator and the *)
(* parser of arguments are compared with what they are meant to accept.    *)
(***************************************************************************)
EXTENDS MigrationInput, MigrationRun, TLC

CONSTANT MaxEdits   \* bound: the edits

VARIABLES team,   \* bound: the commands that run
          edits
sample == <<edits, lines, args>>

CreateArgv(slug, context, rollback) ==
  <<Positional(slug), Flag("owning-context", context),
    Flag("description", "text"), Flag("rollback-notes", rollback),
    Flag("forward-fix-notes", "text")>>

Good     == CreateArgv("a", "platform", "text")
BadNotes == CreateArgv("a", "platform", "not_applicable")

\* Good ones with two slugs, one of them written in two ways; one with notes
\* the validator refuses, one with a slug that normalizes to nothing, one
\* without its last flag.
Argvs == {Good, BadNotes, CreateArgv("b", "platform", "text"),
          CreateArgv("A ", "platform", "text"),
          CreateArgv("!", "platform", "text"), Front(Good)}
GoodArgvs == {Good, CreateArgv("b", "platform", "text")}
Normal == "a" :> "a" @@ "A " :> "a" @@ "b" :> "b" @@ "!" :> NoSlug
Ranks == "a" :> 1 @@ "b" :> 2

\* A finished migration and the template as it is.
Hands == {Substitute([k \in HeaderField |-> "platform"]), Template}

Symmetry == Permutations(Creator) \cup Permutations(Runner)

-----------------------------------------------------------------------------
Lines == {Up, Down, Comment, BlankLine, Sql, Field("reviewed_by", "text"),
          Field("rollback_notes", "tbd"),
          Field("owning_context", "platform")}
           \cup {Field(k, "text") : k \in HeaderField}

Arguments == {Positional("b"), Positional(""), Flag("", NoValue),
              Flag("", "text"), Flag("description", NoValue),
              Flag("description", Blank), Flag("description", "text"),
              Flag("rollback-notes", "text"), Flag("verbose", NoValue),
              Flag("constructor", NoValue), Flag("constructor", "text"),
              Flag("toString", NoValue), Flag("__proto__", NoValue)}

\* What one edit makes of a sequence.
Edited(s, elements) ==
  {InsertAt(s, i, e) : i \in 1 .. Len(s) + 1, e \in elements}
    \cup {ReplaceAt(s, i, e) : i \in DOMAIN s, e \in elements}
    \cup {RemoveAt(s, i) : i \in DOMAIN s}

\* Those that run beside each other; with nobody, the samples are edited.  Who
\* does not run has fixed arguments.
Teams == {{}, Creator} \cup {{p} \cup Runner : p \in Creator}
IsTeam(t) ==
  /\ \A p \in Creator \ t : argv[p] = Good
  /\ \A d \in Runner \ t : command[d] = "up"
  /\ t # Creator => /\ \A p \in Creator : argv[p] \in {Good, BadNotes}
                    /\ \A f \in files : f.slug = "a"
  /\ t = {} => files = {}

MCInit ==
  /\ Init
  /\ team \in Teams
  /\ IsTeam(team)
  /\ edits = 0
  /\ IF team = {}
     THEN /\ lines = <<Field("owning_context", "platform"),
                       Field("description", "text"),
                       Field("rollback_notes", "text"),
                       Field("forward_fix_notes", "text"), Comment, Up, Down>>
          /\ args = Good
     ELSE lines = <<>> /\ args = <<>>

Edit ==
  /\ team = {}
  /\ edits < MaxEdits
  /\ edits' = edits + 1
  /\ \/ lines' \in Edited(lines, Lines) /\ UNCHANGED args
     \/ args' \in Edited(args, Arguments) /\ UNCHANGED lines
  /\ UNCHANGED <<vars, team>>

Run ==
  /\ team # {}
  /\ \/ /\ Tick \/ \E p \in Creator \cap team : Create(p) \/ Kill(p)
        /\ UNCHANGED runVars
     \/ \E d \in Runner \cap team : Migrate(d)
  /\ UNCHANGED <<sample, team>>

MCNext == Edit \/ Run

MCSpec == MCInit /\ [][MCNext]_<<vars, sample, team>>
=============================================================================
