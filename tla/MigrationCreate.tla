--------------------------- MODULE MigrationCreate ---------------------------
(***************************************************************************)
(* migrate:create (scripts/migrate/lib/creation.mjs): processes that each  *)
(* place one new file in migrations/.  A process runs through its system   *)
(* calls in order; those of different processes interleave, any of them    *)
(* may fail, and a process may be killed between two of them.  The name of *)
(* a file is the second of its creation and a slug; its body comes from    *)
(* the template and the flags.                                             *)
(***************************************************************************)
EXTENDS MigrationArgs, MigrationFile

CONSTANTS Creator,   \* runs of migrate:create
          Argv,      \* the argument lists they may have
          Slug,      \* the normalized slugs
          NoSlug,    \* null
          NormalizeSlug,  \* what normalizeSlug makes of a slug as it is given
          Someone,   \* the author of a file that is there beforehand, made
                     \* on a machine whose clock may be ahead
          ByHand,    \* what that file may be: nothing validated it
          MaxClock   \* bound: the seconds that pass

\* Its four flags all take a value and are all required.
FlagOf == [k \in HeaderField |-> CASE k = "owning_context"    -> "owning-context"
                                   [] k = "description"       -> "description"
                                   [] k = "rollback_notes"    -> "rollback-notes"
                                   [] k = "forward_fix_notes" -> "forward-fix-notes"]
CreateFlags == [name \in {FlagOf[k] : k \in HeaderField} |-> TRUE]

CreateArgs == [a \in Argv |->
                 ParseStrictArgs(a, CreateFlags, 1, DOMAIN CreateFlags)]

\* The arguments that main() takes: one positional, the slug.
Accepted(args) == args.ok /\ Len(args.positionals) = 1

ASSUME CreateAssumption ==
  /\ Someone \notin Creator
  /\ NoSlug \notin Slug
  /\ \A given \in DOMAIN NormalizeSlug : NormalizeSlug[given] \in Slug \cup {NoSlug}
  /\ \A a \in Argv : Accepted(CreateArgs[a]) =>
                       CreateArgs[a].positionals[1] \in DOMAIN NormalizeSlug
  /\ MaxClock \in Nat

VARIABLES clock,    \* the second it is
          argv,     \* the arguments of each run
          pc,       \* the system call each run is at
          stamp,    \* the timestamp prefix each run computed
          files,    \* the directory entries of migrations/
          temp,     \* the runs that have a directory .fnd003-migrate-create-*
          outcome   \* what each run printed

createVars == <<clock, argv, pc, stamp, files, temp, outcome>>

Args(p) == CreateArgs[argv[p]]
ArgsAccepted(p) == Accepted(Args(p))
SlugOf(p) == NormalizeSlug[Args(p).positionals[1]]

\* What the template becomes.
BodyOf(p) ==
  LET flags == Args(p).flags
  IN Substitute([k \in HeaderField |-> flags[FlagOf[k]]])

\* A file that is there beforehand, or that a run has created.
FileBy(author, body) ==
  [prefix : 0 .. MaxClock, slug : Slug, by : {author}, body : body]
IsFile(f) ==
  \/ f \in FileBy(Someone, ByHand)
  \/ \E p \in Creator : ArgsAccepted(p) /\ f \in FileBy(p, {BodyOf(p)})

CreateTypeOK ==
  /\ clock \in 0 .. MaxClock
  /\ argv \in [Creator -> Argv]
  /\ pc \in [Creator -> {"clock", "scan", "mkdtemp", "write", "validate",
                         "link", "unlink", "cleanup", "done"}]
  /\ stamp \in [Creator -> 0 .. MaxClock]
  /\ \A f \in files : IsFile(f)
  /\ temp \subseteq Creator
  /\ outcome \in [Creator -> {"none", "PASS", "MIG002", "MIG030", "MIG032",
                              "MIG033", "MIG034", "INVALID", "MIG900"}]

-----------------------------------------------------------------------------
CreateInit ==
  /\ clock = 0
  /\ argv \in [Creator -> Argv]
  /\ pc = [p \in Creator |-> "clock"]
  /\ stamp = [p \in Creator |-> 0]
  /\ \/ files = {}
     \/ \E t \in 0 .. MaxClock, s \in Slug, b \in ByHand :
          files = {[prefix |-> t, slug |-> s, by |-> Someone, body |-> b]}
  /\ temp = {}
  /\ outcome = [p \in Creator |-> "none"]

Goto(p, step) == pc' = [pc EXCEPT ![p] = step]

\* The result is determined; the finally block comes next.
Return(p, result) == /\ Goto(p, "cleanup")
                     /\ outcome' = [outcome EXCEPT ![p] = result]

NewFile(p) == [prefix |-> stamp[p], slug |-> SlugOf(p), by |-> p,
               body |-> BodyOf(p)]
SameName(p) == {f \in files : f.prefix = stamp[p] /\ f.slug = SlugOf(p)}

-----------------------------------------------------------------------------
Tick == /\ clock < MaxClock
        /\ clock' = clock + 1
        /\ UNCHANGED <<argv, pc, stamp, files, temp, outcome>>

\* The arguments, the slug or the directories are refused, in this order.
Refuse(p) ==
  /\ pc[p] = "clock"
  /\ \E code \in IF ~ArgsAccepted(p) THEN {"MIG030"}
                 ELSE IF SlugOf(p) = NoSlug THEN {"MIG032"}
                 ELSE {"MIG002", "MIG900"} :
       outcome' = [outcome EXCEPT ![p] = code]
  /\ Goto(p, "done")
  /\ UNCHANGED <<clock, argv, stamp, files, temp>>

\* computeUtcTimestamp
ReadClock(p) ==
  /\ pc[p] = "clock"
  /\ ArgsAccepted(p)
  /\ SlugOf(p) # NoSlug
  /\ stamp' = [stamp EXCEPT ![p] = clock]
  /\ Goto(p, "scan")
  /\ UNCHANGED <<clock, argv, files, temp, outcome>>

\* checkPrefixCollision: any entry with the prefix, whatever its slug; or
\* reading the directory throws.  There is no temporary directory to clean up
\* yet.
Scan(p) ==
  /\ pc[p] = "scan"
  /\ \/ /\ \A f \in files : f.prefix # stamp[p]
        /\ Goto(p, "mkdtemp")
        /\ UNCHANGED outcome
     \/ /\ \E f \in files : f.prefix = stamp[p]
        /\ Goto(p, "done")
        /\ outcome' = [outcome EXCEPT ![p] = "MIG033"]
     \/ Goto(p, "done") /\ outcome' = [outcome EXCEPT ![p] = "MIG900"]
  /\ UNCHANGED <<clock, argv, stamp, files, temp>>

MakeTemp(p) ==
  /\ pc[p] = "mkdtemp"
  /\ \/ temp' = temp \cup {p} /\ Goto(p, "write") /\ UNCHANGED outcome
     \/ /\ Goto(p, "done")
        /\ outcome' = [outcome EXCEPT ![p] = "MIG900"]
        /\ UNCHANGED temp
  /\ UNCHANGED <<clock, argv, stamp, files>>

\* Mutant: the file is written where it belongs and validated there.
WriteTemp_InPlace(p) ==
  /\ pc[p] = "write"
  /\ SameName(p) = {}
  /\ files' = files \cup {NewFile(p)}
  /\ Goto(p, "validate")
  /\ UNCHANGED <<clock, argv, stamp, temp, outcome>>

\* The template is filled in and written into the temporary directory.
WriteTemp(p) ==
  /\ pc[p] = "write"
  /\ Goto(p, "validate")
  /\ UNCHANGED <<clock, argv, stamp, files, temp, outcome>>

\* validateFilename and validateMigrationBody
Validate(p) ==
  /\ pc[p] = "validate"
  /\ LET valid == ValidateMigrationBody(BodyOf(p)) = {}
     IN \/ valid /\ Goto(p, "link") /\ UNCHANGED outcome
        \/ ~valid /\ Return(p, "INVALID")
  /\ UNCHANGED <<clock, argv, stamp, files, temp>>

\* Mutant: rename(2), which replaces the file of that name.
Link_Rename(p) ==
  /\ pc[p] = "link"
  /\ files' = (files \ SameName(p)) \cup {NewFile(p)}
  /\ Goto(p, "unlink")
  /\ UNCHANGED <<clock, argv, stamp, temp, outcome>>

\* Mutant: every error of link(2) is reported as a collision.
Link_AnyError(p) ==
  /\ pc[p] = "link"
  /\ \/ /\ SameName(p) = {}
        /\ files' = files \cup {NewFile(p)}
        /\ Goto(p, "unlink")
        /\ UNCHANGED outcome
     \/ Return(p, "MIG033") /\ UNCHANGED files
  /\ UNCHANGED <<clock, argv, stamp, temp>>

\* linkSync: EEXIST if there is a file of that very name.
Link(p) ==
  /\ pc[p] = "link"
  /\ \/ /\ SameName(p) = {}
        /\ files' = files \cup {NewFile(p)}
        /\ Goto(p, "unlink")
        /\ UNCHANGED outcome
     \/ SameName(p) # {} /\ Return(p, "MIG033") /\ UNCHANGED files
     \/ Return(p, "MIG034") /\ UNCHANGED files
  /\ UNCHANGED <<clock, argv, stamp, temp>>

\* Mutant: the final name is unlinked instead of the temporary one.
Unlink_FinalName(p) ==
  /\ pc[p] = "unlink"
  /\ files' = files \ {NewFile(p)}
  /\ Return(p, "PASS")
  /\ UNCHANGED <<clock, argv, stamp, temp>>

\* unlinkSync of the temporary name; an error falls into the catch block.
Unlink(p) ==
  /\ pc[p] = "unlink"
  /\ \E result \in {"PASS", "MIG900"} : Return(p, result)
  /\ UNCHANGED <<clock, argv, stamp, files, temp>>

\* Reading the template or writing the temporary file throws.
Fail(p) ==
  /\ pc[p] \in {"write", "validate"}
  /\ Return(p, "MIG900")
  /\ UNCHANGED <<clock, argv, stamp, files, temp>>

\* rmSync, whose errors are ignored.
Cleanup(p) ==
  /\ pc[p] = "cleanup"
  /\ temp' \in {temp \ {p}, temp}
  /\ Goto(p, "done")
  /\ UNCHANGED <<clock, argv, stamp, files, outcome>>

\* The process is killed: it cleans nothing up and prints nothing.
Kill(p) ==
  /\ pc[p] # "done"
  /\ Goto(p, "done")
  /\ outcome' = [outcome EXCEPT ![p] = "none"]
  /\ UNCHANGED <<clock, argv, stamp, files, temp>>

Create(p) == \/ Refuse(p) \/ ReadClock(p) \/ Scan(p) \/ MakeTemp(p) \/ WriteTemp(p)
             \/ Validate(p) \/ Link(p) \/ Unlink(p) \/ Fail(p) \/ Cleanup(p)

CreateNext == Tick \/ \E p \in Creator : Create(p) \/ Kill(p)

CreateSpec == CreateInit /\ [][CreateNext]_createVars

-----------------------------------------------------------------------------
\* "Never deletes, truncates, overwrites, or renames an existing migration
\* file" (creation.mjs:5-6), seen by the user: whoever was told PASS finds the
\* file it created under its name for good, however many runs took the same
\* second and slug.
CreatedIsKept ==
  \A p \in Creator : outcome[p] = "PASS" => SameName(p) = {NewFile(p)}

\* A run that reports a collision left nothing behind in migrations/, and
\* there is another file with its prefix.
CollisionIsReal ==
  \A p \in Creator : outcome[p] = "MIG033" =>
    /\ \A f \in files : f.by # p
    /\ \E f \in files : f.prefix = stamp[p]

\* creation.mjs:94-95, "The uniqueness key is the prefix, not the full
\* filename": no two files share a prefix.  If two do, the validator reports
\* MIG006_DUPLICATE_SEQUENCE from then on, to every migrate command.
PrefixIsUnique == \A f, g \in files : f.prefix = g.prefix => f = g
=============================================================================
