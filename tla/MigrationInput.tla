--------------------------- MODULE MigrationInput ---------------------------
(***************************************************************************)
(* What the validator of migration files and the parser of arguments are   *)
(* meant to accept, said of a file and an argument list of any content.    *)
(***************************************************************************)
EXTENDS MigrationCreate

VARIABLES lines,  \* the lines of a migration file
          args    \* the arguments of a migrate:create

FileLine == {Up, Down, Comment, BlankLine, Sql}
              \cup [is : {"field"}, key : STRING, value : Value]
Argument == [is : {"positional", "flag"}, flag : STRING, value : STRING]

\* parseHeaderFields and validateMigrationBody (header-parser.mjs:12-72,
\* validator.mjs:56-122), which go through a file line by line, accept the
\* files that WellFormed describes, no more and no fewer: lines repeated,
\* missing and misplaced.  What WellFormed leaves open is the order of the
\* fields; FieldsInOrder asks for it.
ValidatorMatchesRules ==
  ValidateMigrationBody(lines) = {} <=> WellFormed(lines)

\* migrations/README.md:55-56: "Every real migration begins with exactly these
\* four fields, in this exact order".  A file that the validator accepts has
\* them so.
FieldsInOrder ==
  ValidateMigrationBody(lines) = {} => InHeaderOrder(lines)

\* parseStrictArgs (arg-parsing.mjs:6-86), which stops at the first fault,
\* accepts every list that the documented rule admits, hands on the value each
\* flag was given, and lets nothing through beyond that but unknown flags named
\* like a property of Object.prototype.  (That it should not let through, by
\* arg-parsing.mjs:1-3.)
ParsesAsWritten(list, allowed, maxPositionals, required) ==
  LET parsed == ParseStrictArgs(list, allowed, maxPositionals, required)
  IN /\ parsed.ok <=>
          \/ FitsAllowlist(list, allowed, maxPositionals, required)
          \/ FitsButForInherited(list, allowed, maxPositionals, required)
     /\ parsed.ok => \A i \in FlagAt(list) : list[i].flag \in DOMAIN allowed =>
          parsed.flags[list[i].flag] = list[i].value

\* The same of the arguments of migrate:create.
ParsedAsWritten == ParsesAsWritten(args, CreateFlags, 1, DOMAIN CreateFlags)
=============================================================================
