---------------------------- MODULE MigrationArgs ----------------------------
(***************************************************************************)
(* parseStrictArgs (scripts/migrate/lib/arg-parsing.mjs): the argument     *)
(* parser of every migrate:* command.  An argument is a positional or a    *)
(* flag, "--name" or "--name=value"; the name may be empty.  The flags a   *)
(* command allows are a function from their names to whether they take a   *)
(* value.                                                                  *)
(***************************************************************************)
EXTENDS Naturals, Sequences, SequencesExt

NoValue == "(no value)"
Blank   == "(blank)"

Positional(v)     == [is |-> "positional", flag |-> "", value |-> v]
Flag(name, value) == [is |-> "flag", flag |-> name, value |-> value]

\* The properties of Object.prototype.  allowedFlags is an object literal and
\* allowedFlags[flagName] finds them, too; none of them has a takesValue.
Inherited == {"constructor", "toString", "toLocaleString", "valueOf",
              "hasOwnProperty", "isPrototypeOf", "propertyIsEnumerable",
              "__proto__", "__defineGetter__", "__defineSetter__",
              "__lookupGetter__", "__lookupSetter__"}

IsKnown(allowed, name) == name \in DOMAIN allowed \cup Inherited
TakesValue(allowed, name) == name \in DOMAIN allowed /\ allowed[name]

Parsed(positionals, flags, seen) ==
  [ok |-> TRUE, positionals |-> positionals, flags |-> flags, seen |-> seen]
Rejected == [ok |-> FALSE, positionals |-> <<>>, flags |-> <<>>, seen |-> {}]

\* Mutant: a flag may be repeated, and the last one counts.
IsFlagValid_NotSeen(allowed, seen, arg) ==
  /\ IsKnown(allowed, arg.flag)
  /\ IF TakesValue(allowed, arg.flag) THEN arg.value \notin {NoValue, Blank}
                                      ELSE arg.value = NoValue

\* The checks on one flag, given those before it.
IsFlagValid(allowed, seen, arg) ==
  /\ IsKnown(allowed, arg.flag)
  /\ arg.flag \notin seen
  /\ IF TakesValue(allowed, arg.flag) THEN arg.value \notin {NoValue, Blank}
                                      ELSE arg.value = NoValue

\* Assigning true to __proto__ leaves no property behind.
SetFlag(flags, arg) ==
  [f \in DOMAIN flags \cup ({arg.flag} \ {"__proto__"}) |->
     IF f = arg.flag THEN arg.value ELSE flags[f]]

\* One turn of the loop over argv.
ParseArg(allowed, acc, arg) ==
  IF ~acc.ok THEN acc
  ELSE IF arg.is = "positional"
       THEN Parsed(Append(acc.positionals, arg.value), acc.flags, acc.seen)
  ELSE IF IsFlagValid(allowed, acc.seen, arg)
       THEN Parsed(acc.positionals, SetFlag(acc.flags, arg),
                   acc.seen \cup {arg.flag})
  ELSE Rejected

\* What the loop has after each argument.
ArgLoop(argv, allowed) ==
  LET after[n \in 0 .. Len(argv)] ==
        IF n = 0 THEN Parsed(<<>>, <<>>, {})
                 ELSE ParseArg(allowed, after[n - 1], argv[n])
  IN after

ParseStrictArgs(argv, allowed, maxPositionals, required) ==
  LET acc == ArgLoop(argv, allowed)[Len(argv)]
  IN IF /\ acc.ok
        /\ Len(acc.positionals) <= maxPositionals
        /\ required \subseteq acc.seen
     THEN acc ELSE Rejected

-----------------------------------------------------------------------------
\* The rule, said of the list as a whole: no flag comes twice, none that is
\* required is missing, there are no positionals beyond the maximum, and a flag
\* of the allowlist has a value if and only if it takes one.
FlagAt(argv) == {i \in DOMAIN argv : argv[i].is = "flag"}
Names(argv)  == {argv[i].flag : i \in FlagAt(argv)}

FitsOtherwise(argv, allowed, maxPositionals, required) ==
  /\ required \subseteq Names(argv)
  /\ Cardinality(Names(argv)) = Cardinality(FlagAt(argv))
  /\ Len(argv) - Cardinality(FlagAt(argv)) <= maxPositionals
  /\ \A i \in FlagAt(argv) : argv[i].flag \in DOMAIN allowed =>
       IF allowed[argv[i].flag] THEN argv[i].value \notin {NoValue, Blank}
                                ELSE argv[i].value = NoValue

\* "Rejects unknown flags, duplicate flags, missing values, extra positionals,
\* and empty values" (arg-parsing.mjs:1-3).
FitsAllowlist(argv, allowed, maxPositionals, required) ==
  /\ FitsOtherwise(argv, allowed, maxPositionals, required)
  /\ Names(argv) \subseteq DOMAIN allowed

\* What the parser lets through beyond that: a list with unknown flags, each
\* named like a property of Object.prototype and without a value.
FitsButForInherited(argv, allowed, maxPositionals, required) ==
  /\ FitsOtherwise(argv, allowed, maxPositionals, required)
  /\ ~(Names(argv) \subseteq DOMAIN allowed)
  /\ \A i \in FlagAt(argv) : argv[i].flag \notin DOMAIN allowed =>
       argv[i].flag \in Inherited /\ argv[i].value = NoValue
=============================================================================
