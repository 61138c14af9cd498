---------------------------- MODULE MigrationFile ----------------------------
(***************************************************************************)
(* The content of a migration file and what the validator says of it       *)
(* (scripts/migrate/lib/header-parser.mjs, validator.mjs).  A file is a    *)
(* sequence of lines; a line is what the parser takes it for, and the      *)
(* value of a header field one of the kinds the validator tells apart.     *)
(* Values have no line breaks.                                             *)
(***************************************************************************)
EXTENDS Naturals, Sequences, SequencesExt

HeaderField == {"owning_context", "description", "rollback_notes",
                "forward_fix_notes"}

\* A name of the allowlist, another word of [a-z_]+, any other text, nothing,
\* a placeholder ("tbd" stands for those that are words of [a-z_]+), and
\* "not_applicable:" with no reason.
Value == {"platform", "unlisted", "text", "blank", "n/a", "tbd",
          "not_applicable"}
Unexplained == {"blank", "n/a", "tbd", "not_applicable"}

Line(is)   == [is |-> is, key |-> "", value |-> ""]
Up         == Line("up")        \* -- Up Migration
Down       == Line("down")      \* -- Down Migration
Comment    == Line("comment")   \* "--" and no colon
BlankLine  == Line("blank")
Sql        == Line("sql")       \* anything that does not begin with "--"
Field(k, v) == [is |-> "field", key |-> k, value |-> v]  \* -- k: v

IsHeader(line) == line.is = "field" /\ line.key \in HeaderField

-----------------------------------------------------------------------------
\* What the line says that is no header field, or one for the second time.
Diagnosis(line) == CASE line.is # "field"                                   -> "MIG008"
                     [] line.is = "field" /\ line.key \notin HeaderField     -> "MIG010"
                     [] line.is = "field" /\ line.key \in HeaderField        -> "MIG009"

IsComplete(acc) == DOMAIN acc.fields = HeaderField

\* Mutant: the block ends with the fourth field.
EndsBlock_AtFour(acc, line) == line.is \in {"up", "sql"} \/ IsComplete(acc)

\* A header field that comes too often does not end the block.
EndsBlock(acc, line) ==
  line.is \in {"up", "sql"} \/ (IsComplete(acc) /\ ~IsHeader(line))

\* One turn of the loop of parseHeaderFields.
ParseLine(acc, line) ==
  IF acc.ended \/ line.is = "blank" THEN acc
  ELSE IF EndsBlock(acc, line) THEN [acc EXCEPT !.ended = TRUE]
  ELSE IF IsHeader(line) /\ line.key \notin DOMAIN acc.fields
       THEN [acc EXCEPT !.fields = [k \in DOMAIN @ \cup {line.key} |->
                                      IF k = line.key THEN line.value ELSE @[k]]]
       ELSE [acc EXCEPT !.codes = @ \cup {Diagnosis(line)}]

\* What the loop knows after each line, and at its end.
HeaderLoop(lines) ==
  LET after[n \in 0 .. Len(lines)] ==
        IF n = 0 THEN [fields |-> <<>>, codes |-> {}, ended |-> FALSE]
                 ELSE ParseLine(after[n - 1], lines[n])
  IN after

ParseHeaderFields(lines) == HeaderLoop(lines)[Len(lines)]

\* The first line of a kind, 0 if there is none.
FirstLine(lines, is) ==
  LET at == {i \in DOMAIN lines : lines[i].is = is}
  IN IF at = {} THEN 0 ELSE CHOOSE i \in at : \A j \in at : i <= j

MarkerCodes(lines) ==
  LET up == FirstLine(lines, "up")
      down == FirstLine(lines, "down")
  IN {c \in {"MIG017"} : up = 0} \cup {c \in {"MIG018"} : down = 0}
       \cup {c \in {"MIG019"} : 0 < down /\ down < up}

\* The value of a field, "blank" if it is missing.
ValueOf(fields, k) == IF k \in DOMAIN fields THEN fields[k] ELSE "blank"

ContextCodes(fields) ==
  IF "owning_context" \notin DOMAIN fields THEN {"MIG011"}
  ELSE CASE fields["owning_context"] = "platform"            -> {}
         [] fields["owning_context"] \in {"unlisted", "tbd"} -> {"MIG013"}
         [] OTHER                                            -> {"MIG012"}

NotesCodes(fields, k, code) ==
  {c \in {code} : ValueOf(fields, k) \in Unexplained}

ValidateMigrationBody(lines) ==
  LET header == ParseHeaderFields(lines)
      fields == header.fields
  IN header.codes
       \cup ContextCodes(fields)
       \cup {c \in {"MIG014"} : ValueOf(fields, "description") = "blank"}
       \cup NotesCodes(fields, "rollback_notes", "MIG015")
       \cup NotesCodes(fields, "forward_fix_notes", "MIG016")
       \cup MarkerCodes(lines)

-----------------------------------------------------------------------------
\* validateMigrationsDirectory: what it says of the entries that are no
\* migrations, of each migration, and of two with one timestamp prefix.
StrayCode == ("directory" :> "MIG001") @@ ("symlink" :> "MIG002")
               @@ ("hidden" :> "MIG003") @@ ("other" :> "MIG004")
               @@ ("bad name" :> "MIG005")

ValidateDirectory(files, stray) ==
  {StrayCode[s] : s \in stray}
    \cup UNION {ValidateMigrationBody(f.body) : f \in files}
    \cup {c \in {"MIG006"} :
            \E f, g \in files : f # g /\ f.prefix = g.prefix}

\* What migrate:create makes of migrations/template.sql with the values it is
\* given, and the template as it is.
Substitute(values) ==
  <<Field("owning_context", values["owning_context"]),
    Field("description", values["description"]),
    Field("rollback_notes", values["rollback_notes"]),
    Field("forward_fix_notes", values["forward_fix_notes"]),
    Comment, BlankLine, Up, BlankLine, Down>>

Template == Substitute([k \in HeaderField |-> "text"])

-----------------------------------------------------------------------------
\* The order of the fields in HEADER_FIELDS, in the template and in
\* migrations/README.md: the first line of each comes before that of the next.
HeaderOrder == <<"owning_context", "description", "rollback_notes",
                 "forward_fix_notes">>
InHeaderOrder(lines) ==
  LET at(k) == {i \in DOMAIN lines : IsHeader(lines[i]) /\ lines[i].key = k}
  IN \A n \in 1 .. 3 : \E i \in at(HeaderOrder[n]) :
       \A j \in at(HeaderOrder[n + 1]) : i < j

\* The rules but for that order: a header of the four fields, each once, with
\* blank lines at most between them; no field again before the block ends;
\* admissible values; an up marker before the first down marker.
WellFormed(lines) ==
  \E last \in DOMAIN lines :
    /\ \A i \in 1 .. last : IsHeader(lines[i]) \/ lines[i] = BlankLine
    /\ \A k \in HeaderField :
         /\ \E i \in 1 .. last : lines[i].key = k
         /\ \A i, j \in 1 .. last :
              lines[i].key = k /\ lines[j].key = k => i = j
    /\ \A i \in last + 1 .. Len(lines) : IsHeader(lines[i]) =>
         \E j \in last + 1 .. i - 1 : ~IsHeader(lines[j]) /\ lines[j] # BlankLine
    /\ \A i \in 1 .. last :
         CASE lines[i].key = "owning_context" -> lines[i].value = "platform"
           [] lines[i].key = "description"    -> lines[i].value # "blank"
           [] OTHER -> lines[i].value \notin Unexplained
    /\ \E up, down \in DOMAIN lines :
         /\ up < down /\ lines[up] = Up /\ lines[down] = Down
         /\ \A i \in 1 .. down - 1 : lines[i] # Down
=============================================================================
