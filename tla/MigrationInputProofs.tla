------------------------ MODULE MigrationInputProofs ------------------------
(***************************************************************************)
(* The validator of migration files and the parser of arguments accept     *)
(* exactly what they are meant to, for files and argument lists of any     *)
(* length.  Both are loops over a sequence; the proofs are inductions over *)
(* its length, put as facts about sets of numbers.                         *)
(***************************************************************************)
EXTENDS MigrationInput, FiniteSetTheorems, WellFoundedInduction, TLAPS

\* A set of numbers that is not empty has a least element, because < is well
\* founded;
LEMMA LeastNumber ==
  ASSUME NEW T, T \subseteq Nat, T # {}
  PROVE  \E x \in T : \A y \in T : x <= y
<1>1. PICK x \in T : \A y \in T : ~ (<<y, x>> \in OpToRel(<, Nat))
  BY NatLessThanWellFounded, WFMin
<1>2. \A y \in T : ~ (y < x)
  BY <1>1 DEF OpToRel
<1> QED
  BY <1>2

\* so that a set with 0 and the successor of each of its numbers has them all.
LEMMA AllNumbers ==
  ASSUME NEW S, 0 \in S, \A n \in Nat : n \in S => n + 1 \in S
  PROVE  Nat \subseteq S
<1> DEFINE T == Nat \ S
<1> SUFFICES ASSUME T # {}
             PROVE  FALSE
  OBVIOUS
<1>1. T \subseteq Nat
  OBVIOUS
<1> HIDE DEF T
<1>2. PICK x \in T : \A y \in T : x <= y
  BY <1>1, LeastNumber
<1> USE DEF T
<1>3. x # 0 /\ x - 1 \in Nat /\ ~ (x <= x - 1)
  BY <1>2
<1>4. x - 1 \in S
  BY <1>2, <1>3
<1> QED
  BY <1>3, <1>4

\* The same for the numbers from m to n.
LEMMA UpTo ==
  ASSUME NEW m \in Nat, NEW n \in Nat, NEW S, m \in S,
         \A i \in m .. n - 1 : i \in S => i + 1 \in S
  PROVE  m .. n \subseteq S
<1> DEFINE T == {i \in Nat : m + i <= n => m + i \in S}
<1>1. 0 \in T
  OBVIOUS
<1>2. ASSUME NEW i \in Nat, i \in T
      PROVE  i + 1 \in T
  BY <1>2
<1> HIDE DEF T
<1>3. Nat \subseteq T
  BY <1>1, <1>2, AllNumbers
<1>4. ASSUME NEW j \in m .. n
      PROVE  j \in S
  <2>1. j - m \in T
    BY <1>3
  <2> QED
    BY <2>1 DEF T
<1> QED
  BY <1>4

-----------------------------------------------------------------------------
(***************************************************************************)
(* The loop of parseHeaderFields.                                          *)
(***************************************************************************)

FirstAcc == [fields |-> <<>>, codes |-> {}, ended |-> FALSE]

\* The recursion has a solution, which HeaderLoop is therefore.
LEMMA HeaderLoopSteps ==
  ASSUME NEW file, Len(file) \in Nat
  PROVE  /\ HeaderLoop(file)[0] = FirstAcc
         /\ \A n \in 1 .. Len(file) :
              HeaderLoop(file)[n] = ParseLine(HeaderLoop(file)[n - 1], file[n])
<1> DEFINE Fits(f, n) ==
             f = [i \in 0 .. n |-> IF i = 0 THEN FirstAcc
                                            ELSE ParseLine(f[i - 1], file[i])]
           S == {n \in Nat : \E f : Fits(f, n)}
<1>1. 0 \in S
  <2>1. Fits([i \in 0 .. 0 |-> FirstAcc], 0)
    OBVIOUS
  <2> QED
    BY <2>1
<1>2. ASSUME NEW n \in Nat, n \in S
      PROVE  n + 1 \in S
  <2>1. PICK f : Fits(f, n)
    BY <1>2
  <2> DEFINE g == [i \in 0 .. n + 1 |-> IF i <= n THEN f[i]
                                                  ELSE ParseLine(f[n], file[n + 1])]
  <2>2. Fits(g, n + 1)
    BY <2>1
  <2> HIDE DEF Fits, g
  <2> QED
    BY <2>2
<1> HIDE DEF S
<1>3. Len(file) \in S
  BY <1>1, <1>2, AllNumbers
<1>4. PICK f : Fits(f, Len(file))
  BY <1>3 DEF S
<1> DEFINE h == HeaderLoop(file)
<1>5. h = [i \in 0 .. Len(file) |-> IF i = 0 THEN FirstAcc
                                             ELSE ParseLine(h[i - 1], file[i])]
  BY <1>4 DEF HeaderLoop, FirstAcc
<1> HIDE DEF h
<1>6. h[0] = FirstAcc /\ \A n \in 1 .. Len(file) : h[n] = ParseLine(h[n - 1], file[n])
  BY <1>5
<1> QED
  BY <1>6 DEF h

IsAcc(acc) == /\ acc = [fields |-> acc.fields, codes |-> acc.codes, ended |-> acc.ended]
              /\ acc.ended \in BOOLEAN

\* A line is a header field, blank, or neither.
LEMMA LineKinds ==
  ASSUME NEW line \in FileLine
  PROVE  /\ line.is = "blank" <=> line = BlankLine
         /\ line.is = "up" <=> line = Up
         /\ line.is = "down" <=> line = Down
         /\ IsHeader(line) => line.key \in HeaderField /\ line # BlankLine
<1>a. /\ Up.is = "up" /\ Down.is = "down" /\ Comment.is = "comment"
      /\ BlankLine.is = "blank" /\ Sql.is = "sql"
  BY DEF Line, Up, Down, Comment, BlankLine, Sql
<1>1. CASE line \in {Up, Down, Comment, BlankLine, Sql}
  BY <1>1, <1>a DEF IsHeader
<1>2. CASE line \in [is : {"field"}, key : STRING, value : Value]
  BY <1>2, <1>a DEF IsHeader
<1> QED
  BY <1>1, <1>2 DEF FileLine

\* What one turn of the loop does with it.
Goes(acc, line, new) ==
  /\ IsAcc(new) /\ acc.codes \subseteq new.codes
  /\ acc.ended \/ line = BlankLine => new = acc
  /\ ~ acc.ended /\ line # BlankLine /\ ~ IsHeader(line) =>
       /\ new.fields = acc.fields
       /\ IsComplete(acc) => new.ended /\ new.codes = acc.codes
       /\ new.ended \/ new.codes # {}
  /\ ~ acc.ended /\ IsHeader(line) =>
       /\ ~ new.ended
       /\ line.key \in DOMAIN acc.fields =>
            new.fields = acc.fields /\ new.codes # {}
       /\ line.key \notin DOMAIN acc.fields =>
            /\ new.codes = acc.codes
            /\ new.fields = [k \in DOMAIN acc.fields \cup {line.key} |->
                               IF k = line.key THEN line.value
                                               ELSE acc.fields[k]]

LEMMA OneLine ==
  ASSUME NEW acc, IsAcc(acc), NEW line \in FileLine
  PROVE  Goes(acc, line, ParseLine(acc, line))
<1> DEFINE new == ParseLine(acc, line)
<1>1. CASE acc.ended \/ line = BlankLine
  <2>1. new = acc
    BY <1>1, LineKinds DEF ParseLine
  <2> QED
    BY <1>1, <2>1, LineKinds DEF Goes
<1>2. CASE ~ acc.ended /\ line # BlankLine /\ EndsBlock(acc, line)
  <2>1. new = [acc EXCEPT !.ended = TRUE]
    BY <1>2, LineKinds DEF ParseLine
  <2>2. IsHeader(line) => FALSE
    BY <1>2 DEF EndsBlock, IsHeader
  <2> HIDE DEF new
  <2>3. Goes(acc, line, new)
    BY <1>2, <2>1, <2>2 DEF IsAcc, Goes
  <2> QED
    BY <2>3 DEF new
<1>3. CASE ~ acc.ended /\ line # BlankLine /\ ~ EndsBlock(acc, line)
  <2>1. CASE IsHeader(line) /\ line.key \notin DOMAIN acc.fields
    <3>1. new = [acc EXCEPT !.fields = [k \in DOMAIN @ \cup {line.key} |->
                                          IF k = line.key THEN line.value ELSE @[k]]]
      BY <1>3, <2>1, LineKinds DEF ParseLine
    <3>2. new = [fields |-> [k \in DOMAIN acc.fields \cup {line.key} |->
                               IF k = line.key THEN line.value ELSE acc.fields[k]],
                 codes |-> acc.codes, ended |-> acc.ended]
      BY <3>1 DEF IsAcc
    <3> HIDE DEF new
    <3>3. Goes(acc, line, new)
      BY <1>3, <2>1, <3>2 DEF IsAcc, Goes
    <3> QED
      BY <3>3 DEF new
  <2>2. CASE ~ (IsHeader(line) /\ line.key \notin DOMAIN acc.fields)
    <3>1. new = [acc EXCEPT !.codes = @ \cup {Diagnosis(line)}]
      BY <1>3, <2>2, LineKinds DEF ParseLine
    <3>2. new = [fields |-> acc.fields, codes |-> acc.codes \cup {Diagnosis(line)},
                 ended |-> acc.ended]
      BY <3>1 DEF IsAcc
    <3>3. IsComplete(acc) => IsHeader(line)
      BY <1>3 DEF EndsBlock
    <3> HIDE DEF new
    <3>4. Goes(acc, line, new)
      BY <1>3, <2>2, <3>2, <3>3 DEF IsAcc, Goes
    <3> QED
      BY <3>4 DEF new
  <2> QED
    BY <2>1, <2>2
<1> QED
  BY <1>1, <1>2, <1>3

LEMMA FileType ==
  ASSUME NEW file \in Seq(FileLine)
  PROVE  /\ Len(file) \in Nat /\ DOMAIN file = 1 .. Len(file)
         /\ \A n \in 1 .. Len(file) : file[n] \in FileLine
  OBVIOUS

\* The loop after n lines and after one more.
LEMMA Turn ==
  ASSUME NEW file \in Seq(FileLine)
  PROVE  /\ HeaderLoop(file)[0] = FirstAcc
         /\ \A n \in 0 .. Len(file) - 1 :
              /\ file[n + 1] \in FileLine
              /\ Goes(HeaderLoop(file)[n], file[n + 1], HeaderLoop(file)[n + 1])
<1> DEFINE h == HeaderLoop(file)
           S == {n \in Nat : IsAcc(h[n])}
<1>a. /\ Len(file) \in Nat
      /\ h[0] = FirstAcc
      /\ \A n \in 1 .. Len(file) : h[n] = ParseLine(h[n - 1], file[n])
  BY FileType, HeaderLoopSteps
<1> HIDE DEF h
<1>0. IsAcc(FirstAcc)
  BY DEF FirstAcc, IsAcc
<1>1. 0 \in S
  BY <1>0, <1>a
<1>2. ASSUME NEW i \in 0 .. Len(file) - 1, IsAcc(h[i])
      PROVE  /\ file[i + 1] \in FileLine
             /\ Goes(h[i], file[i + 1], h[i + 1])
  <2>1. i + 1 \in 1 .. Len(file) /\ (i + 1) - 1 = i
    BY <1>a
  <2>2. file[i + 1] \in FileLine
    BY <2>1, FileType
  <2>3. h[i + 1] = ParseLine(h[i], file[i + 1])
    BY <1>a, <2>1
  <2>4. Goes(h[i], file[i + 1], ParseLine(h[i], file[i + 1]))
    BY <1>2, <2>2, OneLine
  <2> QED
    BY <2>2, <2>3, <2>4, Zenon
<1>3. ASSUME NEW i \in 0 .. Len(file) - 1, i \in S
      PROVE  i + 1 \in S
  <2>1. IsAcc(h[i]) /\ i + 1 \in Nat
    BY <1>3
  <2>2. Goes(h[i], file[i + 1], h[i + 1])
    BY <1>2, <2>1
  <2>3. IsAcc(h[i + 1])
    BY <2>2 DEF Goes
  <2> QED
    BY <2>1, <2>3
<1> HIDE DEF S
<1>4. 0 .. Len(file) \subseteq S
  BY <1>1, <1>3, <1>a, UpTo
<1>5. \A i \in 0 .. Len(file) - 1 : IsAcc(h[i])
  BY <1>4, <1>a DEF S
<1> QED
  BY <1>2, <1>5, <1>a DEF h

\* A diagnosis is never taken back, and once the block has ended nothing
\* changes.
LEMMA CodesGrow ==
  ASSUME NEW file \in Seq(FileLine), NEW n \in 0 .. Len(file)
  PROVE  \A i \in n .. Len(file) :
           /\ HeaderLoop(file)[n].codes \subseteq HeaderLoop(file)[i].codes
           /\ HeaderLoop(file)[n].ended => HeaderLoop(file)[i] = HeaderLoop(file)[n]
<1> DEFINE h == HeaderLoop(file)
           S == {i \in Nat : /\ h[n].codes \subseteq h[i].codes
                             /\ h[n].ended => h[i] = h[n]}
<1>1. n \in S /\ n \in Nat /\ Len(file) \in Nat
  BY FileType
<1>2. ASSUME NEW i \in n .. Len(file) - 1, i \in S
      PROVE  i + 1 \in S
  <2>1. i \in 0 .. Len(file) - 1
    BY <1>1
  <2>2. Goes(h[i], file[i + 1], h[i + 1])
    BY <2>1, Turn
  <2> HIDE DEF h
  <2>3. h[i].codes \subseteq h[i + 1].codes /\ (h[i].ended => h[i + 1] = h[i])
    BY <2>2 DEF Goes
  <2> QED
    BY <1>2, <2>1, <2>3
<1> HIDE DEF S
<1>3. n .. Len(file) \subseteq S
  BY <1>1, <1>2, UpTo
<1> QED
  BY <1>3 DEF S

-----------------------------------------------------------------------------
(***************************************************************************)
(* The header block: the lines before the first that is neither a header   *)
(* field nor blank.                                                        *)
(***************************************************************************)

HeadersOf(file, n) == {i \in 1 .. n : IsHeader(file[i])}
KeysOf(file, n) == {file[i].key : i \in HeadersOf(file, n)}
OncePerKey(file, n) ==
  \A i, j \in HeadersOf(file, n) : file[i].key = file[j].key => i = j

IsBlock(file, n) == \A i \in 1 .. n : IsHeader(file[i]) \/ file[i] = BlankLine
IsWholeBlock(file, m) ==
  /\ IsBlock(file, m)
  /\ m < Len(file) => ~ IsHeader(file[m + 1]) /\ file[m + 1] # BlankLine

LEMMA WholeBlock ==
  ASSUME NEW file \in Seq(FileLine)
  PROVE  \E m \in 0 .. Len(file) : IsWholeBlock(file, m)
<1> DEFINE T == {i \in 1 .. Len(file) : ~ IsHeader(file[i]) /\ file[i] # BlankLine}
<1>a. Len(file) \in Nat /\ T \subseteq Nat
  BY FileType
<1>1. CASE T = {}
  BY <1>a, <1>1 DEF IsWholeBlock, IsBlock
<1>2. CASE T # {}
  <2> HIDE DEF T
  <2>1. PICK x \in T : \A y \in T : x <= y
    BY <1>2, <1>a, LeastNumber
  <2> USE DEF T
  <2>2. x \in 1 .. Len(file) /\ x - 1 \in 0 .. Len(file) /\ (x - 1) + 1 = x
    BY <2>1, <1>a
  <2>3. IsBlock(file, x - 1)
    <3> SUFFICES ASSUME NEW i \in 1 .. x - 1, ~ IsHeader(file[i]), file[i] # BlankLine
                 PROVE  FALSE
      BY DEF IsBlock
    <3>1. i \in T /\ ~ (x <= i)
      BY <2>2, <1>a
    <3> QED
      BY <2>1, <3>1
  <2>4. IsWholeBlock(file, x - 1)
    BY <2>1, <2>2, <2>3 DEF IsWholeBlock
  <2> QED
    BY <2>2, <2>4
<1> QED
  BY <1>1, <1>2

\* What the loop has after n lines of the block.
Knows(file, n, acc) ==
  /\ ~ acc.ended
  /\ DOMAIN acc.fields = KeysOf(file, n)
  /\ acc.codes = {} <=> OncePerKey(file, n)
  /\ acc.codes = {} =>
       \A i \in HeadersOf(file, n) : acc.fields[file[i].key] = file[i].value

LEMMA BlockKnown ==
  ASSUME NEW file \in Seq(FileLine), NEW m \in 0 .. Len(file), IsBlock(file, m)
  PROVE  \A n \in 0 .. m : Knows(file, n, HeaderLoop(file)[n])
<1> DEFINE h == HeaderLoop(file)
           S == {n \in Nat : Knows(file, n, h[n])}
<1>a. Len(file) \in Nat /\ m \in Nat /\ 0 \in Nat /\ h[0] = FirstAcc
  BY FileType, Turn
<1>0. Knows(file, 0, FirstAcc)
  BY DEF Knows, FirstAcc, KeysOf, HeadersOf, OncePerKey
<1>1. 0 \in S
  BY <1>a, <1>0
<1>2. ASSUME NEW n \in 0 .. m - 1, n \in S
      PROVE  n + 1 \in S
  <2>1. n \in 0 .. Len(file) - 1 /\ n + 1 \in 1 .. m /\ n \in Nat
    BY <1>a
  <2> DEFINE line == file[n + 1]
             old == h[n]
             new == h[n + 1]
  <2>2. Goes(old, line, new) /\ Knows(file, n, old)
    BY <1>2, <2>1, Turn
  <2>3. HeadersOf(file, n + 1)
          = IF IsHeader(line) THEN HeadersOf(file, n) \cup {n + 1}
                              ELSE HeadersOf(file, n)
    BY <2>1 DEF HeadersOf
  <2>4. n + 1 \notin HeadersOf(file, n)
    BY <2>1 DEF HeadersOf
  <2> HIDE DEF h, old, new
  <2>5. CASE ~ IsHeader(line)
    <3>1. new = old
      BY <2>1, <2>2, <2>5 DEF IsBlock, Goes
    <3>2. HeadersOf(file, n + 1) = HeadersOf(file, n)
      BY <2>3, <2>5
    <3> QED
      BY <2>1, <2>2, <3>1, <3>2 DEF Knows, KeysOf, OncePerKey, new
  <2>6. CASE IsHeader(line)
    <3>1. HeadersOf(file, n + 1) = HeadersOf(file, n) \cup {n + 1}
      BY <2>3, <2>6
    <3>2. KeysOf(file, n + 1) = KeysOf(file, n) \cup {line.key}
      BY <3>1 DEF KeysOf
    <3>3. OncePerKey(file, n + 1)
            <=> OncePerKey(file, n) /\ line.key \notin KeysOf(file, n)
      BY <3>1, <2>4 DEF OncePerKey, KeysOf
    <3>4. CASE line.key \in KeysOf(file, n)
      <4>1. new.fields = old.fields /\ new.codes # {} /\ ~ new.ended
        BY <2>2, <2>6, <3>4 DEF Knows, Goes
      <4>2. KeysOf(file, n + 1) = KeysOf(file, n)
        BY <3>2, <3>4
      <4>3. Knows(file, n + 1, new)
        BY <2>2, <3>3, <3>4, <4>1, <4>2 DEF Knows
      <4> QED
        BY <2>1, <4>3 DEF new
    <3>5. CASE line.key \notin KeysOf(file, n)
      <4>1. /\ new.codes = old.codes /\ ~ new.ended
            /\ new.fields = [k \in DOMAIN old.fields \cup {line.key} |->
                               IF k = line.key THEN line.value ELSE old.fields[k]]
        BY <2>2, <2>6, <3>5 DEF Knows, Goes
      <4>2. ASSUME old.codes = {}, NEW i \in HeadersOf(file, n + 1)
            PROVE  new.fields[file[i].key] = file[i].value
        <5>1. CASE i = n + 1
          BY <4>1, <5>1
        <5>2. CASE i \in HeadersOf(file, n)
          <6>1. file[i].key \in KeysOf(file, n) /\ old.fields[file[i].key] = file[i].value
            BY <2>2, <4>2, <5>2 DEF Knows, KeysOf
          <6> QED
            BY <2>2, <3>5, <4>1, <6>1 DEF Knows
        <5> QED
          BY <3>1, <5>1, <5>2
      <4>3. Knows(file, n + 1, new)
        BY <2>2, <3>2, <3>3, <3>5, <4>1, <4>2 DEF Knows
      <4> QED
        BY <2>1, <4>3 DEF new
    <3> QED
      BY <3>4, <3>5
  <2> QED
    BY <2>5, <2>6
<1> HIDE DEF S
<1>3. 0 .. m \subseteq S
  BY <1>1, <1>2, <1>a, UpTo
<1> QED
  BY <1>3 DEF S

\* The loop accepts a file whose block has each field once, and what it then
\* has of the fields is what the block says.
LEMMA HeaderAccepted ==
  ASSUME NEW file \in Seq(FileLine), NEW m \in 0 .. Len(file), IsWholeBlock(file, m)
  PROVE  LET header == ParseHeaderFields(file)
         IN /\ header.codes = {} =>
                 /\ OncePerKey(file, m)
                 /\ DOMAIN header.fields = KeysOf(file, m)
            /\ OncePerKey(file, m) /\ KeysOf(file, m) = HeaderField =>
                 header.codes = {}
            /\ header.codes = {} => \A i \in HeadersOf(file, m) :
                 header.fields[file[i].key] = file[i].value
<1> DEFINE h == HeaderLoop(file)
           N == Len(file)
<1>a. N \in Nat /\ m \in Nat /\ m \in 0 .. m
  BY FileType
<1>b. Knows(file, m, h[m])
  BY <1>a, BlockKnown DEF IsWholeBlock
<1>1. CASE m = N
  <2>1. Knows(file, m, ParseHeaderFields(file))
    BY <1>1, <1>b DEF ParseHeaderFields
  <2> HIDE DEF h
  <2> QED
    BY <2>1 DEF Knows
<1>2. CASE m < N
  <2>1. m \in 0 .. N - 1 /\ m + 1 \in 0 .. N /\ N \in m + 1 .. N
    BY <1>a, <1>2
  <2>2. Goes(h[m], file[m + 1], h[m + 1])
    BY <2>1, Turn
  <2>3. ~ IsHeader(file[m + 1]) /\ file[m + 1] # BlankLine
    BY <1>2 DEF IsWholeBlock
  <2>4. /\ h[m + 1].codes \subseteq h[N].codes
        /\ h[m + 1].ended => h[N] = h[m + 1]
    BY <2>1, CodesGrow
  <2>5. ParseHeaderFields(file) = h[N]
    BY DEF ParseHeaderFields
  <2> HIDE DEF h, N
  <2>6. /\ h[m + 1].fields = h[m].fields
        /\ IsComplete(h[m]) => h[m + 1].ended /\ h[m + 1].codes = h[m].codes
        /\ h[m + 1].ended \/ h[m + 1].codes # {}
        /\ h[m].codes \subseteq h[m + 1].codes
    BY <1>b, <2>2, <2>3 DEF Goes, Knows
  <2>7. h[N].codes = {} => h[N] = h[m + 1] /\ h[m].codes = {}
    BY <2>4, <2>6
  <2>8. OncePerKey(file, m) /\ KeysOf(file, m) = HeaderField => h[N].codes = {}
    BY <1>b, <2>4, <2>6 DEF Knows, IsComplete
  <2> QED
    BY <1>b, <2>5, <2>6, <2>7, <2>8 DEF Knows
<1> QED
  BY <1>a, <1>1, <1>2

-----------------------------------------------------------------------------
(***************************************************************************)
(* The rest of validateMigrationBody.                                      *)
(***************************************************************************)

\* The value that a line gives its field is admissible.
Good(line) ==
  CASE line.key = "owning_context" -> line.value = "platform"
    [] line.key = "description"    -> line.value # "blank"
    [] OTHER -> line.value \notin Unexplained

FieldCodes(fields) ==
  ContextCodes(fields)
    \cup {c \in {"MIG014"} : ValueOf(fields, "description") = "blank"}
    \cup NotesCodes(fields, "rollback_notes", "MIG015")
    \cup NotesCodes(fields, "forward_fix_notes", "MIG016")

LEMMA FieldsAccepted ==
  ASSUME NEW fields
  PROVE  FieldCodes(fields) = {} <=>
           /\ HeaderField \subseteq DOMAIN fields
           /\ fields["owning_context"] = "platform"
           /\ fields["description"] # "blank"
           /\ fields["rollback_notes"] \notin Unexplained
           /\ fields["forward_fix_notes"] \notin Unexplained
<1>1. ContextCodes(fields) = {} <=> /\ "owning_context" \in DOMAIN fields
                                    /\ fields["owning_context"] = "platform"
  BY DEF ContextCodes
<1>2. \A k, code : NotesCodes(fields, k, code) = {} <=>
        k \in DOMAIN fields /\ fields[k] \notin Unexplained
  BY DEF NotesCodes, ValueOf, Unexplained
<1>3. {c \in {"MIG014"} : ValueOf(fields, "description") = "blank"} = {} <=>
        "description" \in DOMAIN fields /\ fields["description"] # "blank"
  BY DEF ValueOf
<1> QED
  BY <1>1, <1>2, <1>3 DEF FieldCodes, HeaderField

\* The fields of the block, against the rule for each of its lines.
LEMMA BlockAccepted ==
  ASSUME NEW file, NEW m \in Nat, NEW fields, DOMAIN fields = KeysOf(file, m),
         \A i \in HeadersOf(file, m) : fields[file[i].key] = file[i].value
  PROVE  FieldCodes(fields) = {} <=>
           /\ KeysOf(file, m) = HeaderField
           /\ \A i \in HeadersOf(file, m) : Good(file[i])
<1>1. KeysOf(file, m) \subseteq HeaderField
  BY DEF KeysOf, HeadersOf, IsHeader
<1>2. ASSUME KeysOf(file, m) = HeaderField
      PROVE  (\A i \in HeadersOf(file, m) : Good(file[i])) <=>
               /\ fields["owning_context"] = "platform"
               /\ fields["description"] # "blank"
               /\ fields["rollback_notes"] \notin Unexplained
               /\ fields["forward_fix_notes"] \notin Unexplained
  <2>1. \A i \in HeadersOf(file, m) :
          /\ file[i].key \in HeaderField
          /\ Good(file[i]) <=>
               CASE file[i].key = "owning_context" -> fields["owning_context"] = "platform"
                 [] file[i].key = "description"    -> fields["description"] # "blank"
                 [] OTHER -> fields[file[i].key] \notin Unexplained
    BY DEF Good, HeadersOf, IsHeader
  <2>2. \A k \in HeaderField : \E i \in HeadersOf(file, m) : file[i].key = k
    BY <1>2 DEF KeysOf
  <2> QED
    BY <2>1, <2>2 DEF HeaderField
<1> QED
  BY <1>1, <1>2, FieldsAccepted

LEMMA FirstLineIsFirst ==
  ASSUME NEW file \in Seq(FileLine), NEW is
  PROVE  LET first == FirstLine(file, is)
         IN \/ /\ first = 0
               /\ \A i \in 1 .. Len(file) : file[i].is # is
            \/ /\ first \in 1 .. Len(file) /\ file[first].is = is
               /\ \A i \in 1 .. first - 1 : file[i].is # is
<1> DEFINE at == {i \in DOMAIN file : file[i].is = is}
           first == FirstLine(file, is)
<1>a. Len(file) \in Nat /\ DOMAIN file = 1 .. Len(file) /\ at \subseteq Nat
  BY FileType
<1>b. first = IF at = {} THEN 0 ELSE CHOOSE i \in at : \A j \in at : i <= j
  BY DEF FirstLine
<1>1. CASE at = {}
  BY <1>a, <1>b, <1>1
<1>2. CASE at # {}
  <2> HIDE DEF at, first
  <2>1. \E i \in at : \A j \in at : i <= j
    BY <1>2, <1>a, LeastNumber
  <2>2. first \in at /\ \A j \in at : first <= j
    BY <1>b, <1>2, <2>1
  <2>3. first \in 1 .. Len(file) /\ file[first].is = is
    BY <1>a, <2>2 DEF at
  <2>4. ASSUME NEW i \in 1 .. first - 1, file[i].is = is
        PROVE  FALSE
    <3>1. i \in at /\ ~ (first <= i)
      BY <1>a, <2>3, <2>4 DEF at
    <3> QED
      BY <2>2, <3>1
  <2> QED
    BY <2>3, <2>4 DEF first
<1> QED
  BY <1>1, <1>2

LEMMA MarkersAccepted ==
  ASSUME NEW file \in Seq(FileLine)
  PROVE  MarkerCodes(file) = {} <=>
           \E up, down \in DOMAIN file :
             /\ up < down /\ file[up] = Up /\ file[down] = Down
             /\ \A i \in 1 .. down - 1 : file[i] # Down
<1> DEFINE N == Len(file)
           u == FirstLine(file, "up")
           d == FirstLine(file, "down")
<1>a. N \in Nat /\ DOMAIN file = 1 .. N
  BY FileType
<1>b. \A i \in 1 .. N : /\ file[i].is = "up" <=> file[i] = Up
                        /\ file[i].is = "down" <=> file[i] = Down
  BY FileType, LineKinds
<1>c. \/ u = 0 /\ \A i \in 1 .. N : file[i].is # "up"
      \/ u \in 1 .. N /\ file[u].is = "up" /\ \A i \in 1 .. u - 1 : file[i].is # "up"
  BY FirstLineIsFirst
<1>d. \/ d = 0 /\ \A i \in 1 .. N : file[i].is # "down"
      \/ /\ d \in 1 .. N /\ file[d].is = "down"
         /\ \A i \in 1 .. d - 1 : file[i].is # "down"
  BY FirstLineIsFirst
<1>e. MarkerCodes(file) = {} <=> u # 0 /\ d # 0 /\ ~ (0 < d /\ d < u)
  BY DEF MarkerCodes
<1> HIDE DEF N, u, d
<1>1. ASSUME u # 0, d # 0, ~ (0 < d /\ d < u)
      PROVE  \E up, down \in DOMAIN file :
               /\ up < down /\ file[up] = Up /\ file[down] = Down
               /\ \A i \in 1 .. down - 1 : file[i] # Down
  <2>1. u \in 1 .. N /\ d \in 1 .. N /\ file[u].is = "up" /\ file[d].is = "down"
    BY <1>1, <1>c, <1>d
  <2>2. u < d
    BY <1>1, <1>a, <2>1
  <2>3. \A i \in 1 .. d - 1 : i \in 1 .. N /\ file[i] # Down
    BY <1>a, <1>b, <1>d, <2>1
  <2> QED
    BY <1>a, <1>b, <2>1, <2>2, <2>3
<1>2. ASSUME NEW up \in DOMAIN file, NEW down \in DOMAIN file,
             up < down, file[up] = Up, file[down] = Down,
             \A i \in 1 .. down - 1 : file[i] # Down
      PROVE  u # 0 /\ d # 0 /\ ~ (0 < d /\ d < u)
  <2>1. up \in 1 .. N /\ down \in 1 .. N /\ file[up].is = "up" /\ file[down].is = "down"
    BY <1>2, <1>a, <1>b
  <2>2. u \in 1 .. N /\ u <= up
    BY <1>a, <1>c, <2>1
  <2>3. d \in 1 .. N /\ file[d] = Down
    BY <1>b, <1>d, <2>1
  <2>4. ~ (d < down)
    BY <1>2, <1>a, <2>1, <2>3
  <2> QED
    BY <1>2, <1>a, <2>1, <2>2, <2>3, <2>4
<1> QED
  BY <1>1, <1>2, <1>e

\* What WellFormed says of the header.
HasHeader(file) ==
  \E last \in DOMAIN file :
    /\ IsBlock(file, last)
    /\ \A k \in HeaderField :
         /\ \E i \in 1 .. last : file[i].key = k
         /\ \A i, j \in 1 .. last : file[i].key = k /\ file[j].key = k => i = j
    /\ \A i \in last + 1 .. Len(file) : IsHeader(file[i]) =>
         \E j \in last + 1 .. i - 1 : ~ IsHeader(file[j]) /\ file[j] # BlankLine
    /\ \A i \in 1 .. last : Good(file[i])

LEMMA HeaderIsBlock ==
  ASSUME NEW file \in Seq(FileLine), NEW m \in 0 .. Len(file), IsWholeBlock(file, m)
  PROVE  HasHeader(file) <=>
           /\ OncePerKey(file, m)
           /\ KeysOf(file, m) = HeaderField
           /\ \A i \in HeadersOf(file, m) : Good(file[i])
<1> DEFINE N == Len(file)
<1>a. N \in Nat /\ m \in Nat /\ DOMAIN file = 1 .. N
  BY FileType
<1>b. BlankLine.key = "" /\ Good(BlankLine) /\ "" \notin HeaderField
  BY DEF BlankLine, Line, Good, Unexplained, HeaderField
<1>1. ASSUME NEW last \in 1 .. N, IsBlock(file, last),
             \A k \in HeaderField :
               /\ \E i \in 1 .. last : file[i].key = k
               /\ \A i, j \in 1 .. last : file[i].key = k /\ file[j].key = k => i = j,
             \A i \in last + 1 .. N : IsHeader(file[i]) =>
               \E j \in last + 1 .. i - 1 : ~ IsHeader(file[j]) /\ file[j] # BlankLine,
             \A i \in 1 .. last : Good(file[i])
      PROVE  /\ OncePerKey(file, m)
             /\ KeysOf(file, m) = HeaderField
             /\ \A i \in HeadersOf(file, m) : Good(file[i])
  <2>1. last <= m
    BY <1>a, <1>1 DEF IsWholeBlock, IsBlock
  <2>2. HeadersOf(file, m) \subseteq 1 .. last
    <3> SUFFICES ASSUME NEW i \in HeadersOf(file, m), last < i
                 PROVE  FALSE
      BY <1>a DEF HeadersOf
    <3>1. i \in last + 1 .. N /\ IsHeader(file[i]) /\ i <= m
      BY <1>a DEF HeadersOf
    <3>2. PICK j \in last + 1 .. i - 1 : ~ IsHeader(file[j]) /\ file[j] # BlankLine
      BY <1>1, <3>1
    <3>3. j \in 1 .. m
      BY <1>a, <3>1
    <3> QED
      BY <3>2, <3>3 DEF IsWholeBlock, IsBlock
  <2>3. \A i \in HeadersOf(file, m) : file[i].key \in HeaderField
    BY DEF HeadersOf, IsHeader
  <2>4. \A k \in HeaderField : \E i \in HeadersOf(file, m) : file[i].key = k
    <3> SUFFICES ASSUME NEW k \in HeaderField
                 PROVE  \E i \in HeadersOf(file, m) : file[i].key = k
      OBVIOUS
    <3>1. PICK i \in 1 .. last : file[i].key = k
      BY <1>1
    <3>2. IsHeader(file[i])
      BY <1>b, <1>1, <3>1 DEF IsBlock
    <3> QED
      BY <1>a, <2>1, <3>1, <3>2 DEF HeadersOf
  <2>5. KeysOf(file, m) = HeaderField
    BY <2>3, <2>4 DEF KeysOf
  <2>6. OncePerKey(file, m)
    BY <1>1, <2>2, <2>3 DEF OncePerKey
  <2> QED
    BY <1>1, <2>2, <2>5, <2>6
<1>2. ASSUME OncePerKey(file, m), KeysOf(file, m) = HeaderField,
             \A i \in HeadersOf(file, m) : Good(file[i])
      PROVE  HasHeader(file)
  <2>1. \A k \in HeaderField : \E i \in HeadersOf(file, m) : file[i].key = k
    BY <1>2 DEF KeysOf
  <2>2. \A i \in 1 .. m : file[i].key \in HeaderField => i \in HeadersOf(file, m)
    BY <1>b DEF IsWholeBlock, IsBlock, HeadersOf
  <2>3. HeadersOf(file, m) \subseteq 1 .. m
    BY DEF HeadersOf
  <2>4. m \in DOMAIN file
    <3>1. \E i : i \in 1 .. m
      BY <2>1, <2>3 DEF HeaderField
    <3> QED
      BY <1>a, <3>1
  <2>5. \A k \in HeaderField :
          /\ \E i \in 1 .. m : file[i].key = k
          /\ \A i, j \in 1 .. m : file[i].key = k /\ file[j].key = k => i = j
    BY <1>2, <2>1, <2>2, <2>3 DEF OncePerKey
  <2>6. ASSUME NEW i \in m + 1 .. N, IsHeader(file[i])
        PROVE  \E j \in m + 1 .. i - 1 : ~ IsHeader(file[j]) /\ file[j] # BlankLine
    <3>1. ~ IsHeader(file[m + 1]) /\ file[m + 1] # BlankLine
      BY <1>a DEF IsWholeBlock
    <3>2. m + 1 \in m + 1 .. i - 1
      BY <1>a, <2>6, <3>1
    <3> QED
      BY <3>1, <3>2
  <2>7. \A i \in 1 .. m : Good(file[i])
    BY <1>b, <1>2 DEF IsWholeBlock, IsBlock, HeadersOf
  <2>8. IsBlock(file, m)
    BY DEF IsWholeBlock
  <2> HIDE DEF N
  <2> QED
    BY <2>4, <2>5, <2>6, <2>7, <2>8 DEF HasHeader, N
<1> QED
  BY <1>a, <1>1, <1>2 DEF HasHeader

\* validateMigrationBody finds nothing to say of exactly the files that
\* WellFormed describes, whatever their length and the names of their fields.
THEOREM ValidatorIsExact == lines \in Seq(FileLine) => ValidatorMatchesRules
<1> SUFFICES ASSUME lines \in Seq(FileLine)
             PROVE  ValidateMigrationBody(lines) = {} <=> WellFormed(lines)
  BY DEF ValidatorMatchesRules
<1> DEFINE header == ParseHeaderFields(lines)
<1>1. PICK m \in 0 .. Len(lines) : IsWholeBlock(lines, m)
  BY WholeBlock
<1>2. WellFormed(lines) <=>
        HasHeader(lines) /\ MarkerCodes(lines) = {}
  <2>1. WellFormed(lines) <=>
          /\ HasHeader(lines)
          /\ \E up, down \in DOMAIN lines :
               /\ up < down /\ lines[up] = Up /\ lines[down] = Down
               /\ \A i \in 1 .. down - 1 : lines[i] # Down
    BY Zenon DEF WellFormed, HasHeader, IsBlock, Good
  <2> QED
    BY <2>1, MarkersAccepted
<1>3. ValidateMigrationBody(lines)
        = header.codes \cup FieldCodes(header.fields) \cup MarkerCodes(lines)
  BY DEF ValidateMigrationBody, FieldCodes
<1>4. m \in Nat
  BY FileType
<1>5. /\ header.codes = {} =>
           /\ OncePerKey(lines, m)
           /\ DOMAIN header.fields = KeysOf(lines, m)
           /\ \A i \in HeadersOf(lines, m) :
                header.fields[lines[i].key] = lines[i].value
      /\ OncePerKey(lines, m) /\ KeysOf(lines, m) = HeaderField => header.codes = {}
  BY <1>1, HeaderAccepted
<1> HIDE DEF header
<1>6. header.codes = {} =>
        (FieldCodes(header.fields) = {} <=>
           /\ KeysOf(lines, m) = HeaderField
           /\ \A i \in HeadersOf(lines, m) : Good(lines[i]))
  BY <1>4, <1>5, BlockAccepted
<1>7. HasHeader(lines) <=>
        /\ OncePerKey(lines, m)
        /\ KeysOf(lines, m) = HeaderField
        /\ \A i \in HeadersOf(lines, m) : Good(lines[i])
  BY <1>1, HeaderIsBlock
<1>8. HasHeader(lines) <=> header.codes = {} /\ FieldCodes(header.fields) = {}
  BY <1>5, <1>6, <1>7
<1> QED
  BY <1>2, <1>3, <1>8

-----------------------------------------------------------------------------
(***************************************************************************)
(* The loop of parseStrictArgs.                                            *)
(***************************************************************************)

LEMMA ArgLoopSteps ==
  ASSUME NEW list, Len(list) \in Nat, NEW allowed
  PROVE  /\ ArgLoop(list, allowed)[0] = Parsed(<<>>, <<>>, {})
         /\ \A n \in 1 .. Len(list) :
              ArgLoop(list, allowed)[n]
                = ParseArg(allowed, ArgLoop(list, allowed)[n - 1], list[n])
<1> DEFINE Fits(f, n) ==
             f = [i \in 0 .. n |-> IF i = 0 THEN Parsed(<<>>, <<>>, {})
                                            ELSE ParseArg(allowed, f[i - 1], list[i])]
           S == {n \in Nat : \E f : Fits(f, n)}
<1>1. 0 \in S
  <2>1. Fits([i \in 0 .. 0 |-> Parsed(<<>>, <<>>, {})], 0)
    OBVIOUS
  <2> QED
    BY <2>1
<1>2. ASSUME NEW n \in Nat, n \in S
      PROVE  n + 1 \in S
  <2>1. PICK f : Fits(f, n)
    BY <1>2
  <2> DEFINE g == [i \in 0 .. n + 1 |-> IF i <= n THEN f[i]
                                        ELSE ParseArg(allowed, f[n], list[n + 1])]
  <2>2. Fits(g, n + 1)
    BY <2>1
  <2> HIDE DEF Fits, g
  <2> QED
    BY <2>2
<1> HIDE DEF S
<1>3. Len(list) \in S
  BY <1>1, <1>2, AllNumbers
<1>4. PICK f : Fits(f, Len(list))
  BY <1>3 DEF S
<1> DEFINE h == ArgLoop(list, allowed)
<1>5. h = [i \in 0 .. Len(list) |-> IF i = 0 THEN Parsed(<<>>, <<>>, {})
                                             ELSE ParseArg(allowed, h[i - 1], list[i])]
  BY <1>4 DEF ArgLoop
<1> HIDE DEF h
<1>6. /\ h[0] = Parsed(<<>>, <<>>, {})
      /\ \A n \in 1 .. Len(list) : h[n] = ParseArg(allowed, h[n - 1], list[n])
  BY <1>5
<1> QED
  BY <1>6 DEF h

LEMMA ArgType ==
  ASSUME NEW list \in Seq(Argument)
  PROVE  /\ Len(list) \in Nat /\ DOMAIN list = 1 .. Len(list)
         /\ \A n \in 1 .. Len(list) : list[n] \in Argument
  OBVIOUS

\* The flags among the first n arguments, their names, and what is asked of
\* each: that it is known and has a value if and only if it takes one.
FlagsOf(list, n) == {i \in 1 .. n : list[i].is = "flag"}
NamesOf(list, n) == {list[i].flag : i \in FlagsOf(list, n)}
OncePerName(list, n) ==
  \A i, j \in FlagsOf(list, n) : list[i].flag = list[j].flag => i = j
IsRight(allowed, arg) ==
  /\ IsKnown(allowed, arg.flag)
  /\ IF TakesValue(allowed, arg.flag) THEN arg.value \notin {NoValue, Blank}
                                      ELSE arg.value = NoValue

LEMMA FlagCount ==
  ASSUME NEW list, NEW n \in Nat
  PROVE  /\ IsFiniteSet(FlagsOf(list, n)) /\ Cardinality(FlagsOf(list, n)) \in Nat
         /\ Cardinality(FlagsOf(list, 0)) = 0
         /\ Cardinality(FlagsOf(list, n + 1))
              = IF list[n + 1].is = "flag" THEN Cardinality(FlagsOf(list, n)) + 1
                                           ELSE Cardinality(FlagsOf(list, n))
<1>0. 1 .. n + 1 = 1 .. n \cup {n + 1} /\ n + 1 \notin 1 .. n
  OBVIOUS
<1>1. IsFiniteSet(1 .. n)
  BY FS_Interval
<1>2. FlagsOf(list, n) \in SUBSET (1 .. n)
  BY DEF FlagsOf
<1>3. IsFiniteSet(FlagsOf(list, n))
  BY <1>1, <1>2, FS_Subset
<1>4. Cardinality(FlagsOf(list, n)) \in Nat
  BY <1>3, FS_CardinalityType
<1>5. FlagsOf(list, 0) = {}
  BY DEF FlagsOf
<1>6. Cardinality(FlagsOf(list, 0)) = 0
  BY <1>5, FS_EmptySet
<1>7. FlagsOf(list, n + 1) = IF list[n + 1].is = "flag"
                             THEN FlagsOf(list, n) \cup {n + 1} ELSE FlagsOf(list, n)
  BY <1>0 DEF FlagsOf
<1>8. n + 1 \notin FlagsOf(list, n)
  BY <1>0 DEF FlagsOf
<1>9. Cardinality(FlagsOf(list, n) \cup {n + 1}) = Cardinality(FlagsOf(list, n)) + 1
  BY <1>3, <1>8, FS_AddElement
<1> QED
  BY <1>3, <1>4, <1>6, <1>7, <1>9

\* What the loop has after n arguments.
Has(allowed, list, n, acc) ==
  /\ acc.ok \in BOOLEAN
  /\ acc.ok <=> /\ OncePerName(list, n)
                /\ \A i \in FlagsOf(list, n) : IsRight(allowed, list[i])
  /\ acc.ok => /\ acc.seen = NamesOf(list, n)
               /\ DOMAIN acc.flags = NamesOf(list, n) \ {"__proto__"}
               /\ \A i \in FlagsOf(list, n) : list[i].flag # "__proto__" =>
                    acc.flags[list[i].flag] = list[i].value
               /\ acc.positionals \in Seq(STRING)
               /\ Len(acc.positionals) = n - Cardinality(FlagsOf(list, n))

LEMMA OneArg ==
  ASSUME NEW list \in Seq(Argument), NEW allowed, NEW n \in 0 .. Len(list) - 1,
         NEW acc, Has(allowed, list, n, acc)
  PROVE  Has(allowed, list, n + 1, ParseArg(allowed, acc, list[n + 1]))
<1> DEFINE arg == list[n + 1]
           new == ParseArg(allowed, acc, arg)
<1>a. n \in Nat /\ Len(list) \in Nat /\ n + 1 \in 1 .. Len(list)
  BY ArgType
<1>b. arg.flag \in STRING /\ arg.value \in STRING /\ arg.is \in {"positional", "flag"}
  BY <1>a, ArgType DEF Argument
<1>c. /\ n + 1 \notin FlagsOf(list, n)
      /\ FlagsOf(list, n + 1) = IF arg.is = "flag" THEN FlagsOf(list, n) \cup {n + 1}
                                                   ELSE FlagsOf(list, n)
  <2>1. 1 .. n + 1 = 1 .. n \cup {n + 1} /\ n + 1 \notin 1 .. n
    BY <1>a
  <2> QED
    BY <2>1 DEF FlagsOf
<1>d. /\ Cardinality(FlagsOf(list, n)) \in Nat
      /\ Cardinality(FlagsOf(list, n + 1))
           = IF arg.is = "flag" THEN Cardinality(FlagsOf(list, n)) + 1
                                ELSE Cardinality(FlagsOf(list, n))
  BY <1>a, FlagCount
<1>e. Cardinality(FlagsOf(list, n)) \in Nat
  BY <1>d
<1>f. \A p, f, s : /\ Parsed(p, f, s).ok /\ Parsed(p, f, s).positionals = p
                   /\ Parsed(p, f, s).flags = f /\ Parsed(p, f, s).seen = s
  BY DEF Parsed
<1>g. Rejected.ok = FALSE
  BY DEF Rejected
<1> HIDE DEF arg
<1>1. CASE ~ acc.ok
  <2>1. new = acc
    BY <1>1 DEF ParseArg
  <2>2. ~ (/\ OncePerName(list, n + 1)
           /\ \A i \in FlagsOf(list, n + 1) : IsRight(allowed, list[i]))
    BY <1>1, <1>c DEF Has, OncePerName
  <2>3. Has(allowed, list, n + 1, acc)
    BY <1>1, <2>2 DEF Has
  <2> QED
    BY <2>1, <2>3 DEF arg
<1>2. CASE acc.ok /\ arg.is = "positional"
  <2>1. new = Parsed(Append(acc.positionals, arg.value), acc.flags, acc.seen)
    BY <1>2 DEF ParseArg
  <2>2. /\ Append(acc.positionals, arg.value) \in Seq(STRING)
        /\ Len(Append(acc.positionals, arg.value)) = Len(acc.positionals) + 1
        /\ Len(acc.positionals) \in Nat
    <3>1. acc.positionals \in Seq(STRING)
      BY <1>2 DEF Has
    <3> QED
      BY <3>1, <1>b
  <2>3. FlagsOf(list, n + 1) = FlagsOf(list, n)
    BY <1>2, <1>c
  <2> HIDE DEF new
  <2>4. Len(new.positionals) = (n + 1) - Cardinality(FlagsOf(list, n + 1))
    <3>1. Len(acc.positionals) = n - Cardinality(FlagsOf(list, n))
      BY <1>2 DEF Has
    <3>2. Cardinality(FlagsOf(list, n + 1)) = Cardinality(FlagsOf(list, n))
      BY <1>2, <1>d
    <3>3. Len(new.positionals) = Len(acc.positionals) + 1
      BY <2>1, <2>2 DEF Parsed
    <3>4. Len(acc.positionals) + 1 = (n + 1) - Cardinality(FlagsOf(list, n))
      BY <1>a, <1>e, <3>1
    <3> QED
      BY <3>2, <3>3, <3>4, Zenon
  <2>5. /\ NamesOf(list, n + 1) = NamesOf(list, n)
        /\ OncePerName(list, n + 1) <=> OncePerName(list, n)
    BY <2>3 DEF NamesOf, OncePerName
  <2>6. /\ new.ok /\ new.positionals \in Seq(STRING)
        /\ new.flags = acc.flags /\ new.seen = acc.seen
    BY <2>1, <2>2 DEF Parsed
  <2>7. Has(allowed, list, n + 1, new)
    BY <1>2, <2>3, <2>4, <2>5, <2>6 DEF Has
  <2> QED
    BY <2>7 DEF new, arg
<1>3. CASE acc.ok /\ arg.is = "flag"
  <2>1. FlagsOf(list, n + 1) = FlagsOf(list, n) \cup {n + 1}
    BY <1>3, <1>c
  <2>2. NamesOf(list, n + 1) = NamesOf(list, n) \cup {arg.flag}
    BY <2>1 DEF NamesOf, arg
  <2>3. OncePerName(list, n + 1)
          <=> OncePerName(list, n) /\ arg.flag \notin NamesOf(list, n)
    BY <2>1, <1>c DEF OncePerName, NamesOf, arg
  <2>4. (\A i \in FlagsOf(list, n + 1) : IsRight(allowed, list[i]))
          <=> /\ \A i \in FlagsOf(list, n) : IsRight(allowed, list[i])
              /\ IsRight(allowed, arg)
    BY <2>1 DEF arg
  <2>5. IsFlagValid(allowed, acc.seen, arg)
          <=> IsRight(allowed, arg) /\ arg.flag \notin NamesOf(list, n)
    BY <1>3 DEF Has, IsFlagValid, IsRight
  <2>6. CASE IsFlagValid(allowed, acc.seen, arg)
    <3>1. new = Parsed(acc.positionals, SetFlag(acc.flags, arg), acc.seen \cup {arg.flag})
      BY <1>3, <2>6 DEF ParseArg
    <3> HIDE DEF new
    <3>2. /\ new.ok /\ new.positionals = acc.positionals
          /\ new.flags = SetFlag(acc.flags, arg) /\ new.seen = acc.seen \cup {arg.flag}
      BY <1>f, <3>1
    <3>5. new.seen = NamesOf(list, n + 1)
      BY <1>3, <2>2, <3>2 DEF Has
    <3>6. DOMAIN new.flags = NamesOf(list, n + 1) \ {"__proto__"}
      BY <1>3, <2>2, <3>2 DEF Has, SetFlag
    <3>7. ASSUME NEW i \in FlagsOf(list, n + 1), list[i].flag # "__proto__"
          PROVE  new.flags[list[i].flag] = list[i].value
      <4>1. CASE i = n + 1
        BY <3>2, <3>7, <4>1 DEF SetFlag, arg
      <4>2. CASE i \in FlagsOf(list, n)
        <5>1. list[i].flag \in NamesOf(list, n) /\ list[i].flag # arg.flag
          BY <2>5, <2>6, <4>2 DEF NamesOf
        <5>2. acc.flags[list[i].flag] = list[i].value /\ list[i].flag \in DOMAIN acc.flags
          BY <1>3, <3>7, <4>2, <5>1 DEF Has
        <5> QED
          BY <3>2, <5>1, <5>2 DEF SetFlag
      <4> QED
        BY <2>1, <4>1, <4>2
    <3>3. Len(new.positionals) = (n + 1) - Cardinality(FlagsOf(list, n + 1))
      <4>1. Len(acc.positionals) = n - Cardinality(FlagsOf(list, n))
        BY <1>3 DEF Has
      <4>2. Cardinality(FlagsOf(list, n + 1)) = Cardinality(FlagsOf(list, n)) + 1
        BY <1>3, <1>d
      <4>3. Len(acc.positionals) = (n + 1) - (Cardinality(FlagsOf(list, n)) + 1)
        BY <1>a, <1>e, <4>1
      <4> QED
        BY <3>2, <4>2, <4>3, Zenon
    <3>4. Has(allowed, list, n + 1, new)
      BY <1>3, <2>3, <2>4, <2>5, <2>6, <3>2, <3>3, <3>5, <3>6, <3>7 DEF Has
    <3> QED
      BY <3>4 DEF new, arg
  <2>7. CASE ~ IsFlagValid(allowed, acc.seen, arg)
    <3>1. new = Rejected
      BY <1>3, <2>7 DEF ParseArg
    <3> HIDE DEF new
    <3>2. Has(allowed, list, n + 1, new)
      BY <1>g, <2>3, <2>4, <2>5, <2>7, <3>1 DEF Has
    <3> QED
      BY <3>2 DEF new, arg
  <2> QED
    BY <2>6, <2>7
<1> QED
  BY <1>1, <1>2, <1>3, <1>b DEF Has

LEMMA ArgsKnown ==
  ASSUME NEW list \in Seq(Argument), NEW allowed
  PROVE  Has(allowed, list, Len(list), ArgLoop(list, allowed)[Len(list)])
<1> DEFINE h == ArgLoop(list, allowed)
           S == {n \in Nat : Has(allowed, list, n, h[n])}
<1>a. /\ Len(list) \in Nat /\ Len(list) \in 0 .. Len(list) /\ 0 \in Nat
      /\ h[0] = Parsed(<<>>, <<>>, {})
      /\ \A n \in 1 .. Len(list) : h[n] = ParseArg(allowed, h[n - 1], list[n])
  BY ArgType, ArgLoopSteps
<1> HIDE DEF h
<1>1. 0 \in S
  <2>1. FlagsOf(list, 0) = {}
    BY DEF FlagsOf
  <2>2. Cardinality(FlagsOf(list, 0)) = 0
    BY <1>a, FlagCount
  <2>3. Has(allowed, list, 0, Parsed(<<>>, <<>>, {}))
    BY <2>1, <2>2 DEF Has, Parsed, OncePerName, NamesOf
  <2> QED
    BY <1>a, <2>3
<1>2. ASSUME NEW n \in 0 .. Len(list) - 1, n \in S
      PROVE  n + 1 \in S
  <2>1. n + 1 \in 1 .. Len(list) /\ (n + 1) - 1 = n /\ n + 1 \in Nat
    BY <1>a
  <2>2. h[n + 1] = ParseArg(allowed, h[n], list[n + 1])
    BY <1>a, <2>1
  <2>3. Has(allowed, list, n, h[n])
    BY <1>2
  <2>4. Has(allowed, list, n + 1, ParseArg(allowed, h[n], list[n + 1]))
    BY <2>3, OneArg
  <2>5. Has(allowed, list, n + 1, h[n + 1])
    BY <2>2, <2>4, Zenon
  <2> QED
    BY <2>1, <2>5
<1> HIDE DEF S
<1>3. 0 .. Len(list) \subseteq S
  BY <1>1, <1>2, <1>a, UpTo
<1> QED
  BY <1>3, <1>a DEF S, h

\* As many names as flags: no two flags have one name.
LEMMA NamesCounted ==
  ASSUME NEW list, NEW n \in Nat
  PROVE  Cardinality(NamesOf(list, n)) = Cardinality(FlagsOf(list, n))
           <=> OncePerName(list, n)
<1> DEFINE F == FlagsOf(list, n)
           M == NamesOf(list, n)
           name == [i \in F |-> list[i].flag]
<1>1. name \in Surjection(F, M)
  BY DEF Surjection, NamesOf
<1>2. name \in Injection(F, M) <=> OncePerName(list, n)
  BY <1>1 DEF Surjection, Injection, IsInjective, OncePerName
<1>3. IsFiniteSet(F)
  BY FlagCount
<1> HIDE DEF F, M, name
<1>4. Cardinality(M) = Cardinality(F) <=> name \in Injection(F, M)
  BY <1>1, <1>3, FS_Surjection
<1> QED
  BY <1>2, <1>4 DEF F, M

\* What is asked of each flag, by the rule and by what passes beyond it.
LEMMA RulesAsked ==
  ASSUME NEW list \in Seq(Argument), NEW allowed, NEW max, NEW required
  PROVE  (FitsAllowlist(list, allowed, max, required)
            \/ FitsButForInherited(list, allowed, max, required))
           <=> /\ required \subseteq NamesOf(list, Len(list))
               /\ Cardinality(NamesOf(list, Len(list))) = Cardinality(FlagsOf(list, Len(list)))
               /\ Len(list) - Cardinality(FlagsOf(list, Len(list))) <= max
               /\ \A i \in FlagsOf(list, Len(list)) : IsRight(allowed, list[i])
<1> DEFINE n == Len(list)
<1>1. /\ FlagAt(list) = FlagsOf(list, n) /\ Names(list) = NamesOf(list, n)
  BY ArgType DEF FlagAt, FlagsOf, Names, NamesOf
<1>2. (\A i \in FlagAt(list) : IsRight(allowed, list[i]))
        <=> /\ \A i \in FlagAt(list) : list[i].flag \in DOMAIN allowed =>
                 IF allowed[list[i].flag] THEN list[i].value \notin {NoValue, Blank}
                                          ELSE list[i].value = NoValue
            /\ \A i \in FlagAt(list) : list[i].flag \notin DOMAIN allowed =>
                 list[i].flag \in Inherited /\ list[i].value = NoValue
  BY DEF IsRight, IsKnown, TakesValue
<1>3. Names(list) \subseteq DOMAIN allowed
        <=> \A i \in FlagAt(list) : list[i].flag \in DOMAIN allowed
  BY DEF Names
<1> QED
  BY <1>1, <1>2, <1>3 DEF FitsAllowlist, FitsButForInherited, FitsOtherwise

\* parseStrictArgs accepts the argument lists that the documented rule admits
\* and, beyond those, exactly the ones whose unknown flags are all named like a
\* property of Object.prototype and have no value; and it hands on the values of
\* the flags of the allowlist.  For every allowlist, every number of positionals
\* and every set of required flags; an object literal cannot have __proto__ for a
\* name.
THEOREM ParserIsExactForAll ==
  ASSUME NEW list \in Seq(Argument), NEW allowed, NEW max \in Nat, NEW required,
         "__proto__" \notin DOMAIN allowed
  PROVE  ParsesAsWritten(list, allowed, max, required)
<1> DEFINE n == Len(list)
           acc == ArgLoop(list, allowed)[n]
           parsed == ParseStrictArgs(list, allowed, max, required)
<1>1. n \in Nat
  BY ArgType
<1>2. Has(allowed, list, n, acc)
  BY ArgsKnown
<1>3. /\ parsed.ok <=> /\ acc.ok
                       /\ Len(acc.positionals) <= max
                       /\ required \subseteq acc.seen
      /\ parsed.ok => parsed = acc
  <2>1. Rejected.ok = FALSE
    BY DEF Rejected
  <2> QED
    BY <1>2, <2>1 DEF ParseStrictArgs, Has
<1>4. Cardinality(NamesOf(list, n)) = Cardinality(FlagsOf(list, n))
        <=> OncePerName(list, n)
  BY <1>1, NamesCounted
<1>5. FlagAt(list) = FlagsOf(list, n)
  BY ArgType DEF FlagAt, FlagsOf
<1> HIDE DEF acc, parsed
<1>6. parsed.ok <=> \/ FitsAllowlist(list, allowed, max, required)
                    \/ FitsButForInherited(list, allowed, max, required)
  <2>1. acc.ok => /\ acc.seen = NamesOf(list, n)
                  /\ Len(acc.positionals) = n - Cardinality(FlagsOf(list, n))
    BY <1>2 DEF Has
  <2>2. acc.ok <=> /\ Cardinality(NamesOf(list, n)) = Cardinality(FlagsOf(list, n))
                   /\ \A i \in FlagsOf(list, n) : IsRight(allowed, list[i])
    BY <1>2, <1>4 DEF Has
  <2>3. parsed.ok <=> /\ required \subseteq NamesOf(list, n)
                      /\ Cardinality(NamesOf(list, n)) = Cardinality(FlagsOf(list, n))
                      /\ n - Cardinality(FlagsOf(list, n)) <= max
                      /\ \A i \in FlagsOf(list, n) : IsRight(allowed, list[i])
    BY <1>3, <2>1, <2>2, Zenon
  <2>4. (FitsAllowlist(list, allowed, max, required)
           \/ FitsButForInherited(list, allowed, max, required))
          <=> /\ required \subseteq NamesOf(list, n)
              /\ Cardinality(NamesOf(list, n)) = Cardinality(FlagsOf(list, n))
              /\ n - Cardinality(FlagsOf(list, n)) <= max
              /\ \A i \in FlagsOf(list, n) : IsRight(allowed, list[i])
    BY RulesAsked, Zenon
  <2> HIDE DEF n
  <2> QED
    BY <2>3, <2>4
<1>7. ASSUME parsed.ok, NEW i \in FlagAt(list), list[i].flag \in DOMAIN allowed
      PROVE  parsed.flags[list[i].flag] = list[i].value
  BY <1>2, <1>3, <1>5, <1>7 DEF Has
<1> QED
  BY <1>6, <1>7 DEF ParsesAsWritten, parsed

\* And so for the arguments of migrate:create.
THEOREM ParserIsExact == args \in Seq(Argument) => ParsedAsWritten
<1>1. "__proto__" \notin DOMAIN CreateFlags
  <2>1. DOMAIN CreateFlags = {FlagOf[k] : k \in HeaderField}
    BY DEF CreateFlags
  <2>2. \A k \in HeaderField : FlagOf[k] # "__proto__"
    BY DEF FlagOf, HeaderField
  <2> QED
    BY <2>1, <2>2
<1> QED
  BY <1>1, ParserIsExactForAll DEF ParsedAsWritten

\* "migrate:down accepts zero arguments of any kind" (down.mjs:3, and so
\* redo.mjs:15), yet they do accept any one flag named like a property of
\* Object.prototype, which the rule does not admit.
THEOREM InheritedIsAccepted ==
  ASSUME NEW name \in Inherited
  PROVE  LET list == <<Flag(name, NoValue)>>
             none == [flag \in {} |-> FALSE]
         IN /\ ParseStrictArgs(list, none, 0, {}).ok
            /\ ~ FitsAllowlist(list, none, 0, {})
<1> DEFINE list == <<Flag(name, NoValue)>>
           none == [flag \in {} |-> FALSE]
           loop == ArgLoop(list, none)
<1>1. /\ Len(list) = 1 /\ Len(list) \in Nat /\ list[1] = Flag(name, NoValue)
      /\ DOMAIN none = {} /\ DOMAIN list = {1}
  OBVIOUS
<1>2. loop[0] = Parsed(<<>>, <<>>, {}) /\ loop[1] = ParseArg(none, loop[0], list[1])
  BY <1>1, ArgLoopSteps
<1> HIDE DEF list, none, loop
<1>3. IsFlagValid(none, {}, list[1])
  BY <1>1 DEF IsFlagValid, IsKnown, TakesValue, Flag
<1>4. loop[1] = Parsed(<<>>, SetFlag(<<>>, list[1]), {} \cup {list[1].flag})
  BY <1>1, <1>2, <1>3 DEF ParseArg, Parsed, Flag
<1>5. loop[1].ok /\ Len(loop[1].positionals) <= 0 /\ {} \subseteq loop[1].seen
  BY <1>4 DEF Parsed
<1>6. ParseStrictArgs(list, none, 0, {}).ok
  BY <1>1, <1>5 DEF ParseStrictArgs, loop
<1>7. Names(list) = {name}
  BY <1>1 DEF Names, FlagAt, Flag
<1>8. ~ FitsAllowlist(list, none, 0, {})
  BY <1>1, <1>7 DEF FitsAllowlist
<1> QED
  BY <1>6, <1>8 DEF list, none

=============================================================================
