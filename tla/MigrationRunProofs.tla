-------------------------- MODULE MigrationRunProofs --------------------------
(***************************************************************************)
(* Proofs about migrate:create and about the commands that run migrations. *)
(* CInv is inductive for runs of migrate:create, alone or beside the other *)
(* commands, which only read migrations/; RInv is what those commands add. *)
(***************************************************************************)
EXTENDS MigrationRun, FiniteSetTheorems, SequenceTheorems, TLAPS

BodyIsValid(body) == ValidateMigrationBody(body) = {}

\* linkSync lets no two files have one name.
UniqueNames ==
  \A f, g \in files : f.prefix = g.prefix /\ f.slug = g.slug => f = g

\* Behind the clock the arguments are good.
ArgsRead ==
  \A p \in Creator : pc[p] \notin {"clock", "done"} =>
    ArgsAccepted(p) /\ SlugOf(p) # NoSlug

\* A run says something at its end only.
SaidAtEnd ==
  \A p \in Creator : outcome[p] # "none" => pc[p] \in {"cleanup", "done"}

\* A file of a run is there after its link(2), and not if that collided.
OwnFile ==
  \A f \in files, p \in Creator : f.by = p =>
    pc[p] \in {"unlink", "cleanup", "done"} /\ outcome[p] # "MIG033"

\* The file a run has linked stays.
Placed ==
  \A p \in Creator : pc[p] = "unlink" \/ outcome[p] = "PASS" =>
    NewFile(p) \in files

\* What a run collided with stays.
Collided ==
  \A p \in Creator : outcome[p] = "MIG033" =>
    \E f \in files : f.prefix = stamp[p]

\* A run links what it has validated.
LinksValid == \A p \in Creator : pc[p] = "link" => BodyIsValid(BodyOf(p))

CInv == CreateTypeOK /\ IsFiniteSet(files) /\ UniqueNames /\ ArgsRead /\ SaidAtEnd
          /\ OwnFile /\ Placed /\ Collided /\ LinksValid

-----------------------------------------------------------------------------
LEMMA CInitial == CreateInit => CInv
<1> SUFFICES ASSUME CreateInit PROVE CInv
  OBVIOUS
<1>1. CASE files = {}
  BY <1>1, FS_EmptySet, CreateAssumption
     DEF CreateInit, CInv, CreateTypeOK, UniqueNames, ArgsRead, SaidAtEnd,
         OwnFile, Placed, Collided, LinksValid
<1>2. CASE \E t \in 0 .. MaxClock, s \in Slug, b \in ByHand :
             files = {[prefix |-> t, slug |-> s, by |-> Someone, body |-> b]}
  <2>1. PICK t \in 0 .. MaxClock, s \in Slug, b \in ByHand :
          files = {[prefix |-> t, slug |-> s, by |-> Someone, body |-> b]}
    BY <1>2
  <2>2. IsFiniteSet(files)
    BY <2>1, FS_Singleton
  <2>3. \A f \in files : IsFile(f)
    BY <2>1 DEF IsFile, FileBy
  <2>4. \A f \in files : f.by = Someone
    BY <2>1
  <2> QED
    BY <2>1, <2>2, <2>3, <2>4, CreateAssumption
       DEF CreateInit, CInv, CreateTypeOK, UniqueNames, ArgsRead, SaidAtEnd,
           OwnFile, Placed, Collided, LinksValid
<1> QED
  BY <1>1, <1>2 DEF CreateInit

\* What a run computes from its arguments does not change.
LEMMA ArgsFixed ==
  ASSUME argv' = argv, NEW p \in Creator
  PROVE  /\ ArgsAccepted(p)' = ArgsAccepted(p)
         /\ SlugOf(p)' = SlugOf(p)
         /\ BodyOf(p)' = BodyOf(p)
BY DEF ArgsAccepted, SlugOf, BodyOf, Args

\* The slug of accepted arguments is one, unless it normalizes to nothing.
LEMMA SlugIsOne ==
  ASSUME CInv, NEW p \in Creator, pc[p] \notin {"clock", "done"}
  PROVE  SlugOf(p) \in Slug
BY CreateAssumption
   DEF CInv, CreateTypeOK, ArgsRead, ArgsAccepted, SlugOf, Args

\* No step but link(2) touches migrations/.
LEMMA FilesFrame ==
  ASSUME CInv, [CreateNext]_createVars
  PROVE  /\ argv' = argv
         /\ \/ files' = files
            \/ \E p \in Creator :
                 /\ Link(p) /\ SameName(p) = {} /\ pc' = [pc EXCEPT ![p] = "unlink"]
                 /\ files' = files \cup {NewFile(p)} /\ outcome' = outcome
<1>1. CASE Tick \/ UNCHANGED createVars
  BY <1>1 DEF Tick, createVars
<1>2. ASSUME NEW p \in Creator, Link(p)
      PROVE  /\ argv' = argv
             /\ \/ files' = files
                \/ /\ SameName(p) = {} /\ pc' = [pc EXCEPT ![p] = "unlink"]
                   /\ files' = files \cup {NewFile(p)} /\ outcome' = outcome
  BY <1>2 DEF Link, Goto
<1>3. ASSUME NEW p \in Creator, (Create(p) \/ Kill(p)) /\ ~ Link(p)
      PROVE  argv' = argv /\ files' = files
  BY <1>3 DEF Create, Kill, Refuse, ReadClock, Scan, MakeTemp, WriteTemp, Validate,
              Unlink, Fail, Cleanup
<1> QED
  BY <1>1, <1>2, <1>3 DEF CreateNext, Create

LEMMA CreateStep == CInv /\ [CreateNext]_createVars => CInv'
<1> SUFFICES ASSUME CInv, [CreateNext]_createVars
             PROVE  CInv'
  OBVIOUS
<1>a. /\ CreateTypeOK /\ UniqueNames /\ ArgsRead /\ SaidAtEnd /\ OwnFile
      /\ Placed /\ Collided /\ LinksValid /\ IsFiniteSet(files)
  BY DEF CInv
<1>b. /\ argv' = argv
      /\ \A p \in Creator : /\ ArgsAccepted(p)' = ArgsAccepted(p)
                            /\ SlugOf(p)' = SlugOf(p)
                            /\ BodyOf(p)' = BodyOf(p)
  BY FilesFrame, ArgsFixed
<1>c. files \subseteq files'
  BY FilesFrame
<1>d. \A p \in Creator : pc[p] # "clock" =>
        stamp'[p] = stamp[p] /\ NewFile(p)' = NewFile(p)
  <2>1. ASSUME NEW p \in Creator, pc[p] # "clock"
        PROVE  stamp'[p] = stamp[p]
    BY <1>a, <2>1 DEF CreateTypeOK, createVars, CreateNext, Tick, Create, Kill, Refuse, ReadClock,
           Scan, MakeTemp, WriteTemp, Validate, Link, Unlink, Fail, Cleanup
  <2> QED
    BY <2>1, <1>b DEF NewFile
<1>e. ASSUME NEW p \in Creator, SameName(p) = {}, files' = files \cup {NewFile(p)},
             pc[p] = "link"
      PROVE  IsFile(NewFile(p))
  BY <1>e, <1>a, SlugIsOne DEF ArgsRead, CreateTypeOK, IsFile, FileBy, NewFile
<1>1. CreateTypeOK'
  <2>1. /\ clock' \in 0 .. MaxClock
        /\ pc' \in [Creator -> {"clock", "scan", "mkdtemp", "write", "validate",
                                "link", "unlink", "cleanup", "done"}]
        /\ stamp' \in [Creator -> 0 .. MaxClock]
        /\ temp' \subseteq Creator
        /\ outcome' \in [Creator -> {"none", "PASS", "MIG002", "MIG030", "MIG032",
                                     "MIG033", "MIG034", "INVALID", "MIG900"}]
    BY <1>a, CreateAssumption
       DEF CreateTypeOK, createVars, CreateNext, Tick, Create, Kill, Refuse,
           ReadClock, Scan, MakeTemp, WriteTemp, Validate, Link, Unlink, Fail,
           Cleanup, Goto, Return
  <2>2. ASSUME NEW f, IsFile(f)
        PROVE  IsFile(f)'
    BY <1>b, <2>2 DEF IsFile, FileBy
  <2>3. \A f \in files' : IsFile(f)'
    BY <1>a, <1>e, <2>2, FilesFrame DEF CreateTypeOK, Link
  <2> QED
    BY <1>a, <1>b, <2>1, <2>2, <2>3 DEF CreateTypeOK
<1>2. ArgsRead' /\ SaidAtEnd' /\ LinksValid'
  BY <1>a, <1>b
     DEF CreateTypeOK, ArgsRead, SaidAtEnd, LinksValid, createVars, CreateNext,
         Tick, Create, Kill, Refuse, ReadClock, Scan, MakeTemp, WriteTemp,
         Validate, Link, Unlink, Fail, Cleanup, Goto, Return, BodyIsValid
<1>3. IsFiniteSet(files')
  BY <1>a, FilesFrame, FS_AddElement
<1>4. UniqueNames'
  BY <1>a, FilesFrame DEF UniqueNames, SameName, NewFile
<1>5. OwnFile'
  <2>1. ASSUME NEW p \in Creator, pc[p] \in {"unlink", "cleanup", "done"},
               outcome[p] # "MIG033"
        PROVE  pc'[p] \in {"unlink", "cleanup", "done"} /\ outcome'[p] # "MIG033"
    BY <1>a, <2>1
       DEF CreateTypeOK, createVars, CreateNext, Tick, Create, Kill, Refuse,
           ReadClock, Scan, MakeTemp, WriteTemp, Validate, Link, Unlink, Fail,
           Cleanup, Goto, Return
  <2>2. ASSUME NEW p \in Creator, pc' = [pc EXCEPT ![p] = "unlink"],
               pc[p] = "link", outcome' = outcome
        PROVE  pc'[p] = "unlink" /\ outcome'[p] # "MIG033"
    BY <1>a, <2>2 DEF CreateTypeOK, SaidAtEnd
  <2> QED
    BY <1>a, <2>1, <2>2, FilesFrame DEF OwnFile, NewFile, Link
<1>6. Placed'
  <2>1. ASSUME NEW p \in Creator, pc'[p] = "unlink" \/ outcome'[p] = "PASS",
               pc[p] # "unlink", outcome[p] # "PASS"
        PROVE  Link(p) /\ pc'[p] = "unlink"
    BY <1>a, <2>1
       DEF CreateTypeOK, createVars, CreateNext, Tick, Create, Kill, Refuse,
           ReadClock, Scan, MakeTemp, WriteTemp, Validate, Link, Unlink, Fail,
           Cleanup, Goto, Return
  <2>2. ASSUME NEW p \in Creator, Link(p), pc'[p] = "unlink"
        PROVE  NewFile(p) \in files' /\ pc[p] # "clock"
    BY <1>a, <2>2 DEF Link, Return, Goto, CreateTypeOK
  <2>3. ASSUME NEW p \in Creator, pc[p] = "unlink" \/ outcome[p] = "PASS"
        PROVE  NewFile(p) \in files /\ pc[p] # "clock"
    BY <1>a, <2>3 DEF Placed, SaidAtEnd
  <2> QED
    BY <1>c, <1>d, <2>1, <2>2, <2>3 DEF Placed
<1>7. Collided'
  <2>1. ASSUME NEW p \in Creator, outcome'[p] = "MIG033", outcome[p] # "MIG033"
        PROVE  pc[p] # "clock" /\ \E f \in files : f.prefix = stamp[p]
    BY <1>a, <2>1
       DEF CreateTypeOK, createVars, CreateNext, Tick, Create, Kill, Refuse,
           ReadClock, Scan, MakeTemp, WriteTemp, Validate, Link, Unlink, Fail,
           Cleanup, Goto, Return, SameName
  <2>2. ASSUME NEW p \in Creator, outcome[p] = "MIG033"
        PROVE  pc[p] # "clock" /\ \E f \in files : f.prefix = stamp[p]
    BY <1>a, <2>2 DEF Collided, SaidAtEnd
  <2> QED
    BY <1>c, <1>d, <2>1, <2>2 DEF Collided
<1> QED
  BY <1>1, <1>2, <1>3, <1>4, <1>5, <1>6, <1>7 DEF CInv

LEMMA CInvariance == CreateSpec => []CInv
BY CInitial, CreateStep, PTL DEF CreateSpec

\* Whoever was told PASS has its file in place, and no other file of that name.
LEMMA CInvKeeps == CInv => CreatedIsKept
<1> SUFFICES ASSUME CInv, NEW p \in Creator, outcome[p] = "PASS"
             PROVE  SameName(p) = {NewFile(p)}
  BY DEF CreatedIsKept
<1>1. NewFile(p) \in SameName(p)
  BY DEF CInv, Placed, SameName, NewFile
<1>2. \A f, g \in SameName(p) : f = g
  BY DEF CInv, UniqueNames, SameName
<1> QED
  BY <1>1, <1>2

LEMMA CInvCollides == CInv => CollisionIsReal
BY DEF CInv, CollisionIsReal, OwnFile, Collided

\* migrate:create, by itself: a created file is never overwritten or removed
\* (creation.mjs:5-6), by any number of concurrent runs that fail or are killed
\* anywhere.
THEOREM CreateKeeps == CreateSpec => []CreatedIsKept
BY CInvariance, CInvKeeps, PTL

\* MIG033 is said by a run that left nothing behind, of a file that is there.
THEOREM CreateCollides == CreateSpec => []CollisionIsReal
BY CInvariance, CInvCollides, PTL

-----------------------------------------------------------------------------
Sorted(s) == \A i, j \in 1 .. Len(s) : i < j => Before(s[i], s[j])

\* One process at a time is between its BEGIN and its COMMIT.
LockHeld == \A d \in Runner : at[d] = "loaded" => lock = d

Roles == \A d \in Runner : action[d] = "down" => command[d] \in {"down", "redo"}

\* What a loaded process is going to do still fits the applied migrations.
PlanFits ==
  \A d \in Runner : at[d] = "loaded" =>
    /\ action[d] = "down" => Len(plan[d]) <= 1 /\ Len(plan[d]) <= Len(pgmigrations)
    /\ action[d] = "up" => Sorted(pgmigrations \o plan[d])
    /\ command[d] = "up" =>
         unseen[d] \subseteq ToSet(pgmigrations) \cup ToSet(plan[d])

\* redo's halves are given a count of one.
RedoPlans == \A d \in Runner : command[d] = "redo" => Len(plan[d]) <= 1

Said ==
  \A d \in Runner :
    /\ at[d] = "start" => exit[d] = "none"
    /\ report[d] # "none" => at[d] = "done"
    /\ report[d] = "PASS" => exit[d] = "0"
    /\ command[d] = "up" /\ exit[d] = "0" => unseen[d] = {}

\* Nobody has come past the validation, or all files are valid: what
\* migrate:create adds meanwhile is.
FilesValid ==
  \/ pgmigrations = <<>> /\ \A d \in Runner : at[d] \in {"start", "done"}
  \/ \A f \in files : BodyIsValid(f.body)

RInv == CInv /\ TypeOK /\ LockHeld /\ Roles /\ PlanFits /\ Said /\ FilesValid
          /\ Sorted(pgmigrations) /\ RedoPlans

LEMMA RInitial == Init => RInv
BY CInitial
   DEF Init, RInv, CInv, TypeOK, LockHeld, Roles, PlanFits, Said, FilesValid, Sorted,
       RedoPlans

LEMMA SortingType ==
  ASSUME IsFiniteSet(files), NEW S \in SUBSET files, NEW s \in Sortings(S)
  PROVE  s \in Seq(S) /\ ToSet(s) = S /\ Sorted(s)
<1>1. Cardinality(S) \in Nat
  BY FS_Subset, FS_CardinalityType
<1> QED
  BY <1>1 DEF Sortings, Sorted

LEMMA ToSetIsRange ==
  ASSUME NEW S, NEW s \in Seq(S)
  PROVE  /\ ToSet(s) \subseteq S
         /\ \A i \in 1 .. Len(s) : s[i] \in ToSet(s)
         /\ \A x \in ToSet(s) : \E i \in 1 .. Len(s) : x = s[i]
BY DEF ToSet

LEMMA LongerSet ==
  ASSUME NEW S, NEW T, S \subseteq T
  PROVE  Seq(S) \subseteq Seq(T)
OBVIOUS

LEMMA FirstIsOne ==
  ASSUME NEW S, NEW s \in Seq(S)
  PROVE  First(s) \in Seq(S) /\ Len(First(s)) <= 1 /\ Len(First(s)) <= Len(s)
<1>1. CASE s = <<>>
  BY <1>1 DEF First
<1>2. CASE s # <<>>
  <2>1. Len(s) # 0 /\ Len(s) \in Nat /\ Head(s) = s[1]
    BY <1>2, EmptySeq
  <2>2. s[1] \in S
    BY <2>1
  <2>3. First(s) = <<s[1]>>
    BY <1>2, <2>1 DEF First
  <2> QED
    BY <2>1, <2>2, <2>3
<1> QED
  BY <1>1, <1>2

LEMMA ReverseType ==
  ASSUME NEW S, NEW s \in Seq(S)
  PROVE  Reverse(s) \in Seq(S) /\ Len(Reverse(s)) = Len(s)
<1>1. Reverse(s) = [i \in 1 .. Len(s) |-> s[(Len(s) - i) + 1]]
  BY DEF Reverse
<1>2. \A i \in 1 .. Len(s) : s[(Len(s) - i) + 1] \in S
  OBVIOUS
<1> QED
  BY <1>1, <1>2

LEMMA SortedConcat ==
  ASSUME NEW S, NEW s \in Seq(S), NEW t \in Seq(S), Sorted(s), Sorted(t),
         \A i \in 1 .. Len(s), j \in 1 .. Len(t) : Before(s[i], t[j])
  PROVE  Sorted(s \o t)
<1> SUFFICES ASSUME NEW i \in 1 .. Len(s \o t), NEW j \in 1 .. Len(s \o t), i < j
             PROVE  Before((s \o t)[i], (s \o t)[j])
  BY DEF Sorted
<1>1. CASE j <= Len(s)
  <2>1. (s \o t)[i] = s[i] /\ (s \o t)[j] = s[j]
    BY <1>1
  <2> QED
    BY <1>1, <2>1 DEF Sorted
<1>2. CASE i > Len(s)
  <2>1. /\ (s \o t)[i] = t[i - Len(s)] /\ i - Len(s) \in 1 .. Len(t)
        /\ (s \o t)[j] = t[j - Len(s)] /\ j - Len(s) \in 1 .. Len(t)
    BY <1>2
  <2> QED
    BY <2>1 DEF Sorted
<1>3. CASE i <= Len(s) /\ j > Len(s)
  <2>1. /\ (s \o t)[i] = s[i] /\ i \in 1 .. Len(s)
        /\ (s \o t)[j] = t[j - Len(s)] /\ j - Len(s) \in 1 .. Len(t)
    BY <1>3
  <2> QED
    BY <2>1
<1> QED
  BY <1>1, <1>2, <1>3

\* What Load puts into a plan.
LEMMA PlansOf ==
  ASSUME RInv, InOrder, NEW d \in Runner, NEW m \in Plans(d)
  PROVE  /\ m \in Seq(files)
         /\ action[d] = "down" => Len(m) <= 1 /\ Len(m) <= Len(pgmigrations)
         /\ action[d] = "up" => Sorted(pgmigrations \o m)
         /\ command[d] = "up" => files \subseteq ToSet(pgmigrations) \cup ToSet(m)
         /\ command[d] = "redo" => Len(m) <= 1
<1> DEFINE pending == files \ ToSet(pgmigrations)
<1>a. /\ IsFiniteSet(files) /\ pgmigrations \in Seq(files)
      /\ Sorted(pgmigrations)
      /\ command[d] \in {"up", "dry run", "down", "redo"}
      /\ action[d] \in {"up", "down"}
      /\ action[d] = "down" => command[d] \in {"down", "redo"}
  BY RunAssumption DEF RInv, CInv, TypeOK, Roles
<1>b. /\ \A i \in 1 .. Len(pgmigrations) : pgmigrations[i] \in ToSet(pgmigrations)
      /\ DOMAIN pgmigrations = 1 .. Len(pgmigrations)
      /\ Len(pgmigrations) \in Nat
  <2>1. pgmigrations \in Seq(files)
    BY <1>a
  <2>2. DOMAIN pgmigrations = 1 .. Len(pgmigrations) /\ Len(pgmigrations) \in Nat
    BY <2>1
  <2> QED
    BY <2>2 DEF ToSet
<1>1. CASE command[d] = "dry run"
  <2>1. m = <<>>
    BY <1>1, <1>a DEF Plans, Counted
  <2>2. m \in Seq(files) /\ Len(m) = 0 /\ pgmigrations \o m = pgmigrations
    <3>1. m \in Seq(files) /\ Len(m) = 0
      BY <2>1
    <3>2. pgmigrations \in Seq(files)
      BY <1>a
    <3> QED
      BY <2>1, <3>1, <3>2, ConcatEmptySeq
  <2> QED
    BY <2>2, <1>1, <1>a, <1>b
<1>2. CASE action[d] = "down"
  <2>1. m = First(Reverse(pgmigrations))
    BY <1>2, <1>a DEF Plans, Counted
  <2>2. Reverse(pgmigrations) \in Seq(files) /\ Len(Reverse(pgmigrations)) = Len(pgmigrations)
    BY <1>a, ReverseType
  <2>3. m \in Seq(files) /\ Len(m) <= 1 /\ Len(m) <= Len(pgmigrations)
    BY <2>1, <2>2, FirstIsOne
  <2> QED
    BY <1>2, <1>a, <2>3
<1>3. CASE action[d] = "up" /\ command[d] # "dry run"
  <2>1. PICK s \in Sortings(pending) :
          /\ m = s \/ m = First(s)
          /\ command[d] = "up" => m = s
          /\ command[d] = "redo" => m = First(s)
    BY <1>3, <1>a DEF Plans, Counted
  <2>2. s \in Seq(pending) /\ ToSet(s) = pending /\ Sorted(s)
    BY <1>a, SortingType
  <2>3. m \in Seq(pending) /\ Sorted(m)
    <3>1. CASE m = First(s)
      <4>1. m \in Seq(pending) /\ Len(m) <= 1
        BY <2>2, <3>1, FirstIsOne
      <4> QED
        BY <4>1 DEF Sorted
    <3> QED
      BY <2>1, <2>2, <3>1
  <2>4. m \in Seq(files)
    BY <2>3, LongerSet
  <2>5. PICK sorted \in Sortings(files) :
          \A i \in DOMAIN pgmigrations : pgmigrations[i] = sorted[i]
    BY DEF InOrder
  <2>6. sorted \in Seq(files) /\ ToSet(sorted) = files /\ Sorted(sorted)
    BY <1>a, <2>5, SortingType
  <2>7. ASSUME NEW i \in 1 .. Len(pgmigrations), NEW j \in 1 .. Len(m)
        PROVE  Before(pgmigrations[i], m[j])
    <3>1. m[j] \in files /\ m[j] \notin ToSet(pgmigrations)
      BY <2>3
    <3>2. PICK k \in 1 .. Len(sorted) : m[j] = sorted[k]
      BY <3>1, <2>6, ToSetIsRange, SMTT(30)
    <3>3. ~ k \in 1 .. Len(pgmigrations)
      BY <3>1, <3>2, <2>5, <1>b
    <3>4. i \in 1 .. Len(sorted) /\ i < k /\ pgmigrations[i] = sorted[i]
      BY <3>2, <3>3, <2>5, <2>6, <1>b
    <3> QED
      BY <3>2, <3>4, <2>6 DEF Sorted
  <2>8. Sorted(pgmigrations \o m)
    BY <1>a, <2>3, <2>4, <2>7, SortedConcat
  <2>9. command[d] = "redo" => Len(m) <= 1
    BY <2>1, <2>2, FirstIsOne
  <2> QED
    BY <1>3, <2>1, <2>2, <2>4, <2>8, <2>9
<1> QED
  BY <1>1, <1>2, <1>3, <1>a

\* migrate:create beside the commands: what they have is left alone, and the
\* new file is valid.
LEMMA CreateBeside ==
  ASSUME RInv, [CreateNext]_createVars, UNCHANGED runVars
  PROVE  RInv'
<1>a. /\ CInv /\ TypeOK /\ LockHeld /\ Roles /\ PlanFits /\ Said /\ FilesValid
      /\ Sorted(pgmigrations) /\ RedoPlans
  BY DEF RInv
<1>1. CInv'
  BY <1>a, CreateStep
<1>2. files \subseteq files'
  BY <1>a, FilesFrame
<1>3. TypeOK'
  <2>1. Seq(files) \subseteq Seq(files')
    BY <1>2, LongerSet
  <2>2. plan' \in [Runner -> Seq(files')] /\ pgmigrations' \in Seq(files')
    BY <1>a, <2>1 DEF TypeOK, runVars
  <2>3. unseen' \in [Runner -> SUBSET files']
    BY <1>a, <1>2 DEF TypeOK, runVars
  <2> QED
    BY <1>a, <1>1, <2>2, <2>3 DEF CInv, TypeOK, runVars
<1>4. FilesValid'
  <2>1. \A f \in files' : f \in files \/ BodyIsValid(f.body)
    BY <1>a, FilesFrame DEF CInv, LinksValid, Link, NewFile
  <2> QED
    BY <1>a, <2>1 DEF FilesValid, runVars, BodyIsValid
<1>5. LockHeld' /\ Roles' /\ Said' /\ PlanFits' /\ Sorted(pgmigrations)'
  <2>1. LockHeld' /\ Roles' /\ Said'
    BY <1>a DEF LockHeld, Roles, Said, runVars
  <2>2. PlanFits'
    BY <1>a DEF PlanFits, runVars, Sorted, Before
  <2>3. Sorted(pgmigrations)'
    BY <1>a DEF runVars, Sorted, Before
  <2> QED
    BY <2>1, <2>2, <2>3
<1>6. RedoPlans'
  BY <1>a DEF RedoPlans, runVars
<1> QED
  BY <1>1, <1>3, <1>4, <1>5, <1>6 DEF RInv

\* PlanFits after a step that leaves the database alone.
LEMMA PlanFitsLater ==
  ASSUME pgmigrations' = pgmigrations, command' = command,
         \A e \in Runner : at'[e] = "loaded" =>
           /\ action'[e] = action[e] /\ unseen'[e] = unseen[e]
           /\ action[e] = "down" => /\ Len(plan'[e]) <= 1
                                    /\ Len(plan'[e]) <= Len(pgmigrations)
           /\ action[e] = "up" => Sorted(pgmigrations \o plan'[e])
           /\ command[e] = "up" =>
                unseen[e] \subseteq ToSet(pgmigrations) \cup ToSet(plan'[e])
  PROVE  PlanFits'
<1> SUFFICES ASSUME NEW e \in Runner, at'[e] = "loaded"
             PROVE  /\ action'[e] = "down" => /\ Len(plan'[e]) <= 1
                                              /\ Len(plan'[e]) <= Len(pgmigrations')
                    /\ action'[e] = "up" => Sorted(pgmigrations' \o plan'[e])
                    /\ command'[e] = "up" =>
                         unseen'[e] \subseteq ToSet(pgmigrations') \cup ToSet(plan'[e])
  BY Zenon DEF PlanFits
<1>1. action'[e] = action[e] /\ unseen'[e] = unseen[e] /\ command'[e] = command[e]
  OBVIOUS
<1>2. action'[e] = "down" => Len(plan'[e]) <= 1 /\ Len(plan'[e]) <= Len(pgmigrations')
  BY <1>1
<1>3. action'[e] = "up" => Sorted(pgmigrations' \o plan'[e])
  BY <1>1, Zenon
<1>4. command'[e] = "up" =>
        unseen'[e] \subseteq ToSet(pgmigrations') \cup ToSet(plan'[e])
  BY <1>1, Zenon
<1> QED
  BY <1>2, <1>3, <1>4

\* What the wrappers do before and after their process.
LEMMA WrapperStep ==
  ASSUME RInv, NEW d \in Runner,
         Check(d) \/ RefuseRun(d) \/ LoadFails(d) \/ RunFails(d) \/ Conclude(d) \/ RedoUp(d)
  PROVE  RInv'
<1>a. /\ CInv /\ TypeOK /\ LockHeld /\ Roles /\ PlanFits /\ Said /\ FilesValid
      /\ Sorted(pgmigrations) /\ RedoPlans
  BY DEF RInv
<1>b. UNCHANGED <<createVars, plan, pgmigrations, command>>
  BY DEF Check, RefuseRun, LoadFails, RunFails, Conclude, RedoUp
<1>1. CInv'
  BY <1>a, <1>b, CreateStep
<1>2. TypeOK'
  <2>1. files' = files /\ plan' = plan /\ pgmigrations' = pgmigrations /\ command' = command
    BY <1>b DEF createVars
  <2>2. /\ at' \in [Runner -> {"start", "spawn", "loaded", "exited", "done"}]
        /\ action' \in [Runner -> {"up", "down"}]
        /\ lock' \in Runner \cup {Free}
    BY <1>a DEF TypeOK, Check, RefuseRun, LoadFails, RunFails, Conclude, RedoUp, Move,
                Report, Exit
  <2>3. exit' \in [Runner -> {"none", "0", "1", "killed"}]
    BY <1>a DEF TypeOK, Check, RefuseRun, LoadFails, RunFails, Conclude, RedoUp, Exit
  <2>4. report' \in [Runner -> {"none", "INVALID", "REFUSED", "PASS", "FAIL",
                               "MIG031", "MIG035"}]
    BY <1>a DEF TypeOK, Check, RefuseRun, LoadFails, RunFails, Conclude, RedoUp, Report
  <2>5. unseen' \in [Runner -> SUBSET files]
    BY <1>a DEF TypeOK, Check, RefuseRun, LoadFails, RunFails, Conclude, RedoUp
  <2> QED
    BY <1>1, <1>a, <2>1, <2>2, <2>3, <2>4, <2>5 DEF CInv, TypeOK
<1>3. LockHeld' /\ Roles'
  <2>1. LockHeld'
    BY <1>a, <1>b, RunAssumption
       DEF TypeOK, LockHeld, Check, RefuseRun, LoadFails, RunFails, Conclude, RedoUp,
           Move, Report, Exit
  <2>2. Roles'
    BY <1>a, <1>b
       DEF TypeOK, Roles, Check, RefuseRun, LoadFails, RunFails, Conclude, RedoUp,
           Move, Report, Exit
  <2> QED
    BY <2>1, <2>2
<1>4. PlanFits'
  <2>1. ASSUME NEW e \in Runner, at'[e] = "loaded"
        PROVE  at[e] = "loaded" /\ action'[e] = action[e] /\ unseen'[e] = unseen[e]
    BY <1>a, <2>1 DEF TypeOK, Check, RefuseRun, LoadFails, RunFails, Conclude, RedoUp,
                      Move, Report, Exit
  <2>2. pgmigrations' = pgmigrations /\ plan' = plan /\ command' = command
    BY <1>b
  <2>3. ASSUME NEW e \in Runner, at'[e] = "loaded"
        PROVE  /\ action[e] = "down" => /\ Len(plan[e]) <= 1
                                        /\ Len(plan[e]) <= Len(pgmigrations)
               /\ action[e] = "up" => Sorted(pgmigrations \o plan[e])
               /\ command[e] = "up" =>
                    unseen[e] \subseteq ToSet(pgmigrations) \cup ToSet(plan[e])
    BY <1>a, <2>1, <2>3, Zenon DEF PlanFits
  <2>4. ASSUME NEW e \in Runner, at'[e] = "loaded"
        PROVE  /\ action[e] = "down" => /\ Len(plan'[e]) <= 1
                                        /\ Len(plan'[e]) <= Len(pgmigrations)
               /\ action[e] = "up" => Sorted(pgmigrations \o plan'[e])
               /\ command[e] = "up" =>
                    unseen[e] \subseteq ToSet(pgmigrations) \cup ToSet(plan'[e])
    BY <2>2, <2>3, <2>4, Zenon
  <2> QED
    BY <2>1, <2>2, <2>4, PlanFitsLater
<1>5. Said'
  BY <1>a, <1>b DEF TypeOK, Said, Check, RefuseRun, LoadFails, RunFails, Conclude, RedoUp,
                    Move, Report, Exit
<1>6. FilesValid'
  <2>1. files' = files /\ pgmigrations' = pgmigrations
    BY <1>b DEF createVars
  <2>2. CASE \A f \in files : BodyIsValid(f.body)
    BY <2>1, <2>2 DEF FilesValid, BodyIsValid
  <2>3. CASE pgmigrations = <<>> /\ \A e \in Runner : at[e] \in {"start", "done"}
    <3>1. CASE at' = [at EXCEPT ![d] = "done"]
      BY <1>a, <2>1, <2>3, <3>1 DEF TypeOK, FilesValid
    <3>2. CASE ValidateDirectory(files, Stray) = {}
      <4>1. \A f \in files : BodyIsValid(f.body)
        BY <3>2 DEF ValidateDirectory, BodyIsValid
      <4> QED
        BY <4>1, <2>2
    <3> QED
      BY <2>3, <3>1, <3>2 DEF Check, RefuseRun, LoadFails, RunFails, Conclude, RedoUp,
                              Move, Report
  <2> QED
    BY <1>a, <2>2, <2>3 DEF FilesValid
<1>7. Sorted(pgmigrations)' /\ RedoPlans'
  BY <1>a, <1>b DEF Sorted, Before, RedoPlans
<1> QED
  BY <1>1, <1>2, <1>3, <1>4, <1>5, <1>6, <1>7 DEF RInv

LEMMA LoadStep == ASSUME RInv, NEW d \in Runner, Load(d) PROVE RInv'
<1>a. /\ CInv /\ TypeOK /\ LockHeld /\ Roles /\ PlanFits /\ Said /\ FilesValid
      /\ Sorted(pgmigrations) /\ RedoPlans
  BY DEF RInv
<1>b. UNCHANGED <<createVars, command, action, exit, report, unseen, pgmigrations>>
  BY DEF Load
<1>c. PICK m \in Plans(d) : plan' = [plan EXCEPT ![d] = m]
  BY DEF Load
<1>d. /\ m \in Seq(files)
      /\ action[d] = "down" => Len(m) <= 1 /\ Len(m) <= Len(pgmigrations)
      /\ action[d] = "up" => Sorted(pgmigrations \o m)
      /\ command[d] = "up" => files \subseteq ToSet(pgmigrations) \cup ToSet(m)
      /\ command[d] = "redo" => Len(m) <= 1
  BY <1>c, PlansOf DEF Load
<1>e. files' = files
  BY <1>b DEF createVars
<1>1. CInv'
  BY <1>a, <1>b, CreateStep
<1>2. TypeOK'
  BY <1>a, <1>b, <1>c, <1>d, <1>e, <1>1 DEF CInv, TypeOK, Load, Move
<1>3. LockHeld' /\ Roles' /\ Said'
  <2>1. LockHeld'
    BY <1>a, <1>b, RunAssumption DEF TypeOK, LockHeld, Load, Move
  <2>2. Roles'
    BY <1>a, <1>b DEF Roles, Load
  <2>3. Said'
    BY <1>a, <1>b DEF TypeOK, Said, Load, Move
  <2> QED
    BY <2>1, <2>2, <2>3
<1>4. PlanFits'
  <2>1. ASSUME NEW e \in Runner, at'[e] = "loaded"
        PROVE  e = d
    BY <1>a, <2>1, RunAssumption DEF TypeOK, LockHeld, Load, Move
  <2>2. plan'[d] = m /\ unseen[d] \subseteq files
    BY <1>a, <1>c DEF TypeOK
  <2>3. command[d] = "up" => unseen[d] \subseteq ToSet(pgmigrations) \cup ToSet(m)
    BY <1>d, <2>2
  <2>4. ASSUME NEW e \in Runner, at'[e] = "loaded"
        PROVE  /\ action'[e] = action[e] /\ unseen'[e] = unseen[e]
               /\ action[e] = "down" => /\ Len(plan'[e]) <= 1
                                        /\ Len(plan'[e]) <= Len(pgmigrations)
               /\ action[e] = "up" => Sorted(pgmigrations \o plan'[e])
               /\ command[e] = "up" =>
                    unseen[e] \subseteq ToSet(pgmigrations) \cup ToSet(plan'[e])
    <3>1. e = d
      BY <2>1, <2>4
    <3>2. plan'[e] = m
      BY <2>2, <3>1
    <3>3. action[e] = "up" => Sorted(pgmigrations \o plan'[e])
      BY <1>d, <3>1, <3>2, Zenon
    <3>4. command[e] = "up" =>
            unseen[e] \subseteq ToSet(pgmigrations) \cup ToSet(plan'[e])
      BY <2>3, <3>1, <3>2, Zenon
    <3> QED
      BY <1>b, <1>d, <3>1, <3>2, <3>3, <3>4
  <2> QED
    BY <1>b, <2>4, PlanFitsLater
<1>5. FilesValid'
  BY <1>a, <1>b, <1>e DEF FilesValid, BodyIsValid, Load
<1>6. Sorted(pgmigrations)'
  BY <1>a, <1>b DEF Sorted, Before
<1>7. RedoPlans'
  BY <1>a, <1>b, <1>c, <1>d DEF TypeOK, RedoPlans
<1> QED
  BY <1>1, <1>2, <1>3, <1>4, <1>5, <1>6, <1>7 DEF RInv

\* What COMMIT makes of the applied migrations.
LEMMA CommitMakes ==
  ASSUME RInv, NEW d \in Runner, Commit(d)
  PROVE  /\ pgmigrations' \in Seq(files)
         /\ Sorted(pgmigrations')
         /\ command[d] = "up" => unseen[d] \subseteq ToSet(pgmigrations')
         /\ \/ IsPrefix(pgmigrations, pgmigrations')
            \/ pgmigrations' = Front(pgmigrations)
         /\ command[d] = "redo" => Len(pgmigrations') <= Len(pgmigrations) + 1
<1> DEFINE pg == pgmigrations
           m == plan[d]
<1>a. /\ pg \in Seq(files) /\ m \in Seq(files) /\ Sorted(pg)
      /\ action[d] \in {"up", "down"}
      /\ action[d] = "down" => Len(m) <= 1 /\ Len(m) <= Len(pg)
      /\ action[d] = "up" => Sorted(pg \o m)
      /\ command[d] = "up" => action[d] = "up"
      /\ command[d] = "up" => unseen[d] \subseteq ToSet(pg) \cup ToSet(m)
      /\ command[d] = "redo" => Len(m) <= 1
  BY DEF RInv, TypeOK, PlanFits, RedoPlans, Roles, Commit
<1>b. /\ action[d] = "up" => pgmigrations' = pg \o m
      /\ action[d] = "down" => pgmigrations' = SubSeq(pg, 1, Len(pg) - Len(m))
  BY DEF Commit
<1> HIDE DEF pg, m
<1>1. CASE action[d] = "up"
  <2>1. pg \o m \in Seq(files)
    BY <1>a
  <2>2. ToSet(pg) \cup ToSet(m) \subseteq ToSet(pg \o m)
    <3>1. /\ \A i \in 1 .. Len(pg) : (pg \o m)[i] = pg[i] /\ i \in 1 .. Len(pg \o m)
          /\ \A i \in 1 .. Len(m) : /\ (pg \o m)[i + Len(pg)] = m[i]
                                  /\ i + Len(pg) \in 1 .. Len(pg \o m)
      BY <1>a
    <3>2. /\ DOMAIN pg = 1 .. Len(pg) /\ DOMAIN m = 1 .. Len(m)
          /\ DOMAIN (pg \o m) = 1 .. Len(pg \o m)
      BY <1>a
    <3>3. ToSet(pg) \subseteq ToSet(pg \o m)
      BY <3>1, <3>2 DEF ToSet
    <3>4. ToSet(m) \subseteq ToSet(pg \o m)
      BY <3>1, <3>2 DEF ToSet
    <3> QED
      BY <3>3, <3>4
  <2>3. IsPrefix(pg, pg \o m)
    BY <1>a DEF IsPrefix
  <2>4. command[d] = "redo" => Len(pg \o m) <= Len(pg) + 1
    BY <1>a
  <2> QED
    BY <1>1, <1>a, <1>b, <2>1, <2>2, <2>3, <2>4 DEF pg
<1>2. CASE action[d] = "down" /\ Len(m) = 0
  <2>1. SubSeq(pg, 1, Len(pg) - Len(m)) = pg
    BY <1>2, <1>a
  <2>2. IsPrefix(pg, pg)
    BY <1>a DEF IsPrefix
  <2>3. pgmigrations' = pg /\ command[d] # "up"
    BY <1>2, <1>a, <1>b, <2>1
  <2>4. Len(pg) <= Len(pg) + 1
    BY <1>a
  <2> QED
    BY <1>2, <1>a, <2>2, <2>3, <2>4 DEF pg
<1>3. CASE action[d] = "down" /\ Len(m) = 1
  <2>0. Len(pg) \in Nat \ {0} /\ Len(pg) - Len(m) = Len(pg) - 1
    BY <1>3, <1>a
  <2>1. SubSeq(pg, 1, Len(pg) - Len(m)) = Front(pg)
    BY <2>0 DEF Front
  <2>2. /\ Front(pg) \in Seq(files) /\ Sorted(Front(pg))
        /\ Len(Front(pg)) <= Len(pg) + 1
    <3> DEFINE n == Len(pg) - 1
    <3>1. Front(pg) = SubSeq(pg, 1, n)
      BY DEF Front
    <3>2. /\ n \in Nat /\ 1 \in Int /\ n \in Int
          /\ \A i \in 1 .. n : pg[i] \in files /\ i \in 1 .. Len(pg) /\ 1 + i - 1 = i
      BY <1>a, <2>0
    <3> HIDE DEF n
    <3>3. /\ SubSeq(pg, 1, n) \in Seq(files)
          /\ Len(SubSeq(pg, 1, n)) = IF 1 <= n THEN n - 1 + 1 ELSE 0
          /\ \A i \in 1 .. n - 1 + 1 : SubSeq(pg, 1, n)[i] = pg[1 + i - 1]
      BY <3>2, SubSeqProperties
    <3>4. Len(SubSeq(pg, 1, n)) = n /\ n - 1 + 1 = n
      BY <3>2, <3>3
    <3>5. \A i \in 1 .. n : SubSeq(pg, 1, n)[i] = pg[i]
      BY <3>2, <3>3, <3>4
    <3>6. Sorted(SubSeq(pg, 1, n))
      BY <1>a, <3>2, <3>4, <3>5 DEF Sorted
    <3>7. Len(SubSeq(pg, 1, n)) <= Len(pg) + 1
      BY <2>0, <3>4 DEF n
    <3> QED
      BY <3>1, <3>3, <3>6, <3>7
  <2>3. pgmigrations' = Front(pg) /\ command[d] # "up"
    BY <1>3, <1>a, <1>b, <2>1
  <2> QED
    BY <1>3, <1>a, <2>2, <2>3 DEF pg
<1>4. Len(m) \in Nat
  BY <1>a
<1>5. \/ action[d] = "up"
      \/ action[d] = "down" /\ Len(m) = 0
      \/ action[d] = "down" /\ Len(m) = 1
  <2>1. action[d] = "down" => Len(m) <= 1
    BY <1>a
  <2>2. action[d] \in {"up", "down"}
    BY <1>a
  <2> QED
    BY <2>1, <2>2, <1>4
<1> QED
  BY <1>1, <1>2, <1>3, <1>5

LEMMA CommitStep == ASSUME RInv, NEW d \in Runner, Commit(d) PROVE RInv'
<1>a. /\ CInv /\ TypeOK /\ LockHeld /\ Roles /\ PlanFits /\ Said /\ FilesValid
      /\ RedoPlans
  BY DEF RInv
<1>b. UNCHANGED <<createVars, command, action, plan, report>>
  BY DEF Commit
<1>c. files' = files
  BY <1>b DEF createVars
<1>d. /\ pgmigrations' \in Seq(files) /\ Sorted(pgmigrations')
      /\ command[d] = "up" => unseen[d] \subseteq ToSet(pgmigrations')
  BY CommitMakes
<1>1. CInv'
  BY <1>a, <1>b, CreateStep
<1>2. TypeOK'
  <2>1. at' \in [Runner -> {"start", "spawn", "loaded", "exited", "done"}]
    BY <1>a DEF TypeOK, Commit, Exit, Move
  <2>2. exit' \in [Runner -> {"none", "0", "1", "killed"}]
    BY <1>a DEF TypeOK, Commit, Exit
  <2>3. unseen' \in [Runner -> SUBSET files]
    BY <1>a DEF TypeOK, Commit
  <2> QED
    BY <1>a, <1>b, <1>c, <1>d, <1>1, <2>1, <2>2, <2>3 DEF CInv, TypeOK, Commit
<1>3. \A e \in Runner : at'[e] # "loaded"
  <2>1. at' = [at EXCEPT ![d] = "exited"] /\ at[d] = "loaded"
    BY DEF Commit, Exit, Move
  <2>2. \A e \in Runner : at[e] = "loaded" => e = d
    BY <1>a, <2>1 DEF LockHeld
  <2> QED
    BY <1>a, <2>1, <2>2 DEF TypeOK
<1>4. Said'
  <2>1. ASSUME NEW e \in Runner, e # d
        PROVE  /\ at'[e] = at[e] /\ exit'[e] = exit[e] /\ unseen'[e] = unseen[e]
    BY <1>a, <2>1 DEF TypeOK, Commit, Exit, Move
  <2>2. at'[d] = "exited" /\ at[d] = "loaded"
    BY <1>a DEF TypeOK, Commit, Exit, Move
  <2>3. command[d] = "up" => unseen'[d] = {}
    BY <1>a, <1>d DEF TypeOK, Commit
  <2> QED
    BY <1>a, <1>b, <2>1, <2>2, <2>3 DEF Said
<1>5. FilesValid'
  BY <1>a, <1>c DEF FilesValid, BodyIsValid, Commit
<1>6. LockHeld' /\ PlanFits' /\ Roles'
  BY <1>a, <1>b, <1>3 DEF LockHeld, PlanFits, Roles
<1>7. Sorted(pgmigrations)' /\ RedoPlans'
  BY <1>a, <1>b, <1>d DEF Sorted, Before, RedoPlans
<1> QED
  BY <1>1, <1>2, <1>4, <1>5, <1>6, <1>7 DEF RInv

LEMMA RStep == RInv /\ [Next]_vars => RInv'
<1> SUFFICES ASSUME RInv, [Next]_vars PROVE RInv'
  OBVIOUS
<1>1. CASE [CreateNext]_createVars /\ UNCHANGED runVars
  BY <1>1, CreateBeside
<1>2. ASSUME NEW d \in Runner, Migrate(d)
      PROVE  RInv'
  BY <1>2, WrapperStep, LoadStep, CommitStep DEF Migrate
<1> QED
  BY <1>1, <1>2 DEF Next, vars

LEMMA RInvariance == Spec => []RInv
BY RInitial, RStep, PTL DEF Spec

-----------------------------------------------------------------------------
\* Files, plans and the applied migrations keep their types: in particular no
\* planned or applied migration ever vanishes from migrations/.
THEOREM TypeCorrect == Spec => []TypeOK
<1>1. RInv => TypeOK
  BY DEF RInv
<1> QED
  BY <1>1, RInvariance, PTL

\* The two promises of migrate:create, beside the other commands.
THEOREM CreatePromises == Spec => [](CreatedIsKept /\ CollisionIsReal)
<1>1. RInv => CreatedIsKept /\ CollisionIsReal
  BY CInvKeeps, CInvCollides DEF RInv
<1> QED
  BY <1>1, RInvariance, PTL

\* The migrations are applied in the order of their names, whatever runs
\* overlap and however late an older file comes.
THEOREM Ordered == Spec => []AppliedInOrder
<1>1. RInv => AppliedInOrder
  <2> SUFFICES ASSUME RInv PROVE AppliedInOrder
    OBVIOUS
  <2>1. pgmigrations \in Seq(files) /\ Sorted(pgmigrations)
    BY DEF RInv, TypeOK
  <2>2. DOMAIN pgmigrations = 1 .. Len(pgmigrations)
    BY <2>1
  <2> QED
    BY <2>1, <2>2 DEF Sorted, AppliedInOrder
<1> QED
  BY <1>1, RInvariance, PTL

\* No migration is applied that the validator would refuse, although the CLI
\* reads the directory again after the validation.
THEOREM Validated == Spec => []AppliedIsValid
<1>1. RInv => AppliedIsValid
  <2> SUFFICES ASSUME RInv, NEW i \in DOMAIN pgmigrations
               PROVE  ValidateMigrationBody(pgmigrations[i].body) = {}
    BY DEF AppliedIsValid
  <2>1. pgmigrations[i] \in files /\ pgmigrations # <<>>
    BY DEF RInv, TypeOK
  <2> QED
    BY <2>1 DEF RInv, FilesValid, BodyIsValid
<1> QED
  BY <1>1, RInvariance, PTL

\* After a PASS of migrate:up nothing it has validated is left to apply.
THEOREM UpIsComplete == Spec => []UpAppliesAll
<1>1. RInv => UpAppliesAll
  BY DEF RInv, Said, UpAppliesAll
<1> QED
  BY <1>1, RInvariance, PTL

\* No step of any command takes away more than the last migration, and no step
\* of a redo adds more than one.
THEOREM RevertsOne == Spec => OneAtATime
<1> DEFINE A == /\ \/ IsPrefix(pgmigrations, pgmigrations')
                   \/ pgmigrations' = Front(pgmigrations)
                /\ \A d \in Runner : command[d] = "redo" /\ at'[d] # at[d] =>
                     Len(pgmigrations') <= Len(pgmigrations) + 1
<1>1. RInv /\ [Next]_vars => [A]_vars
  <2> SUFFICES ASSUME RInv, [Next]_vars PROVE A \/ UNCHANGED vars
    OBVIOUS
  <2>0. pgmigrations \in Seq(files)
    BY DEF RInv, TypeOK
  <2>1. CASE UNCHANGED pgmigrations
    <3>1. IsPrefix(pgmigrations, pgmigrations)
      BY <2>0 DEF IsPrefix
    <3>2. Len(pgmigrations) <= Len(pgmigrations) + 1
      BY <2>0
    <3>3. IsPrefix(pgmigrations, pgmigrations')
      BY <2>1, <3>1, Zenon
    <3>4. Len(pgmigrations') <= Len(pgmigrations) + 1
      BY <2>1, <3>2, Zenon
    <3> QED
      BY <3>3, <3>4, Zenon
  <2>2. ASSUME NEW d \in Runner, Commit(d)
        PROVE  A
    <3>1. \A e \in Runner : at'[e] # at[e] => e = d
      BY <2>2 DEF RInv, TypeOK, Commit, Exit, Move
    <3>2. /\ \/ IsPrefix(pgmigrations, pgmigrations')
             \/ pgmigrations' = Front(pgmigrations)
          /\ command[d] = "redo" => Len(pgmigrations') <= Len(pgmigrations) + 1
      BY <2>2, CommitMakes
    <3> QED
      BY <3>1, <3>2, Zenon
  <2>3. ASSUME NEW d \in Runner, Migrate(d), ~ Commit(d)
        PROVE  UNCHANGED pgmigrations
    BY <2>3 DEF Migrate, Check, RefuseRun, Load, LoadFails, RunFails, Conclude, RedoUp
  <2> QED
    BY <2>1, <2>2, <2>3 DEF Next, vars, runVars
<1> QED
  BY <1>1, RInvariance, PTL DEF Spec, OneAtATime

=============================================================================
