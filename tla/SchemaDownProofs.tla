-------------------------- MODULE SchemaDownProofs --------------------------
(***************************************************************************)
(* Theorems about SchemaDown, for any tables, foreign keys, order of DROPs *)
(* and any number of sessions.                                             *)
(***************************************************************************)
EXTENDS SchemaDown, TLAPS

Running == down \in {"guard", "drop", "commit"}

LEMMA OrderType ==
  /\ Len(DropOrder) \in Nat \ {0}
  /\ DOMAIN DropOrder = 1 .. Len(DropOrder)
  /\ \A i \in 1 .. Len(DropOrder) : DropOrder[i] \in Table
  /\ \A t \in Table : \E i \in 1 .. Len(DropOrder) : DropOrder[i] = t
<1>1. Len(DropOrder) \in Nat /\ DOMAIN DropOrder = 1 .. Len(DropOrder)
  BY DownAssumption
<1>2. /\ \A i \in 1 .. Len(DropOrder) : DropOrder[i] \in Table
      /\ \A t \in Table : \E i \in 1 .. Len(DropOrder) : DropOrder[i] = t
  BY DownAssumption
<1>3. Len(DropOrder) # 0
  BY <1>1, <1>2, DownAssumption
<1> QED
  BY <1>1, <1>2, <1>3

(***************************************************************************)
(* The inductive invariant: where the migration is, what it has locked,    *)
(* what the sessions have locked, and that every row has the rows it       *)
(* refers to.                                                              *)
(***************************************************************************)

\* The migration is at one of its DROPs, or past the last; while it runs, its
\* tables are there; when it does not, it holds nothing.
Place ==
  /\ down \in {"guard", "drop"} => next \in 1 .. Len(DropOrder)
  /\ down = "commit" => next = Len(DropOrder) + 1
  /\ Running => exists = Table
  /\ ~ Running => held = {}
  /\ exists \in {Table, {}}

\* A table that was dropped is locked, and so are those it referred to.
DroppedIsHeld ==
  Running => \A i \in 1 .. next - 1 :
               {DropOrder[i]} \cup Parent[DropOrder[i]] \subseteq held

\* No session has touched what the migration holds.
Exclusive == \A w \in Writer : touched[w] \cap held = {}

\* A session keeps what it has touched; the rows it refers to are committed.
SessionTouched ==
  \A w \in Writer :
    /\ stage[w] \in {"insert", "commit"} =>
         /\ Parent[Target[w]] \subseteq touched[w]
         /\ \A p \in Parent[Target[w]] : Filled(p)
    /\ stage[w] = "commit" => Target[w] \in touched[w]

\* A row is not there without those it refers to.
References == \A t \in Table : Filled(t) => \A p \in Parent[t] : Filled(p)

\* What a guard has found empty under a lock is empty still.
SeenEmpty ==
  \A i \in 1 .. Len(DropOrder) :
    /\ LockedByThen(i)
    /\ (Running /\ i < next) \/ (down = "drop" /\ i = next)
    => ~ Filled(DropOrder[i])

IInv == TypeOK /\ Place /\ DroppedIsHeld /\ Exclusive /\ SessionTouched
          /\ References /\ SeenEmpty

LEMMA InvInit == Init => IInv
<1> SUFFICES ASSUME Init
             PROVE  IInv
  OBVIOUS
<1>1. rows \subseteq Row
  BY DEF Init, Row
<1>2. TypeOK
  BY <1>1, OrderType DEF Init, TypeOK
<1>3. Place /\ DroppedIsHeld /\ Exclusive
  BY OrderType DEF Init, Place, DroppedIsHeld, Exclusive, Running
<1>4. SessionTouched /\ References /\ SeenEmpty
  BY DEF Init, SessionTouched, References, SeenEmpty, Running, Filled
<1> QED
  BY <1>2, <1>3, <1>4 DEF IInv

-----------------------------------------------------------------------------
\* DROP goes on to the next guard, or to the end.
LEMMA DropMoves ==
  ASSUME TypeOK, Place, Drop
  PROVE  /\ next \in 1 .. Len(DropOrder) /\ next' = next + 1
         /\ \/ down' = "commit" /\ next' = Len(DropOrder) + 1
            \/ down' = "guard" /\ next' \in 1 .. Len(DropOrder)
         /\ UNCHANGED <<data, session, held>>
<1>1. next \in 1 .. Len(DropOrder) /\ Len(DropOrder) \in Nat
  BY OrderType DEF Drop, Place
<1>2. next' = next + 1 /\ down' = IF next = Len(DropOrder) THEN "commit" ELSE "guard"
  BY DEF Drop, AfterDrop
<1>3. UNCHANGED <<data, session, held>>
  BY DEF Drop
<1> QED
  BY <1>1, <1>2, <1>3

LEMMA TypeStep == IInv /\ [Next]_vars => TypeOK'
<1> SUFFICES ASSUME IInv, [Next]_vars
             PROVE  TypeOK'
  OBVIOUS
<1> USE DEF data, session, migrate
<1>a. TypeOK /\ Place
  BY DEF IInv
<1>b. \A t \in Table : Parent[t] \in SUBSET Table
  BY DownAssumption
<1>c. \A w \in Writer : Target[w] \in Table
  BY DownAssumption
<1>1. ASSUME NEW w \in Writer, Serve(w)
      PROVE  TypeOK'
  <2>1. CASE ReadParent(w) \/ NoParent(w) \/ Insert(w)
    BY <2>1, <1>a, <1>b, <1>c DEF ReadParent, NoParent, Insert, Touch, Move, End, TypeOK
  <2>2. CASE Commit(w)
    BY <2>2, <1>a, <1>c DEF Commit, Move, End, TypeOK, Row
  <2> QED
    BY <1>1, <2>1, <2>2 DEF Serve
<1>2. ASSUME NEW w \in Writer, Abort(w) \/ Victim(w)
      PROVE  TypeOK'
  <2>1. CASE Abort(w)
    BY <2>1, <1>a DEF Abort, Move, End, TypeOK
  <2>2. CASE Victim(w)
    BY <2>2, <1>a, OrderType DEF Victim, Move, End, Rollback, TypeOK
  <2> QED
    BY <1>2, <2>1, <2>2
<1>3. CASE Start \/ Guard \/ FailDown
  <2>1. /\ next' \in {1, next} /\ held' \in {{}, held} /\ UNCHANGED <<data, session>>
        /\ down' \in {"guard", "drop", "failed"}
    BY <1>3 DEF Start, Guard, FailDown, Rollback
  <2> QED
    BY <2>1, <1>a, OrderType DEF TypeOK
<1>4. CASE TakeLock
  BY <1>4, <1>a, <1>b, OrderType DEF TakeLock, Wanted, TypeOK, Place
<1>5. CASE Drop
  BY <1>5, <1>a, DropMoves, OrderType DEF TypeOK
<1>6. CASE CommitDown
  BY <1>6, <1>a DEF CommitDown, TypeOK
<1>7. CASE UNCHANGED vars
  BY <1>7, <1>a DEF vars, TypeOK
<1> QED
  BY <1>1, <1>2, <1>3, <1>4, <1>5, <1>6, <1>7 DEF Next, Migrate, Finished

LEMMA PlaceStep == IInv /\ [Next]_vars => Place'
<1> SUFFICES ASSUME IInv, [Next]_vars
             PROVE  Place'
  OBVIOUS
<1> USE DEF data, session, migrate, Running
<1>a. TypeOK /\ Place
  BY DEF IInv
<1>1. ASSUME NEW w \in Writer, Serve(w) \/ Abort(w) \/ Victim(w)
      PROVE  Place'
  BY <1>1, <1>a DEF Serve, ReadParent, NoParent, Insert, Commit, Abort, Victim, Rollback,
     Place
<1>2. CASE Start \/ FailDown
  BY <1>2, <1>a, OrderType DEF Start, FailDown, Rollback, Place
<1>6. CASE Guard
  BY <1>6, <1>a, OrderType DEF Guard, Rollback, Place
<1>7. CASE TakeLock
  BY <1>7, <1>a DEF TakeLock, Place
<1>3. CASE Drop
  BY <1>3, <1>a, DropMoves, OrderType DEF Place, Drop
<1>4. CASE CommitDown
  <2>1. Dropped = Table
    BY <1>4, <1>a, OrderType DEF CommitDown, Place, Dropped
  <2> QED
    BY <1>4, <1>a, <2>1 DEF CommitDown, Place
<1>5. CASE UNCHANGED vars
  BY <1>5, <1>a DEF vars, Place
<1> QED
  BY <1>1, <1>2, <1>3, <1>4, <1>5, <1>6, <1>7 DEF Next, Migrate, Finished

-----------------------------------------------------------------------------
(***************************************************************************)
(* The steps by who takes them: a session, the migration, or the deadlock  *)
(* detector on behalf of either.                                           *)
(***************************************************************************)
SessionStep(w) == Serve(w) \/ Abort(w) \/ (End(w) /\ UNCHANGED <<data, migrate>>)
RollbackStep == Rollback /\ UNCHANGED <<data, session>>

LEMMA Cases ==
  ASSUME [Next]_vars
  PROVE  \/ \E w \in Writer : SessionStep(w)
         \/ Start \/ Guard \/ TakeLock \/ Drop \/ CommitDown \/ RollbackStep
         \/ UNCHANGED vars
  BY DEF Next, Victim, Migrate, FailDown, Finished, SessionStep, RollbackStep

\* A step of a session leaves the migration and the other sessions alone, and
\* writes a row only if it commits one.
LEMMA SessionFrame ==
  ASSUME TypeOK, NEW w \in Writer, SessionStep(w)
  PROVE  /\ UNCHANGED <<exists, lost, migrate>>
         /\ \A v \in Writer \ {w} : stage'[v] = stage[v] /\ touched'[v] = touched[v]
         /\ Commit(w) \/ rows' = rows
         /\ rows \subseteq rows'
  BY DEF TypeOK, SessionStep, Serve, ReadParent, NoParent, Insert, Commit, Abort, Touch,
     Move, End, data, session, migrate

\* At its COMMIT the migration holds every table, no session holds one, and
\* all tables go.
LEMMA CommitDownTakesAll ==
  ASSUME IInv, CommitDown
  PROVE  /\ Dropped = Table /\ held = Table
         /\ \A w \in Writer : touched[w] = {} /\ stage[w] # "commit"
         /\ rows' = {} /\ lost' = lost \cup rows
<1>1. next = Len(DropOrder) + 1
  BY DEF IInv, Place, CommitDown
<1>2. Dropped = Table
  BY <1>1, OrderType DEF Dropped
<1>3. Table \subseteq held
  BY <1>1, OrderType DEF IInv, DroppedIsHeld, Running, CommitDown
<1>4. held = Table
  BY <1>3 DEF IInv, TypeOK
<1>5. \A w \in Writer : touched[w] = {}
  BY <1>4 DEF IInv, TypeOK, Exclusive
<1>6. \A w \in Writer : stage[w] # "commit"
  BY <1>5 DEF IInv, SessionTouched
<1>7. \A row \in rows : row.table \in Table
  BY DEF IInv, TypeOK, Row
<1>8. rows' = {} /\ lost' = lost \cup rows
  BY <1>2, <1>7 DEF CommitDown
<1> QED
  BY <1>2, <1>4, <1>5, <1>6, <1>8

\* No session commits a row into a table that is held.
LEMMA HeldIsClosed ==
  ASSUME IInv, NEW w \in Writer, SessionStep(w), NEW t \in held
  PROVE  Filled(t)' => Filled(t)
<1>1. CASE rows' = rows
  BY <1>1 DEF Filled
<1>2. CASE Commit(w)
  <2>1. Target[w] # t
    BY <1>2 DEF IInv, Commit, SessionTouched, Exclusive
  <2> QED
    BY <1>2, <2>1 DEF Commit, Filled
<1> QED
  BY <1>1, <1>2, SessionFrame DEF IInv

-----------------------------------------------------------------------------
LEMMA HeldStep == IInv /\ [Next]_vars => DroppedIsHeld' /\ Exclusive'
<1> SUFFICES ASSUME IInv, [Next]_vars
             PROVE  DroppedIsHeld' /\ Exclusive'
  OBVIOUS
<1> USE DEF data, session, migrate, Running
<1>a. TypeOK /\ Place /\ DroppedIsHeld /\ Exclusive
  BY DEF IInv
<1>1. ASSUME NEW w \in Writer, SessionStep(w)
      PROVE  DroppedIsHeld' /\ Exclusive'
  <2>1. UNCHANGED migrate /\ \A v \in Writer \ {w} : touched'[v] = touched[v]
    BY <1>1, <1>a, SessionFrame
  <2>2. touched'[w] \cap held = {}
    BY <1>1, <1>a DEF SessionStep, Serve, ReadParent, NoParent, Insert, Commit, Abort,
       Touch, Move, End, TypeOK, Exclusive
  <2> QED
    BY <1>a, <2>1, <2>2 DEF DroppedIsHeld, Exclusive
<1>2. CASE Start
  BY <1>2, <1>a DEF Start, DroppedIsHeld, Exclusive
<1>3. CASE Guard \/ RollbackStep
  BY <1>3, <1>a DEF Guard, RollbackStep, Rollback, DroppedIsHeld, Exclusive
<1>4. CASE TakeLock
  BY <1>4, <1>a DEF TakeLock, DroppedIsHeld, Exclusive
<1>5. CASE Drop
  <2>1. {DropOrder[next]} \cup Parent[DropOrder[next]] \subseteq held
    BY <1>5 DEF Drop, Wanted
  <2>2. next' = next + 1 /\ UNCHANGED <<held, session>> /\ down = "drop"
    BY <1>5, <1>a, DropMoves DEF Drop
  <2>3. \A i \in 1 .. next' - 1 : i = next \/ i \in 1 .. next - 1
    BY <2>2, <1>a DEF TypeOK
  <2> QED
    BY <1>a, <2>1, <2>2, <2>3 DEF DroppedIsHeld, Exclusive
<1>6. CASE CommitDown
  BY <1>6 DEF CommitDown, DroppedIsHeld, Exclusive
<1>7. CASE UNCHANGED vars
  BY <1>7, <1>a DEF vars, DroppedIsHeld, Exclusive
<1> QED
  BY <1>1, <1>2, <1>3, <1>4, <1>5, <1>6, <1>7, Cases

LEMMA SessionTouchedStep == IInv /\ [Next]_vars => SessionTouched' /\ References'
<1> SUFFICES ASSUME IInv, [Next]_vars
             PROVE  SessionTouched' /\ References'
  OBVIOUS
<1> USE DEF data, session
<1>a. TypeOK /\ SessionTouched /\ References
  BY DEF IInv
<1>b. \A w \in Writer : Target[w] \in Table /\ Parent[Target[w]] \in SUBSET Table
  BY DownAssumption
<1>1. ASSUME NEW w \in Writer, SessionStep(w)
      PROVE  SessionTouched' /\ References'
  <2>1. rows \subseteq rows' /\ \A t : Filled(t) => Filled(t)'
    BY <1>1, <1>a, SessionFrame DEF Filled
  <2>2. \A v \in Writer \ {w} : stage'[v] = stage[v] /\ touched'[v] = touched[v]
    BY <1>1, <1>a, SessionFrame
  <2>3. /\ stage'[w] \in {"insert", "commit"} =>
             /\ Parent[Target[w]] \subseteq touched'[w]
             /\ \A p \in Parent[Target[w]] : Filled(p)
        /\ stage'[w] = "commit" => Target[w] \in touched'[w]
    BY <1>1, <1>a DEF SessionStep, Serve, ReadParent, NoParent, Insert, Commit, Abort,
       Touch, Move, End, TypeOK, SessionTouched
  <2>4. SessionTouched'
    BY <1>a, <2>1, <2>2, <2>3 DEF SessionTouched
  <2>5. References'
    <3>1. CASE rows' = rows
      BY <3>1, <1>a DEF References, Filled
    <3>2. CASE Commit(w)
      <4>1. \A p \in Parent[Target[w]] : Filled(p)
        BY <3>2, <1>a DEF Commit, SessionTouched
      <4>2. \A t \in Table : Filled(t)' => Filled(t) \/ t = Target[w]
        BY <3>2 DEF Commit, Filled
      <4> QED
        BY <4>1, <4>2, <2>1, <1>a DEF References
    <3> QED
      BY <1>1, <1>a, <3>1, <3>2, SessionFrame
  <2> QED
    BY <2>4, <2>5
<1>2. CASE UNCHANGED <<rows, session>>
  BY <1>2, <1>a DEF SessionTouched, References, Filled
<1>3. CASE CommitDown
  <2>1. /\ \A w \in Writer : touched[w] = {} /\ stage[w] # "commit"
        /\ rows' = {} /\ UNCHANGED session
    BY <1>3, CommitDownTakesAll DEF CommitDown
  <2> QED
    BY <2>1, <1>a DEF SessionTouched, References, Filled
<1>4. CASE Start \/ Guard \/ TakeLock \/ Drop \/ RollbackStep \/ UNCHANGED vars
  BY <1>2, <1>4 DEF Start, Guard, TakeLock, Drop, RollbackStep, vars
<1> QED
  BY <1>1, <1>3, <1>4, Cases

LEMMA SeenEmptyStep == IInv /\ [Next]_vars => SeenEmpty'
<1> SUFFICES ASSUME IInv, [Next]_vars
             PROVE  SeenEmpty'
  OBVIOUS
<1> USE DEF data, session, migrate, Running
<1>a. TypeOK /\ Place /\ DroppedIsHeld /\ SeenEmpty
  BY DEF IInv
<1>1. ASSUME NEW w \in Writer, SessionStep(w)
      PROVE  SeenEmpty'
  <2>1. UNCHANGED migrate
    BY <1>1, <1>a, SessionFrame
  <2>2. ASSUME NEW i \in 1 .. Len(DropOrder), LockedByThen(i),
               (Running /\ i < next) \/ (down = "drop" /\ i = next)
        PROVE  ~ Filled(DropOrder[i])'
    <3>1. PICK j \in 1 .. Len(DropOrder) : j < i /\ DropOrder[i] \in Parent[DropOrder[j]]
      BY <2>2, OrderType DEF LockedByThen
    <3>2. j \in 1 .. next - 1
      BY <3>1, <2>2, <1>a, OrderType DEF TypeOK
    <3>3. DropOrder[i] \in held
      BY <3>1, <3>2, <2>2, <1>a DEF DroppedIsHeld
    <3>4. ~ Filled(DropOrder[i])
      BY <2>2, <1>a DEF SeenEmpty
    <3> QED
      BY <3>3, <3>4, <1>1, HeldIsClosed
  <2> QED
    BY <2>1, <2>2 DEF SeenEmpty
<1>2. CASE Start \/ RollbackStep
  BY <1>2, OrderType DEF Start, RollbackStep, Rollback, SeenEmpty
<1>3. CASE Guard
  <2>1. CASE ~ Filled(DropOrder[next]) /\ down' = "drop" /\ UNCHANGED <<next, held>>
    BY <1>3, <1>a, <2>1, OrderType DEF Guard, SeenEmpty, Filled
  <2>2. CASE Rollback
    BY <2>2, OrderType DEF Rollback, SeenEmpty
  <2> QED
    BY <1>3, <2>1, <2>2 DEF Guard
<1>4. CASE TakeLock \/ UNCHANGED vars
  BY <1>4, <1>a DEF TakeLock, vars, SeenEmpty, Filled
<1>5. CASE Drop
  <2>1. next' = next + 1 /\ down = "drop" /\ down' # "drop" /\ UNCHANGED rows
    BY <1>5, <1>a, DropMoves DEF Drop
  <2>2. \A i \in 1 .. Len(DropOrder) : i < next' => i < next \/ i = next
    BY <2>1, <1>a, OrderType DEF TypeOK
  <2> QED
    BY <1>a, <2>1, <2>2 DEF SeenEmpty, Filled
<1>6. CASE CommitDown
  BY <1>6 DEF CommitDown, SeenEmpty
<1> QED
  BY <1>1, <1>2, <1>3, <1>4, <1>5, <1>6, Cases

LEMMA Invariance == Spec => []IInv
<1>1. IInv /\ [Next]_vars => IInv'
  BY TypeStep, PlaceStep, HeldStep, SessionTouchedStep, SeenEmptyStep DEF IInv
<1> QED
  BY <1>1, InvInit, PTL DEF Spec

-----------------------------------------------------------------------------
\* Tables, sessions and the migration keep their types.
THEOREM TypeCorrect == Spec => []TypeOK
<1>1. IInv => TypeOK
  BY DEF IInv
<1> QED
  BY <1>1, Invariance, PTL

\* The tables of a migration go together or stay (down.mjs:33), whatever
\* guard, DROP or COMMIT fails or is killed.
THEOREM DownIsAtomic == Spec => []AllOrNothing
<1>1. IInv => AllOrNothing
  BY DEF IInv, Place, AllOrNothing
<1> QED
  BY <1>1, Invariance, PTL

\* At the COMMIT of a migration whose guards see every row all tables are
\* empty: a table that was not locked before its guard looked is referred to
\* a table that was.
LEMMA AllEmpty ==
  ASSUME IInv, GuardsSeeEveryRow, CommitDown
  PROVE  rows = {}
<1>1. \A i \in 1 .. Len(DropOrder) : LockedByThen(i) => ~ Filled(DropOrder[i])
  BY OrderType DEF IInv, Place, SeenEmpty, CommitDown, Running
<1>2. ASSUME NEW i \in 1 .. Len(DropOrder), ~ LockedByThen(i)
      PROVE  ~ Filled(DropOrder[i])
  <2>1. PICK j \in 1 .. Len(DropOrder) :
          i < j /\ DropOrder[j] \in Parent[DropOrder[i]]
    BY <1>2, OrderType DEF GuardsSeeEveryRow
  <2>2. LockedByThen(j)
    BY <2>1, OrderType DEF LockedByThen
  <2> QED
    BY <1>1, <2>1, <2>2, OrderType DEF IInv, References
<1>3. \A t \in Table : ~ Filled(t)
  BY <1>1, <1>2, OrderType
<1> QED
  BY <1>3 DEF Filled, IInv, TypeOK, Row

\* No committed row goes with its table, if the migration is ordered as the
\* QR and the collection tables are.  Without the hypothesis it is false: the
\* run schema_down_wallet shows a lost posting.
THEOREM NoRowIsDropped == Spec => [](GuardsSeeEveryRow => OnlyWhileEmpty)
<1> DEFINE Inv == GuardsSeeEveryRow => OnlyWhileEmpty
<1>1. Init => Inv
  BY DEF Init, OnlyWhileEmpty
<1>2. IInv /\ Inv /\ [Next]_vars => Inv'
  <2> SUFFICES ASSUME IInv, lost = {}, [Next]_vars, GuardsSeeEveryRow
               PROVE  lost' = {}
    BY DEF OnlyWhileEmpty, GuardsSeeEveryRow, LockedByThen
  <2>1. CASE CommitDown
    BY <2>1, AllEmpty, CommitDownTakesAll
  <2>2. ASSUME NEW w \in Writer, SessionStep(w)
        PROVE  UNCHANGED lost
    BY <2>2, SessionFrame DEF IInv
  <2>3. CASE Start \/ Guard \/ TakeLock \/ Drop \/ RollbackStep \/ UNCHANGED vars
    BY <2>3 DEF Start, Guard, TakeLock, Drop, RollbackStep, vars, data
  <2> QED
    BY <2>1, <2>2, <2>3, Cases
<1> HIDE DEF Inv
<1>3. Spec => []Inv
  BY <1>1, <1>2, Invariance, PTL DEF Spec
<1> QED
  BY <1>3 DEF Inv
=============================================================================
