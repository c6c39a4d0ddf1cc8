--------------------------- MODULE Projects_proofs ---------------------------
(***************************************************************************)
(* Proofs about what belongs to a project.                                 *)
(*                                                                         *)
(* Its board: for any number of columns, tasks and overlapping requests    *)
(* the columns stay consistent and a deletion keeps their order.           *)
(*                                                                         *)
(* Its dependencies: for any number of tasks and overlapping requests, a   *)
(* circle holds a row whose check had not read another one of it; and the  *)
(* search that decides the check of a request answers right, for any       *)
(* finite graph (that it ends is checked by TLC).                          *)
(***************************************************************************)
EXTENDS BoardColumns, DependencyChecks, Sequences, FiniteSetTheorems, TLAPS

-----------------------------------------------------------------------------
(* The inductive invariant.                                                *)

Snapshots == UNION {[S -> 0..Cardinality(Column)] : S \in SUBSET Column}

RequestRow ==
    [at: {"idle", "read", "lock", "moved"}, kind: Kinds \cup {"none"}, column: Options(Column),
     name: Options(Name), position: 0..(MaxPosition + 1), order: Snapshots,
     locked: SUBSET Column, task: Options(Task), tasks: SUBSET Task, stale: BOOLEAN]

ColumnRow == [name: Options(Name), position: 0..MaxPosition]

Typed ==
    /\ column \in [Column -> ColumnRow]
    /\ \A c \in Columns : column[c].name # Nobody
    /\ task \in [Task -> Options(Column)]
    /\ overlap \in [names: BOOLEAN, positions: BOOLEAN]
    /\ request \in [Request -> RequestRow]

\* What a request of each kind carries, and at which steps.
Renumbering == {"reorder", "delete"}

Shaped(r) ==
    /\ r.at = "idle" => r = Idle
    /\ r.kind = "none" => r.at = "idle"
    /\ r.at = "read" => r.kind \in Names
    /\ r.at = "moved" => r.kind = "delete"
    /\ r.kind \notin Renumbering => r.order = NoOrder
    /\ r.kind \in Names => r.name \in Name
    /\ r.kind = "create" => r.column = Nobody
    /\ r.kind \in {"rename", "delete", "move"} => r.column \in Column
    /\ r.at # "moved" => r.tasks = {}
    /\ r.locked \subseteq DOMAIN r.order
    /\ \A c, d \in DOMAIN r.order : c # d => r.order[c] # r.order[d]

\* A snapshot that no renumbering has overtaken is the order of the columns,
\* and what was locked comes before what is not.
Ordered(r) ==
    ~r.stale =>
        /\ DOMAIN r.order \subseteq Columns
        /\ \A c, d \in DOMAIN r.order :
              r.order[c] < r.order[d] <=> column[c].position < column[d].position
        /\ \A c \in r.locked, d \in DOMAIN r.order \ r.locked : r.order[c] < r.order[d]

\* No column was created after the snapshot.
Complete(r) ==
    r.kind \in Renumbering /\ ~overlap.positions =>
        /\ Columns \subseteq DOMAIN r.order
        /\ r.at = "moved" => Columns \subseteq r.locked

\* A deletion that has moved the tasks holds its column and another one.
Emptied(r) ==
    r.at = "moved" =>
        /\ r.column \in r.locked /\ \E d \in r.locked : d # r.column
        /\ \A t \in Task : task[t] = r.column => t \in r.tasks

\* The checks of a request about a name or a place still hold.
Placed(r) == r.kind = "create" /\ ~overlap.positions => r.position = Cardinality(Columns)

Named(r) == r.kind \in Names /\ ~overlap.names =>
                \A d \in Columns \ {r.column} : column[d].name # r.name

Sound(r) == /\ Shaped(r) /\ Ordered(r) /\ Complete(r) /\ Emptied(r) /\ Placed(r) /\ Named(r)
            /\ r.locked \subseteq Columns

\* Two requests hold different rows, and their overlap was noted.
Apart(r, s) ==
    /\ r.locked \cap s.locked = {}
    /\ {r.kind, s.kind} \subseteq Names => overlap.names
    /\ {r.kind, s.kind} \subseteq Places /\ "create" \in {r.kind, s.kind} => overlap.positions

\* uq_column_position.
PositionsApart == \A c, d \in Columns : c # d => column[c].position # column[d].position

IInv ==
    /\ Typed
    /\ \A q \in Request : Sound(request[q])
    /\ \A q, r \in Request : q # r => Apart(request[q], request[r])
    /\ PositionsApart /\ LastColumnStays /\ PositionsDense /\ NamesDistinct

-----------------------------------------------------------------------------
(* Counting.                                                               *)

LEMMA ColumnsFinite ==
    ASSUME NEW S, S \subseteq Column
    PROVE  IsFiniteSet(S) /\ Cardinality(S) \in Nat /\ Cardinality(S) <= Cardinality(Column)
           /\ Cardinality(S) <= Shift
<1>1. IsFiniteSet(S) /\ Cardinality(S) <= Cardinality(Column)
  BY FS_Subset, ShiftAssumption
<1>2. Cardinality(S) \in Nat /\ Cardinality(Column) \in Nat
  BY <1>1, FS_CardinalityType, ShiftAssumption
<1> QED BY <1>1, <1>2, ShiftAssumption

LEMMA IntervalCount ==
    ASSUME NEW n \in Nat
    PROVE  IsFiniteSet(0..(n - 1)) /\ Cardinality(0..(n - 1)) = n
<1>1. 0 \in Int /\ n - 1 \in Int
  OBVIOUS
<1>2. IsFiniteSet(0..(n - 1)) /\ Cardinality(0..(n - 1)) = IF 0 > n - 1 THEN 0 ELSE (n - 1) - 0 + 1
  BY <1>1, FS_Interval
<1> QED BY <1>2

\* Different numbers for the members of a set of n, all below n, are all
\* the numbers below n.
LEMMA AllNumbers ==
    ASSUME NEW S, IsFiniteSet(S), NEW rank \in [S -> 0..(Cardinality(S) - 1)],
           \A c, d \in S : c # d => rank[c] # rank[d]
    PROVE  {rank[c] : c \in S} = 0..(Cardinality(S) - 1)
<1> DEFINE n == Cardinality(S)
           T == 0..(n - 1)
<1>1. n \in Nat /\ IsFiniteSet(T) /\ Cardinality(T) = n
  BY FS_CardinalityType, IntervalCount
<1>2. rank \in Injection(S, T)
  BY DEF Injection, IsInjective
<1>3. rank \in Surjection(S, T)
  BY <1>1, <1>2, FS_Injection
<1> QED BY <1>3 DEF Surjection

\* The number of smaller members is a different one for each member.
LEMMA Ranks ==
    ASSUME NEW S, IsFiniteSet(S), NEW f \in [S -> Nat],
           \A c, d \in S : c # d => f[c] # f[d]
    PROVE  LET rank == [c \in S |-> Cardinality({d \in S : f[d] < f[c]})] IN
           /\ rank \in [S -> 0..(Cardinality(S) - 1)]
           /\ \A c, d \in S : rank[c] < rank[d] <=> f[c] < f[d]
<1> DEFINE Below(c) == {d \in S : f[d] < f[c]}
<1>1. ASSUME NEW c \in S
      PROVE  /\ IsFiniteSet(Below(c)) /\ Cardinality(Below(c)) \in Nat
             /\ Cardinality(Below(c)) \in 0..(Cardinality(S) - 1)
  <2>1. IsFiniteSet(S \ {c}) /\ Cardinality(S \ {c}) = Cardinality(S) - 1 /\ Cardinality(S) \in Nat
    BY FS_RemoveElement, FS_CardinalityType
  <2>2. Below(c) \subseteq S \ {c}
    OBVIOUS
  <2>3. IsFiniteSet(Below(c)) /\ Cardinality(Below(c)) <= Cardinality(S \ {c})
    BY <2>1, <2>2, FS_Subset
  <2>4. Cardinality(Below(c)) \in Nat
    BY <2>3, FS_CardinalityType
  <2> HIDE DEF Below
  <2> QED BY <2>1, <2>3, <2>4
<1>2. ASSUME NEW c \in S, NEW d \in S, f[c] < f[d]
      PROVE  Cardinality(Below(c)) < Cardinality(Below(d))
  <2>1. Below(c) \subseteq Below(d) /\ c \in Below(d) /\ c \notin Below(c)
    BY <1>2
  <2>2. IsFiniteSet(Below(d)) /\ Cardinality(Below(d)) \in Nat /\ Cardinality(Below(c)) \in Nat
    BY <1>1
  <2> HIDE DEF Below
  <2>3. Cardinality(Below(c)) <= Cardinality(Below(d)) /\ Cardinality(Below(c)) # Cardinality(Below(d))
    BY <2>1, <2>2, FS_Subset
  <2> QED BY <2>2, <2>3
<1>3. ASSUME NEW c \in S, NEW d \in S
      PROVE  Cardinality(Below(c)) < Cardinality(Below(d)) <=> f[c] < f[d]
  <2>1. CASE c = d
    <3>1. Cardinality(Below(c)) \in Nat /\ f[c] \in Nat
      BY <1>1
    <3> HIDE DEF Below
    <3> QED BY <2>1, <3>1
  <2>2. CASE c # d
    <3>1. f[c] < f[d] \/ f[d] < f[c]
      BY <2>2
    <3>2. Cardinality(Below(c)) \in Nat /\ Cardinality(Below(d)) \in Nat /\ f[c] \in Nat /\ f[d] \in Nat
      BY <1>1
    <3>3. CASE f[c] < f[d]
      BY <1>2, <3>3
    <3>4. CASE f[d] < f[c]
      <4>1. Cardinality(Below(d)) < Cardinality(Below(c))
        BY <1>2, <3>4
      <4> HIDE DEF Below
      <4> QED BY <3>2, <3>4, <4>1
    <3> QED BY <3>1, <3>3, <3>4
  <2> QED BY <2>1, <2>2
<1> QED BY <1>1, <1>3

\* There is a next position.
LEMMA NextPositions ==
    ASSUME column \in [Column -> ColumnRow]
    PROVE  \E p \in 0..(MaxPosition + 1) : /\ \A c \in Columns : column[c].position < p
                                           /\ p = 0 \/ \E c \in Columns : column[c].position = p - 1
<1> DEFINE A == {p \in 0..MaxPosition : \E c \in Columns : p <= column[c].position}
           n == Cardinality(A)
<1>1. Columns \subseteq Column /\ \A c \in Columns : column[c].position \in 0..MaxPosition
  BY DEF Columns, ColumnRow
<1>2. MaxPosition \in Nat /\ 0 \in Int
  BY ShiftAssumption
<1>3. /\ IsFiniteSet(A) /\ n \in Nat /\ n <= MaxPosition + 1
  <2>1. IsFiniteSet(0..MaxPosition) /\ Cardinality(0..MaxPosition) = MaxPosition + 1
    BY <1>2, FS_Interval
  <2>2. A \in SUBSET (0..MaxPosition)
    OBVIOUS
  <2> HIDE DEF A
  <2>3. IsFiniteSet(A) /\ n <= MaxPosition + 1
    BY <2>1, <2>2, FS_Subset
  <2> QED BY <2>3, FS_CardinalityType
<1>4. \A p \in A : 0..p \subseteq A
  BY <1>1, <1>2
<1>5. A \subseteq Nat
  BY <1>2
<1>6. \A c \in Columns : column[c].position \in A
  BY <1>1, <1>2
<1>7. n \notin A
  <2> SUFFICES ASSUME n \in A
               PROVE  FALSE
    OBVIOUS
  <2> HIDE DEF A
  <2>1. 0..n \in SUBSET A
    BY <1>4
  <2>2. Cardinality(0..n) <= n
    BY <1>3, <2>1, FS_Subset
  <2>3. Cardinality(0..n) = n + 1
    BY <1>2, <1>3, FS_Interval
  <2> QED BY <1>3, <2>2, <2>3
<1>8. \A p \in A : p < n
  <2> HIDE DEF A
  <2> SUFFICES ASSUME NEW p \in A
               PROVE  p < n
    OBVIOUS
  <2>1. p \in Nat /\ n \in Nat
    BY <1>3, <1>5
  <2>2. n \in 0..p => n \in A
    BY <1>4
  <2> HIDE DEF n
  <2> QED BY <1>7, <2>1, <2>2
<1>9. A = 0..(n - 1)
  <2> HIDE DEF A
  <2>1. IsFiniteSet(0..(n - 1)) /\ Cardinality(0..(n - 1)) = n
    BY <1>3, IntervalCount
  <2>2. A \in SUBSET (0..(n - 1))
    <3> HIDE DEF n
    <3> QED BY <1>3, <1>5, <1>8
  <2> QED BY <2>1, <2>2, FS_Subset
<1>10. n = 0 \/ \E c \in Columns : column[c].position = n - 1
  <2> SUFFICES ASSUME n # 0
               PROVE  \E c \in Columns : column[c].position = n - 1
    OBVIOUS
  <2>1. n - 1 \in A
    <3> HIDE DEF A, n
    <3> QED BY <1>3, <1>9
  <2>2. PICK c \in Columns : n - 1 <= column[c].position
    BY <2>1
  <2>3. column[c].position < n /\ column[c].position \in Nat
    BY <1>5, <1>6, <1>8
  <2> HIDE DEF A, n
  <2> QED BY <1>3, <2>2, <2>3
<1>11. \A c \in Columns : column[c].position < n
  BY <1>6, <1>8
<1>12. n \in 0..(MaxPosition + 1)
  <2> HIDE DEF A, n
  <2> QED BY <1>2, <1>3
<1> HIDE DEF A, n
<1> QED BY <1>10, <1>11, <1>12

-----------------------------------------------------------------------------
(* The invariant holds at first and says what the run checks.              *)

LEMMA ColumnsTyped ==
    ASSUME Typed
    PROVE  /\ Columns \subseteq Column /\ IsFiniteSet(Columns) /\ Cardinality(Columns) \in Nat
           /\ \A c \in Column : /\ column[c] \in ColumnRow /\ column[c].position \in 0..MaxPosition
                                /\ column[c].position \in Nat /\ column[c].name \in Options(Name)
           /\ \A q \in Request : request[q] \in RequestRow
<1>1. Columns \subseteq Column
  BY DEF Columns
<1> QED BY <1>1, ColumnsFinite, ShiftAssumption DEF Typed, ColumnRow

LEMMA IdleRow == Idle \in RequestRow /\ NoOrder \in Snapshots /\ DOMAIN NoOrder = {}
<1>1. NoOrder \in [{} -> 0..Cardinality(Column)] /\ DOMAIN NoOrder = {}
  BY DEF NoOrder
<1>2. NoOrder \in Snapshots
  BY <1>1 DEF Snapshots
<1>3. 0 \in 0..(MaxPosition + 1)
  BY ShiftAssumption
<1> QED BY <1>1, <1>2, <1>3 DEF Idle, RequestRow, Options

LEMMA IdleSound == Sound(Idle) /\ \A s : Apart(Idle, s) /\ Apart(s, Idle)
<1>1. /\ Idle.at = "idle" /\ Idle.kind = "none" /\ Idle.order = NoOrder
      /\ Idle.locked = {} /\ Idle.tasks = {}
  BY DEF Idle
<1>2. Shaped(Idle)
  BY <1>1, IdleRow DEF Shaped, Names, Renumbering
<1>3. Ordered(Idle) /\ Complete(Idle) /\ Emptied(Idle) /\ Placed(Idle) /\ Named(Idle)
  BY <1>1, IdleRow DEF Ordered, Complete, Emptied, Placed, Named, Names, Renumbering
<1> QED BY <1>1, <1>2, <1>3 DEF Sound, Apart, Names, Places

LEMMA IdleSoundNext == Sound(Idle)' /\ \A s : Apart(Idle, s)' /\ Apart(s, Idle)'
<1>1. /\ Idle.at = "idle" /\ Idle.kind = "none" /\ Idle.order = NoOrder
      /\ Idle.locked = {} /\ Idle.tasks = {}
  BY DEF Idle
<1>2. Shaped(Idle)'
  BY <1>1, IdleRow DEF Shaped, Names, Renumbering
<1>3. Ordered(Idle)' /\ Complete(Idle)' /\ Emptied(Idle)' /\ Placed(Idle)' /\ Named(Idle)'
  BY <1>1, IdleRow DEF Ordered, Complete, Emptied, Placed, Named, Names, Renumbering
<1> QED BY <1>1, <1>2, <1>3 DEF Sound, Apart, Names, Places

LEMMA TypesHold == ASSUME IInv PROVE BoardTypeOK
<1>1. ASSUME NEW q \in Request
      PROVE  LET r == request[q] IN
          /\ DOMAIN r = DOMAIN Idle
          /\ r.at \in {"idle", "read", "lock", "moved"} /\ r.kind \in Kinds \cup {"none"}
          /\ r.column \in Options(Column) /\ r.name \in Options(Name)
          /\ r.position \in 0..(MaxPosition + 1) /\ r.stale \in BOOLEAN
          /\ r.order \in [DOMAIN r.order -> 0..Cardinality(Column)]
          /\ r.locked \subseteq DOMAIN r.order /\ r.locked \subseteq Columns
          /\ DOMAIN r.order \subseteq Column
          /\ r.task \in Options(Task) /\ r.tasks \subseteq Task
  <2> DEFINE r == request[q]
  <2>1. r \in RequestRow /\ Sound(r)
    BY DEF IInv, Typed
  <2>2. r.order \in Snapshots
    BY <2>1 DEF RequestRow
  <2>3. PICK S \in SUBSET Column : r.order \in [S -> 0..Cardinality(Column)]
    BY <2>2 DEF Snapshots
  <2>4. DOMAIN r = DOMAIN Idle
    BY <2>1 DEF RequestRow, Idle
  <2> QED BY <2>1, <2>3, <2>4 DEF RequestRow, Sound, Shaped
<1> QED BY <1>1 DEF IInv, Typed, BoardTypeOK, ColumnRow

\* The first row that q waits for comes after those it holds.
LEMMA FirstIsLater ==
    ASSUME IInv, NEW q \in Request, ~request[q].stale, NEW a \in First(q), NEW b \in request[q].locked
    PROVE  a \in Columns /\ b \in Columns /\ column[b].position < column[a].position
<1>1. Ordered(request[q]) /\ Shaped(request[q]) /\ b \in Columns
  BY DEF IInv, Sound
<1>2. a \in DOMAIN request[q].order \ request[q].locked /\ b \in DOMAIN request[q].order
  BY <1>1 DEF First, Left, Shaped
<1> QED BY <1>1, <1>2 DEF Ordered

LEMMA LocksInOrder == ASSUME IInv PROVE LocksOrdered
<1> SUFFICES ASSUME NEW q \in Request, NEW r \in Request,
                    request[q].kind \in Renumbering, request[r].kind \in Renumbering,
                    WaitsFor(q, r), WaitsFor(r, q), ~request[q].stale, ~request[r].stale
             PROVE  FALSE
  BY DEF LocksOrdered, Renumbering
<1>1. First(q) \cap request[r].locked # {} /\ First(r) \cap request[q].locked # {}
  BY DEF WaitsFor, Renumbering, Is
<1>2. PICK a \in First(q) : a \in request[r].locked
  BY <1>1
<1>3. PICK b \in First(r) : b \in request[q].locked
  BY <1>1
<1>4. /\ column[b].position < column[a].position /\ column[a].position < column[b].position
      /\ a \in Column /\ b \in Column
  BY <1>2, <1>3, FirstIsLater DEF Columns
<1>5. column[a].position \in Nat /\ column[b].position \in Nat
  BY <1>4, ColumnsTyped DEF IInv
<1> QED BY <1>4, <1>5

LEMMA BoardHolds == ASSUME IInv PROVE BoardConsistent
<1>1. EmptyWhenDeleted
  BY DEF IInv, Sound, Emptied, EmptyWhenDeleted, Is, Leaving
<1> QED BY <1>1, TypesHold, LocksInOrder DEF IInv, BoardConsistent

LEMMA BoardStarts == ASSUME BoardInit PROVE IInv
<1>1. PICK c \in Column, n \in Name :
        column = [d \in Column |-> IF d = c THEN [NoColumn EXCEPT !.name = n] ELSE NoColumn]
  BY DEF BoardInit
<1>2. n # Nobody
  BY NobodyAssumption
<1>3. NoColumn \in ColumnRow /\ [NoColumn EXCEPT !.name = n] \in ColumnRow
  BY ShiftAssumption DEF NoColumn, ColumnRow, Options
<1>4. Columns = {c} /\ column[c].name = n /\ column[c].position = 0
  BY <1>1, <1>2 DEF Columns, Exists, NoColumn
<1>5. Cardinality(Columns) = 1
  BY <1>4, FS_Singleton
<1>6. /\ request = [q \in Request |-> Idle] /\ task = [t \in Task |-> Nobody]
      /\ overlap = [names |-> FALSE, positions |-> FALSE]
  BY DEF BoardInit
<1>7. Typed
  BY <1>1, <1>2, <1>3, <1>4, <1>6, IdleRow DEF Typed, Options
<1>8. \A q \in Request : Sound(request[q])
  BY <1>6, IdleSound
<1>9. \A q, r \in Request : q # r => Apart(request[q], request[r])
  BY <1>6, IdleSound
<1>10. {column[d].position : d \in Columns} = 0..(Cardinality(Columns) - 1)
  BY <1>4, <1>5
<1>11. PositionsApart /\ LastColumnStays /\ PositionsDense /\ NamesDistinct
  BY <1>4, <1>10 DEF PositionsApart, LastColumnStays, PositionsDense, NamesDistinct
<1> QED BY <1>7, <1>8, <1>9, <1>11 DEF IInv

-----------------------------------------------------------------------------
(* Steps of a request that leave the columns alone.                        *)

\* What holds of a request is kept when others overlap it or take tasks out
\* of its column.
LEMMA SoundKept ==
    ASSUME NEW s, Sound(s), UNCHANGED column,
           overlap.names => overlap'.names, overlap.positions => overlap'.positions,
           s.at = "moved" => \A t \in Task : task'[t] = s.column => task[t] = s.column
    PROVE  Sound(s)'
<1>1. Columns' = Columns
  BY DEF Columns, Exists
<1>2. Shaped(s)' /\ Ordered(s)' /\ Complete(s)'
  BY <1>1 DEF Sound, Shaped, Ordered, Complete
<1>3. Emptied(s)' /\ Placed(s)' /\ Named(s)'
  BY <1>1 DEF Sound, Emptied, Placed, Named
<1> QED BY <1>1, <1>2, <1>3 DEF Sound

LEMMA ColumnsKept ==
    ASSUME IInv, UNCHANGED column, task' \in [Task -> Options(Column)],
           overlap' \in [names: BOOLEAN, positions: BOOLEAN],
           overlap.names => overlap'.names, overlap.positions => overlap'.positions,
           request' \in [Request -> RequestRow],
           \A q \in Request : Sound(request[q])',
           \A q, r \in Request : q # r => Apart(request[q], request[r])'
    PROVE  IInv'
<1>1. Columns' = Columns
  BY DEF Columns, Exists
<1>2. Typed'
  BY <1>1 DEF IInv, Typed
<1>3. (PositionsApart /\ LastColumnStays /\ PositionsDense /\ NamesDistinct)'
  BY <1>1 DEF IInv, PositionsApart, LastColumnStays, PositionsDense, NamesDistinct
<1> QED BY <1>2, <1>3 DEF IInv

\* A request goes on to its next step.
LEMMA RequestStep ==
    ASSUME IInv, NEW q \in Request, NEW new \in RequestRow, request' = [request EXCEPT ![q] = new],
           UNCHANGED column, task' \in [Task -> Options(Column)],
           \A r \in Request \ {q} : request[r].at = "moved" =>
              \A t \in Task : task'[t] = request[r].column => task[t] = request[r].column,
           overlap' \in [names: BOOLEAN, positions: BOOLEAN],
           overlap.names => overlap'.names, overlap.positions => overlap'.positions,
           Sound(new)', \A r \in Request \ {q} : Apart(new, request[r])'
    PROVE  IInv'
<1>1. /\ request' \in [Request -> RequestRow] /\ request'[q] = new
      /\ \A r \in Request \ {q} : request'[r] = request[r]
  BY DEF IInv, Typed
<1>2. ASSUME NEW r \in Request
      PROVE  Sound(request[r])'
  <2>1. CASE r = q
    BY <1>1, <2>1 DEF Sound, Shaped, Ordered, Complete, Emptied, Placed, Named
  <2>2. CASE r # q
    <3>1. PICK s : s = request[r]
      OBVIOUS
    <3>2. Sound(s) /\ request'[r] = s
      BY <1>1, <2>2, <3>1 DEF IInv
    <3>3. Sound(s)'
      BY <2>2, <3>1, <3>2, SoundKept
    <3> QED BY <3>2, <3>3 DEF Sound, Shaped, Ordered, Complete, Emptied, Placed, Named
  <2> QED BY <2>1, <2>2
<1>3. ASSUME NEW p \in Request, NEW r \in Request, p # r
      PROVE  Apart(request[p], request[r])'
  <2>1. CASE p = q
    BY <1>1, <1>3, <2>1 DEF Apart
  <2>2. CASE r = q
    <3>1. Apart(new, request[p])'
      BY <1>3, <2>2
    <3> QED BY <1>1, <3>1, <2>2 DEF Apart
  <2>3. CASE p # q /\ r # q
    <3>1. Apart(request[p], request[r])
      BY <1>3 DEF IInv
    <3> QED BY <1>1, <3>1, <2>3 DEF Apart
  <2> QED BY <2>1, <2>2, <2>3
<1> QED BY <1>1, <1>2, <1>3, ColumnsKept

\* A request ends without a change.
LEMMA EndStep ==
    ASSUME IInv, NEW q \in Request, Done(q), UNCHANGED <<column, task, overlap>>
    PROVE  IInv'
<1>1. Sound(Idle)' /\ \A r \in Request \ {q} : Apart(Idle, request[r])'
  BY IdleSoundNext DEF Apart, Idle, Names, Places
<1> QED BY <1>1, IdleRow, RequestStep DEF Done, IInv, Typed

\* Beginning requests.
LEMMA BeginStep ==
    ASSUME IInv, NEW q \in Request, NEW new \in RequestRow, Begin(q, new),
           new.locked = {}, Sound(new), new.at # "moved"
    PROVE  IInv'
<1>1. overlap \in [names: BOOLEAN, positions: BOOLEAN]
  BY DEF IInv, Typed
<1>2. DOMAIN overlap = {"names", "positions"}
  BY <1>1
<1> DEFINE meets(f) == \E k \in {request[r].kind : r \in Request \ {q}} : Meets(new.kind, k)[f]
<1>3. overlap' = [f \in {"names", "positions"} |-> overlap[f] \/ meets(f)]
  BY <1>2 DEF Begin
<1>4. /\ overlap'.names = (overlap.names \/ meets("names"))
      /\ overlap'.positions = (overlap.positions \/ meets("positions"))
  BY <1>3
<1>5. overlap' \in [names: BOOLEAN, positions: BOOLEAN]
  <2>1. overlap' = [names |-> overlap'.names, positions |-> overlap'.positions]
    BY <1>3
  <2>2. overlap'.names \in BOOLEAN /\ overlap'.positions \in BOOLEAN
    BY <1>4
  <2> QED BY <2>1, <2>2
<1>6. UNCHANGED <<column, task>> /\ request' = [request EXCEPT ![q] = new]
  BY DEF Begin
<1>7. Sound(new)'
  BY <1>4, <1>6, SoundKept
<1>8. ASSUME NEW r \in Request \ {q}
      PROVE  Apart(new, request[r])'
  <2>1. request'[r] = request[r]
    BY <1>6 DEF IInv, Typed
  <2>2. /\ {new.kind, request[r].kind} \subseteq Names => meets("names")
        /\ {new.kind, request[r].kind} \subseteq Places /\ "create" \in {new.kind, request[r].kind}
              => meets("positions")
    BY DEF Meets
  <2> HIDE DEF meets
  <2> QED BY <1>4, <2>1, <2>2 DEF Apart
<1> HIDE DEF meets
<1>9. task' \in [Task -> Options(Column)]
  BY <1>6 DEF IInv, Typed
<1> QED BY <1>4, <1>5, <1>6, <1>7, <1>8, <1>9, RequestStep

\* On a dense board the next position is the number of columns.
LEMMA NextIsCount ==
    ASSUME Typed
    PROVE  /\ NextPosition \in 0..(MaxPosition + 1)
           /\ {column[c].position : c \in Columns} = 0..(Cardinality(Columns) - 1)
                => NextPosition = Cardinality(Columns)
<1> DEFINE n == Cardinality(Columns)
           p == NextPosition
<1>1. /\ p \in 0..(MaxPosition + 1) /\ \A c \in Columns : column[c].position < p
      /\ p = 0 \/ \E c \in Columns : column[c].position = p - 1
  BY NextPositions DEF NextPosition, Typed
<1>2. n \in Nat /\ p \in Nat
  BY <1>1, ColumnsTyped, ShiftAssumption
<1>3. ASSUME {column[c].position : c \in Columns} = 0..(n - 1)
      PROVE  p = n
  <2> DEFINE P == {column[c].position : c \in Columns}
  <2>1. \A m \in P : m < p
    BY <1>1
  <2>2. p = 0 \/ p - 1 \in P
    BY <1>1
  <2>3. P = 0..(n - 1)
    BY <1>3
  <2> HIDE DEF P, n, p
  <2> QED BY <1>2, <2>1, <2>2, <2>3
<1> QED BY <1>1, <1>3

LEMMA BeginCreateStep ==
    ASSUME IInv, NEW q \in Request, NEW n \in Name, BeginCreate(q, n)
    PROVE  IInv'
<1> DEFINE new == [Idle EXCEPT !.at = "read", !.kind = "create", !.name = n, !.position = NextPosition]
<1>1. NextPosition \in 0..(MaxPosition + 1)
  BY NextIsCount DEF IInv
<1>2. /\ new \in RequestRow /\ new.at = "read" /\ new.kind = "create" /\ new.name = n
      /\ new.position = NextPosition /\ new.column = Nobody /\ new.order = NoOrder
      /\ new.locked = {} /\ new.tasks = {}
  BY <1>1, IdleRow DEF Idle, RequestRow, Kinds, Options
<1>3. Begin(q, new) /\ ~NameTaken(n, Nobody)
  BY DEF BeginCreate
<1> HIDE DEF new
<1>4. Shaped(new)
  BY <1>2, IdleRow DEF Shaped, Names, Renumbering
<1>5. Ordered(new) /\ Complete(new) /\ Emptied(new)
  BY <1>2, IdleRow DEF Ordered, Complete, Emptied, Renumbering
<1>6. Placed(new)
  BY <1>2, NextIsCount DEF Placed, IInv, PositionsDense
<1>7. Named(new)
  BY <1>2, <1>3 DEF Named, NameTaken
<1>8. Sound(new)
  BY <1>2, <1>4, <1>5, <1>6, <1>7 DEF Sound
<1> QED BY <1>2, <1>3, <1>8, BeginStep

LEMMA BeginRenameStep ==
    ASSUME IInv, NEW q \in Request, NEW c \in Column, NEW n \in Name, BeginRename(q, c, n)
    PROVE  IInv'
<1> DEFINE new == [Idle EXCEPT !.at = "read", !.kind = "rename", !.column = c, !.name = n]
<1>1. /\ new \in RequestRow /\ new.at = "read" /\ new.kind = "rename" /\ new.name = n
      /\ new.column = c /\ new.order = NoOrder /\ new.locked = {} /\ new.tasks = {}
  BY IdleRow DEF Idle, RequestRow, Kinds, Options
<1>2. Begin(q, new) /\ ~NameTaken(n, c)
  BY DEF BeginRename
<1> HIDE DEF new
<1>3. Shaped(new)
  BY <1>1, IdleRow DEF Shaped, Names, Renumbering
<1>4. Ordered(new) /\ Complete(new) /\ Emptied(new) /\ Placed(new)
  BY <1>1, IdleRow DEF Ordered, Complete, Emptied, Placed, Renumbering
<1>5. Named(new)
  BY <1>1, <1>2 DEF Named, NameTaken
<1>6. Sound(new)
  BY <1>1, <1>3, <1>4, <1>5 DEF Sound
<1> QED BY <1>1, <1>2, <1>6, BeginStep

\* The snapshot of a renumbering is the order of the columns.
LEMMA SnapshotOrder ==
    ASSUME IInv
    PROVE  LET order == [d \in Columns |-> Place(d)] IN
           /\ order \in Snapshots /\ DOMAIN order = Columns
           /\ \A c, d \in Columns :
                /\ order[c] < order[d] <=> column[c].position < column[d].position
                /\ c # d => order[c] # order[d]
<1> DEFINE f == [c \in Columns |-> column[c].position]
           order == [d \in Columns |-> Place(d)]
           rank == [c \in Columns |-> Cardinality({d \in Columns : f[d] < f[c]})]
<1>1. /\ Columns \subseteq Column /\ IsFiniteSet(Columns) /\ Cardinality(Columns) \in Nat
      /\ \A c \in Columns : column[c].position \in Nat
  BY ColumnsTyped DEF IInv
<1>2. f \in [Columns -> Nat] /\ \A c, d \in Columns : c # d => f[c] # f[d]
  BY <1>1 DEF IInv, PositionsApart
<1>3. order = rank
  BY DEF Place
<1> HIDE DEF f
<1>4. /\ rank \in [Columns -> 0..(Cardinality(Columns) - 1)]
      /\ \A c, d \in Columns : rank[c] < rank[d] <=> f[c] < f[d]
  BY <1>1, <1>2, Ranks
<1>5. Cardinality(Columns) <= Cardinality(Column) /\ Cardinality(Column) \in Nat
  BY <1>1, ColumnsFinite
<1> HIDE DEF rank
<1>6. rank \in [Columns -> 0..Cardinality(Column)]
  BY <1>1, <1>4, <1>5
<1>7. ASSUME NEW c \in Columns, NEW d \in Columns
      PROVE  /\ rank[c] < rank[d] <=> column[c].position < column[d].position
             /\ c # d => rank[c] # rank[d]
  <2>1. f[c] = column[c].position /\ f[d] = column[d].position /\ f[c] \in Nat /\ f[d] \in Nat
    BY <1>2 DEF f
  <2>2. rank[c] \in 0..Cardinality(Column) /\ rank[d] \in 0..Cardinality(Column)
    BY <1>6
  <2>3. c # d => f[c] < f[d] \/ f[d] < f[c]
    BY <1>2, <2>1
  <2> QED BY <1>4, <1>5, <2>1, <2>2, <2>3
<1>8. rank \in Snapshots /\ DOMAIN rank = Columns
  BY <1>1, <1>6 DEF Snapshots
<1> QED BY <1>3, <1>7, <1>8

LEMMA BeginRenumberStep ==
    ASSUME IInv, NEW q \in Request, NEW k \in Kinds, NEW c \in Options(Column), BeginRenumber(q, k, c)
    PROVE  IInv'
<1> DEFINE order == [d \in Columns |-> Place(d)]
           new == [Idle EXCEPT !.at = "lock", !.kind = k, !.column = c, !.order = order]
<1>1. /\ order \in Snapshots /\ DOMAIN order = Columns
      /\ \A a, b \in Columns : /\ order[a] < order[b] <=> column[a].position < column[b].position
                               /\ a # b => order[a] # order[b]
  BY SnapshotOrder
<1>2. Begin(q, new) /\ k \in Renumbering /\ (k = "delete" => c \in Column)
  BY DEF BeginRenumber, Options, Renumbering
<1> HIDE DEF order
<1>3. /\ new \in RequestRow /\ new.at = "lock" /\ new.kind = k /\ new.column = c
      /\ new.order = order /\ new.locked = {} /\ new.tasks = {}
  BY <1>1, IdleRow DEF Idle, RequestRow
<1> HIDE DEF new
<1>4. Shaped(new)
  BY <1>1, <1>2, <1>3 DEF Shaped, Names, Renumbering
<1>5. Ordered(new) /\ Complete(new) /\ Emptied(new) /\ Placed(new) /\ Named(new)
  BY <1>1, <1>2, <1>3 DEF Ordered, Complete, Emptied, Placed, Named, Names, Renumbering
<1>6. Sound(new)
  BY <1>3, <1>4, <1>5 DEF Sound
<1> QED BY <1>2, <1>3, <1>6, BeginStep

LEMMA BeginMoveStep ==
    ASSUME IInv, NEW q \in Request, NEW t \in Task, NEW c \in Column, BeginMove(q, t, c)
    PROVE  IInv'
<1> DEFINE new == [Idle EXCEPT !.at = "lock", !.kind = "move", !.column = c, !.task = t]
<1>1. /\ new \in RequestRow /\ new.at = "lock" /\ new.kind = "move" /\ new.column = c
      /\ new.order = NoOrder /\ new.locked = {} /\ new.tasks = {}
  BY IdleRow DEF Idle, RequestRow, Kinds, Options
<1>2. Begin(q, new)
  BY DEF BeginMove
<1> HIDE DEF new
<1>3. Shaped(new)
  BY <1>1, IdleRow DEF Shaped, Names, Renumbering
<1>4. Ordered(new) /\ Complete(new) /\ Emptied(new) /\ Placed(new) /\ Named(new)
  BY <1>1, IdleRow DEF Ordered, Complete, Emptied, Placed, Named, Names, Renumbering
<1>5. Sound(new)
  BY <1>1, <1>3, <1>4 DEF Sound
<1> QED BY <1>1, <1>2, <1>5, BeginStep

-----------------------------------------------------------------------------
(* Locks.                                                                  *)

\* A step of q that changes neither the board nor what was noted.
LEMMA LocalStep ==
    ASSUME IInv, NEW q \in Request, NEW new \in RequestRow, request' = [request EXCEPT ![q] = new],
           UNCHANGED <<column, task, overlap>>, Sound(new), new.kind = request[q].kind,
           \A r \in Request \ {q} : new.locked \cap request[r].locked = {}
    PROVE  IInv'
<1>1. Sound(new)'
  BY SoundKept
<1>2. ASSUME NEW r \in Request \ {q}
      PROVE  Apart(new, request[r])'
  <2>1. Apart(request[q], request[r]) /\ request'[r] = request[r]
    BY DEF IInv, Typed
  <2> QED BY <2>1 DEF Apart
<1>3. overlap' \in [names: BOOLEAN, positions: BOOLEAN] /\ task' \in [Task -> Options(Column)]
  BY DEF IInv, Typed
<1> QED BY <1>1, <1>2, <1>3, RequestStep

LEMMA LockStep == ASSUME IInv, NEW q \in Request, Lock(q) PROVE IInv'
<1> DEFINE r == request[q]
<1>1. PICK c \in First(q) : /\ r.at = "lock" /\ ~Locked(q, c)
                            /\ request' = [request EXCEPT ![q].locked = @ \cup {c}]
                            /\ UNCHANGED <<column, task, overlap>>
  BY DEF Lock
<1> DEFINE new == [r EXCEPT !.locked = @ \cup {c}]
<1>2. r \in RequestRow /\ Sound(r)
  BY DEF IInv, Typed
<1>3. DOMAIN r.order \subseteq Column /\ \A d \in DOMAIN r.order : r.order[d] \in Nat
  <2>1. PICK S \in SUBSET Column : r.order \in [S -> 0..Cardinality(Column)]
    BY <1>2 DEF RequestRow, Snapshots
  <2>2. Cardinality(Column) \in Nat
    BY ColumnsFinite
  <2> QED BY <2>1, <2>2
<1>4. /\ c \in DOMAIN r.order \ r.locked /\ c \in Columns
      /\ \A d \in DOMAIN r.order \ r.locked : d \in Columns => r.order[c] <= r.order[d]
  BY <1>3 DEF First, Left, Columns
<1>5. /\ new \in RequestRow /\ new.at = r.at /\ new.kind = r.kind /\ new.column = r.column
      /\ new.name = r.name /\ new.position = r.position /\ new.order = r.order
      /\ new.locked = r.locked \cup {c} /\ new.tasks = r.tasks /\ new.stale = r.stale
  BY <1>2, <1>4 DEF RequestRow, Columns
<1>6. request' = [request EXCEPT ![q] = new]
  BY <1>1
<1> HIDE DEF new
<1>7. Shaped(new)
  BY <1>1, <1>2, <1>4, <1>5 DEF Sound, Shaped, Renumbering, Names
<1>8. Ordered(new)
  <2> SUFFICES ASSUME ~r.stale
               PROVE  \A a \in new.locked, d \in DOMAIN r.order \ new.locked : r.order[a] < r.order[d]
    BY <1>2, <1>5 DEF Sound, Ordered
  <2>1. DOMAIN r.order \subseteq Columns
    BY <1>2 DEF Sound, Ordered
  <2>2. ASSUME NEW d \in DOMAIN r.order \ new.locked
        PROVE  r.order[c] < r.order[d]
    <3>1. d \in DOMAIN r.order \ r.locked /\ d # c
      BY <1>5, <2>2
    <3>2. r.order[c] <= r.order[d] /\ r.order[c] # r.order[d]
      BY <1>2, <1>4, <2>1, <3>1 DEF Sound, Shaped
    <3> QED BY <1>4, <1>3, <3>1, <3>2
  <2> QED BY <1>2, <1>5, <2>2 DEF Sound, Ordered
<1>9. Complete(new) /\ Emptied(new) /\ Placed(new) /\ Named(new)
  BY <1>1, <1>2, <1>5 DEF Sound, Complete, Emptied, Placed, Named
<1>10. Sound(new)
  BY <1>2, <1>4, <1>5, <1>7, <1>8, <1>9 DEF Sound
<1>11. \A p \in Request \ {q} : new.locked \cap request[p].locked = {}
  BY <1>1, <1>5 DEF Locked, IInv, Apart
<1> QED BY <1>1, <1>5, <1>6, <1>10, <1>11, LocalStep

\* The SELECT FOR UPDATE is done: the columns it has are all, unless one was
\* created meanwhile.
LEMMA HoldsAll ==
    ASSUME IInv, NEW q \in Request, NEW kind \in Renumbering, Holds(q, kind), ~overlap.positions
    PROVE  Columns \subseteq request[q].locked
<1>1. Columns \subseteq DOMAIN request[q].order
  BY DEF IInv, Sound, Complete, Holds, Is
<1> QED BY <1>1 DEF Holds, Left, Columns

LEMMA MoveTasksStep == ASSUME IInv, NEW q \in Request, MoveTasks(q) PROVE IInv'
<1> DEFINE r == request[q]
           new == [r EXCEPT !.at = "moved", !.tasks = Leaving(q)]
<1>1. /\ Holds(q, "delete") /\ Deletable(q) /\ UNCHANGED <<column, task, overlap>>
      /\ request' = [request EXCEPT ![q] = new]
  BY DEF MoveTasks, IInv, Typed
<1>2. r \in RequestRow /\ Sound(r) /\ r.at = "lock" /\ r.kind = "delete"
  BY <1>1 DEF IInv, Typed, Holds, Is
<1>3. /\ new \in RequestRow /\ new.at = "moved" /\ new.kind = r.kind /\ new.column = r.column
      /\ new.name = r.name /\ new.order = r.order /\ new.locked = r.locked
      /\ new.tasks = Leaving(q) /\ new.stale = r.stale
  BY <1>2 DEF RequestRow, Leaving
<1> HIDE DEF new
<1>4. r.column \in r.locked /\ \E d \in r.locked : d # r.column
  <2>1. Cardinality(r.locked) > 1 /\ r.column \in r.locked
    BY <1>1 DEF Deletable, Survivors
  <2>2. Cardinality({r.column}) = 1
    BY FS_Singleton
  <2>3. r.locked # {r.column}
    BY <2>1, <2>2
  <2> QED BY <2>1, <2>3
<1>5. Shaped(new) /\ Ordered(new) /\ Placed(new) /\ Named(new)
  BY <1>2, <1>3 DEF Sound, Shaped, Ordered, Placed, Named, Renumbering, Names
<1>6. Complete(new)
  <2>1. ~overlap.positions => Columns \subseteq r.locked
    BY <1>1, HoldsAll DEF Renumbering
  <2> QED BY <1>2, <1>3, <2>1 DEF Sound, Complete
<1>7. Emptied(new)
  BY <1>3, <1>4 DEF Emptied, Leaving
<1>8. Sound(new)
  BY <1>2, <1>3, <1>5, <1>6, <1>7 DEF Sound
<1>9. \A p \in Request \ {q} : new.locked \cap request[p].locked = {}
  BY <1>3 DEF IInv, Apart
<1> QED BY <1>1, <1>3, <1>8, <1>9, LocalStep

-----------------------------------------------------------------------------
(* Tasks come into columns.                                                *)

LEMMA CommitMoveStep == ASSUME IInv, NEW q \in Request, CommitMove(q) PROVE IInv'
<1> DEFINE c == request[q].column
<1>1. /\ ~Locked(q, c) /\ task' = [task EXCEPT ![request[q].task] = c]
      /\ request' = [request EXCEPT ![q] = Idle] /\ UNCHANGED <<column, overlap>>
      /\ request[q].kind = "move"
  BY DEF CommitMove, Done, Is
<1>2. c \in Column
  BY <1>1 DEF IInv, Sound, Shaped
<1>3. task' \in [Task -> Options(Column)]
  BY <1>1, <1>2 DEF IInv, Typed, Options
<1>4. ASSUME NEW r \in Request \ {q}, request[r].at = "moved", NEW t \in Task,
             task'[t] = request[r].column
      PROVE  task[t] = request[r].column
  <2>1. request[r].column \in request[r].locked
    BY <1>4 DEF IInv, Sound, Emptied
  <2>2. request[r].column # c
    BY <1>1, <2>1 DEF Locked
  <2> QED BY <1>1, <1>4, <2>2 DEF IInv, Typed
<1>5. Sound(Idle)' /\ \A r \in Request \ {q} : Apart(Idle, request[r])'
  BY IdleSoundNext DEF Apart, Idle, Names, Places
<1>6. overlap' \in [names: BOOLEAN, positions: BOOLEAN]
  BY <1>1 DEF IInv, Typed
<1> HIDE DEF c
<1> QED BY <1>1, <1>3, <1>4, <1>5, <1>6, IdleRow, RequestStep

LEMMA CreateTaskStep ==
    ASSUME IInv, NEW t \in Task, NEW c \in Column, CreateTask(t, c)
    PROVE  IInv'
<1>1. ~Locked(Nobody, c) /\ task' = [task EXCEPT ![t] = c] /\ UNCHANGED <<column, request, overlap>>
  BY DEF CreateTask
<1>2. task' \in [Task -> Options(Column)]
  BY <1>1 DEF IInv, Typed, Options
<1>3. ASSUME NEW r \in Request, request[r].at = "moved", NEW u \in Task,
             task'[u] = request[r].column
      PROVE  task[u] = request[r].column
  <2>1. request[r].column \in request[r].locked
    BY <1>3 DEF IInv, Sound, Emptied
  <2>2. request[r].column # c
    BY <1>1, <2>1, NobodyAssumption DEF Locked
  <2> QED BY <1>1, <1>3, <2>2 DEF IInv, Typed
<1>4. ASSUME NEW r \in Request
      PROVE  Sound(request[r])'
  <2>1. PICK s : s = request[r]
    OBVIOUS
  <2>2. Sound(s) /\ request'[r] = s
    BY <1>1, <2>1 DEF IInv
  <2>3. Sound(s)'
    BY <1>1, <1>3, <2>1, <2>2, SoundKept
  <2> QED BY <2>2, <2>3 DEF Sound, Shaped, Ordered, Complete, Emptied, Placed, Named
<1>5. \A q, r \in Request : q # r => Apart(request[q], request[r])'
  BY <1>1 DEF IInv, Apart
<1>6. request' \in [Request -> RequestRow] /\ overlap' \in [names: BOOLEAN, positions: BOOLEAN]
  BY <1>1 DEF IInv, Typed
<1> QED BY <1>1, <1>2, <1>4, <1>5, <1>6, ColumnsKept

-----------------------------------------------------------------------------
(* Columns are renamed, created, renumbered and deleted.                   *)

\* The other requests after a step of q that ends it.
LEMMA OthersApart ==
    ASSUME IInv, NEW q \in Request, Done(q), UNCHANGED overlap
    PROVE  /\ request' \in [Request -> RequestRow] /\ request'[q] = Idle
           /\ \A r \in Request \ {q} : request'[r] = request[r]
           /\ \A p, r \in Request : p # r => Apart(request[p], request[r])'
<1>1. /\ request' \in [Request -> RequestRow] /\ request'[q] = Idle
      /\ \A r \in Request \ {q} : request'[r] = request[r]
  BY IdleRow DEF IInv, Typed, Done
<1>2. ASSUME NEW p \in Request, NEW r \in Request, p # r
      PROVE  Apart(request[p], request[r])'
  <2>1. CASE p = q \/ r = q
    BY <1>1, <2>1 DEF Apart, Idle, Names, Places
  <2>2. CASE p # q /\ r # q
    <3>1. Apart(request[p], request[r])
      BY <1>2 DEF IInv
    <3> QED BY <1>1, <2>2, <3>1 DEF Apart
  <2> QED BY <2>1, <2>2
<1> QED BY <1>1, <1>2

LEMMA CommitRenameStep == ASSUME IInv, NEW q \in Request, CommitRename(q) PROVE IInv'
<1> DEFINE c == request[q].column
           n == request[q].name
<1>1. /\ request[q].kind = "rename" /\ Exists(c) /\ column' = [column EXCEPT ![c].name = n]
      /\ Done(q) /\ UNCHANGED <<task, overlap>>
  BY DEF CommitRename, Is
<1>2. Sound(request[q]) /\ c \in Column /\ n \in Name /\ n # Nobody
  BY <1>1, NobodyAssumption DEF IInv, Sound, Shaped, Names
<1>3. c \in Columns
  BY <1>1, <1>2 DEF Columns
<1> HIDE DEF c, n
<1>4. \A d \in Column : /\ column[d] \in ColumnRow
                        /\ column'[d] = IF d = c THEN [column[c] EXCEPT !.name = n] ELSE column[d]
  BY <1>1, <1>2 DEF IInv, Typed
<1>5. \A d \in Column : /\ column'[d] \in ColumnRow /\ column'[d].position = column[d].position
                        /\ column'[d].name = IF d = c THEN n ELSE column[d].name
  BY <1>2, <1>4 DEF ColumnRow, Options
<1>6. Columns' = Columns
  <2>1. column'[c] # NoColumn
    BY <1>2, <1>5 DEF NoColumn
  <2> QED BY <1>3, <1>4, <2>1 DEF Columns, Exists
<1>7. column' \in [Column -> ColumnRow]
  BY <1>1, <1>5 DEF IInv, Typed
<1>8. \A d \in Columns : column'[d].name # Nobody /\ d \in Column
  BY <1>2, <1>5 DEF IInv, Typed, Columns
<1>9. /\ request' \in [Request -> RequestRow] /\ request'[q] = Idle
      /\ \A r \in Request \ {q} : request'[r] = request[r]
      /\ \A p, r \in Request : p # r => Apart(request[p], request[r])'
  BY <1>1, OthersApart
<1>10. Typed'
  BY <1>1, <1>6, <1>7, <1>8, <1>9 DEF IInv, Typed
<1>11. (PositionsApart /\ LastColumnStays /\ PositionsDense)'
  <2>1. {column[d].position : d \in Columns}' = {column[d].position : d \in Columns}
    BY <1>5, <1>6, <1>8
  <2> QED BY <1>1, <1>5, <1>6, <1>8, <2>1 DEF IInv, PositionsApart, LastColumnStays, PositionsDense
<1>12. NamesDistinct'
  <2>1. ~overlap.names => \A d \in Columns \ {c} : column[d].name # n
    BY <1>1, <1>2 DEF Sound, Named, Names, c, n
  <2> QED BY <1>1, <1>5, <1>6, <1>8, <2>1 DEF IInv, NamesDistinct
<1>13. ASSUME NEW r \in Request
       PROVE  Sound(request[r])'
  <2>1. CASE r = q
    BY <1>9, <2>1, IdleSoundNext DEF Sound, Shaped, Ordered, Complete, Emptied, Placed, Named
  <2>2. CASE r # q
    <3>1. PICK s : s = request[r]
      OBVIOUS
    <3>2. Sound(s) /\ request'[r] = s /\ Apart(request[q], s)
      BY <1>9, <2>2, <3>1 DEF IInv
    <3>3. Shaped(s)' /\ Complete(s)' /\ Emptied(s)' /\ Placed(s)'
      BY <1>1, <1>6, <3>2 DEF Sound, Shaped, Complete, Emptied, Placed
    <3>4. Ordered(s)'
      BY <1>5, <1>6, <1>8, <3>2 DEF Sound, Ordered
    <3>5. Named(s)'
      BY <1>1, <3>2 DEF Apart, Named, Names
    <3>6. Sound(s)'
      BY <1>6, <3>2, <3>3, <3>4, <3>5 DEF Sound
    <3> QED BY <3>2, <3>6 DEF Sound, Shaped, Ordered, Complete, Emptied, Placed, Named
  <2> QED BY <2>1, <2>2
<1> QED BY <1>9, <1>10, <1>11, <1>12, <1>13 DEF IInv

LEMMA CommitCreateStep ==
    ASSUME IInv, NEW q \in Request, NEW c \in Column, CommitCreate(q, c)
    PROVE  IInv'
<1> DEFINE n == request[q].name
           p == request[q].position
<1>1. /\ request[q].kind = "create" /\ ~Exists(c) /\ p <= MaxPosition
      /\ \A d \in Columns : column[d].position # p
      /\ column' = [column EXCEPT ![c] = [name |-> n, position |-> p]]
      /\ Done(q) /\ UNCHANGED <<task, overlap>>
  BY DEF CommitCreate, Is
<1>2. Sound(request[q]) /\ request[q] \in RequestRow /\ n \in Name /\ n # Nobody
  BY <1>1, NobodyAssumption DEF IInv, Typed, Sound, Shaped, Names
<1>3. p \in 0..MaxPosition
  BY <1>1, <1>2, ShiftAssumption DEF RequestRow
<1>4. /\ ~overlap.positions => p = Cardinality(Columns)
      /\ ~overlap.names => \A d \in Columns : column[d].name # n
  <2>1. request[q].column = Nobody /\ Nobody \notin Columns
    BY <1>1, <1>2, NobodyAssumption DEF Sound, Shaped, Columns
  <2> QED BY <1>1, <1>2, <2>1 DEF Sound, Placed, Named, Names
<1> HIDE DEF n, p
<1>5. \A d \in Column : column'[d] = IF d = c THEN [name |-> n, position |-> p] ELSE column[d]
  BY <1>1 DEF IInv, Typed
<1>6. Columns' = Columns \cup {c} /\ c \notin Columns
  <2>1. [name |-> n, position |-> p] # NoColumn
    BY <1>2 DEF NoColumn
  <2> QED BY <1>1, <1>5, <2>1 DEF Columns, Exists
<1>7. [name |-> n, position |-> p] \in ColumnRow
  BY <1>2, <1>3 DEF ColumnRow, Options
<1>8. column' \in [Column -> ColumnRow]
  BY <1>1, <1>7 DEF IInv, Typed
<1>9. /\ column'[c].name = n /\ column'[c].position = p
      /\ \A d \in Columns : d \in Column /\ d # c /\ column'[d] = column[d]
  BY <1>5, <1>6 DEF Columns
<1>10. \A d \in Columns \cup {c} : column'[d].name # Nobody
  BY <1>2, <1>9 DEF IInv, Typed
<1>11. /\ request' \in [Request -> RequestRow] /\ request'[q] = Idle
       /\ \A r \in Request \ {q} : request'[r] = request[r]
       /\ \A o, r \in Request : o # r => Apart(request[o], request[r])'
  BY <1>1, OthersApart
<1>12. Typed'
  BY <1>1, <1>6, <1>8, <1>10, <1>11 DEF IInv, Typed
<1>13. PositionsApart' /\ LastColumnStays'
  BY <1>1, <1>6, <1>9 DEF IInv, PositionsApart, LastColumnStays
<1>14. PositionsDense'
  <2> SUFFICES ASSUME ~overlap.positions
               PROVE  {column'[d].position : d \in Columns'} = 0..(Cardinality(Columns') - 1)
    BY <1>1 DEF PositionsDense
  <2>1. IsFiniteSet(Columns) /\ Cardinality(Columns) \in Nat
    BY ColumnsTyped DEF IInv
  <2>2. Cardinality(Columns') = Cardinality(Columns) + 1
    BY <1>6, <2>1, FS_AddElement
  <2>3. {column'[d].position : d \in Columns'} = {column[d].position : d \in Columns} \cup {p}
    BY <1>6, <1>9
  <2>4. {column[d].position : d \in Columns} = 0..(Cardinality(Columns) - 1)
    BY DEF IInv, PositionsDense
  <2>5. \A k \in Nat : 0..((k + 1) - 1) = (0..(k - 1)) \cup {k}
    OBVIOUS
  <2> QED BY <1>4, <2>1, <2>2, <2>3, <2>4, <2>5
<1>15. NamesDistinct'
  BY <1>1, <1>4, <1>6, <1>9 DEF IInv, NamesDistinct
<1>16. ASSUME NEW r \in Request
       PROVE  Sound(request[r])'
  <2>1. CASE r = q
    BY <1>11, <2>1, IdleSoundNext DEF Sound, Shaped, Ordered, Complete, Emptied, Placed, Named
  <2>2. CASE r # q
    <3>1. PICK s : s = request[r]
      OBVIOUS
    <3>2. Sound(s) /\ request'[r] = s /\ Apart(request[q], s)
      BY <1>11, <2>2, <3>1 DEF IInv
    <3>3. Shaped(s)' /\ Emptied(s)'
      BY <1>1, <3>2 DEF Sound, Shaped, Emptied
    <3>4. Ordered(s)'
      BY <1>6, <1>9, <3>2 DEF Sound, Ordered
    <3>5. Complete(s)' /\ Placed(s)'
      BY <1>1, <3>2 DEF Apart, Complete, Placed, Places, Renumbering
    <3>6. Named(s)'
      BY <1>1, <3>2 DEF Apart, Named, Names
    <3>7. Sound(s)'
      BY <1>6, <3>2, <3>3, <3>4, <3>5, <3>6 DEF Sound
    <3> QED BY <3>2, <3>7 DEF Sound, Shaped, Ordered, Complete, Emptied, Placed, Named
  <2> QED BY <2>1, <2>2
<1> QED BY <1>11, <1>12, <1>13, <1>14, <1>15, <1>16 DEF IInv

\* A column that stays has a position of its own, so there is one for each.
LEMMA RoomForAll ==
    ASSUME IInv, NEW S, S \subseteq Columns
    PROVE  IsFiniteSet(S) /\ Cardinality(S) \in Nat /\ Cardinality(S) <= MaxPosition + 1
           /\ Cardinality(S) <= Shift
<1>1. S \subseteq Column /\ IsFiniteSet(S) /\ Cardinality(S) \in Nat /\ Cardinality(S) <= Shift
  BY ColumnsFinite, ColumnsTyped DEF IInv
<1> DEFINE f == [c \in S |-> column[c].position]
           T == 0..MaxPosition
<1>2. f \in [S -> T] /\ \A c, d \in S : f[c] = f[d] => c = d
  BY <1>1, ColumnsTyped DEF IInv, PositionsApart
<1>3. IsFiniteSet(T) /\ Cardinality(T) = MaxPosition + 1
  BY ShiftAssumption, FS_Interval
<1> HIDE DEF f, T
<1>4. f \in Injection(S, T)
  BY <1>2 DEF Injection, IsInjective
<1> QED BY <1>1, <1>3, <1>4, FS_Injection

\* q renumbers the columns it holds, those it keeps; the others it holds are
\* deleted, and a column that was created meanwhile is shifted.
Ranked(kept, rank) == /\ rank \in [kept -> 0..(Cardinality(kept) - 1)]
                      /\ \A c, d \in kept : c # d => rank[c] # rank[d]

Rewritten(locked, kept, rank) ==
    /\ column' = [c \in Column |-> column'[c]]
    /\ \A c \in kept : column'[c] = [column[c] EXCEPT !.position = rank[c]]
    /\ \A c \in Columns \ locked : column'[c] = [column[c] EXCEPT !.position = @ + Shift]
    /\ \A c \in Column : c \in kept \/ c \in Columns \ locked \/ column'[c] = NoColumn

\* No task comes into a column that another request is deleting.
NoneCome(q) ==
    /\ task' \in [Task -> Options(Column)]
    /\ \A r \in Request \ {q} : request[r].at = "moved" =>
          \A t \in Task : task'[t] = request[r].column => task[t] = request[r].column

LEMMA RenumberStep ==
    ASSUME IInv, NEW q \in Request, NEW kept, NEW rank, kept \subseteq request[q].locked, kept # {},
           Ranked(kept, rank), Rewritten(request[q].locked, kept, rank), NoneCome(q),
           Room(q), ~overlap.positions => Columns \subseteq request[q].locked,
           Renumbers(q), Settles(q), request[q].kind \in Renumbering
    PROVE  IInv'
<1> DEFINE mine == request[q].locked
           rest == Columns \ mine
<1>0. /\ rank \in [kept -> 0..(Cardinality(kept) - 1)]
      /\ \A c, d \in kept : c # d => rank[c] # rank[d]
      /\ column' = [c \in Column |-> column'[c]]
      /\ \A c \in kept : column'[c] = [column[c] EXCEPT !.position = rank[c]]
      /\ \A c \in rest : column'[c] = [column[c] EXCEPT !.position = @ + Shift]
      /\ \A c \in Column : c \in kept \/ c \in rest \/ column'[c] = NoColumn
      /\ task' \in [Task -> Options(Column)]
      /\ \A r \in Request \ {q} : request[r].at = "moved" =>
            \A t \in Task : task'[t] = request[r].column => task[t] = request[r].column
  BY DEF Ranked, Rewritten, NoneCome
<1>1. /\ mine \subseteq Columns /\ kept \subseteq Columns /\ Columns \subseteq Column
      /\ kept \cap rest = {} /\ rest \subseteq Columns
  BY ColumnsTyped DEF IInv, Sound
<1>2. /\ IsFiniteSet(kept) /\ Cardinality(kept) \in Nat /\ Cardinality(kept) <= MaxPosition + 1
      /\ Cardinality(kept) <= Shift
  BY <1>1, RoomForAll
<1>3. \A c \in Column : /\ column[c] \in ColumnRow /\ column[c].position \in Nat
                        /\ column[c].name \in Options(Name)
  BY ColumnsTyped DEF IInv
<1>4. \A c \in rest : column[c].position + Shift <= MaxPosition
  BY DEF Room, Survivors
<1>5. \A c \in kept : rank[c] \in Nat /\ rank[c] < Cardinality(kept)
  BY <1>0, <1>2
<1>6. ASSUME NEW c \in kept
      PROVE  /\ column'[c] \in ColumnRow /\ column'[c].position = rank[c]
             /\ column'[c].name = column[c].name
  <2>1. column[c] \in ColumnRow /\ rank[c] \in 0..MaxPosition
    BY <1>1, <1>2, <1>3, <1>5, ShiftAssumption
  <2>2. column'[c] = [column[c] EXCEPT !.position = rank[c]]
    BY <1>0
  <2> QED BY <2>1, <2>2 DEF ColumnRow
<1>7. ASSUME NEW c \in rest
      PROVE  /\ column'[c] \in ColumnRow /\ column'[c].position = column[c].position + Shift
             /\ column'[c].name = column[c].name
  <2>1. column[c] \in ColumnRow /\ column[c].position + Shift \in 0..MaxPosition
    BY <1>1, <1>3, <1>4, ShiftAssumption
  <2>2. column'[c] = [column[c] EXCEPT !.position = column[c].position + Shift]
    BY <1>0
  <2> QED BY <2>1, <2>2 DEF ColumnRow
<1>8. \A c \in Columns : column[c].name # Nobody
  BY DEF IInv, Typed
<1>9. Columns' = kept \cup rest
  <2>1. \A c \in kept \cup rest : column'[c] # NoColumn /\ c \in Column
    BY <1>1, <1>6, <1>7, <1>8 DEF NoColumn
  <2>2. \A c \in Column : c \notin kept \cup rest => column'[c] = NoColumn
    BY <1>0
  <2> HIDE DEF rest
  <2> QED BY <2>1, <2>2 DEF Columns, Exists
<1>10. NoColumn \in ColumnRow
  BY ShiftAssumption DEF NoColumn, ColumnRow, Options
<1>11. \A c \in Column : column'[c] \in ColumnRow
  <2>1. \A c \in Column : c \in kept \/ c \in rest \/ column'[c] = NoColumn
    BY <1>0
  <2> HIDE DEF rest
  <2> QED BY <1>6, <1>7, <1>10, <2>1
<1>12. column' \in [Column -> ColumnRow]
  BY <1>0, <1>11
<1>13. \A c \in Columns' : /\ c \in Columns /\ column'[c].name = column[c].name
                           /\ column'[c].name # Nobody
  <2> HIDE DEF rest
  <2> QED BY <1>1, <1>6, <1>7, <1>8, <1>9
<1>14. /\ overlap' \in [names: BOOLEAN, positions: BOOLEAN] /\ overlap'.names = overlap.names
       /\ ~overlap'.positions => ~overlap.positions \/
             (mine = Columns /\ \A r \in Request \ {q} : request[r].kind \notin Places)
       /\ ~overlap.positions => ~overlap'.positions
  <2>1. overlap \in [names: BOOLEAN, positions: BOOLEAN]
    BY DEF IInv, Typed
  <2> DEFINE b == overlap.positions /\ ~(/\ Survivors(q) = Columns
                                         /\ \A r \in Request \ {q} : request[r].kind \notin Places)
  <2>2. overlap' = [overlap EXCEPT !.positions = b]
    BY DEF Settles
  <2>3. b \in BOOLEAN /\ overlap'.names = overlap.names /\ overlap'.positions = b
    BY <2>1, <2>2
  <2>4. overlap' \in [names: BOOLEAN, positions: BOOLEAN]
    <3> HIDE DEF b
    <3> QED BY <2>1, <2>2, <2>3
  <2> QED BY <2>3, <2>4 DEF Survivors
<1>15. ASSUME NEW r \in Request
       PROVE  /\ request'[r] \in RequestRow
              /\ r = q => request'[r] = Idle
              /\ r # q => \/ request'[r] = request[r] /\ DOMAIN request[r].order = {}
                          \/ request'[r] = [request[r] EXCEPT !.stale = TRUE]
              /\ r # q => request'[r].locked = request[r].locked /\ request'[r].kind = request[r].kind
              /\ r # q /\ request[r] = Idle => request'[r] = Idle
  <2>1. request[r] \in RequestRow
    BY DEF IInv, Typed
  <2>2. request'[r] = IF r = q THEN Idle
                      ELSE IF request[r].order # NoOrder THEN [request[r] EXCEPT !.stale = TRUE]
                      ELSE request[r]
    BY DEF Renumbers
  <2>3. [request[r] EXCEPT !.stale = TRUE] \in RequestRow
    BY <2>1 DEF RequestRow
  <2>4. [request[r] EXCEPT !.stale = TRUE].locked = request[r].locked
        /\ [request[r] EXCEPT !.stale = TRUE].kind = request[r].kind
    BY <2>1 DEF RequestRow
  <2>5. CASE r = q
    BY <2>2, <2>5, IdleRow
  <2>6. CASE r # q /\ request[r].order = NoOrder
    BY <2>1, <2>2, <2>6, IdleRow
  <2>7. CASE r # q /\ request[r].order # NoOrder
    <3>1. request[r] # Idle
      BY <2>7 DEF Idle
    <3> QED BY <2>2, <2>3, <2>4, <2>7, <3>1
  <2> QED BY <2>5, <2>6, <2>7
<1>16. request' \in [Request -> RequestRow]
  BY <1>15 DEF Renumbers
<1>17. Typed'
  BY <1>0, <1>12, <1>13, <1>14, <1>16 DEF Typed
<1>18. PositionsApart'
  <2> SUFFICES ASSUME NEW c \in Columns', NEW d \in Columns', c # d
               PROVE  column'[c].position # column'[d].position
    BY DEF PositionsApart
  <2>1. column[c].position # column[d].position /\ c \in Column /\ d \in Column
    BY <1>1, <1>13 DEF IInv, PositionsApart
  <2>2. column[c].position \in Nat /\ column[d].position \in Nat /\ Shift \in Nat
    BY <1>3, <2>1, ShiftAssumption
  <2>3. CASE c \in kept /\ d \in kept
    BY <1>0, <1>6, <2>3
  <2>4. CASE c \in rest /\ d \in rest
    BY <1>7, <2>1, <2>2, <2>4
  <2>5. CASE c \in kept /\ d \in rest
    BY <1>2, <1>5, <1>6, <1>7, <2>2, <2>5
  <2>6. CASE c \in rest /\ d \in kept
    BY <1>2, <1>5, <1>6, <1>7, <2>2, <2>6
  <2> HIDE DEF rest
  <2> QED BY <1>9, <2>3, <2>4, <2>5, <2>6
<1>19. LastColumnStays'
  BY <1>9 DEF LastColumnStays
<1>20. PositionsDense'
  <2> SUFFICES ASSUME ~overlap'.positions
               PROVE  {column'[c].position : c \in Columns'} = 0..(Cardinality(Columns') - 1)
    BY DEF PositionsDense
  <2>1. rest = {}
    BY <1>14
  <2>2. Columns' = kept
    BY <1>9, <2>1
  <2>3. {column'[c].position : c \in kept} = {rank[c] : c \in kept}
    BY <1>6
  <2>4. {rank[c] : c \in kept} = 0..(Cardinality(kept) - 1)
    BY <1>0, <1>2, AllNumbers
  <2> QED BY <2>2, <2>3, <2>4
<1>21. NamesDistinct'
  BY <1>13, <1>14 DEF IInv, NamesDistinct
<1>22. ASSUME NEW r \in Request \ {q}, ~overlap'.positions
       PROVE  /\ request[r].kind # "create"
              /\ request[r].kind \in Renumbering => ~overlap.positions
  <2>1. Apart(request[q], request[r])
    BY DEF IInv
  <2> QED BY <1>14, <1>22, <2>1 DEF Apart, Places, Renumbering
<1>23. ASSUME NEW r \in Request
       PROVE  Sound(request[r])'
  <2>1. CASE r = q
    <3>1. request'[r] = Idle
      BY <1>15, <2>1
    <3> QED BY <3>1, IdleSoundNext DEF Sound, Shaped, Ordered, Complete, Emptied, Placed, Named
  <2>2. CASE r # q
    <3>1. PICK s : s = request'[r]
      OBVIOUS
    <3>2. request[r] \in RequestRow /\ Sound(request[r]) /\ Apart(request[q], request[r])
      BY <2>2 DEF IInv, Typed
    <3>3. /\ s.at = request[r].at /\ s.kind = request[r].kind /\ s.column = request[r].column
          /\ s.name = request[r].name /\ s.position = request[r].position
          /\ s.order = request[r].order /\ s.locked = request[r].locked
          /\ s.tasks = request[r].tasks
          /\ s.stale \/ DOMAIN s.order = {}
      <4>1. CASE s = request[r] /\ DOMAIN request[r].order = {}
        BY <4>1
      <4>2. CASE s = [request[r] EXCEPT !.stale = TRUE]
        BY <3>2, <4>2 DEF RequestRow
      <4> QED BY <1>15, <2>2, <3>1, <4>1, <4>2
    <3>4. s.locked \subseteq Columns'
      <4>1. s.locked \subseteq rest
        BY <3>2, <3>3 DEF Sound, Apart
      <4> HIDE DEF rest
      <4> QED BY <1>9, <4>1
    <3>5. Shaped(s)'
      <4>1. s.at = "idle" => s = Idle
        <5>1. request[r].at = "idle" => request[r] = Idle
          BY <3>2 DEF Sound, Shaped
        <5> QED BY <1>15, <2>2, <3>1, <3>3, <5>1
      <4>2. Shaped(request[r])
        BY <3>2 DEF Sound
      <4> QED BY <3>3, <4>1, <4>2 DEF Shaped
    <3>6. Ordered(s)'
      <4>1. s.locked \subseteq DOMAIN s.order
        BY <3>2, <3>3 DEF Sound, Shaped
      <4> QED BY <3>3, <4>1 DEF Ordered
    <3>7. Complete(s)'
      BY <1>13, <1>22, <2>2, <3>2, <3>3 DEF Sound, Complete
    <3>8. Emptied(s)'
      <4>1. \A t \in Task : s.at = "moved" /\ task'[t] = s.column => task[t] = s.column
        <5>1. request[r].at = "moved" =>
                \A t \in Task : task'[t] = request[r].column => task[t] = request[r].column
          BY <1>0, <2>2
        <5> QED BY <3>3, <5>1
      <4> QED BY <3>2, <3>3, <4>1 DEF Sound, Emptied
    <3>9. Placed(s)'
      BY <1>22, <2>2, <3>3 DEF Placed
    <3>10. Named(s)'
      BY <1>13, <1>14, <3>2, <3>3 DEF Sound, Named
    <3>11. Sound(s)'
      BY <3>4, <3>5, <3>6, <3>7, <3>8, <3>9, <3>10 DEF Sound
    <3> QED BY <3>1, <3>11 DEF Sound, Shaped, Ordered, Complete, Emptied, Placed, Named
  <2> QED BY <2>1, <2>2
<1>24. ASSUME NEW p \in Request, NEW r \in Request, p # r
       PROVE  Apart(request[p], request[r])'
  <2>1. CASE p = q \/ r = q
    <3>1. request'[p] = Idle \/ request'[r] = Idle
      BY <1>15, <2>1
    <3>2. PICK x, y : x = request'[p] /\ y = request'[r]
      OBVIOUS
    <3>3. Apart(x, y)'
      BY <3>1, <3>2, IdleSoundNext
    <3> QED BY <3>2, <3>3 DEF Apart
  <2>2. CASE p # q /\ r # q
    <3>1. Apart(request[p], request[r]) /\ request[p] \in RequestRow /\ request[r] \in RequestRow
      BY <1>24 DEF IInv, Typed
    <3>2. /\ request'[p].locked = request[p].locked /\ request'[p].kind = request[p].kind
          /\ request'[r].locked = request[r].locked /\ request'[r].kind = request[r].kind
      BY <1>15, <2>2
    <3>3. {request[p].kind, request[r].kind} \subseteq Places /\ overlap.positions => overlap'.positions
      BY <1>14, <2>2
    <3> QED BY <1>14, <3>1, <3>2, <3>3 DEF Apart
  <2> QED BY <2>1, <2>2
<1> QED BY <1>17, <1>18, <1>19, <1>20, <1>21, <1>23, <1>24 DEF IInv

LEMMA CommitReorderStep == ASSUME IInv, NEW q \in Request, CommitReorder(q) PROVE IInv'
<1>1. PICK kept : kept = request[q].locked
  OBVIOUS
<1>2. PICK rank \in Orders(kept) : column' = Renumbered(kept, rank)
  BY <1>1 DEF CommitReorder, Survivors
<1>3. /\ kept # {} /\ Room(q) /\ Renumbers(q) /\ Settles(q) /\ task' = task
      /\ Holds(q, "reorder") /\ request[q].kind = "reorder" /\ "reorder" \in Renumbering
  BY <1>1 DEF CommitReorder, Survivors, Holds, Is, Renumbering
<1>4. Ranked(kept, rank)
  BY DEF Orders, Ranked
<1>5. kept \subseteq Columns /\ Columns \subseteq Column
  BY <1>1, ColumnsTyped DEF IInv, Sound
<1>6. Rewritten(request[q].locked, kept, rank)
  <2>1. ASSUME NEW c \in Column
        PROVE  column'[c] = IF c \in kept THEN [column[c] EXCEPT !.position = rank[c]]
                            ELSE IF Exists(c) THEN [column[c] EXCEPT !.position = @ + Shift]
                            ELSE NoColumn
    BY <1>2 DEF Renumbered
  <2>2. column' = [c \in Column |-> column'[c]]
    BY <1>2 DEF Renumbered
  <2> QED BY <1>1, <1>5, <2>1, <2>2 DEF Rewritten, Columns
<1>7. ~overlap.positions => Columns \subseteq request[q].locked
  BY <1>3, HoldsAll
<1>8. NoneCome(q)
  BY <1>3 DEF IInv, Typed, NoneCome
<1> QED BY <1>1, <1>3, <1>4, <1>6, <1>7, <1>8, RenumberStep

\* The positions a deletion writes.
LEMMA DeletionRanks ==
    ASSUME IInv, NEW q \in Request, NEW kept, kept = request[q].locked \ {request[q].column},
           NEW rank, rank = [c \in kept |-> Rank(q, c)]
    PROVE  /\ Ranked(kept, rank)
           /\ \A c, d \in kept : rank[c] < rank[d] <=> request[q].order[c] < request[q].order[d]
<1> DEFINE S == request[q].locked \ {request[q].column}
           R == [c \in S |-> Rank(q, c)]
           f == [c \in S |-> request[q].order[c]]
           counts == [c \in S |-> Cardinality({d \in S : f[d] < f[c]})]
<1>1. Sound(request[q]) /\ request[q] \in RequestRow
  BY DEF IInv, Typed
<1>2. S \subseteq DOMAIN request[q].order
  BY <1>1 DEF Sound, Shaped
<1>3. \A c \in DOMAIN request[q].order : request[q].order[c] \in Nat
  <2>1. PICK D \in SUBSET Column : request[q].order \in [D -> 0..Cardinality(Column)]
    BY <1>1 DEF RequestRow, Snapshots
  <2>2. Cardinality(Column) \in Nat
    BY ColumnsFinite
  <2> QED BY <2>1, <2>2
<1>4. f \in [S -> Nat] /\ \A c, d \in S : c # d => f[c] # f[d]
  BY <1>1, <1>2, <1>3 DEF Sound, Shaped
<1>5. IsFiniteSet(S) /\ Cardinality(S) \in Nat
  BY <1>1, RoomForAll DEF Sound
<1>6. R = counts
  BY DEF Rank, Survivors
<1>7. \A c \in S : f[c] = request[q].order[c]
  OBVIOUS
<1> HIDE DEF f, S
<1>8. /\ counts \in [S -> 0..(Cardinality(S) - 1)]
      /\ \A c, d \in S : counts[c] < counts[d] <=> f[c] < f[d]
  BY <1>4, <1>5, Ranks
<1> HIDE DEF counts, R
<1>9. ASSUME NEW c \in S, NEW d \in S, c # d
      PROVE  R[c] # R[d]
  <2>1. f[c] \in Nat /\ f[d] \in Nat /\ f[c] # f[d]
    BY <1>4, <1>9
  <2>2. f[c] < f[d] \/ f[d] < f[c]
    BY <2>1
  <2>3. R[c] \in Nat /\ R[d] \in Nat
    BY <1>5, <1>6, <1>8
  <2> QED BY <1>6, <1>8, <2>2, <2>3
<1>10. /\ R \in [S -> 0..(Cardinality(S) - 1)]
       /\ \A c, d \in S : R[c] < R[d] <=> request[q].order[c] < request[q].order[d]
  BY <1>6, <1>7, <1>8
<1>11. kept = S /\ rank = R
  BY DEF S, R
<1> QED BY <1>9, <1>10, <1>11 DEF Ranked

LEMMA CommitDeleteStep ==
    ASSUME IInv, NEW q \in Request, NEW to \in Options(Column), CommitDelete(q, to)
    PROVE  IInv'
<1>1. PICK gone, kept, rank : /\ gone = request[q].column /\ kept = request[q].locked \ {gone}
                              /\ rank = [c \in kept |-> Rank(q, c)]
  OBVIOUS
<1>2. /\ request[q].kind \in Renumbering /\ request[q].at = "moved" /\ Room(q)
      /\ Renumbers(q) /\ Settles(q)
      /\ IF request[q].tasks = {} THEN to = Nobody ELSE to \in kept
      /\ task' = [t \in Task |-> IF t \in request[q].tasks THEN to ELSE task[t]]
      /\ column' = [Renumbered(kept, rank) EXCEPT ![gone] = NoColumn]
  BY <1>1 DEF CommitDelete, Is, Renumbering, Survivors
<1>3. Sound(request[q]) /\ gone \in request[q].locked /\ kept # {}
  BY <1>1, <1>2 DEF IInv, Sound, Emptied
<1>4. Ranked(kept, rank)
  BY <1>1, DeletionRanks DEF Ranked
<1>5. request[q].locked \subseteq Columns /\ Columns \subseteq Column
  BY <1>3, ColumnsTyped DEF IInv, Sound
<1>6. Rewritten(request[q].locked, kept, rank)
  <2>1. ASSUME NEW c \in Column
        PROVE  column'[c] = IF c = gone THEN NoColumn
                            ELSE IF c \in kept THEN [column[c] EXCEPT !.position = rank[c]]
                            ELSE IF Exists(c) THEN [column[c] EXCEPT !.position = @ + Shift]
                            ELSE NoColumn
    BY <1>2 DEF Renumbered
  <2>2. column' = [c \in Column |-> column'[c]]
    BY <1>2 DEF Renumbered
  <2>3. gone \notin kept /\ gone \notin Columns \ request[q].locked
        /\ kept = request[q].locked \ {gone}
    BY <1>1, <1>3
  <2> QED BY <1>5, <2>1, <2>2, <2>3 DEF Rewritten, Columns
<1>7. ~overlap.positions => Columns \subseteq request[q].locked
  BY <1>2, <1>3 DEF Sound, Complete
<1>8. NoneCome(q)
  <2>1. to \in Options(Column)
    OBVIOUS
  <2>2. task' \in [Task -> Options(Column)]
    BY <1>2, <2>1 DEF IInv, Typed
  <2>3. ASSUME NEW r \in Request \ {q}, request[r].at = "moved", NEW t \in Task,
               task'[t] = request[r].column
        PROVE  task[t] = request[r].column
    <3>1. request[r].column \in request[r].locked /\ request[r].locked \cap request[q].locked = {}
      BY <2>3 DEF IInv, Sound, Emptied, Apart
    <3>2. task'[t] = IF t \in request[q].tasks THEN to ELSE task[t]
      BY <1>2
    <3>3. t \in request[q].tasks => to \in kept
      BY <1>2
    <3> QED BY <1>1, <2>3, <3>1, <3>2, <3>3
  <2> QED BY <2>2, <2>3 DEF NoneCome
<1>9. kept \subseteq request[q].locked
  BY <1>1
<1> QED BY <1>2, <1>3, <1>4, <1>6, <1>7, <1>8, <1>9, RenumberStep

LEMMA BoardStep == ASSUME IInv, [BoardNext]_boardVars PROVE IInv'
<1>1. ASSUME NEW q \in Request, NEW n \in Name, BeginCreate(q, n)
      PROVE  IInv'
  BY <1>1, BeginCreateStep
<1>2. ASSUME NEW q \in Request, NEW c \in Column, NEW n \in Name, BeginRename(q, c, n)
      PROVE  IInv'
  BY <1>2, BeginRenameStep
<1>3. ASSUME NEW q \in Request, NEW k \in Kinds, NEW c \in Options(Column), BeginRenumber(q, k, c)
      PROVE  IInv'
  BY <1>3, BeginRenumberStep
<1>4. ASSUME NEW q \in Request, NEW t \in Task, NEW c \in Column, BeginMove(q, t, c)
      PROVE  IInv'
  BY <1>4, BeginMoveStep
<1>5. ASSUME NEW q \in Request, Proceed(q)
      PROVE  IInv'
  <2>1. CASE Lock(q)
    BY <2>1, LockStep
  <2>2. CASE MoveTasks(q)
    BY <2>2, MoveTasksStep
  <2>3. CASE CommitReorder(q)
    BY <2>3, CommitReorderStep
  <2>4. CASE CommitRename(q)
    BY <2>4, CommitRenameStep
  <2>5. CASE CommitMove(q)
    BY <2>5, CommitMoveStep
  <2>6. ASSUME NEW c \in Column, CommitCreate(q, c)
        PROVE  IInv'
    BY <2>6, CommitCreateStep
  <2>7. ASSUME NEW c \in Options(Column), CommitDelete(q, c)
        PROVE  IInv'
    BY <2>7, CommitDeleteStep
  <2> QED BY <1>5, <2>1, <2>2, <2>3, <2>4, <2>5, <2>6, <2>7 DEF Proceed
<1>6. ASSUME NEW q \in Request, Refuse(q) \/ Abort(q) \/ Fail(q)
      PROVE  IInv'
  BY <1>6, EndStep DEF Refuse, Abort, Fail
<1>7. ASSUME NEW t \in Task, NEW c \in Column, CreateTask(t, c)
      PROVE  IInv'
  BY <1>7, CreateTaskStep
<1>8. CASE UNCHANGED boardVars
  <2>1. /\ column' = column /\ task' = task /\ request' = request /\ overlap' = overlap
        /\ Columns' = Columns
    BY <1>8 DEF boardVars, Columns, Exists
  <2>2. Typed' /\ PositionsApart' /\ LastColumnStays' /\ PositionsDense' /\ NamesDistinct'
    BY <2>1 DEF IInv, Typed, PositionsApart, LastColumnStays, PositionsDense, NamesDistinct
  <2>3. ASSUME NEW q \in Request
        PROVE  Sound(request[q])'
    <3>1. Sound(request[q])
      BY DEF IInv
    <3> QED BY <2>1, <3>1 DEF Sound, Shaped, Ordered, Complete, Emptied, Placed, Named
  <2>4. \A q, r \in Request : q # r => Apart(request[q], request[r])'
    BY <2>1 DEF IInv, Apart
  <2> QED BY <2>2, <2>3, <2>4 DEF IInv
<1> QED BY <1>1, <1>2, <1>3, <1>4, <1>5, <1>6, <1>7, <1>8 DEF BoardNext

(* The board is consistent in every state: its types, a column that stays, *)
(* no task left in a column that is deleted, dense positions, distinct     *)
(* names and ordered locks, the last three but for the overlaps recorded.  *)
THEOREM BoardStaysConsistent == BoardSpec => []BoardConsistent
<1>1. BoardInit => IInv
  BY BoardStarts
<1>2. IInv /\ [BoardNext]_boardVars => IInv'
  BY BoardStep
<1>3. IInv => BoardConsistent
  BY BoardHolds
<1> QED BY <1>1, <1>2, <1>3, PTL DEF BoardSpec

\* A step that changes columns and ends a deletion is that deletion's own.
LEMMA DeletionCommits ==
    ASSUME IInv, BoardNext, NEW q \in Request, request[q].at = "moved", request'[q] = Idle,
           column' # column
    PROVE  \E to \in Options(Column) : CommitDelete(q, to)
<1>1. request[q] # Idle /\ request[q].stale \in BOOLEAN /\ Idle.at # "moved"
      /\ request[q] \in RequestRow /\ request \in [Request -> RequestRow]
  BY DEF Idle, IInv, Typed, RequestRow
<1>2. ASSUME NEW r \in Request, Done(r)
      PROVE  r = q
  BY <1>1, <1>2 DEF Done
<1>3. ASSUME NEW r \in Request, Renumbers(r)
      PROVE  r = q
  <2> SUFFICES ASSUME r # q
               PROVE  FALSE
    OBVIOUS
  <2>1. request'[q] = [request[q] EXCEPT !.stale = TRUE] \/ request'[q] = request[q]
    BY <1>3 DEF Renumbers
  <2>2. [request[q] EXCEPT !.stale = TRUE].at = "moved"
    BY <1>1 DEF RequestRow
  <2> QED BY <1>1, <2>1, <2>2
<1>4. ASSUME NEW r \in Request, Proceed(r)
      PROVE  \E to \in Options(Column) : CommitDelete(q, to)
  <2>1. CASE Lock(r) \/ MoveTasks(r) \/ CommitMove(r)
    BY <2>1 DEF Lock, MoveTasks, CommitMove
  <2>2. CASE CommitReorder(r)
    BY <1>3, <2>2 DEF CommitReorder, Holds, Is
  <2>3. CASE CommitRename(r)
    BY <1>2, <2>3 DEF CommitRename, Is
  <2>4. CASE \E c \in Column : CommitCreate(r, c)
    BY <1>2, <2>4 DEF CommitCreate, Is
  <2>5. CASE \E c \in Options(Column) : CommitDelete(r, c)
    BY <1>3, <2>5 DEF CommitDelete
  <2> QED BY <1>4, <2>1, <2>2, <2>3, <2>4, <2>5 DEF Proceed
<1>5. ASSUME NEW r \in Request,
             \/ \E n \in Name : BeginCreate(r, n) \/ \E c \in Column : BeginRename(r, c, n)
             \/ \E k \in Kinds, c \in Options(Column) : BeginRenumber(r, k, c)
             \/ \E t \in Task, c \in Column : BeginMove(r, t, c)
             \/ Refuse(r) \/ Abort(r) \/ Fail(r)
      PROVE  column' = column
  BY <1>5 DEF BeginCreate, BeginRename, BeginRenumber, BeginMove, Begin, Refuse, Abort, Fail
<1>6. ASSUME NEW t \in Task, NEW c \in Column, CreateTask(t, c)
      PROVE  column' = column
  BY <1>6 DEF CreateTask
<1> QED BY <1>4, <1>5, <1>6 DEF BoardNext

\* The positions it writes stand in the order of the snapshot, which is the
\* order of the columns when no renumbering has overtaken it.
LEMMA DeletionOrder ==
    ASSUME IInv, NEW q \in Request, NEW to \in Options(Column), CommitDelete(q, to), ~request[q].stale
    PROVE  KeepsOrder(q)
<1>1. PICK gone, kept, rank : /\ gone = request[q].column /\ kept = request[q].locked \ {gone}
                              /\ rank = [c \in kept |-> Rank(q, c)]
  OBVIOUS
<1>2. column' = [Renumbered(kept, rank) EXCEPT ![gone] = NoColumn]
  BY <1>1 DEF CommitDelete, Survivors
<1>3. Sound(request[q]) /\ kept \subseteq Columns /\ Columns \subseteq Column /\ gone \notin kept
      /\ kept \subseteq DOMAIN request[q].order
  BY <1>1, ColumnsTyped DEF IInv, Sound, Shaped
<1>4. \A c \in kept : column'[c] = [column[c] EXCEPT !.position = rank[c]]
  BY <1>2, <1>3 DEF Renumbered
<1>5. \A c \in kept : column[c] \in ColumnRow
  BY <1>3, ColumnsTyped DEF IInv
<1>6. \A c \in kept : column'[c].position = rank[c]
  BY <1>4, <1>5 DEF ColumnRow
<1>7. \A c, d \in kept : rank[c] < rank[d] <=> request[q].order[c] < request[q].order[d]
  BY <1>1, DeletionRanks
<1>8. \A c, d \in kept : request[q].order[c] < request[q].order[d]
                           <=> column[c].position < column[d].position
  BY <1>3 DEF Sound, Ordered
<1> QED BY <1>1, <1>6, <1>7, <1>8 DEF KeepsOrder

(* Deleting a column keeps the other columns in their order, unless the    *)
(* request waited for a renumbering.                                       *)
THEOREM DeletionsKeepOrder == BoardSpec => DeleteKeepsOrder
<1>1. IInv /\ [BoardNext]_boardVars =>
        [\A q \in Request : Is(q, "moved", "delete") /\ ~request[q].stale
                             /\ request'[q] = Idle /\ column' # column => KeepsOrder(q)]_boardVars
  <2> SUFFICES ASSUME IInv, BoardNext, NEW q \in Request, Is(q, "moved", "delete"), ~request[q].stale,
                      request'[q] = Idle, column' # column
               PROVE  KeepsOrder(q)
    OBVIOUS
  <2>1. PICK to \in Options(Column) : CommitDelete(q, to)
    BY DeletionCommits DEF Is
  <2> QED BY <2>1, DeletionOrder
<1>2. BoardInit => IInv
  BY BoardStarts
<1>3. IInv /\ [BoardNext]_boardVars => IInv'
  BY BoardStep
<1> QED BY <1>1, <1>2, <1>3, PTL DEF BoardSpec, DeleteKeepsOrder

-----------------------------------------------------------------------------
(* Dependencies: the graph facts that the cycle check rests on.            *)

\* An edge a -> b may be added to a graph without cycles when b does not reach
\* a: a closed set C holds b but not a, and a set of tasks that blocked itself
\* would do so inside C or without using the new edge.
LEMMA AddEdge ==
    ASSUME NEW N, NEW E, NEW a \in N, NEW b \in N,
           Acyclic(N, E), ~Reaches(b, a, N, E)
    PROVE  Acyclic(N, E \cup {<<a, b>>})
<1>1. PICK C \in SUBSET N : b \in C /\ Closed(C, N, E) /\ a \notin C
  BY DEF Reaches
<1>2. SUFFICES ASSUME NEW S \in SUBSET N, S # {}
               PROVE  \E x \in S : \A y \in S : <<x, y>> \notin E \cup {<<a, b>>}
  BY DEF Acyclic
<1>3. CASE S \cap C # {}
  <2>1. PICK x \in S \cap C : \A y \in S \cap C : <<x, y>> \notin E
    <3>1. S \cap C \in SUBSET N
      OBVIOUS
    <3> QED BY <1>3, <3>1 DEF Acyclic
  <2>2. \A y \in S : <<x, y>> \notin E
    BY <1>1, <2>1 DEF Closed
  <2>3. \A y : <<x, y>> # <<a, b>>
    BY <1>1, <2>1
  <2> QED BY <2>1, <2>2, <2>3
<1>4. CASE S \cap C = {}
  <2>1. PICK x \in S : \A y \in S : <<x, y>> \notin E
    BY <1>2 DEF Acyclic
  <2>2. \A y \in S : <<x, y>> # <<a, b>>
    BY <1>1, <1>4
  <2> QED BY <2>1, <2>2
<1> QED BY <1>3, <1>4

\* Fewer edges reach no further.
LEMMA FewerEdgesReach ==
    ASSUME NEW N, NEW E, NEW F \in SUBSET E, NEW x, NEW y, Reaches(x, y, N, F)
    PROVE  Reaches(x, y, N, E)
BY DEF Reaches, Closed

\* A task reaches itself, so the check refuses a task that blocks itself.
LEMMA ReachesItself ==
    ASSUME NEW N, NEW E, NEW x
    PROVE  Reaches(x, x, N, E)
BY DEF Reaches

-----------------------------------------------------------------------------
(* Types, whatever the number of clients.                                  *)

DistinctEnds ==
    \A c \in Client : adding[c].phase = "checked" =>
        adding[c].blocker # adding[c].blocked

TypeInv == TypeOK /\ DistinctEnds

LEMMA TypeStep == TypeInv /\ [Next]_vars => TypeInv'
<1> SUFFICES ASSUME TypeInv, [Next]_vars PROVE TypeInv'
  OBVIOUS
<1> USE DEF TypeInv, TypeOK, DistinctEnds, Adding, NotAdding
<1>1. ASSUME NEW c \in Client, NEW b \in Task, NEW d \in Task,
             BeginAdding(c, b, d)
      PROVE  TypeInv'
  BY <1>1 DEF BeginAdding
<1>2. ASSUME NEW c \in Client, Access(c) PROVE TypeInv'
  BY <1>2 DEF Access
<1>3. ASSUME NEW c \in Client, Check(c) PROVE TypeInv'
  <2>1. ASSUME adding'[c].phase = "checked"
        PROVE  adding'[c].blocker # adding'[c].blocked
    <3>1. ~Reaches(adding[c].blocked, adding[c].blocker, Task, EdgesAmong(live))
      BY <1>3, <2>1 DEF Check, WouldCreateCycle
    <3>2. adding[c].blocker # adding[c].blocked
      BY <3>1, ReachesItself
    <3> QED BY <1>3, <2>1, <3>2 DEF Check
  <2>2. EdgesAmong(live) \in SUBSET (Task \X Task)
    BY DEF EdgesAmong
  <2>3. adding[c] \in Adding
    BY <1>3 DEF Check
  <2>4. adding'[c] \in Adding \cup {NotAdding}
    BY <1>3, <2>2, <2>3 DEF Check
  <2>5. \A d \in Client : d = c \/ adding'[d] = adding[d]
    BY <1>3 DEF Check
  <2>6. adding' \in [Client -> Adding \cup {NotAdding}]
    BY <1>3, <2>4, <2>5 DEF Check
  <2>7. UNCHANGED <<edges, live, missed>>
    BY <1>3 DEF Check
  <2> QED BY <2>1, <2>5, <2>6, <2>7
<1>4. ASSUME NEW c \in Client, Insert(c) PROVE TypeInv'
  <2>1. adding[c] \in Adding /\ adding[c].blocker # adding[c].blocked
    BY <1>4 DEF Insert
  <2>2. <<adding[c].blocker, adding[c].blocked>> \in Task \X Task
    BY <2>1
  <2>3. missed' \subseteq edges' \X edges'
    BY <1>4 DEF Insert
  <2> QED BY <1>4, <2>1, <2>2, <2>3 DEF Insert
<1>5. ASSUME NEW c \in Client, FailAdding(c) PROVE TypeInv'
  BY <1>5 DEF FailAdding
<1>6. ASSUME NEW e \in edges, Delete(e) PROVE TypeInv'
  BY <1>6 DEF Delete
<1>7. ASSUME NEW t \in Task, Archive(t) \/ Restore(t) PROVE TypeInv'
  BY <1>7 DEF Archive, Restore
<1>8. CASE UNCHANGED vars
  BY <1>8 DEF vars
<1> QED BY <1>1, <1>2, <1>3, <1>4, <1>5, <1>6, <1>7, <1>8 DEF Next

LEMMA TypeInvariant == Spec => []TypeInv
<1>1. Init => TypeInv
  BY DEF Init, TypeInv, TypeOK, DistinctEnds, Adding, NotAdding
<1> QED BY <1>1, TypeStep, PTL DEF Spec

\* create_dependency never inserts a row that the CHECK constraint of
\* task_dependencies would refuse, for any number of concurrent requests.
THEOREM TypeCorrect == Spec => []TypeOK
<1>1. TypeInv => TypeOK
  BY DEF TypeInv
<1> QED BY <1>1, TypeInvariant, PTL

-----------------------------------------------------------------------------
(* Circles of rows.                                                        *)

\* A check that passed found no way from the blocked task to the blocker.
ChecksPassed ==
    \A c \in Client : LET r == adding[c] IN
        r.phase = "checked" => ~Reaches(r.blocked, r.blocker, Task, r.saw)

Inv == TypeInv /\ ChecksPassed /\ CirclesWereMissed

\* A request that keeps to the others' records, and no new row.
LEMMA NoNewRow ==
    ASSUME Inv, edges' \subseteq edges,
           \A e, f \in edges' : <<e, f>> \in missed => <<e, f>> \in missed',
           \A c \in Client : adding'[c] = adding[c] \/ adding'[c].phase # "checked"
    PROVE  (ChecksPassed /\ CirclesWereMissed)'
<1>1. ChecksPassed'
  BY DEF Inv, ChecksPassed
<1>2. ASSUME NEW circle \in SUBSET edges', (circle \X circle) \cap missed' = {}
      PROVE  Acyclic(Task, circle)
  <2>1. circle \in SUBSET edges /\ (circle \X circle) \cap missed = {}
    BY <1>2
  <2> QED BY <2>1 DEF Inv, CirclesWereMissed
<1> QED BY <1>1, <1>2 DEF CirclesWereMissed

\* A row that is inserted closes no circle with rows its check has read.
LEMMA InsertStep ==
    ASSUME Inv, NEW c \in Client, Insert(c)
    PROVE  CirclesWereMissed'
<1> DEFINE r == adding[c]
           e == <<r.blocker, r.blocked>>
<1>1. /\ r \in Adding /\ ~Reaches(r.blocked, r.blocker, Task, r.saw)
      /\ edges' = edges \cup {e}
      /\ missed' = IF e \in edges THEN missed ELSE missed \cup ({e} \X (edges \ r.saw))
  BY DEF Inv, TypeInv, TypeOK, ChecksPassed, Insert, NotAdding
<1>2. r.blocker \in Task /\ r.blocked \in Task
  BY <1>1 DEF Adding
<1> SUFFICES ASSUME NEW circle \in SUBSET edges', (circle \X circle) \cap missed' = {}
             PROVE  Acyclic(Task, circle)
  BY DEF CirclesWereMissed
<1> HIDE DEF e, r
<1>3. missed \subseteq missed'
  BY <1>1
<1>4. CASE e \notin circle \/ e \in edges
  <2>1. circle \in SUBSET edges /\ (circle \X circle) \cap missed = {}
    BY <1>1, <1>3, <1>4
  <2> QED BY <2>1 DEF Inv, CirclesWereMissed
<1>5. CASE e \in circle /\ e \notin edges
  <2> DEFINE rest == circle \ {e}
  <2>1. rest \in SUBSET edges /\ (rest \X rest) \cap missed = {}
    BY <1>1, <1>3
  <2>2. Acyclic(Task, rest)
    BY <2>1 DEF Inv, CirclesWereMissed
  <2>3. rest \in SUBSET r.saw
    <3> SUFFICES ASSUME NEW f \in rest PROVE f \in r.saw
      OBVIOUS
    <3>1. <<e, f>> \notin missed'
      BY <1>5
    <3> QED BY <1>1, <1>5, <2>1, <3>1
  <2>4. ~Reaches(r.blocked, r.blocker, Task, rest)
    BY <1>1, <2>3, FewerEdgesReach
  <2>5. Acyclic(Task, rest \cup {<<r.blocker, r.blocked>>})
    BY <1>2, <2>2, <2>4, AddEdge
  <2>6. circle = rest \cup {<<r.blocker, r.blocked>>}
    BY <1>5 DEF e
  <2> QED BY <2>5, <2>6
<1> QED BY <1>4, <1>5

LEMMA InvStep == Inv /\ [Next]_vars => Inv'
<1> SUFFICES ASSUME Inv, [Next]_vars PROVE (ChecksPassed /\ CirclesWereMissed)'
  BY TypeStep DEF Inv
<1>0. TypeOK
  BY DEF Inv, TypeInv
<1>1. ASSUME NEW c \in Client, NEW x \in Task, NEW y \in Task,
             BeginAdding(c, x, y)
      PROVE  (ChecksPassed /\ CirclesWereMissed)'
  BY <1>0, <1>1, NoNewRow DEF BeginAdding, TypeOK
<1>2. ASSUME NEW c \in Client, Access(c)
      PROVE  (ChecksPassed /\ CirclesWereMissed)'
  <2>1. adding[c] \in Adding
    BY <1>0, <1>2 DEF Access, TypeOK, NotAdding
  <2> QED BY <1>0, <1>2, <2>1, NoNewRow DEF Access, TypeOK, Adding
<1>3. ASSUME NEW c \in Client, Check(c)
      PROVE  (ChecksPassed /\ CirclesWereMissed)'
  <2>1. adding[c] \in Adding
    BY <1>0, <1>3 DEF Check, TypeOK, NotAdding
  <2>2. ASSUME NEW d \in Client, adding'[d].phase = "checked"
        PROVE  ~Reaches(adding'[d].blocked, adding'[d].blocker, Task, adding'[d].saw)
    <3>1. CASE d # c
      BY <1>0, <1>3, <2>2, <3>1 DEF Check, Inv, ChecksPassed, TypeOK
    <3>2. CASE d = c
      <4>1. /\ ~Reaches(adding[c].blocked, adding[c].blocker, Task, EdgesAmong(live))
            /\ adding'[c] = [adding[c] EXCEPT !.phase = "checked", !.saw = EdgesAmong(live)]
        BY <1>0, <1>3, <2>2, <3>2 DEF Check, WouldCreateCycle, TypeOK, NotAdding
      <4>2. /\ adding'[c].blocked = adding[c].blocked
            /\ adding'[c].blocker = adding[c].blocker
            /\ adding'[c].saw = EdgesAmong(live)
        BY <2>1, <4>1 DEF Adding
      <4> QED BY <3>2, <4>1, <4>2
    <3> QED BY <3>1, <3>2
  <2>3. ChecksPassed'
    BY <2>2 DEF ChecksPassed
  <2>4. CirclesWereMissed'
    BY <1>3 DEF Check, Inv, CirclesWereMissed
  <2> QED BY <2>3, <2>4
<1>4. ASSUME NEW c \in Client, Insert(c)
      PROVE  (ChecksPassed /\ CirclesWereMissed)'
  <2>1. ChecksPassed'
    BY <1>0, <1>4 DEF Insert, Inv, ChecksPassed, TypeOK, NotAdding
  <2> QED BY <1>4, <2>1, InsertStep
<1>5. ASSUME NEW c \in Client, FailAdding(c)
      PROVE  (ChecksPassed /\ CirclesWereMissed)'
  BY <1>0, <1>5, NoNewRow DEF FailAdding, TypeOK, NotAdding
<1>6. ASSUME NEW e \in edges, Delete(e)
      PROVE  (ChecksPassed /\ CirclesWereMissed)'
  BY <1>6, NoNewRow DEF Delete
<1>7. ASSUME NEW t \in Task, Archive(t) \/ Restore(t)
      PROVE  (ChecksPassed /\ CirclesWereMissed)'
  BY <1>7, NoNewRow DEF Archive, Restore
<1>8. CASE UNCHANGED vars
  BY <1>8, NoNewRow DEF vars
<1> QED BY <1>1, <1>2, <1>3, <1>4, <1>5, <1>6, <1>7, <1>8 DEF Next

LEMMA InvInit == Init => Inv
<1> SUFFICES ASSUME Init PROVE Inv
  OBVIOUS
<1>1. TypeInv
  BY DEF Init, TypeInv, TypeOK, DistinctEnds, Adding, NotAdding
<1>2. ChecksPassed
  BY DEF Init, ChecksPassed, NotAdding
<1>3. CirclesWereMissed
  BY DEF Init, CirclesWereMissed, Acyclic
<1> QED BY <1>1, <1>2, <1>3 DEF Inv

(* However many create_dependency requests overlap each other, deletions,  *)
(* archives and restores, a circle of rows holds one whose check had not   *)
(* read another one of the circle.                                         *)
THEOREM CirclesAreMissed == Spec => []CirclesWereMissed
<1>1. Inv => CirclesWereMissed
  BY DEF Inv
<1>2. Inv /\ [Next]_vars => Inv'
  BY InvStep
<1> QED BY <1>1, <1>2, InvInit, PTL DEF Spec

-----------------------------------------------------------------------------
(* Lists as bags of tasks: what pop and extend do to the elements.         *)

\* The first n elements of a list.
LEMMA Prefix ==
    ASSUME NEW S, NEW s \in Seq(S), NEW n \in Nat, n <= Len(s)
    PROVE  /\ SubSeq(s, 1, n) \in Seq(S)
           /\ Len(SubSeq(s, 1, n)) = n
           /\ \A i \in 1..n : SubSeq(s, 1, n)[i] = s[i]
OBVIOUS

\* pop removes the last element.
LEMMA ElementsPopped ==
    ASSUME NEW S, NEW s \in Seq(S), s # <<>>
    PROVE  /\ SubSeq(s, 1, Len(s) - 1) \in Seq(S)
           /\ s[Len(s)] \in S
           /\ Search!Elements(s) = Search!Elements(SubSeq(s, 1, Len(s) - 1)) \cup {s[Len(s)]}
<1> DEFINE p == SubSeq(s, 1, Len(s) - 1)
<1>1. Len(s) \in Nat \ {0}
  OBVIOUS
<1>2. p \in Seq(S) /\ Len(p) = Len(s) - 1 /\ \A i \in 1..(Len(s) - 1) : p[i] = s[i]
  <2>1. Len(s) - 1 \in Nat /\ Len(s) - 1 <= Len(s)
    BY <1>1
  <2> HIDE DEF p
  <2>2. ASSUME NEW n \in Nat, n <= Len(s), n = Len(s) - 1
        PROVE  p \in Seq(S) /\ Len(p) = n /\ \A i \in 1..n : p[i] = s[i]
    BY <2>2, Prefix, Zenon DEF p
  <2> QED BY <2>1, <2>2
<1>3. 1..Len(s) = (1..(Len(s) - 1)) \cup {Len(s)}
  BY <1>1
<1>4. Search!Elements(s) = Search!Elements(p) \cup {s[Len(s)]}
  BY <1>2, <1>3 DEF Search!Elements
<1>5. s[Len(s)] \in S
  BY <1>1
<1> QED BY <1>2, <1>4, <1>5

\* extend adds the elements of the other list.
LEMMA ElementsExtended ==
    ASSUME NEW S, NEW s \in Seq(S), NEW t \in Seq(S)
    PROVE  Search!Elements(s \o t) = Search!Elements(s) \cup Search!Elements(t)
<1>1. /\ Len(s) \in Nat /\ Len(t) \in Nat
      /\ Len(s \o t) = Len(s) + Len(t)
      /\ \A i \in 1..(Len(s) + Len(t)) :
            (s \o t)[i] = IF i <= Len(s) THEN s[i] ELSE t[i - Len(s)]
  OBVIOUS
<1>2. ASSUME NEW x \in Search!Elements(s \o t) PROVE x \in Search!Elements(s) \cup Search!Elements(t)
  <2>1. PICK i \in 1..(Len(s) + Len(t)) : x = (s \o t)[i]
    BY <1>1, <1>2 DEF Search!Elements
  <2>2. CASE i <= Len(s)
    BY <1>1, <2>1, <2>2 DEF Search!Elements
  <2>3. CASE ~(i <= Len(s))
    <3>1. i - Len(s) \in 1..Len(t) /\ x = t[i - Len(s)]
      BY <1>1, <2>1, <2>3
    <3> QED BY <3>1 DEF Search!Elements
  <2> QED BY <2>2, <2>3
<1>3. ASSUME NEW x \in Search!Elements(s) PROVE x \in Search!Elements(s \o t)
  <2>1. PICK i \in 1..Len(s) : x = s[i]
    BY <1>3 DEF Search!Elements
  <2>2. i \in 1..Len(s \o t) /\ (s \o t)[i] = x
    BY <1>1, <2>1
  <2> QED BY <2>2 DEF Search!Elements
<1>4. ASSUME NEW x \in Search!Elements(t) PROVE x \in Search!Elements(s \o t)
  <2>1. PICK i \in 1..Len(t) : x = t[i]
    BY <1>4 DEF Search!Elements
  <2>2. i + Len(s) \in 1..Len(s \o t) /\ (s \o t)[i + Len(s)] = x
    BY <1>1, <2>1
  <2> QED BY <2>2 DEF Search!Elements
<1> QED BY <1>2, <1>3, <1>4

\* A set of tasks listed in some order is a list of tasks.
LEMMA OrdersAreLists ==
    ASSUME NEW S \in SUBSET Node, NEW order \in Search!Orders(S)
    PROVE  order \in Seq(Node) /\ Search!Elements(order) = S
<1>1. Cardinality(S) \in Nat
  BY NodeAssumption, FS_Subset, FS_CardinalityType
<1>2. Search!Cardinality(S) = Cardinality(S)
  BY DEF Search!Cardinality, Cardinality
<1> QED BY <1>1, <1>2 DEF Search!Orders

\* The successor of a reached task is reached.
LEMMA ReachesNext ==
    ASSUME NEW N, NEW E, NEW x, NEW y, NEW z \in N,
           Reaches(x, y, N, E), <<y, z>> \in E
    PROVE  Reaches(x, z, N, E)
BY DEF Reaches, Closed

-----------------------------------------------------------------------------
(* The loop invariant.                                                     *)

Visited == seen \cup Search!Elements(stack)

\* Everything seen or waiting on the stack is reached from blocked.
OnlyReached == \A x \in Visited : Reaches(blocked, x, Node, graph)

\* What was expanded has all its successors seen or waiting.
FrontierOnStack ==
    \A x \in seen, y \in Node : <<x, y>> \in graph => y \in Visited

LoopInv ==
    /\ Search!TypeOK
    /\ OnlyReached
    /\ result # "cycle" => FrontierOnStack /\ blocked \in Visited
    /\ blocker \notin seen
    /\ result = "free" => stack = <<>>
    /\ result = "cycle" => Reaches(blocked, blocker, Node, graph)

\* When the stack is empty, seen is closed, has blocked and lacks blocker.
LEMMA LoopInvAnswers == LoopInv => Search!ResultCorrect
<1> SUFFICES ASSUME LoopInv, result = "free"
             PROVE  ~Reaches(blocked, blocker, Node, graph)
  BY DEF LoopInv, Search!ResultCorrect, Search!Reaches, Search!Closed, Reaches, Closed
<1>1. Search!Elements(stack) = {}
  BY DEF LoopInv, Search!Elements
<1>2. seen \in SUBSET Node /\ blocked \in seen /\ Closed(seen, Node, graph)
  BY <1>1 DEF LoopInv, Search!TypeOK, FrontierOnStack, Visited, Closed
<1> QED BY <1>2 DEF Reaches, LoopInv

LEMMA LoopInvInit == Search!Init => LoopInv
<1> SUFFICES ASSUME Search!Init PROVE LoopInv
  OBVIOUS
<1>1. Search!Elements(stack) = {blocked}
  BY DEF Search!Init, Search!Elements
<1>2. Search!TypeOK
  BY DEF Search!Init, Search!TypeOK
<1>3. Reaches(blocked, blocked, Node, graph)
  BY DEF Reaches
<1> QED BY <1>1, <1>2, <1>3 DEF Search!Init, LoopInv, OnlyReached, FrontierOnStack, Visited

LEMMA LoopInvStep == LoopInv /\ [Search!Next]_Search!vars => LoopInv'
<1> SUFFICES ASSUME LoopInv, [Search!Next]_Search!vars PROVE LoopInv'
  OBVIOUS
<1> USE DEF LoopInv
<1>0. ASSUME stack # <<>>
      PROVE  /\ Search!Popped \in Seq(Node) /\ Search!Top \in Node
             /\ Search!Elements(stack) = Search!Elements(Search!Popped) \cup {Search!Top}
  BY <1>0, ElementsPopped DEF Search!TypeOK, Search!Popped, Search!Top
<1>1. CASE Search!Found
  <2>1. /\ Search!Elements(stack') \subseteq Search!Elements(stack)
        /\ Reaches(blocked, blocker, Node, graph)
    BY <1>0, <1>1 DEF Search!Found, OnlyReached, Visited
  <2> QED BY <1>0, <1>1, <2>1 DEF Search!Found, Search!TypeOK, OnlyReached, Visited
<1>2. CASE Search!Skip
  <2>1. Visited' = Visited
    BY <1>0, <1>2 DEF Search!Skip, Visited
  <2> QED BY <1>0, <1>2, <2>1 DEF Search!Skip, Search!TypeOK, OnlyReached, FrontierOnStack
<1>3. CASE Search!Expand
  <2>1. stack # <<>> /\ Search!Successors(Search!Top) \in SUBSET Node
    BY <1>3 DEF Search!Expand, Search!Successors
  <2>2. PICK order \in Search!Orders(Search!Successors(Search!Top)) : stack' = Search!Popped \o order
    BY <1>3 DEF Search!Expand
  <2>3. order \in Seq(Node) /\ Search!Elements(order) = Search!Successors(Search!Top)
    BY <2>1, <2>2, OrdersAreLists
  <2>4. /\ stack' \in Seq(Node)
        /\ Search!Elements(stack') =
             Search!Elements(Search!Popped) \cup Search!Successors(Search!Top)
    BY <1>0, <2>1, <2>2, <2>3, ElementsExtended
  <2>5. Visited' = Visited \cup Search!Successors(Search!Top) /\ seen' = seen \cup {Search!Top}
    BY <1>0, <1>3, <2>1, <2>4 DEF Search!Expand, Visited
  <2>6. \A x \in Search!Successors(Search!Top) : Reaches(blocked, x, Node, graph)
    <3>1. Reaches(blocked, Search!Top, Node, graph)
      BY <1>0, <2>1 DEF OnlyReached, Visited
    <3> QED BY <3>1, ReachesNext DEF Search!Successors
  <2>7. OnlyReached'
    BY <1>3, <2>5, <2>6 DEF Search!Expand, OnlyReached
  <2>8. FrontierOnStack'
    BY <1>3, <2>5 DEF Search!Expand, FrontierOnStack, Search!Successors
  <2>9. Search!TypeOK'
    BY <1>0, <1>3, <2>1, <2>4 DEF Search!Expand, Search!TypeOK
  <2> QED BY <1>3, <2>5, <2>7, <2>8, <2>9 DEF Search!Expand
<1>4. CASE Search!Exhausted
  BY <1>4 DEF Search!Exhausted, Search!TypeOK, OnlyReached, FrontierOnStack, Visited
<1>5. CASE UNCHANGED Search!vars
  BY <1>5 DEF Search!vars, Search!TypeOK, OnlyReached, FrontierOnStack, Visited
<1> QED BY <1>1, <1>2, <1>3, <1>4, <1>5 DEF Search!Next

-----------------------------------------------------------------------------
(* The requests and the search.                                            *)

SearchInv == \/ part = "requests" /\ result = "none"
             \/ part = "search" /\ LoopInv

LEMMA SearchInvInit == ChecksInit => SearchInv
BY LoopInvInit DEF ChecksInit, NoSearch, SearchInv

LEMMA SearchInvStep == SearchInv /\ [ChecksNext]_checksVars => SearchInv'
<1> SUFFICES ASSUME SearchInv, [ChecksNext]_checksVars PROVE SearchInv'
  OBVIOUS
<1>1. CASE RequestsStep \/ UNCHANGED checksVars
  <2>1. UNCHANGED <<part, searchVars>>
    BY <1>1 DEF RequestsStep, checksVars
  <2>2. part = "requests" => SearchInv'
    BY <2>1 DEF SearchInv, searchVars
  <2>3. LoopInv => LoopInv'
    BY <2>1, LoopInvStep DEF searchVars, Search!vars
  <2> QED BY <2>1, <2>2, <2>3 DEF SearchInv
<1>2. CASE SearchStep
  BY <1>2, LoopInvStep DEF SearchStep, SearchInv
<1> QED BY <1>1, <1>2 DEF ChecksNext

LEMMA SearchInvAnswers == SearchInv => ResultCorrect
BY LoopInvAnswers DEF SearchInv, ResultCorrect, Search!ResultCorrect

\* However many tasks the graph has: the search that decides the check of
\* create_dependency reports a cycle exactly when blocked reaches blocker.
THEOREM ChecksCorrect == ChecksSpec => []ResultCorrect
<1> QED BY SearchInvInit, SearchInvStep, SearchInvAnswers, PTL DEF ChecksSpec
=============================================================================
