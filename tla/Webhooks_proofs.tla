--------------------------- MODULE Webhooks_proofs ---------------------------
(***************************************************************************)
(* Proofs about Webhooks for any number of hooks, activities and workers   *)
(* and any limit of attempts: deliveries are attempted by one job at a     *)
(* time, every attempt is counted, and a delivery that ended stays so.     *)
(***************************************************************************)
EXTENDS Webhooks, FiniteSetTheorems, TLAPS

\* What the select of due deliveries guarantees as long as the rows are locked.
PostSound(w) ==
    job[w].at = "post" =>
        /\ \A r \in job[w].rows : /\ delivery[r].status \in {"pending", "failed"}
                                  /\ delivery[r].attempts < MaxAttempts
        /\ \A r \in Row : job[w].results[r] # "none" => r \in job[w].rows

\* Nothing is attempted before.
Unposted(w) == job[w].at # "post" => Tried(w) = {}

\* A job that comes from the first half has no results.
Unskipped(w) == job[w].at = "due" => \A r \in Row : job[w].results[r] = "none"

JobsSound == \A w \in Worker : PostSound(w) /\ Unposted(w) /\ Unskipped(w)

\* Two jobs hold different rows.
LocksDisjoint ==
    \A v, w \in Worker : v # w /\ job[v].at = "post" /\ job[w].at = "post"
        => job[v].rows \cap job[w].rows = {}

\* An attempt that is not counted yet belongs to an open job.
Books ==
    \A r \in Row :
        /\ delivery[r].status = "none" => delivery[r].attempts = 0
        /\ IF \E w \in Worker : r \in Tried(w)
           THEN standing[r] = delivery[r].attempts + 1
           ELSE standing[r] = delivery[r].attempts

\* A delivery has its hook; one that is about to be inserted had it.
Hooked ==
    /\ \A r \in Row : delivery[r].status # "none" => hook[r[1]].state \in Kept
    /\ \A w \in Worker : job[w].at = "queue" =>
          \A r \in job[w].rows : hook[r[1]].state # "none"

IInv == TypeOK /\ JobsSound /\ LocksDisjoint /\ Books /\ Hooked

-----------------------------------------------------------------------------
(* Counting the holders of a row.                                          *)

LEMMA OneOrNone ==
    ASSUME NEW S, \A v, w \in S : v = w
    PROVE  Cardinality(S) = IF S = {} THEN 0 ELSE 1
<1>1. CASE S = {}
  BY <1>1, FS_EmptySet
<1>2. CASE S # {}
  <2>1. PICK w \in S : TRUE
    BY <1>2
  <2>2. S = {w}
    BY <2>1
  <2>. QED BY <1>2, <2>2, FS_Singleton
<1>. QED BY <1>1, <1>2

\* Who attempts a row holds it.
LEMMA AttemptsHold ==
    ASSUME JobsSound, NEW r \in Row, NEW w \in Worker, r \in Tried(w)
    PROVE  job[w].at = "post" /\ r \in job[w].rows
<1>1. job[w].at = "post"
  BY DEF JobsSound, Unposted
<1>. QED BY <1>1 DEF JobsSound, PostSound, Tried

\* The inductive invariant implies the property the run checks.
LEMMA Counted == ASSUME IInv PROVE AttemptsCounted
<1> USE DEF IInv
<1> SUFFICES ASSUME NEW r \in Row
             PROVE  /\ Cardinality(Holders(r)) <= 1
                    /\ standing[r] = delivery[r].attempts + Cardinality(Attempting(r))
  BY DEF AttemptsCounted
<1>1. \A v, w \in Holders(r) : v = w
  BY DEF Holders, LocksDisjoint
<1>2. Attempting(r) \subseteq Holders(r)
  BY AttemptsHold DEF Attempting, Holders
<1>3. \A v, w \in Attempting(r) : v = w
  BY <1>1, <1>2
<1>4. Cardinality(Holders(r)) \in {0, 1}
  BY <1>1, OneOrNone
<1>5. Cardinality(Attempting(r)) = IF Attempting(r) = {} THEN 0 ELSE 1
  BY <1>3, OneOrNone
<1>6. delivery[r].attempts \in Nat
  BY MaxAttemptsAssumption DEF TypeOK
<1>7. Attempting(r) = {} <=> ~(\E w \in Worker : r \in Tried(w))
  BY DEF Attempting
<1>. QED BY <1>4, <1>5, <1>6, <1>7 DEF Books

LEMMA InitInv == Init => IInv
<1> SUFFICES ASSUME Init PROVE IInv
  OBVIOUS
<1>1. TypeOK
  BY MaxAttemptsAssumption
     DEF Init, TypeOK, NoHook, NoRow, Idle, Results
<1>2. \A w \in Worker : job[w].at = "idle" /\ Tried(w) = {}
  BY DEF Init, Idle, Tried
<1>3. JobsSound /\ LocksDisjoint
  BY <1>2 DEF Init, Idle, JobsSound, PostSound, Unposted, Unskipped, LocksDisjoint
<1>4. Books
  BY <1>2 DEF Init, Books, NoRow
<1>5. Hooked
  BY <1>2 DEF Init, Hooked, NoRow
<1>. QED BY <1>1, <1>3, <1>4, <1>5 DEF IInv

-----------------------------------------------------------------------------
(* What the steps do to jobs.                                              *)

JobType == [at: {"idle", "queue", "due", "post", "down"}, rows: SUBSET Row,
            results: [Row -> Results \cup {"none"}],
            seen: [Hook -> Kept \cup {"unread"}]]

\* Only the job of w changes, to j.
Becomes(w, j) == /\ job' \in [Worker -> JobType] /\ job'[w] = j
                 /\ \A v \in Worker \ {w} : job'[v] = job[v]

\* A job that holds nothing and has attempted nothing.
Empty(at) == [Idle EXCEPT !.at = at]

LEMMA EmptyJob ==
    ASSUME NEW at \in {"idle", "due", "down"}
    PROVE  /\ Empty(at) \in JobType /\ Empty(at).at = at
           /\ \A r \in Row : Empty(at).results[r] = "none"
BY DEF Empty, Idle, JobType, Results

LEMMA Emptied ==
    ASSUME TypeOK, NEW w \in Worker, NEW at \in {"idle", "due", "down"},
           job' = [job EXCEPT ![w] = Empty(at)]
    PROVE  /\ Becomes(w, Empty(at)) /\ Tried(w)' = {}
           /\ job'[w].at = at
<1>1. Becomes(w, Empty(at))
  BY EmptyJob DEF TypeOK, JobType, Becomes
<1>. QED BY <1>1, EmptyJob DEF Becomes, Tried

\* The attempts of the other jobs are as they were.
LEMMA OthersTried ==
    ASSUME NEW w \in Worker, NEW j, Becomes(w, j)
    PROVE  \A v \in Worker \ {w} : Tried(v)' = Tried(v)
BY DEF Becomes, Tried

\* A job without locks leaves the rows of the others to them.
LEMMA Unlocked ==
    ASSUME LocksDisjoint, NEW w \in Worker, NEW j, Becomes(w, j), j.at # "post"
    PROVE  LocksDisjoint'
BY DEF LocksDisjoint, Becomes

\* A job is as sound as before if the rows it holds are still open.
LEMMA StaysSound ==
    ASSUME JobsSound, NEW w \in Worker, NEW j, Becomes(w, j),
           NEW v \in Worker \ {w},
           job[v].at = "post" => \A r \in job[v].rows :
              /\ delivery'[r].status \in {"pending", "failed"}
              /\ delivery'[r].attempts < MaxAttempts
    PROVE  PostSound(v)' /\ Unposted(v)' /\ Unskipped(v)'
<1>1. job'[v] = job[v] /\ Tried(v)' = Tried(v)
  BY OthersTried DEF Becomes
<1>. QED BY <1>1 DEF JobsSound, PostSound, Unposted, Unskipped

\* Books, when a job ends that attempted the rows T.
LEMMA BooksClosed ==
    ASSUME IInv, NEW w \in Worker, NEW j, Becomes(w, j), Tried(w)' = {},
           NEW r \in Row,
           r \in Tried(w) => standing'[r] = delivery'[r].attempts,
           r \notin Tried(w) => /\ standing'[r] = standing[r]
                                /\ delivery'[r].attempts = delivery[r].attempts
    PROVE  IF \E v \in Worker : r \in Tried(v)'
           THEN standing'[r] = delivery'[r].attempts + 1
           ELSE standing'[r] = delivery'[r].attempts
<1> USE DEF IInv
<1>1. \A v \in Worker \ {w} : Tried(v)' = Tried(v)
  BY OthersTried
<1>2. CASE r \in Tried(w)
  <2>1. \A v \in Worker \ {w} : r \notin Tried(v)
    BY <1>2, AttemptsHold DEF LocksDisjoint
  <2>. QED BY <1>1, <1>2, <2>1
<1>3. CASE r \notin Tried(w)
  BY <1>1, <1>3 DEF Books
<1>. QED BY <1>2, <1>3

LEMMA RollBackInv ==
    ASSUME IInv, NEW w \in Worker, NEW at \in {"idle", "down"}, RollBack(w, at)
    PROVE  IInv'
<1> USE DEF IInv
<1>1. /\ job' = [job EXCEPT ![w] = Empty(at)]
      /\ standing' = [r \in Row |-> IF r \in Tried(w) THEN standing[r] - 1 ELSE standing[r]]
      /\ UNCHANGED <<happened, hook, delivery>>
  BY DEF RollBack, Empty
<1>2. Becomes(w, Empty(at)) /\ Tried(w)' = {} /\ job'[w].at = at
  BY <1>1, Emptied
<1>3. \A r \in Row : r \in Tried(w) => standing[r] = delivery[r].attempts + 1
  BY DEF Books
<1>4. \A r \in Row : delivery[r].attempts \in 0..MaxAttempts
  BY DEF TypeOK
<1>5. \A r \in Row : standing'[r] \in 0..MaxAttempts
  BY <1>1, <1>3, <1>4, MaxAttemptsAssumption DEF TypeOK
<1>6. TypeOK'
  <2>1. standing' \in [Row -> 0..MaxAttempts]
    BY <1>1, <1>5
  <2>. QED BY <1>1, <1>2, <2>1 DEF TypeOK, Becomes, JobType
<1>7. JobsSound'
  <2>1. \A v \in Worker \ {w} : PostSound(v)' /\ Unposted(v)' /\ Unskipped(v)'
    BY <1>1, <1>2, StaysSound DEF JobsSound, PostSound
  <2>2. PostSound(w)' /\ Unposted(w)' /\ Unskipped(w)'
    BY <1>2 DEF PostSound, Unposted, Unskipped
  <2>. QED BY <2>1, <2>2 DEF JobsSound
<1>8. LocksDisjoint'
  BY <1>2, Unlocked DEF Becomes
<1>9. Books'
  <2> SUFFICES ASSUME NEW r \in Row
               PROVE  /\ delivery'[r].status = "none" => delivery'[r].attempts = 0
                      /\ IF \E v \in Worker : r \in Tried(v)'
                         THEN standing'[r] = delivery'[r].attempts + 1
                         ELSE standing'[r] = delivery'[r].attempts
    BY DEF Books
  <2>1. r \in Tried(w) => standing'[r] = delivery'[r].attempts
    BY <1>1, <1>3, <1>4
  <2>2. r \notin Tried(w) => /\ standing'[r] = standing[r]
                             /\ delivery'[r].attempts = delivery[r].attempts
    BY <1>1
  <2>. QED BY <2>1, <2>2, <1>1, <1>2, BooksClosed DEF Books
<1>10. Hooked'
  BY <1>1, <1>2 DEF Hooked, Becomes
<1>. QED BY <1>6, <1>7, <1>8, <1>9, <1>10
-----------------------------------------------------------------------------
(* The steps of a job.                                                     *)

\* Books when no delivery, no attempt and no counter changes.
LEMMA BooksKept ==
    ASSUME Books, UNCHANGED <<standing, delivery>>,
           \A w \in Worker : Tried(w)' = Tried(w)
    PROVE  Books'
BY DEF Books

\* Queue, SelectDue and Restart change a job that has attempted nothing and
\* nothing else.
LEMMA JobOnly ==
    ASSUME IInv, NEW w \in Worker, NEW j \in JobType, job' = [job EXCEPT ![w] = j],
           UNCHANGED <<happened, hook, delivery, standing>>,
           j.at = "queue" => \A r \in j.rows : hook[r[1]].state # "none",
           Tried(w) = {}, \A r \in Row : j.results[r] \notin {"delivered", "failed"},
           j.at \in {"post", "due"} => \A r \in Row : j.results[r] = "none",
           j.at = "post" =>
              /\ \A r \in j.rows : /\ delivery[r].status \in {"pending", "failed"}
                                    /\ delivery[r].attempts < MaxAttempts
              /\ \A v \in Worker \ {w} : job[v].at = "post" => j.rows \cap job[v].rows = {}
    PROVE  IInv'
<1> USE DEF IInv
<1>1. Becomes(w, j)
  BY DEF Becomes, TypeOK, JobType
<1>2. Tried(w)' = {} /\ \A v \in Worker : Tried(v)' = Tried(v)
  BY <1>1, OthersTried DEF Becomes, Tried
<1>3. TypeOK'
  BY <1>1 DEF TypeOK, Becomes, JobType
<1>4. JobsSound'
  <2>1. \A v \in Worker \ {w} : PostSound(v)' /\ Unposted(v)' /\ Unskipped(v)'
    BY <1>1, StaysSound DEF JobsSound, PostSound
  <2>2. PostSound(w)' /\ Unposted(w)' /\ Unskipped(w)'
    BY <1>1, <1>2 DEF PostSound, Unposted, Unskipped, Becomes
  <2>. QED BY <2>1, <2>2 DEF JobsSound
<1>5. LocksDisjoint'
  BY <1>1 DEF LocksDisjoint, Becomes
<1>6. Books'
  BY <1>2, BooksKept
<1>7. Hooked'
  BY <1>1 DEF Hooked, Becomes
<1>. QED BY <1>3, <1>4, <1>5, <1>6, <1>7

LEMMA QueueInv == ASSUME IInv, NEW w \in Worker, Queue(w) PROVE IInv'
<1> DEFINE R == {r \in Row : hook[r[1]].state \in On /\ r[2] \in Lacking(r[1])}
           S == [r \in Row |-> IF r[2] \in hook[r[1]].matches THEN "none" ELSE "skipped"]
           j == [Idle EXCEPT !.at = "queue", !.rows = R, !.results = S]
<1>1. R \in SUBSET Row /\ S \in [Row -> Results \cup {"none"}]
      /\ \A r \in Row : S[r] \in {"none", "skipped"}
  BY DEF Results
<1> HIDE DEF R, S
<1>2. job[w] = Idle /\ job' = [job EXCEPT ![w] = j]
      /\ UNCHANGED <<happened, hook, delivery, standing>>
  BY DEF Queue, R, S, IInv, TypeOK
<1>3. j \in JobType /\ j.at = "queue" /\ j.results = S
  BY <1>1 DEF JobType, Idle
<1> HIDE DEF j
<1>4. Tried(w) = {}
  BY <1>2 DEF Tried, Idle
<1>5. j.rows = R /\ \A r \in R : hook[r[1]].state # "none"
  BY DEF j, R, Idle, On
<1>. QED BY <1>1, <1>2, <1>3, <1>4, <1>5, JobOnly

LEMMA RestartInv == ASSUME IInv, NEW w \in Worker, Restart(w) PROVE IInv'
<1>1. job' = [job EXCEPT ![w] = Empty("idle")]
      /\ UNCHANGED <<happened, hook, delivery, standing>>
  BY DEF Restart, Empty, Idle
<1>2. Tried(w) = {}
  BY DEF Restart, IInv, JobsSound, Unposted
<1>. QED BY <1>1, <1>2, EmptyJob, JobOnly

LEMMA SelectInv == ASSUME IInv, NEW w \in Worker, SelectDue(w) PROVE IInv'
<1> USE DEF IInv
<1> DEFINE j == [job[w] EXCEPT !.at = "post", !.rows = Due \ LockedRows]
<1>1. job[w] \in JobType /\ job[w].at = "due"
  BY DEF SelectDue, TypeOK, JobType
<1>2. job' = [job EXCEPT ![w] = j] /\ UNCHANGED <<happened, hook, delivery, standing>>
  BY DEF SelectDue, TypeOK
<1>3. Due \in SUBSET Row
  BY DEF Due
<1>4. j \in JobType /\ j.at = "post" /\ j.rows = Due \ LockedRows /\ j.results = job[w].results
  BY <1>1, <1>3 DEF JobType
<1>5. Tried(w) = {}
  BY <1>1 DEF JobsSound, Unposted
<1>6. \A r \in Row : job[w].results[r] = "none"
  BY <1>1 DEF JobsSound, Unposted, Unskipped
<1>7. \A v \in Worker : job[v].at = "post" => job[v].rows \subseteq LockedRows
  BY DEF LockedRows
<1> HIDE DEF j
<1>8. \A r \in j.rows : /\ delivery[r].status \in {"pending", "failed"}
                        /\ delivery[r].attempts < MaxAttempts
  BY <1>4 DEF Due
<1>9. \A v \in Worker \ {w} : job[v].at = "post" => j.rows \cap job[v].rows = {}
  BY <1>4, <1>7
<1>. QED BY <1>2, <1>4, <1>5, <1>6, <1>8, <1>9, JobOnly
\* The rows that a queueing job inserts were not there, so nobody holds them.
LEMMA CommitQueueInv == ASSUME IInv, NEW w \in Worker, CommitQueue(w) PROVE IInv'
<1> USE DEF IInv
<1> DEFINE New(r) == [NoRow EXCEPT !.status = IF job[w].results[r] = "none"
                                               THEN "pending" ELSE "skipped"]
<1>1. /\ job[w].at = "queue" /\ job' = [job EXCEPT ![w] = Empty("due")]
      /\ \A r \in job[w].rows : delivery[r].status = "none"
      /\ delivery' = [r \in Row |-> IF r \in job[w].rows THEN New(r) ELSE delivery[r]]
      /\ UNCHANGED <<happened, hook, standing>>
  BY DEF CommitQueue, QueueFails, Empty
<1>2. \A r \in Row : /\ New(r) \in [status: {"pending", "skipped"}, attempts: {0}, due: BOOLEAN]
                     /\ New(r).status # "none" /\ New(r).attempts = 0
  BY DEF NoRow
<1> HIDE DEF New
<1>3. Becomes(w, Empty("due")) /\ Tried(w)' = {} /\ job'[w].at = "due"
  BY <1>1, Emptied
<1>4. Tried(w) = {}
  BY <1>1 DEF JobsSound, Unposted
<1>5. TypeOK'
  <2>1. delivery' \in [Row -> [status: Results \cup {"none", "pending", "exhausted"},
                               attempts: 0..MaxAttempts, due: BOOLEAN]]
    BY <1>1, <1>2, MaxAttemptsAssumption DEF TypeOK, Results
  <2>. QED BY <2>1, <1>1, <1>3 DEF TypeOK, Becomes, JobType
<1>6. JobsSound'
  <2>1. ASSUME NEW v \in Worker \ {w}, job[v].at = "post", NEW r \in job[v].rows
        PROVE  delivery'[r] = delivery[r] /\ delivery[r].status \in {"pending", "failed"}
                                         /\ delivery[r].attempts < MaxAttempts
    <3>1. r \in Row /\ delivery[r].status \in {"pending", "failed"}
          /\ delivery[r].attempts < MaxAttempts
      BY <2>1 DEF JobsSound, PostSound, TypeOK
    <3>2. r \notin job[w].rows
      BY <3>1, <1>1
    <3>. QED BY <3>1, <3>2, <1>1
  <2>2. \A v \in Worker \ {w} : PostSound(v)' /\ Unposted(v)' /\ Unskipped(v)'
    BY <1>3, <2>1, StaysSound
  <2>3. PostSound(w)' /\ Unposted(w)' /\ Unskipped(w)'
    BY <1>3, EmptyJob DEF PostSound, Unposted, Unskipped, Becomes
  <2>. QED BY <2>2, <2>3 DEF JobsSound
<1>7. LocksDisjoint'
  BY <1>3, Unlocked DEF Becomes
<1>8. Books'
  <2> SUFFICES ASSUME NEW r \in Row
               PROVE  /\ delivery'[r].status = "none" => delivery'[r].attempts = 0
                      /\ IF \E v \in Worker : r \in Tried(v)'
                         THEN standing'[r] = delivery'[r].attempts + 1
                         ELSE standing'[r] = delivery'[r].attempts
    BY DEF Books
  <2>1. delivery'[r].attempts = delivery[r].attempts
        /\ (delivery'[r].status = "none" => delivery[r].status = "none")
    BY <1>1, <1>2 DEF Books
  <2>2. standing'[r] = standing[r]
    BY <1>1
  <2>. QED BY <2>1, <2>2, <1>3, <1>4, BooksClosed DEF Books
<1>9. Hooked'
  <2>1. ASSUME NEW r \in Row, delivery'[r].status # "none"
        PROVE  hook[r[1]].state \in Kept
    <3>1. CASE r \in job[w].rows
      <4>1. hook[r[1]].state # "deleted" /\ hook[r[1]].state # "none"
        BY <3>1, <1>1 DEF CommitQueue, QueueFails, Hooked
      <4>2. r[1] \in Hook
        BY DEF Row
      <4>. QED BY <4>1, <4>2 DEF TypeOK
    <3>2. CASE r \notin job[w].rows
      BY <2>1, <3>2, <1>1 DEF Hooked
    <3>. QED BY <3>1, <3>2
  <2>. QED BY <2>1, <1>1, <1>3 DEF Hooked, Becomes
<1>. QED BY <1>5, <1>6, <1>7, <1>8, <1>9

\* The job of w after it has posted r.
LEMMA AfterPost ==
    ASSUME IInv, NEW w \in Worker, NEW r \in Row, NEW result \in Results, Post(w, r, result)
    PROVE  \E j \in JobType :
              /\ Becomes(w, j) /\ j.at = "post" /\ j.rows = job[w].rows
              /\ j.results = [job[w].results EXCEPT ![r] = result]
<1> USE DEF IInv
<1>1. PICK state \in Kept :
        job' = [job EXCEPT ![w].results[r] = result, ![w].seen[r[1]] = state]
  <2>1. r[1] \in Hook
    BY DEF Row
  <2>2. PICK state \in States(w, r[1]) :
          /\ (state \in On) <=> (result # "skipped")
          /\ job' = [job EXCEPT ![w].results[r] = result, ![w].seen[r[1]] = state]
    BY DEF Post
  <2>3. delivery[r].status # "none"
    BY DEF Post, Posting, JobsSound, PostSound
  <2>4. hook[r[1]].state \in Kept
    BY <2>3 DEF Hooked
  <2>5. job[w].seen[r[1]] \in Kept \cup {"unread"}
    BY <2>1 DEF TypeOK
  <2>6. state \in Kept
    BY <2>4, <2>5 DEF States
  <2>. QED BY <2>2, <2>6
<1> DEFINE after == [job[w].results EXCEPT ![r] = result]
           read == [job[w].seen EXCEPT ![r[1]] = state]
           j == [job[w] EXCEPT !.results = after, !.seen = read]
<1>2. job[w] \in JobType /\ r[1] \in Hook /\ job[w].at = "post"
  BY DEF TypeOK, JobType, Row, Post, Posting
<1>3. j \in JobType /\ j.at = "post" /\ j.rows = job[w].rows /\ j.results = after
  BY <1>2 DEF JobType
<1>4. job' = [job EXCEPT ![w] = j]
  <2> DEFINE first == [job EXCEPT ![w].results[r] = result]
  <2>1. first = [job EXCEPT ![w] = [job[w] EXCEPT !.results = after]]
    BY DEF TypeOK
  <2>2. job' = [first EXCEPT ![w].seen[r[1]] = state]
    BY <1>1
  <2> HIDE DEF first
  <2>3. first[w] = [job[w] EXCEPT !.results = after]
    BY <2>1 DEF TypeOK
  <2>4. first[w].seen = job[w].seen
    BY <2>3, <1>2 DEF JobType
  <2>5. job' = [first EXCEPT ![w] = [first[w] EXCEPT !.seen = read]]
    BY <2>2, <2>4
  <2>. QED BY <2>1, <2>3, <2>5 DEF TypeOK
<1> HIDE DEF j
<1>5. Becomes(w, j)
  BY <1>3, <1>4 DEF Becomes, TypeOK, JobType
<1>. QED BY <1>3, <1>5

LEMMA PostInv ==
    ASSUME IInv, NEW w \in Worker, NEW r \in Row, NEW result \in Results, Post(w, r, result)
    PROVE  IInv'
<1> USE DEF IInv
<1>1. PICK j \in JobType :
        /\ Becomes(w, j) /\ j.at = "post" /\ j.rows = job[w].rows
        /\ j.results = [job[w].results EXCEPT ![r] = result]
  BY AfterPost
<1>2. /\ job[w].at = "post" /\ r \in job[w].rows /\ job[w].results[r] = "none"
      /\ standing' = [standing EXCEPT ![r] = IF result = "skipped" THEN @ ELSE @ + 1]
      /\ UNCHANGED <<happened, hook, delivery>>
  BY DEF Post, Posting
<1>3. /\ job'[w].results[r] = result
      /\ \A s \in Row \ {r} : job'[w].results[s] = job[w].results[s]
  BY <1>1 DEF Becomes, TypeOK
<1>4. delivery[r].attempts \in 0..MaxAttempts /\ delivery[r].attempts < MaxAttempts
  BY <1>2 DEF JobsSound, PostSound, TypeOK
<1>5. \A v \in Worker : r \notin Tried(v)
  <2>1. ASSUME NEW v \in Worker, r \in Tried(v) PROVE FALSE
    <3>1. v # w
      BY <2>1, <1>2 DEF Tried
    <3>. QED BY <2>1, <3>1, <1>2, AttemptsHold DEF LocksDisjoint
  <2>. QED BY <2>1
<1>6. standing[r] = delivery[r].attempts
  BY <1>5 DEF Books
<1>7. standing' \in [Row -> 0..MaxAttempts]
  BY <1>2, <1>4, <1>6, MaxAttemptsAssumption DEF TypeOK
<1>8. TypeOK'
  BY <1>1, <1>2, <1>7 DEF TypeOK, Becomes, JobType
<1>9. JobsSound'
  <2>1. \A v \in Worker \ {w} : PostSound(v)' /\ Unposted(v)' /\ Unskipped(v)'
    BY <1>1, <1>2, StaysSound DEF JobsSound, PostSound
  <2>2. \A s \in Row : job'[w].results[s] # "none" => s \in job'[w].rows
    BY <1>1, <1>2, <1>3 DEF JobsSound, PostSound, Becomes
  <2>3. PostSound(w)' /\ Unposted(w)' /\ Unskipped(w)'
    BY <2>2, <1>1, <1>2 DEF JobsSound, PostSound, Unposted, Unskipped, Becomes
  <2>. QED BY <2>1, <2>3 DEF JobsSound
<1>10. LocksDisjoint'
  BY <1>1, <1>2 DEF LocksDisjoint, Becomes
<1>11. Books'
  <2>1. \A v \in Worker \ {w} : Tried(v)' = Tried(v)
    BY <1>1, OthersTried
  <2>2. Tried(w)' = IF result = "skipped" THEN Tried(w) ELSE Tried(w) \cup {r}
    BY <1>2, <1>3 DEF Tried, Results
  <2>3. \A s \in Row \ {r} : standing'[s] = standing[s]
    BY <1>2 DEF TypeOK
  <2>4. standing'[r] = IF result = "skipped" THEN standing[r] ELSE standing[r] + 1
    BY <1>2 DEF TypeOK
  <2> SUFFICES ASSUME NEW s \in Row
               PROVE  IF \E v \in Worker : s \in Tried(v)'
                      THEN standing'[s] = delivery[s].attempts + 1
                      ELSE standing'[s] = delivery[s].attempts
    BY <1>2 DEF Books
  <2>5. CASE s = r
    BY <2>1, <2>2, <2>4, <2>5, <1>5, <1>6
  <2>6. CASE s # r
    <3>1. \A v \in Worker : s \in Tried(v)' <=> s \in Tried(v)
      BY <2>1, <2>2, <2>6
    <3>. QED BY <3>1, <2>3, <2>6 DEF Books
  <2>. QED BY <2>5, <2>6
<1>12. Hooked'
  BY <1>1, <1>2 DEF Hooked, Becomes
<1>. QED BY <1>8, <1>9, <1>10, <1>11, <1>12

\* What becomes of a row counts its attempt.
LEMMA OutcomeCounts ==
    ASSUME NEW row \in [status: Results \cup {"none", "pending", "exhausted"},
                        attempts: 0..MaxAttempts, due: BOOLEAN],
           row.attempts < MaxAttempts, NEW result \in Results
    PROVE  /\ Outcome(row, result) \in [status: Results \cup {"exhausted"},
                                        attempts: 0..MaxAttempts, due: BOOLEAN]
           /\ Outcome(row, result).attempts = IF result = "skipped" THEN row.attempts
                                              ELSE row.attempts + 1
<1> USE MaxAttemptsAssumption
<1>1. CASE result = "skipped"
  BY <1>1 DEF Outcome, Results
<1>2. CASE result = "delivered"
  BY <1>2 DEF Outcome, Results
<1>3. CASE result = "failed"
  BY <1>3 DEF Outcome, Results
<1>. QED BY <1>1, <1>2, <1>3 DEF Results

LEMMA CommitPostsInv == ASSUME IInv, NEW w \in Worker, CommitPosts(w) PROVE IInv'
<1> USE DEF IInv
<1> DEFINE R == job[w].rows
           After(r) == Outcome(delivery[r], job[w].results[r])
<1>1. /\ job[w].at = "post" /\ job' = [job EXCEPT ![w] = Empty("idle")]
      /\ \A r \in R : job[w].results[r] # "none"
      /\ delivery' = [r \in Row |-> IF r \in R THEN After(r) ELSE delivery[r]]
      /\ UNCHANGED <<happened, hook, standing>>
  BY DEF CommitPosts, Empty, Idle
<1>2. Becomes(w, Empty("idle")) /\ Tried(w)' = {} /\ job'[w].at = "idle"
  BY <1>1, Emptied
<1>3. ASSUME NEW r \in R
      PROVE  /\ r \in Row /\ job[w].results[r] \in Results
             /\ delivery[r].status \in {"pending", "failed"}
             /\ After(r) \in [status: Results \cup {"exhausted"},
                              attempts: 0..MaxAttempts, due: BOOLEAN]
             /\ After(r).attempts = IF r \in Tried(w) THEN delivery[r].attempts + 1
                                    ELSE delivery[r].attempts
  <2>1. r \in Row
    BY <1>1 DEF TypeOK
  <2>2. /\ job[w].results[r] \in Results
        /\ delivery[r].status \in {"pending", "failed"} /\ delivery[r].attempts < MaxAttempts
    BY <2>1, <1>1 DEF TypeOK, JobsSound, PostSound
  <2>3. r \in Tried(w) <=> job[w].results[r] # "skipped"
    BY <2>1, <2>2 DEF Tried, Results
  <2>. QED BY <2>1, <2>2, <2>3, OutcomeCounts DEF TypeOK
<1> HIDE DEF After
<1>4. TypeOK'
  <2>1. delivery' \in [Row -> [status: Results \cup {"none", "pending", "exhausted"},
                               attempts: 0..MaxAttempts, due: BOOLEAN]]
    BY <1>1, <1>3 DEF TypeOK
  <2>. QED BY <2>1, <1>1, <1>2 DEF TypeOK, Becomes, JobType
<1>5. JobsSound'
  <2>1. ASSUME NEW v \in Worker \ {w}, job[v].at = "post", NEW r \in job[v].rows
        PROVE  delivery'[r] = delivery[r] /\ delivery[r].status \in {"pending", "failed"}
                                         /\ delivery[r].attempts < MaxAttempts
    BY <2>1, <1>1 DEF LocksDisjoint, JobsSound, PostSound, TypeOK
  <2>2. \A v \in Worker \ {w} : PostSound(v)' /\ Unposted(v)' /\ Unskipped(v)'
    BY <1>2, <2>1, StaysSound
  <2>3. PostSound(w)' /\ Unposted(w)' /\ Unskipped(w)'
    BY <1>2 DEF PostSound, Unposted, Unskipped
  <2>. QED BY <2>2, <2>3 DEF JobsSound
<1>6. LocksDisjoint'
  BY <1>2, Unlocked DEF Becomes
<1>7. Books'
  <2> SUFFICES ASSUME NEW r \in Row
               PROVE  /\ delivery'[r].status = "none" => delivery'[r].attempts = 0
                      /\ IF \E v \in Worker : r \in Tried(v)'
                         THEN standing'[r] = delivery'[r].attempts + 1
                         ELSE standing'[r] = delivery'[r].attempts
    BY DEF Books
  <2>1. r \in Tried(w) => standing'[r] = delivery'[r].attempts
    BY <1>1, <1>3, AttemptsHold DEF Books
  <2>2. r \notin Tried(w) => /\ standing'[r] = standing[r]
                             /\ delivery'[r].attempts = delivery[r].attempts
    BY <1>1, <1>3
  <2>3. delivery'[r].status = "none" => delivery'[r] = delivery[r]
    BY <1>1, <1>3 DEF Results
  <2>. QED BY <2>1, <2>2, <2>3, <1>2, BooksClosed DEF Books
<1>8. Hooked'
  <2>1. \A r \in Row : delivery'[r].status # "none" => delivery[r].status # "none"
    BY <1>1, <1>3
  <2>. QED BY <2>1, <1>1, <1>2 DEF Hooked, Becomes
<1>. QED BY <1>4, <1>5, <1>6, <1>7, <1>8

-----------------------------------------------------------------------------
(* The steps that leave the jobs alone.                                    *)

LEMMA JobsKept ==
    ASSUME JobsSound, LocksDisjoint, UNCHANGED job,
           \A r \in LockedRows : /\ delivery'[r].status \in {"pending", "failed"}
                                 /\ delivery'[r].attempts < MaxAttempts
    PROVE  JobsSound' /\ LocksDisjoint'
<1>1. \A w \in Worker : Tried(w)' = Tried(w)
  BY DEF Tried
<1>2. \A w \in Worker : job[w].at = "post" => job[w].rows \subseteq LockedRows
  BY DEF LockedRows
<1>3. ASSUME NEW w \in Worker
      PROVE  PostSound(w)' /\ Unposted(w)' /\ Unskipped(w)'
  <2>1. PostSound(w)'
    BY <1>2 DEF JobsSound, PostSound
  <2>2. Unposted(w)' /\ Unskipped(w)'
    BY <1>1 DEF JobsSound, Unposted, Unskipped
  <2>. QED BY <2>1, <2>2
<1>4. LocksDisjoint'
  BY DEF LocksDisjoint
<1>. QED BY <1>3, <1>4 DEF JobsSound

\* The rows that jobs have locked are still to be delivered.
LEMMA LockedOpen ==
    ASSUME TypeOK, JobsSound
    PROVE  \A r \in LockedRows : /\ r \in Row /\ delivery[r].status \in {"pending", "failed"}
                                 /\ delivery[r].attempts < MaxAttempts
BY DEF LockedRows, TypeOK, JobsSound, PostSound

LEMMA FallDueInv == ASSUME IInv, NEW r \in Row, FallDue(r) PROVE IInv'
<1> USE DEF IInv
<1>1. /\ delivery' = [delivery EXCEPT ![r].due = TRUE]
      /\ UNCHANGED <<happened, hook, job, standing>>
  BY DEF FallDue
<1>2. \A s \in Row : /\ delivery'[s].status = delivery[s].status
                     /\ delivery'[s].attempts = delivery[s].attempts
  BY <1>1 DEF TypeOK
<1>3. TypeOK'
  <2> DEFINE D == [status: Results \cup {"none", "pending", "exhausted"},
                   attempts: 0..MaxAttempts, due: BOOLEAN]
  <2>1. delivery \in [Row -> D]
    BY DEF TypeOK
  <2>2. [delivery[r] EXCEPT !.due = TRUE] \in D
    BY <2>1
  <2>3. delivery' \in [Row -> D]
    <3> HIDE DEF D
    <3> QED BY <1>1, <2>1, <2>2
  <2>. QED BY <1>1, <2>3 DEF TypeOK
<1>4. JobsSound' /\ LocksDisjoint'
  BY <1>1, <1>2, LockedOpen, JobsKept
<1>5. \A w \in Worker : Tried(w)' = Tried(w)
  BY <1>1 DEF Tried
<1>6. Books' /\ Hooked'
  BY <1>1, <1>2, <1>5 DEF Books, Hooked
<1>. QED BY <1>3, <1>4, <1>6

\* Only the hooks or the activities change, and no hook is deleted.
LEMMA HookOnly ==
    ASSUME IInv, UNCHANGED <<delivery, job, standing>>, TypeOK',
           \A h \in Hook : /\ hook[h].state \in Kept => hook'[h].state \in Kept
                           /\ hook[h].state # "none" => hook'[h].state # "none"
    PROVE  IInv'
<1> USE DEF IInv
<1>1. JobsSound' /\ LocksDisjoint'
  BY LockedOpen, JobsKept
<1>2. \A w \in Worker : Tried(w)' = Tried(w)
  BY DEF Tried
<1>3. Books'
  BY <1>2, BooksKept
<1>4. \A r \in Row : r[1] \in Hook
  BY DEF Row
<1>5. \A w \in Worker : job[w].rows \subseteq Row
  BY DEF TypeOK
<1>6. Hooked'
  BY <1>4, <1>5 DEF Hooked
<1>. QED BY <1>1, <1>3, <1>6

LEMMA LogInv == ASSUME IInv, NEW a \in Activity, Log(a) PROVE IInv'
<1>1. TypeOK'
  BY DEF Log, IInv, TypeOK
<1>. QED BY <1>1, HookOnly DEF Log

LEMMA CreateHookInv ==
    ASSUME IInv, NEW h \in Hook, NEW state, NEW matches \in Events,
           CreateHook(h, state, matches)
    PROVE  IInv'
<1>1. /\ matches \in SUBSET Activity /\ happened \in SUBSET Activity
      /\ state \in Kept \cup {"none", "deleted"}
      /\ UNCHANGED <<happened, delivery, job, standing>>
  BY EventsAssumption DEF IInv, TypeOK, CreateHook, Kept
<1>2. TypeOK'
  BY <1>1 DEF CreateHook, IInv, TypeOK
<1>3. \A g \in Hook : g # h => hook'[g] = hook[g]
  BY DEF CreateHook, IInv, TypeOK
<1>4. hook[h].state = "none" /\ hook'[h].state \in Kept /\ "none" \notin Kept
  BY DEF CreateHook, IInv, TypeOK, Kept, On
<1>. QED BY <1>1, <1>2, <1>3, <1>4, HookOnly

LEMMA PatchHookInv ==
    ASSUME IInv, NEW h \in Hook, NEW matches \in Events,
           NEW state \in Kept, PatchHook(h, state, matches)
    PROVE  IInv'
<1>1. matches \in SUBSET Activity
  BY EventsAssumption
<1>2. hook' = [hook EXCEPT ![h] = [hook[h] EXCEPT !.state = state, !.matches = matches]]
  BY DEF PatchHook, IInv, TypeOK
<1>3. TypeOK'
  <2>1. [hook[h] EXCEPT !.state = state, !.matches = matches] \in
          [state: Kept \cup {"none", "deleted"},
           matches: SUBSET Activity, since: SUBSET Activity]
    <3>1. hook[h] \in [state: Kept \cup {"none", "deleted"},
                       matches: SUBSET Activity, since: SUBSET Activity]
      BY DEF IInv, TypeOK
    <3>. QED BY <1>1, <3>1
  <2>. QED BY <1>2, <2>1 DEF PatchHook, IInv, TypeOK
<1>4. \A g \in Hook : IF g = h THEN hook'[g].state = state ELSE hook'[g] = hook[g]
  BY <1>2 DEF IInv, TypeOK
<1>5. "none" \notin Kept
  BY DEF Kept, On
<1>. QED BY <1>3, <1>4, <1>5, HookOnly DEF PatchHook

\* A hook is deleted only when no job holds a delivery of it.
LEMMA DeleteHookInv == ASSUME IInv, NEW h \in Hook, DeleteHook(h) PROVE IInv'
<1> USE DEF IInv
<1> DEFINE gone == {h} \X Activity
<1>1. /\ LockedRows \cap gone = {}
      /\ hook' = [hook EXCEPT ![h] = [NoHook EXCEPT !.state = "deleted"]]
      /\ delivery' = [r \in Row |-> IF r \in gone THEN NoRow ELSE delivery[r]]
      /\ standing' = [r \in Row |-> IF r \in gone THEN 0 ELSE standing[r]]
      /\ UNCHANGED <<happened, job>>
  BY DEF DeleteHook
<1>2. \A r \in Row : r \in gone <=> r[1] = h
  BY DEF Row
<1> HIDE DEF gone
<1>3. /\ NoRow \in [status: {"none"}, attempts: 0..MaxAttempts, due: BOOLEAN]
      /\ NoRow.status = "none" /\ NoRow.attempts = 0 /\ 0 \in 0..MaxAttempts
  BY MaxAttemptsAssumption DEF NoRow
<1>4. TypeOK'
  <2>1. hook' \in [Hook -> [state: Kept \cup {"none", "deleted"},
                            matches: SUBSET Activity, since: SUBSET Activity]]
    BY <1>1 DEF NoHook, TypeOK
  <2>2. delivery' \in [Row -> [status: Results \cup {"none", "pending", "exhausted"},
                               attempts: 0..MaxAttempts, due: BOOLEAN]]
    BY <1>1, <1>3 DEF TypeOK
  <2>3. standing' \in [Row -> 0..MaxAttempts]
    BY <1>1, <1>3 DEF TypeOK
  <2>. QED BY <2>1, <2>2, <2>3, <1>1 DEF TypeOK
<1>5. JobsSound' /\ LocksDisjoint'
  BY <1>1, LockedOpen, JobsKept
<1>6. Books'
  <2>1. \A w \in Worker : Tried(w)' = Tried(w)
    BY <1>1 DEF Tried
  <2>2. \A w \in Worker, r \in Row : r \in Tried(w) => r \notin gone
    BY <1>1, AttemptsHold DEF LockedRows
  <2>. QED BY <2>1, <2>2, <1>1, <1>3 DEF Books
<1>7. Hooked'
  <2>1. \A r \in Row : delivery'[r].status # "none" =>
          delivery[r].status # "none" /\ r[1] # h /\ r[1] \in Hook
    BY <1>1, <1>2, <1>3 DEF Row
  <2>2. \A g \in Hook : IF g = h THEN hook'[g].state = "deleted" ELSE hook'[g] = hook[g]
    BY <1>1 DEF NoHook, TypeOK
  <2>3. \A w \in Worker : \A r \in job[w].rows : r[1] \in Hook
    BY DEF Row, TypeOK
  <2>. QED BY <2>1, <2>2, <2>3, <1>1 DEF Hooked
<1>. QED BY <1>4, <1>5, <1>6, <1>7

-----------------------------------------------------------------------------
(* The theorems.                                                           *)

LEMMA StepInv == IInv /\ [Next]_vars => IInv'
<1> SUFFICES ASSUME IInv, [Next]_vars PROVE IInv'
  OBVIOUS
<1>1. ASSUME NEW w \in Worker, Queue(w) \/ JobStep(w) \/ Die(w) PROVE IInv'
  BY <1>1, QueueInv, CommitQueueInv, RollBackInv, SelectInv, CommitPostsInv, RestartInv, PostInv
     DEF JobStep, FailQueue, PostRaises, Die
<1>2. ASSUME NEW r \in Row, FallDue(r) PROVE IInv'
  BY <1>2, FallDueInv
<1>3. ASSUME NEW a \in Activity, Log(a) PROVE IInv'
  BY <1>3, LogInv
<1>4. ASSUME NEW h \in Hook, DeleteHook(h) PROVE IInv'
  BY <1>4, DeleteHookInv
<1>5. ASSUME NEW h \in Hook, NEW state, NEW matches \in Events,
           CreateHook(h, state, matches) PROVE IInv'
  BY <1>5, CreateHookInv
<1>6. ASSUME NEW h \in Hook, NEW matches \in Events, NEW state \in Kept,
             PatchHook(h, state, matches)
      PROVE  IInv'
  BY <1>6, PatchHookInv
<1>7. CASE UNCHANGED vars
  BY <1>7, HookOnly DEF vars, IInv, TypeOK
<1>. QED BY <1>1, <1>2, <1>3, <1>4, <1>5, <1>6, <1>7 DEF Next

LEMMA Invariant == Spec => []IInv
BY InitInv, StepInv, PTL DEF Spec

\* However many workers run jobs, crash and roll back, at most one job holds a
\* delivery, and its attempts are those of its row and of that job.
THEOREM EveryAttemptCounted == Spec => []AttemptsCounted
<1>1. IInv => AttemptsCounted
  BY Counted
<1>. QED BY <1>1, Invariant, PTL

\* A delivery that ended is in no open job.
LEMMA EndedUnheld ==
    ASSUME IInv, NEW r \in Row, delivery[r].status \in Final, NEW w \in Worker
    PROVE  /\ job[w].at = "post" => r \notin job[w].rows
           /\ r \notin Tried(w)
<1>1. job[w].at = "post" => r \notin job[w].rows
  BY DEF IInv, JobsSound, PostSound, Final
<1>. QED BY <1>1, AttemptsHold DEF IInv

LEMMA FinalStep ==
    ASSUME IInv, [Next]_vars, NEW r \in Row, delivery[r].status \in Final,
           hook'[r[1]].state # "deleted"
    PROVE  delivery'[r] = delivery[r] /\ standing'[r] <= standing[r]
<1> USE DEF IInv
<1>1. standing[r] \in Nat
  BY MaxAttemptsAssumption DEF TypeOK
<1>2. ASSUME NEW w \in Worker, NEW at, RollBack(w, at)
      PROVE  UNCHANGED <<delivery[r], standing[r]>>
  BY <1>2, EndedUnheld DEF RollBack
<1>3. ASSUME NEW w \in Worker, CommitQueue(w)
      PROVE  UNCHANGED <<delivery[r], standing[r]>>
  <2>1. r \notin job[w].rows
    BY <1>3 DEF CommitQueue, QueueFails, Final
  <2>. QED BY <2>1, <1>3 DEF CommitQueue
<1>4. ASSUME NEW w \in Worker, CommitPosts(w)
      PROVE  UNCHANGED <<delivery[r], standing[r]>>
  BY <1>4, EndedUnheld DEF CommitPosts
<1>5. ASSUME NEW w \in Worker, NEW s \in Row, NEW result \in Results, Post(w, s, result)
      PROVE  UNCHANGED <<delivery[r], standing[r]>>
  <2>1. s # r
    BY <1>5, EndedUnheld DEF Post, Posting
  <2>. QED BY <2>1, <1>5 DEF Post, TypeOK
<1>6. ASSUME NEW s \in Row, FallDue(s)
      PROVE  UNCHANGED <<delivery[r], standing[r]>>
  <2>1. s # r
    BY <1>6 DEF FallDue, Final
  <2>. QED BY <2>1, <1>6 DEF FallDue, TypeOK
<1>7. ASSUME NEW h \in Hook, DeleteHook(h)
      PROVE  UNCHANGED <<delivery[r], standing[r]>>
  <2>1. r[1] # h
    BY <1>7 DEF DeleteHook, NoHook, TypeOK
  <2>2. r \notin {h} \X Activity
    BY <2>1
  <2>. QED BY <2>2, <1>7 DEF DeleteHook
<1>8. CASE UNCHANGED <<delivery, standing>>
  BY <1>8, <1>1
<1>9. ASSUME NEW w \in Worker, Queue(w) \/ JobStep(w) \/ Die(w)
      PROVE  UNCHANGED <<delivery[r], standing[r]>>
  BY <1>9, <1>2, <1>3, <1>4, <1>5 DEF Queue, JobStep, FailQueue, SelectDue, PostRaises, Restart, Die
<1>10. ASSUME NEW h \in Hook, NEW matches \in Events, NEW state \in Kept,
              CreateHook(h, state, matches) \/ PatchHook(h, state, matches)
       PROVE  UNCHANGED <<delivery, standing>>
  BY <1>10 DEF CreateHook, PatchHook
<1>11. ASSUME NEW a \in Activity, Log(a)
       PROVE  UNCHANGED <<delivery, standing>>
  BY <1>11 DEF Log
<1>12. CASE UNCHANGED vars
  BY <1>12, <1>8 DEF vars
<1>13. CASE Next
  <2>1. UNCHANGED <<delivery, standing>> \/ UNCHANGED <<delivery[r], standing[r]>>
    BY <1>13, <1>6, <1>7, <1>9, <1>10, <1>11 DEF Next
  <2>. QED BY <2>1, <1>1, <1>8
<1>. QED BY <1>12, <1>13

\* A delivery that was delivered, skipped or exhausted is never attempted again
\* and keeps its row until its hook is deleted.
THEOREM FinalStays == Spec => FinalIsFinal
<1>1. IInv /\ [Next]_vars =>
        [\A r \in Row : delivery[r].status \in Final /\ hook'[r[1]].state # "deleted" =>
            delivery'[r] = delivery[r] /\ standing'[r] <= standing[r]]_vars
  BY FinalStep
<1>. QED BY <1>1, Invariant, PTL DEF Spec, FinalIsFinal
=============================================================================
