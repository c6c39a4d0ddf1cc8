-------------------- MODULE NotificationPipeline_proofs --------------------
(***************************************************************************)
(* Proofs about the notification worker, for every number of users,        *)
(* notifications, workers and preferences.  The argument counts: every     *)
(* send that was not rolled back is on record in its row or belongs to an  *)
(* open transaction.                                                       *)
(***************************************************************************)
EXTENDS NotificationPipeline, FiniteSetTheorems, TLAPS

-----------------------------------------------------------------------------
(* The inductive invariant.                                                *)

\* A job that has sent nothing yet has no results.
Unsent(w) ==
    job[w].at \notin {"deliver", "digest", "send"} =>
        \A r \in Row : job[w].results[r] = "none"

\* The rows a job tries are its own, and nobody closes them meanwhile.
TriesOpenRows(w) ==
    job[w].at = "deliver" =>
        /\ \A r \in Row : job[w].results[r] # "none" => r \in job[w].rows
        /\ \A r \in job[w].rows : /\ delivery[r].status \in {"pending", "failed"}
                                  /\ delivery[r].attempts < MaxAttempts

\* A digest adds a row for each notification it told, of users it is done with.
RecordsWhatItTold(w) ==
    job[w].at \in {"digest", "send"} =>
        /\ \A r \in Row : job[w].results[r] = IF r \in job[w].rows THEN "sent" ELSE "none"
        /\ \A r \in job[w].rows : Owner[r[1]] \notin job[w].users

\* What it is about to tell has no row among them yet.
TellsOnce(w) ==
    job[w].at = "send" =>
        \A n \in job[w].notes : /\ Owner[n] \notin job[w].users
                                /\ <<n, "email">> \notin job[w].rows

JobsSound == \A w \in Worker : /\ Unsent(w) /\ TriesOpenRows(w)
                               /\ RecordsWhatItTold(w) /\ TellsOnce(w)

OnRecord(r) == IF delivery[r].status = "sent" THEN 1 ELSE 0

\* Accounted, and for a deleted notification that open sends are among those
\* that stand, so that a roll back never counts below zero.
Books == \A r \in Row :
    /\ standing[r] >= Cardinality(Senders(r))
    /\ note[r[1]] # "deleted" => standing[r] = Cardinality(Senders(r)) + OnRecord(r)

\* Two open jobs hold different rows (SKIP LOCKED in both selects).
LocksDisjoint ==
    \A v, w \in Worker : v # w =>
        /\ LockedNotes(v) \cap LockedNotes(w) = {}
        /\ LockedRows(v) \cap LockedRows(w) = {}

IInv == TypeOK /\ JobsSound /\ LocksDisjoint /\ Books

-----------------------------------------------------------------------------
(* Counting workers, and the rows of a notification.                       *)

LEMMA Counted ==
    ASSUME NEW S, S \subseteq Worker
    PROVE  Cardinality(S) \in Nat /\ IsFiniteSet(S)
BY WorkerAssumption, FS_Subset, FS_CardinalityType

LEMMA OneMore ==
    ASSUME NEW S, S \subseteq Worker, NEW w \in Worker, w \notin S
    PROVE  Cardinality(S \cup {w}) = Cardinality(S) + 1
BY Counted, FS_AddElement

LEMMA OneLess ==
    ASSUME NEW S, S \subseteq Worker, NEW w \in S
    PROVE  Cardinality(S \ {w}) = Cardinality(S) - 1
BY Counted, FS_RemoveElement

LEMMA Rows ==
    /\ \A r \in Row : r[1] \in Note /\ r[2] \in Target /\ r = <<r[1], r[2]>>
    /\ \A n \in Note : \A t \in Target : <<n, t>> \in Row
BY DEF Row

LEMMA EmailRows ==
    ASSUME NEW N, N \subseteq Note
    PROVE  /\ N \X {"email"} \subseteq Row
           /\ \A r \in N \X {"email"} : r[1] \in N /\ r = <<r[1], "email">>
BY DEF Row, Target

-----------------------------------------------------------------------------
(* The invariant holds at the start.                                       *)

LEMMA InitInv == Init => IInv
<1> SUFFICES ASSUME Init PROVE IInv
  OBVIOUS
<1>1. TypeOK
  BY DEF Init, TypeOK, Idle, NoResults, NoRow, Steps, Results, MaxAttempts
<1>2. JobsSound
  BY DEF Init, JobsSound, Unsent, TriesOpenRows, RecordsWhatItTold, TellsOnce, Idle,
         NoResults
<1>3. LocksDisjoint
  BY DEF Init, LocksDisjoint, LockedNotes, LockedRows, Idle
<1>4. Books
  <2> SUFFICES ASSUME NEW r \in Row
               PROVE  standing[r] = 0 /\ OnRecord(r) = 0 /\ Cardinality(Senders(r)) = 0
    BY DEF Books
  <2>1. Senders(r) = {}
    BY DEF Init, Senders, Sent, Idle, NoResults
  <2> QED BY <2>1, FS_EmptySet DEF Init, OnRecord, NoRow
<1> QED BY <1>1, <1>2, <1>3, <1>4 DEF IInv

-----------------------------------------------------------------------------
(* What each step makes of the job of its worker.                          *)

JobType == [at: Steps, users: SUBSET User, notes: SUBSET Note,
            rows: SUBSET Row, results: [Row -> Results \cup {"none"}]]

Becomes(w, j) == /\ job' \in [Worker -> JobType]
                 /\ job'[w] = j
                 /\ \A v \in Worker \ {w} : job'[v] = job[v]

LEMMA Replaced ==
    ASSUME TypeOK, NEW w \in Worker, NEW j \in JobType, job' = [job EXCEPT ![w] = j]
    PROVE  Becomes(w, j)
BY DEF TypeOK, JobType, Becomes

LEMMA JobFields ==
    ASSUME TypeOK, NEW w \in Worker
    PROVE  job[w] \in JobType
BY DEF TypeOK, JobType

LEMMA IdleTyped == ASSUME NEW at \in Steps PROVE [Idle EXCEPT !.at = at] \in JobType
BY DEF Idle, JobType, Steps, NoResults

LEMMA AfterScan ==
    ASSUME TypeOK, NEW w \in Worker, Scan(w)
    PROVE  \E N \in SUBSET Note : Becomes(w, [Idle EXCEPT !.at = "scan", !.notes = N])
<1> DEFINE N == {n \in Note : Stored(n) /\ n \notin dispatched}
           j == [Idle EXCEPT !.at = "scan", !.notes = N]
<1>1. job' = [job EXCEPT ![w] = j]
  BY DEF Scan, TypeOK
<1>2. j \in JobType
  BY DEF JobType, Idle, Steps, NoResults
<1> HIDE DEF j
<1>3. Becomes(w, j)
  BY <1>1, <1>2, Replaced
<1> QED BY <1>3 DEF j

\* The notifications it locks are stored, and no other worker holds them.
LEMMA AfterLock ==
    ASSUME TypeOK, NEW w \in Worker, Lock(w)
    PROVE  \E N \in SUBSET job[w].notes, U \in SUBSET User :
             /\ Becomes(w, [job[w] EXCEPT !.at = "dispatch", !.notes = N, !.users = U])
             /\ \A v \in Worker \ {w} : N \cap LockedNotes(v) = {}
<1> DEFINE N == {n \in job[w].notes :
                   Stored(n) /\ \A v \in Others(w) : n \notin LockedNotes(v)}
           U == {Owner[n] : n \in N}
           j == [job[w] EXCEPT !.at = "dispatch", !.notes = N, !.users = U]
<1>1. job' = [job EXCEPT ![w] = j]
  BY DEF Lock, TypeOK
<1>2. job[w] \in JobType
  BY JobFields
<1>3. N \subseteq Note /\ U \subseteq User
  BY <1>2, OwnerAssumption DEF JobType
<1>4. j \in JobType
  <2> HIDE DEF N, U
  <2> QED BY <1>2, <1>3 DEF JobType, Steps
<1>5. Becomes(w, j)
  <2> HIDE DEF j
  <2> QED BY <1>1, <1>4, Replaced
<1>6. \A v \in Worker \ {w} : N \cap LockedNotes(v) = {}
  BY DEF Others
<1>7. N \subseteq job[w].notes
  OBVIOUS
<1> HIDE DEF N, U
<1> QED BY <1>3, <1>5, <1>6, <1>7

LEMMA AfterDispatchFor ==
    ASSUME TypeOK, NEW w \in Worker, NEW u \in User, DispatchFor(w, u)
    PROVE  \E R \in SUBSET Row : Becomes(w, [job[w] EXCEPT !.users = @ \ {u}, !.rows = R])
<1> DEFINE R == job[w].rows \cup RowsFor(u, job[w].notes)
           j == [job[w] EXCEPT !.users = @ \ {u}, !.rows = R]
<1>1. job' = [job EXCEPT ![w] = j]
  BY DEF DispatchFor, TypeOK
<1>2. job[w] \in JobType
  BY JobFields
<1>3. R \subseteq Row
  BY <1>2 DEF JobType, RowsFor, Row
<1>4. j \in JobType
  <2> HIDE DEF R
  <2> QED BY <1>2, <1>3 DEF JobType
<1>5. Becomes(w, j)
  <2> HIDE DEF j
  <2> QED BY <1>1, <1>4, Replaced
<1> QED BY <1>3, <1>5

\* The rows it takes are open, and no other worker holds them.
LEMMA AfterSelectDue ==
    ASSUME TypeOK, NEW w \in Worker, SelectDue(w)
    PROVE  \E R \in SUBSET Row :
             /\ Becomes(w, [job[w] EXCEPT !.at = "deliver", !.rows = R])
             /\ \A r \in R : Due(r)
             /\ \A v \in Worker \ {w} : R \cap LockedRows(v) = {}
<1> DEFINE R == {r \in Row : Due(r) /\ \A v \in Others(w) : r \notin LockedRows(v)}
           j == [job[w] EXCEPT !.at = "deliver", !.rows = R]
<1>1. job' = [job EXCEPT ![w] = j]
  BY DEF SelectDue, TypeOK
<1>2. job[w] \in JobType
  BY JobFields
<1>3. j \in JobType
  <2>1. R \subseteq Row
    OBVIOUS
  <2> HIDE DEF R
  <2> QED BY <1>2, <2>1 DEF JobType, Steps
<1>4. Becomes(w, j)
  <2> HIDE DEF j
  <2> QED BY <1>1, <1>3, Replaced
<1>5. \A v \in Worker \ {w} : R \cap LockedRows(v) = {}
  BY DEF Others
<1>6. R \subseteq Row /\ \A r \in R : Due(r)
  OBVIOUS
<1> QED BY <1>4, <1>5, <1>6

LEMMA AfterAttempt ==
    ASSUME TypeOK, NEW w \in Worker, NEW r \in Row, NEW result \in Results,
           Attempt(w, r, result)
    PROVE  Becomes(w, [job[w] EXCEPT !.results = [@ EXCEPT ![r] = result]])
<1> DEFINE j == [job[w] EXCEPT !.results = [@ EXCEPT ![r] = result]]
<1>1. job' = [job EXCEPT ![w] = j]
  BY DEF Attempt, TypeOK
<1>2. j \in JobType
  BY JobFields DEF JobType
<1> HIDE DEF j
<1>3. Becomes(w, j)
  BY <1>1, <1>2, Replaced
<1> QED BY <1>3 DEF j

LEMMA AfterStartDigest ==
    ASSUME TypeOK, NEW w \in Worker, NEW f \in {"hourly", "daily"}, StartDigest(w, f)
    PROVE  \E U \in SUBSET User : Becomes(w, [Idle EXCEPT !.at = "digest", !.users = U])
<1> DEFINE U == {u \in User : pref[u].email /\ pref[u].frequency = f /\ pref[u].kinds}
           j == [Idle EXCEPT !.at = "digest", !.users = U]
<1>1. job' = [job EXCEPT ![w] = j]
  BY DEF StartDigest, TypeOK
<1>2. U \subseteq User
  OBVIOUS
<1>3. j \in JobType
  <2> HIDE DEF U
  <2> QED BY <1>2 DEF JobType, Idle, Steps, NoResults
<1>4. Becomes(w, j)
  <2> HIDE DEF j
  <2> QED BY <1>1, <1>3, Replaced
<1> QED BY <1>2, <1>4

\* What it read is for the user it is now done with.
LEMMA AfterReadCandidates ==
    ASSUME TypeOK, NEW w \in Worker, NEW u \in User, ReadCandidates(w, u)
    PROVE  \E N \in SUBSET Note, at \in {"digest", "send"} :
             /\ Becomes(w, [job[w] EXCEPT !.users = @ \ {u}, !.notes = N, !.at = at])
             /\ \A n \in N : Owner[n] = u
<1> DEFINE N == Candidates(u)
           at == IF N = {} THEN "digest" ELSE "send"
           j == [job[w] EXCEPT !.users = @ \ {u}, !.notes = N, !.at = at]
<1>1. job' = [job EXCEPT ![w] = j]
  BY DEF ReadCandidates, TypeOK
<1>2. N \subseteq Note /\ \A n \in N : Owner[n] = u
  BY DEF Candidates
<1>3. at \in {"digest", "send"}
  OBVIOUS
<1>4. j \in JobType
  <2> HIDE DEF N, at
  <2> QED BY <1>2, <1>3, JobFields DEF JobType, Steps
<1>5. Becomes(w, j)
  <2> HIDE DEF j
  <2> QED BY <1>1, <1>4, Replaced
<1> HIDE DEF N, at
<1> QED BY <1>2, <1>3, <1>5

\* The rows it adds, and their results.
NewRows(w, delivered) == Recorded(job[w].notes, delivered)

LEMMA AfterSendDigest ==
    ASSUME TypeOK, NEW w \in Worker, NEW delivered \in BOOLEAN, SendDigest(w, delivered)
    PROVE  /\ NewRows(w, delivered) \subseteq Row
           /\ Becomes(w, [job[w] EXCEPT !.at = "digest", !.notes = {},
                  !.rows = @ \cup NewRows(w, delivered),
                  !.results = [r \in Row |-> IF r \in NewRows(w, delivered) THEN "sent"
                                             ELSE @[r]]])
<1> DEFINE R == NewRows(w, delivered)
           results == [r \in Row |-> IF r \in R THEN "sent" ELSE job[w].results[r]]
           j == [job[w] EXCEPT !.at = "digest", !.notes = {},
                               !.rows = @ \cup R, !.results = results]
<1>1. job' = [job EXCEPT ![w] = j]
  BY DEF SendDigest, TypeOK, NewRows
<1>2. job[w] \in JobType
  BY JobFields
<1>3. R \subseteq Row
  BY <1>2, EmailRows DEF NewRows, Recorded, JobType
<1>4. results \in [Row -> Results \cup {"none"}]
  BY <1>2 DEF JobType, Results
<1>5. j \in JobType
  <2> HIDE DEF R, results
  <2> QED BY <1>2, <1>3, <1>4 DEF JobType, Steps
<1>6. Becomes(w, j)
  <2> HIDE DEF j
  <2> QED BY <1>1, <1>5, Replaced
<1> QED BY <1>3, <1>6

\* A job that ends, whichever way, leaves nothing behind but the next step.
Ends(w, at) ==
    \/ CommitDispatch(w) /\ at = "due"
    \/ CommitDeliveries(w) /\ at = "idle"
    \/ CommitDigest(w) /\ at = "idle"
    \/ Restart(w) /\ at = "idle"
    \/ at \in {"idle", "down"} /\ RollBack(w, at)

LEMMA AfterEnd ==
    ASSUME TypeOK, NEW w \in Worker, NEW at, Ends(w, at)
    PROVE  Becomes(w, [Idle EXCEPT !.at = at])
<1>1. at \in Steps /\ job' = [job EXCEPT ![w] = [Idle EXCEPT !.at = at]]
  BY DEF Ends, CommitDispatch, CommitDeliveries, CommitDigest, Restart, RollBack, Steps, Idle
<1> QED BY <1>1, IdleTyped, Replaced
-----------------------------------------------------------------------------
(* Types.                                                                  *)

\* The number of open sends of a row is a positive number of those that stand.
LEMMA RollBackCounts ==
    ASSUME IInv, NEW w \in Worker, NEW r \in Sent(w)
    PROVE  standing[r] - 1 \in Nat
<1>1. r \in Row /\ Senders(r) \subseteq Worker /\ w \in Senders(r)
  BY DEF Sent, Senders
<1>2. Cardinality(Senders(r)) \in Nat /\ Cardinality(Senders(r) \ {w}) \in Nat
  BY <1>1, Counted
<1>3. Cardinality(Senders(r)) >= 1
  BY <1>1, <1>2, OneLess
<1> QED BY <1>1, <1>2, <1>3 DEF IInv, Books, TypeOK

LEMMA TypeStep == IInv /\ [Next]_vars => TypeOK'
<1> SUFFICES ASSUME IInv, [Next]_vars PROVE TypeOK'
  OBVIOUS
<1>0. TypeOK
  BY DEF IInv
<1>1. ASSUME NEW w \in Worker, Scan(w) PROVE TypeOK'
  BY <1>0, <1>1, AfterScan DEF Scan, TypeOK, Becomes, JobType
<1>2. ASSUME NEW w \in Worker, Lock(w) PROVE TypeOK'
  BY <1>0, <1>2, AfterLock DEF Lock, TypeOK, Becomes, JobType
<1>3. ASSUME NEW w \in Worker, CommitDispatch(w) PROVE TypeOK'
  <2>1. Becomes(w, [Idle EXCEPT !.at = "due"])
    BY <1>0, <1>3, AfterEnd DEF Ends
  <2>2. Pending \in [status: {"none", "pending", "failed", "sent", "skipped"},
                     attempts: 0..MaxAttempts, due: BOOLEAN]
    BY DEF Pending, MaxAttempts
  <2>3. Marked(w) \subseteq Note
    BY <1>0 DEF Marked, TypeOK
  <2> QED BY <1>0, <1>3, <2>1, <2>2, <2>3 DEF CommitDispatch, TypeOK, Becomes, JobType
<1>4. ASSUME NEW w \in Worker, SelectDue(w) PROVE TypeOK'
  BY <1>0, <1>4, AfterSelectDue DEF SelectDue, TypeOK, Becomes, JobType
<1>5. ASSUME NEW w \in Worker, CommitDeliveries(w) PROVE TypeOK'
  <2>1. Becomes(w, [Idle EXCEPT !.at = "idle"])
    BY <1>0, <1>5, AfterEnd DEF Ends
  <2>2. ASSUME NEW r \in job[w].rows
        PROVE  Tried(delivery[r], job[w].results[r]) \in
                  [status: {"none", "pending", "failed", "sent", "skipped"},
                   attempts: 0..MaxAttempts, due: BOOLEAN]
    <3>1. r \in Row /\ job[w].results[r] \in Results
      BY <1>0, <1>5, <2>2 DEF CommitDeliveries, TypeOK
    <3>2. delivery[r].attempts \in 0..MaxAttempts /\ delivery[r].attempts < MaxAttempts
      BY <1>0, <1>5, <3>1 DEF CommitDeliveries, TypeOK, IInv, JobsSound, TriesOpenRows
    <3> QED BY <3>1, <3>2 DEF Tried, Results, MaxAttempts
  <2>3. subscription' \subseteq User
    BY <1>0, <1>5 DEF CommitDeliveries, TypeOK
  <2> QED BY <1>0, <1>5, <2>1, <2>2, <2>3 DEF CommitDeliveries, TypeOK, Becomes, JobType
<1>6. ASSUME NEW w \in Worker, CommitDigest(w) PROVE TypeOK'
  <2>1. Becomes(w, [Idle EXCEPT !.at = "idle"])
    BY <1>0, <1>6, AfterEnd DEF Ends
  <2>2. Digested \in [status: {"none", "pending", "failed", "sent", "skipped"},
                      attempts: 0..MaxAttempts, due: BOOLEAN]
    BY DEF Digested, MaxAttempts
  <2> QED BY <1>0, <1>6, <2>1, <2>2 DEF CommitDigest, TypeOK, Becomes, JobType
<1>7. ASSUME NEW w \in Worker, NEW at \in {"idle", "down"}, RollBack(w, at) PROVE TypeOK'
  <2>1. Becomes(w, [Idle EXCEPT !.at = at])
    BY <1>0, <1>7, AfterEnd DEF Ends
  <2> QED BY <1>0, <1>7, <2>1, RollBackCounts DEF RollBack, TypeOK, Becomes, JobType
<1>8. ASSUME NEW w \in Worker, Restart(w) PROVE TypeOK'
  <2>1. Becomes(w, [Idle EXCEPT !.at = "idle"])
    BY <1>0, <1>8, AfterEnd DEF Ends
  <2> QED BY <1>0, <1>8, <2>1 DEF Restart, TypeOK, Becomes, JobType
<1>9. ASSUME NEW w \in Worker, NEW u \in User, DispatchFor(w, u) PROVE TypeOK'
  BY <1>0, <1>9, AfterDispatchFor DEF DispatchFor, TypeOK, Becomes, JobType
<1>10. ASSUME NEW w \in Worker, NEW u \in User, ReadCandidates(w, u) PROVE TypeOK'
  BY <1>0, <1>10, AfterReadCandidates DEF ReadCandidates, TypeOK, Becomes, JobType
<1>11. ASSUME NEW w \in Worker, NEW r \in Row, NEW result \in Results, Attempt(w, r, result)
       PROVE  TypeOK'
  <2>1. job' \in [Worker -> JobType]
    BY <1>0, <1>11, AfterAttempt DEF Becomes
  <2>2. standing' \in [Row -> Nat]
    BY <1>0, <1>11 DEF Attempt, TypeOK
  <2> QED BY <1>0, <1>11, <2>1, <2>2 DEF Attempt, TypeOK, JobType
<1>12. ASSUME NEW w \in Worker, NEW delivered \in BOOLEAN, SendDigest(w, delivered)
       PROVE  TypeOK'
  <2>1. job' \in [Worker -> JobType]
    BY <1>0, <1>12, AfterSendDigest DEF Becomes
  <2>2. standing' \in [Row -> Nat]
    BY <1>0, <1>12 DEF SendDigest, TypeOK
  <2> QED BY <1>0, <1>12, <2>1, <2>2 DEF SendDigest, TypeOK, JobType
<1>13. ASSUME NEW w \in Worker, NEW f \in {"hourly", "daily"}, StartDigest(w, f) PROVE TypeOK'
  BY <1>0, <1>13, AfterStartDigest DEF StartDigest, TypeOK, Becomes, JobType
<1>14. ASSUME NEW r \in Row, FallDue(r) PROVE TypeOK'
  BY <1>0, <1>14 DEF FallDue, TypeOK
<1>15. ASSUME NEW n \in Note, Create(n) \/ Age(n) PROVE TypeOK'
  BY <1>0, <1>15 DEF Create, Age, TypeOK
<1>16. ASSUME NEW n \in Note, Delete(n) PROVE TypeOK'
  BY <1>0, <1>16 DEF Delete, TypeOK, NoRow, MaxAttempts
<1>17. ASSUME NEW u \in User, \/ \E p \in Preference : PatchPreferences(u, p)
                              \/ RegisterSubscription(u) \/ RevokeSubscription(u)
       PROVE  TypeOK'
  BY <1>0, <1>17 DEF PatchPreferences, RegisterSubscription, RevokeSubscription, TypeOK
<1>18. CASE UNCHANGED vars
  BY <1>0, <1>18 DEF vars, TypeOK
<1> QED BY <1>1, <1>2, <1>3, <1>4, <1>5, <1>6, <1>7, <1>8, <1>9, <1>10, <1>11, <1>12,
           <1>13, <1>14, <1>15, <1>16, <1>17, <1>18
        DEF Next, JobStep, Fail, Die
-----------------------------------------------------------------------------
(* Locks.                                                                  *)

LEMMA DisjointAfter ==
    ASSUME LocksDisjoint, NEW w \in Worker, \A v \in Worker \ {w} : job'[v] = job[v],
           \A v \in Worker \ {w} : /\ LockedNotes(w)' \cap LockedNotes(v) = {}
                                   /\ LockedRows(w)' \cap LockedRows(v) = {}
    PROVE  LocksDisjoint'
<1>1. \A v \in Worker \ {w} : /\ LockedNotes(v)' = LockedNotes(v)
                              /\ LockedRows(v)' = LockedRows(v)
  BY DEF LockedNotes, LockedRows
<1> QED BY <1>1 DEF LocksDisjoint

\* A job that locks no more than before, or nothing, stays apart from the others.
LEMMA DisjointIfLess ==
    ASSUME LocksDisjoint, NEW w \in Worker, \A v \in Worker \ {w} : job'[v] = job[v],
           LockedNotes(w)' \subseteq LockedNotes(w), LockedRows(w)' \subseteq LockedRows(w)
    PROVE  LocksDisjoint'
<1>1. \A v \in Worker \ {w} : /\ LockedNotes(w)' \cap LockedNotes(v) = {}
                              /\ LockedRows(w)' \cap LockedRows(v) = {}
  BY DEF LocksDisjoint
<1> QED BY <1>1, DisjointAfter

LEMMA LocksStep == IInv /\ [Next]_vars => LocksDisjoint'
<1> SUFFICES ASSUME IInv, [Next]_vars PROVE LocksDisjoint'
  OBVIOUS
<1>0. TypeOK /\ LocksDisjoint
  BY DEF IInv
<1>f. ASSUME NEW w \in Worker PROVE job[w] \in JobType
  BY <1>0, JobFields
<1>1. ASSUME NEW w \in Worker, Lock(w) PROVE LocksDisjoint'
  <2>1. PICK N \in SUBSET job[w].notes, U \in SUBSET User :
          /\ Becomes(w, [job[w] EXCEPT !.at = "dispatch", !.notes = N, !.users = U])
          /\ \A v \in Worker \ {w} : N \cap LockedNotes(v) = {}
    BY <1>0, <1>1, AfterLock
  <2>2. LockedNotes(w)' = N /\ LockedRows(w)' = {}
    BY <2>1, <1>f DEF LockedNotes, LockedRows, Becomes, JobType
  <2> QED BY <1>0, <2>1, <2>2, DisjointAfter DEF Becomes
<1>2. ASSUME NEW w \in Worker, SelectDue(w) PROVE LocksDisjoint'
  <2>1. PICK R \in SUBSET Row :
          /\ Becomes(w, [job[w] EXCEPT !.at = "deliver", !.rows = R])
          /\ \A v \in Worker \ {w} : R \cap LockedRows(v) = {}
    BY <1>0, <1>2, AfterSelectDue
  <2>2. LockedNotes(w)' = {} /\ LockedRows(w)' = R
    BY <2>1, <1>f DEF LockedNotes, LockedRows, Becomes, JobType
  <2> QED BY <1>0, <2>1, <2>2, DisjointAfter DEF Becomes
<1>3. ASSUME NEW w \in Worker, NEW j, Becomes(w, j),
             \/ j.at \notin {"dispatch", "deliver"}
             \/ j.at = job[w].at /\ j.notes = job[w].notes
                                 /\ (j.at = "deliver" => j.rows = job[w].rows)
      PROVE  LocksDisjoint'
  <2>1. LockedNotes(w)' \subseteq LockedNotes(w) /\ LockedRows(w)' \subseteq LockedRows(w)
    BY <1>3 DEF LockedNotes, LockedRows, Becomes
  <2> QED BY <1>0, <1>3, <2>1, DisjointIfLess DEF Becomes
<1>4. ASSUME NEW w \in Worker, Scan(w) PROVE LocksDisjoint'
  <2>1. PICK N \in SUBSET Note : Becomes(w, [Idle EXCEPT !.at = "scan", !.notes = N])
    BY <1>0, <1>4, AfterScan
  <2>2. [Idle EXCEPT !.at = "scan", !.notes = N].at = "scan"
    BY DEF Idle
  <2> QED BY <2>1, <2>2, <1>3
<1>5. ASSUME NEW w \in Worker, NEW at \in {"idle", "due", "down"}, Ends(w, at)
      PROVE  LocksDisjoint'
  <2>1. [Idle EXCEPT !.at = at].at = at
    BY DEF Idle
  <2> QED BY <1>0, <1>5, <2>1, <1>3, AfterEnd
<1>6. ASSUME NEW w \in Worker, NEW u \in User, DispatchFor(w, u) PROVE LocksDisjoint'
  <2>1. PICK R \in SUBSET Row : Becomes(w, [job[w] EXCEPT !.users = @ \ {u}, !.rows = R])
    BY <1>0, <1>6, AfterDispatchFor
  <2>2. job[w].at = "dispatch"
    BY <1>6 DEF DispatchFor
  <2> DEFINE j == [job[w] EXCEPT !.users = @ \ {u}, !.rows = R]
  <2>3. j.at = job[w].at /\ j.notes = job[w].notes
    BY <1>f DEF JobType
  <2> HIDE DEF j
  <2> QED BY <2>1, <2>2, <2>3, <1>3 DEF j
<1>7. ASSUME NEW w \in Worker, NEW u \in User, ReadCandidates(w, u) PROVE LocksDisjoint'
  <2>1. PICK N \in SUBSET Note, at \in {"digest", "send"} :
          Becomes(w, [job[w] EXCEPT !.users = @ \ {u}, !.notes = N, !.at = at])
    BY <1>0, <1>7, AfterReadCandidates
  <2> DEFINE j == [job[w] EXCEPT !.users = @ \ {u}, !.notes = N, !.at = at]
  <2>2. j.at = at
    BY <1>f DEF JobType
  <2> HIDE DEF j
  <2> QED BY <2>1, <2>2, <1>3 DEF j
<1>8. ASSUME NEW w \in Worker, NEW r \in Row, NEW result \in Results, Attempt(w, r, result)
      PROVE  LocksDisjoint'
  <2> DEFINE j == [job[w] EXCEPT !.results = [@ EXCEPT ![r] = result]]
  <2>1. Becomes(w, j)
    BY <1>0, <1>8, AfterAttempt
  <2>2. j.at = job[w].at /\ j.notes = job[w].notes /\ j.rows = job[w].rows
    BY <1>f DEF JobType
  <2> HIDE DEF j
  <2> QED BY <2>1, <2>2, <1>3
<1>9. ASSUME NEW w \in Worker, NEW delivered \in BOOLEAN, SendDigest(w, delivered)
      PROVE  LocksDisjoint'
  <2> DEFINE j == [job[w] EXCEPT !.at = "digest", !.notes = {},
                  !.rows = @ \cup NewRows(w, delivered),
                  !.results = [r \in Row |-> IF r \in NewRows(w, delivered) THEN "sent"
                                             ELSE @[r]]]
  <2>1. Becomes(w, j)
    BY <1>0, <1>9, AfterSendDigest
  <2>2. j.at = "digest"
    BY <1>f DEF JobType
  <2> HIDE DEF j
  <2> QED BY <2>1, <2>2, <1>3
<1>10. ASSUME NEW w \in Worker, NEW f \in {"hourly", "daily"}, StartDigest(w, f)
       PROVE  LocksDisjoint'
  <2>1. PICK U \in SUBSET User : Becomes(w, [Idle EXCEPT !.at = "digest", !.users = U])
    BY <1>0, <1>10, AfterStartDigest
  <2>2. [Idle EXCEPT !.at = "digest", !.users = U].at = "digest"
    BY DEF Idle
  <2> QED BY <2>1, <2>2, <1>3
<1>11. CASE UNCHANGED job
  BY <1>0, <1>11 DEF LocksDisjoint, LockedNotes, LockedRows
<1> QED BY <1>1, <1>2, <1>4, <1>5, <1>6, <1>7, <1>8, <1>9, <1>10, <1>11
        DEF Next, JobStep, Fail, Die, Ends, FallDue, Create, Age, Delete,
            PatchPreferences, RegisterSubscription, RevokeSubscription, vars
-----------------------------------------------------------------------------
(* Jobs.                                                                   *)

Sound(w) == Unsent(w) /\ TriesOpenRows(w) /\ RecordsWhatItTold(w) /\ TellsOnce(w)

\* Rows in the hands of the other workers stay as they are.
SparesOthers(w) == \A v \in Worker \ {w} : \A r \in LockedRows(v) :
                       /\ delivery'[r].status = delivery[r].status
                       /\ delivery'[r].attempts = delivery[r].attempts

LEMMA SoundAfter ==
    ASSUME JobsSound, NEW w \in Worker, \A v \in Worker \ {w} : job'[v] = job[v],
           SparesOthers(w), Sound(w)'
    PROVE  JobsSound'
<1>1. ASSUME NEW v \in Worker \ {w} PROVE Sound(v)'
  <2>1. Sound(v) /\ job'[v] = job[v]
    BY DEF JobsSound, Sound
  <2>2. TriesOpenRows(v)'
    BY <2>1 DEF Sound, TriesOpenRows, SparesOthers, LockedRows
  <2>3. Unsent(v)' /\ RecordsWhatItTold(v)' /\ TellsOnce(v)'
    BY <2>1 DEF Sound, Unsent, RecordsWhatItTold, TellsOnce
  <2> QED BY <2>2, <2>3 DEF Sound
<1> QED BY <1>1 DEF JobsSound, Sound

LEMMA EndedIsSound ==
    ASSUME NEW w \in Worker, NEW at \in {"idle", "due", "down"},
           Becomes(w, [Idle EXCEPT !.at = at])
    PROVE  Sound(w)'
BY DEF Becomes, Idle, NoResults, Sound, Unsent, TriesOpenRows, RecordsWhatItTold, TellsOnce

\* Inserted rows were in nobody's hands: they did not exist.
LEMMA InsertSpares ==
    ASSUME IInv, NEW w \in Worker, NEW row,
           \A r \in job[w].rows : delivery[r] = NoRow,
           delivery' = [r \in Row |-> IF r \in job[w].rows THEN row ELSE delivery[r]]
    PROVE  SparesOthers(w)
<1> SUFFICES ASSUME NEW v \in Worker \ {w}, NEW r \in LockedRows(v)
             PROVE  delivery'[r] = delivery[r]
  BY DEF SparesOthers
<1>1. job[v].at = "deliver" /\ r \in job[v].rows /\ r \in Row
  BY DEF LockedRows, IInv, TypeOK
<1>2. delivery[r] # NoRow
  BY <1>1 DEF IInv, JobsSound, TriesOpenRows, NoRow
<1> QED BY <1>1, <1>2

LEMMA JobsStep == IInv /\ [Next]_vars => JobsSound'
<1> SUFFICES ASSUME IInv, [Next]_vars PROVE JobsSound'
  OBVIOUS
<1>0. TypeOK /\ LocksDisjoint /\ JobsSound
  BY DEF IInv
<1>f. ASSUME NEW w \in Worker PROVE job[w] \in JobType /\ Sound(w)
  BY <1>0, JobFields DEF JobsSound, Sound
<1>s. ASSUME NEW w \in Worker, UNCHANGED delivery PROVE SparesOthers(w)
  BY <1>s DEF SparesOthers
<1>1. ASSUME NEW w \in Worker, Scan(w) PROVE JobsSound'
  <2>1. PICK N \in SUBSET Note : Becomes(w, [Idle EXCEPT !.at = "scan", !.notes = N])
    BY <1>0, <1>1, AfterScan
  <2>2. Sound(w)'
    BY <2>1 DEF Becomes, Idle, NoResults, Sound, Unsent, TriesOpenRows, RecordsWhatItTold,
                TellsOnce
  <2> QED BY <1>0, <1>1, <1>s, <2>1, <2>2, SoundAfter DEF Becomes, Scan
<1>2. ASSUME NEW w \in Worker, Lock(w) PROVE JobsSound'
  <2>1. PICK N \in SUBSET job[w].notes, U \in SUBSET User :
          Becomes(w, [job[w] EXCEPT !.at = "dispatch", !.notes = N, !.users = U])
    BY <1>0, <1>2, AfterLock
  <2>2. job[w].at = "scan"
    BY <1>2 DEF Lock
  <2>3. Sound(w)'
    BY <2>1, <2>2, <1>f DEF Becomes, JobType, Sound, Unsent, TriesOpenRows,
                            RecordsWhatItTold, TellsOnce
  <2> QED BY <1>0, <1>2, <1>s, <2>1, <2>3, SoundAfter DEF Becomes, Lock
<1>3. ASSUME NEW w \in Worker, NEW u \in User, DispatchFor(w, u) PROVE JobsSound'
  <2>1. PICK R \in SUBSET Row : Becomes(w, [job[w] EXCEPT !.users = @ \ {u}, !.rows = R])
    BY <1>0, <1>3, AfterDispatchFor
  <2>2. job[w].at = "dispatch"
    BY <1>3 DEF DispatchFor
  <2>3. Sound(w)'
    BY <2>1, <2>2, <1>f DEF Becomes, JobType, Sound, Unsent, TriesOpenRows,
                            RecordsWhatItTold, TellsOnce
  <2> QED BY <1>0, <1>3, <1>s, <2>1, <2>3, SoundAfter DEF Becomes, DispatchFor
<1>4. ASSUME NEW w \in Worker, CommitDispatch(w) PROVE JobsSound'
  <2>1. Becomes(w, [Idle EXCEPT !.at = "due"])
    BY <1>0, <1>4, AfterEnd DEF Ends
  <2>2. SparesOthers(w)
    BY <1>4, InsertSpares DEF CommitDispatch, DispatchClash, Refused
  <2> QED BY <1>0, <2>1, <2>2, EndedIsSound, SoundAfter DEF Becomes
<1>5. ASSUME NEW w \in Worker, SelectDue(w) PROVE JobsSound'
  <2>1. PICK R \in SUBSET Row :
          /\ Becomes(w, [job[w] EXCEPT !.at = "deliver", !.rows = R])
          /\ \A r \in R : Due(r)
    BY <1>0, <1>5, AfterSelectDue
  <2>2. job[w].at = "due" /\ UNCHANGED delivery
    BY <1>5 DEF SelectDue
  <2>3. Sound(w)'
    BY <2>1, <2>2, <1>f DEF Becomes, JobType, Sound, Unsent, TriesOpenRows,
                            RecordsWhatItTold, TellsOnce, Due
  <2> QED BY <1>0, <1>s, <2>1, <2>2, <2>3, SoundAfter DEF Becomes
<1>6. ASSUME NEW w \in Worker, NEW r \in Row, NEW result \in Results, Attempt(w, r, result)
      PROVE  JobsSound'
  <2>1. Becomes(w, [job[w] EXCEPT !.results = [@ EXCEPT ![r] = result]])
    BY <1>0, <1>6, AfterAttempt
  <2>2. job[w].at = "deliver" /\ r \in job[w].rows /\ UNCHANGED delivery
    BY <1>6 DEF Attempt
  <2>3. Sound(w)'
    BY <2>1, <2>2, <1>f DEF Becomes, JobType, Sound, Unsent, TriesOpenRows,
                            RecordsWhatItTold, TellsOnce
  <2> QED BY <1>0, <1>s, <2>1, <2>2, <2>3, SoundAfter DEF Becomes
<1>7. ASSUME NEW w \in Worker, CommitDeliveries(w) PROVE JobsSound'
  <2>1. Becomes(w, [Idle EXCEPT !.at = "idle"])
    BY <1>0, <1>7, AfterEnd DEF Ends
  <2>2. SparesOthers(w)
    <3> SUFFICES ASSUME NEW v \in Worker \ {w}, NEW r \in LockedRows(v)
                 PROVE  delivery'[r] = delivery[r]
      BY DEF SparesOthers
    <3>1. r \in Row /\ r \notin LockedRows(w)
      BY <1>0 DEF LocksDisjoint, LockedRows, TypeOK
    <3> QED BY <1>7, <3>1 DEF CommitDeliveries, LockedRows
  <2> QED BY <1>0, <2>1, <2>2, EndedIsSound, SoundAfter DEF Becomes
<1>8. ASSUME NEW w \in Worker, NEW f \in {"hourly", "daily"}, StartDigest(w, f)
      PROVE  JobsSound'
  <2>1. PICK U \in SUBSET User : Becomes(w, [Idle EXCEPT !.at = "digest", !.users = U])
    BY <1>0, <1>8, AfterStartDigest
  <2>2. Sound(w)'
    BY <2>1 DEF Becomes, Idle, NoResults, Sound, Unsent, TriesOpenRows, RecordsWhatItTold,
                TellsOnce
  <2> QED BY <1>0, <1>8, <1>s, <2>1, <2>2, SoundAfter DEF Becomes, StartDigest
<1>9. ASSUME NEW w \in Worker, NEW u \in User, ReadCandidates(w, u) PROVE JobsSound'
  <2>1. PICK N \in SUBSET Note, at \in {"digest", "send"} :
          /\ Becomes(w, [job[w] EXCEPT !.users = @ \ {u}, !.notes = N, !.at = at])
          /\ \A n \in N : Owner[n] = u
    BY <1>0, <1>9, AfterReadCandidates
  <2>2. job[w].at = "digest" /\ u \in job[w].users /\ UNCHANGED delivery
    BY <1>9 DEF ReadCandidates
  <2>3. ASSUME NEW n \in N PROVE Owner[n] \notin job[w].users \ {u}
                                 /\ <<n, "email">> \notin job[w].rows
    <3>1. Owner[n] = u /\ <<n, "email">>[1] = n
      BY <2>1
    <3> QED BY <3>1, <2>2, <1>f DEF Sound, RecordsWhatItTold
  <2>4. /\ job'[w].at = at /\ job'[w].users = job[w].users \ {u} /\ job'[w].notes = N
        /\ job'[w].rows = job[w].rows /\ job'[w].results = job[w].results
    BY <2>1, <1>f DEF Becomes, JobType
  <2>5. Unsent(w)' /\ TriesOpenRows(w)' /\ RecordsWhatItTold(w)'
    BY <2>2, <2>4, <1>f DEF Sound, Unsent, TriesOpenRows, RecordsWhatItTold
  <2>6. TellsOnce(w)'
    BY <2>3, <2>4 DEF TellsOnce
  <2> QED BY <1>0, <1>s, <2>1, <2>2, <2>5, <2>6, SoundAfter DEF Becomes, Sound
<1>10. ASSUME NEW w \in Worker, NEW delivered \in BOOLEAN, SendDigest(w, delivered)
       PROVE  JobsSound'
  <2> DEFINE R == NewRows(w, delivered)
  <2>1. /\ R \subseteq Row
        /\ Becomes(w, [job[w] EXCEPT !.at = "digest", !.notes = {}, !.rows = @ \cup R,
                         !.results = [r \in Row |-> IF r \in R THEN "sent" ELSE @[r]]])
    BY <1>0, <1>10, AfterSendDigest
  <2>2. job[w].at = "send" /\ UNCHANGED delivery
    BY <1>10 DEF SendDigest
  <2>3. ASSUME NEW r \in R PROVE Owner[r[1]] \notin job[w].users
    BY <2>2, <1>f, EmailRows DEF NewRows, Recorded, Sound, TellsOnce, JobType
  <2> HIDE DEF R
  <2>4. /\ job'[w].at = "digest" /\ job'[w].users = job[w].users
        /\ job'[w].rows = job[w].rows \cup R
        /\ job'[w].results = [r \in Row |-> IF r \in R THEN "sent" ELSE job[w].results[r]]
    BY <2>1, <1>f DEF Becomes, JobType
  <2>5. Unsent(w)' /\ TriesOpenRows(w)' /\ TellsOnce(w)'
    BY <2>4 DEF Unsent, TriesOpenRows, TellsOnce
  <2>6. RecordsWhatItTold(w)'
    BY <2>2, <2>3, <2>4, <1>f DEF Sound, RecordsWhatItTold
  <2> QED BY <1>0, <1>s, <2>1, <2>2, <2>5, <2>6, SoundAfter DEF Becomes, Sound
<1>11. ASSUME NEW w \in Worker, CommitDigest(w) PROVE JobsSound'
  <2>1. Becomes(w, [Idle EXCEPT !.at = "idle"])
    BY <1>0, <1>11, AfterEnd DEF Ends
  <2>2. SparesOthers(w)
    BY <1>11, InsertSpares DEF CommitDigest, Refused
  <2> QED BY <1>0, <2>1, <2>2, EndedIsSound, SoundAfter DEF Becomes
<1>12. ASSUME NEW w \in Worker, NEW at \in {"idle", "down"}, Ends(w, at), UNCHANGED delivery
       PROVE  JobsSound'
  <2>1. Becomes(w, [Idle EXCEPT !.at = at])
    BY <1>0, <1>12, AfterEnd
  <2> QED BY <1>0, <1>s, <1>12, <2>1, EndedIsSound, SoundAfter DEF Becomes
<1>13. ASSUME UNCHANGED job, \A w \in Worker : \A r \in LockedRows(w) :
                                 /\ delivery'[r].status = delivery[r].status
                                 /\ delivery'[r].attempts = delivery[r].attempts
       PROVE  JobsSound'
  BY <1>0, <1>13 DEF JobsSound, Unsent, TriesOpenRows, RecordsWhatItTold, TellsOnce,
                     LockedRows
<1>14. ASSUME NEW r \in Row, FallDue(r) PROVE JobsSound'
  BY <1>0, <1>13, <1>14 DEF FallDue, TypeOK, LockedRows
<1>15. ASSUME NEW n \in Note, Delete(n) PROVE JobsSound'
  <2>1. ASSUME NEW w \in Worker, NEW r \in LockedRows(w) PROVE delivery'[r] = delivery[r]
    <3>1. r \in Row
      BY <1>0 DEF LockedRows, TypeOK
    <3>2. r[1] # n
      BY <1>15, <3>1, Rows DEF Delete
    <3> QED BY <1>15, <3>1, <3>2 DEF Delete
  <2> QED BY <1>13, <1>15, <2>1 DEF Delete
<1>16. CASE UNCHANGED <<job, delivery>>
  BY <1>13, <1>16
<1>17. ASSUME NEW w \in Worker, Fail(w) \/ Die(w) \/ Restart(w) PROVE JobsSound'
  <2>1. CASE Fail(w)
    BY <1>12, <2>1 DEF Fail, Ends, RollBack
  <2>2. CASE Die(w)
    BY <1>12, <2>2 DEF Die, Ends, RollBack
  <2>3. CASE Restart(w)
    BY <1>12, <2>3 DEF Restart, Ends
  <2> QED BY <1>17, <2>1, <2>2, <2>3
<1>18. ASSUME NEW u \in User, \/ \E p \in Preference : PatchPreferences(u, p)
                              \/ RegisterSubscription(u) \/ RevokeSubscription(u)
       PROVE  JobsSound'
  BY <1>16, <1>18 DEF PatchPreferences, RegisterSubscription, RevokeSubscription
<1>19. ASSUME NEW n \in Note, Create(n) \/ Age(n) PROVE JobsSound'
  BY <1>16, <1>19 DEF Create, Age
<1>20. CASE UNCHANGED vars
  BY <1>16, <1>20 DEF vars
<1> QED BY <1>1, <1>2, <1>3, <1>4, <1>5, <1>6, <1>7, <1>8, <1>9, <1>10, <1>11,
           <1>14, <1>15, <1>17, <1>18, <1>19, <1>20
        DEF Next, JobStep
-----------------------------------------------------------------------------
(* Counts.                                                                 *)

\* A step of one worker changes the senders of a row by that worker at most.
LEMMA SendersAfter ==
    ASSUME NEW w \in Worker, \A v \in Worker \ {w} : job'[v] = job[v], NEW r \in Row
    PROVE  /\ Cardinality(Senders(r)) \in Nat /\ Cardinality(Senders(r))' \in Nat
           /\ (r \in Sent(w)') = (r \in Sent(w))
                => Cardinality(Senders(r))' = Cardinality(Senders(r))
           /\ r \in Sent(w)' /\ r \notin Sent(w)
                => Cardinality(Senders(r))' = Cardinality(Senders(r)) + 1
           /\ r \notin Sent(w)' /\ r \in Sent(w)
                => Cardinality(Senders(r))' = Cardinality(Senders(r)) - 1
<1>1. Senders(r) \subseteq Worker /\ Senders(r)' \subseteq Worker
  BY DEF Senders
<1>2. \A v \in Worker \ {w} : v \in Senders(r)' <=> v \in Senders(r)
  BY DEF Senders, Sent
<1>3. /\ w \in Senders(r) <=> r \in Sent(w)
      /\ w \in Senders(r)' <=> r \in Sent(w)'
  BY DEF Senders
<1>4. Cardinality(Senders(r)) \in Nat /\ Cardinality(Senders(r))' \in Nat
  BY <1>1, Counted
<1>5. ASSUME (r \in Sent(w)') = (r \in Sent(w))
      PROVE  Cardinality(Senders(r))' = Cardinality(Senders(r))
  <2>1. Senders(r)' = Senders(r)
    BY <1>1, <1>2, <1>3, <1>5
  <2> QED BY <2>1
<1>6. ASSUME r \in Sent(w)', r \notin Sent(w)
      PROVE  Cardinality(Senders(r))' = Cardinality(Senders(r)) + 1
  <2>1. Senders(r)' = Senders(r) \cup {w} /\ w \notin Senders(r)
    BY <1>1, <1>2, <1>3, <1>6
  <2> QED BY <1>1, <2>1, OneMore
<1>7. ASSUME r \notin Sent(w)', r \in Sent(w)
      PROVE  Cardinality(Senders(r))' = Cardinality(Senders(r)) - 1
  <2>1. Senders(r)' = Senders(r) \ {w} /\ w \in Senders(r)
    BY <1>1, <1>2, <1>3, <1>7
  <2> QED BY <1>1, <2>1, OneLess
<1> QED BY <1>4, <1>5, <1>6, <1>7

\* Books stay in order when the worker sends nothing and nothing is recorded.
LEMMA BooksKept ==
    ASSUME IInv, NEW w \in Worker, \A v \in Worker \ {w} : job'[v] = job[v],
           \A r \in Row : /\ (r \in Sent(w)') = (r \in Sent(w))
                          /\ standing'[r] = standing[r]
                          /\ note'[r[1]] # "deleted" =>
                                 note[r[1]] # "deleted" /\ OnRecord(r)' = OnRecord(r)
    PROVE  Books'
<1> SUFFICES ASSUME NEW r \in Row
             PROVE  /\ standing'[r] >= Cardinality(Senders(r))'
                    /\ note'[r[1]] # "deleted" =>
                         standing'[r] = Cardinality(Senders(r))' + OnRecord(r)'
  BY DEF Books
<1>1. Cardinality(Senders(r))' = Cardinality(Senders(r))
  BY SendersAfter
<1> QED BY <1>1 DEF IInv, Books

\* The same for a step of no worker.
LEMMA BooksKeptByOthers ==
    ASSUME IInv, UNCHANGED <<job, standing>>,
           \A r \in Row : note'[r[1]] # "deleted" =>
                              note[r[1]] # "deleted" /\ OnRecord(r)' = OnRecord(r)
    PROVE  Books'
<1> SUFFICES ASSUME NEW r \in Row
             PROVE  /\ standing'[r] >= Cardinality(Senders(r))'
                    /\ note'[r[1]] # "deleted" =>
                         standing'[r] = Cardinality(Senders(r))' + OnRecord(r)'
  BY DEF Books
<1>1. Senders(r)' = Senders(r)
  BY DEF Senders, Sent
<1> QED BY <1>1 DEF IInv, Books

\* A worker that has not sent anything stays so.
LEMMA NothingSent ==
    ASSUME IInv, NEW w \in Worker, job[w].at \notin {"deliver", "digest", "send"}
    PROVE  Sent(w) = {}
BY DEF IInv, JobsSound, Unsent, Sent

LEMMA NothingSentAfterEnd ==
    ASSUME NEW w \in Worker, NEW at, Becomes(w, [Idle EXCEPT !.at = at])
    PROVE  Sent(w)' = {}
BY DEF Becomes, Idle, NoResults, Sent

LEMMA BooksStep == IInv /\ [Next]_vars => Books'
<1> SUFFICES ASSUME IInv, [Next]_vars PROVE Books'
  OBVIOUS
<1>0. TypeOK /\ JobsSound /\ Books
  BY DEF IInv
<1>f. ASSUME NEW w \in Worker PROVE job[w] \in JobType /\ Sound(w)
  BY <1>0, JobFields DEF JobsSound, Sound
<1>1. ASSUME NEW w \in Worker, Scan(w) PROVE Books'
  <2>1. PICK N \in SUBSET Note : Becomes(w, [Idle EXCEPT !.at = "scan", !.notes = N])
    BY <1>0, <1>1, AfterScan
  <2>2. Sent(w)' = Sent(w)
    BY <1>1, <2>1 DEF Becomes, Idle, NoResults, Sent, Scan
  <2> QED BY <1>1, <2>1, <2>2, BooksKept DEF Becomes, Scan, OnRecord
<1>2. ASSUME NEW w \in Worker, Lock(w) PROVE Books'
  <2>1. PICK N \in SUBSET job[w].notes, U \in SUBSET User :
          Becomes(w, [job[w] EXCEPT !.at = "dispatch", !.notes = N, !.users = U])
    BY <1>0, <1>2, AfterLock
  <2>2. Sent(w)' = Sent(w)
    BY <1>f, <2>1 DEF Becomes, JobType, Sent
  <2> QED BY <1>2, <2>1, <2>2, BooksKept DEF Becomes, Lock, OnRecord
<1>3. ASSUME NEW w \in Worker, NEW u \in User, DispatchFor(w, u) PROVE Books'
  <2>1. PICK R \in SUBSET Row : Becomes(w, [job[w] EXCEPT !.users = @ \ {u}, !.rows = R])
    BY <1>0, <1>3, AfterDispatchFor
  <2>2. Sent(w)' = Sent(w)
    BY <1>f, <2>1 DEF Becomes, JobType, Sent
  <2> QED BY <1>3, <2>1, <2>2, BooksKept DEF Becomes, DispatchFor, OnRecord
<1>4. ASSUME NEW w \in Worker, CommitDispatch(w) PROVE Books'
  <2>1. Becomes(w, [Idle EXCEPT !.at = "due"])
    BY <1>0, <1>4, AfterEnd DEF Ends
  <2>2. Sent(w)' = Sent(w)
    BY <1>4, <2>1, NothingSent, NothingSentAfterEnd DEF CommitDispatch
  <2>3. \A r \in Row : OnRecord(r)' = OnRecord(r)
    BY <1>4 DEF CommitDispatch, DispatchClash, Refused, OnRecord, NoRow, Pending
  <2> QED BY <1>4, <2>1, <2>2, <2>3, BooksKept DEF Becomes, CommitDispatch
<1>5. ASSUME NEW w \in Worker, SelectDue(w) PROVE Books'
  <2>1. PICK R \in SUBSET Row : Becomes(w, [job[w] EXCEPT !.at = "deliver", !.rows = R])
    BY <1>0, <1>5, AfterSelectDue
  <2>2. Sent(w)' = Sent(w)
    BY <1>f, <2>1 DEF Becomes, JobType, Sent
  <2> QED BY <1>5, <2>1, <2>2, BooksKept DEF Becomes, SelectDue, OnRecord
<1>6. ASSUME NEW w \in Worker, NEW q \in Row, NEW result \in Results, Attempt(w, q, result)
      PROVE  Books'
  <2>1. Becomes(w, [job[w] EXCEPT !.results = [@ EXCEPT ![q] = result]])
    BY <1>0, <1>6, AfterAttempt
  <2>2. \A r \in Row : r \in Sent(w)' <=> IF r = q THEN result = "sent" ELSE r \in Sent(w)
    BY <1>f, <2>1 DEF Becomes, JobType, Sent
  <2>3. q \notin Sent(w)
    BY <1>6 DEF Attempt, Sent
  <2> SUFFICES ASSUME NEW r \in Row
               PROVE  /\ standing'[r] >= Cardinality(Senders(r))'
                      /\ note'[r[1]] # "deleted" =>
                           standing'[r] = Cardinality(Senders(r))' + OnRecord(r)'
    BY DEF Books
  <2>4. /\ OnRecord(r)' = OnRecord(r) /\ UNCHANGED note
        /\ standing'[r] = IF r = q /\ result = "sent" THEN standing[r] + 1 ELSE standing[r]
    BY <1>0, <1>6 DEF Attempt, OnRecord, TypeOK
  <2>5. standing[r] \in Nat /\ OnRecord(r) \in Nat
    BY <1>0 DEF TypeOK, OnRecord
  <2>6. CASE r = q /\ result = "sent"
    <3>1. Cardinality(Senders(r))' = Cardinality(Senders(r)) + 1
          /\ Cardinality(Senders(r)) \in Nat
      BY <2>1, <2>2, <2>3, <2>6, SendersAfter DEF Becomes
    <3> QED BY <1>0, <2>4, <2>5, <2>6, <3>1 DEF Books
  <2>7. CASE ~(r = q /\ result = "sent")
    <3>1. Cardinality(Senders(r))' = Cardinality(Senders(r))
      BY <2>1, <2>2, <2>3, <2>7, SendersAfter DEF Becomes
    <3> QED BY <1>0, <2>4, <2>7, <3>1 DEF Books
  <2> QED BY <2>6, <2>7
<1>7. ASSUME NEW w \in Worker, CommitDeliveries(w) PROVE Books'
  <2>1. Becomes(w, [Idle EXCEPT !.at = "idle"])
    BY <1>0, <1>7, AfterEnd DEF Ends
  <2>2. Sent(w)' = {}
    BY <2>1, NothingSentAfterEnd
  <2>3. Sent(w) \subseteq job[w].rows
    BY <1>7, <1>f DEF CommitDeliveries, Sound, TriesOpenRows, Sent
  <2> SUFFICES ASSUME NEW r \in Row
               PROVE  /\ standing'[r] >= Cardinality(Senders(r))'
                      /\ note'[r[1]] # "deleted" =>
                           standing'[r] = Cardinality(Senders(r))' + OnRecord(r)'
    BY DEF Books
  <2>4. UNCHANGED <<note, standing>> /\ standing[r] \in Nat
    BY <1>0, <1>7 DEF CommitDeliveries, TypeOK
  <2>5. CASE r \in Sent(w)
    <3>1. OnRecord(r)' = 1
      BY <1>7, <2>3, <2>5 DEF CommitDeliveries, Sent, Tried, OnRecord
    <3>2. OnRecord(r) = 0
      BY <1>7, <1>f, <2>3, <2>5 DEF CommitDeliveries, Sound, TriesOpenRows, OnRecord
    <3>3. Cardinality(Senders(r))' = Cardinality(Senders(r)) - 1
          /\ Cardinality(Senders(r)) \in Nat
      BY <2>1, <2>2, <2>5, SendersAfter DEF Becomes
    <3> QED BY <1>0, <2>4, <3>1, <3>2, <3>3 DEF Books
  <2>6. CASE r \notin Sent(w)
    <3>1. OnRecord(r)' = OnRecord(r)
      <4>1. CASE r \in job[w].rows
        <5>1. job[w].results[r] # "sent"
          BY <2>6 DEF Sent
        <5>2. delivery'[r].status # "sent"
          BY <1>7, <4>1, <5>1 DEF CommitDeliveries, Tried
        <5>3. delivery[r].status # "sent"
          BY <1>7, <1>f, <4>1 DEF CommitDeliveries, Sound, TriesOpenRows
        <5> QED BY <5>2, <5>3 DEF OnRecord
      <4>2. CASE r \notin job[w].rows
        BY <1>7, <4>2 DEF CommitDeliveries, OnRecord
      <4> QED BY <4>1, <4>2
    <3>2. Cardinality(Senders(r))' = Cardinality(Senders(r))
      BY <2>1, <2>2, <2>6, SendersAfter DEF Becomes
    <3> QED BY <1>0, <2>4, <3>1, <3>2 DEF Books
  <2> QED BY <2>5, <2>6
<1>8. ASSUME NEW w \in Worker, NEW f \in {"hourly", "daily"}, StartDigest(w, f) PROVE Books'
  <2>1. PICK U \in SUBSET User : Becomes(w, [Idle EXCEPT !.at = "digest", !.users = U])
    BY <1>0, <1>8, AfterStartDigest
  <2>2. Sent(w)' = Sent(w)
    BY <1>8, <2>1 DEF Becomes, Idle, NoResults, Sent, StartDigest
  <2> QED BY <1>8, <2>1, <2>2, BooksKept DEF Becomes, StartDigest, OnRecord
<1>9. ASSUME NEW w \in Worker, NEW u \in User, ReadCandidates(w, u) PROVE Books'
  <2>1. PICK N \in SUBSET Note, at \in {"digest", "send"} :
          Becomes(w, [job[w] EXCEPT !.users = @ \ {u}, !.notes = N, !.at = at])
    BY <1>0, <1>9, AfterReadCandidates
  <2>2. Sent(w)' = Sent(w)
    BY <1>f, <2>1 DEF Becomes, JobType, Sent
  <2> QED BY <1>9, <2>1, <2>2, BooksKept DEF Becomes, ReadCandidates, OnRecord
<1>10. ASSUME NEW w \in Worker, NEW delivered \in BOOLEAN, SendDigest(w, delivered)
       PROVE  Books'
  <2> DEFINE R == NewRows(w, delivered)
  <2>1. /\ R \subseteq Row
        /\ Becomes(w, [job[w] EXCEPT !.at = "digest", !.notes = {}, !.rows = @ \cup R,
                         !.results = [r \in Row |-> IF r \in R THEN "sent" ELSE @[r]]])
    BY <1>0, <1>10, AfterSendDigest
  <2>2. job[w].at = "send" /\ UNCHANGED <<note, delivery>>
    BY <1>10 DEF SendDigest
  <2>3. \A r \in R : r \notin Sent(w)
    <3> SUFFICES ASSUME NEW r \in R PROVE r \notin Sent(w)
      OBVIOUS
    <3>1. r[1] \in job[w].notes /\ r = <<r[1], "email">> /\ r \in Row
      BY <2>1, <1>f, EmailRows DEF NewRows, Recorded, JobType
    <3>2. r \notin job[w].rows
      BY <3>1, <2>2, <1>f DEF Sound, TellsOnce
    <3> QED BY <3>1, <3>2, <2>2, <1>f DEF Sound, RecordsWhatItTold, Sent
  <2>4. \A r \in Row : standing'[r] = IF r \in R THEN standing[r] + 1 ELSE standing[r]
    BY <1>10 DEF SendDigest, NewRows, Recorded
  <2> HIDE DEF R
  <2>5. \A r \in Row : r \in Sent(w)' <=> r \in R \/ r \in Sent(w)
    BY <1>f, <2>1 DEF Becomes, JobType, Sent
  <2> SUFFICES ASSUME NEW r \in Row
               PROVE  /\ standing'[r] >= Cardinality(Senders(r))'
                      /\ note'[r[1]] # "deleted" =>
                           standing'[r] = Cardinality(Senders(r))' + OnRecord(r)'
    BY DEF Books
  <2>6. OnRecord(r)' = OnRecord(r) /\ OnRecord(r) \in Nat /\ standing[r] \in Nat
    BY <1>0, <2>2 DEF OnRecord, TypeOK
  <2>7. CASE r \in R
    <3>1. Cardinality(Senders(r))' = Cardinality(Senders(r)) + 1
          /\ Cardinality(Senders(r)) \in Nat
      BY <2>1, <2>3, <2>5, <2>7, SendersAfter DEF Becomes
    <3> QED BY <1>0, <2>2, <2>4, <2>6, <2>7, <3>1 DEF Books
  <2>8. CASE r \notin R
    <3>1. Cardinality(Senders(r))' = Cardinality(Senders(r))
      BY <2>1, <2>5, <2>8, SendersAfter DEF Becomes
    <3> QED BY <1>0, <2>2, <2>4, <2>6, <2>8, <3>1 DEF Books
  <2> QED BY <2>7, <2>8
<1>11. ASSUME NEW w \in Worker, CommitDigest(w) PROVE Books'
  <2>1. Becomes(w, [Idle EXCEPT !.at = "idle"])
    BY <1>0, <1>11, AfterEnd DEF Ends
  <2>2. Sent(w)' = {}
    BY <2>1, NothingSentAfterEnd
  <2>3. \A r \in Row : r \in Sent(w) <=> r \in job[w].rows
    BY <1>11, <1>f DEF CommitDigest, Sound, RecordsWhatItTold, Sent
  <2> SUFFICES ASSUME NEW r \in Row
               PROVE  /\ standing'[r] >= Cardinality(Senders(r))'
                      /\ note'[r[1]] # "deleted" =>
                           standing'[r] = Cardinality(Senders(r))' + OnRecord(r)'
    BY DEF Books
  <2>4. UNCHANGED <<note, standing>> /\ standing[r] \in Nat
    BY <1>0, <1>11 DEF CommitDigest, TypeOK
  <2>5. CASE r \in Sent(w)
    <3>1. OnRecord(r)' = 1 /\ OnRecord(r) = 0
      BY <1>11, <2>3, <2>5 DEF CommitDigest, Refused, NoRow, Digested, OnRecord
    <3>2. Cardinality(Senders(r))' = Cardinality(Senders(r)) - 1
          /\ Cardinality(Senders(r)) \in Nat
      BY <2>1, <2>2, <2>5, SendersAfter DEF Becomes
    <3> QED BY <1>0, <2>4, <3>1, <3>2 DEF Books
  <2>6. CASE r \notin Sent(w)
    <3>1. OnRecord(r)' = OnRecord(r)
      BY <1>11, <2>3, <2>6 DEF CommitDigest, OnRecord
    <3>2. Cardinality(Senders(r))' = Cardinality(Senders(r))
      BY <2>1, <2>2, <2>6, SendersAfter DEF Becomes
    <3> QED BY <1>0, <2>4, <3>1, <3>2 DEF Books
  <2> QED BY <2>5, <2>6
<1>12. ASSUME NEW w \in Worker, NEW at \in {"idle", "down"}, RollBack(w, at) PROVE Books'
  <2>1. Becomes(w, [Idle EXCEPT !.at = at])
    BY <1>0, <1>12, AfterEnd DEF Ends
  <2>2. Sent(w)' = {}
    BY <2>1, NothingSentAfterEnd
  <2> SUFFICES ASSUME NEW r \in Row
               PROVE  /\ standing'[r] >= Cardinality(Senders(r))'
                      /\ note'[r[1]] # "deleted" =>
                           standing'[r] = Cardinality(Senders(r))' + OnRecord(r)'
    BY DEF Books
  <2>3. /\ UNCHANGED note /\ OnRecord(r)' = OnRecord(r) /\ OnRecord(r) \in Nat
        /\ standing'[r] = IF r \in Sent(w) THEN standing[r] - 1 ELSE standing[r]
        /\ standing[r] \in Nat
    BY <1>0, <1>12 DEF RollBack, TypeOK, OnRecord
  <2>4. CASE r \in Sent(w)
    <3>1. Cardinality(Senders(r))' = Cardinality(Senders(r)) - 1
          /\ Cardinality(Senders(r)) \in Nat
      BY <2>1, <2>2, <2>4, SendersAfter DEF Becomes
    <3> QED BY <1>0, <2>3, <2>4, <3>1 DEF Books
  <2>5. CASE r \notin Sent(w)
    <3>1. Cardinality(Senders(r))' = Cardinality(Senders(r))
      BY <2>1, <2>2, <2>5, SendersAfter DEF Becomes
    <3> QED BY <1>0, <2>3, <2>5, <3>1 DEF Books
  <2> QED BY <2>4, <2>5
<1>13. ASSUME NEW w \in Worker, Fail(w) \/ Die(w) \/ Restart(w) PROVE Books'
  <2>1. CASE Fail(w)
    BY <1>12, <2>1 DEF Fail
  <2>2. CASE Die(w)
    BY <1>12, <2>2 DEF Die
  <2>3. CASE Restart(w)
    <3>1. Becomes(w, [Idle EXCEPT !.at = "idle"])
      BY <1>0, <2>3, AfterEnd DEF Ends
    <3>2. Sent(w)' = Sent(w)
      BY <2>3, <3>1, NothingSent, NothingSentAfterEnd DEF Restart
    <3> QED BY <2>3, <3>1, <3>2, BooksKept DEF Becomes, Restart, OnRecord
  <2> QED BY <1>13, <2>1, <2>2, <2>3
<1>14. ASSUME NEW q \in Row, FallDue(q) PROVE Books'
  <2>1. \A r \in Row : OnRecord(r)' = OnRecord(r)
    BY <1>0, <1>14 DEF FallDue, TypeOK, OnRecord
  <2> QED BY <1>14, <2>1, BooksKeptByOthers DEF FallDue
<1>15. ASSUME NEW n \in Note, Create(n) \/ Age(n) PROVE Books'
  <2>1. \A r \in Row : OnRecord(r)' = OnRecord(r) /\ r[1] \in Note
    BY <1>15, Rows DEF Create, Age, OnRecord
  <2>2. \A m \in Note : note'[m] # "deleted" => note[m] # "deleted"
    BY <1>0, <1>15 DEF Create, Age, TypeOK
  <2> QED BY <1>15, <2>1, <2>2, BooksKeptByOthers DEF Create, Age
<1>16. ASSUME NEW n \in Note, Delete(n) PROVE Books'
  <2>1. ASSUME NEW r \in Row, note'[r[1]] # "deleted"
        PROVE  note[r[1]] # "deleted" /\ OnRecord(r)' = OnRecord(r)
    <3>1. r[1] \in Note /\ r[1] # n
      BY <1>0, <1>16, <2>1, Rows DEF Delete, TypeOK
    <3> QED BY <1>0, <1>16, <2>1, <3>1 DEF Delete, TypeOK, OnRecord
  <2> QED BY <1>16, <2>1, BooksKeptByOthers DEF Delete
<1>17. ASSUME NEW u \in User, \/ \E p \in Preference : PatchPreferences(u, p)
                              \/ RegisterSubscription(u) \/ RevokeSubscription(u)
       PROVE  Books'
  BY <1>17, BooksKeptByOthers DEF PatchPreferences, RegisterSubscription,
         RevokeSubscription, OnRecord
<1>18. CASE UNCHANGED vars
  BY <1>18, BooksKeptByOthers DEF vars, OnRecord
<1> QED BY <1>1, <1>2, <1>3, <1>4, <1>5, <1>6, <1>7, <1>8, <1>9, <1>10, <1>11, <1>13,
           <1>14, <1>15, <1>16, <1>17, <1>18
        DEF Next, JobStep
-----------------------------------------------------------------------------
(* Theorems.                                                               *)

LEMMA Inductive == Spec => []IInv
<1>1. IInv /\ [Next]_vars => IInv'
  BY TypeStep, JobsStep, LocksStep, BooksStep DEF IInv
<1> QED BY InitInv, <1>1, PTL DEF Spec

(* Types, and with them the bound of three attempts on every row: however  *)
(* many workers run, none tries a row another one has in its hands.        *)
THEOREM TypeCorrect == Spec => []TypeOK
<1>1. IInv => TypeOK
  BY DEF IInv
<1> QED BY Inductive, <1>1, PTL

(* Every send that stands is on record or belongs to one open transaction: *)
(* no row is sent twice, and none is recorded that was not sent.           *)
THEOREM EverySendAccounted == Spec => []Accounted
<1>1. IInv => Accounted
  BY DEF IInv, Books, Accounted, OnRecord
<1> QED BY Inductive, <1>1, PTL

-----------------------------------------------------------------------------
(* The pipeline implements the contract of a delivery table.               *)

Table == [r \in Row |-> [status |-> delivery[r].status, attempts |-> delivery[r].attempts]]
Removed == {r \in Row : note[r[1]] = "deleted"}

\* Rows that change in the way of a step of one row, with none removed.
LEMMA RowsStep ==
    ASSUME UNCHANGED Removed,
           \A r \in Row : \/ Table'[r] = Table[r]
                          \/ r \notin Removed /\ Deliveries!Created(Table[r], Table'[r])
                          \/ Deliveries!Attempted(Table[r], Table'[r])
    PROVE  Deliveries!Next
<1>1. Table' = [r \in Row |-> Table'[r]]
  BY DEF Table
<1>2. Table' \in [Row -> {Table'[r] : r \in Row}]
  BY <1>1
<1> QED BY <1>2 DEF Deliveries!Next, Table, Removed

LEMMA ContractStep == IInv /\ [Next]_vars => [Deliveries!Next]_(Deliveries!vars)
<1> SUFFICES ASSUME IInv, [Next]_vars PROVE Deliveries!Next \/ UNCHANGED <<Table, Removed>>
  BY DEF Deliveries!vars, Table, Removed
<1>0. TypeOK /\ JobsSound
  BY DEF IInv
<1>1. ASSUME NEW w \in Worker, CommitDispatch(w) PROVE Deliveries!Next
  <2>1. ASSUME NEW r \in Row, r \in job[w].rows
        PROVE  r \notin Removed /\ Deliveries!Created(Table[r], Table'[r])
    BY <1>1, <2>1 DEF CommitDispatch, DispatchClash, Refused, NoRow, Pending, Stored,
                      Table, Removed, Deliveries!Created, Deliveries!Absent
  <2>2. ASSUME NEW r \in Row, r \notin job[w].rows PROVE Table'[r] = Table[r]
    BY <1>1, <2>2 DEF CommitDispatch, Table
  <2>3. UNCHANGED Removed
    BY <1>1 DEF CommitDispatch, Removed
  <2> QED BY <2>1, <2>2, <2>3, RowsStep
<1>2. ASSUME NEW w \in Worker, CommitDigest(w) PROVE Deliveries!Next
  <2>1. ASSUME NEW r \in Row, r \in job[w].rows
        PROVE  r \notin Removed /\ Deliveries!Created(Table[r], Table'[r])
    BY <1>2, <2>1 DEF CommitDigest, Refused, NoRow, Digested, Stored,
                      Table, Removed, Deliveries!Created, Deliveries!Absent
  <2>2. ASSUME NEW r \in Row, r \notin job[w].rows PROVE Table'[r] = Table[r]
    BY <1>2, <2>2 DEF CommitDigest, Table
  <2>3. UNCHANGED Removed
    BY <1>2 DEF CommitDigest, Removed
  <2> QED BY <2>1, <2>2, <2>3, RowsStep
<1>3. ASSUME NEW w \in Worker, CommitDeliveries(w) PROVE Deliveries!Next
  <2>1. ASSUME NEW r \in Row, r \in job[w].rows
        PROVE  Deliveries!Attempted(Table[r], Table'[r])
    <3>1. /\ delivery[r].status \in {"pending", "failed"}
          /\ delivery[r].attempts < MaxAttempts
      BY <1>0, <1>3, <2>1 DEF CommitDeliveries, JobsSound, TriesOpenRows
    <3>2. job[w].results[r] \in Results
      BY <1>0, <1>3, <2>1 DEF CommitDeliveries, TypeOK
    <3>3. delivery'[r] = Tried(delivery[r], job[w].results[r])
      BY <1>3, <2>1 DEF CommitDeliveries
    <3> QED BY <3>1, <3>2, <3>3
            DEF Tried, Results, Table, Deliveries!Attempted, Deliveries!Open
  <2>2. ASSUME NEW r \in Row, r \notin job[w].rows PROVE Table'[r] = Table[r]
    BY <1>3, <2>2 DEF CommitDeliveries, Table
  <2>3. UNCHANGED Removed
    BY <1>3 DEF CommitDeliveries, Removed
  <2> QED BY <2>1, <2>2, <2>3, RowsStep
<1>4. ASSUME NEW n \in Note, Delete(n) PROVE Deliveries!Next
  <2> DEFINE gone == {r \in Row : r[1] = n}
  <2>1. Removed' = Removed \cup gone
    BY <1>0, <1>4, Rows DEF Delete, Removed, TypeOK
  <2>2. Table' = [r \in Row |-> IF r \in gone THEN Deliveries!Absent ELSE Table[r]]
    BY <1>4 DEF Delete, Table, NoRow, Deliveries!Absent
  <2> HIDE DEF gone
  <2>3. gone \in SUBSET Row
    BY DEF gone
  <2> QED BY <2>1, <2>2, <2>3 DEF Deliveries!Next, Table, Removed
<1>5. ASSUME NEW q \in Row, FallDue(q) PROVE UNCHANGED <<Table, Removed>>
  BY <1>0, <1>5 DEF FallDue, Table, Removed, TypeOK
<1>6. ASSUME NEW n \in Note, Create(n) \/ Age(n) PROVE UNCHANGED <<Table, Removed>>
  <2>1. \A m \in Note : note'[m] = "deleted" <=> note[m] = "deleted"
    BY <1>0, <1>6 DEF Create, Age, TypeOK
  <2>2. UNCHANGED delivery
    BY <1>6 DEF Create, Age
  <2> QED BY <2>1, <2>2, Rows DEF Table, Removed
<1>7. CASE UNCHANGED <<note, delivery>>
  BY <1>7 DEF Table, Removed
<1>8. ASSUME NEW w \in Worker,
             \/ Scan(w) \/ Lock(w) \/ SelectDue(w) \/ Fail(w) \/ Die(w) \/ Restart(w)
             \/ \E u \in User : DispatchFor(w, u) \/ ReadCandidates(w, u)
             \/ \E r \in Row, result \in Results : Attempt(w, r, result)
             \/ \E delivered \in BOOLEAN : SendDigest(w, delivered)
             \/ \E f \in {"hourly", "daily"} : StartDigest(w, f)
      PROVE  UNCHANGED <<note, delivery>>
  BY <1>8 DEF Scan, Lock, SelectDue, Fail, Die, Restart, RollBack, DispatchFor,
              ReadCandidates, Attempt, SendDigest, StartDigest
<1>9. ASSUME NEW u \in User, \/ \E p \in Preference : PatchPreferences(u, p)
                             \/ RegisterSubscription(u) \/ RevokeSubscription(u)
      PROVE  UNCHANGED <<note, delivery>>
  BY <1>9 DEF PatchPreferences, RegisterSubscription, RevokeSubscription
<1> QED BY <1>1, <1>2, <1>3, <1>4, <1>5, <1>6, <1>7, <1>8, <1>9 DEF Next, JobStep, vars

(* Whatever the workers and users do, a delivery is opened once, every     *)
(* attempt on it is counted, three at most, and its end is final.          *)
THEOREM Implements == Spec => ImplementsContract
<1>1. Init => Deliveries!Init
  BY Rows DEF Init, NoRow, Deliveries!Init, Deliveries!Absent
<1> QED BY Inductive, <1>1, ContractStep, PTL DEF Spec, ImplementsContract, Deliveries!Spec
=============================================================================
