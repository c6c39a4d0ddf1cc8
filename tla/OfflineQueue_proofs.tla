------------------------ MODULE OfflineQueue_proofs -------------------------
(***************************************************************************)
(* Proofs about OfflineQueue: for any number of users, changes and calls   *)
(* in progress, whatever the network answers and whenever users sign out,  *)
(* only a call that another one, or another account, has overtaken does    *)
(* harm to the stored lists.                                               *)
(***************************************************************************)
EXTENDS OfflineQueue, SequenceTheorems, TLAPS

-----------------------------------------------------------------------------
(* Lists of items and what the methods do to them.                         *)

\* A change is in a list at some position.
LEMMA HasAt ==
    ASSUME NEW list \in Seq(Item), NEW m
    PROVE  Has(list, m) <=> \E i \in 1..Len(list) : list[i].id = m
BY DEF Has, Members, Ids

LEMMA HasMutation ==
    ASSUME NEW list \in Seq(Item), NEW m, Has(list, m)
    PROVE  m \in Mutation /\ list # <<>>
<1>1. PICK i \in 1..Len(list) : list[i].id = m
  BY HasAt
<1>2. list[i] \in Item /\ Len(list) # 0
  OBVIOUS
<1> QED BY <1>1, <1>2 DEF Item

\* The ids of a list are distinct.
LEMMA Distinct ==
    ASSUME NEW list \in Seq(Item)
    PROVE  IsInjective(Ids(list))
             <=> \A i, j \in 1..Len(list) : list[i].id = list[j].id => i = j
BY DEF IsInjective, Ids

\* A change that is put at the end of a list that does not have it.
LEMMA AppendItem ==
    ASSUME NEW list \in Seq(Item), NEW e \in Item
    PROVE  /\ Append(list, e) \in Seq(Item)
           /\ \A m : Has(Append(list, e), m) <=> Has(list, m) \/ m = e.id
           /\ IsInjective(Ids(list)) /\ ~Has(list, e.id) => IsInjective(Ids(Append(list, e)))
           /\ Ids(Append(list, e)) = Append(Ids(list), e.id)
<1> DEFINE new == Append(list, e)
<1>1. /\ new \in Seq(Item) /\ Len(new) = Len(list) + 1 /\ Len(list) \in Nat
      /\ \A i \in 1..Len(list) : new[i] = list[i]
      /\ new[Len(list) + 1] = e
  OBVIOUS
<1> HIDE DEF new
<1>2. \A m : Has(new, m) <=> Has(list, m) \/ m = e.id
  <2> SUFFICES ASSUME NEW m PROVE Has(new, m) <=> Has(list, m) \/ m = e.id
    OBVIOUS
  <2>1. (\E i \in 1..Len(new) : new[i].id = m)
          <=> (\E i \in 1..Len(list) : list[i].id = m) \/ m = e.id
    BY <1>1
  <2> QED BY <1>1, HasAt
<1>3. IsInjective(Ids(list)) /\ ~Has(list, e.id) => IsInjective(Ids(new))
  BY <1>1, HasAt, Distinct
<1>4. Ids(new) = Append(Ids(list), e.id)
  BY <1>1 DEF Ids, new
<1> QED BY <1>1, <1>2, <1>3, <1>4 DEF new

\* What RemoveAt keeps.
LEMMA RemovedAt ==
    ASSUME NEW S, NEW list \in Seq(S), NEW at \in 1..Len(list)
    PROVE  /\ RemoveAt(list, at) \in Seq(S)
           /\ Len(RemoveAt(list, at)) = Len(list) - 1
           /\ \A i \in 1..(Len(list) - 1) :
                RemoveAt(list, at)[i] = list[IF i < at THEN i ELSE i + 1]
<1> DEFINE front == SubSeq(list, 1, at - 1)
           back == SubSeq(list, at + 1, Len(list))
<1>1. /\ front \in Seq(S) /\ Len(front) = at - 1
      /\ \A i \in 1..(at - 1) : front[i] = list[i]
  OBVIOUS
<1>2. /\ back \in Seq(S) /\ Len(back) = Len(list) - at
      /\ \A i \in 1..(Len(list) - at) : back[i] = list[at + i]
  OBVIOUS
<1> HIDE DEF front, back
<1>3. /\ front \o back \in Seq(S) /\ Len(front \o back) = Len(front) + Len(back)
      /\ \A i \in 1..(Len(front) + Len(back)) :
            (front \o back)[i] = IF i <= Len(front) THEN front[i] ELSE back[i - Len(front)]
  BY <1>1, <1>2, ConcatProperties
<1>4. \A i \in 1..(Len(list) - 1) : (front \o back)[i] = list[IF i < at THEN i ELSE i + 1]
  BY <1>1, <1>2, <1>3
<1>5. RemoveAt(list, at) = front \o back
  BY DEF RemoveAt, front, back
<1>6. Len(front \o back) = Len(list) - 1
  BY <1>1, <1>2, <1>3
<1> QED BY <1>3, <1>4, <1>5, <1>6

\* Whatever leaves a list, a list is left.
LEMMA WithoutType ==
    ASSUME NEW list \in Seq(Item), NEW m
    PROVE  Without(list, m) \in Seq(Item)
<1>1. CASE Has(list, m)
  <2> DEFINE at == CHOOSE i \in DOMAIN list : list[i].id = m
  <2>1. at \in 1..Len(list)
    BY <1>1, HasAt
  <2> QED BY <1>1, <2>1, RemovedAt DEF Without
<1> QED BY <1>1 DEF Without

\* A change that leaves a list.
LEMMA WithoutItem ==
    ASSUME NEW list \in Seq(Item), NEW m, IsInjective(Ids(list))
    PROVE  /\ Without(list, m) \in Seq(Item)
           /\ \A n : Has(Without(list, m), n) <=> Has(list, n) /\ n # m
           /\ IsInjective(Ids(Without(list, m)))
           /\ \A i, j \in DOMAIN Without(list, m), p, q \in DOMAIN list :
                 /\ Without(list, m)[i].id = list[p].id
                 /\ Without(list, m)[j].id = list[q].id
                 /\ i < j
                 => p < q
<1>1. CASE ~Has(list, m)
  BY <1>1, Distinct DEF Without
<1>2. CASE Has(list, m)
  <2> DEFINE at == CHOOSE i \in DOMAIN list : list[i].id = m
             new == RemoveAt(list, at)
  <2>1. at \in 1..Len(list) /\ list[at].id = m
    BY <1>2, HasAt
  <2> HIDE DEF at
  <2>2. /\ new \in Seq(Item) /\ Len(new) = Len(list) - 1
        /\ \A i \in 1..(Len(list) - 1) : new[i] = list[IF i < at THEN i ELSE i + 1]
    BY <2>1, RemovedAt
  <2>3. Without(list, m) = new
    BY <1>2 DEF Without, at
  <2> HIDE DEF new
  <2>4. \A i, j \in 1..Len(list) : list[i].id = list[j].id => i = j
    BY Distinct
  <2>5. \A n : Has(new, n) <=> Has(list, n) /\ n # m
    <3> SUFFICES ASSUME NEW n PROVE Has(new, n) <=> Has(list, n) /\ n # m
      OBVIOUS
    <3>1. ASSUME Has(new, n) PROVE Has(list, n) /\ n # m
      BY <2>1, <2>2, <2>4, <3>1, HasAt
    <3>2. ASSUME Has(list, n), n # m PROVE Has(new, n)
      <4>1. PICK p \in 1..Len(list) : list[p].id = n
        BY <3>2, HasAt
      <4>2. p # at
        BY <2>1, <3>2, <4>1
      <4>3. CASE p < at
        BY <2>1, <2>2, <4>1, <4>3, HasAt
      <4>4. CASE p > at
        <5>1. p - 1 \in 1..Len(new) /\ new[p - 1].id = n
          BY <2>1, <2>2, <4>1, <4>4
        <5> QED BY <2>2, <5>1, HasAt
      <4> QED BY <2>1, <4>1, <4>2, <4>3, <4>4
    <3> QED BY <3>1, <3>2
  <2>6. IsInjective(Ids(new))
    BY <2>1, <2>2, <2>4, Distinct
  <2>7. \A i, j \in DOMAIN new, p, q \in DOMAIN list :
          new[i].id = list[p].id /\ new[j].id = list[q].id /\ i < j => p < q
    BY <2>1, <2>2, <2>4
  <2> QED BY <2>2, <2>3, <2>5, <2>6, <2>7
<1> QED BY <1>1, <1>2

\* A change that gets another status.
LEMMA StatusOfItem ==
    ASSUME NEW list \in Seq(Item), NEW m \in Mutation, NEW st \in Statuses
    PROVE  /\ WithStatus(list, m, st) \in Seq(Item)
           /\ Ids(WithStatus(list, m, st)) = Ids(list)
<1>1. WithStatus(list, m, st) \in Seq(Item)
  BY DEF WithStatus, Item, Entry
<1>2. \A i \in 1..Len(list) : WithStatus(list, m, st)[i].id = list[i].id
  BY DEF WithStatus, Item, Entry
<1>3. DOMAIN WithStatus(list, m, st) = DOMAIN list
  BY DEF WithStatus
<1> QED BY <1>1, <1>2, <1>3 DEF Ids

-----------------------------------------------------------------------------
(* The inductive invariant.                                                *)

\* list was built from the first n items of stored: what is missing is done.
Shortened(list, stored, n, done) ==
    /\ \A i \in DOMAIN list : \E p \in 1..n : list[i].id = stored[p].id
    /\ \A i, j \in DOMAIN list, p, q \in DOMAIN stored :
         list[i].id = stored[p].id /\ list[j].id = stored[q].id /\ i < j => p < q
    /\ \A p \in 1..n : Has(list, stored[p].id) \/ stored[p].id \in done

\* rest are the last items of stored.
Ends(rest, stored) ==
    /\ Len(rest) <= Len(stored)
    /\ \A i \in 1..Len(rest) : rest[i] = stored[Len(stored) - Len(rest) + i]

\* What a call is about to store, by its kind.
Revises(k, stored, done) ==
    \/ k.kind = "mutate" /\ \E st \in Statuses : k.list = Append(stored, Entry(k.id, st))
    \/ k.kind = "discard" /\ k.list = Without(stored, k.id)
    \/ k.kind \in {"retry", "apply"} /\ \E st \in Statuses : k.list = WithStatus(stored, k.id, st)
    \/ k.kind = "sync" /\ Shortened(k.list, stored, Len(stored), done)

\* The methods that are about a change.
Named == {"mutate", "discard", "retry", "apply"}

\* What holds of every call, overtaken or not.
CallFormed(k) ==
    /\ k.kind \in Named => k.id \in Mutation
    /\ k.at \in {"load", "reload"} => k.uid \in User
    /\ k.at = "replaying" => k.rest # <<>>

WellFormed == /\ TypeOK
              /\ \A s \in Slot : CallFormed(call[s])

\* Whom a call that nothing has overtaken is about.
CallOwned(k) ==
    /\ k.kind = "mutate" =>
         /\ k.id \notin accepted \cup discarded
         /\ \A u \in User : ~Has(disk[u], k.id)
    /\ k.kind \in Named => account # NoUser /\ author[k.id] = account
    /\ k.kind = "discard" => k.id \in settled

\* Where it is.
CallPlaced(k) ==
    /\ k.at \in {"request", "replay", "replaying", "persist", "write"} => SameUserLoaded
    /\ k.at \in {"load", "write"} => account # NoUser /\ queue.user = account /\ k.uid = account
    /\ k.at # "reload"
    /\ k.at = "request" => /\ k.as = account /\ k.kind \in {"mutate", "apply"}
                           /\ k.kind = "apply" => Has(disk[account], k.id)
    /\ k.at \in {"persist", "write"} => Revises(k, disk[account], settled)
    /\ k.at \in {"replay", "replaying"} =>
         /\ k.kind = "sync"
         /\ Ends(k.rest, disk[account])
         /\ Shortened(k.list, disk[account], Len(disk[account]) - Len(k.rest), settled)
    /\ k.at = "replaying" => k.as = account /\ Head(k.rest).status # "conflict"

\* The list in memory is the stored one, but while a list is read or a sync
\* has finished and not yet stored its list.
QueueLoaded ==
    \/ queue.user = NoUser
    \/ queue.loading
    \/ \E s \in Slot : Pending(call[s])
    \/ queue.items = disk[queue.user]

\* Two calls that nothing has overtaken make no change both, nor does one work
\* on the change that the other makes.
Apart == \A r, s \in Slot \ stale :
    r # s /\ call[r].kind = "mutate" /\ call[s].kind \in Named => call[r].id # call[s].id

\* What the stored lists have to do with the history.
Data == /\ OwnItemsOnly /\ NothingLost /\ DiscardedIsGone
        /\ \A m \in accepted \cup discarded : author[m] # NoUser
        /\ \A u \in User : IsInjective(Ids(disk[u]))

Sound == /\ Data
         /\ \A s \in Slot \ stale : CallOwned(call[s]) /\ CallPlaced(call[s])
         /\ Apart
         /\ QueueLoaded

IInv == WellFormed /\ (~torn => Sound)

-----------------------------------------------------------------------------
(* What a sync has built and what a call stores.                           *)

\* A sync begins with nothing built and all of the stored list to go through.
LEMMA ShortenedNothing ==
    ASSUME NEW stored \in Seq(Item), NEW done
    PROVE  /\ Ends(stored, stored)
           /\ Shortened(<<>>, stored, Len(stored) - Len(stored), done)
BY DEF Ends, Shortened

\* The next item of the stored list.
LEMMA NextItem ==
    ASSUME NEW stored \in Seq(Item), NEW rest \in Seq(Item), Ends(rest, stored), rest # <<>>
    PROVE  /\ Len(stored) - Len(rest) + 1 \in 1..Len(stored)
           /\ Head(rest) = stored[Len(stored) - Len(rest) + 1]
           /\ Head(rest) \in Item
           /\ Tail(rest) \in Seq(Item)
           /\ Len(Tail(rest)) = Len(rest) - 1
           /\ Ends(Tail(rest), stored)
           /\ Len(stored) - Len(rest) \in Nat /\ Len(stored) - Len(rest) < Len(stored)
           /\ Len(stored) - Len(Tail(rest)) = Len(stored) - Len(rest) + 1
<1>1. Len(rest) \in Nat /\ Len(rest) # 0 /\ Head(rest) = rest[1]
  OBVIOUS
<1>2. /\ Tail(rest) \in Seq(Item) /\ Len(Tail(rest)) = Len(rest) - 1
      /\ \A i \in 1..(Len(rest) - 1) : Tail(rest)[i] = rest[i + 1]
  OBVIOUS
<1>3. Ends(Tail(rest), stored)
  BY <1>1, <1>2 DEF Ends
<1>4. Head(rest) \in Item
  OBVIOUS
<1>5. /\ Len(stored) - Len(rest) + 1 \in 1..Len(stored)
      /\ Head(rest) = stored[Len(stored) - Len(rest) + 1]
  BY <1>1 DEF Ends
<1>6. Len(rest) <= Len(stored)
  BY DEF Ends
<1>7. /\ Len(stored) - Len(rest) \in Nat /\ Len(stored) - Len(rest) < Len(stored)
      /\ Len(stored) - (Len(rest) - 1) = Len(stored) - Len(rest) + 1
  BY <1>1, <1>6
<1> QED BY <1>2, <1>3, <1>4, <1>5, <1>7

\* It is kept, perhaps with another status.
LEMMA ShortenedKept ==
    ASSUME NEW stored \in Seq(Item), NEW list \in Seq(Item), NEW n \in Nat, NEW e \in Item, NEW done,
           IsInjective(Ids(stored)), Shortened(list, stored, n, done),
           n < Len(stored), e.id = stored[n + 1].id
    PROVE  Shortened(Append(list, e), stored, n + 1, done)
<1> DEFINE new == Append(list, e)
<1>1. /\ new \in Seq(Item) /\ Len(new) = Len(list) + 1 /\ Len(list) \in Nat
      /\ \A i \in 1..Len(list) : new[i] = list[i]
      /\ new[Len(list) + 1] = e
  OBVIOUS
<1>2. \A m : Has(new, m) <=> Has(list, m) \/ m = e.id
  BY AppendItem
<1> HIDE DEF new
<1>3. \A i, j \in 1..Len(stored) : stored[i].id = stored[j].id => i = j
  BY Distinct
<1>4. \A i \in DOMAIN new : \E p \in 1..(n + 1) : new[i].id = stored[p].id
  BY <1>1 DEF Shortened
<1>5. ASSUME NEW i \in DOMAIN new, NEW j \in DOMAIN new,
             NEW p \in DOMAIN stored, NEW q \in DOMAIN stored,
             new[i].id = stored[p].id, new[j].id = stored[q].id, i < j
      PROVE  p < q
  <2>1. i \in 1..Len(list) /\ new[i] = list[i]
    BY <1>1, <1>5
  <2>2. CASE j \in 1..Len(list)
    <3>1. i \in DOMAIN list /\ j \in DOMAIN list /\ list[i].id = stored[p].id /\ list[j].id = stored[q].id
      BY <1>1, <1>5, <2>1, <2>2
    <3> QED BY <1>5, <3>1 DEF Shortened
  <2>3. CASE j = Len(list) + 1
    <3>1. q = n + 1
      BY <1>1, <1>3, <1>5, <2>3
    <3>2. PICK r \in 1..n : list[i].id = stored[r].id
      BY <2>1 DEF Shortened
    <3>3. r = p
      BY <1>3, <1>5, <2>1, <3>2
    <3> QED BY <3>1, <3>2, <3>3
  <2> QED BY <1>1, <2>2, <2>3
<1>6. \A p \in 1..(n + 1) : Has(new, stored[p].id) \/ stored[p].id \in done
  BY <1>2 DEF Shortened
<1> QED BY <1>4, <1>5, <1>6 DEF Shortened, new

\* It is settled and left out.
LEMMA ShortenedLeft ==
    ASSUME NEW stored \in Seq(Item), NEW list \in Seq(Item), NEW n \in Nat, NEW done,
           Shortened(list, stored, n, done), n < Len(stored), stored[n + 1].id \in done
    PROVE  Shortened(list, stored, n + 1, done)
<1>1. 1..n \subseteq 1..(n + 1) /\ \A p \in 1..(n + 1) : p \in 1..n \/ p = n + 1
  OBVIOUS
<1> QED BY <1>1 DEF Shortened

\* What is settled stays settled.
LEMMA ShortenedLater ==
    ASSUME NEW stored, NEW list, NEW n, NEW done, NEW later,
           Shortened(list, stored, n, done), done \subseteq later
    PROVE  Shortened(list, stored, n, later)
BY DEF Shortened

\* What a sync stores.
LEMMA ShortenedList ==
    ASSUME NEW stored \in Seq(Item), NEW list \in Seq(Item), NEW done, IsInjective(Ids(stored)),
           Shortened(list, stored, Len(stored), done)
    PROVE  /\ IsInjective(Ids(list))
           /\ \A m : Has(list, m) => Has(stored, m)
           /\ \A m : Has(stored, m) => Has(list, m) \/ m \in done
<1>1. ASSUME NEW i \in 1..Len(list), NEW j \in 1..Len(list), list[i].id = list[j].id
      PROVE  ~(i < j)
  <2>1. PICK p \in 1..Len(stored) : list[i].id = stored[p].id
    BY DEF Shortened
  <2>2. i \in DOMAIN list /\ j \in DOMAIN list /\ p \in DOMAIN stored
    OBVIOUS
  <2>3. \A a, b \in DOMAIN list, c, d \in DOMAIN stored :
          list[a].id = stored[c].id /\ list[b].id = stored[d].id /\ a < b => c < d
    BY DEF Shortened
  <2>4. list[i].id = stored[p].id /\ list[j].id = stored[p].id
    BY <1>1, <2>1
  <2>5. i < j => p < p
    BY <2>2, <2>3, <2>4
  <2> QED BY <2>5
<1>2. IsInjective(Ids(list))
  BY <1>1, Distinct
<1>3. \A m : Has(list, m) => Has(stored, m)
  BY HasAt DEF Shortened
<1>4. \A m : Has(stored, m) => Has(list, m) \/ m \in done
  BY HasAt DEF Shortened
<1> QED BY <1>2, <1>3, <1>4

\* The list a call stores: the one it changed, with a new change at the end or
\* without some that are settled.
LEMMA RevisedList ==
    ASSUME NEW k, NEW done, NEW stored \in Seq(Item), k.list \in Seq(Item), k.id \in Mutation \cup {NoUser},
           IsInjective(Ids(stored)), Revises(k, stored, done),
           k.kind # "sync" => k.id \in Mutation,
           k.kind = "mutate" => ~Has(stored, k.id),
           k.kind = "discard" => k.id \in done
    PROVE  /\ IsInjective(Ids(k.list))
           /\ \A m : Has(k.list, m) => Has(stored, m) \/ (k.kind = "mutate" /\ m = k.id)
           /\ \A m : Has(stored, m) => Has(k.list, m) \/ m \in done
           /\ k.kind = "mutate" => Has(k.list, k.id)
           /\ k.kind = "discard" => ~Has(k.list, k.id)
<1>1. CASE k.kind = "mutate"
  <2>1. PICK st \in Statuses : k.list = Append(stored, Entry(k.id, st))
    BY <1>1 DEF Revises
  <2>2. Entry(k.id, st) \in Item /\ Entry(k.id, st).id = k.id
    BY <1>1 DEF Entry, Item
  <2> QED BY <1>1, <2>1, <2>2, AppendItem
<1>2. CASE k.kind = "discard"
  BY <1>2, WithoutItem DEF Revises
<1>3. CASE k.kind \in {"retry", "apply"}
  <2>1. PICK st \in Statuses : k.list = WithStatus(stored, k.id, st)
    BY <1>3 DEF Revises
  <2>2. Ids(k.list) = Ids(stored)
    BY <1>3, <2>1, StatusOfItem
  <2> QED BY <1>3, <2>2 DEF Has
<1>4. CASE k.kind = "sync"
  BY <1>4, ShortenedList DEF Revises
<1> QED BY <1>1, <1>2, <1>3, <1>4 DEF Revises

-----------------------------------------------------------------------------
(* The type of the state.                                                  *)

Calls == [at: {"idle", "enter", "load", "request", "persist", "reload", "write",
               "replay", "replaying"},
          kind: Kinds \cup {"none"}, id: Mutation \cup {NoUser},
          uid: User \cup {NoUser}, as: User \cup {NoUser},
          list: Seq(Item), rest: Seq(Item), offline: BOOLEAN]

Queues == [user: User \cup {NoUser}, loading: BOOLEAN, syncing: BOOLEAN, items: Seq(Item)]

LEMMA Shape == TypeOK <=> /\ account \in User \cup {NoUser}
                          /\ disk \in [User -> Seq(Item)]
                          /\ queue \in Queues
                          /\ call \in [Slot -> Calls]
                          /\ author \in [Mutation -> User \cup {NoUser}]
                          /\ accepted \in SUBSET Mutation
                          /\ settled \in SUBSET Mutation
                          /\ discarded \in SUBSET Mutation
                          /\ applied \in [Mutation -> 0..2]
                          /\ stale \in SUBSET Slot
                          /\ torn \in BOOLEAN
BY DEF TypeOK, Calls, Queues

LEMMA IdleIsCall == Idle \in Calls /\ NoQueue \in Queues
BY DEF Idle, NoQueue, Calls, Queues, Kinds

LEMMA IdleAt == Idle.at = "idle" /\ Idle.kind = "none" /\ Idle.id = NoUser
BY DEF Idle

\* The items a call writes are items.
LEMMA EntryIsItem ==
    ASSUME NEW m \in Mutation, NEW st \in Statuses
    PROVE  Entry(m, st) \in Item
BY DEF Entry, Item

LEMMA WithStatusType ==
    ASSUME NEW list \in Seq(Item), NEW m, NEW st \in Statuses
    PROVE  WithStatus(list, m, st) \in Seq(Item)
<1>1. ASSUME NEW i \in DOMAIN list
      PROVE  (IF list[i].id = m THEN Entry(m, st) ELSE list[i]) \in Item
  <2>1. list[i] \in Item
    OBVIOUS
  <2>2. list[i].id = m => m \in Mutation
    BY <2>1 DEF Item
  <2> QED BY <2>1, <2>2, EntryIsItem
<1> QED BY <1>1 DEF WithStatus

LEMMA StatusOfType ==
    ASSUME NEW answer \in Answers, answer # "ok"
    PROVE  StatusOf(answer) \in Statuses
BY DEF Answers, StatusOf, Statuses

LEMMA RemainingType ==
    ASSUME NEW list \in Seq(Item), NEW m \in Mutation, NEW answer \in Answers
    PROVE  Remaining(list, m, answer) \in Seq(Item)
<1>1. CASE answer = "ok"
  BY <1>1 DEF Remaining
<1>2. CASE answer # "ok"
  BY <1>2, StatusOfType, EntryIsItem DEF Remaining
<1> QED BY <1>1, <1>2

\* The types that a step starts from.
LEMMA TypesBefore ==
    ASSUME WellFormed, NEW s \in Slot
    PROVE  /\ account \in User \cup {NoUser} /\ queue \in Queues
           /\ call \in [Slot -> Calls] /\ call[s] \in Calls /\ CallFormed(call[s])
           /\ call[s].list \in Seq(Item) /\ call[s].rest \in Seq(Item)
           /\ queue.items \in Seq(Item)
           /\ \A u \in User : disk[u] \in Seq(Item)
           /\ stale \in SUBSET Slot /\ torn \in BOOLEAN
BY Shape DEF WellFormed, Calls, Queues

\* The first item of the rest of a sync.
LEMMA HeadType ==
    ASSUME NEW rest \in Seq(Item), rest # <<>>
    PROVE  /\ Head(rest) \in Item /\ Head(rest).id \in Mutation
           /\ Tail(rest) \in Seq(Item)
<1>1. Head(rest) \in Item /\ Tail(rest) \in Seq(Item)
  OBVIOUS
<1> QED BY <1>1 DEF Item

-----------------------------------------------------------------------------
(* What the steps of a call do to it.                                      *)

\* s goes on; new is its call.
Goes(s, new) ==
    /\ new \in Calls /\ call' \in [Slot -> Calls] /\ call'[s] = new
    /\ \A r \in Slot \ {s} : call'[r] = call[r]

\* It is about the same change as before, or about none.
SameChange(s) == \/ call'[s].kind \notin Named
                 \/ call'[s].kind = call[s].kind /\ call'[s].id = call[s].id
                 \/ /\ call[s].kind = "apply" /\ call'[s].kind = "discard"
                    /\ call'[s].id = call[s].id

LEMMA Going ==
    ASSUME call \in [Slot -> Calls], NEW s \in Slot, NEW new \in Calls,
           call' = [call EXCEPT ![s] = new]
    PROVE  Goes(s, new)
BY DEF Goes

LEMMA Returned ==
    ASSUME call \in [Slot -> Calls], NEW s \in Slot, Return(s)
    PROVE  Goes(s, Idle)
BY IdleIsCall, Going DEF Return

\* A call that begins.
LEMMA Entered ==
    ASSUME call \in [Slot -> Calls], NEW s \in Slot, NEW kind \in Kinds,
           NEW m \in Mutation \cup {NoUser},
           call' = [call EXCEPT ![s] = [Idle EXCEPT !.at = "enter", !.kind = kind, !.id = m]]
    PROVE  /\ Goes(s, call'[s])
           /\ call'[s].at = "enter" /\ call'[s].kind = kind /\ call'[s].id = m
<1>1. PICK new : new = [Idle EXCEPT !.at = "enter", !.kind = kind, !.id = m]
  OBVIOUS
<1>2. new \in Calls /\ new.at = "enter" /\ new.kind = kind /\ new.id = m
  BY <1>1, IdleIsCall DEF Calls
<1> QED BY <1>1, <1>2, Going DEF Goes

\* A call about no change that begins.
LEMMA Started ==
    ASSUME call \in [Slot -> Calls], NEW s \in Slot, NEW kind \in Kinds,
           call' = [call EXCEPT ![s] = [Idle EXCEPT !.at = "enter", !.kind = kind]]
    PROVE  /\ Goes(s, call'[s])
           /\ call'[s].at = "enter" /\ call'[s].kind = kind /\ call'[s].id = NoUser
<1>1. PICK new : new = [Idle EXCEPT !.at = "enter", !.kind = kind]
  OBVIOUS
<1>2. new \in Calls /\ new.at = "enter" /\ new.kind = kind /\ new.id = NoUser
  BY <1>1, IdleIsCall, IdleAt DEF Calls
<1> QED BY <1>1, <1>2, Going DEF Goes

LEMMA Synced ==
    ASSUME call \in [Slot -> Calls], NEW s \in Slot, Syncs(s)
    PROVE  /\ Goes(s, call'[s])
           /\ call'[s].at = "enter" /\ call'[s].kind = "sync" /\ call'[s].id = NoUser
<1>1. "sync" \in Kinds
  BY DEF Kinds
<1> QED BY <1>1, Started DEF Syncs

LEMMA Persisted ==
    ASSUME call \in [Slot -> Calls], NEW s \in Slot, NEW list \in Seq(Item), Persists(s, list)
    PROVE  /\ Goes(s, call'[s])
           /\ call'[s].kind = call[s].kind /\ call'[s].id = call[s].id
           /\ call'[s].at = "persist" /\ call'[s].list = list
<1>1. PICK new : new = [call[s] EXCEPT !.at = "persist", !.list = list]
  OBVIOUS
<1>2. /\ new \in Calls /\ new.kind = call[s].kind /\ new.id = call[s].id
      /\ new.at = "persist" /\ new.list = list
  BY <1>1 DEF Calls
<1>3. call' = [call EXCEPT ![s] = new]
  BY <1>1 DEF Persists
<1> QED BY <1>2, <1>3, Going DEF Goes

LEMMA Sent ==
    ASSUME call \in [Slot -> Calls], NEW s \in Slot, account \in User \cup {NoUser}, Sends(s)
    PROVE  /\ Goes(s, call'[s])
           /\ call'[s].kind = call[s].kind /\ call'[s].id = call[s].id
           /\ call'[s].at = "request" /\ call'[s].as = account
<1>1. PICK new : new = [call[s] EXCEPT !.at = "request", !.as = account]
  OBVIOUS
<1>2. /\ new \in Calls /\ new.kind = call[s].kind /\ new.id = call[s].id
      /\ new.at = "request" /\ new.as = account
  BY <1>1 DEF Calls
<1>3. call' = [call EXCEPT ![s] = new]
  BY <1>1 DEF Sends
<1> QED BY <1>2, <1>3, Going DEF Goes

LEMMA Wrote ==
    ASSUME call \in [Slot -> Calls], NEW s \in Slot, NEW u \in User,
           call' = [call EXCEPT ![s] = [@ EXCEPT !.at = "write", !.uid = u]]
    PROVE  /\ Goes(s, call'[s])
           /\ call'[s].kind = call[s].kind /\ call'[s].id = call[s].id
           /\ call'[s].at = "write" /\ call'[s].uid = u /\ call'[s].list = call[s].list
<1>1. PICK new : new = [call[s] EXCEPT !.at = "write", !.uid = u]
  OBVIOUS
<1>2. /\ new \in Calls /\ new.kind = call[s].kind /\ new.id = call[s].id
      /\ new.at = "write" /\ new.uid = u /\ new.list = call[s].list
  BY <1>1 DEF Calls
<1>3. call' = [call EXCEPT ![s] = new]
  BY <1>1
<1> QED BY <1>2, <1>3, Going DEF Goes

LEMMA ReadsOther ==
    ASSUME call \in [Slot -> Calls], NEW s \in Slot, NEW u \in User,
           call' = [call EXCEPT ![s] = [@ EXCEPT !.uid = u,
                                         !.at = IF call[s].at = "enter" THEN "load" ELSE "reload"]]
    PROVE  /\ Goes(s, call'[s])
           /\ call'[s].kind = call[s].kind /\ call'[s].id = call[s].id
           /\ call'[s].at = (IF call[s].at = "enter" THEN "load" ELSE "reload")
           /\ call'[s].uid = u
<1> DEFINE at == IF call[s].at = "enter" THEN "load" ELSE "reload"
<1>1. at \in {"load", "reload"}
  OBVIOUS
<1> HIDE DEF at
<1>2. PICK new : new = [call[s] EXCEPT !.uid = u, !.at = at]
  OBVIOUS
<1>3. /\ new \in Calls /\ new.kind = call[s].kind /\ new.id = call[s].id
      /\ new.at = at /\ new.uid = u
  BY <1>1, <1>2 DEF Calls
<1>4. call' = [call EXCEPT ![s] = new]
  BY <1>2 DEF at
<1> QED BY <1>3, <1>4, Going DEF Goes, at

LEMMA Kept ==
    ASSUME call \in [Slot -> Calls], NEW s \in Slot, NEW list \in Seq(Item), NEW rest \in Seq(Item),
           call' = [call EXCEPT ![s] = [call[s] EXCEPT !.list = list, !.rest = rest]]
    PROVE  /\ Goes(s, call'[s])
           /\ call'[s].kind = call[s].kind /\ call'[s].id = call[s].id
           /\ call'[s].at = call[s].at /\ call'[s].list = list /\ call'[s].rest = rest
<1>1. PICK new : new = [call[s] EXCEPT !.list = list, !.rest = rest]
  OBVIOUS
<1>2. /\ new \in Calls /\ new.kind = call[s].kind /\ new.id = call[s].id
      /\ new.at = call[s].at /\ new.list = list /\ new.rest = rest
  BY <1>1 DEF Calls
<1>3. call' = [call EXCEPT ![s] = new]
  BY <1>1
<1> QED BY <1>2, <1>3, Going DEF Goes

LEMMA Replayed ==
    ASSUME call \in [Slot -> Calls], NEW s \in Slot, account \in User \cup {NoUser},
           call' = [call EXCEPT ![s] = [@ EXCEPT !.at = "replaying", !.as = account]]
    PROVE  /\ Goes(s, call'[s])
           /\ call'[s].kind = call[s].kind /\ call'[s].id = call[s].id
           /\ call'[s].at = "replaying" /\ call'[s].as = account
           /\ call'[s].list = call[s].list /\ call'[s].rest = call[s].rest
<1>1. PICK new : new = [call[s] EXCEPT !.at = "replaying", !.as = account]
  OBVIOUS
<1>2. /\ new \in Calls /\ new.kind = call[s].kind /\ new.id = call[s].id
      /\ new.at = "replaying" /\ new.as = account
      /\ new.list = call[s].list /\ new.rest = call[s].rest
  BY <1>1 DEF Calls
<1>3. call' = [call EXCEPT ![s] = new]
  BY <1>1
<1> QED BY <1>2, <1>3, Going DEF Goes

LEMMA ReplayedOne ==
    ASSUME call \in [Slot -> Calls], NEW s \in Slot, NEW list \in Seq(Item), NEW rest \in Seq(Item),
           NEW offline \in BOOLEAN,
           call' = [call EXCEPT ![s] = [call[s] EXCEPT !.at = "replay", !.rest = rest,
                                                   !.list = list, !.offline = offline]]
    PROVE  /\ Goes(s, call'[s])
           /\ call'[s].kind = call[s].kind /\ call'[s].id = call[s].id
           /\ call'[s].at = "replay" /\ call'[s].list = list /\ call'[s].rest = rest
<1>1. PICK new : new = [call[s] EXCEPT !.at = "replay", !.rest = rest,
                                                   !.list = list, !.offline = offline]
  OBVIOUS
<1>2. /\ new \in Calls /\ new.kind = call[s].kind /\ new.id = call[s].id
      /\ new.at = "replay" /\ new.list = list /\ new.rest = rest
  BY <1>1 DEF Calls
<1>3. call' = [call EXCEPT ![s] = new]
  BY <1>1
<1> QED BY <1>2, <1>3, Going DEF Goes

\* A sync that begins.
LEMMA Replays ==
    ASSUME call \in [Slot -> Calls], NEW s \in Slot, NEW items \in Seq(Item),
           call' = [call EXCEPT ![s] = [@ EXCEPT !.at = "replay", !.rest = items,
                                                 !.list = <<>>, !.offline = FALSE]]
    PROVE  /\ Goes(s, call'[s])
           /\ call'[s].kind = call[s].kind /\ call'[s].id = call[s].id
           /\ call'[s].at = "replay" /\ call'[s].list = <<>> /\ call'[s].rest = items
<1>0. PICK none : none = <<>>
  OBVIOUS
<1>4. PICK no : no = FALSE
  OBVIOUS
<1>5. none \in Seq(Item)
  BY <1>0
<1>6. no \in BOOLEAN
  BY <1>4
<1>1. PICK new : new = [call[s] EXCEPT !.at = "replay", !.rest = items,
                                       !.list = none, !.offline = no]
  OBVIOUS
<1>2. /\ new \in Calls /\ new.kind = call[s].kind /\ new.id = call[s].id
      /\ new.at = "replay" /\ new.list = none /\ new.rest = items
  BY <1>1, <1>5, <1>6 DEF Calls
<1>3. call' = [call EXCEPT ![s] = new]
  BY <1>0, <1>1, <1>4
<1> QED BY <1>0, <1>2, <1>3, Going DEF Goes

-----------------------------------------------------------------------------
(* What is well formed stays well formed, whatever overtakes what.         *)

\* s goes on as a well-formed call.
Went(s) == Goes(s, call'[s]) /\ CallFormed(call'[s]) /\ SameChange(s)

\* Where _ensureCurrentUser, having found the list items, takes it.
Proceeded(s, items) ==
    /\ call'[s].kind \in Named => call'[s].kind = call[s].kind /\ call'[s].id = call[s].id
    /\ \/ ~Bound(call'[s])
       \/ /\ call'[s].at = "request" /\ call'[s].as = account
          /\ call'[s].kind \in {"mutate", "apply"}
          /\ call'[s].kind = "apply" => Has(items, call'[s].id)
       \/ /\ call'[s].at = "replay" /\ call'[s].kind = "sync"
          /\ call'[s].rest = items /\ call'[s].list = <<>>
       \/ /\ call'[s].at = "persist"
          /\ \/ call'[s].kind = "discard" /\ call'[s].list = Without(items, call'[s].id)
             \/ /\ call'[s].kind = "retry"
                /\ call'[s].list = WithStatus(items, call'[s].id, "pending")

LEMMA IdleWent ==
    ASSUME WellFormed, NEW s \in Slot, Return(s)
    PROVE  Went(s) /\ ~Bound(call'[s]) /\ call'[s].kind \notin Named
<1>1. Goes(s, Idle)
  BY Returned, TypesBefore
<1> QED BY <1>1, IdleAt DEF Went, Goes, Bound, CallFormed, SameChange, Named

LEMMA SyncWent ==
    ASSUME WellFormed, NEW s \in Slot, Syncs(s)
    PROVE  Went(s) /\ ~Bound(call'[s]) /\ call'[s].kind \notin Named
<1>1. /\ Goes(s, call'[s])
      /\ call'[s].at = "enter" /\ call'[s].kind = "sync" /\ call'[s].id = NoUser
  BY Synced, TypesBefore
<1> QED BY <1>1 DEF Went, Bound, CallFormed, SameChange, Named

\* It is about the same change and not somewhere special.
LEMMA SameWent ==
    ASSUME WellFormed, NEW s \in Slot, Goes(s, call'[s]),
           call'[s].kind = call[s].kind, call'[s].id = call[s].id,
           call'[s].at \in {"load", "reload"} => call'[s].uid \in User,
           call'[s].at = "replaying" => call'[s].rest # <<>>
    PROVE  Went(s)
<1>1. CallFormed(call[s])
  BY TypesBefore
<1> QED BY <1>1 DEF Went, CallFormed, SameChange

LEMMA ProceedWent ==
    ASSUME WellFormed, NEW s \in Slot, NEW q \in Queues, Proceed(s, q)
    PROVE  /\ Went(s) /\ Proceeded(s, q.items)
           /\ queue' \in Queues /\ queue'.user = q.user /\ queue'.loading = q.loading
           /\ queue'.items = q.items
<1> DEFINE k == call[s]
<1>1. /\ call \in [Slot -> Calls] /\ account \in User \cup {NoUser} /\ q.items \in Seq(Item)
  BY TypesBefore DEF Queues
<1>2. CASE queue' = q /\ Return(s)
  BY <1>2, IdleWent DEF Proceeded
<1>3. CASE queue' = q /\ Syncs(s)
  BY <1>3, SyncWent DEF Proceeded
<1>4. CASE queue' = q /\ Sends(s)
           /\ (k.kind = "mutate" \/ (k.kind = "apply" /\ Has(q.items, k.id)))
  <2>1. /\ Goes(s, call'[s]) /\ call'[s].at = "request" /\ call'[s].as = account
        /\ call'[s].kind = k.kind /\ call'[s].id = k.id
    BY <1>1, <1>4, Sent
  <2>2. Went(s)
    BY <2>1, SameWent
  <2> QED BY <1>4, <2>1, <2>2 DEF Proceeded
<1>5. CASE k.kind = "sync" /\ queue' = [q EXCEPT !.syncing = TRUE]
           /\ call' = [call EXCEPT ![s] = [@ EXCEPT !.at = "replay", !.rest = q.items,
                                                    !.list = <<>>, !.offline = FALSE]]
  <2>1. /\ Goes(s, call'[s])
        /\ call'[s].kind = k.kind /\ call'[s].id = k.id
        /\ call'[s].at = "replay" /\ call'[s].list = <<>> /\ call'[s].rest = q.items
    BY <1>1, <1>5, Replays
  <2>2. Went(s)
    BY <2>1, SameWent
  <2>3. /\ queue' \in Queues /\ queue'.user = q.user /\ queue'.loading = q.loading
        /\ queue'.items = q.items
    BY <1>5 DEF Queues
  <2> QED BY <1>5, <2>1, <2>2, <2>3 DEF Proceeded
<1>6. ASSUME NEW list \in Seq(Item), queue' = q, Persists(s, list),
             \/ k.kind = "discard" /\ list = Without(q.items, k.id)
             \/ k.kind = "retry" /\ list = WithStatus(q.items, k.id, "pending")
      PROVE  Went(s) /\ Proceeded(s, q.items)
  <2>1. /\ Goes(s, call'[s]) /\ call'[s].kind = k.kind /\ call'[s].id = k.id
        /\ call'[s].at = "persist" /\ call'[s].list = list
    BY <1>1, <1>6, Persisted
  <2>2. Went(s)
    BY <2>1, SameWent
  <2> QED BY <1>6, <2>1, <2>2 DEF Proceeded
<1>7. CASE k.kind = "discard" /\ queue' = q /\ Persists(s, Without(q.items, k.id))
  BY <1>1, <1>6, <1>7, WithoutType
<1>8. CASE k.kind = "retry" /\ queue' = q /\ Persists(s, WithStatus(q.items, k.id, "pending"))
  <2>1. "pending" \in Statuses
    BY DEF Statuses
  <2> QED BY <1>1, <1>6, <1>8, <2>1, WithStatusType
<1>9. CASE k.kind = "apply" /\ queue' = q
           /\ IF Has(q.items, k.id) THEN Sends(s) ELSE Return(s)
  BY <1>2, <1>4, <1>9
<1>10. \/ queue' = q /\ Return(s)
       \/ queue' = q /\ Syncs(s)
       \/ k.kind = "mutate" /\ queue' = q /\ Sends(s)
       \/ k.kind = "sync" /\ queue' = [q EXCEPT !.syncing = TRUE]
           /\ call' = [call EXCEPT ![s] = [@ EXCEPT !.at = "replay", !.rest = q.items,
                                                    !.list = <<>>, !.offline = FALSE]]
       \/ k.kind = "discard" /\ queue' = q /\ Persists(s, Without(q.items, k.id))
       \/ k.kind = "retry" /\ queue' = q /\ Persists(s, WithStatus(q.items, k.id, "pending"))
       \/ k.kind = "apply" /\ queue' = q
            /\ IF Has(q.items, k.id) THEN Sends(s) ELSE Return(s)
  BY Zenon DEF Proceed
<1> HIDE DEF k
<1> QED BY <1>2, <1>3, <1>4, <1>5, <1>7, <1>8, <1>9, <1>10

\* _persist goes on with its write, if somebody's list is in memory.
LEMMA PersistWent ==
    ASSUME WellFormed, NEW s \in Slot, NEW q \in Queues,
           IF q.user = NoUser THEN Return(s)
           ELSE call' = [call EXCEPT ![s] = [@ EXCEPT !.at = "write", !.uid = q.user]]
    PROVE  /\ Went(s)
           /\ \/ q.user = NoUser /\ ~Bound(call'[s])
              \/ /\ q.user # NoUser /\ call'[s].at = "write" /\ call'[s].uid = q.user
                 /\ call'[s].kind = call[s].kind /\ call'[s].id = call[s].id
                 /\ call'[s].list = call[s].list
<1>1. CASE q.user = NoUser
  BY <1>1, IdleWent
<1>2. CASE q.user # NoUser
  <2>1. call \in [Slot -> Calls] /\ q.user \in User
    BY <1>2, TypesBefore DEF Queues
  <2>2. /\ Goes(s, call'[s])
        /\ call'[s].kind = call[s].kind /\ call'[s].id = call[s].id
        /\ call'[s].at = "write" /\ call'[s].uid = q.user /\ call'[s].list = call[s].list
    BY <1>2, <2>1, Wrote
  <2>3. Went(s)
    BY <2>2, SameWent
  <2> QED BY <1>2, <2>2, <2>3
<1> QED BY <1>1, <1>2

LEMMA EnsureWent ==
    ASSUME WellFormed, NEW s \in Slot, Ensure(s)
    PROVE  /\ Went(s)
           /\ queue' \in Queues /\ queue'.user = queue.user /\ queue'.loading = queue.loading
           /\ queue'.items = queue.items
           /\ call[s].at = "enter" => Proceeded(s, queue.items)
           /\ call[s].at = "persist" =>
                /\ queue' = queue
                /\ call'[s].at = "write" /\ call'[s].uid = queue.user
                /\ call'[s].kind = call[s].kind /\ call'[s].id = call[s].id
                /\ call'[s].list = call[s].list
<1>1. /\ call[s].at \in {"enter", "persist"} /\ SameUserLoaded /\ Resume(s, queue)
      /\ queue \in Queues
  BY TypesBefore DEF Ensure
<1>2. CASE call[s].at = "enter"
  <2>1. Proceed(s, queue)
    BY <1>1, <1>2 DEF Resume
  <2> QED BY <1>1, <1>2, <2>1, ProceedWent
<1>3. CASE call[s].at = "persist"
  <2>1. /\ queue' = queue
        /\ IF queue.user = NoUser THEN Return(s)
           ELSE call' = [call EXCEPT ![s] = [@ EXCEPT !.at = "write", !.uid = queue.user]]
    BY <1>1, <1>3 DEF Resume
  <2>2. queue.user # NoUser
    BY <1>1 DEF SameUserLoaded
  <2> QED BY <1>1, <1>3, <2>1, <2>2, PersistWent
<1> QED BY <1>1, <1>2, <1>3

LEMMA EnsureOtherWent ==
    ASSUME WellFormed, NEW s \in Slot, EnsureOther(s)
    PROVE  /\ Went(s) /\ account \in User
           /\ queue' \in Queues /\ queue'.user = account
           /\ call'[s].kind = call[s].kind /\ call'[s].id = call[s].id
           /\ call'[s].at = (IF call[s].at = "enter" THEN "load" ELSE "reload")
           /\ call'[s].uid = account
<1>1. /\ account # NoUser
      /\ queue' = [queue EXCEPT !.user = account]
      /\ call' = [call EXCEPT ![s] = [@ EXCEPT !.uid = account,
                                                !.at = IF call[s].at = "enter" THEN "load" ELSE "reload"]]
  BY DEF EnsureOther
<1>2. account \in User /\ queue \in Queues /\ call \in [Slot -> Calls]
  BY <1>1, TypesBefore
<1>3. /\ Goes(s, call'[s])
      /\ call'[s].kind = call[s].kind /\ call'[s].id = call[s].id
      /\ call'[s].at = (IF call[s].at = "enter" THEN "load" ELSE "reload")
      /\ call'[s].uid = account
  BY <1>1, <1>2, ReadsOther
<1>4. queue' \in Queues /\ queue'.user = account
  BY <1>1, <1>2 DEF Queues
<1>5. Went(s)
  BY <1>2, <1>3, SameWent
<1> QED BY <1>2, <1>3, <1>4, <1>5

LEMMA LoadWent ==
    ASSUME WellFormed, NEW s \in Slot, Load(s)
    PROVE  /\ Went(s) /\ call[s].uid \in User
           /\ queue' \in Queues /\ queue'.user = queue.user /\ ~queue'.loading
           /\ queue'.items = disk[call[s].uid]
           /\ call[s].at = "load" => Proceeded(s, disk[call[s].uid])
<1> DEFINE q == [NoQueue EXCEPT !.user = queue.user, !.loading = FALSE,
                                !.items = disk[StorageKey(call[s].uid)]]
<1>1. call[s].at \in {"load", "reload"} /\ Resume(s, q)
  BY DEF Load
<1>2. call[s].uid \in User /\ queue \in Queues
  BY <1>1, TypesBefore DEF CallFormed
<1>3. disk[call[s].uid] \in Seq(Item)
  BY <1>2, TypesBefore
<1>4. q \in Queues /\ q.user = queue.user /\ ~q.loading /\ q.items = disk[call[s].uid]
  BY <1>2, <1>3 DEF Queues, NoQueue, StorageKey
<1> HIDE DEF q
<1>5. CASE call[s].at = "load"
  <2>1. Proceed(s, q)
    BY <1>1, <1>5 DEF Resume
  <2> QED BY <1>2, <1>4, <1>5, <2>1, ProceedWent
<1>6. CASE call[s].at = "reload"
  <2>1. /\ queue' = q
        /\ IF q.user = NoUser THEN Return(s)
           ELSE call' = [call EXCEPT ![s] = [@ EXCEPT !.at = "write", !.uid = q.user]]
    BY <1>1, <1>6 DEF Resume
  <2>2. Went(s)
    BY <1>4, <2>1, PersistWent
  <2> QED BY <1>2, <1>4, <1>6, <2>1, <2>2
<1> QED BY <1>1, <1>5, <1>6

LEMMA EnsureNobodyWent ==
    ASSUME WellFormed, NEW s \in Slot, EnsureNobody(s)
    PROVE  /\ Went(s) /\ ~Bound(call'[s])
           /\ queue' \in Queues /\ queue'.user = NoUser
           /\ accepted' \in SUBSET Mutation
<1>1. /\ queue' = IF queue.user # NoUser \/ queue.loading
                  THEN [NoQueue EXCEPT !.loading = FALSE] ELSE queue
      /\ Return(s)
      /\ accepted' = IF call[s].at = "persist" /\ call[s].kind = "mutate"
                     THEN accepted \cup {call[s].id} ELSE accepted
  BY DEF EnsureNobody
<1>2. Went(s) /\ ~Bound(call'[s])
  BY <1>1, IdleWent
<1>3. queue' \in Queues /\ queue'.user = NoUser
  <2>1. queue \in Queues
    BY TypesBefore
  <2>2. /\ [NoQueue EXCEPT !.loading = FALSE] \in Queues
        /\ [NoQueue EXCEPT !.loading = FALSE].user = NoUser
    <3>1. NoQueue.user = NoUser
      BY DEF NoQueue
    <3> QED BY <3>1, IdleIsCall DEF Queues
  <2> QED BY <1>1, <2>1, <2>2
<1>4. accepted' \in SUBSET Mutation
  <2>1. accepted \in SUBSET Mutation /\ CallFormed(call[s])
    BY Shape, TypesBefore DEF WellFormed
  <2> QED BY <1>1, <2>1 DEF CallFormed, Named
<1> QED BY <1>2, <1>3, <1>4

LEMMA WriteWent ==
    ASSUME WellFormed, NEW s \in Slot, Write(s)
    PROVE  /\ Went(s) /\ ~Bound(call'[s])
           /\ queue' \in Queues /\ queue'.user = queue.user /\ ~queue'.loading
           /\ queue'.items = call[s].list
           /\ accepted' \in SUBSET Mutation /\ discarded' \in SUBSET Mutation
           /\ disk' \in [User -> Seq(Item)]
<1>1. /\ disk' = [disk EXCEPT ![call[s].uid] = call[s].list]
      /\ queue' = [queue EXCEPT !.loading = FALSE, !.items = call[s].list]
      /\ IF call[s].kind = "retry" THEN Syncs(s) ELSE Return(s)
      /\ accepted' = IF call[s].kind = "mutate" THEN accepted \cup {call[s].id} ELSE accepted
      /\ discarded' = IF call[s].kind = "discard" THEN discarded \cup {call[s].id} ELSE discarded
  BY DEF Write, StorageKey
<1>2. /\ accepted \in SUBSET Mutation /\ discarded \in SUBSET Mutation
      /\ disk \in [User -> Seq(Item)]
      /\ call[s].list \in Seq(Item) /\ CallFormed(call[s]) /\ queue \in Queues
  BY Shape, TypesBefore DEF WellFormed
<1>3. Went(s) /\ ~Bound(call'[s])
  BY <1>1, IdleWent, SyncWent
<1>4. /\ queue' \in Queues /\ queue'.user = queue.user /\ ~queue'.loading
      /\ queue'.items = call[s].list
  BY <1>1, <1>2 DEF Queues
<1>5. accepted' \in SUBSET Mutation /\ discarded' \in SUBSET Mutation
  BY <1>1, <1>2 DEF CallFormed, Named
<1>6. disk' \in [User -> Seq(Item)]
  BY <1>1, <1>2
<1> QED BY <1>3, <1>4, <1>5, <1>6

\* An answer applies and settles a change.
LEMMA AnswerTypes ==
    ASSUME WellFormed, NEW m \in Mutation, NEW answer, Applies(m, answer), Settles(m, answer)
    PROVE  applied' \in [Mutation -> 0..2] /\ settled' \in SUBSET Mutation /\ settled \subseteq settled'
<1>1. applied \in [Mutation -> 0..2] /\ settled \in SUBSET Mutation
  BY Shape DEF WellFormed
<1>2. applied[m] < 2 => applied[m] + 1 \in 0..2
  BY <1>1
<1>3. applied' \in [Mutation -> 0..2]
  BY <1>1, <1>2 DEF Applies
<1> QED BY <1>1, <1>3 DEF Settles

LEMMA MutateAnswerWent ==
    ASSUME WellFormed, NEW s \in Slot, NEW answer \in Answers, MutateAnswer(s, answer)
    PROVE  /\ Went(s) /\ call[s].id \in Mutation
           /\ applied' \in [Mutation -> 0..2] /\ settled' \in SUBSET Mutation
           /\ settled \subseteq settled'
           /\ \/ ~Bound(call'[s])
              \/ /\ call'[s].at = "persist" /\ call'[s].kind = "mutate"
                 /\ \E st \in Statuses : call'[s].list = Append(queue.items, Entry(call[s].id, st))
                 /\ call'[s].id = call[s].id
<1>1. /\ call[s].kind = "mutate"
      /\ IF answer \in {"ok", "refused"} THEN Return(s)
         ELSE Persists(s, Append(queue.items, Entry(call[s].id, StatusOf(answer))))
      /\ Applies(call[s].id, answer) /\ Settles(call[s].id, answer)
  BY DEF MutateAnswer
<1>2. call[s].id \in Mutation
  BY <1>1, TypesBefore DEF CallFormed, Named
<1>3. CASE answer \in {"ok", "refused"}
  BY <1>1, <1>2, <1>3, IdleWent, AnswerTypes
<1>4. CASE answer \notin {"ok", "refused"}
  <2>1. StatusOf(answer) \in Statuses
    BY <1>4, StatusOfType
  <2>2. PICK list : list = Append(queue.items, Entry(call[s].id, StatusOf(answer)))
    OBVIOUS
  <2>3. list \in Seq(Item) /\ Persists(s, list)
    <3>1. Entry(call[s].id, StatusOf(answer)) \in Item /\ queue.items \in Seq(Item)
      BY <1>2, <2>1, EntryIsItem, TypesBefore
    <3> QED BY <1>1, <1>4, <2>2, <3>1
  <2>4. /\ Goes(s, call'[s]) /\ call'[s].kind = call[s].kind /\ call'[s].id = call[s].id
        /\ call'[s].at = "persist" /\ call'[s].list = list
    BY <2>3, Persisted, TypesBefore
  <2>5. Went(s)
    BY <2>4, SameWent
  <2> QED BY <1>1, <1>2, <2>1, <2>2, <2>4, <2>5, AnswerTypes
<1> QED BY <1>3, <1>4

LEMMA ApplyAnswerWent ==
    ASSUME WellFormed, NEW s \in Slot, NEW answer \in Answers, ApplyAnswer(s, answer)
    PROVE  /\ Went(s) /\ call[s].id \in Mutation
           /\ applied' \in [Mutation -> 0..2] /\ settled' \in SUBSET Mutation
           /\ settled \subseteq settled'
           /\ \/ /\ call'[s].at = "enter" /\ call'[s].kind = "discard"
                 /\ call'[s].id = call[s].id /\ call[s].id \in settled'
              \/ /\ call'[s].at = "persist" /\ call'[s].kind = "apply"
                 /\ call'[s].id = call[s].id
                 /\ \E st \in Statuses : call'[s].list = WithStatus(queue.items, call[s].id, st)
<1>1. /\ call[s].kind = "apply"
      /\ IF answer = "ok"
         THEN call' = [call EXCEPT ![s] = [Idle EXCEPT !.at = "enter", !.kind = "discard",
                                                       !.id = call[s].id]]
         ELSE Persists(s, WithStatus(queue.items, call[s].id,
                            IF answer = "conflict" THEN "conflict" ELSE "failed"))
      /\ Applies(call[s].id, answer) /\ Settles(call[s].id, answer)
  BY DEF ApplyAnswer
<1>2. call[s].id \in Mutation
  BY <1>1, TypesBefore DEF CallFormed, Named
<1>3. CASE answer = "ok"
  <2>1. "discard" \in Kinds
    BY DEF Kinds
  <2>2. /\ Goes(s, call'[s])
        /\ call'[s].at = "enter" /\ call'[s].kind = "discard" /\ call'[s].id = call[s].id
    BY <1>1, <1>2, <1>3, <2>1, Entered, TypesBefore
  <2>3. Went(s)
    BY <1>1, <1>2, <2>2 DEF Went, CallFormed, SameChange
  <2>4. call[s].id \in settled'
    BY <1>1, <1>3 DEF Settles
  <2> QED BY <1>1, <1>2, <2>2, <2>3, <2>4, AnswerTypes
<1>4. CASE answer # "ok"
  <2>1. PICK st \in Statuses : st = (IF answer = "conflict" THEN "conflict" ELSE "failed")
    BY DEF Statuses
  <2>2. Persists(s, WithStatus(queue.items, call[s].id, st))
    BY <1>1, <1>4, <2>1
  <2>3. WithStatus(queue.items, call[s].id, st) \in Seq(Item)
    BY WithStatusType, TypesBefore
  <2>4. /\ Goes(s, call'[s]) /\ call'[s].kind = call[s].kind /\ call'[s].id = call[s].id
        /\ call'[s].at = "persist"
        /\ call'[s].list = WithStatus(queue.items, call[s].id, st)
    BY <2>2, <2>3, Persisted, TypesBefore
  <2>5. Went(s)
    BY <2>4, SameWent
  <2> QED BY <1>1, <1>2, <2>4, <2>5, AnswerTypes
<1> QED BY <1>3, <1>4

LEMMA KeepWent ==
    ASSUME WellFormed, NEW s \in Slot, Keep(s)
    PROVE  /\ Went(s)
           /\ call'[s].kind = call[s].kind /\ call'[s].id = call[s].id
           /\ call'[s].at = "replay" /\ call'[s].list = Append(call[s].list, Head(call[s].rest))
           /\ call'[s].rest = Tail(call[s].rest)
<1>1. /\ call[s].at = "replay" /\ call[s].rest # <<>>
      /\ call' = [call EXCEPT ![s] = [call[s] EXCEPT !.list = Append(call[s].list, Head(call[s].rest)),
                                                     !.rest = Tail(call[s].rest)]]
  BY DEF Keep
<1>2. /\ call \in [Slot -> Calls]
      /\ call[s].list \in Seq(Item) /\ call[s].rest \in Seq(Item)
  BY TypesBefore
<1>3. Head(call[s].rest) \in Item /\ Tail(call[s].rest) \in Seq(Item)
  BY <1>1, <1>2, HeadType
<1>4. Append(call[s].list, Head(call[s].rest)) \in Seq(Item)
  BY <1>2, <1>3
<1>5. /\ Goes(s, call'[s])
      /\ call'[s].kind = call[s].kind /\ call'[s].id = call[s].id
      /\ call'[s].at = call[s].at /\ call'[s].list = Append(call[s].list, Head(call[s].rest))
      /\ call'[s].rest = Tail(call[s].rest)
  BY <1>1, <1>2, <1>3, <1>4, Kept
<1>6. Went(s)
  BY <1>1, <1>5, SameWent
<1> QED BY <1>1, <1>5, <1>6

LEMMA ReplayWent ==
    ASSUME WellFormed, NEW s \in Slot, Replay(s)
    PROVE  /\ Went(s)
           /\ call'[s].kind = call[s].kind /\ call'[s].id = call[s].id
           /\ call'[s].at = "replaying" /\ call'[s].as = account
           /\ call'[s].list = call[s].list /\ call'[s].rest = call[s].rest
<1>1. /\ call[s].at = "replay" /\ call[s].rest # <<>>
      /\ call' = [call EXCEPT ![s] = [@ EXCEPT !.at = "replaying", !.as = account]]
  BY DEF Replay
<1>2. call \in [Slot -> Calls] /\ account \in User \cup {NoUser}
  BY TypesBefore
<1>3. /\ Goes(s, call'[s])
      /\ call'[s].kind = call[s].kind /\ call'[s].id = call[s].id
      /\ call'[s].at = "replaying" /\ call'[s].as = account
      /\ call'[s].list = call[s].list /\ call'[s].rest = call[s].rest
  BY <1>1, <1>2, Replayed
<1>4. Went(s)
  BY <1>1, <1>3, SameWent
<1> QED BY <1>3, <1>4

LEMMA ReplayAnswerWent ==
    ASSUME WellFormed, NEW s \in Slot, NEW answer \in Answers, ReplayAnswer(s, answer)
    PROVE  /\ Went(s) /\ call[s].rest # <<>> /\ Head(call[s].rest).id \in Mutation
           /\ applied' \in [Mutation -> 0..2] /\ settled' \in SUBSET Mutation
           /\ settled \subseteq settled'
           /\ call'[s].kind = call[s].kind /\ call'[s].id = call[s].id
           /\ call'[s].at = "replay"
           /\ call'[s].list = Remaining(call[s].list, Head(call[s].rest).id, answer)
           /\ call'[s].rest = Tail(call[s].rest)
<1>1. /\ call[s].at = "replaying"
      /\ call' = [call EXCEPT ![s] = [call[s] EXCEPT !.at = "replay", !.rest = Tail(call[s].rest),
                    !.list = Remaining(call[s].list, Head(call[s].rest).id, answer),
                    !.offline = answer \in {"lost", "late"}]]
      /\ Applies(Head(call[s].rest).id, answer) /\ Settles(Head(call[s].rest).id, answer)
  BY DEF ReplayAnswer
<1>2. /\ call \in [Slot -> Calls] /\ CallFormed(call[s])
      /\ call[s].list \in Seq(Item) /\ call[s].rest \in Seq(Item)
  BY TypesBefore
<1>3. /\ call[s].rest # <<>> /\ Head(call[s].rest).id \in Mutation
      /\ Tail(call[s].rest) \in Seq(Item)
  BY <1>1, <1>2, HeadType DEF CallFormed
<1>4. Remaining(call[s].list, Head(call[s].rest).id, answer) \in Seq(Item)
  BY <1>2, <1>3, RemainingType
<1>5. /\ Goes(s, call'[s])
      /\ call'[s].kind = call[s].kind /\ call'[s].id = call[s].id
      /\ call'[s].at = "replay"
      /\ call'[s].list = Remaining(call[s].list, Head(call[s].rest).id, answer)
      /\ call'[s].rest = Tail(call[s].rest)
  <2> DEFINE offline == answer \in {"lost", "late"}
             list == Remaining(call[s].list, Head(call[s].rest).id, answer)
             rest == Tail(call[s].rest)
  <2>1. offline \in BOOLEAN
    OBVIOUS
  <2>2. call' = [call EXCEPT ![s] = [call[s] EXCEPT !.at = "replay", !.rest = rest,
                                                    !.list = list, !.offline = offline]]
    BY <1>1
  <2>3. list \in Seq(Item) /\ rest \in Seq(Item)
    BY <1>3, <1>4
  <2> HIDE DEF offline, list, rest
  <2>4. /\ Goes(s, call'[s])
        /\ call'[s].kind = call[s].kind /\ call'[s].id = call[s].id
        /\ call'[s].at = "replay" /\ call'[s].list = list /\ call'[s].rest = rest
    BY <1>2, <2>1, <2>2, <2>3, ReplayedOne
  <2> QED BY <2>4 DEF list, rest
<1>6. Went(s)
  BY <1>5, SameWent
<1>7. /\ applied' \in [Mutation -> 0..2] /\ settled' \in SUBSET Mutation
      /\ settled \subseteq settled'
  BY <1>1, <1>3, AnswerTypes
<1> QED BY <1>3, <1>5, <1>6, <1>7

LEMMA FinishWent ==
    ASSUME WellFormed, NEW s \in Slot, Finish(s)
    PROVE  /\ Went(s)
           /\ queue' \in Queues /\ queue'.user = queue.user /\ ~queue'.loading
           /\ call'[s].kind = call[s].kind /\ call'[s].id = call[s].id
           /\ call'[s].at = "persist" /\ call'[s].list = call[s].list
<1>1. /\ queue' = [queue EXCEPT !.loading = FALSE, !.syncing = FALSE, !.items = call[s].list]
      /\ Persists(s, call[s].list)
  BY DEF Finish
<1>2. call \in [Slot -> Calls] /\ queue \in Queues /\ call[s].list \in Seq(Item)
  BY TypesBefore
<1>3. /\ Goes(s, call'[s]) /\ call'[s].kind = call[s].kind /\ call'[s].id = call[s].id
      /\ call'[s].at = "persist" /\ call'[s].list = call[s].list
  BY <1>1, <1>2, Persisted
<1>4. queue' \in Queues /\ queue'.user = queue.user /\ ~queue'.loading
  BY <1>1, <1>2 DEF Queues
<1>5. Went(s)
  BY <1>3, SameWent
<1> QED BY <1>3, <1>4, <1>5

\* What is in the list in memory is a change.
LEMMA OfferedHas ==
    ASSUME WellFormed, NEW kind \in {"discard", "retry", "apply"},
           NEW m \in Mutation \cup {NoUser}, Offered(kind, m)
    PROVE  Has(queue.items, m) /\ m \in Mutation
<1>1. ASSUME NEW st, Entry(m, st) \in Members(queue.items)
      PROVE  Has(queue.items, m)
  <2>1. PICK i \in DOMAIN queue.items : queue.items[i] = Entry(m, st)
    BY <1>1 DEF Members
  <2>2. queue.items[i].id = m
    BY <2>1 DEF Entry
  <2> QED BY <2>2 DEF Has, Members, Ids
<1>2. Has(queue.items, m)
  BY <1>1 DEF Offered
<1>3. queue.items \in Seq(Item)
  BY Shape DEF WellFormed, Queues
<1> QED BY <1>2, <1>3, HasMutation

LEMMA CallWent ==
    ASSUME WellFormed, NEW s \in Slot, NEW kind \in Kinds, NEW m \in Mutation \cup {NoUser},
           Call(s, kind, m)
    PROVE  /\ Goes(s, call'[s]) /\ CallFormed(call'[s])
           /\ call'[s].at = "enter" /\ call'[s].kind = kind /\ call'[s].id = m
           /\ kind \in Named => m \in Mutation
           /\ author' \in [Mutation -> User \cup {NoUser}] /\ settled' \in SUBSET Mutation
           /\ kind = "mutate" => account \in User /\ author[m] = NoUser
<1>1. /\ Offered(kind, m)
      /\ call' = [call EXCEPT ![s] = [Idle EXCEPT !.at = "enter", !.kind = kind, !.id = m]]
      /\ author' = IF kind = "mutate" THEN [author EXCEPT ![m] = account] ELSE author
      /\ settled' = IF kind = "discard" THEN settled \cup {m} ELSE settled
  BY DEF Call
<1>2. /\ call \in [Slot -> Calls] /\ account \in User \cup {NoUser}
      /\ author \in [Mutation -> User \cup {NoUser}] /\ settled \in SUBSET Mutation
  BY Shape DEF WellFormed
<1>3. /\ Goes(s, call'[s])
      /\ call'[s].at = "enter" /\ call'[s].kind = kind /\ call'[s].id = m
  BY <1>1, <1>2, Entered
<1>4. kind = "mutate" => account \in User /\ author[m] = NoUser /\ m \in Mutation
  BY <1>1, <1>2 DEF Offered
<1>5. kind \in Named => m \in Mutation
  BY <1>1, <1>4, OfferedHas DEF Named
<1>6. CallFormed(call'[s])
  BY <1>3, <1>5 DEF CallFormed
<1>7. author' \in [Mutation -> User \cup {NoUser}] /\ settled' \in SUBSET Mutation
  BY <1>1, <1>2, <1>5 DEF Named
<1> QED BY <1>3, <1>4, <1>5, <1>6, <1>7

LEMMA SwitchWent ==
    ASSUME WellFormed, NEW s \in Slot, NEW u \in User \cup {NoUser}, SwitchTo(s, u)
    PROVE  Went(s) /\ call[s].at = "idle" /\ call'[s].at = "enter" /\ ~Bound(call'[s])
<1> DEFINE kind == IF u = NoUser THEN "initialize" ELSE "start"
<1>1. /\ call[s] = Idle
      /\ call' = [call EXCEPT ![s] = [Idle EXCEPT !.at = "enter", !.kind = kind]]
  BY DEF SwitchTo
<1>2. kind \in {"initialize", "start"} /\ kind \in Kinds
  BY DEF Kinds
<1> HIDE DEF kind
<1>3. /\ Goes(s, call'[s])
      /\ call'[s].at = "enter" /\ call'[s].kind = kind /\ call'[s].id = NoUser
  BY <1>1, <1>2, Started, TypesBefore
<1> QED BY <1>1, <1>2, <1>3, IdleAt DEF Went, Bound, CallFormed, SameChange, Named

LEMMA RefreshWent ==
    ASSUME WellFormed, NEW s \in Slot, NEW u \in User, Refresh(s, u)
    PROVE  /\ Went(s) /\ call[s].at \in {"request", "replaying"}
           /\ call'[s].at = call[s].at
<1>1. call' = [call EXCEPT ![s].as = u] /\ call[s].at \in {"request", "replaying"}
  BY DEF Refresh
<1>2. call \in [Slot -> Calls] /\ call[s] \in Calls /\ CallFormed(call[s])
  BY TypesBefore
<1>3. PICK new : new = [call[s] EXCEPT !.as = u]
  OBVIOUS
<1>4. /\ new \in Calls /\ new.kind = call[s].kind /\ new.id = call[s].id
      /\ new.at = call[s].at /\ new.rest = call[s].rest
  BY <1>2, <1>3 DEF Calls
<1>5. call' = [call EXCEPT ![s] = new]
  BY <1>1, <1>3
<1>6. Goes(s, call'[s]) /\ call'[s] = new
  BY <1>2, <1>4, <1>5, Going DEF Goes
<1>7. Went(s)
  BY <1>1, <1>2, <1>4, <1>6, SameWent DEF CallFormed
<1> QED BY <1>1, <1>4, <1>6, <1>7

\* A step of a call keeps the state well formed if it leaves types.
LEMMA FormedAfter ==
    ASSUME WellFormed, NEW s \in Slot, Goes(s, call'[s]), CallFormed(call'[s]),
           account' \in User \cup {NoUser}, disk' \in [User -> Seq(Item)], queue' \in Queues,
           author' \in [Mutation -> User \cup {NoUser}], accepted' \in SUBSET Mutation,
           settled' \in SUBSET Mutation, discarded' \in SUBSET Mutation,
           applied' \in [Mutation -> 0..2], stale' \in SUBSET Slot, torn' \in BOOLEAN
    PROVE  WellFormed'
<1>1. call' \in [Slot -> Calls]
  BY DEF Goes
<1>2. TypeOK'
  BY <1>1 DEF TypeOK, Calls, Queues
<1>3. ASSUME NEW r \in Slot
      PROVE  CallFormed(call'[r])
  BY TypesBefore DEF Goes
<1>4. \A r \in Slot : CallFormed(call[r])'
  BY <1>3 DEF CallFormed
<1> QED BY <1>2, <1>4 DEF WellFormed

\* Slots are marked, and whether a list is torn is a Boolean.
LEMMA MarksType ==
    ASSUME WellFormed, NEW missed \in SUBSET Slot, Marks(missed)
    PROVE  stale' \in SUBSET Slot
BY TypesBefore DEF Marks, WellFormed, TypeOK

LEMMA MovesType ==
    ASSUME WellFormed, NEW s \in Slot, Moves(s)
    PROVE  stale' \in SUBSET Slot
BY MarksType DEF Moves

LEMMA TypesLeft ==
    ASSUME WellFormed
    PROVE  /\ account \in User \cup {NoUser} /\ disk \in [User -> Seq(Item)]
           /\ queue \in Queues
           /\ author \in [Mutation -> User \cup {NoUser}] /\ accepted \in SUBSET Mutation
           /\ settled \in SUBSET Mutation /\ discarded \in SUBSET Mutation
           /\ applied \in [Mutation -> 0..2] /\ stale \in SUBSET Slot /\ torn \in BOOLEAN
BY Shape DEF WellFormed

LEMMA FormedNext ==
    ASSUME WellFormed, [Next]_vars
    PROVE  WellFormed'
<1>1. ASSUME NEW s \in Slot, Step(s)
      PROVE  WellFormed'
  <2>1. CASE Ensure(s)
    <3>1. /\ Moves(s) /\ UNCHANGED <<account, disk, deeds, torn>>
      BY <2>1 DEF Ensure
    <3> QED BY <2>1, <3>1, EnsureWent, MovesType, TypesLeft, FormedAfter DEF Went, deeds
  <2>2. CASE EnsureOther(s)
    <3>1. /\ Moves(s) /\ UNCHANGED <<account, disk, deeds, torn>>
      BY <2>2 DEF EnsureOther
    <3> QED BY <2>2, <3>1, EnsureOtherWent, MovesType, TypesLeft, FormedAfter DEF Went, deeds
  <2>3. CASE Load(s)
    <3>1. /\ Moves(s) /\ UNCHANGED <<account, disk, deeds>>
          /\ torn' = (torn \/ call[s].uid # queue.user)
      BY <2>3 DEF Load
    <3>2. torn' \in BOOLEAN
      BY <3>1, TypesLeft
    <3> QED BY <2>3, <3>1, <3>2, LoadWent, MovesType, TypesLeft, FormedAfter DEF Went, deeds
  <2>4. CASE EnsureNobody(s)
    <3>1. /\ Moves(s) /\ UNCHANGED <<account, disk, author, settled, discarded, applied>>
          /\ IF call[s].at = "persist" THEN Tears(s) ELSE UNCHANGED torn
      BY <2>4 DEF EnsureNobody
    <3>2. torn' \in BOOLEAN
      BY <3>1, TypesLeft DEF Tears
    <3> QED BY <2>4, <3>1, <3>2, EnsureNobodyWent, MovesType, TypesLeft, FormedAfter DEF Went
  <2>5. CASE Write(s)
    <3>1. /\ Marks({r \in Slot : Holds(call[r])}) /\ Tears(s)
          /\ UNCHANGED <<account, author, settled, applied>>
      BY <2>5 DEF Write
    <3>2. torn' \in BOOLEAN
      BY <3>1, TypesLeft DEF Tears
    <3>3. stale' \in SUBSET Slot
      BY <3>1, MarksType
    <3> QED BY <2>5, <3>1, <3>2, <3>3, WriteWent, TypesLeft, FormedAfter DEF Went
  <2>6. ASSUME NEW answer \in Answers, MutateAnswer(s, answer) PROVE WellFormed'
    <3>1. /\ Moves(s) /\ UNCHANGED <<account, disk, queue, author, accepted, discarded, torn>>
      BY <2>6 DEF MutateAnswer
    <3> QED BY <2>6, <3>1, MutateAnswerWent, MovesType, TypesLeft, FormedAfter DEF Went
  <2>7. ASSUME NEW answer \in Answers, ApplyAnswer(s, answer) PROVE WellFormed'
    <3>1. /\ Moves(s) /\ UNCHANGED <<account, disk, queue, author, accepted, discarded, torn>>
      BY <2>7 DEF ApplyAnswer
    <3> QED BY <2>7, <3>1, ApplyAnswerWent, MovesType, TypesLeft, FormedAfter DEF Went
  <2>8. ASSUME NEW answer \in Answers, ReplayAnswer(s, answer) PROVE WellFormed'
    <3>1. /\ Moves(s) /\ UNCHANGED <<account, disk, queue, author, accepted, discarded, torn>>
      BY <2>8 DEF ReplayAnswer
    <3> QED BY <2>8, <3>1, ReplayAnswerWent, MovesType, TypesLeft, FormedAfter DEF Went
  <2>9. CASE GiveUp(s)
    <3>1. /\ Return(s) /\ Moves(s) /\ UNCHANGED <<account, disk, queue, deeds, torn>>
      BY <2>9 DEF GiveUp
    <3> QED BY <3>1, IdleWent, MovesType, TypesLeft, FormedAfter DEF Went, deeds
  <2>10. CASE Keep(s)
    <3>1. UNCHANGED <<account, disk, queue, history>>
      BY <2>10 DEF Keep
    <3> QED BY <2>10, <3>1, KeepWent, TypesLeft, FormedAfter DEF Went, history, deeds
  <2>11. CASE Replay(s)
    <3>1. UNCHANGED <<account, disk, queue, history>>
      BY <2>11 DEF Replay
    <3> QED BY <2>11, <3>1, ReplayWent, TypesLeft, FormedAfter DEF Went, history, deeds
  <2>12. CASE Finish(s)
    <3>1. /\ Moves(s) /\ Tears(s) /\ UNCHANGED <<account, disk, deeds>>
      BY <2>12 DEF Finish
    <3>2. torn' \in BOOLEAN
      BY <3>1, TypesLeft DEF Tears
    <3> QED BY <2>12, <3>1, <3>2, FinishWent, MovesType, TypesLeft, FormedAfter DEF Went, deeds
  <2> QED BY <1>1, <2>1, <2>2, <2>3, <2>4, <2>5, <2>6, <2>7, <2>8, <2>9, <2>10, <2>11,
             <2>12 DEF Step
<1>2. ASSUME NEW s \in Slot, NEW kind \in Kinds, NEW m \in Mutation \cup {NoUser},
             Call(s, kind, m)
      PROVE  WellFormed'
  <2>1. /\ stale' \in SUBSET Slot
        /\ UNCHANGED <<account, disk, queue, accepted, discarded, applied, torn>>
    BY <1>2, MarksType DEF Call
  <2> QED BY <1>2, <2>1, CallWent, TypesLeft, FormedAfter
<1>3. ASSUME NEW s \in Slot, NEW u \in User \cup {NoUser}, SwitchTo(s, u)
      PROVE  WellFormed'
  <2>1. /\ account' = u /\ stale' \in SUBSET Slot
        /\ UNCHANGED <<disk, queue, deeds, torn>>
    BY <1>3, MarksType DEF SwitchTo
  <2> QED BY <1>3, <2>1, SwitchWent, TypesLeft, FormedAfter DEF Went, deeds
<1>4. ASSUME NEW s \in Slot, NEW u \in User, Refresh(s, u)
      PROVE  WellFormed'
  <2>1. /\ account' = u /\ stale' \in SUBSET Slot
        /\ UNCHANGED <<disk, queue, deeds, torn>>
    BY <1>4, MarksType DEF Refresh
  <2> QED BY <1>4, <2>1, RefreshWent, TypesLeft, FormedAfter DEF Went, deeds
<1>5. CASE Crash
  <2>1. /\ queue' = NoQueue /\ call' = [r \in Slot |-> Idle] /\ Marks({})
        /\ UNCHANGED <<account, disk, deeds, torn>>
    BY <1>5 DEF Crash
  <2>2. /\ call' \in [Slot -> Calls] /\ queue' \in Queues /\ stale' \in SUBSET Slot
        /\ \A s \in Slot : call'[s] = Idle
    BY <2>1, IdleIsCall, MarksType
  <2>3. TypeOK'
    BY <2>1, <2>2, TypesLeft DEF TypeOK, Calls, Queues, deeds
  <2>4. \A s \in Slot : CallFormed(call[s])'
    BY <2>2, IdleAt DEF CallFormed, Named
  <2> QED BY <2>3, <2>4 DEF WellFormed
<1>6. CASE UNCHANGED vars
  BY <1>6 DEF WellFormed, TypeOK, CallFormed, vars, history, deeds
<1> QED BY <1>1, <1>2, <1>3, <1>4, <1>5, <1>6 DEF Next

-----------------------------------------------------------------------------
(* While nothing is torn, the steps keep what is sound.                    *)

\* The step leaves accounts, lists and authors.
Tame == UNCHANGED <<account, disk, author, accepted, discarded>> /\ settled \subseteq settled'

\* Whose list is in memory stays so.
Steady == /\ SameUserLoaded => SameUserLoaded'
          /\ account # NoUser /\ queue.user = account => queue'.user = account

\* Who is not stale was not, but for a call that is about nothing.
NoneFreed == \A r \in Slot : r \notin stale' /\ Bound(call'[r]) => r \notin stale

LEMMA MarksFree ==
    ASSUME NEW missed, Marks(missed)
    PROVE  /\ NoneFreed
           /\ \A r \in Slot : r \notin stale' /\ Bound(call'[r]) => r \notin missed
BY DEF Marks, NoneFreed

\* A call that takes a list and is not stale found no list about to be replaced.
LEMMA MovesFree ==
    ASSUME NEW s \in Slot, Moves(s)
    PROVE  /\ NoneFreed
           /\ s \notin stale' /\ Bound(call'[s]) => s \notin stale /\ (Takes(s) => ~Unsteady(s))
<1>1. PICK missed : missed = IF Takes(s) /\ Unsteady(s) THEN {s} ELSE {}
  OBVIOUS
<1>2. Marks(missed)
  BY <1>1 DEF Moves
<1>3. /\ NoneFreed
      /\ \A r \in Slot : r \notin stale' /\ Bound(call'[r]) => r \notin missed
  BY <1>2, MarksFree
<1> QED BY <1>1, <1>3 DEF NoneFreed

LEMMA OwnedLater ==
    ASSUME Tame, NEW k, CallOwned(k)
    PROVE  CallOwned(k)'
BY DEF Tame, CallOwned

LEMMA RevisesLater ==
    ASSUME NEW k, NEW stored, NEW done, NEW later, Revises(k, stored, done), done \subseteq later
    PROVE  Revises(k, stored, later)
BY ShortenedLater DEF Revises

LEMMA PlacedLater ==
    ASSUME UNCHANGED <<account, disk>>, settled \subseteq settled', Steady,
           NEW k, CallPlaced(k)
    PROVE  CallPlaced(k)'
<1>1. PICK done : done = settled
  OBVIOUS
<1>2. PICK later : later = settled'
  OBVIOUS
<1>3. PICK d : d = disk[account]
  OBVIOUS
<1>4. done \subseteq later /\ disk'[account'] = d /\ account' = account
  BY <1>1, <1>2, <1>3
<1>5. k.at \in {"persist", "write"} => Revises(k, d, later)
  BY <1>1, <1>3, <1>4, RevisesLater DEF CallPlaced
<1>6. k.at \in {"replay", "replaying"} =>
        /\ k.kind = "sync" /\ Ends(k.rest, d)
        /\ Shortened(k.list, d, Len(d) - Len(k.rest), later)
  BY <1>1, <1>3, <1>4, ShortenedLater DEF CallPlaced
<1>7. /\ k.at \in {"request", "replay", "replaying", "persist", "write"} => SameUserLoaded'
      /\ k.at \in {"load", "write"} => account # NoUser /\ queue'.user = account /\ k.uid = account
  BY DEF CallPlaced, Steady
<1>8. /\ k.at # "reload"
      /\ k.at = "request" => /\ k.as = account /\ k.kind \in {"mutate", "apply"}
                             /\ k.kind = "apply" => Has(d, k.id)
      /\ k.at = "replaying" => k.as = account /\ Head(k.rest).status # "conflict"
  BY <1>3 DEF CallPlaced
<1> QED BY <1>2, <1>4, <1>5, <1>6, <1>7, <1>8 DEF CallPlaced

LEMMA TameData ==
    ASSUME Data, Tame
    PROVE  Data'
BY DEF Data, Tame, OwnItemsOnly, NothingLost, DiscardedIsGone

\* A call about nothing.
LEMMA UnboundSound ==
    ASSUME NEW k, CallFormed(k), ~Bound(k)
    PROVE  CallOwned(k)' /\ CallPlaced(k)'
<1>1. k.at \in {"idle", "enter"} /\ k.kind \notin Named
  BY NoUserAssumption DEF CallFormed, Bound
<1> QED BY <1>1 DEF CallOwned, CallPlaced, Named

LEMMA NamedBound ==
    ASSUME NEW k, CallFormed(k), k.kind \in Named
    PROVE  Bound(k) /\ k.id \in Mutation
BY NoUserAssumption DEF CallFormed, Bound

LEMMA ApartAfter ==
    ASSUME WellFormed, WellFormed', NEW s \in Slot, Goes(s, call'[s]), SameChange(s),
           Apart, NoneFreed
    PROVE  Apart'
<1> SUFFICES ASSUME NEW r \in Slot \ stale', NEW t \in Slot \ stale', r # t,
                    call'[r].kind = "mutate", call'[t].kind \in Named
             PROVE  call'[r].id # call'[t].id
  BY DEF Apart
<1>1. CallFormed(call'[r]) /\ CallFormed(call'[t])
  BY DEF WellFormed, CallFormed
<1>2. Bound(call'[r]) /\ Bound(call'[t])
  BY <1>1, NamedBound DEF Named
<1>3. r \in Slot \ stale /\ t \in Slot \ stale
  BY <1>2 DEF NoneFreed
<1>4. call[r].kind = "mutate" /\ call[r].id = call'[r].id
  BY DEF Goes, SameChange, Named
<1>5. call[t].kind \in Named /\ call[t].id = call'[t].id
  BY DEF Goes, SameChange, Named
<1> QED BY <1>3, <1>4, <1>5 DEF Apart

\* A tame step of a call.
LEMMA SoundAfter ==
    ASSUME WellFormed, WellFormed', Sound, NEW s \in Slot, Went(s), Tame, Steady, NoneFreed,
           QueueLoaded',
           s \notin stale' /\ Bound(call'[s]) => (CallOwned(call[s]) /\ CallPlaced(call[s]))'
    PROVE  Sound'
<1>1. Data' /\ Apart'
  BY TameData, ApartAfter DEF Sound, Went
<1>2. ASSUME NEW r \in Slot \ stale'
      PROVE  (CallOwned(call[r]) /\ CallPlaced(call[r]))'
  <2>1. PICK k : k = call'[r]
    OBVIOUS
  <2>2. CallFormed(k)
    BY <2>1 DEF WellFormed, CallFormed
  <2>3. CASE ~Bound(k)
    <3>1. CallOwned(k)' /\ CallPlaced(k)'
      BY <2>2, <2>3, UnboundSound
    <3> QED BY <2>1, <3>1 DEF CallOwned, CallPlaced
  <2>4. CASE Bound(k) /\ r = s
    BY <2>1, <2>4
  <2>5. CASE Bound(k) /\ r # s
    <3>1. k = call[r] /\ r \in Slot \ stale
      BY <2>1, <2>5 DEF Went, Goes, NoneFreed
    <3>2. CallOwned(k) /\ CallPlaced(k)
      BY <3>1 DEF Sound
    <3>3. CallOwned(k)' /\ CallPlaced(k)'
      BY <3>2, OwnedLater, PlacedLater DEF Tame
    <3> QED BY <2>1, <3>3 DEF CallOwned, CallPlaced
  <2> QED BY <2>3, <2>4, <2>5
<1> QED BY <1>1, <1>2 DEF Sound

\* The list in memory when no other call is about to replace it.
LEMMA Loaded ==
    ASSUME WellFormed, Sound, NEW s \in Slot, SameUserLoaded, ~Unsteady(s), ~Pending(call[s])
    PROVE  account \in User /\ queue.items = disk[account]
<1>1. account \in User /\ queue.user = account /\ ~queue.loading /\ account # NoUser
  BY TypesBefore DEF SameUserLoaded
<1>2. \A r \in Slot : ~Pending(call[r])
  BY DEF Unsteady
<1> QED BY <1>1, <1>2 DEF Sound, QueueLoaded

\* It stays what it is if the step does not touch it.
LEMMA LoadedAfter ==
    ASSUME QueueLoaded, NEW s \in Slot, Goes(s, call'[s]), disk' = disk,
           queue'.user = queue.user, queue'.loading = queue.loading,
           queue'.items = queue.items, Pending(call[s]) => Pending(call'[s])
    PROVE  QueueLoaded'
<1>1. ASSUME NEW r \in Slot, Pending(call[r])
      PROVE  Pending(call[r])'
  BY <1>1 DEF Goes, Pending
<1> QED BY <1>1 DEF QueueLoaded

\* The call is about the same change.
LEMMA OwnedSame ==
    ASSUME Tame, NEW s, CallOwned(call[s]),
           call'[s].kind = call[s].kind, call'[s].id = call[s].id
    PROVE  CallOwned(call[s])'
BY DEF Tame, CallOwned

\* Where a call goes with the stored list.
LEMMA ProceededPlaced ==
    ASSUME NEW s \in Slot, Proceeded(s, disk[account]), Bound(call'[s]), SameUserLoaded',
           UNCHANGED <<account, disk>>, settled \subseteq settled',
           account \in User, disk[account] \in Seq(Item)
    PROVE  CallPlaced(call[s])'
<1>1. CASE call'[s].at = "request"
  BY <1>1 DEF Proceeded, CallPlaced
<1>2. CASE call'[s].at = "replay"
  <2>1. /\ call'[s].kind = "sync"
        /\ call'[s].rest = disk[account] /\ call'[s].list = <<>>
    BY <1>2 DEF Proceeded
  <2>2. PICK d, done : d = disk[account] /\ done = settled'
    OBVIOUS
  <2>3. Ends(d, d) /\ Shortened(<<>>, d, Len(d) - Len(d), done)
    BY <2>2, ShortenedNothing
  <2> QED BY <1>2, <2>1, <2>2, <2>3 DEF CallPlaced
<1>3. CASE call'[s].at = "persist"
  <2>1. "pending" \in Statuses
    BY DEF Statuses
  <2>2. Revises(call'[s], disk[account], settled')
    BY <1>3, <2>1 DEF Proceeded, Revises
  <2> QED BY <1>3, <2>2 DEF CallPlaced
<1> QED BY <1>1, <1>2, <1>3 DEF Proceeded

\* What a call does with the list it found is a matter of that list only if it
\* takes it.
LEMMA ProceededTakes ==
    ASSUME NEW s \in Slot, NEW items, Proceeded(s, items), Bound(call'[s]),
           call[s].at \in {"enter", "load"}, ~Takes(s)
    PROVE  Proceeded(s, disk[account])
<1>1. ~Holds(call'[s])
  BY DEF Takes
<1> QED BY <1>1 DEF Proceeded, Holds

LEMMA EnsureSound ==
    ASSUME WellFormed, WellFormed', Sound, NEW s \in Slot, Ensure(s)
    PROVE  Sound'
<1>1. /\ call[s].at \in {"enter", "persist"} /\ SameUserLoaded /\ Moves(s)
      /\ UNCHANGED <<account, disk, deeds, torn>>
  BY DEF Ensure
<1>2. /\ Went(s)
      /\ queue'.user = queue.user /\ queue'.loading = queue.loading
      /\ queue'.items = queue.items
      /\ call[s].at = "enter" => Proceeded(s, queue.items)
      /\ call[s].at = "persist" =>
           /\ queue' = queue
           /\ call'[s].at = "write" /\ call'[s].uid = queue.user
           /\ call'[s].kind = call[s].kind /\ call'[s].id = call[s].id
           /\ call'[s].list = call[s].list
  BY EnsureWent
<1>3. Tame /\ Steady /\ SameUserLoaded'
  BY <1>1, <1>2 DEF Tame, Steady, SameUserLoaded, deeds
<1>4. NoneFreed /\ (s \notin stale' /\ Bound(call'[s]) => s \notin stale /\ (Takes(s) => ~Unsteady(s)))
  BY <1>1, MovesFree
<1>5. QueueLoaded'
  BY <1>1, <1>2, LoadedAfter DEF Sound, Pending, Went
<1>6. ASSUME s \notin stale', Bound(call'[s])
      PROVE  (CallOwned(call[s]) /\ CallPlaced(call[s]))'
  <2>1. CallOwned(call[s]) /\ CallPlaced(call[s])
    BY <1>4, <1>6 DEF Sound
  <2>2. account \in User /\ disk[account] \in Seq(Item)
    BY <1>1, TypesBefore DEF SameUserLoaded
  <2>3. CASE call[s].at = "enter"
    <3>1. Proceeded(s, disk[account])
      <4>1. CASE Takes(s)
        <5>1. queue.items = disk[account]
          BY <1>1, <1>4, <1>6, <2>3, <4>1, Loaded DEF Pending
        <5> QED BY <1>2, <2>3, <5>1
      <4>2. CASE ~Takes(s)
        BY <1>2, <1>6, <2>3, <4>2, ProceededTakes
      <4> QED BY <4>1, <4>2
    <3>2. CallPlaced(call[s])'
      BY <1>1, <1>3, <1>6, <2>2, <3>1, ProceededPlaced DEF Tame
    <3>3. call'[s].kind \in Named => call'[s].kind = call[s].kind /\ call'[s].id = call[s].id
      BY <3>1 DEF Proceeded
    <3>4. CallOwned(call[s])'
      BY <1>3, <2>1, <3>3 DEF Tame, CallOwned, Named
    <3> QED BY <3>2, <3>4
  <2>4. CASE call[s].at = "persist"
    <3>1. CallOwned(call[s])'
      BY <1>2, <1>3, <2>1, <2>4, OwnedSame
    <3>2. Revises(call'[s], disk[account], settled')
      <4>1. Revises(call[s], disk[account], settled) /\ settled' = settled
        BY <1>1, <2>1, <2>4 DEF CallPlaced, deeds
      <4> QED BY <1>2, <2>4, <4>1 DEF Revises
    <3>3. CallPlaced(call[s])'
      BY <1>1, <1>2, <1>3, <2>4, <3>2 DEF CallPlaced, SameUserLoaded
    <3> QED BY <3>1, <3>3
  <2> QED BY <1>1, <2>3, <2>4
<1> QED BY <1>2, <1>3, <1>4, <1>5, <1>6, SoundAfter

LEMMA EnsureOtherSound ==
    ASSUME WellFormed, WellFormed', Sound, NEW s \in Slot, EnsureOther(s)
    PROVE  Sound'
<1>1. /\ call[s].at \in {"enter", "persist"} /\ ~SameUserLoaded /\ Moves(s)
      /\ account # NoUser /\ UNCHANGED <<account, disk, deeds, torn>>
  BY DEF EnsureOther
<1>2. /\ Went(s) /\ queue'.user = account
      /\ call'[s].kind = call[s].kind /\ call'[s].id = call[s].id
      /\ call'[s].at = (IF call[s].at = "enter" THEN "load" ELSE "reload")
      /\ call'[s].uid = account
  BY EnsureOtherWent
<1>3. Tame /\ Steady
  BY <1>1, <1>2 DEF Tame, Steady, deeds
<1>4. NoneFreed /\ (s \notin stale' /\ Bound(call'[s]) => s \notin stale)
  BY <1>1, MovesFree
<1>5. QueueLoaded'
  BY <1>2 DEF QueueLoaded, Pending
<1>6. ASSUME s \notin stale', Bound(call'[s])
      PROVE  (CallOwned(call[s]) /\ CallPlaced(call[s]))'
  <2>1. CallOwned(call[s]) /\ CallPlaced(call[s])
    BY <1>4, <1>6 DEF Sound
  <2>2. call[s].at = "enter"
    BY <1>1, <2>1 DEF CallPlaced
  <2>3. CallPlaced(call[s])'
    BY <1>1, <1>2, <2>2 DEF CallPlaced
  <2> QED BY <1>2, <1>3, <2>1, <2>3, OwnedSame
<1> QED BY <1>2, <1>3, <1>4, <1>5, <1>6, SoundAfter

LEMMA LoadSound ==
    ASSUME WellFormed, WellFormed', Sound, NEW s \in Slot, Load(s), ~torn'
    PROVE  Sound'
<1>1. /\ call[s].at \in {"load", "reload"} /\ Moves(s) /\ call[s].uid = queue.user
      /\ UNCHANGED <<account, disk, deeds>>
  BY DEF Load
<1>2. /\ Went(s) /\ call[s].uid \in User
      /\ queue'.user = queue.user /\ ~queue'.loading
      /\ queue'.items = disk[call[s].uid]
      /\ call[s].at = "load" => Proceeded(s, disk[call[s].uid])
  BY LoadWent
<1>3. Tame /\ Steady
  BY <1>1, <1>2 DEF Tame, Steady, deeds, SameUserLoaded
<1>4. NoneFreed /\ (s \notin stale' /\ Bound(call'[s]) => s \notin stale)
  BY <1>1, MovesFree
<1>5. QueueLoaded'
  BY <1>1, <1>2 DEF QueueLoaded
<1>6. ASSUME s \notin stale', Bound(call'[s])
      PROVE  (CallOwned(call[s]) /\ CallPlaced(call[s]))'
  <2>1. CallOwned(call[s]) /\ CallPlaced(call[s])
    BY <1>4, <1>6 DEF Sound
  <2>2. /\ call[s].at = "load" /\ account # NoUser /\ queue.user = account
        /\ call[s].uid = account
    BY <1>1, <2>1 DEF CallPlaced
  <2>3. SameUserLoaded' /\ account \in User /\ disk[account] \in Seq(Item)
    BY <1>1, <1>2, <2>2, TypesBefore DEF SameUserLoaded
  <2>4. Proceeded(s, disk[account])
    BY <1>2, <2>2
  <2>5. CallPlaced(call[s])'
    BY <1>1, <1>3, <1>6, <2>3, <2>4, ProceededPlaced DEF Tame
  <2>6. call'[s].kind \in Named => call'[s].kind = call[s].kind /\ call'[s].id = call[s].id
    BY <2>4 DEF Proceeded
  <2>7. CallOwned(call[s])'
    BY <1>3, <2>1, <2>6 DEF Tame, CallOwned, Named
  <2> QED BY <2>5, <2>7
<1> QED BY <1>2, <1>3, <1>4, <1>5, <1>6, SoundAfter

\* Nobody is signed in: what was about to be stored belongs to a stale call.
LEMMA EnsureNobodySound ==
    ASSUME WellFormed, WellFormed', Sound, NEW s \in Slot, EnsureNobody(s), ~torn'
    PROVE  Sound'
<1>1. /\ call[s].at \in {"enter", "persist"} /\ account = NoUser /\ Moves(s)
      /\ accepted' = IF call[s].at = "persist" /\ call[s].kind = "mutate"
                     THEN accepted \cup {call[s].id} ELSE accepted
      /\ IF call[s].at = "persist" THEN Tears(s) ELSE UNCHANGED torn
      /\ UNCHANGED <<account, disk, author, settled, discarded, applied>>
  BY DEF EnsureNobody
<1>2. Went(s) /\ ~Bound(call'[s]) /\ queue'.user = NoUser
  BY EnsureNobodyWent
<1>3. call[s].at = "enter"
  <2> SUFFICES ASSUME call[s].at = "persist" PROVE FALSE
    BY <1>1
  <2>1. s \notin stale
    BY <1>1 DEF Tears
  <2>2. SameUserLoaded
    BY <2>1 DEF Sound, CallPlaced
  <2> QED BY <1>1, <2>2 DEF SameUserLoaded
<1>4. Tame /\ Steady
  BY <1>1, <1>3 DEF Tame, Steady, SameUserLoaded
<1>5. NoneFreed
  BY <1>1, MovesFree
<1>6. QueueLoaded'
  BY <1>2 DEF QueueLoaded
<1> QED BY <1>2, <1>4, <1>5, <1>6, SoundAfter

LEMMA MutateAnswerSound ==
    ASSUME WellFormed, WellFormed', Sound, NEW s \in Slot, NEW answer \in Answers,
           MutateAnswer(s, answer)
    PROVE  Sound'
<1>1. /\ call[s].at = "request" /\ call[s].kind = "mutate" /\ Moves(s)
      /\ UNCHANGED <<account, disk, queue, author, accepted, discarded, torn>>
  BY DEF MutateAnswer
<1>2. /\ Went(s) /\ settled \subseteq settled'
      /\ \/ ~Bound(call'[s])
         \/ /\ call'[s].at = "persist" /\ call'[s].kind = "mutate"
            /\ \E st \in Statuses : call'[s].list = Append(queue.items, Entry(call[s].id, st))
            /\ call'[s].id = call[s].id
  BY MutateAnswerWent
<1>3. Tame /\ Steady
  BY <1>1, <1>2 DEF Tame, Steady, SameUserLoaded
<1>4. NoneFreed /\ (s \notin stale' /\ Bound(call'[s]) => s \notin stale /\ (Takes(s) => ~Unsteady(s)))
  BY <1>1, MovesFree
<1>5. QueueLoaded'
  BY <1>1, <1>2, LoadedAfter DEF Sound, Pending, Went
<1>6. ASSUME s \notin stale', Bound(call'[s])
      PROVE  (CallOwned(call[s]) /\ CallPlaced(call[s]))'
  <2>1. CallOwned(call[s]) /\ CallPlaced(call[s]) /\ SameUserLoaded
    BY <1>1, <1>4, <1>6 DEF Sound, CallPlaced
  <2>2. Takes(s)
    BY <1>1, <1>2, <1>6 DEF Takes, Holds
  <2>3. queue.items = disk[account]
    BY <1>1, <1>4, <1>6, <2>1, <2>2, Loaded DEF Pending
  <2>4. Revises(call'[s], disk[account], settled')
    BY <1>2, <1>6, <2>3 DEF Revises
  <2>5. CallPlaced(call[s])'
    BY <1>1, <1>2, <1>3, <1>6, <2>1, <2>4 DEF CallPlaced, Steady
  <2> QED BY <1>1, <1>2, <1>3, <1>6, <2>1, <2>5, OwnedSame
<1> QED BY <1>2, <1>3, <1>4, <1>5, <1>6, SoundAfter

LEMMA ApplyAnswerSound ==
    ASSUME WellFormed, WellFormed', Sound, NEW s \in Slot, NEW answer \in Answers,
           ApplyAnswer(s, answer)
    PROVE  Sound'
<1>1. /\ call[s].at = "request" /\ call[s].kind = "apply" /\ Moves(s)
      /\ UNCHANGED <<account, disk, queue, author, accepted, discarded, torn>>
  BY DEF ApplyAnswer
<1>2. /\ Went(s) /\ settled \subseteq settled'
      /\ \/ /\ call'[s].at = "enter" /\ call'[s].kind = "discard"
            /\ call'[s].id = call[s].id /\ call[s].id \in settled'
         \/ /\ call'[s].at = "persist" /\ call'[s].kind = "apply"
            /\ call'[s].id = call[s].id
            /\ \E st \in Statuses : call'[s].list = WithStatus(queue.items, call[s].id, st)
  BY ApplyAnswerWent
<1>3. Tame /\ Steady
  BY <1>1, <1>2 DEF Tame, Steady, SameUserLoaded
<1>4. NoneFreed /\ (s \notin stale' /\ Bound(call'[s]) => s \notin stale /\ (Takes(s) => ~Unsteady(s)))
  BY <1>1, MovesFree
<1>5. QueueLoaded'
  BY <1>1, <1>2, LoadedAfter DEF Sound, Pending, Went
<1>6. ASSUME s \notin stale', Bound(call'[s])
      PROVE  (CallOwned(call[s]) /\ CallPlaced(call[s]))'
  <2>1. CallOwned(call[s]) /\ CallPlaced(call[s]) /\ SameUserLoaded
    BY <1>1, <1>4, <1>6 DEF Sound, CallPlaced
  <2>2. account # NoUser /\ author[call[s].id] = account
    BY <1>1, <2>1 DEF CallOwned, Named
  <2>3. CASE call'[s].at = "enter"
    BY <1>1, <1>2, <2>2, <2>3 DEF CallOwned, CallPlaced
  <2>4. CASE call'[s].at = "persist"
    <3>1. Takes(s)
      BY <1>1, <2>4 DEF Takes, Holds
    <3>2. queue.items = disk[account]
      BY <1>1, <1>4, <1>6, <2>1, <3>1, Loaded DEF Pending
    <3>3. Revises(call'[s], disk[account], settled')
      BY <1>2, <2>4, <3>2 DEF Revises
    <3>4. CallPlaced(call[s])'
      BY <1>1, <1>3, <2>1, <2>4, <3>3 DEF CallPlaced, Steady
    <3> QED BY <1>1, <1>2, <1>3, <2>1, <2>4, <3>4, OwnedSame
  <2> QED BY <1>2, <2>3, <2>4
<1> QED BY <1>2, <1>3, <1>4, <1>5, <1>6, SoundAfter

LEMMA GiveUpSound ==
    ASSUME WellFormed, WellFormed', Sound, NEW s \in Slot, GiveUp(s)
    PROVE  Sound'
<1>1. /\ call[s].at = "request" /\ call[s].kind = "apply" /\ Return(s) /\ Moves(s)
      /\ UNCHANGED <<account, disk, queue, deeds, torn>>
  BY DEF GiveUp
<1>2. Went(s) /\ ~Bound(call'[s])
  BY <1>1, IdleWent
<1>3. Tame /\ Steady /\ NoneFreed
  BY <1>1, MovesFree DEF Tame, Steady, SameUserLoaded, deeds
<1>4. QueueLoaded'
  BY <1>1, <1>2, LoadedAfter DEF Sound, Pending, Went
<1> QED BY <1>2, <1>3, <1>4, SoundAfter

LEMMA KeepSound ==
    ASSUME WellFormed, WellFormed', Sound, NEW s \in Slot, Keep(s)
    PROVE  Sound'
<1>1. /\ call[s].at = "replay" /\ call[s].rest # <<>>
      /\ UNCHANGED <<account, disk, queue, history>>
  BY DEF Keep
<1>2. /\ Went(s)
      /\ call'[s].kind = call[s].kind /\ call'[s].id = call[s].id
      /\ call'[s].at = "replay" /\ call'[s].list = Append(call[s].list, Head(call[s].rest))
      /\ call'[s].rest = Tail(call[s].rest)
  BY KeepWent
<1>3. Tame /\ Steady /\ NoneFreed
  BY <1>1 DEF Tame, Steady, NoneFreed, SameUserLoaded, history, deeds
<1>4. QueueLoaded'
  BY <1>1, <1>2, LoadedAfter DEF Sound, Pending, Went
<1>5. ASSUME s \notin stale', Bound(call'[s])
      PROVE  (CallOwned(call[s]) /\ CallPlaced(call[s]))'
  <2> DEFINE stored == disk[account]
             n == Len(stored) - Len(call[s].rest)
  <2>1. CallOwned(call[s]) /\ CallPlaced(call[s]) /\ SameUserLoaded
    BY <1>1, <1>3, <1>5 DEF Sound, CallPlaced, NoneFreed
  <2>2. /\ account \in User /\ stored \in Seq(Item) /\ IsInjective(Ids(stored))
        /\ call[s].list \in Seq(Item) /\ call[s].rest \in Seq(Item)
    BY <2>1, TypesBefore DEF SameUserLoaded, Sound, Data
  <2>3. /\ call[s].kind = "sync"
        /\ Ends(call[s].rest, stored) /\ Shortened(call[s].list, stored, n, settled)
    BY <1>1, <2>1 DEF CallPlaced
  <2>4. /\ n + 1 \in 1..Len(stored) /\ Head(call[s].rest) = stored[n + 1]
        /\ Head(call[s].rest) \in Item /\ Ends(Tail(call[s].rest), stored)
        /\ n \in Nat /\ n < Len(stored) /\ Len(stored) - Len(Tail(call[s].rest)) = n + 1
    BY <1>1, <2>2, <2>3, NextItem
  <2>5. Shortened(call'[s].list, stored, n + 1, settled)
    BY <1>2, <2>2, <2>3, <2>4, ShortenedKept
  <2>6. CallPlaced(call[s])'
    <3> HIDE DEF n
    <3>1. /\ UNCHANGED <<account, disk, settled>> /\ SameUserLoaded'
      BY <1>1, <1>3, <2>1 DEF Steady, history, deeds
    <3> QED BY <1>2, <2>3, <2>4, <2>5, <3>1 DEF CallPlaced
  <2> QED BY <1>2, <1>3, <2>1, <2>6, OwnedSame
<1> QED BY <1>2, <1>3, <1>4, <1>5, SoundAfter

LEMMA ReplaySound ==
    ASSUME WellFormed, WellFormed', Sound, NEW s \in Slot, Replay(s)
    PROVE  Sound'
<1>1. /\ call[s].at = "replay" /\ call[s].rest # <<>> /\ ~Keeps(call[s])
      /\ UNCHANGED <<account, disk, queue, history>>
  BY DEF Replay
<1>2. /\ Went(s)
      /\ call'[s].kind = call[s].kind /\ call'[s].id = call[s].id
      /\ call'[s].at = "replaying" /\ call'[s].as = account
      /\ call'[s].list = call[s].list /\ call'[s].rest = call[s].rest
  BY ReplayWent
<1>3. Tame /\ Steady /\ NoneFreed
  BY <1>1 DEF Tame, Steady, NoneFreed, SameUserLoaded, history, deeds
<1>4. QueueLoaded'
  BY <1>1, <1>2, LoadedAfter DEF Sound, Pending, Went
<1>5. ASSUME s \notin stale', Bound(call'[s])
      PROVE  (CallOwned(call[s]) /\ CallPlaced(call[s]))'
  <2>1. CallOwned(call[s]) /\ CallPlaced(call[s]) /\ SameUserLoaded
    BY <1>1, <1>3, <1>5 DEF Sound, CallPlaced, NoneFreed
  <2>2. Head(call[s].rest).status # "conflict"
    BY <1>1 DEF Keeps
  <2>3. UNCHANGED <<account, disk, settled>> /\ SameUserLoaded'
    BY <1>1, <1>3, <2>1 DEF Steady, history, deeds
  <2>4. CallPlaced(call[s])'
    BY <1>1, <1>2, <2>1, <2>2, <2>3 DEF CallPlaced
  <2> QED BY <1>2, <1>3, <2>1, <2>4, OwnedSame
<1> QED BY <1>2, <1>3, <1>4, <1>5, SoundAfter

LEMMA ReplayAnswerSound ==
    ASSUME WellFormed, WellFormed', Sound, NEW s \in Slot, NEW answer \in Answers,
           ReplayAnswer(s, answer)
    PROVE  Sound'
<1> DEFINE m == Head(call[s].rest).id
<1>1. /\ call[s].at = "replaying" /\ Moves(s) /\ Settles(m, answer)
      /\ UNCHANGED <<account, disk, queue, author, accepted, discarded, torn>>
  BY DEF ReplayAnswer
<1>2. /\ Went(s) /\ call[s].rest # <<>> /\ m \in Mutation /\ settled \subseteq settled'
      /\ call'[s].kind = call[s].kind /\ call'[s].id = call[s].id
      /\ call'[s].at = "replay"
      /\ call'[s].list = Remaining(call[s].list, m, answer)
      /\ call'[s].rest = Tail(call[s].rest)
  BY ReplayAnswerWent
<1>3. Tame /\ Steady
  BY <1>1, <1>2 DEF Tame, Steady, SameUserLoaded
<1>4. NoneFreed
  BY <1>1, MovesFree
<1>5. QueueLoaded'
  BY <1>1, <1>2, LoadedAfter DEF Sound, Pending, Went
<1>6. ASSUME s \notin stale', Bound(call'[s])
      PROVE  (CallOwned(call[s]) /\ CallPlaced(call[s]))'
  <2> DEFINE stored == disk[account]
             n == Len(stored) - Len(call[s].rest)
  <2>1. CallOwned(call[s]) /\ CallPlaced(call[s]) /\ SameUserLoaded
    BY <1>1, <1>4, <1>6 DEF Sound, CallPlaced, NoneFreed
  <2>2. /\ account \in User /\ stored \in Seq(Item) /\ IsInjective(Ids(stored))
        /\ call[s].list \in Seq(Item) /\ call[s].rest \in Seq(Item)
    BY <2>1, TypesBefore DEF SameUserLoaded, Sound, Data
  <2>3. /\ call[s].kind = "sync"
        /\ Ends(call[s].rest, stored) /\ Shortened(call[s].list, stored, n, settled)
    BY <1>1, <2>1 DEF CallPlaced
  <2>4. /\ n + 1 \in 1..Len(stored) /\ Head(call[s].rest) = stored[n + 1]
        /\ Ends(Tail(call[s].rest), stored)
        /\ n \in Nat /\ n < Len(stored) /\ Len(stored) - Len(Tail(call[s].rest)) = n + 1
    BY <1>2, <2>2, <2>3, NextItem
  <2>5. Shortened(call[s].list, stored, n, settled')
    BY <1>2, <2>3, ShortenedLater
  <2> HIDE DEF n
  <2>6. Shortened(Remaining(call[s].list, m, answer), stored, n + 1, settled')
    <3>1. CASE answer = "ok"
      <4>1. stored[n + 1].id \in settled'
        BY <1>1, <2>4, <3>1 DEF Settles
      <4> QED BY <2>2, <2>4, <2>5, <3>1, <4>1, ShortenedLeft DEF Remaining
    <3>2. CASE answer # "ok"
      <4>1. PICK e \in Item : e = Entry(m, StatusOf(answer)) /\ e.id = m
        BY <1>2, <3>2, StatusOfType, EntryIsItem DEF Entry
      <4>2. Remaining(call[s].list, m, answer) = Append(call[s].list, e)
        BY <3>2, <4>1 DEF Remaining
      <4>3. e.id = stored[n + 1].id
        BY <2>4, <4>1
      <4>4. Shortened(Append(call[s].list, e), stored, n + 1, settled')
        BY <2>2, <2>4, <2>5, <4>3, ShortenedKept
      <4> QED BY <4>2, <4>4
    <3> QED BY <3>1, <3>2
  <2>7. CallPlaced(call[s])'
    <3>1. UNCHANGED <<account, disk>> /\ SameUserLoaded'
      BY <1>1, <1>3, <2>1 DEF Steady
    <3> QED BY <1>2, <2>3, <2>4, <2>6, <3>1 DEF CallPlaced
  <2> QED BY <1>2, <1>3, <2>1, <2>7, OwnedSame
<1> QED BY <1>2, <1>3, <1>4, <1>5, <1>6, SoundAfter

LEMMA FinishSound ==
    ASSUME WellFormed, WellFormed', Sound, NEW s \in Slot, Finish(s), ~torn'
    PROVE  Sound'
<1>1. /\ call[s].at = "replay" /\ call[s].rest = <<>> /\ Moves(s) /\ Tears(s)
      /\ UNCHANGED <<account, disk, deeds>>
  BY DEF Finish
<1>2. /\ Went(s) /\ queue'.user = queue.user /\ ~queue'.loading
      /\ call'[s].kind = call[s].kind /\ call'[s].id = call[s].id
      /\ call'[s].at = "persist" /\ call'[s].list = call[s].list
  BY FinishWent
<1>3. Tame /\ Steady /\ NoneFreed
  BY <1>1, <1>2, MovesFree DEF Tame, Steady, SameUserLoaded, deeds
<1>4. s \notin stale
  BY <1>1 DEF Tears
<1>5. CallOwned(call[s]) /\ CallPlaced(call[s]) /\ SameUserLoaded /\ call[s].kind = "sync"
  BY <1>1, <1>4 DEF Sound, CallPlaced
<1>6. QueueLoaded'
  BY <1>2, <1>5 DEF QueueLoaded, Pending
<1>7. (CallOwned(call[s]) /\ CallPlaced(call[s]))'
  <2>1. account \in User /\ disk[account] \in Seq(Item) /\ call[s].rest \in Seq(Item)
    BY <1>5, TypesBefore DEF SameUserLoaded
  <2>2. Len(disk[account]) - Len(call[s].rest) = Len(disk[account])
    BY <1>1, <2>1
  <2>3. Shortened(call[s].list, disk[account], Len(disk[account]), settled)
    BY <1>1, <1>5, <2>2 DEF CallPlaced
  <2>4. UNCHANGED <<account, disk, settled>> /\ SameUserLoaded'
    BY <1>1, <1>3, <1>5 DEF Steady, deeds
  <2>5. CallPlaced(call[s])'
    BY <1>2, <1>5, <2>3, <2>4 DEF CallPlaced, Revises
  <2> QED BY <1>2, <1>3, <1>5, <2>5, OwnedSame
<1> QED BY <1>2, <1>3, <1>6, <1>7, SoundAfter

\* The write of a list: what it may lack is settled, what it adds is the
\* author's, and a discarded change is not in it.
LEMMA WriteData ==
    ASSUME WellFormed, Sound, NEW s \in Slot, Write(s), s \notin stale
    PROVE  /\ Data'
           /\ account \in User /\ queue.user = account /\ SameUserLoaded
           /\ disk' = [disk EXCEPT ![account] = call[s].list]
           /\ Revises(call[s], disk[account], settled)
           /\ call[s].kind \in Named \cup {"sync"}
           /\ \A u \in User : \A m : Has(disk'[u], m) =>
                Has(disk[u], m) \/ (call[s].kind = "mutate" /\ m = call[s].id)
<1> DEFINE k == call[s]
<1>1. /\ k.at = "write"
      /\ disk' = [disk EXCEPT ![k.uid] = k.list]
      /\ accepted' = IF k.kind = "mutate" THEN accepted \cup {k.id} ELSE accepted
      /\ discarded' = IF k.kind = "discard" THEN discarded \cup {k.id} ELSE discarded
      /\ UNCHANGED <<account, author, settled, applied>>
  BY DEF Write, StorageKey
<1>2. CallOwned(k) /\ CallPlaced(k) /\ Data /\ k \in Calls /\ CallFormed(k)
  BY TypesBefore DEF Sound
<1>3. /\ SameUserLoaded /\ account \in User /\ queue.user = account /\ k.uid = account
      /\ Revises(k, disk[account], settled)
  BY <1>1, <1>2, TypesBefore DEF CallPlaced, SameUserLoaded
<1>4. /\ k.list \in Seq(Item) /\ disk[account] \in Seq(Item)
      /\ \A u \in User : IsInjective(Ids(disk[u]))
      /\ k.id \in Mutation \cup {NoUser} /\ disk \in [User -> Seq(Item)]
  BY <1>2, <1>3, TypesBefore, TypesLeft DEF Calls, Data
<1>5. /\ k.kind \in Named \cup {"sync"}
      /\ k.kind \in Named => k.id \in Mutation /\ author[k.id] = account
  BY <1>2, <1>3 DEF Revises, CallOwned, CallFormed, Named
<1>6. /\ IsInjective(Ids(k.list))
      /\ \A m : Has(k.list, m) => Has(disk[account], m) \/ (k.kind = "mutate" /\ m = k.id)
      /\ \A m : Has(disk[account], m) => Has(k.list, m) \/ m \in settled
      /\ k.kind = "mutate" => Has(k.list, k.id)
      /\ k.kind = "discard" => ~Has(k.list, k.id)
  <2>1. k.kind # "sync" => k.id \in Mutation
    BY <1>5
  <2>2. /\ k.kind = "mutate" => ~Has(disk[account], k.id)
        /\ k.kind = "discard" => k.id \in settled
    BY <1>2, <1>3 DEF CallOwned
  <2> HIDE DEF k
  <2> QED BY <1>3, <1>4, <2>1, <2>2, RevisedList
<1>7. /\ disk'[account] = k.list /\ \A u \in User \ {account} : disk'[u] = disk[u]
  BY <1>1, <1>3, <1>4
<1>8. /\ \A u \in User : \A m : Has(disk[u], m) => author[m] = u
      /\ \A m \in accepted \ settled : Has(disk[author[m]], m)
      /\ \A u \in User : \A m : Has(disk[u], m) => m \notin discarded
      /\ \A m \in accepted \cup discarded : author[m] # NoUser
  BY <1>2 DEF Data, OwnItemsOnly, NothingLost, DiscardedIsGone, Has
<1>9. ASSUME NEW u \in User, NEW m, Has(disk'[u], m)
      PROVE  /\ author[m] = u /\ m \notin discarded'
             /\ Has(disk[u], m) \/ (k.kind = "mutate" /\ m = k.id)
  <2>1. CASE u = account
    <3>1. Has(disk[account], m) \/ (k.kind = "mutate" /\ m = k.id)
      BY <1>6, <1>7, <1>9, <2>1
    <3>2. author[m] = u
      BY <1>3, <1>5, <1>8, <2>1, <3>1 DEF Named
    <3>3. m \notin discarded
      BY <1>2, <1>3, <1>8, <2>1, <3>1 DEF CallOwned
    <3>4. k.kind = "discard" => m # k.id
      BY <1>6, <1>7, <1>9, <2>1
    <3> QED BY <1>1, <2>1, <3>1, <3>2, <3>3, <3>4
  <2>2. CASE u # account
    <3>1. Has(disk[u], m) /\ author[m] = u /\ m \notin discarded
      BY <1>7, <1>8, <1>9, <2>2
    <3>2. k.kind = "discard" => m # k.id
      BY <1>5, <2>2, <3>1 DEF Named
    <3> QED BY <1>1, <3>1, <3>2
  <2> QED BY <2>1, <2>2
<1>10. ASSUME NEW m \in accepted' \ settled
       PROVE  Has(disk'[author[m]], m) /\ author[m] # NoUser
  <2>1. CASE m \in accepted
    <3>1. Has(disk[author[m]], m) /\ author[m] # NoUser
      BY <1>8, <1>10, <2>1
    <3>2. author[m] \in User
      BY <2>1, <3>1, TypesLeft
    <3> QED BY <1>6, <1>7, <1>10, <3>1, <3>2
  <2>2. CASE m \notin accepted
    <3>1. k.kind = "mutate" /\ m = k.id
      BY <1>1, <1>10, <2>2
    <3> QED BY <1>3, <1>5, <1>6, <1>7, <3>1, NoUserAssumption DEF Named
  <2> QED BY <2>1, <2>2
<1>11. \A m \in accepted' \cup discarded' : author[m] # NoUser
  BY <1>1, <1>3, <1>5, <1>8, NoUserAssumption DEF Named
<1>12. \A u \in User : IsInjective(Ids(disk'[u]))
  BY <1>4, <1>6, <1>7
<1>13. OwnItemsOnly' /\ NothingLost' /\ DiscardedIsGone'
  BY <1>1, <1>9, <1>10 DEF OwnItemsOnly, NothingLost, DiscardedIsGone, Has
<1>14. Data'
  BY <1>1, <1>11, <1>12, <1>13 DEF Data
<1> QED BY <1>1, <1>3, <1>5, <1>9, <1>14

LEMMA WriteSound ==
    ASSUME WellFormed, WellFormed', Sound, NEW s \in Slot, Write(s), ~torn'
    PROVE  Sound'
<1>1. /\ call[s].at = "write" /\ Marks({r \in Slot : Holds(call[r])}) /\ Tears(s)
      /\ accepted' = IF call[s].kind = "mutate" THEN accepted \cup {call[s].id} ELSE accepted
      /\ discarded' = IF call[s].kind = "discard" THEN discarded \cup {call[s].id} ELSE discarded
      /\ UNCHANGED <<account, author, settled, applied>>
  BY DEF Write
<1>2. s \notin stale
  BY <1>1 DEF Tears
<1>3. /\ Data' /\ account \in User /\ queue.user = account /\ SameUserLoaded
      /\ disk' = [disk EXCEPT ![account] = call[s].list]
      /\ call[s].kind \in Named \cup {"sync"}
      /\ \A u \in User : \A m : Has(disk'[u], m) =>
           Has(disk[u], m) \/ (call[s].kind = "mutate" /\ m = call[s].id)
  BY <1>2, WriteData
<1>4. /\ Went(s) /\ ~Bound(call'[s])
      /\ queue'.user = queue.user /\ ~queue'.loading
      /\ queue'.items = call[s].list
  BY WriteWent
<1>5. NoneFreed /\ \A r \in Slot : r \notin stale' /\ Bound(call'[r]) => ~Holds(call[r])
  <2>1. PICK held \in SUBSET Slot : held = {r \in Slot : Holds(call[r])}
    OBVIOUS
  <2>2. /\ NoneFreed
        /\ \A r \in Slot : r \notin stale' /\ Bound(call'[r]) => r \notin held
    BY <1>1, <2>1, MarksFree
  <2> QED BY <2>1, <2>2
<1>6. disk'[account] = call[s].list
  BY <1>3, TypesLeft
<1>7. QueueLoaded'
  BY <1>1, <1>3, <1>4, <1>6 DEF QueueLoaded
<1>8. Apart'
  BY <1>4, <1>5, ApartAfter DEF Sound, Went
<1>9. SameUserLoaded'
  BY <1>1, <1>3, <1>4 DEF SameUserLoaded
<1>10. ASSUME NEW r \in Slot \ stale'
       PROVE  (CallOwned(call[r]) /\ CallPlaced(call[r]))'
  <2>1. PICK k : k = call'[r]
    OBVIOUS
  <2>2. CallFormed(k)
    BY <2>1 DEF WellFormed, CallFormed
  <2>3. CASE ~Bound(k)
    <3>1. CallOwned(k)' /\ CallPlaced(k)'
      BY <2>2, <2>3, UnboundSound
    <3> QED BY <2>1, <3>1 DEF CallOwned, CallPlaced
  <2>4. CASE Bound(k)
    <3>1. r # s /\ k = call[r] /\ r \in Slot \ stale /\ ~Holds(k)
      BY <1>4, <1>5, <2>1, <2>4 DEF Went, Goes, NoneFreed
    <3>2. CallOwned(k) /\ CallPlaced(k)
      BY <3>1 DEF Sound
    <3>3. CallPlaced(call[r])'
      BY <1>1, <1>3, <1>4, <1>9, <2>1, <3>1, <3>2 DEF CallPlaced, Holds
    <3>4. k.kind = "mutate" /\ call[s].kind \in Named => k.id # call[s].id
      BY <1>2, <3>1 DEF Sound, Apart
    <3>5. k.kind = "mutate" => /\ k.id \notin accepted' \cup discarded'
                               /\ \A u \in User : ~Has(disk'[u], k.id)
      BY <1>1, <1>3, <3>2, <3>4 DEF CallOwned, Named
    <3>6. CallOwned(call[r])'
      BY <1>1, <2>1, <3>2, <3>5 DEF CallOwned
    <3> QED BY <3>3, <3>6
  <2> QED BY <2>3, <2>4
<1> QED BY <1>3, <1>7, <1>8, <1>10 DEF Sound

\* A call begins: what a user sees in the list is stored, and the user's own.
LEMMA CallSound ==
    ASSUME WellFormed, WellFormed', Sound, NEW s \in Slot, NEW kind \in Kinds,
           NEW m \in Mutation \cup {NoUser}, Call(s, kind, m)
    PROVE  Sound'
<1>1. /\ call[s] = Idle /\ Offered(kind, m)
      /\ author' = IF kind = "mutate" THEN [author EXCEPT ![m] = account] ELSE author
      /\ settled' = IF kind = "discard" THEN settled \cup {m} ELSE settled
      /\ Marks(IF kind \in {"discard", "retry", "apply"} /\ (~SameUserLoaded \/ Unsteady(s))
               THEN {s} ELSE {})
      /\ UNCHANGED <<account, disk, queue, accepted, discarded, applied, torn>>
  BY DEF Call
<1>2. /\ Goes(s, call'[s])
      /\ call'[s].at = "enter" /\ call'[s].kind = kind /\ call'[s].id = m
      /\ kind \in Named => m \in Mutation
      /\ kind = "mutate" => account \in User /\ author[m] = NoUser
  BY CallWent
<1>3. /\ NoneFreed
      /\ s \notin stale' /\ kind \in {"discard", "retry", "apply"} =>
           SameUserLoaded /\ ~Unsteady(s)
  <2>1. PICK missed : missed = IF kind \in {"discard", "retry", "apply"}
                                    /\ (~SameUserLoaded \/ Unsteady(s))
                               THEN {s} ELSE {}
    OBVIOUS
  <2>2. NoneFreed /\ \A r \in Slot : r \notin stale' /\ Bound(call'[r]) => r \notin missed
    BY <1>1, <2>1, MarksFree
  <2>3. kind \in {"discard", "retry", "apply"} => Bound(call'[s])
    BY <1>2, NoUserAssumption DEF Bound, Named
  <2> QED BY <2>1, <2>2, <2>3
<1>4. Steady /\ settled \subseteq settled'
  BY <1>1 DEF Steady, SameUserLoaded
<1>5. /\ \A u \in User : \A n : Has(disk[u], n) => n \in Mutation /\ author[n] = u
      /\ \A n \in accepted \cup discarded : n \in Mutation /\ author[n] # NoUser
  <2>1. \A u \in User : \A n : Has(disk[u], n) => n \in Mutation
    BY TypesLeft, HasMutation
  <2> QED BY <2>1, TypesLeft DEF Sound, Data, OwnItemsOnly, Has
<1>6. \A n \in Mutation : author[n] # NoUser => author'[n] = author[n]
  BY <1>1, <1>2, TypesLeft
<1>7. Data'
  <2>1. OwnItemsOnly'
    BY <1>1, <1>5, <1>6, NoUserAssumption DEF OwnItemsOnly, Has
  <2>2. NothingLost'
    BY <1>1, <1>4, <1>5, <1>6 DEF Sound, Data, NothingLost
  <2>3. \A n \in accepted \cup discarded : author'[n] # NoUser
    BY <1>5, <1>6
  <2> QED BY <1>1, <2>1, <2>2, <2>3 DEF Sound, Data, DiscardedIsGone
<1>8. s \notin stale' /\ kind \in {"discard", "retry", "apply"} =>
        account \in User /\ Has(disk[account], m) /\ author[m] = account
  <2> SUFFICES ASSUME s \notin stale', kind \in {"discard", "retry", "apply"}
               PROVE  account \in User /\ Has(disk[account], m) /\ author[m] = account
    OBVIOUS
  <2>1. Has(queue.items, m)
    BY <1>1, OfferedHas
  <2>2. ~Pending(call[s])
    BY <1>1, IdleAt DEF Pending
  <2>3. account \in User /\ queue.items = disk[account]
    BY <1>3, <2>2, Loaded
  <2> QED BY <1>5, <2>1, <2>3
<1>9. s \notin stale' => CallOwned(call[s])'
  <2> SUFFICES ASSUME s \notin stale' PROVE CallOwned(call[s])'
    OBVIOUS
  <2>1. CASE kind = "mutate"
    <3>1. m \in Mutation /\ author'[m] = account /\ account # NoUser
      BY <1>1, <1>2, <2>1, TypesLeft, NoUserAssumption DEF Named
    <3>2. m \notin accepted \cup discarded /\ \A u \in User : ~Has(disk[u], m)
      BY <1>2, <1>5, <2>1, NoUserAssumption
    <3> QED BY <1>1, <1>2, <2>1, <3>1, <3>2 DEF CallOwned
  <2>2. CASE kind \in {"discard", "retry", "apply"}
    BY <1>1, <1>2, <1>8, <2>2, NoUserAssumption DEF CallOwned
  <2>3. CASE kind \notin Named
    BY <1>2, <2>3 DEF CallOwned, Named
  <2> QED BY <2>1, <2>2, <2>3 DEF Named
<1>10. CallPlaced(call[s])'
  BY <1>2 DEF CallPlaced
<1>11. \A r \in Slot \ {s} : r \notin stale' /\ Bound(call'[r]) => r \in Slot \ stale /\ call'[r] = call[r]
  BY <1>2, <1>3 DEF Goes, NoneFreed
<1>12. ASSUME NEW r \in Slot \ stale'
       PROVE  (CallOwned(call[r]) /\ CallPlaced(call[r]))'
  <2>1. PICK k : k = call'[r]
    OBVIOUS
  <2>2. CallFormed(k)
    BY <2>1 DEF WellFormed, CallFormed
  <2>3. CASE ~Bound(k)
    <3>1. CallOwned(k)' /\ CallPlaced(k)'
      BY <2>2, <2>3, UnboundSound
    <3> QED BY <2>1, <3>1 DEF CallOwned, CallPlaced
  <2>4. CASE r = s
    BY <1>9, <1>10, <2>4
  <2>5. CASE Bound(k) /\ r # s
    <3>1. k = call[r] /\ r \in Slot \ stale
      BY <1>11, <2>1, <2>5
    <3>2. CallOwned(k) /\ CallPlaced(k)
      BY <3>1 DEF Sound
    <3>3. CallPlaced(k)'
      BY <1>1, <1>4, <3>2, PlacedLater
    <3>4. k.kind \in Named => author'[k.id] = account
      BY <1>6, <2>2, <3>2 DEF CallOwned, CallFormed
    <3>5. CallOwned(k)'
      BY <1>1, <1>4, <3>2, <3>4 DEF CallOwned
    <3> QED BY <2>1, <3>3, <3>5 DEF CallOwned, CallPlaced
  <2> QED BY <2>3, <2>4, <2>5
<1>13. Apart'
  <2> SUFFICES ASSUME NEW r \in Slot \ stale', NEW t \in Slot \ stale', r # t,
                      call'[r].kind = "mutate", call'[t].kind \in Named
               PROVE  call'[r].id # call'[t].id
    BY DEF Apart
  <2>1. /\ CallFormed(call'[r]) /\ CallFormed(call'[t])
    BY DEF WellFormed, CallFormed
  <2>2. Bound(call'[r]) /\ Bound(call'[t])
    BY <2>1, NamedBound DEF Named
  <2>3. CASE r # s /\ t # s
    BY <1>11, <2>2, <2>3 DEF Sound, Apart
  <2>4. CASE r = s
    <3>1. call'[t] = call[t] /\ t \in Slot \ stale
      BY <1>11, <2>2, <2>4
    <3>2. author[call[t].id] = account /\ account # NoUser
      BY <3>1 DEF Sound, CallOwned
    <3> QED BY <1>2, <2>4, <3>1, <3>2
  <2>5. CASE t = s
    <3>1. call'[r] = call[r] /\ r \in Slot \ stale /\ r # s
      BY <1>11, <2>2, <2>5
    <3>2. CallOwned(call[r])
      BY <3>1 DEF Sound
    <3>3. author[call[r].id] = account /\ account # NoUser
      BY <3>1, <3>2 DEF CallOwned, Named
    <3>4. CASE kind = "mutate"
      BY <1>2, <2>5, <3>1, <3>3, <3>4
    <3>5. CASE kind # "mutate"
      <4>1. account \in User /\ Has(disk[account], m)
        BY <1>2, <1>8, <2>5, <3>5 DEF Named
      <4> QED BY <1>2, <2>5, <3>1, <3>2, <4>1 DEF CallOwned
    <3> QED BY <3>4, <3>5
  <2> QED BY <2>3, <2>4, <2>5
<1>14. QueueLoaded'
  <2>1. ~Pending(call[s])
    BY <1>1, IdleAt DEF Pending
  <2> QED BY <1>1, <1>2, <2>1, LoadedAfter DEF Sound
<1> QED BY <1>7, <1>12, <1>13, <1>14 DEF Sound

\* Every call that is about something is stale.
LEMMA AllStale ==
    ASSUME WellFormed', Data', QueueLoaded',
           \A r \in Slot : r \notin stale' => ~Bound(call'[r])
    PROVE  Sound'
<1>1. ASSUME NEW r \in Slot \ stale'
      PROVE  (CallOwned(call[r]) /\ CallPlaced(call[r]))' /\ call'[r].kind \notin Named
  <2>1. PICK k : k = call'[r]
    OBVIOUS
  <2>2. CallFormed(k) /\ ~Bound(k)
    BY <2>1 DEF WellFormed, CallFormed
  <2>3. CallOwned(k)' /\ CallPlaced(k)' /\ k.kind \notin Named
    BY <2>2, UnboundSound, NamedBound
  <2> QED BY <2>1, <2>3 DEF CallOwned, CallPlaced
<1>2. Apart'
  BY <1>1 DEF Apart
<1> QED BY <1>1, <1>2 DEF Sound

\* Another account: no call goes on as if nothing had happened.
LEMMA AccountSound ==
    ASSUME WellFormed, WellFormed', Sound, NEW s \in Slot,
           \/ \E u \in User \cup {NoUser} : SwitchTo(s, u)
           \/ \E u \in User : Refresh(s, u)
    PROVE  Sound'
<1>1. /\ Marks({r \in Slot : Bound(call[r])})
      /\ UNCHANGED <<disk, queue, deeds, torn>>
  BY DEF SwitchTo, Refresh
<1>2. /\ Goes(s, call'[s]) /\ ~Pending(call[s])
      /\ Bound(call[s]) \/ ~Bound(call'[s])
  BY SwitchWent, RefreshWent DEF Went, Pending, Bound
<1>3. \A r \in Slot : r \notin stale' => ~Bound(call'[r])
  <2>1. PICK bound \in SUBSET Slot : bound = {r \in Slot : Bound(call[r])}
    OBVIOUS
  <2>2. \A r \in Slot : r \notin stale' /\ Bound(call'[r]) => r \notin bound
    BY <1>1, <2>1, MarksFree
  <2> QED BY <1>2, <2>1, <2>2 DEF Goes
<1>4. Data'
  BY <1>1 DEF Sound, Data, OwnItemsOnly, NothingLost, DiscardedIsGone, deeds
<1>5. QueueLoaded'
  BY <1>1, <1>2, LoadedAfter DEF Sound
<1> QED BY <1>3, <1>4, <1>5, AllStale

LEMMA CrashSound ==
    ASSUME WellFormed, WellFormed', Sound, Crash
    PROVE  Sound'
<1>1. /\ queue' = NoQueue /\ call' = [r \in Slot |-> Idle]
      /\ UNCHANGED <<account, disk, deeds, torn>>
  BY DEF Crash
<1>2. \A r \in Slot : ~Bound(call'[r])
  BY <1>1, IdleAt DEF Bound
<1>3. Data'
  BY <1>1 DEF Sound, Data, OwnItemsOnly, NothingLost, DiscardedIsGone, deeds
<1>4. QueueLoaded'
  BY <1>1 DEF QueueLoaded, NoQueue
<1> QED BY <1>2, <1>3, <1>4, AllStale

-----------------------------------------------------------------------------
(* The theorems.                                                           *)

LEMMA InvInit ==
    ASSUME Init
    PROVE  IInv
<1>1. /\ account \in User /\ disk = [u \in User |-> <<>>] /\ queue = NoQueue
      /\ call = [s \in Slot |-> Idle] /\ author = [m \in Mutation |-> NoUser]
      /\ accepted = {} /\ settled = {} /\ discarded = {}
      /\ applied = [m \in Mutation |-> 0]
      /\ stale = {} /\ torn = FALSE
  BY DEF Init
<1>2. <<>> \in Seq(Item) /\ IsInjective(Ids(<<>>)) /\ \A m : ~Has(<<>>, m)
  <2>1. <<>> \in Seq(Item) /\ Len(<<>>) = 0
    OBVIOUS
  <2>2. \A m : ~Has(<<>>, m)
    BY <2>1, HasMutation
  <2>3. IsInjective(Ids(<<>>))
    BY <2>1 DEF IsInjective, Ids
  <2> QED BY <2>1, <2>2, <2>3
<1>3. TypeOK
  <2>1. /\ disk \in [User -> Seq(Item)] /\ call \in [Slot -> Calls] /\ queue \in Queues
    BY <1>1, <1>2, IdleIsCall
  <2>2. /\ author \in [Mutation -> User \cup {NoUser}] /\ applied \in [Mutation -> 0..2]
        /\ account \in User \cup {NoUser}
    BY <1>1
  <2>3. torn \in BOOLEAN
    BY <1>1
  <2> QED BY <1>1, <2>1, <2>2, <2>3 DEF TypeOK, Calls, Queues
<1>4. /\ \A s \in Slot : CallFormed(call[s]) /\ CallOwned(call[s]) /\ CallPlaced(call[s])
      /\ Apart
  BY <1>1, IdleAt DEF CallFormed, CallOwned, CallPlaced, Apart, Named
<1>5. QueueLoaded
  BY <1>1 DEF QueueLoaded, NoQueue
<1>6. \A u \in User : IsInjective(Ids(disk[u])) /\ \A m : m \notin Members(Ids(disk[u]))
  BY <1>1, <1>2 DEF Has
<1>7. Data
  BY <1>1, <1>6 DEF Data, OwnItemsOnly, NothingLost, DiscardedIsGone
<1> QED BY <1>3, <1>4, <1>5, <1>7 DEF IInv, WellFormed, Sound

\* What is torn stays torn.
LEMMA TornStays ==
    ASSUME [Next]_vars, torn
    PROVE  torn'
<1>1. ASSUME NEW s \in Slot, Step(s) PROVE torn'
  BY <1>1 DEF Step, Ensure, EnsureOther, Load, EnsureNobody, Write, MutateAnswer, ApplyAnswer,
              ReplayAnswer, GiveUp, Keep, Replay, Finish, Tears, history
<1>2. ASSUME \/ \E s \in Slot, kind \in Kinds, m \in Mutation \cup {NoUser} : Call(s, kind, m)
             \/ \E s \in Slot, u \in User \cup {NoUser} : SwitchTo(s, u)
             \/ \E s \in Slot, u \in User : Refresh(s, u)
             \/ Crash
             \/ UNCHANGED vars
      PROVE  torn'
  BY <1>2 DEF Call, SwitchTo, Refresh, Crash, vars, history
<1> QED BY <1>1, <1>2 DEF Next

LEMMA InvNext ==
    ASSUME IInv, [Next]_vars
    PROVE  IInv'
<1>1. WellFormed /\ WellFormed'
  BY FormedNext DEF IInv
<1> SUFFICES ASSUME ~torn' PROVE Sound'
  BY <1>1 DEF IInv
<1>2. Sound
  BY TornStays DEF IInv
<1>3. ASSUME NEW s \in Slot, Step(s) PROVE Sound'
  <2>1. CASE Ensure(s) BY <1>1, <1>2, <2>1, EnsureSound
  <2>2. CASE EnsureOther(s) BY <1>1, <1>2, <2>2, EnsureOtherSound
  <2>3. CASE Load(s) BY <1>1, <1>2, <2>3, LoadSound
  <2>4. CASE EnsureNobody(s) BY <1>1, <1>2, <2>4, EnsureNobodySound
  <2>5. CASE Write(s) BY <1>1, <1>2, <2>5, WriteSound
  <2>6. ASSUME NEW answer \in Answers, MutateAnswer(s, answer) PROVE Sound'
    BY <1>1, <1>2, <2>6, MutateAnswerSound
  <2>7. ASSUME NEW answer \in Answers, ApplyAnswer(s, answer) PROVE Sound'
    BY <1>1, <1>2, <2>7, ApplyAnswerSound
  <2>8. ASSUME NEW answer \in Answers, ReplayAnswer(s, answer) PROVE Sound'
    BY <1>1, <1>2, <2>8, ReplayAnswerSound
  <2>9. CASE GiveUp(s) BY <1>1, <1>2, <2>9, GiveUpSound
  <2>10. CASE Keep(s) BY <1>1, <1>2, <2>10, KeepSound
  <2>11. CASE Replay(s) BY <1>1, <1>2, <2>11, ReplaySound
  <2>12. CASE Finish(s) BY <1>1, <1>2, <2>12, FinishSound
  <2> QED BY <1>3, <2>1, <2>2, <2>3, <2>4, <2>5, <2>6, <2>7, <2>8, <2>9, <2>10, <2>11,
             <2>12 DEF Step
<1>4. ASSUME NEW s \in Slot, NEW kind \in Kinds, NEW m \in Mutation \cup {NoUser},
             Call(s, kind, m)
      PROVE  Sound'
  BY <1>1, <1>2, <1>4, CallSound
<1>5. ASSUME NEW s \in Slot, \/ \E u \in User \cup {NoUser} : SwitchTo(s, u)
                             \/ \E u \in User : Refresh(s, u)
      PROVE  Sound'
  BY <1>1, <1>2, <1>5, AccountSound
<1>6. CASE Crash
  BY <1>1, <1>2, <1>6, CrashSound
<1>7. CASE UNCHANGED vars
  <2>1. Data'
    BY <1>2, <1>7 DEF Sound, Data, OwnItemsOnly, NothingLost, DiscardedIsGone, vars, history, deeds
  <2>2. \A s \in Slot \ stale' : CallOwned(call[s])'
    BY <1>2, <1>7 DEF Sound, CallOwned, vars, history, deeds
  <2>3. \A s \in Slot \ stale' : CallPlaced(call[s])'
    BY <1>2, <1>7 DEF Sound, CallPlaced, SameUserLoaded, vars, history, deeds
  <2>4. QueueLoaded' /\ Apart'
    BY <1>2, <1>7 DEF Sound, QueueLoaded, Pending, Apart, vars, history
  <2> QED BY <2>1, <2>2, <2>3, <2>4 DEF Sound
<1> QED BY <1>3, <1>4, <1>5, <1>6, <1>7 DEF Next

\* What a replay sends is the stored change at some position.
LEMMA ReplayedStored ==
    ASSUME WellFormed, Sound, NEW s \in Slot \ stale, call[s].at = "replaying"
    PROVE  /\ account \in User /\ disk[account] \in Seq(Item) /\ call[s].as = account
           /\ \E i \in 1..Len(disk[account]) : disk[account][i] = Head(call[s].rest)
           /\ Has(disk[account], Head(call[s].rest).id)
           /\ Head(call[s].rest).status # "conflict"
<1>1. CallPlaced(call[s]) /\ call[s].rest # <<>>
  BY TypesBefore DEF Sound, CallFormed
<1>2. /\ SameUserLoaded /\ Ends(call[s].rest, disk[account]) /\ call[s].as = account
      /\ Head(call[s].rest).status # "conflict"
  BY <1>1 DEF CallPlaced
<1>3. account \in User /\ call[s].rest \in Seq(Item) /\ disk[account] \in Seq(Item)
  BY <1>2, TypesBefore DEF SameUserLoaded
<1>4. \E i \in 1..Len(disk[account]) : disk[account][i] = Head(call[s].rest)
  BY <1>1, <1>2, <1>3, NextItem
<1> QED BY <1>2, <1>3, <1>4, HasAt

LEMMA StoredBy ==
    ASSUME WellFormed, Sound, NEW u \in User, NEW m, Has(disk[u], m)
    PROVE  author[m] = u /\ m \in Mutation
<1>1. author[m] = u
  BY DEF Sound, Data, OwnItemsOnly, Has
<1>2. m \in Mutation
  BY HasMutation, TypesLeft
<1> QED BY <1>1, <1>2

(* However many users, changes and calls there are and however calls,      *)
(* sign-ins, token refreshes and kills interleave: until an overtaken call *)
(* writes its list, the stored lists lose nothing, repeat and mix up       *)
(* nothing and bring nothing back, and replays carry their author's token. *)
THEOREM Consistent == Spec => []QueueConsistent
<1>1. Init => IInv
  BY InvInit
<1>2. IInv /\ [Next]_vars => IInv'
  BY InvNext
<1>3. IInv => QueueConsistent
  <2> SUFFICES ASSUME IInv PROVE QueueConsistent
    OBVIOUS
  <2>1. ASSUME Sound PROVE SentAsAuthor
    BY <2>1, ReplayedStored, StoredBy DEF SentAsAuthor, IInv
  <2> QED BY <2>1 DEF IInv, WellFormed, Sound, Data, QueueConsistent
<1> QED BY <1>1, <1>2, <1>3, PTL DEF Spec

-----------------------------------------------------------------------------
(* The steps of the history and of the stored lists.                       *)

\* The server applies a change when it is made, applied or replayed.
LEMMA AppliedWhere ==
    ASSUME WellFormed, [Next]_vars, NEW m \in Mutation, applied'[m] # applied[m]
    PROVE  \E s \in Slot :
             /\ call'[s] # call[s]
             /\ \/ call[s].at = "request" /\ call[s].kind \in {"mutate", "apply"} /\ call[s].id = m
                \/ call[s].at = "replaying" /\ Head(call[s].rest).id = m
<1>1. applied \in [Mutation -> 0..2]
  BY TypesLeft
<1>2. \A n, answer : Applies(n, answer) => n = m
  BY <1>1 DEF Applies
<1>3. ASSUME NEW s \in Slot, NEW answer \in Answers, MutateAnswer(s, answer)
      PROVE  /\ call'[s] # call[s]
             /\ call[s].at = "request" /\ call[s].kind = "mutate" /\ call[s].id = m
  <2>1. call[s].at = "request" /\ call[s].kind = "mutate" /\ call[s].id = m
    BY <1>2, <1>3 DEF MutateAnswer
  <2>2. call'[s].at # "request"
    BY <1>3, MutateAnswerWent DEF Bound
  <2> QED BY <2>1, <2>2
<1>4. ASSUME NEW s \in Slot, NEW answer \in Answers, ApplyAnswer(s, answer)
      PROVE  /\ call'[s] # call[s]
             /\ call[s].at = "request" /\ call[s].kind = "apply" /\ call[s].id = m
  <2>1. call[s].at = "request" /\ call[s].kind = "apply" /\ call[s].id = m
    BY <1>2, <1>4 DEF ApplyAnswer
  <2>2. call'[s].at # "request"
    BY <1>4, ApplyAnswerWent
  <2> QED BY <2>1, <2>2
<1>5. ASSUME NEW s \in Slot, NEW answer \in Answers, ReplayAnswer(s, answer)
      PROVE  call'[s] # call[s] /\ call[s].at = "replaying" /\ Head(call[s].rest).id = m
  <2>1. call[s].at = "replaying" /\ Head(call[s].rest).id = m
    BY <1>2, <1>5 DEF ReplayAnswer
  <2>2. call'[s].at = "replay"
    BY <1>5, ReplayAnswerWent
  <2> QED BY <2>1, <2>2
<1>6. \E s \in Slot, answer \in Answers :
        MutateAnswer(s, answer) \/ ApplyAnswer(s, answer) \/ ReplayAnswer(s, answer)
  <2>1. \A s \in Slot : ~(\/ Ensure(s) \/ EnsureOther(s) \/ Load(s) \/ EnsureNobody(s)
                          \/ Write(s) \/ GiveUp(s) \/ Keep(s) \/ Replay(s) \/ Finish(s))
    BY DEF Ensure, EnsureOther, Load, EnsureNobody, Write, GiveUp, Keep, Replay, Finish,
           history, deeds
  <2>2. /\ \A s, kind, n : ~Call(s, kind, n)
        /\ \A s, u : ~SwitchTo(s, u) /\ ~Refresh(s, u)
        /\ ~Crash /\ ~(UNCHANGED vars)
    BY DEF Call, SwitchTo, Refresh, Crash, vars, history, deeds
  <2> QED BY <2>1, <2>2 DEF Next, Step
<1> QED BY <1>3, <1>4, <1>5, <1>6

LEMMA ConflictsStep ==
    ASSUME IInv, [Next]_vars, NEW m \in Mutation, NEW u \in User,
           applied'[m] > applied[m], Entry(m, "conflict") \in Members(disk[u]), ~torn
    PROVE  \E s \in Slot : /\ call'[s] # call[s]
                          /\ (s \in stale \/ (call[s].kind = "apply" /\ call[s].id = m))
<1>1. WellFormed /\ Sound
  BY DEF IInv
<1>2. disk[u] \in Seq(Item)
  BY <1>1, TypesLeft
<1>3. PICK i \in 1..Len(disk[u]) : disk[u][i] = Entry(m, "conflict")
  BY <1>2 DEF Members
<1>4. disk[u][i].id = m /\ disk[u][i].status = "conflict"
  BY <1>3 DEF Entry
<1>5. Has(disk[u], m) /\ author[m] = u
  BY <1>1, <1>2, <1>4, HasAt, StoredBy
<1>6. applied'[m] # applied[m]
  <2>1. applied[m] \in 0..2
    BY <1>1, TypesLeft
  <2> QED BY <2>1
<1>7. PICK s \in Slot :
        /\ call'[s] # call[s]
        /\ \/ call[s].at = "request" /\ call[s].kind \in {"mutate", "apply"} /\ call[s].id = m
           \/ call[s].at = "replaying" /\ Head(call[s].rest).id = m
  BY <1>1, <1>6, AppliedWhere
<1> SUFFICES ASSUME s \notin stale PROVE call[s].kind = "apply" /\ call[s].id = m
  BY <1>7
<1>8. call[s].at # "replaying"
  <2> SUFFICES ASSUME call[s].at = "replaying" PROVE FALSE
    OBVIOUS
  <2>1. Head(call[s].rest).id = m
    BY <1>7
  <2>2. /\ account \in User /\ Has(disk[account], m)
        /\ Head(call[s].rest).status # "conflict"
    BY <1>1, <2>1, ReplayedStored
  <2>3. account = u
    BY <1>1, <1>5, <2>2, StoredBy
  <2>4. PICK j \in 1..Len(disk[u]) : disk[u][j] = Head(call[s].rest)
    BY <1>1, <2>3, ReplayedStored
  <2>5. i = j
    BY <1>1, <1>2, <1>4, <2>1, <2>4, Distinct DEF Sound, Data
  <2> QED BY <1>4, <2>2, <2>4, <2>5
<1>9. call[s].kind # "mutate"
  BY <1>1, <1>5, <1>7, <1>8 DEF Sound, CallOwned
<1> QED BY <1>7, <1>8, <1>9

LEMMA FinalStep ==
    ASSUME IInv, [Next]_vars, NEW m \in accepted,
           applied'[m] # applied[m], ~Has(disk[author[m]], m), ~torn
    PROVE  \E s \in stale : call'[s] # call[s]
<1>1. WellFormed /\ Sound /\ m \in Mutation
  BY TypesLeft DEF IInv
<1>2. PICK s \in Slot :
        /\ call'[s] # call[s]
        /\ \/ call[s].at = "request" /\ call[s].kind \in {"mutate", "apply"} /\ call[s].id = m
           \/ call[s].at = "replaying" /\ Head(call[s].rest).id = m
  BY <1>1, AppliedWhere
<1> SUFFICES ASSUME s \notin stale PROVE FALSE
  BY <1>2
<1>3. CallOwned(call[s]) /\ CallPlaced(call[s])
  BY <1>1 DEF Sound
<1>4. CASE call[s].at = "request"
  <2>1. call[s].kind = "apply" /\ call[s].id = m
    BY <1>2, <1>3, <1>4 DEF CallOwned
  <2> QED BY <1>3, <1>4, <2>1 DEF CallOwned, CallPlaced, Named
<1>5. CASE call[s].at = "replaying"
  <2>1. account \in User /\ Has(disk[account], m)
    BY <1>1, <1>2, <1>5, ReplayedStored
  <2> QED BY <1>1, <2>1, StoredBy
<1> QED BY <1>2, <1>4, <1>5

(* Until something is torn, a change stored as a conflict is applied by    *)
(* applyLocalConflict or by a sync that another call has overtaken (sync,  *)
(* applyLocalConflict).                                                    *)
THEOREM ConflictsAreApplied == Spec => ConflictsWait
<1>1. Init => IInv
  BY InvInit
<1>2. IInv /\ [Next]_vars => IInv'
  BY InvNext
<1>3. IInv /\ [Next]_vars =>
        [\A m \in Mutation, u \in User :
           applied'[m] > applied[m] /\ Entry(m, "conflict") \in Members(disk[u]) =>
             \/ torn
             \/ \E s \in Slot : /\ call'[s] # call[s]
                               /\ (s \in stale \/ (call[s].kind = "apply" /\ call[s].id = m))]_vars
  BY ConflictsStep
<1> QED BY <1>1, <1>2, <1>3, PTL DEF Spec, ConflictsWait

(* And a change that left its stored list is applied again by nothing but  *)
(* such a call (sync, retry, applyLocalConflict).                          *)
THEOREM LeftForGood == Spec => LeftIsFinal
<1>1. Init => IInv
  BY InvInit
<1>2. IInv /\ [Next]_vars => IInv'
  BY InvNext
<1>3. IInv /\ [Next]_vars =>
        [\A m \in accepted :
           applied'[m] # applied[m] /\ ~Has(disk[author[m]], m) =>
             torn \/ \E s \in stale : call'[s] # call[s]]_vars
  BY FinalStep
<1> QED BY <1>1, <1>2, <1>3, PTL DEF Spec, LeftIsFinal

-----------------------------------------------------------------------------
(* The stored lists are an outbox.                                         *)

\* A list with some of the ids of another, in their order.
LEMMA OrderedIds ==
    ASSUME NEW stored \in Seq(Item), NEW list \in Seq(Item),
           \A m : Has(list, m) => Has(stored, m),
           \A i, j \in DOMAIN list, p, q \in DOMAIN stored :
              list[i].id = stored[p].id /\ list[j].id = stored[q].id /\ i < j => p < q
    PROVE  /\ Ids(list) \in Seq(Stored!Members(Ids(stored)))
           /\ Stored!InOrder(Ids(list), Ids(stored))
<1>1. /\ DOMAIN Ids(list) = 1..Len(list) /\ DOMAIN Ids(stored) = 1..Len(stored)
      /\ \A i \in 1..Len(list) : Ids(list)[i] = list[i].id
      /\ \A i \in 1..Len(stored) : Ids(stored)[i] = stored[i].id
  BY DEF Ids
<1>2. \A i \in 1..Len(list) : Ids(list)[i] \in Stored!Members(Ids(stored))
  <2> SUFFICES ASSUME NEW i \in 1..Len(list)
               PROVE  Ids(list)[i] \in Stored!Members(Ids(stored))
    OBVIOUS
  <2>1. Has(stored, list[i].id)
    BY HasAt
  <2>2. PICK p \in 1..Len(stored) : stored[p].id = list[i].id
    BY <2>1, HasAt
  <2> QED BY <1>1, <2>2 DEF Stored!Members
<1>3. Ids(list) \in Seq(Stored!Members(Ids(stored)))
  <2>1. Ids(list) = [i \in 1..Len(list) |-> list[i].id] /\ Len(list) \in Nat
    BY DEF Ids
  <2>2. Ids(list) \in [1..Len(list) -> Stored!Members(Ids(stored))]
    BY <1>1, <1>2, <2>1
  <2> QED BY <2>1, <2>2, SeqDef
<1>4. Stored!InOrder(Ids(list), Ids(stored))
  BY <1>1 DEF Stored!InOrder
<1> QED BY <1>3, <1>4

\* A step that leaves the stored lists settles a change or nothing.
LEMMA SettledStep ==
    ASSUME WellFormed, [Next]_vars, \A s \in Slot : ~Write(s)
    PROVE  /\ disk' = disk
           /\ settled' = settled \/ \E m \in Mutation : settled' = settled \cup {m}
<1>1. ASSUME NEW s \in Slot, Step(s)
      PROVE  /\ disk' = disk
             /\ settled' = settled \/ \E m \in Mutation : settled' = settled \cup {m}
  <2>1. CASE \/ Ensure(s) \/ EnsureOther(s) \/ Load(s) \/ EnsureNobody(s)
             \/ GiveUp(s) \/ Keep(s) \/ Replay(s) \/ Finish(s)
    BY <2>1 DEF Ensure, EnsureOther, Load, EnsureNobody, GiveUp, Keep, Replay, Finish,
                history, deeds
  <2>2. ASSUME NEW answer \in Answers, MutateAnswer(s, answer) \/ ApplyAnswer(s, answer)
        PROVE  /\ disk' = disk
               /\ settled' = settled \/ \E m \in Mutation : settled' = settled \cup {m}
    <3>1. call[s].id \in Mutation
      BY <2>2, MutateAnswerWent, ApplyAnswerWent
    <3> QED BY <2>2, <3>1 DEF MutateAnswer, ApplyAnswer, Settles
  <2>3. ASSUME NEW answer \in Answers, ReplayAnswer(s, answer)
        PROVE  /\ disk' = disk
               /\ settled' = settled \/ \E m \in Mutation : settled' = settled \cup {m}
    <3>1. Head(call[s].rest).id \in Mutation
      BY <2>3, ReplayAnswerWent
    <3> QED BY <2>3, <3>1 DEF ReplayAnswer, Settles
  <2> QED BY <1>1, <2>1, <2>2, <2>3 DEF Step
<1>2. ASSUME NEW s \in Slot, NEW kind \in Kinds, NEW m \in Mutation \cup {NoUser},
             Call(s, kind, m)
      PROVE  /\ disk' = disk
             /\ settled' = settled \/ \E n \in Mutation : settled' = settled \cup {n}
  <2>1. kind = "discard" => m \in Mutation
    BY <1>2, CallWent DEF Named
  <2> QED BY <1>2, <2>1 DEF Call
<1>3. ASSUME \/ \E s \in Slot, u \in User \cup {NoUser} : SwitchTo(s, u)
             \/ \E s \in Slot, u \in User : Refresh(s, u)
             \/ Crash
             \/ UNCHANGED vars
      PROVE  disk' = disk /\ settled' = settled
  BY <1>3 DEF SwitchTo, Refresh, Crash, vars, history, deeds
<1> QED BY <1>1, <1>2, <1>3 DEF Next

\* A write puts a change at the end, clears settled ones or changes no ids.
LEMMA StoredStep ==
    ASSUME WellFormed, Sound, NEW s \in Slot, Write(s), s \notin stale
    PROVE  Stored!Next \/ UNCHANGED Stored!vars
<1> DEFINE k == call[s]
           stored == disk[account]
           old == [u \in User |-> Ids(disk[u])]
<1>1. /\ account \in User /\ disk' = [disk EXCEPT ![account] = k.list] /\ UNCHANGED settled
      /\ Revises(k, stored, settled)
  BY WriteData DEF Write
<1>2. /\ CallOwned(k) /\ CallFormed(k) /\ k.list \in Seq(Item) /\ stored \in Seq(Item)
      /\ IsInjective(Ids(stored)) /\ disk \in [User -> Seq(Item)]
  BY <1>1, TypesBefore, TypesLeft DEF Sound, Data
<1>4. /\ old' = [old EXCEPT ![account] = Ids(k.list)]
      /\ old'[account] = Ids(k.list) /\ old[account] = Ids(stored)
  BY <1>1, <1>2
<1>5. ASSUME \A m : Has(k.list, m) => Has(stored, m),
             \A m : Has(stored, m) => Has(k.list, m) \/ m \in settled,
             \A i, j \in DOMAIN k.list, p, q \in DOMAIN stored :
               k.list[i].id = stored[p].id /\ k.list[j].id = stored[q].id /\ i < j => p < q
      PROVE  Stored!Clear(account)
  <2>1. /\ Ids(k.list) \in Seq(Stored!Members(Ids(stored)))
        /\ Stored!InOrder(Ids(k.list), Ids(stored))
    BY <1>2, <1>5, OrderedIds
  <2>2. Stored!Members(Ids(stored)) \ Stored!Members(Ids(k.list)) \subseteq settled
    BY <1>5 DEF Has, Members, Stored!Members
  <2> QED BY <1>1, <1>4, <2>1, <2>2 DEF Stored!Clear
<1>6. CASE k.kind = "mutate"
  <2>1. PICK st \in Statuses : k.list = Append(stored, Entry(k.id, st))
    BY <1>1, <1>6 DEF Revises
  <2>2. k.id \in Mutation /\ \A u \in User : ~Has(disk[u], k.id)
    BY <1>2, <1>6 DEF CallOwned, CallFormed, Named
  <2>3. Entry(k.id, st) \in Item /\ Entry(k.id, st).id = k.id
    BY <2>2 DEF Entry, Item
  <2>4. Ids(k.list) = Append(Ids(stored), k.id)
    BY <1>2, <2>1, <2>3, AppendItem
  <2>5. \A u \in User : k.id \notin Stored!Members(old[u])
    BY <2>2 DEF Has, Members, Stored!Members
  <2>6. Stored!Put(account, k.id)
    BY <1>1, <1>4, <2>4, <2>5 DEF Stored!Put
  <2> QED BY <1>1, <2>2, <2>6 DEF Stored!Next
<1>7. CASE k.kind = "discard"
  <2>1. k.id \in settled /\ k.list = Without(stored, k.id)
    BY <1>1, <1>2, <1>7 DEF CallOwned, Revises
  <2>2. Stored!Clear(account)
    BY <1>2, <1>5, <2>1, WithoutItem
  <2> QED BY <1>1, <2>2 DEF Stored!Next
<1>8. CASE k.kind \in {"retry", "apply"}
  <2>1. Ids(k.list) = Ids(stored)
    BY <1>1, <1>2, <1>8, StatusOfItem DEF Revises, CallFormed, Named
  <2>2. old' = old
    BY <1>4, <2>1
  <2> QED BY <1>1, <2>2 DEF Stored!vars
<1>9. CASE k.kind = "sync"
  <2>1. Shortened(k.list, stored, Len(stored), settled)
    BY <1>1, <1>9 DEF Revises
  <2>2. /\ \A m : Has(k.list, m) => Has(stored, m)
        /\ \A m : Has(stored, m) => Has(k.list, m) \/ m \in settled
    BY <1>2, <2>1, ShortenedList
  <2>3. Stored!Clear(account)
    BY <1>5, <2>1, <2>2 DEF Shortened
  <2> QED BY <1>1, <2>3 DEF Stored!Next
<1> QED BY <1>1, <1>6, <1>7, <1>8, <1>9 DEF Revises

(* The stored lists refine an outbox, for any number of users, changes and *)
(* calls, until an overtaken call writes its list: what mutate, sync,      *)
(* discard, retry and applyLocalConflict store is what Outbox promises.    *)
THEOREM Implements == Spec => ImplementsOutbox
<1>1. Init => IInv
  BY InvInit
<1>2. IInv /\ [Next]_vars => IInv'
  BY InvNext
<1>3. Init => Stored!Init
  <2> SUFFICES ASSUME Init PROVE Stored!Init
    OBVIOUS
  <2>1. Ids(<<>>) = <<>>
    BY DEF Ids
  <2> QED BY <2>1 DEF Init, Stored!Init
<1>4. IInv /\ [Next]_vars => [torn' \/ Stored!Next \/ UNCHANGED Stored!vars]_vars
  <2> SUFFICES ASSUME IInv, [Next]_vars, ~torn' PROVE Stored!Next \/ UNCHANGED Stored!vars
    OBVIOUS
  <2>1. WellFormed /\ Sound
    BY TornStays DEF IInv
  <2>2. ASSUME NEW s \in Slot, Write(s) PROVE Stored!Next \/ UNCHANGED Stored!vars
    BY <2>1, <2>2, StoredStep DEF Write, Tears
  <2>3. CASE \A s \in Slot : ~Write(s)
    <3>1. /\ disk' = disk
          /\ settled' = settled \/ \E m \in Mutation : settled' = settled \cup {m}
      BY <2>1, <2>3, SettledStep
    <3> QED BY <3>1 DEF Stored!Next, Stored!Settle, Stored!vars
  <2> QED BY <2>2, <2>3
<1> QED BY <1>1, <1>2, <1>3, <1>4, PTL DEF Spec, ImplementsOutbox

=============================================================================
