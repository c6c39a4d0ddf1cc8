-------------------------- MODULE TaskParts_proofs --------------------------
(***************************************************************************)
(* Proofs about the parts of a task, for any number of rows and requests   *)
(* and any bounds.  Each part has an inductive invariant of its own: IInv  *)
(* for subtasks and checklists, TimersInv for time entries, FieldsInv for  *)
(* custom fields, FilesInv for attachments.  No part writes what another   *)
(* one reads, so the four hold together in every behaviour of PartsSpec.   *)
(***************************************************************************)
EXTENDS TaskParts, FiniteSetTheorems, TLAPS

\* The row of i is there or was removed; it never comes back.
Existed(i) == items[i] # NoItem \/ i \in removed

\* What was seen of i is its row or an older version of it.
NotAhead(seen, i) ==
    items[i] # NoItem => /\ seen.version <= items[i].version
                         /\ seen.version = items[i].version => seen = items[i]

CopiesNotAhead ==
    \A c \in Client, i \in Item : copies[c][i] # NoItem =>
        Existed(i) /\ NotAhead(copies[c][i], i)

\* A creation is alone with its item.
CreateSound(c) ==
    LET i == request[c].item
    IN  /\ i \in Item /\ request[c].title \in Title
        /\ items[i] = NoItem /\ i \notin removed
        /\ \A d \in Client \ {c} : request[d].item # i

\* A patch names a version that its client has seen.
PatchSound(c) ==
    LET r == request[c]
        i == request[c].item
    IN  /\ i \in Item /\ r.title \in Title /\ r.seen \in Row
        /\ r.seen.version < MaxVersion
        /\ Existed(i) /\ NotAhead(r.seen, i)
        /\ copies[c][i] # NoItem /\ r.seen.version <= copies[c][i].version

\* A conversion has loaded the row; it is still the row unless another writes it.
ConvertSound(c) ==
    LET r == request[c]
    IN  /\ r.item \in Subtask /\ r.seen \in Row
        /\ r.item \notin raced => r.seen = items[r.item]

RequestSound(c) ==
    LET r == request[c]
    IN  /\ r.at # "idle" /\ r.kind \in Kinds
        /\ r.at = "locked" => r.kind \in {"convert", "add_task"}
        /\ r.at = "answer" => r.kind \in {"create", "patch"} /\ r.item \in Item
        /\ r.kind = "create" /\ r.at = "loaded" => CreateSound(c)
        /\ r.kind = "patch" /\ r.at = "loaded" => PatchSound(c)
        /\ r.kind \in {"delete", "convert"} => r.item \in Item /\ Existed(r.item)
        /\ r.kind = "convert" => ConvertSound(c)

RequestsSound == \A c \in Client : request[c] # Idle => RequestSound(c)

\* Overlaps of a conversion are recorded.
RacesNoted ==
    \A c, d \in Client :
        /\ c # d /\ request[c].kind = "convert" /\ request[d] # Idle
        /\ request[c].item = request[d].item
        => request[c].item \in raced

OneHolder ==
    \A c, d \in Client : request[c].at = "locked" /\ request[d].at = "locked" => c = d

\* A task of a subtask: the subtask was removed.
MadeRemoved ==
    \A n \in Numbers : made[n] \in Subtask =>
        /\ made[n] \in removed
        /\ made[n] \notin raced => \A m \in Numbers \ {n} : made[m] # made[n]

IInv == /\ TypeOK /\ CopiesNotAhead /\ RequestsSound /\ RacesNoted
        /\ OneHolder /\ MadeRemoved /\ NumbersFollow

\* The inductive invariant implies the property the run checks.
LEMMA Consistent == ASSUME IInv PROVE ItemsConsistent
<1>1. ConversionMoves
  BY DEF IInv, TypeOK, MadeRemoved, ConversionMoves
<1>2. ConvertsCurrent
  <2> SUFFICES ASSUME NEW c \in Client, Is(c, "locked", {"convert"}),
                      request[c].item \notin raced
               PROVE  request[c].seen = items[request[c].item]
    BY DEF ConvertsCurrent
  <2>1. request[c] # Idle /\ request[c].kind = "convert"
    BY DEF Is, Idle
  <2>. QED BY <2>1 DEF IInv, RequestsSound, RequestSound, ConvertSound
<1>. QED BY <1>1, <1>2 DEF IInv, ItemsConsistent

LEMMA InitInv == Init => IInv
BY BoundAssumption, NoItemAssumption
   DEF Init, IInv, TypeOK, Idle, Options, Numbers, CopiesNotAhead, RequestsSound,
       RacesNoted, OneHolder, MadeRemoved, NumbersFollow, Subtask

-----------------------------------------------------------------------------
(* The first step of a request.                                            *)

\* What a request that begins has to bring along.
Fresh(kind, i, title, seen) ==
    /\ kind \in Kinds /\ i \in Options(Item) /\ title \in Options(Title)
    /\ seen \in Options(Row)
    /\ kind \in {"create", "patch", "delete", "convert"} => i \in Item
    /\ kind \in {"patch", "delete", "convert"} => items[i] # NoItem
    /\ kind \in {"create", "patch"} => title \in Title
    /\ kind = "convert" => i \in Subtask /\ seen = items[i]
    /\ kind \in {"delete_list", "add_task"} => i = NoItem

RequestType == [at: {"idle", "loaded", "locked", "answer"}, kind: Kinds \cup {"none"},
                item: Options(Item), title: Options(Title), seen: Options(Row),
                counter: 0..MaxNumber]

Started(kind, i, title, seen) ==
    [Idle EXCEPT !.at = "loaded", !.kind = kind, !.item = i, !.title = title, !.seen = seen]

LEMMA StartedFields ==
    ASSUME NEW kind \in Kinds, NEW i \in Options(Item), NEW title \in Options(Title),
           NEW seen \in Options(Row)
    PROVE  LET r == Started(kind, i, title, seen) IN
           /\ r \in RequestType
           /\ r.at = "loaded" /\ r.kind = kind /\ r.item = i /\ r.title = title
           /\ r.seen = seen
<1>1. 0 \in 0..MaxNumber
  BY BoundAssumption
<1>. QED BY <1>1 DEF Started, RequestType, Idle

LEMMA BeginInv ==
    ASSUME IInv, NEW c \in Client, NEW kind, NEW i, NEW title, NEW seen,
           Begin(c, kind, i, title, seen), Fresh(kind, i, title, seen),
           kind = "create" => /\ items[i] = NoItem /\ i \notin removed
                              /\ \A d \in Client : request[d].item # i,
           kind = "patch" => seen = copies[c][i] /\ seen # NoItem /\ seen.version < MaxVersion
    PROVE  IInv'
<1> USE DEF IInv
<1> DEFINE r == Started(kind, i, title, seen)
<1>0. /\ request' = [request EXCEPT ![c] = r] /\ request[c] = Idle
      /\ UNCHANGED <<entries, items, removed, checklist, counter, made, copies>>
      /\ raced' = IF i # NoItem /\ Races(kind, i) # {} THEN raced \cup {i} ELSE raced
  BY DEF Begin, Started
<1>1. /\ request' = [request EXCEPT ![c] = r]
      /\ UNCHANGED <<entries, items, removed, checklist, counter, made, copies>>
      /\ raced \subseteq raced' /\ request[c] = Idle
      /\ i # NoItem /\ Races(kind, i) # {} => i \in raced'
      /\ raced' \subseteq raced \cup {i}
      /\ raced' # raced => i # NoItem /\ Races(kind, i) # {}
  BY <1>0
<1>2. /\ r \in RequestType
      /\ r.at = "loaded" /\ r.kind = kind /\ r.item = i /\ r.title = title
      /\ r.seen = seen
  BY StartedFields DEF Fresh
<1> HIDE DEF r
<1>3. request'[c] = r /\ \A d \in Client \ {c} : request'[d] = request[d]
  BY <1>1 DEF TypeOK
<1>5. i \in raced' \ raced => i \in Subtask
  <2> SUFFICES ASSUME i \in raced', i \notin raced PROVE i \in Subtask
    OBVIOUS
  <2>1. PICK d \in Client : /\ request[d].item = i /\ request[d].at # "idle"
                            /\ "convert" \in {kind, request[d].kind}
    BY <1>1 DEF Races
  <2>2. CASE kind = "convert"
    BY <2>2 DEF Fresh
  <2>3. CASE request[d].kind = "convert"
    <3>1. request[d] # Idle
      BY <2>3 DEF Idle
    <3>. QED BY <2>1, <2>3, <3>1 DEF RequestsSound, RequestSound, ConvertSound
  <2>. QED BY <2>1, <2>2, <2>3
<1>6. TypeOK'
  BY <1>1, <1>2, <1>5 DEF TypeOK, Subtask, RequestType
<1>7. CopiesNotAhead'
  BY <1>1 DEF CopiesNotAhead, Existed, NotAhead
<1>8. RequestsSound'
  <2> SUFFICES ASSUME NEW d \in Client, request'[d] # Idle
               PROVE  RequestSound(d)'
    BY DEF RequestsSound
  <2>1. CASE d = c
    <3>1. kind = "create" => CreateSound(c)'
      BY <1>1, <1>2, <1>3 DEF CreateSound, Fresh
    <3>2. kind = "patch" => PatchSound(c)'
      <4> SUFFICES ASSUME kind = "patch" PROVE PatchSound(c)'
        OBVIOUS
      <4>1. i \in Item /\ copies[c][i] # NoItem /\ copies[c][i] \in Row
        BY NoItemAssumption DEF Fresh, TypeOK, Options
      <4>2. Existed(i) /\ NotAhead(seen, i)
        BY <4>1 DEF CopiesNotAhead
      <4>3. seen.version \in Nat
        BY <4>1 DEF Row, Contract!Row
      <4>. QED BY <1>1, <1>2, <1>3, <4>1, <4>2, <4>3 DEF PatchSound, Fresh, Existed, NotAhead
    <3>3. kind = "convert" => ConvertSound(c)'
      BY <1>1, <1>2, <1>3 DEF ConvertSound, Fresh, TypeOK, Options, Subtask
    <3>4. kind \in {"delete", "convert"} => i \in Item /\ Existed(i)'
      BY <1>1 DEF Fresh, Existed
    <3>. QED BY <2>1, <1>2, <1>3, <3>1, <3>2, <3>3, <3>4 DEF Fresh, RequestSound
  <2>2. CASE d # c
    <3>1. request'[d] = request[d]
      BY <2>2, <1>3
    <3>2. CreateSound(d) => CreateSound(d)'
      <4> SUFFICES ASSUME CreateSound(d) PROVE CreateSound(d)'
        OBVIOUS
      <4>1. request[d].item # i
        BY NoItemAssumption DEF CreateSound, Fresh, Options, Kinds
      <4>. QED BY <3>1, <4>1, <1>1, <1>2, <1>3 DEF CreateSound
    <3>3. PatchSound(d) => PatchSound(d)'
      BY <3>1, <1>1 DEF PatchSound, Existed, NotAhead
    <3>4. ConvertSound(d) => ConvertSound(d)'
      BY <3>1, <1>1 DEF ConvertSound, Subtask
    <3>5. Existed(request[d].item) => Existed(request[d].item)'
      BY <1>1, <3>1 DEF Existed
    <3>6. RequestSound(d)
      BY <3>1 DEF RequestsSound
    <3>. QED BY <3>1, <3>2, <3>3, <3>4, <3>5, <3>6 DEF RequestSound
  <2>. QED BY <2>1, <2>2
<1>9. RacesNoted'
  <2> SUFFICES ASSUME NEW a \in Client, NEW d \in Client, a # d,
                      request'[a].kind = "convert", request'[d] # Idle,
                      request'[a].item = request'[d].item
               PROVE  request'[a].item \in raced'
    BY DEF RacesNoted
  <2>1. CASE a # c /\ d # c
    BY <2>1, <1>1, <1>3 DEF RacesNoted
  <2>2. CASE a = c
    <3>1. request[d] = request'[d] /\ request[d].at # "idle" /\ kind = "convert"
      BY <2>2, <1>2, <1>3 DEF RequestsSound, RequestSound
    <3>2. d \in Races(kind, i) /\ i # NoItem
      BY <2>2, <3>1, <1>2, <1>3, NoItemAssumption DEF Races, Fresh
    <3>. QED BY <2>2, <3>2, <1>1, <1>2, <1>3
  <2>3. CASE d = c
    <3>1. request[a] = request'[a] /\ request[a] # Idle
      BY <2>3, <1>3 DEF Idle
    <3>2. request[a].at # "idle" /\ request[a].item \in Item
      BY <3>1 DEF RequestsSound, RequestSound
    <3>3. a \in Races(kind, i) /\ i # NoItem
      BY <2>3, <3>1, <3>2, <1>2, <1>3, NoItemAssumption DEF Races
    <3>. QED BY <2>3, <3>1, <3>3, <1>1, <1>2, <1>3
  <2>. QED BY <2>1, <2>2, <2>3
<1>10. OneHolder'
  BY <1>2, <1>3 DEF OneHolder
<1>11. MadeRemoved'
  BY <1>1 DEF MadeRemoved, Subtask
<1>12. NumbersFollow'
  BY <1>1, <1>2, <1>3 DEF NumbersFollow
<1>. QED BY <1>6, <1>7, <1>8, <1>9, <1>10, <1>11, <1>12

\* Every request begins this way.
Begins(c) ==
    \/ \E i \in Item : BeginDelete(c, i) \/ BeginConvert(c, i)
    \/ \E i \in Item, title \in Title : BeginCreate(c, i, title) \/ BeginPatch(c, i, title)
    \/ BeginTask(c) \/ BeginDeleteList(c)

LEMMA BeginsInv == ASSUME IInv, NEW c \in Client, Begins(c) PROVE IInv'
<1>1. ASSUME NEW i \in Item, BeginDelete(c, i) PROVE IInv'
  BY <1>1, BeginInv DEF BeginDelete, Fresh, Kinds, Options, Loaded, IInv, TypeOK
<1>2. ASSUME NEW i \in Item, BeginConvert(c, i) PROVE IInv'
  BY <1>2, BeginInv DEF BeginConvert, Fresh, Kinds, Options, Loaded, IInv, TypeOK
<1>3. ASSUME NEW i \in Item, NEW title \in Title, BeginCreate(c, i, title) PROVE IInv'
  BY <1>3, BeginInv DEF BeginCreate, Fresh, Kinds, Options, IInv, TypeOK
<1>4. ASSUME NEW i \in Item, NEW title \in Title, BeginPatch(c, i, title) PROVE IInv'
  BY <1>4, BeginInv DEF BeginPatch, Fresh, Kinds, Options, IInv, TypeOK
<1>5. CASE BeginTask(c)
  BY <1>5, BeginInv DEF BeginTask, Fresh, Kinds, Options
<1>6. CASE BeginDeleteList(c)
  BY <1>6, BeginInv DEF BeginDeleteList, Fresh, Kinds, Options
<1>. QED BY <1>1, <1>2, <1>3, <1>4, <1>5, <1>6 DEF Begins

-----------------------------------------------------------------------------
(* The last step of a request.                                             *)

\* Requests that were not Idle are as they were, or have ended, or answer.
LEMMA Ended ==
    ASSUME TypeOK, NEW c \in Client, Done(c)
    PROVE  /\ request' \in [Client -> RequestType] /\ request'[c] = Idle
           /\ \A d \in Client \ {c} : request'[d] = request[d]
<1>1. Idle \in RequestType
  BY BoundAssumption DEF Idle, RequestType, Options
<1>. QED BY <1>1 DEF TypeOK, RequestType, Done

LEMMA Answered ==
    ASSUME TypeOK, NEW c \in Client, Answer(c)
    PROVE  /\ request' \in [Client -> RequestType] /\ request'[c].at = "answer"
           /\ request'[c].kind = request[c].kind /\ request'[c].item = request[c].item
           /\ \A d \in Client \ {c} : request'[d] = request[d]
<1>1. request[c] \in RequestType
  BY DEF TypeOK, RequestType
<1>2. [request[c] EXCEPT !.at = "answer"] \in RequestType
  BY <1>1 DEF RequestType
<1>. QED BY <1>1, <1>2 DEF TypeOK, RequestType, Answer

\* A request that ends leaves the others sound if the rows they rely on stay.
LEMMA EndInv ==
    ASSUME TypeOK, RequestsSound, RacesNoted, OneHolder, NEW c \in Client, Done(c),
           UNCHANGED <<entries, raced>>,
           \A d \in Client \ {c} : request[d] # Idle /\ RequestSound(d) => RequestSound(d)'
    PROVE  RequestsSound' /\ RacesNoted' /\ OneHolder'
<1>1. /\ request'[c] = Idle
      /\ \A d \in Client \ {c} : request'[d] = request[d]
  BY Ended
<1>2. RequestsSound'
  BY <1>1 DEF RequestsSound
<1>3. Idle.at = "idle" /\ Idle.kind = "none"
  BY DEF Idle
<1>4. RacesNoted'
  BY <1>1, <1>3 DEF RacesNoted
<1>5. OneHolder'
  BY <1>1, <1>3 DEF OneHolder
<1>. QED BY <1>2, <1>4, <1>5

\* A creation stays alone when another request ends or answers.
LEMMA StaysAlone ==
    ASSUME TypeOK, NEW c \in Client, Done(c) \/ Answer(c),
           NEW d \in Client \ {c}, CreateSound(d),
           items'[request[d].item] = NoItem, request[d].item \notin removed'
    PROVE  CreateSound(d)'
<1>1. Idle.item = NoItem
  BY DEF Idle
<1>2. /\ \A e \in Client \ {c} : request'[e] = request[e]
      /\ request'[c].item \in {request[c].item, NoItem}
  BY <1>1, Ended, Answered
<1>. QED BY <1>2, NoItemAssumption DEF CreateSound

\* What the other requests rely on besides rows they load: that is kept by
\* steps that leave the rows.
LEMMA RowsKept ==
    ASSUME TypeOK, NEW c \in Client, Done(c) \/ Answer(c),
           UNCHANGED <<entries, items, removed, copies, raced>>,
           NEW d \in Client \ {c}, RequestSound(d)
    PROVE  RequestSound(d)'
<1>1. request'[d] = request[d]
  BY Ended, Answered
<1>2. CreateSound(d) => CreateSound(d)'
  BY <1>1, StaysAlone DEF CreateSound
<1>3. PatchSound(d) => PatchSound(d)'
  BY <1>1 DEF PatchSound, Existed, NotAhead
<1>4. ConvertSound(d) => ConvertSound(d)'
  BY <1>1 DEF ConvertSound, Subtask
<1>. QED BY <1>1, <1>2, <1>3, <1>4 DEF RequestSound, Existed

\* Error returns.
LEMMA FailInv ==
    ASSUME IInv, NEW c \in Client, Conflict(c) \/ Fail(c) PROVE IInv'
<1> USE DEF IInv
<1>1. /\ Done(c)
      /\ UNCHANGED <<entries, items, removed, checklist, counter, made, copies, raced>>
  BY DEF Conflict, Fail
<1>2. /\ request' \in [Client -> RequestType] /\ request'[c] = Idle
      /\ \A d \in Client \ {c} : request'[d] = request[d]
  BY <1>1, Ended
<1>3. TypeOK'
  BY <1>1, <1>2 DEF TypeOK, RequestType, Subtask
<1>4. CopiesNotAhead'
  BY <1>1 DEF CopiesNotAhead, Existed, NotAhead
<1>5. RequestsSound' /\ RacesNoted' /\ OneHolder'
  BY <1>1, EndInv, RowsKept
<1>6. MadeRemoved'
  BY <1>1 DEF MadeRemoved, Subtask
<1>7. NumbersFollow'
  BY <1>1, <1>2 DEF NumbersFollow, Idle
<1>. QED BY <1>3, <1>4, <1>5, <1>6, <1>7

\* A client gets a copy of the row.
LEMMA SeeInv ==
    ASSUME IInv, NEW c \in Client, NEW i \in Item, items[i] # NoItem,
           copies' = [copies EXCEPT ![c][i] = items[i]],
           UNCHANGED <<entries, items, removed, checklist, counter, made, raced>>,
           UNCHANGED request \/ Done(c)
    PROVE  IInv'
<1> USE DEF IInv
<1>1. /\ request' \in [Client -> RequestType]
      /\ \A d \in Client : request'[d] = Idle \/ request'[d] = request[d]
      /\ \A d \in Client : request'[d].item \in {request[d].item, NoItem}
  <2>1. Idle.item = NoItem /\ request \in [Client -> RequestType]
    BY DEF Idle, TypeOK, RequestType
  <2>2. CASE UNCHANGED request
    BY <2>1, <2>2
  <2>3. CASE Done(c)
    BY <2>1, <2>3, Ended
  <2>. QED BY <2>2, <2>3
<1>2. items[i] \in Row /\ items[i].version \in Nat
  BY NoItemAssumption DEF TypeOK, Options, Row, Contract!Row
<1>3. /\ copies' \in [Client -> [Item -> Options(Row)]]
      /\ copies'[c][i] = items[i]
      /\ \A d \in Client, j \in Item : d # c \/ j # i => copies'[d][j] = copies[d][j]
  BY <1>2 DEF TypeOK, Options
<1>4. TypeOK'
  BY <1>1, <1>3 DEF TypeOK, RequestType, Subtask
<1>5. CopiesNotAhead'
  <2> SUFFICES ASSUME NEW d \in Client, NEW j \in Item, copies'[d][j] # NoItem
               PROVE  Existed(j)' /\ NotAhead(copies[d][j], j)'
    BY DEF CopiesNotAhead
  <2>1. CASE d = c /\ j = i
    BY <2>1, <1>2, <1>3 DEF Existed, NotAhead
  <2>2. CASE d # c \/ j # i
    BY <2>2, <1>3 DEF CopiesNotAhead, Existed, NotAhead
  <2>. QED BY <2>1, <2>2
<1>6. RequestsSound'
  <2> SUFFICES ASSUME NEW d \in Client, request'[d] # Idle PROVE RequestSound(d)'
    BY DEF RequestsSound
  <2>1. request'[d] = request[d] /\ RequestSound(d)
    BY <1>1 DEF RequestsSound
  <2>2. CreateSound(d) => CreateSound(d)'
    BY <2>1, <1>1, NoItemAssumption DEF CreateSound
  <2>3. PatchSound(d) => PatchSound(d)'
    <3> SUFFICES ASSUME PatchSound(d) PROVE PatchSound(d)'
      OBVIOUS
    <3>1. Existed(request[d].item)' /\ NotAhead(request[d].seen, request[d].item)'
      BY <2>1 DEF PatchSound, Existed, NotAhead
    <3>2. copies'[d][request[d].item] # NoItem
          /\ request[d].seen.version <= copies'[d][request[d].item].version
      BY <1>3 DEF PatchSound, NotAhead
    <3>. QED BY <2>1, <3>1, <3>2 DEF PatchSound
  <2>4. ConvertSound(d) => ConvertSound(d)'
    BY <2>1 DEF ConvertSound, Subtask
  <2>. QED BY <2>1, <2>2, <2>3, <2>4 DEF RequestSound, Existed
<1>7. Idle.at = "idle" /\ Idle.kind = "none"
  BY DEF Idle
<1>8. RacesNoted'
  BY <1>1, <1>7 DEF RacesNoted
<1>9. OneHolder' /\ NumbersFollow'
  BY <1>1, <1>7 DEF OneHolder, NumbersFollow
<1>10. MadeRemoved'
  BY DEF MadeRemoved, Subtask
<1>. QED BY <1>4, <1>5, <1>6, <1>8, <1>9, <1>10
\* The project is locked: the counter is read.
LEMMA LockInv ==
    ASSUME IInv, NEW c \in Client, Lock(c) PROVE IInv'
<1> USE DEF IInv
<1> DEFINE r == [request[c] EXCEPT !.at = "locked", !.counter = counter]
<1>1. /\ request[c].at = "loaded" /\ request[c].kind \in {"convert", "add_task"} /\ ~Locked
      /\ request' = [request EXCEPT ![c] = r]
      /\ UNCHANGED <<entries, items, removed, checklist, counter, made, copies, raced>>
  BY DEF Lock, Is, TypeOK
<1>2. /\ r \in RequestType
      /\ r.at = "locked" /\ r.counter = counter /\ r.kind = request[c].kind
      /\ r.item = request[c].item /\ r.seen = request[c].seen
  BY DEF TypeOK, RequestType
<1> HIDE DEF r
<1>3. /\ request' \in [Client -> RequestType] /\ request'[c] = r
      /\ \A d \in Client \ {c} : request'[d] = request[d]
      /\ \A d \in Client : request'[d].item = request[d].item
  BY <1>1, <1>2 DEF TypeOK, RequestType
<1>4. request[c] # Idle /\ Idle.at = "idle"
  BY <1>1 DEF Idle
<1>5. TypeOK'
  BY <1>1, <1>3 DEF TypeOK, RequestType, Subtask
<1>6. CopiesNotAhead'
  BY <1>1 DEF CopiesNotAhead, Existed, NotAhead
<1>7. RequestsSound'
  <2> SUFFICES ASSUME NEW d \in Client, request'[d] # Idle PROVE RequestSound(d)'
    BY DEF RequestsSound
  <2>1. RequestSound(d)
    BY <1>3, <1>4 DEF RequestsSound
  <2>2. ConvertSound(d) => ConvertSound(d)'
    BY <1>1, <1>2, <1>3 DEF ConvertSound, Subtask
  <2>3. CASE d = c
    BY <2>1, <2>2, <2>3, <1>1, <1>2, <1>3 DEF RequestSound, Existed
  <2>4. CASE d # c
    <3>1. CreateSound(d) => CreateSound(d)'
      BY <2>4, <1>1, <1>3 DEF CreateSound
    <3>2. PatchSound(d) => PatchSound(d)'
      BY <2>4, <1>1, <1>3 DEF PatchSound, Existed, NotAhead
    <3>. QED BY <2>1, <2>2, <2>4, <3>1, <3>2, <1>1, <1>3 DEF RequestSound, Existed
  <2>. QED BY <2>3, <2>4
<1>8. RacesNoted'
  <2>1. \A d \in Client : request'[d].kind = request[d].kind /\ (request'[d] # Idle => request[d] # Idle)
    BY <1>2, <1>3, <1>4
  <2>. QED BY <2>1, <1>1, <1>3 DEF RacesNoted
<1>9. OneHolder'
  BY <1>1, <1>3 DEF OneHolder, Locked
<1>10. MadeRemoved'
  BY <1>1 DEF MadeRemoved, Subtask
<1>11. NumbersFollow'
  BY <1>1, <1>2, <1>3 DEF NumbersFollow
<1>. QED BY <1>5, <1>6, <1>7, <1>8, <1>9, <1>10, <1>11

\* The next number of the project is free and goes to the task.
LEMMA NumberGiven ==
    ASSUME IInv, NEW c \in Client, request[c].at = "locked", Done(c), NEW task, Number(c, task),
           UNCHANGED entries, task \in Subtask \cup {"new"}
    PROVE  /\ counter' \in Numbers /\ made[counter'] = NoItem
           /\ made' = [made EXCEPT ![counter'] = task]
           /\ made' \in [Numbers -> Options(Subtask \cup {"new"})]'
           /\ counter' \in 0..MaxNumber /\ NumbersFollow'
<1> USE DEF IInv
<1>1. /\ counter' \in Numbers /\ made[counter'] = NoItem
      /\ made' = [made EXCEPT ![counter'] = task] /\ counter' = counter + 1
  BY DEF Number, NumbersFollow
<1>2. /\ request'[c] = Idle
      /\ \A d \in Client \ {c} : request'[d] = request[d]
  BY Ended
<1>3. made' \in [Numbers -> Options(Subtask \cup {"new"})]'
  BY <1>1 DEF TypeOK, Subtask, Options
<1>4. counter' \in 0..MaxNumber
  BY <1>1, BoundAssumption DEF Numbers
<1>5. \A d \in Client : request'[d].at # "locked"
  BY <1>2 DEF OneHolder, Idle
<1>6. \A n \in Numbers : made'[n] # NoItem <=> n <= counter'
  <2> SUFFICES ASSUME NEW n \in Numbers PROVE made'[n] # NoItem <=> n <= counter'
    OBVIOUS
  <2>1. task # NoItem
    BY NoItemAssumption DEF Subtask
  <2>2. n \in Nat /\ counter \in Nat
    BY BoundAssumption DEF Numbers, TypeOK
  <2>3. CASE n = counter'
    BY <2>1, <2>2, <2>3, <1>1 DEF TypeOK
  <2>4. CASE n # counter'
    <3>1. made'[n] = made[n]
      BY <2>4, <1>1 DEF TypeOK
    <3>2. n <= counter' <=> n <= counter
      BY <2>2, <2>4, <1>1
    <3>3. made[n] # NoItem <=> n <= counter
      BY DEF NumbersFollow
    <3>. QED BY <3>1, <3>2, <3>3
  <2>. QED BY <2>3, <2>4
<1>. QED BY <1>1, <1>3, <1>4, <1>5, <1>6 DEF NumbersFollow

LEMMA TaskInv ==
    ASSUME IInv, NEW c \in Client, CommitTask(c) PROVE IInv'
<1> USE DEF IInv
<1>1. /\ Done(c) /\ Number(c, "new") /\ request[c].at = "locked"
      /\ UNCHANGED <<entries, items, removed, checklist, copies, raced>>
  BY DEF CommitTask, Is
<1>2. request' \in [Client -> RequestType]
  BY <1>1, Ended
<1>3. /\ made' = [made EXCEPT ![counter'] = "new"] /\ counter' \in Numbers
      /\ made' \in [Numbers -> Options(Subtask \cup {"new"})]'
      /\ counter' \in 0..MaxNumber /\ NumbersFollow'
  BY <1>1, NumberGiven
<1>4. TypeOK'
  BY <1>1, <1>2, <1>3 DEF TypeOK, RequestType, Subtask
<1>5. CopiesNotAhead'
  BY <1>1 DEF CopiesNotAhead, Existed, NotAhead
<1>6. RequestsSound' /\ RacesNoted' /\ OneHolder'
  BY <1>1, EndInv, RowsKept
<1>7. MadeRemoved'
  BY <1>1, <1>3, NoItemAssumption DEF MadeRemoved, Subtask, TypeOK
<1>. QED BY <1>3, <1>4, <1>5, <1>6, <1>7
-----------------------------------------------------------------------------
(* Writes of rows.                                                         *)

\* Answering, a request is no longer bound by the rows.
LEMMA AnswerInv ==
    ASSUME TypeOK, RequestsSound, RacesNoted, OneHolder, NEW c \in Client, Answer(c),
           request[c].kind \in {"create", "patch"}, request[c].item \in Item,
           UNCHANGED <<entries, raced>>,
           \A d \in Client \ {c} : request[d] # Idle /\ RequestSound(d) => RequestSound(d)'
    PROVE  RequestsSound' /\ RacesNoted' /\ OneHolder'
<1>1. /\ request'[c].at = "answer"
      /\ request'[c].kind = request[c].kind /\ request'[c].item = request[c].item
      /\ \A d \in Client \ {c} : request'[d] = request[d]
  BY Answered
<1>2. RequestSound(c)'
  BY <1>1 DEF RequestSound, Kinds
<1>3. RequestsSound'
  BY <1>1, <1>2 DEF RequestsSound
<1>4. request[c] # Idle
  BY DEF Idle
<1>5. RacesNoted'
  BY <1>1, <1>4 DEF RacesNoted
<1>6. OneHolder'
  BY <1>1 DEF OneHolder
<1>. QED BY <1>3, <1>5, <1>6

LEMMA CreateInv ==
    ASSUME IInv, NEW c \in Client, CommitCreate(c) PROVE IInv'
<1> USE DEF IInv
<1> DEFINE i == request[c].item
           row == [version |-> 1, title |-> request[c].title]
<1>1. /\ request[c].at = "loaded" /\ request[c].kind = "create" /\ Answer(c)
      /\ items' = [items EXCEPT ![i] = row]
      /\ UNCHANGED <<entries, removed, checklist, counter, made, copies, raced>>
  BY DEF CommitCreate, Is, Contract!NewItem
<1>2. request[c] # Idle
  BY <1>1 DEF Idle
<1>3. /\ i \in Item /\ request[c].title \in Title /\ items[i] = NoItem /\ i \notin removed
      /\ \A d \in Client \ {c} : request[d].item # i
  BY <1>1, <1>2 DEF RequestsSound, RequestSound, CreateSound
<1>4. row \in Row /\ row.version <= MaxVersion /\ row # NoItem
  BY <1>3, BoundAssumption, NoItemAssumption DEF Row, Contract!Row
<1> HIDE DEF row
<1>5. /\ items' \in [Item -> Options(Row)] /\ items'[i] = row
      /\ \A j \in Item \ {i} : items'[j] = items[j]
  BY <1>1, <1>3, <1>4 DEF TypeOK, Options
<1> HIDE DEF i
<1>6. request' \in [Client -> RequestType] /\ \A d \in Client \ {c} : request'[d] = request[d]
  BY <1>1, Answered
<1>7. TypeOK'
  BY <1>1, <1>3, <1>4, <1>5, <1>6 DEF TypeOK, RequestType, Subtask
<1>8. CopiesNotAhead'
  <2>1. \A d \in Client : copies[d][i] = NoItem
    BY <1>3 DEF CopiesNotAhead, Existed
  <2>. QED BY <2>1, <1>1, <1>5 DEF CopiesNotAhead, Existed, NotAhead
<1>9. ASSUME NEW d \in Client \ {c}, request[d] # Idle, RequestSound(d)
      PROVE  RequestSound(d)'
  <2>1. request'[d] = request[d] /\ request[d].item # i
    BY <1>3, <1>6
  <2>2. request[d].item \in Item => items'[request[d].item] = items[request[d].item]
    BY <2>1, <1>5
  <2>3. CreateSound(d) => CreateSound(d)'
    BY <2>2, <1>1, StaysAlone DEF CreateSound
  <2>4. PatchSound(d) => PatchSound(d)'
    BY <2>1, <2>2, <1>1 DEF PatchSound, Existed, NotAhead
  <2>5. ConvertSound(d) => ConvertSound(d)'
    BY <2>1, <2>2, <1>1 DEF ConvertSound, Subtask
  <2>. QED BY <1>9, <2>1, <2>2, <2>3, <2>4, <2>5, <1>1 DEF RequestSound, Existed
<1>10. RequestsSound' /\ RacesNoted' /\ OneHolder'
  BY <1>1, <1>3, <1>9, AnswerInv DEF i
<1>11. MadeRemoved'
  BY <1>1 DEF MadeRemoved, Subtask
<1>12. NumbersFollow'
  <2>1. request'[c].at = "answer"
    BY <1>1, Answered
  <2>. QED BY <2>1, <1>1, <1>6 DEF NumbersFollow
<1>. QED BY <1>7, <1>8, <1>10, <1>11, <1>12

\* A patch that commits replaces the row that its client has a copy of.
LEMMA PatchSeen ==
    ASSUME IInv, NEW c \in Client, CommitPatch(c)
    PROVE  LET i == request[c].item
               row == [version |-> items[i].version + 1, title |-> request[c].title]
           IN  /\ i \in Item /\ request[c].title \in Title
               /\ request[c].at = "loaded" /\ request[c].kind = "patch" /\ Answer(c)
               /\ items[i] \in Row /\ items[i] # NoItem /\ copies[c][i] = items[i]
               /\ items[i].version \in Nat /\ items[i].version < MaxVersion
               /\ items' = [items EXCEPT ![i] = row]
               /\ UNCHANGED <<entries, removed, checklist, counter, made, copies, raced>>
<1> USE DEF IInv
<1> DEFINE i == request[c].item
           seen == request[c].seen
<1>1. /\ request[c].at = "loaded" /\ request[c].kind = "patch" /\ Answer(c)
      /\ items[i] # NoItem /\ items[i].version = seen.version
      /\ items' = [items EXCEPT ![i] = [version |-> seen.version + 1, title |-> request[c].title]]
      /\ UNCHANGED <<entries, removed, checklist, counter, made, copies, raced>>
  BY DEF CommitPatch, Is, Current
<1>2. request[c] # Idle
  BY <1>1 DEF Idle
<1>3. PatchSound(c)
  BY <1>1, <1>2 DEF RequestsSound, RequestSound
<1>4. i \in Item /\ items[i] \in Row /\ copies[c][i] \in Row /\ NotAhead(copies[c][i], i)
  BY <1>1, <1>3 DEF PatchSound, TypeOK, Options, CopiesNotAhead
<1>5. items[i].version \in Nat /\ copies[c][i].version \in Nat
  BY <1>4 DEF Row, Contract!Row
<1>6. copies[c][i] = items[i]
  BY <1>1, <1>3, <1>4, <1>5 DEF PatchSound, NotAhead
<1>. QED BY <1>1, <1>3, <1>4, <1>5, <1>6 DEF PatchSound

LEMMA PatchInv ==
    ASSUME IInv, NEW c \in Client, CommitPatch(c) PROVE IInv'
<1> USE DEF IInv
<1> DEFINE i == request[c].item
           row == [version |-> items[i].version + 1, title |-> request[c].title]
<1>1. /\ i \in Item /\ request[c].title \in Title
      /\ request[c].at = "loaded" /\ request[c].kind = "patch" /\ Answer(c)
      /\ items[i] \in Row /\ items[i] # NoItem
      /\ items[i].version \in Nat /\ items[i].version < MaxVersion
      /\ items' = [items EXCEPT ![i] = row]
      /\ UNCHANGED <<entries, removed, checklist, counter, made, copies, raced>>
  BY PatchSeen
<1>2. /\ row \in Row /\ row.version = items[i].version + 1 /\ row # NoItem
      /\ row.version <= MaxVersion
  BY <1>1, BoundAssumption, NoItemAssumption DEF Row, Contract!Row
<1> HIDE DEF row
<1>3. /\ items' \in [Item -> Options(Row)] /\ items'[i] = row
      /\ \A j \in Item \ {i} : items'[j] = items[j]
  BY <1>1, <1>2 DEF TypeOK, Options
<1>4. request' \in [Client -> RequestType] /\ \A d \in Client \ {c} : request'[d] = request[d]
  BY <1>1, Answered
<1>5. request[c] # Idle
  BY <1>1 DEF Idle
<1>6. ASSUME NEW j \in Item, NEW seen \in Row, NotAhead(seen, j)
      PROVE  NotAhead(seen, j)'
  <2>1. seen.version \in Nat
    BY <1>6 DEF Row, Contract!Row
  <2>. QED BY <2>1, <1>1, <1>2, <1>3, <1>6 DEF NotAhead
<1>7. \A j \in Item : Existed(j) => Existed(j)'
  BY <1>1, <1>2, <1>3 DEF Existed
<1>8. TypeOK'
  BY <1>1, <1>2, <1>3, <1>4 DEF TypeOK, RequestType, Subtask
<1>9. CopiesNotAhead'
  BY <1>1, <1>6, <1>7 DEF CopiesNotAhead, TypeOK, Options
<1>10. ASSUME NEW d \in Client \ {c}, request[d] # Idle, RequestSound(d)
       PROVE  RequestSound(d)'
  <2>1. request'[d] = request[d]
    BY <1>4
  <2>2. CreateSound(d) => CreateSound(d)'
    <3>1. CreateSound(d) => request[d].item # i /\ request[d].item \in Item
      BY <1>1 DEF CreateSound
    <3>. QED BY <3>1, <1>1, <1>3, StaysAlone DEF CreateSound
  <2>3. PatchSound(d) => PatchSound(d)'
    BY <2>1, <1>1, <1>6, <1>7 DEF PatchSound
  <2>4. request[d].kind = "convert" /\ ConvertSound(d) => ConvertSound(d)'
    <3>1. request[d].kind = "convert" /\ request[d].item = i => i \in raced
      BY <1>5 DEF RacesNoted
    <3>. QED BY <3>1, <2>1, <1>1, <1>3 DEF ConvertSound, Subtask
  <2>. QED BY <1>7, <1>10, <2>1, <2>2, <2>3, <2>4 DEF RequestSound
<1>11. RequestsSound' /\ RacesNoted' /\ OneHolder'
  BY <1>1, <1>10, AnswerInv
<1>12. MadeRemoved'
  BY <1>1 DEF MadeRemoved, Subtask
<1>13. NumbersFollow'
  <2>1. request'[c].at = "answer"
    BY <1>1, Answered
  <2>. QED BY <2>1, <1>1, <1>4 DEF NumbersFollow
<1>. QED BY <1>8, <1>9, <1>11, <1>12, <1>13
\* Rows that are removed: nobody relies on them but conversions that are known
\* to have been overlapped.
LEMMA RemoveInv ==
    ASSUME IInv, NEW c \in Client, Done(c), NEW I \in SUBSET Item, Drop(I),
           UNCHANGED <<entries, copies, raced>>,
           \A i \in I : Existed(i),
           \A d \in Client \ {c} : request[d].kind = "convert" /\ request[d].item \in I
              => request[d].item \in raced
    PROVE  /\ items' \in [Item -> Options(Row)]
           /\ \A i \in Item : items'[i] # NoItem => items'[i] = items[i]
           /\ removed' \in SUBSET {i \in Item : items'[i] = NoItem}
           /\ removed \subseteq removed'
           /\ CopiesNotAhead' /\ RequestsSound' /\ RacesNoted' /\ OneHolder'
<1> USE DEF IInv
<1>1. /\ items' = [i \in Item |-> IF i \in I THEN NoItem ELSE items[i]]
      /\ removed' = removed \cup I
  BY DEF Drop
<1>2. /\ items' \in [Item -> Options(Row)]
      /\ \A i \in Item : items'[i] # NoItem => items'[i] = items[i]
      /\ removed' \in SUBSET {i \in Item : items'[i] = NoItem}
      /\ removed \subseteq removed'
  BY <1>1 DEF TypeOK, Options
<1>3. \A i \in Item : Existed(i) => Existed(i)'
  BY <1>1 DEF Existed
<1>4. ASSUME NEW i \in Item, NEW seen, NotAhead(seen, i)
      PROVE  NotAhead(seen, i)'
  BY <1>2, <1>4 DEF NotAhead
<1>5. CopiesNotAhead'
  BY <1>3, <1>4 DEF CopiesNotAhead
<1>6. ASSUME NEW d \in Client \ {c}, request[d] # Idle, RequestSound(d)
      PROVE  RequestSound(d)'
  <2>1. request'[d] = request[d]
    BY Ended
  <2>2. CreateSound(d) => CreateSound(d)'
    <3> SUFFICES ASSUME CreateSound(d) PROVE CreateSound(d)'
      OBVIOUS
    <3>1. request[d].item \in Item /\ request[d].item \notin I
      BY DEF CreateSound, Existed
    <3>2. items'[request[d].item] = NoItem /\ request[d].item \notin removed'
      BY <3>1, <1>1 DEF CreateSound
    <3>. QED BY <3>2, StaysAlone
  <2>3. PatchSound(d) => PatchSound(d)'
    BY <2>1, <1>3, <1>4 DEF PatchSound
  <2>4. request[d].kind = "convert" /\ ConvertSound(d) => ConvertSound(d)'
    BY <2>1, <1>1 DEF ConvertSound, Subtask
  <2>. QED BY <1>3, <1>6, <2>1, <2>2, <2>3, <2>4 DEF RequestSound
<1>7. RequestsSound' /\ RacesNoted' /\ OneHolder'
  BY <1>6, EndInv
<1>. QED BY <1>2, <1>5, <1>7

LEMMA DeleteInv ==
    ASSUME IInv, NEW c \in Client, CommitDelete(c) \/ CommitDeleteList(c) PROVE IInv'
<1> USE DEF IInv
<1>1. PICK I \in SUBSET Item :
        /\ Drop(I) /\ \A i \in I : Existed(i)
        /\ \A d \in Client \ {c} : request[d].kind = "convert" /\ request[d].item \in I
             => request[d].item \in raced
  <2>1. CASE CommitDelete(c)
    <3> DEFINE i == request[c].item
    <3>1. request[c].kind = "delete" /\ request[c] # Idle /\ Drop({i})
      BY <2>1 DEF CommitDelete, Is, Idle
    <3>2. i \in Item /\ Existed(i)
      BY <3>1 DEF RequestsSound, RequestSound
    <3>3. \A d \in Client \ {c} : request[d].kind = "convert" /\ request[d].item = i
            => i \in raced
      BY <3>1 DEF RacesNoted
    <3>. QED BY <3>1, <3>2, <3>3
  <2>2. CASE CommitDeleteList(c)
    <3> DEFINE I == {i \in Item \ Subtask : items[i] # NoItem}
    <3>1. Drop(I) /\ I \in SUBSET Item /\ \A i \in I : Existed(i)
      BY <2>2 DEF CommitDeleteList, Existed
    <3>2. ASSUME NEW d \in Client, request[d].kind = "convert" PROVE request[d].item \notin I
      <4>1. request[d] # Idle
        BY <3>2 DEF Idle
      <4>. QED BY <3>2, <4>1 DEF RequestsSound, RequestSound, ConvertSound
    <3>. QED BY <3>1, <3>2
  <2>. QED BY <2>1, <2>2
<1>2. /\ Done(c) /\ UNCHANGED <<entries, counter, made, copies, raced>>
      /\ checklist' \in {"here", "gone"}
  BY DEF CommitDelete, CommitDeleteList, TypeOK
<1>3. /\ items' \in [Item -> Options(Row)]
      /\ \A i \in Item : items'[i] # NoItem => items'[i] = items[i]
      /\ removed' \in SUBSET {i \in Item : items'[i] = NoItem}
      /\ removed \subseteq removed'
      /\ CopiesNotAhead' /\ RequestsSound' /\ RacesNoted' /\ OneHolder'
  BY <1>1, <1>2, RemoveInv
<1>4. /\ request' \in [Client -> RequestType] /\ request'[c] = Idle
      /\ \A d \in Client \ {c} : request'[d] = request[d]
  BY <1>2, Ended
<1>5. TypeOK'
  BY <1>2, <1>3, <1>4 DEF TypeOK, RequestType, Subtask
<1>6. MadeRemoved'
  BY <1>2, <1>3 DEF MadeRemoved, Subtask
<1>7. NumbersFollow'
  BY <1>2, <1>4 DEF NumbersFollow, Idle
<1>. QED BY <1>3, <1>5, <1>6, <1>7

LEMMA ConvertInv ==
    ASSUME IInv, NEW c \in Client, CommitConvert(c) PROVE IInv'
<1> USE DEF IInv
<1> DEFINE i == request[c].item
<1>1. /\ request[c].at = "locked" /\ request[c].kind = "convert" /\ request[c] # Idle
      /\ Number(c, i) /\ Drop({i}) /\ Done(c)
      /\ UNCHANGED <<entries, checklist, copies, raced>>
  BY DEF CommitConvert, Converted, Is, Idle
<1>2. i \in Subtask /\ i \in Item /\ Existed(i)
      /\ (i \notin raced => items[i] \in Row)
  BY <1>1 DEF RequestsSound, RequestSound, ConvertSound
<1>3. \A d \in Client \ {c} : request[d].kind = "convert" /\ request[d].item = i
        => i \in raced
  BY <1>1 DEF RacesNoted
<1>4. /\ items' \in [Item -> Options(Row)]
      /\ \A j \in Item : items'[j] # NoItem => items'[j] = items[j]
      /\ removed' \in SUBSET {j \in Item : items'[j] = NoItem}
      /\ removed \subseteq removed'
      /\ CopiesNotAhead' /\ RequestsSound' /\ RacesNoted' /\ OneHolder'
  <2>1. {i} \in SUBSET Item /\ \A j \in {i} : Existed(j)
    BY <1>2
  <2>. QED BY <2>1, <1>1, <1>3, RemoveInv
<1>5. request' \in [Client -> RequestType]
  BY <1>1, Ended
<1>6. /\ counter' \in Numbers /\ made[counter'] = NoItem
      /\ made' = [made EXCEPT ![counter'] = i]
      /\ made' \in [Numbers -> Options(Subtask \cup {"new"})]'
      /\ counter' \in 0..MaxNumber /\ NumbersFollow'
  BY <1>1, <1>2, NumberGiven
<1>7. TypeOK'
  BY <1>1, <1>4, <1>5, <1>6 DEF TypeOK, RequestType, Subtask
<1>8. MadeRemoved'
  <2>1. i \in removed'
    BY <1>1 DEF Drop
  <2>2. i \notin raced => \A n \in Numbers : made[n] # i
    BY <1>2, NoItemAssumption DEF MadeRemoved, TypeOK
  <2>3. Subtask' = Subtask
    BY <1>1 DEF Subtask
  <2>4. made'[counter'] = i /\ \A n \in Numbers \ {counter'} : made'[n] = made[n]
    BY <1>6 DEF TypeOK
  <2> HIDE DEF i
  <2>5. ASSUME NEW n \in Numbers, made'[n] \in Subtask
        PROVE  /\ made'[n] \in removed'
               /\ made'[n] \notin raced => \A m \in Numbers \ {n} : made'[m] # made'[n]
    <3>1. CASE n = counter'
      BY <2>1, <2>2, <2>4, <3>1
    <3>2. CASE n # counter'
      BY <2>2, <2>4, <2>5, <3>2, <1>4 DEF MadeRemoved
    <3>. QED BY <3>1, <3>2
  <2>. QED BY <2>3, <2>5, <1>1 DEF MadeRemoved
<1>. QED BY <1>4, <1>6, <1>7, <1>8

-----------------------------------------------------------------------------
(* The theorems.                                                           *)

LEMMA StepInv == ASSUME IInv, [Next]_vars PROVE IInv'
<1>1. ASSUME NEW c \in Client, Begins(c) PROVE IInv'
  BY <1>1, BeginsInv
<1>2. ASSUME NEW c \in Client, NEW i \in Item, Read(c, i) PROVE IInv'
  BY <1>2, SeeInv DEF Read
<1>3. ASSUME NEW c \in Client, Respond(c) PROVE IInv'
  <2>1. request[c].at = "answer" /\ request[c] # Idle
    BY <1>3 DEF Respond, Idle
  <2>2. request[c].item \in Item
    BY <2>1 DEF IInv, RequestsSound, RequestSound
  <2>. QED BY <1>3, <2>2, SeeInv DEF Respond
<1>4. ASSUME NEW c \in Client, Conflict(c) \/ Fail(c) PROVE IInv'
  BY <1>4, FailInv
<1>5. ASSUME NEW c \in Client, Lock(c) PROVE IInv'
  BY <1>5, LockInv
<1>6. ASSUME NEW c \in Client,
             CommitCreate(c) \/ CommitPatch(c) \/ CommitTask(c) \/ CommitConvert(c)
      PROVE  IInv'
  BY <1>6, CreateInv, PatchInv, TaskInv, ConvertInv
<1>7. ASSUME NEW c \in Client, CommitDelete(c) \/ CommitDeleteList(c) PROVE IInv'
  BY <1>7, DeleteInv
<1>8. CASE UNCHANGED vars
  <2>1. TypeOK'
    BY <1>8 DEF vars, IInv, TypeOK, Subtask
  <2>2. CopiesNotAhead'
    BY <1>8 DEF vars, IInv, CopiesNotAhead, Existed, NotAhead
  <2>3. RacesNoted'
    BY <1>8 DEF vars, IInv, RacesNoted
  <2>4. RequestsSound'
    <3>1. UNCHANGED <<entries, items, copies, removed, raced, request>>
      BY <1>8 DEF vars
    <3>2. ASSUME NEW c \in Client
          PROVE  /\ CreateSound(c) => CreateSound(c)'
                 /\ PatchSound(c) => PatchSound(c)'
                 /\ ConvertSound(c) => ConvertSound(c)'
      <4>1. CreateSound(c) => CreateSound(c)'
        BY <3>1 DEF CreateSound
      <4>2. PatchSound(c) => PatchSound(c)'
        BY <3>1 DEF PatchSound, Existed, NotAhead
      <4>3. ConvertSound(c) => ConvertSound(c)'
        BY <3>1 DEF ConvertSound, Subtask
      <4>. QED BY <4>1, <4>2, <4>3
    <3>. QED BY <3>1, <3>2 DEF IInv, RequestsSound, RequestSound, Existed
  <2>5. OneHolder' /\ MadeRemoved' /\ NumbersFollow'
    BY <1>8 DEF vars, IInv, OneHolder, MadeRemoved, NumbersFollow, Subtask
  <2>. QED BY <2>1, <2>2, <2>3, <2>4, <2>5 DEF IInv
<1>. QED BY <1>1, <1>2, <1>3, <1>4, <1>5, <1>6, <1>7, <1>8 DEF Next, Begins

\* The inductive invariant holds.
LEMMA Invariant == Spec => []IInv
<1>1. Init => IInv
  BY InitInv
<1>2. IInv /\ [Next]_vars => IInv'
  BY StepInv
<1>. QED BY <1>1, <1>2, PTL DEF Spec

LEMMA ItemsAlone == Spec => []ItemsConsistent
<1>1. IInv => ItemsConsistent
  BY Consistent
<1>. QED BY <1>1, Invariant, PTL

\* A step of the code is a step of the contract, or changes nothing it sees.
LEMMA ContractStep == ASSUME IInv, [Next]_vars PROVE [Contract!Next]_(Contract!vars)
<1> USE DEF IInv
<1>1. ASSUME NEW c \in Client, CommitCreate(c)
      PROVE  Contract!Next
  <2> DEFINE i == request[c].item
  <2>1. /\ request[c].at = "loaded" /\ request[c].kind = "create" /\ request[c] # Idle
        /\ items' = [items EXCEPT ![i] = Contract!NewItem(request[c].title)]
        /\ UNCHANGED <<removed, copies>>
    BY <1>1 DEF CommitCreate, Is, Idle
  <2>2. i \in Item /\ request[c].title \in Title /\ items[i] = NoItem /\ i \notin removed
    BY <2>1 DEF RequestsSound, RequestSound, CreateSound
  <2>. QED BY <2>1, <2>2 DEF Contract!Next, Contract!Create
<1>2. ASSUME NEW c \in Client, CommitPatch(c)
      PROVE  Contract!Next
  <2> DEFINE i == request[c].item
  <2>1. /\ i \in Item /\ request[c].title \in Title
        /\ items[i] # NoItem /\ copies[c][i] = items[i]
        /\ items' = [items EXCEPT ![i] = [version |-> items[i].version + 1,
                                         title |-> request[c].title]]
        /\ UNCHANGED <<removed, copies>>
    BY <1>2, PatchSeen
  <2>. QED BY <2>1 DEF Contract!Next, Contract!Write
<1>3. ASSUME NEW I \in SUBSET Item, Drop(I), \A i \in I : Existed(i), UNCHANGED copies
      PROVE  [Contract!Next]_(Contract!vars)
  <2> DEFINE J == {i \in I : items[i] # NoItem}
  <2>1. /\ items' = [i \in Item |-> IF i \in J THEN NoItem ELSE items[i]]
        /\ removed' = removed \cup J
    BY <1>3 DEF Drop, Existed
  <2>2. CASE J = {}
    BY <2>1, <2>2, <1>3 DEF TypeOK, Contract!vars
  <2>3. CASE J # {}
    BY <2>1, <2>3, <1>3 DEF Contract!Next, Contract!Remove
  <2>. QED BY <2>2, <2>3
<1>4. ASSUME NEW c \in Client, CommitDelete(c) \/ CommitConvert(c)
      PROVE  [Contract!Next]_(Contract!vars)
  <2>1. /\ request[c] # Idle /\ request[c].kind \in {"delete", "convert"}
        /\ Drop({request[c].item}) /\ UNCHANGED copies
    BY <1>4 DEF CommitDelete, CommitConvert, Converted, Is, Idle
  <2>2. request[c].item \in Item /\ Existed(request[c].item)
    BY <2>1 DEF RequestsSound, RequestSound
  <2>. QED BY <2>1, <2>2, <1>3
<1>5. ASSUME NEW c \in Client, CommitDeleteList(c)
      PROVE  [Contract!Next]_(Contract!vars)
  BY <1>5, <1>3 DEF CommitDeleteList, Existed
<1>6. ASSUME NEW c \in Client, NEW i \in Item, Read(c, i)
      PROVE  Contract!Next
  BY <1>6 DEF Read, Contract!Next, Contract!See
<1>7. ASSUME NEW c \in Client, Respond(c)
      PROVE  Contract!Next
  <2>1. request[c].at = "answer" /\ request[c] # Idle
    BY <1>7 DEF Respond, Idle
  <2>2. request[c].item \in Item
    BY <2>1 DEF RequestsSound, RequestSound
  <2>. QED BY <1>7, <2>2 DEF Respond, Contract!Next, Contract!See
<1>8. ASSUME NEW c \in Client, Begins(c) \/ Lock(c) \/ Conflict(c) \/ Fail(c) \/ CommitTask(c)
      PROVE  UNCHANGED Contract!vars
  BY <1>8 DEF Begins, BeginDelete, BeginConvert, BeginCreate, BeginPatch, BeginTask,
     BeginDeleteList, Begin, Lock, Conflict, Fail, CommitTask, Contract!vars
<1>9. CASE UNCHANGED vars
  BY <1>9 DEF vars, Contract!vars
<1>. QED BY <1>1, <1>2, <1>4, <1>5, <1>6, <1>7, <1>8, <1>9 DEF Next, Begins

LEMMA ContractAlone == Spec => ImplementsContract
<1>1. Init => Contract!Init
  BY DEF Init, Contract!Init
<1>2. IInv /\ [Next]_vars => [Contract!Next]_(Contract!vars)
  BY ContractStep
<1>. QED BY <1>1, <1>2, Invariant, PTL DEF Spec, ImplementsContract, Contract!Spec

-----------------------------------------------------------------------------
(* Timers.                                                                 *)

EntryRow == [state: {"none", "running", "ended", "gone"}, person: Timers!Maybe(Person),
             work: Timers!Maybe(Work), stops: 0..Cardinality(Call)]
CallRow == [kind: Timers!Kinds \cup {"none"}, entry: Timers!Maybe(Entry),
            person: Timers!Maybe(Person), work: Timers!Maybe(Work)]

\* The requests that are about to stop the timer e.
Stopping(e) == {q \in Call : call[q].kind = "stop" /\ call[q].entry = e}

\* What a request is about.
CallsSound == \A q \in Call :
    /\ call[q].kind \in {"stop", "drop"} => call[q].entry \in Entry
    /\ call[q].kind \in {"start", "manual"} => call[q].person \in Person /\ call[q].work \in Work

OneTimer == \A d, e \in Entry :
    /\ entry[d].state = "running" /\ entry[e].state = "running"
    /\ entry[d].person = entry[e].person
    => d = e

\* Nobody has stopped a timer that runs; a request that is to stop one that
\* was stopped overlapped another.
StopsNoted == \A e \in Entry :
    /\ entry[e].state = "running" => entry[e].stops = 0
    /\ \A q, r \in Stopping(e) : q # r => e \in contested
    /\ entry[e].stops > 0 /\ Stopping(e) # {} => e \in contested
    /\ entry[e].stops > 1 => e \in contested

StopsBounded == \A e \in Entry :
    entry[e].stops + Cardinality(Stopping(e)) <= Cardinality(Call)

TimersInv == /\ tracking \in BOOLEAN /\ contested \subseteq Entry
             /\ entry \in [Entry -> EntryRow] /\ call \in [Call -> CallRow]
             /\ CallsSound /\ OneTimer /\ StopsNoted /\ StopsBounded

\* The module of the timers counts as this one does.
LEMMA SameCardinality == \A S : Timers!Cardinality(S) = Cardinality(S)
BY Zenon DEF Cardinality, Timers!Cardinality

LEMMA TimersTypes ==
    TimersInv => Timers!TypeOK
<1>1. ASSUME TimersInv
      PROVE  /\ tracking \in BOOLEAN /\ contested \subseteq Entry
             /\ entry \in [Entry -> EntryRow] /\ call \in [Call -> CallRow]
  BY <1>1 DEF TimersInv
<1>2. Timers!Cardinality(Call) = Cardinality(Call)
  BY SameCardinality
<1> QED BY <1>1, <1>2 DEF Timers!TypeOK, EntryRow, CallRow

LEMMA StoppingFinite ==
    ASSUME NEW e
    PROVE  IsFiniteSet(Stopping(e)) /\ Cardinality(Stopping(e)) \in Nat
           /\ Cardinality(Stopping(e)) <= Cardinality(Call) /\ Cardinality(Call) \in Nat
<1>1. Stopping(e) \in SUBSET Call
  BY DEF Stopping
<1> QED BY <1>1, CallAssumption, FS_Subset, FS_CardinalityType

LEMMA IdleCall ==
    /\ Timers!Idle \in CallRow /\ Timers!Idle.kind = "none"
    /\ "none" \notin Timers!Kinds
BY DEF Timers!Idle, CallRow, Timers!Maybe, Timers!Kinds

\* One request changes and it is not about to stop a timer.
LEMMA OtherCall ==
    ASSUME TimersInv, NEW q \in Call, NEW new \in CallRow, new.kind # "stop",
           call' = [call EXCEPT ![q] = new]
    PROVE  /\ call' \in [Call -> CallRow] /\ call'[q] = new
           /\ \A r \in Call \ {q} : call'[r] = call[r]
           /\ \A e : Stopping(e)' = Stopping(e) \ {q}
<1>1. /\ call' \in [Call -> CallRow] /\ call'[q] = new
      /\ \A r \in Call \ {q} : call'[r] = call[r]
  BY DEF TimersInv
<1>2. \A e : Stopping(e)' = Stopping(e) \ {q}
  BY <1>1 DEF Stopping
<1> QED BY <1>1, <1>2

\* Requests that end, or are about other things, disturb no record of the stops.
LEMMA StopsKeep ==
    ASSUME TimersInv, NEW q, \A e : Stopping(e)' = Stopping(e) \ {q},
           contested' = contested, NEW e \in Entry,
           entry'[e].stops = entry[e].stops,
           entry'[e].state = "running" => entry[e].state = "running"
    PROVE  /\ entry'[e].state = "running" => entry'[e].stops = 0
           /\ \A p, r \in Stopping(e)' : p # r => e \in contested'
           /\ entry'[e].stops > 0 /\ Stopping(e)' # {} => e \in contested'
           /\ entry'[e].stops > 1 => e \in contested'
           /\ entry'[e].stops + Cardinality(Stopping(e)') <= Cardinality(Call)
<1>1. Stopping(e)' \in SUBSET Stopping(e)
  OBVIOUS
<1>2. Cardinality(Stopping(e)') <= Cardinality(Stopping(e)) /\ Cardinality(Stopping(e)') \in Nat
  BY <1>1, StoppingFinite, FS_Subset, FS_CardinalityType
<1>3. entry[e].stops \in Nat
  BY StoppingFinite DEF TimersInv, EntryRow
<1>4. entry'[e].stops + Cardinality(Stopping(e)') <= Cardinality(Call)
  BY <1>2, <1>3, StoppingFinite DEF TimersInv, StopsBounded
<1> QED BY <1>1, <1>4 DEF TimersInv, StopsNoted

\* A request begins that stops nothing, or ends without a write.
LEMMA TimerCallStep ==
    ASSUME TimersInv, NEW q \in Call, NEW new \in CallRow, new.kind # "stop",
           new.kind = "drop" => new.entry \in Entry,
           new.kind \in {"start", "manual"} => new.person \in Person /\ new.work \in Work,
           call' = [call EXCEPT ![q] = new], UNCHANGED <<tracking, entry, contested>>
    PROVE  TimersInv'
<1>1. /\ call' \in [Call -> CallRow] /\ call'[q] = new
      /\ \A r \in Call \ {q} : call'[r] = call[r]
      /\ \A e : Stopping(e)' = Stopping(e) \ {q}
  BY OtherCall
<1>2. CallsSound'
  BY <1>1 DEF TimersInv, CallsSound
<1>3. StopsNoted' /\ StopsBounded'
  BY <1>1, StopsKeep DEF StopsNoted, StopsBounded
<1> QED BY <1>1, <1>2, <1>3 DEF TimersInv, OneTimer, EntryRow

LEMMA TimerBegins ==
    ASSUME TimersInv, NEW q \in Call,
           \/ \E p \in Person, w \in Work, kind \in Timers!Kinds : Timers!BeginEntry(q, kind, p, w)
           \/ \E e \in Entry : Timers!BeginDrop(q, e)
           \/ Timers!Fail(q)
    PROVE  TimersInv'
<1>1. ASSUME NEW p \in Person, NEW w \in Work, NEW kind, Timers!BeginEntry(q, kind, p, w)
      PROVE  TimersInv'
  <2> DEFINE new == [Timers!Idle EXCEPT !.kind = kind, !.person = p, !.work = w]
  <2>1. /\ kind \in {"start", "manual"} /\ call' = [call EXCEPT ![q] = new]
        /\ UNCHANGED <<tracking, entry, contested>>
    BY <1>1 DEF Timers!BeginEntry
  <2>2. new \in CallRow /\ new.kind = kind /\ new.person = p /\ new.work = w
    BY <2>1 DEF Timers!Idle, CallRow, Timers!Maybe, Timers!Kinds
  <2> HIDE DEF new
  <2> QED BY <2>1, <2>2, TimerCallStep
<1>2. ASSUME NEW e \in Entry, Timers!BeginDrop(q, e)
      PROVE  TimersInv'
  <2> DEFINE new == [Timers!Idle EXCEPT !.kind = "drop", !.entry = e]
  <2>1. call' = [call EXCEPT ![q] = new] /\ UNCHANGED <<tracking, entry, contested>>
    BY <1>2 DEF Timers!BeginDrop
  <2>2. new \in CallRow /\ new.kind = "drop" /\ new.entry = e
    BY DEF Timers!Idle, CallRow, Timers!Maybe, Timers!Kinds
  <2> HIDE DEF new
  <2> QED BY <2>1, <2>2, TimerCallStep
<1>3. ASSUME Timers!Fail(q)
      PROVE  TimersInv'
  <2>1. call' = [call EXCEPT ![q] = Timers!Idle] /\ UNCHANGED <<tracking, entry, contested>>
    BY <1>3 DEF Timers!Fail, Timers!Done
  <2> QED BY <2>1, IdleCall, TimerCallStep
<1> QED BY <1>1, <1>2, <1>3

\* Who begins to stop a timer that another is about to stop has it recorded.
LEMMA BeginStopStep ==
    ASSUME TimersInv, NEW q \in Call, NEW p \in Person, NEW w \in Work, NEW e \in Entry,
           Timers!BeginStop(q, p, w, e)
    PROVE  TimersInv'
<1> DEFINE new == [Timers!Idle EXCEPT !.kind = "stop", !.entry = e]
<1>1. /\ call[q] = Timers!Idle /\ entry[e].state = "running"
      /\ call' = [call EXCEPT ![q] = new]
      /\ contested' = IF Stopping(e) # {} THEN contested \cup {e} ELSE contested
      /\ UNCHANGED <<tracking, entry>>
  BY DEF Timers!BeginStop, Timers!Stoppable, Timers!Running, Stopping
<1>2. new \in CallRow /\ new.kind = "stop" /\ new.entry = e
  BY DEF Timers!Idle, CallRow, Timers!Maybe, Timers!Kinds
<1> HIDE DEF new
<1>3. /\ call' \in [Call -> CallRow] /\ call'[q] = new
      /\ \A r \in Call \ {q} : call'[r] = call[r]
  BY <1>1, <1>2 DEF TimersInv
<1>4. /\ \A d \in Entry \ {e} : Stopping(d)' = Stopping(d)
      /\ Stopping(e)' = Stopping(e) \cup {q}
  BY <1>1, <1>2, <1>3, IdleCall DEF Stopping
<1>5. entry[e].stops = 0
  BY <1>1 DEF TimersInv, StopsNoted
<1>6. CallsSound'
  BY <1>2, <1>3 DEF TimersInv, CallsSound
<1>7. StopsNoted'
  BY <1>1, <1>4, <1>5 DEF TimersInv, StopsNoted
<1>8. StopsBounded'
  <2>1. Cardinality(Stopping(e)') <= Cardinality(Call) /\ Cardinality(Stopping(e)') \in Nat
    <3>1. Stopping(e)' \in SUBSET Call
      BY DEF Stopping
    <3> QED BY <3>1, CallAssumption, FS_Subset, FS_CardinalityType
  <2>2. entry'[e].stops + Cardinality(Stopping(e)') <= Cardinality(Call)
    BY <1>1, <1>5, <2>1
  <2> QED BY <1>1, <1>4, <2>2 DEF TimersInv, StopsBounded
<1> QED BY <1>1, <1>3, <1>6, <1>7, <1>8 DEF TimersInv, OneTimer, EntryRow

\* An entry is written: what is not stated to change stays as it is.
LEMMA EntryWritten ==
    ASSUME TimersInv, NEW e \in Entry, NEW new \in EntryRow,
           entry' = [entry EXCEPT ![e] = new]
    PROVE  /\ entry' \in [Entry -> EntryRow] /\ entry'[e] = new
           /\ \A d \in Entry \ {e} : entry'[d] = entry[d]
BY DEF TimersInv

\* A request ends.
LEMMA CallEnded ==
    ASSUME TimersInv, NEW q \in Call, Timers!Done(q)
    PROVE  /\ call' \in [Call -> CallRow] /\ CallsSound'
           /\ \A e : Stopping(e)' = Stopping(e) \ {q}
<1>1. call' = [call EXCEPT ![q] = Timers!Idle]
  BY DEF Timers!Done
<1>2. /\ call' \in [Call -> CallRow] /\ call'[q] = Timers!Idle
      /\ \A r \in Call \ {q} : call'[r] = call[r]
      /\ \A e : Stopping(e)' = Stopping(e) \ {q}
  BY <1>1, IdleCall, OtherCall
<1>3. CallsSound'
  BY <1>2, IdleCall DEF TimersInv, CallsSound
<1> QED BY <1>2, <1>3

\* The unique index on running entries.
LEMMA CommitEntryStep ==
    ASSUME TimersInv, NEW q \in Call, NEW e \in Entry, Timers!CommitEntry(q, e)
    PROVE  TimersInv'
<1> DEFINE new == [state |-> IF call[q].kind = "start" THEN "running" ELSE "ended",
                   person |-> call[q].person, work |-> call[q].work, stops |-> 0]
<1>1. /\ entry[e].state = "none" /\ call[q].kind \in {"start", "manual"}
      /\ call[q].kind = "start" => Timers!Running(call[q].person) = {}
      /\ entry' = [entry EXCEPT ![e] = new]
      /\ Timers!Done(q) /\ UNCHANGED <<tracking, contested>>
  BY DEF Timers!CommitEntry, Timers!MayRun
<1>2. /\ new \in EntryRow /\ new.stops = 0 /\ new.person = call[q].person
      /\ new.state = "running" => call[q].kind = "start"
  <2>1. 0 \in 0..Cardinality(Call)
    BY StoppingFinite
  <2>2. call[q].person \in Timers!Maybe(Person) /\ call[q].work \in Timers!Maybe(Work)
    BY DEF TimersInv, CallRow
  <2> QED BY <2>1, <2>2 DEF EntryRow
<1> HIDE DEF new
<1>3. /\ entry' \in [Entry -> EntryRow] /\ entry'[e] = new
      /\ \A d \in Entry \ {e} : entry'[d] = entry[d]
  BY <1>1, <1>2, EntryWritten
<1>4. /\ call' \in [Call -> CallRow] /\ CallsSound'
      /\ \A d : Stopping(d)' = Stopping(d) \ {q}
  BY <1>1, CallEnded
<1>5. Stopping(e)' \in SUBSET Stopping(e) /\ contested' = contested
  BY <1>1, <1>4
<1>6. OneTimer'
  <2>1. new.state = "running" =>
          \A d \in Entry : ~(entry[d].state = "running" /\ entry[d].person = new.person)
    BY <1>1, <1>2 DEF Timers!Running
  <2> QED BY <1>3, <2>1 DEF TimersInv, OneTimer
<1>7. ASSUME NEW d \in Entry
      PROVE  /\ entry'[d].state = "running" => entry'[d].stops = 0
             /\ \A p, r \in Stopping(d)' : p # r => d \in contested'
             /\ entry'[d].stops > 0 /\ Stopping(d)' # {} => d \in contested'
             /\ entry'[d].stops > 1 => d \in contested'
             /\ entry'[d].stops + Cardinality(Stopping(d)') <= Cardinality(Call)
  <2>1. CASE d # e
    BY <1>3, <1>4, <1>5, <2>1, StopsKeep
  <2>2. CASE d = e
    <3>1. entry'[d].stops = 0
      BY <1>2, <1>3, <2>2
    <3>2. Cardinality(Stopping(d)') \in Nat /\ Cardinality(Stopping(d)') <= Cardinality(Call)
      <4>1. Stopping(d)' \in SUBSET Call
        BY DEF Stopping
      <4> QED BY <4>1, CallAssumption, FS_Subset, FS_CardinalityType
    <3>3. \A p, r \in Stopping(d)' : p # r => d \in contested'
      BY <1>5, <2>2 DEF TimersInv, StopsNoted
    <3> QED BY <3>1, <3>2, <3>3
  <2> QED BY <2>1, <2>2
<1>8. StopsNoted' /\ StopsBounded'
  BY <1>7 DEF StopsNoted, StopsBounded
<1> QED BY <1>1, <1>3, <1>4, <1>6, <1>8 DEF TimersInv

\* A second stop writes the end again, and has been recorded.
LEMMA CommitStopStep ==
    ASSUME TimersInv, NEW q \in Call, Timers!CommitStop(q)
    PROVE  TimersInv'
<1> DEFINE e == call[q].entry
           new == [entry[e] EXCEPT !.state = "ended", !.stops = @ + 1]
<1>1. /\ call[q].kind = "stop" /\ entry' = [entry EXCEPT ![e] = new]
      /\ Timers!Done(q) /\ UNCHANGED <<tracking, contested>>
  BY DEF Timers!CommitStop
<1>2. e \in Entry /\ q \in Stopping(e) /\ entry[e] \in EntryRow
  BY <1>1 DEF TimersInv, CallsSound, Stopping
<1>3. /\ entry[e].stops \in Nat /\ Cardinality(Stopping(e)) \in Nat
      /\ Cardinality(Stopping(e)) > 0 /\ Cardinality(Call) \in Nat
      /\ entry[e].stops + Cardinality(Stopping(e)) <= Cardinality(Call)
  BY <1>2, StoppingFinite, FS_EmptySet DEF TimersInv, StopsBounded, EntryRow
<1>4. new \in EntryRow /\ new.state = "ended" /\ new.stops = entry[e].stops + 1
      /\ new.person = entry[e].person
  <2>1. entry[e].stops + 1 \in 0..Cardinality(Call)
    BY <1>3
  <2> QED BY <1>2, <2>1 DEF EntryRow
<1> HIDE DEF new, e
<1>5. /\ entry' \in [Entry -> EntryRow] /\ entry'[e] = new
      /\ \A d \in Entry \ {e} : entry'[d] = entry[d]
  BY <1>1, <1>2, <1>4, EntryWritten
<1>6. /\ call' \in [Call -> CallRow] /\ CallsSound'
      /\ \A d : Stopping(d)' = Stopping(d) \ {q}
  BY <1>1, CallEnded
<1>7. OneTimer'
  BY <1>4, <1>5 DEF TimersInv, OneTimer
<1>8. ASSUME NEW d \in Entry
      PROVE  /\ entry'[d].state = "running" => entry'[d].stops = 0
             /\ \A p, r \in Stopping(d)' : p # r => d \in contested'
             /\ entry'[d].stops > 0 /\ Stopping(d)' # {} => d \in contested'
             /\ entry'[d].stops > 1 => d \in contested'
             /\ entry'[d].stops + Cardinality(Stopping(d)') <= Cardinality(Call)
  <2>1. CASE d # e
    BY <1>1, <1>5, <1>6, <2>1, StopsKeep
  <2>2. CASE d = e
    <3>1. entry'[d].stops = entry[d].stops + 1 /\ entry'[d].state = "ended"
      BY <1>4, <1>5, <2>2
    <3>2. Stopping(d)' = Stopping(d) \ {q} /\ q \in Stopping(d) /\ contested' = contested
      BY <1>1, <1>2, <1>6, <2>2
    <3>3. Cardinality(Stopping(d)') = Cardinality(Stopping(d)) - 1
      BY <3>2, StoppingFinite, FS_RemoveElement
    <3>4. entry'[d].stops + Cardinality(Stopping(d)') <= Cardinality(Call)
      BY <1>3, <2>2, <3>1, <3>3
    <3>5. entry[d].stops > 0 => d \in contested
      BY <3>2 DEF TimersInv, StopsNoted
    <3>6. Stopping(d)' # {} => d \in contested
      BY <3>2 DEF TimersInv, StopsNoted
    <3>7. entry'[d].stops > 1 => entry[d].stops > 0
      BY <1>3, <2>2, <3>1
    <3>8. entry[d].stops \in Nat
      BY <1>3, <2>2
    <3> QED BY <3>1, <3>2, <3>4, <3>5, <3>6, <3>7
  <2> QED BY <2>1, <2>2
<1>9. StopsNoted' /\ StopsBounded'
  BY <1>8 DEF StopsNoted, StopsBounded
<1> QED BY <1>1, <1>5, <1>6, <1>7, <1>9 DEF TimersInv

LEMMA CommitDropStep ==
    ASSUME TimersInv, NEW q \in Call, Timers!CommitDrop(q)
    PROVE  TimersInv'
<1> DEFINE e == call[q].entry
           new == [entry[e] EXCEPT !.state = "gone"]
<1>1. /\ call[q].kind = "drop" /\ entry' = [entry EXCEPT ![e] = new]
      /\ Timers!Done(q) /\ UNCHANGED <<tracking, contested>>
  BY DEF Timers!CommitDrop
<1>2. e \in Entry /\ entry[e] \in EntryRow
  BY <1>1 DEF TimersInv, CallsSound
<1>3. new \in EntryRow /\ new.state = "gone" /\ new.stops = entry[e].stops
  BY <1>2 DEF EntryRow
<1> HIDE DEF new, e
<1>4. /\ entry' \in [Entry -> EntryRow] /\ entry'[e] = new
      /\ \A d \in Entry \ {e} : entry'[d] = entry[d]
  BY <1>1, <1>2, <1>3, EntryWritten
<1>5. /\ call' \in [Call -> CallRow] /\ CallsSound'
      /\ \A d : Stopping(d)' = Stopping(d) \ {q}
  BY <1>1, CallEnded
<1>6. OneTimer'
  BY <1>3, <1>4 DEF TimersInv, OneTimer
<1>7. \A d \in Entry : /\ entry'[d].stops = entry[d].stops
                       /\ entry'[d].state = "running" => entry[d].state = "running"
  BY <1>3, <1>4
<1>8. StopsNoted' /\ StopsBounded'
  BY <1>1, <1>5, <1>7, StopsKeep DEF StopsNoted, StopsBounded
<1> QED BY <1>1, <1>4, <1>5, <1>6, <1>8 DEF TimersInv

LEMMA TimersInit == Timers!Init => TimersInv
<1> SUFFICES ASSUME Timers!Init
             PROVE  TimersInv
  OBVIOUS
<1>1. /\ tracking \in BOOLEAN /\ entry = [e \in Entry |-> Timers!NoEntry]
      /\ call = [q \in Call |-> Timers!Idle] /\ contested = {}
  BY DEF Timers!Init
<1>2. Timers!NoEntry \in EntryRow /\ Timers!NoEntry.state = "none" /\ Timers!NoEntry.stops = 0
  <2>1. 0 \in 0..Cardinality(Call)
    BY StoppingFinite
  <2> QED BY <2>1 DEF Timers!NoEntry, EntryRow, Timers!Maybe
<1>3. \A e : Stopping(e) = {}
  BY <1>1, IdleCall DEF Stopping
<1>4. CallsSound
  BY <1>1, IdleCall DEF CallsSound
<1>5. OneTimer
  BY <1>1, <1>2 DEF OneTimer
<1>6. StopsNoted
  BY <1>1, <1>2, <1>3 DEF StopsNoted
<1>7. StopsBounded
  BY <1>1, <1>2, <1>3, StoppingFinite, FS_EmptySet DEF StopsBounded
<1> QED BY <1>1, <1>2, <1>4, <1>5, <1>6, <1>7, IdleCall DEF TimersInv

LEMMA TimersNext == TimersInv /\ (Timers!Next \/ UNCHANGED timerVars) => TimersInv'
<1> SUFFICES ASSUME TimersInv, Timers!Next \/ UNCHANGED timerVars
             PROVE  TimersInv'
  OBVIOUS
<1>1. CASE UNCHANGED timerVars \/ Timers!Toggle
  <2>1. UNCHANGED <<entry, call, contested>> /\ tracking' \in BOOLEAN
    BY <1>1 DEF timerVars, Timers!Toggle, TimersInv
  <2> QED BY <2>1 DEF TimersInv, CallsSound, OneTimer, StopsNoted, StopsBounded, Stopping,
                      EntryRow, CallRow
<1>2. ASSUME NEW q \in Call,
             \/ \E p \in Person, w \in Work :
                   (\E kind \in Timers!Kinds : Timers!BeginEntry(q, kind, p, w))
                   \/ \E e \in Entry : Timers!BeginStop(q, p, w, e)
             \/ \E e \in Entry : Timers!BeginDrop(q, e) \/ Timers!CommitEntry(q, e)
             \/ Timers!CommitStop(q) \/ Timers!CommitDrop(q) \/ Timers!Fail(q)
      PROVE  TimersInv'
  BY <1>2, TimerBegins, BeginStopStep, CommitEntryStep, CommitStopStep, CommitDropStep
<1> QED BY <1>1, <1>2 DEF Timers!Next

LEMMA TimersHold == TimersInv => Timers!TimersConsistent
<1> SUFFICES ASSUME TimersInv
             PROVE  Timers!TimersConsistent
  OBVIOUS
<1>1. ASSUME NEW p \in Person
      PROVE  Cardinality(Timers!Running(p)) <= 1
  <2>1. \A d, e \in Timers!Running(p) : d = e
    BY DEF TimersInv, OneTimer, Timers!Running
  <2>2. Timers!Running(p) = {} \/ \E e : Timers!Running(p) = {e}
    BY <2>1
  <2>3. Cardinality(Timers!Running(p)) \in {0, 1}
    BY <2>2, FS_EmptySet, FS_Singleton
  <2> QED BY <2>3
<1>2. Timers!StoppedOnce
  BY DEF TimersInv, StopsNoted, Timers!StoppedOnce
<1>3. \A p \in Person : Timers!Cardinality(Timers!Running(p)) <= 1
  BY <1>1, SameCardinality
<1> QED BY <1>2, <1>3, TimersTypes DEF Timers!TimersConsistent, Timers!OneRunning

-----------------------------------------------------------------------------
(* Custom fields.                                                          *)

FieldRow == [state: {"none", "here", "gone"}, options: SUBSET Choice, required: BOOLEAN]
ValueRow == [value: Fields!Maybe(Choice), late: BOOLEAN]
SetterRow == [kind: Fields!Kinds \cup {"none"}, field: Fields!Maybe(Field),
              work: Fields!Maybe(Work), value: Fields!Maybe(Choice),
              found: {"none", "row", "lost"}, late: BOOLEAN]

\* What a request r is about; the row of a value that it has found is there
\* and a value it has validated is still allowed, unless it was told.
SetterSound(r) ==
    /\ r.kind # "none" => r.field \in Field /\ field[r.field].state # "none"
    /\ r.kind = "set" => r.work \in Work
    /\ r.found = "row" => r.kind = "set" /\ Fields!Has(r.field, r.work)
    /\ /\ r.kind = "set" /\ r.value # Nothing /\ ~r.late /\ Fields!Here(r.field)
       => r.value \in field[r.field].options

SettersSound == \A q \in Setter : SetterSound(setter[q])

\* The row of a value holds one.
ValuesReal == \A f \in Field, w \in Work : Fields!Has(f, w) => value[f][w].value # Nothing

FieldsInv == /\ field \in [Field -> FieldRow] /\ value \in [Field -> [Work -> ValueRow]]
             /\ setter \in [Setter -> SetterRow]
             /\ SettersSound /\ ValuesReal
             /\ Fields!ValuesHaveFields /\ Fields!ValuesAllowed

LEMMA FieldsTypes == FieldsInv => Fields!TypeOK
<1>1. ASSUME FieldsInv
      PROVE  /\ field \in [Field -> FieldRow] /\ value \in [Field -> [Work -> ValueRow]]
             /\ setter \in [Setter -> SetterRow]
  BY <1>1 DEF FieldsInv
<1> QED BY <1>1 DEF Fields!TypeOK, FieldRow, ValueRow, SetterRow

LEMMA IdleSetter ==
    /\ Fields!Idle \in SetterRow /\ Fields!Idle.kind = "none" /\ Fields!Idle.found = "none"
BY DEF Fields!Idle, SetterRow, Fields!Maybe

LEMMA NoValueRow ==
    /\ Fields!NoValue \in ValueRow
    /\ \A v, late : v # Nothing => [value |-> v, late |-> late] # Fields!NoValue
BY DEF Fields!NoValue, ValueRow, Fields!Maybe

\* A request begins, or ends without a write.
LEMMA SetterStep ==
    ASSUME FieldsInv, NEW q \in Setter, NEW new \in SetterRow, SetterSound(new),
           setter' = [setter EXCEPT ![q] = new], UNCHANGED <<field, value>>
    PROVE  FieldsInv'
<1>1. /\ setter' \in [Setter -> SetterRow] /\ setter'[q] = new
      /\ \A r \in Setter \ {q} : setter'[r] = setter[r]
  BY DEF FieldsInv
<1>2. \A r : SetterSound(r) => SetterSound(r)'
  BY DEF SetterSound, Fields!Has, Fields!Here
<1>3. \A r \in Setter : SetterSound(setter'[r])
  BY <1>1 DEF FieldsInv, SettersSound
<1>4. SettersSound'
  BY <1>3 DEF SettersSound, SetterSound, Fields!Has, Fields!Here
<1> QED BY <1>1, <1>4 DEF FieldsInv, ValuesReal, Fields!ValuesHaveFields, Fields!ValuesAllowed,
                       Fields!Has, Fields!Here, FieldRow, ValueRow

LEMMA SetterSteps ==
    ASSUME FieldsInv, NEW q \in Setter,
           \/ \E f \in Field, kind \in Fields!Kinds : Fields!BeginField(q, kind, f)
           \/ \E f \in Field, w \in Work, v \in Fields!Maybe(Choice) : Fields!BeginSet(q, f, w, v)
           \/ Fields!Fail(q)
    PROVE  FieldsInv'
<1>1. ASSUME NEW f \in Field, NEW kind, Fields!BeginField(q, kind, f)
      PROVE  FieldsInv'
  <2> DEFINE new == [Fields!Idle EXCEPT !.kind = kind, !.field = f]
  <2>1. /\ kind \in {"patch", "remove"} /\ field[f].state = "here"
        /\ setter' = [setter EXCEPT ![q] = new] /\ UNCHANGED <<field, value>>
    BY <1>1 DEF Fields!BeginField, Fields!Here
  <2>2. new \in SetterRow /\ new.kind = kind /\ new.field = f /\ new.found = "none"
    BY <2>1 DEF Fields!Idle, SetterRow, Fields!Maybe, Fields!Kinds
  <2> HIDE DEF new
  <2>3. SetterSound(new)
    BY <2>1, <2>2 DEF SetterSound
  <2> QED BY <2>1, <2>2, <2>3, SetterStep
<1>2. ASSUME NEW f \in Field, NEW w \in Work, NEW v \in Fields!Maybe(Choice),
             Fields!BeginSet(q, f, w, v)
      PROVE  FieldsInv'
  <2> DEFINE new == [kind |-> "set", field |-> f, work |-> w, value |-> v,
                     found |-> IF Fields!Has(f, w) THEN "row" ELSE "none", late |-> FALSE]
  <2>1. /\ Fields!Here(f)
        /\ v # Nothing => v \in field[f].options
        /\ setter' = [setter EXCEPT ![q] = new] /\ UNCHANGED <<field, value>>
    BY <1>2 DEF Fields!BeginSet, Fields!Valid
  <2>2. /\ new \in SetterRow /\ new.kind = "set" /\ new.field = f /\ new.work = w
        /\ new.value = v
        /\ new.found = "row" => Fields!Has(f, w)
    BY DEF SetterRow, Fields!Maybe, Fields!Kinds
  <2> HIDE DEF new
  <2>3. SetterSound(new)
    BY <2>1, <2>2 DEF SetterSound, Fields!Here
  <2> QED BY <2>1, <2>2, <2>3, SetterStep
<1>3. ASSUME Fields!Fail(q)
      PROVE  FieldsInv'
  <2>1. setter' = [setter EXCEPT ![q] = Fields!Idle] /\ UNCHANGED <<field, value>>
    BY <1>3 DEF Fields!Fail, Fields!Done
  <2>2. SetterSound(Fields!Idle)
    BY IdleSetter DEF SetterSound
  <2> QED BY <2>1, <2>2, IdleSetter, SetterStep
<1> QED BY <1>1, <1>2, <1>3

LEMMA CreateFieldStep ==
    ASSUME FieldsInv, NEW f \in Field, NEW options \in SUBSET Choice, NEW required \in BOOLEAN,
           Fields!CreateField(f, options, required)
    PROVE  FieldsInv'
<1> DEFINE new == [state |-> "here", options |-> options, required |-> required]
<1>1. /\ field[f].state = "none" /\ field' = [field EXCEPT ![f] = new]
      /\ UNCHANGED <<value, setter>>
  BY DEF Fields!CreateField
<1>2. new \in FieldRow /\ new.state = "here"
  BY DEF FieldRow
<1> HIDE DEF new
<1>3. /\ field' \in [Field -> FieldRow] /\ field'[f] = new
      /\ \A g \in Field \ {f} : field'[g] = field[g]
  BY <1>1, <1>2 DEF FieldsInv
<1>4. \A w \in Work : ~Fields!Has(f, w)
  BY <1>1 DEF FieldsInv, Fields!ValuesHaveFields, Fields!Here
<1>5. \A q \in Setter : setter[q].kind # "none" => setter[q].field \in Field \ {f}
  BY <1>1 DEF FieldsInv, SettersSound, SetterSound
<1>6. SettersSound'
  <2> SUFFICES ASSUME NEW q \in Setter
               PROVE  SetterSound(setter[q])'
    BY <1>1 DEF SettersSound
  <2>1. SetterSound(setter[q])
    BY DEF FieldsInv, SettersSound
  <2> QED BY <1>1, <1>3, <1>5, <2>1 DEF SetterSound, Fields!Has, Fields!Here
<1>7. ValuesReal'
  BY <1>1 DEF FieldsInv, ValuesReal, Fields!Has
<1>8. Fields!ValuesHaveFields' /\ Fields!ValuesAllowed'
  BY <1>1, <1>3, <1>4 DEF FieldsInv, Fields!ValuesHaveFields, Fields!ValuesAllowed, Fields!Has,
                          Fields!Here
<1> QED BY <1>1, <1>3, <1>6, <1>7, <1>8 DEF FieldsInv

\* Whose value is deleted is told.
LEMMA ToldRow ==
    ASSUME FieldsInv, NEW q \in Setter, NEW f, NEW W, Fields!DoneWithout(q, f, W)
    PROVE  /\ setter' \in [Setter -> SetterRow] /\ setter'[q] = Fields!Idle
           /\ \A r \in Setter \ {q} :
                /\ setter'[r].kind = setter[r].kind /\ setter'[r].field = setter[r].field
                /\ setter'[r].work = setter[r].work /\ setter'[r].value = setter[r].value
                /\ setter'[r].late = setter[r].late
                /\ setter'[r].found = "row" =>
                     /\ setter[r].found = "row"
                     /\ ~(setter[r].field = f /\ setter[r].work \in W)
<1> DEFINE lost(r) == [setter[r] EXCEPT !.found = "lost"]
           told(r) == setter[r].field = f /\ setter[r].work \in W /\ setter[r].found = "row"
<1>1. setter \in [Setter -> SetterRow]
  BY DEF FieldsInv
<1>2. ASSUME NEW r \in Setter
      PROVE  /\ lost(r) \in SetterRow /\ lost(r).kind = setter[r].kind
             /\ lost(r).field = setter[r].field /\ lost(r).work = setter[r].work
             /\ lost(r).value = setter[r].value /\ lost(r).late = setter[r].late
             /\ lost(r).found = "lost"
  <2>1. setter[r] \in SetterRow
    BY <1>1
  <2> QED BY <2>1 DEF SetterRow
<1>3. setter' = [r \in Setter |-> IF r = q THEN Fields!Idle
                                  ELSE IF told(r) THEN lost(r) ELSE setter[r]]
  BY DEF Fields!DoneWithout
<1> HIDE DEF lost
<1>4. /\ setter' \in [Setter -> SetterRow] /\ setter'[q] = Fields!Idle
      /\ \A r \in Setter \ {q} : setter'[r] = IF told(r) THEN lost(r) ELSE setter[r]
  BY <1>1, <1>2, <1>3, IdleSetter
<1> QED BY <1>2, <1>4

\* Values go: none is written, and the requests that had found one are told.
LEMMA ValuesGoStep ==
    ASSUME FieldsInv, NEW q \in Setter, NEW f, NEW W, Fields!DoneWithout(q, f, W),
           field' \in [Field -> FieldRow], value' \in [Field -> [Work -> ValueRow]],
           \A g \in Field : /\ field[g].state # "none" => field'[g].state # "none"
                            /\ g # f => field'[g] = field[g]
                            /\ field'[g] = field[g]
                               \/ (field'[g].state = "gone" /\ \A w \in Work : w \in W),
           \A g \in Field, w \in Work :
              /\ g = f /\ w \in W => value'[g][w] = Fields!NoValue
              /\ ~(g = f /\ w \in W) => value'[g][w] = value[g][w]
    PROVE  FieldsInv'
<1>1. /\ setter' \in [Setter -> SetterRow] /\ setter'[q] = Fields!Idle
      /\ \A r \in Setter \ {q} :
           /\ setter'[r].kind = setter[r].kind /\ setter'[r].field = setter[r].field
           /\ setter'[r].work = setter[r].work /\ setter'[r].value = setter[r].value
           /\ setter'[r].late = setter[r].late
           /\ setter'[r].found = "row" =>
                /\ setter[r].found = "row"
                /\ ~(setter[r].field = f /\ setter[r].work \in W)
  BY ToldRow
<1>2. SettersSound'
  <2> SUFFICES ASSUME NEW r \in Setter
               PROVE  SetterSound(setter[r])'
    BY DEF SettersSound
  <2>1. CASE r = q
    BY <1>1, <2>1, IdleSetter DEF SetterSound
  <2>2. CASE r # q
    <3>1. SetterSound(setter[r])
      BY DEF FieldsInv, SettersSound
    <3>2. setter'[r].kind # "none" => setter'[r].field \in Field
                                      /\ field'[setter'[r].field].state # "none"
      BY <1>1, <2>2, <3>1 DEF SetterSound
    <3>3. setter'[r].kind = "set" => setter'[r].work \in Work
      BY <1>1, <2>2, <3>1 DEF SetterSound
    <3>4. setter'[r].found = "row" =>
             setter'[r].kind = "set"
             /\ value'[setter'[r].field][setter'[r].work] # Fields!NoValue
      <4> SUFFICES ASSUME setter'[r].found = "row"
                   PROVE  setter'[r].kind = "set"
                          /\ value'[setter'[r].field][setter'[r].work] # Fields!NoValue
        OBVIOUS
      <4>1. /\ setter[r].kind = "set" /\ Fields!Has(setter[r].field, setter[r].work)
            /\ setter[r].field \in Field /\ setter[r].work \in Work
            /\ ~(setter[r].field = f /\ setter[r].work \in W)
        BY <1>1, <2>2, <3>1 DEF SetterSound
      <4> QED BY <1>1, <2>2, <4>1 DEF Fields!Has
    <3>5. setter'[r].kind = "set" /\ setter'[r].value # Nothing /\ ~setter'[r].late
          /\ field'[setter'[r].field].state = "here"
          => setter'[r].value \in field'[setter'[r].field].options
      BY <1>1, <2>2, <3>1 DEF SetterSound, Fields!Here
    <3> QED BY <3>2, <3>3, <3>4, <3>5 DEF SetterSound, Fields!Here, Fields!Has
  <2> QED BY <2>1, <2>2
<1>3. ValuesReal'
  BY DEF FieldsInv, ValuesReal, Fields!Has
<1>4. Fields!ValuesHaveFields'
  BY DEF FieldsInv, Fields!ValuesHaveFields, Fields!Has, Fields!Here
<1>5. Fields!ValuesAllowed'
  BY DEF FieldsInv, Fields!ValuesAllowed, Fields!Has
<1> QED BY <1>1, <1>2, <1>3, <1>4, <1>5 DEF FieldsInv

LEMMA CommitRemoveStep ==
    ASSUME FieldsInv, NEW q \in Setter, Fields!CommitRemove(q)
    PROVE  FieldsInv'
<1> DEFINE f == setter[q].field
           new == [Fields!NoField EXCEPT !.state = "gone"]
<1>1. /\ setter[q].kind = "remove" /\ field' = [field EXCEPT ![f] = new]
      /\ value' = [value EXCEPT ![f] = [w \in Work |-> Fields!NoValue]]
      /\ Fields!DoneWithout(q, f, Work)
  BY DEF Fields!CommitRemove, Fields!Cascade
<1>2. f \in Field
  BY <1>1 DEF FieldsInv, SettersSound, SetterSound
<1>3. new \in FieldRow /\ new.state = "gone"
  BY DEF FieldRow, Fields!NoField
<1> HIDE DEF new, f
<1>4. /\ field' \in [Field -> FieldRow] /\ field'[f] = new
      /\ \A g \in Field \ {f} : field'[g] = field[g]
  BY <1>1, <1>2, <1>3 DEF FieldsInv
<1>5. /\ value' \in [Field -> [Work -> ValueRow]]
      /\ \A w \in Work : value'[f][w] = Fields!NoValue
      /\ \A g \in Field \ {f} : value'[g] = value[g]
  BY <1>1, <1>2, NoValueRow DEF FieldsInv
<1> QED BY <1>1, <1>3, <1>4, <1>5, ValuesGoStep

LEMMA CommitClearStep ==
    ASSUME FieldsInv, NEW q \in Setter, Fields!CommitClear(q)
    PROVE  FieldsInv'
<1> DEFINE f == setter[q].field
           w == setter[q].work
           W == IF setter[q].found = "row" THEN {w} ELSE {}
<1>1. /\ setter[q].kind = "set" /\ field' = field
      /\ value' = IF setter[q].found = "row" THEN [value EXCEPT ![f][w] = Fields!NoValue] ELSE value
      /\ Fields!DoneWithout(q, f, W)
  BY DEF Fields!CommitClear
<1>2. f \in Field /\ w \in Work
  BY <1>1 DEF FieldsInv, SettersSound, SetterSound
<1>3. field \in [Field -> FieldRow] /\ value \in [Field -> [Work -> ValueRow]]
  BY DEF FieldsInv
<1>4. /\ value' \in [Field -> [Work -> ValueRow]]
      /\ \A g \in Field, x \in Work :
           /\ g = f /\ x \in W => value'[g][x] = Fields!NoValue
           /\ ~(g = f /\ x \in W) => value'[g][x] = value[g][x]
  <2>1. CASE setter[q].found = "row"
    BY <1>1, <1>2, <1>3, <2>1, NoValueRow
  <2>2. CASE setter[q].found # "row"
    BY <1>1, <1>3, <2>2
  <2> QED BY <2>1, <2>2
<1> HIDE DEF f, w, W
<1> QED BY <1>1, <1>3, <1>4, ValuesGoStep

LEMMA CommitSetStep ==
    ASSUME FieldsInv, NEW q \in Setter, Fields!CommitSet(q)
    PROVE  FieldsInv'
<1> DEFINE f == setter[q].field
           w == setter[q].work
           new == [value |-> setter[q].value, late |-> setter[q].late]
<1>1. /\ setter[q].kind = "set" /\ setter[q].value # Nothing /\ setter[q].found # "lost"
      /\ setter[q].found = "none" => Fields!Here(f)
      /\ value' = [value EXCEPT ![f][w] = new]
      /\ setter' = [setter EXCEPT ![q] = Fields!Idle] /\ field' = field
  BY DEF Fields!CommitSet, Fields!Done, Fields!FieldHere
<1>2. /\ f \in Field /\ w \in Work /\ SetterSound(setter[q])
      /\ setter[q] \in SetterRow
  BY <1>1 DEF FieldsInv, SettersSound, SetterSound
<1>3. field \in [Field -> FieldRow] /\ value \in [Field -> [Work -> ValueRow]]
  BY DEF FieldsInv
<1>4. new \in ValueRow /\ new # Fields!NoValue /\ new.value # Nothing
      /\ new.value = setter[q].value /\ new.late = setter[q].late
  BY <1>1, <1>2, NoValueRow DEF ValueRow, SetterRow
<1>5. Fields!Here(f)
  <2>1. CASE setter[q].found = "row"
    BY <1>2, <2>1 DEF SetterSound, FieldsInv, Fields!ValuesHaveFields
  <2>2. CASE setter[q].found # "row"
    BY <1>1, <1>2, <2>2 DEF SetterRow
  <2> QED BY <2>1, <2>2
<1>6. ~new.late => new.value \in field[f].options
  BY <1>1, <1>2, <1>4, <1>5 DEF SetterSound
<1> HIDE DEF new, f, w
<1>7. /\ value' \in [Field -> [Work -> ValueRow]] /\ value'[f][w] = new
      /\ \A g \in Field, x \in Work : g # f \/ x # w => value'[g][x] = value[g][x]
  BY <1>1, <1>2, <1>3, <1>4
<1>8. /\ setter' \in [Setter -> SetterRow] /\ setter'[q] = Fields!Idle
      /\ \A r \in Setter \ {q} : setter'[r] = setter[r]
  BY <1>1, IdleSetter DEF FieldsInv
<1>9. SettersSound'
  <2> SUFFICES ASSUME NEW r \in Setter
               PROVE  SetterSound(setter[r])'
    BY DEF SettersSound
  <2>1. CASE r = q
    BY <1>8, <2>1, IdleSetter DEF SetterSound
  <2>2. CASE r # q
    <3>1. SetterSound(setter[r]) /\ setter'[r] = setter[r]
      BY <1>8, <2>2 DEF FieldsInv, SettersSound
    <3> QED BY <1>1, <1>4, <1>7, <3>1 DEF SetterSound, Fields!Has, Fields!Here
  <2> QED BY <2>1, <2>2
<1>10. ValuesReal'
  BY <1>4, <1>7 DEF FieldsInv, ValuesReal, Fields!Has
<1>11. Fields!ValuesHaveFields'
  BY <1>1, <1>5, <1>7 DEF FieldsInv, Fields!ValuesHaveFields, Fields!Has, Fields!Here
<1>12. Fields!ValuesAllowed'
  BY <1>1, <1>6, <1>7 DEF FieldsInv, Fields!ValuesAllowed, Fields!Has
<1> QED BY <1>1, <1>3, <1>7, <1>8, <1>9, <1>10, <1>11, <1>12 DEF FieldsInv

\* Values that the new options may refuse are marked, and so are the requests
\* that have validated one.
LEMMA CommitPatchStep ==
    ASSUME FieldsInv, NEW q \in Setter, NEW options \in SUBSET Choice, NEW required \in BOOLEAN,
           Fields!CommitPatch(q, options, required)
    PROVE  FieldsInv'
<1> DEFINE f == setter[q].field
           revised == options # field[f].options
           new == [field[f] EXCEPT !.options = options, !.required = required]
           marked(w) == [value[f][w] EXCEPT !.late = TRUE]
           warned(r) == [setter[r] EXCEPT !.late = TRUE]
<1>1. /\ setter[q].kind = "patch" /\ Fields!Here(f)
      /\ field' = [field EXCEPT ![f] = new]
      /\ value' = [value EXCEPT ![f] = [w \in Work |->
           IF revised /\ Fields!Has(f, w) THEN marked(w) ELSE value[f][w]]]
      /\ setter' = [r \in Setter |->
           IF r = q THEN Fields!Idle
           ELSE IF revised /\ setter[r].kind = "set" /\ setter[r].field = f
                THEN warned(r) ELSE setter[r]]
  BY DEF Fields!CommitPatch
<1>2. /\ f \in Field /\ field \in [Field -> FieldRow] /\ value \in [Field -> [Work -> ValueRow]]
      /\ setter \in [Setter -> SetterRow]
  BY <1>1 DEF FieldsInv, SettersSound, SetterSound
<1>3. new \in FieldRow /\ new.options = options /\ new.state = "here"
  <2>1. field[f] \in FieldRow /\ field[f].state = "here"
    BY <1>1, <1>2 DEF Fields!Here
  <2> QED BY <2>1 DEF FieldRow
<1>4. ASSUME NEW w \in Work
      PROVE  marked(w) \in ValueRow /\ marked(w).value = value[f][w].value /\ marked(w).late
  <2>1. value[f][w] \in ValueRow
    BY <1>2
  <2> QED BY <2>1 DEF ValueRow
<1>5. ASSUME NEW r \in Setter
      PROVE  /\ warned(r) \in SetterRow /\ warned(r).kind = setter[r].kind
             /\ warned(r).field = setter[r].field /\ warned(r).work = setter[r].work
             /\ warned(r).value = setter[r].value /\ warned(r).found = setter[r].found
             /\ warned(r).late
  <2>1. setter[r] \in SetterRow
    BY <1>2
  <2> QED BY <2>1 DEF SetterRow
<1> HIDE DEF new, marked, warned, f, revised
<1>6. /\ field' \in [Field -> FieldRow] /\ field'[f] = new
      /\ \A g \in Field \ {f} : field'[g] = field[g]
  BY <1>1, <1>2, <1>3
<1>7. /\ value' \in [Field -> [Work -> ValueRow]]
      /\ \A g \in Field \ {f} : value'[g] = value[g]
      /\ \A w \in Work :
           value'[f][w] = IF revised /\ Fields!Has(f, w) THEN marked(w) ELSE value[f][w]
  <2> DEFINE row == [w \in Work |-> IF revised /\ Fields!Has(f, w) THEN marked(w) ELSE value[f][w]]
  <2>1. row \in [Work -> ValueRow]
    BY <1>2, <1>4
  <2>2. \A w \in Work : row[w] = IF revised /\ Fields!Has(f, w) THEN marked(w) ELSE value[f][w]
    OBVIOUS
  <2>3. value' = [value EXCEPT ![f] = row]
    BY <1>1
  <2> HIDE DEF row
  <2> QED BY <1>2, <2>1, <2>2, <2>3
<1>8. /\ setter' \in [Setter -> SetterRow] /\ setter'[q] = Fields!Idle
      /\ \A r \in Setter \ {q} :
           setter'[r] = IF revised /\ setter[r].kind = "set" /\ setter[r].field = f
                        THEN warned(r) ELSE setter[r]
  BY <1>1, <1>2, <1>5, IdleSetter
<1>9. \A g \in Field, w \in Work :
         /\ Fields!Has(g, w) <=> value'[g][w] # Fields!NoValue
         /\ Fields!Has(g, w) => value'[g][w].value = value[g][w].value
         /\ value[g][w].late => value'[g][w].late
         /\ Fields!Has(g, w) /\ g = f /\ revised => value'[g][w].late
  <2> SUFFICES ASSUME NEW g \in Field, NEW w \in Work
               PROVE  /\ Fields!Has(g, w) <=> value'[g][w] # Fields!NoValue
                      /\ Fields!Has(g, w) => value'[g][w].value = value[g][w].value
                      /\ value[g][w].late => value'[g][w].late
                      /\ Fields!Has(g, w) /\ g = f /\ revised => value'[g][w].late
    OBVIOUS
  <2>1. CASE g # f
    BY <1>7, <2>1 DEF Fields!Has
  <2>2. CASE g = f
    <3>1. marked(w) # Fields!NoValue
      BY <1>4 DEF Fields!NoValue
    <3> QED BY <1>4, <1>7, <2>2, <3>1 DEF Fields!Has
  <2> QED BY <2>1, <2>2
<1>10. ~revised => options = field[f].options
  BY DEF revised
<1>11. SettersSound'
  <2> SUFFICES ASSUME NEW r \in Setter
               PROVE  SetterSound(setter[r])'
    BY DEF SettersSound
  <2>1. CASE r = q
    BY <1>8, <2>1, IdleSetter DEF SetterSound
  <2>2. CASE r # q
    <3>1. SetterSound(setter[r])
      BY DEF FieldsInv, SettersSound
    <3>2. /\ setter'[r].kind = setter[r].kind /\ setter'[r].field = setter[r].field
          /\ setter'[r].work = setter[r].work /\ setter'[r].value = setter[r].value
          /\ setter'[r].found = setter[r].found
          /\ setter[r].late => setter'[r].late
          /\ revised /\ setter[r].kind = "set" /\ setter[r].field = f => setter'[r].late
      BY <1>5, <1>8, <2>2
    <3>3. setter'[r].kind # "none" => setter'[r].field \in Field
                                      /\ field'[setter'[r].field].state # "none"
      BY <1>3, <1>6, <3>1, <3>2 DEF SetterSound
    <3>4. setter'[r].kind = "set" => setter'[r].work \in Work
      BY <3>1, <3>2 DEF SetterSound
    <3>5. setter'[r].found = "row" =>
             setter'[r].kind = "set"
             /\ value'[setter'[r].field][setter'[r].work] # Fields!NoValue
      BY <1>9, <3>1, <3>2 DEF SetterSound
    <3>6. setter'[r].kind = "set" /\ setter'[r].value # Nothing /\ ~setter'[r].late
          /\ field'[setter'[r].field].state = "here"
          => setter'[r].value \in field'[setter'[r].field].options
      <4>1. CASE setter[r].field = f
        BY <1>1, <1>3, <1>6, <1>10, <3>1, <3>2, <4>1 DEF SetterSound
      <4>2. CASE setter[r].field # f
        BY <1>6, <3>1, <3>2, <4>2 DEF SetterSound, Fields!Here
      <4> QED BY <4>1, <4>2
    <3> QED BY <3>3, <3>4, <3>5, <3>6 DEF SetterSound, Fields!Here, Fields!Has
  <2> QED BY <2>1, <2>2
<1>12. ValuesReal'
  BY <1>9 DEF FieldsInv, ValuesReal, Fields!Has
<1>13. Fields!ValuesHaveFields'
  <2> SUFFICES ASSUME NEW g \in Field, NEW w \in Work, value'[g][w] # Fields!NoValue
               PROVE  field'[g].state = "here"
    BY DEF Fields!ValuesHaveFields, Fields!Has, Fields!Here
  <2>1. Fields!Has(g, w)
    BY <1>9
  <2>2. field[g].state = "here"
    BY <2>1 DEF FieldsInv, Fields!ValuesHaveFields, Fields!Here
  <2> QED BY <1>3, <1>6, <2>2
<1>14. Fields!ValuesAllowed'
  <2> SUFFICES ASSUME NEW g \in Field, NEW w \in Work, value'[g][w] # Fields!NoValue,
                      ~value'[g][w].late
               PROVE  value'[g][w].value \in field'[g].options
    BY DEF Fields!ValuesAllowed, Fields!Has
  <2>1. Fields!Has(g, w) /\ ~value[g][w].late /\ value'[g][w].value = value[g][w].value
    BY <1>9
  <2>2. value[g][w].value \in field[g].options
    BY <2>1 DEF FieldsInv, Fields!ValuesAllowed
  <2> QED BY <1>3, <1>6, <1>9, <1>10, <2>1, <2>2
<1> QED BY <1>6, <1>7, <1>8, <1>11, <1>12, <1>13, <1>14 DEF FieldsInv

LEMMA FieldsInit == Fields!Init => FieldsInv
<1> SUFFICES ASSUME Fields!Init
             PROVE  FieldsInv
  OBVIOUS
<1>1. /\ field = [f \in Field |-> Fields!NoField]
      /\ value = [f \in Field |-> [w \in Work |-> Fields!NoValue]]
      /\ setter = [q \in Setter |-> Fields!Idle]
  BY DEF Fields!Init
<1>2. Fields!NoField \in FieldRow
  BY DEF Fields!NoField, FieldRow
<1>3. \A f \in Field, w \in Work : ~Fields!Has(f, w)
  BY <1>1 DEF Fields!Has
<1>4. SettersSound
  BY <1>1, IdleSetter DEF SettersSound, SetterSound
<1> QED BY <1>1, <1>2, <1>3, <1>4, NoValueRow, IdleSetter
        DEF FieldsInv, ValuesReal, Fields!ValuesHaveFields, Fields!ValuesAllowed

LEMMA FieldsNext == FieldsInv /\ (Fields!Next \/ UNCHANGED fieldVars) => FieldsInv'
<1> SUFFICES ASSUME FieldsInv, Fields!Next \/ UNCHANGED fieldVars
             PROVE  FieldsInv'
  OBVIOUS
<1>1. CASE UNCHANGED fieldVars
  <2>1. UNCHANGED <<field, value, setter>>
    BY <1>1 DEF fieldVars
  <2> QED BY <2>1 DEF FieldsInv, SettersSound, SetterSound, ValuesReal, Fields!ValuesHaveFields,
                      Fields!ValuesAllowed, Fields!Has, Fields!Here, FieldRow, ValueRow, SetterRow
<1>2. \A options \in Fields!OptionSets : options \in SUBSET Choice
  BY DEF Fields!OptionSets
<1>3. ASSUME NEW q \in Setter,
             \/ \E f \in Field :
                   \/ \E kind \in Fields!Kinds : Fields!BeginField(q, kind, f)
                   \/ \E w \in Work, v \in Fields!Maybe(Choice) : Fields!BeginSet(q, f, w, v)
             \/ \E options \in Fields!OptionSets, required \in BOOLEAN :
                   Fields!CommitPatch(q, options, required)
             \/ Fields!CommitSet(q) \/ Fields!CommitClear(q) \/ Fields!CommitRemove(q)
             \/ Fields!Fail(q)
      PROVE  FieldsInv'
  BY <1>2, <1>3, SetterSteps, CommitPatchStep, CommitSetStep, CommitClearStep, CommitRemoveStep
<1>4. ASSUME NEW f \in Field, NEW options \in Fields!OptionSets, NEW required \in BOOLEAN,
             Fields!CreateField(f, options, required)
      PROVE  FieldsInv'
  BY <1>2, <1>4, CreateFieldStep
<1> QED BY <1>1, <1>3, <1>4 DEF Fields!Next

LEMMA FieldsHold == FieldsInv => Fields!FieldsConsistent
BY FieldsTypes DEF FieldsInv, Fields!FieldsConsistent

-----------------------------------------------------------------------------
(* Attachments.                                                            *)

Uploading == {"read", "locked", "put", "ready", "failed", "undone"}
Holding == {"locked", "put", "ready", "failed"}
Erasing == {"erase", "erased", "unheard"}
UploadRow == [at: {"idle"} \cup Uploading \cup Erasing,
              file: File \cup {Nothing}, row: Files!Rows]

Original(f) == <<f, "original">> \in objects
Thumbnail(f) == <<f, "thumbnail">> \in objects
Bare(f) == ~Original(f) /\ ~Thumbnail(f)

\* The objects of f are those of row; there is none but those.
Complete(f, row) == Original(f) /\ (row.thumbnail => Thumbnail(f))
Within(f, row) == Thumbnail(f) => row.thumbnail

\* The request q is about the file f: an upload has the file to itself and
\* the store holds nothing of it but what the upload put there, a deletion
\* knows the row unless another one was faster.
UploadSound(q, f) ==
    /\ upload[q].at \in Uploading \cup Erasing
    /\ upload[q].at \in Uploading =>
          /\ upload[q].row.state = "stored" /\ upload[q].row.size \in Size
          /\ stored[f] = Files!NoFile /\ f \notin stray
          /\ \A p \in Upload : upload[p].file = f => p = q
          /\ Within(f, upload[q].row)
    /\ upload[q].at \in {"read", "locked"} => Bare(f)
    /\ upload[q].at = "put" => Original(f) /\ upload[q].row.thumbnail
    /\ upload[q].at = "ready" => Complete(f, upload[q].row)
    /\ upload[q].at \in Erasing =>
          /\ stored[f].state # "none"
          /\ stored[f].state = "stored" => upload[q].row = stored[f]
    /\ upload[q].at = "erased" => f \in erased /\ (f \in stray \/ Bare(f))

\* The row, the objects and the requests of one file agree.
FileSound(f) ==
    /\ \A q \in Upload : upload[q].file = f => UploadSound(q, f)
    /\ stored[f].state = "stored" /\ f \notin erased => Complete(f, stored[f])
    /\ stored[f].state = "stored" /\ f \notin stray => Within(f, stored[f])
    /\ stored[f].state = "gone" /\ f \notin stray => Bare(f)
    /\ stored[f].state = "none" /\ (\A q \in Upload : upload[q].file # f) => Bare(f) \/ f \in stray

FilesTyped ==
    /\ parents \subseteq Parent
    /\ stored \in [File -> Files!Rows]
    /\ objects \subseteq File \X {"original", "thumbnail"}
    /\ upload \in [Upload -> UploadRow]
    /\ erased \subseteq File /\ stray \subseteq File

\* One upload holds the lock, and the quota has room for what it sums up.
QuotaKept ==
    /\ IsFiniteSet(Files!Bytes) /\ Cardinality(Files!Bytes) <= Quota
    /\ \A p, q \in Upload :
          upload[p].at \in Holding /\ upload[q].at \in Holding => p = q
    /\ \A q \in Upload : upload[q].at \in {"locked", "put", "ready"} =>
          Cardinality(Files!Bytes) + upload[q].row.size <= Quota

FilesInv ==
    /\ FilesTyped
    /\ \A q \in Upload : upload[q].file = Nothing => upload[q].at = "idle"
    /\ \A q \in Upload : upload[q].at = "idle" => upload[q] = Files!Idle
    /\ \A f \in File : FileSound(f)
    /\ QuotaKept

LEMMA FilesCardinality == \A S : Files!Cardinality(S) = Cardinality(S)
BY Zenon DEF Cardinality, Files!Cardinality

LEMMA IdleUpload ==
    /\ Files!Idle \in UploadRow /\ Files!Idle.at = "idle" /\ Files!Idle.file = Nothing
    /\ Files!NoFile \in Files!Rows /\ Files!NoFile.state = "none" /\ Nothing \notin File
BY NothingAssumption DEF Files!Idle, Files!NoFile, Files!Rows, UploadRow

\* The keys of a row, one by one.
LEMMA KeyIn ==
    ASSUME NEW f, NEW row
    PROVE  /\ Files!Keys(f, row) \subseteq objects <=> Complete(f, row)
           /\ <<f, "original">> \in Files!Keys(f, row)
           /\ <<f, "thumbnail">> \in Files!Keys(f, row) <=> row.thumbnail
           /\ \A key \in Files!Keys(f, row) : key[1] = f
BY DEF Files!Keys, Complete, Original, Thumbnail

LEMMA FilesHold == FilesInv => Files!AttachmentsConsistent
<1> SUFFICES ASSUME FilesInv
             PROVE  Files!AttachmentsConsistent
  OBVIOUS
<1>1. Files!TypeOK
  BY DEF FilesInv, FilesTyped, Files!TypeOK, UploadRow, Uploading, Erasing
<1>2. Files!QuotaHolds
  BY FilesCardinality DEF FilesInv, QuotaKept, Files!QuotaHolds, Files!Used
<1>3. Files!RowsBacked
  BY KeyIn DEF FilesInv, FileSound, Files!RowsBacked, Files!Stored
<1>4. Files!ObjectsOwned
  <2> SUFFICES ASSUME NEW object \in objects, object[1] \notin stray,
                      ~Files!Stored(object[1]), \A q \in Upload : upload[q].file # object[1]
               PROVE  FALSE
    BY DEF Files!ObjectsOwned
  <2> DEFINE f == object[1]
  <2>1. /\ f \in File /\ stored[f] \in Files!Rows
        /\ object = <<f, "original">> \/ object = <<f, "thumbnail">>
    BY DEF FilesInv, FilesTyped
  <2>2. ~Bare(f)
    BY <2>1 DEF Bare, Original, Thumbnail
  <2>3. stored[f].state \in {"none", "gone"}
    BY <2>1 DEF Files!Rows, Files!Stored
  <2> QED BY <2>1, <2>2, <2>3 DEF FilesInv, FileSound
<1> QED BY <1>1, <1>2, <1>3, <1>4 DEF Files!AttachmentsConsistent

-----------------------------------------------------------------------------
\* The bytes that a size stands for.
LEMMA SizeBytes ==
    ASSUME NEW f, NEW n \in Nat
    PROVE  IsFiniteSet({f} \X (1..n)) /\ Cardinality({f} \X (1..n)) = n
<1>1. IsFiniteSet(1..n) /\ Cardinality(1..n) = n
  BY FS_Interval
<1> DEFINE byte == [k \in 1..n |-> <<f, k>>]
<1>2. byte \in Bijection(1..n, {f} \X (1..n))
  <2>1. byte \in [1..n -> {f} \X (1..n)]
    OBVIOUS
  <2>2. \A a, b \in 1..n : byte[a] = byte[b] => a = b
    OBVIOUS
  <2>3. \A t \in {f} \X (1..n) : \E k \in 1..n : byte[k] = t
    OBVIOUS
  <2>4. DOMAIN byte = 1..n
    OBVIOUS
  <2> HIDE DEF byte
  <2> QED BY <2>1, <2>2, <2>3, <2>4 DEF Bijection, Injection, Surjection, IsInjective
<1> QED BY <1>1, <1>2, FS_Bijection DEF ExistsBijection

\* A row is added to those there are.
LEMMA BytesAdded ==
    ASSUME NEW f \in File, NEW row, row.state = "stored", row.size \in Nat,
           ~Files!Stored(f), stored \in [File -> Files!Rows], IsFiniteSet(Files!Bytes),
           stored' = [stored EXCEPT ![f] = row]
    PROVE  /\ IsFiniteSet(Files!Bytes)'
           /\ Cardinality(Files!Bytes)' = Cardinality(Files!Bytes) + row.size
<1> DEFINE new == {f} \X (1..row.size)
<1>1. Files!Bytes' = Files!Bytes \cup new
  <2>1. \A g \in File : /\ g = f => stored'[g] = row
                        /\ g # f => stored'[g] = stored[g]
    OBVIOUS
  <2> QED BY <2>1 DEF Files!Bytes, Files!Stored
<1>2. Files!Bytes \cap new = {}
  BY DEF Files!Bytes, Files!Stored
<1>3. IsFiniteSet(new) /\ Cardinality(new) = row.size
  BY SizeBytes
<1>4. Cardinality(Files!Bytes \cap new) = 0
  BY <1>2, FS_EmptySet
<1> HIDE DEF new
<1>5. /\ IsFiniteSet(Files!Bytes \cup new)
      /\ Cardinality(Files!Bytes \cup new)
           = Cardinality(Files!Bytes) + Cardinality(new) - Cardinality(Files!Bytes \cap new)
  BY <1>3, FS_Union
<1>6. Cardinality(Files!Bytes) \in Nat
  BY FS_CardinalityType
<1> QED BY <1>1, <1>3, <1>4, <1>5, <1>6

\* No row is added: the sum does not grow.
LEMMA BytesKept ==
    ASSUME IsFiniteSet(Files!Bytes),
           \A f \in File : stored'[f].state = "stored" => stored'[f] = stored[f]
    PROVE  /\ IsFiniteSet(Files!Bytes)'
           /\ Cardinality(Files!Bytes)' <= Cardinality(Files!Bytes)
           /\ Cardinality(Files!Bytes)' \in Nat /\ Cardinality(Files!Bytes) \in Nat
<1>1. Files!Bytes' \in SUBSET Files!Bytes
  BY DEF Files!Bytes, Files!Stored
<1> QED BY <1>1, FS_Subset, FS_CardinalityType

\* What a step does not touch of a file stays sound.
LEMMA OtherFile ==
    ASSUME NEW g \in File, FileSound(g), stored'[g] = stored[g],
           g \in erased' <=> g \in erased, g \in stray' <=> g \in stray,
           Original(g)' <=> Original(g), Thumbnail(g)' <=> Thumbnail(g),
           \A p \in Upload : upload[p].file = g \/ upload'[p].file = g => upload'[p] = upload[p]
    PROVE  FileSound(g)'
BY DEF FileSound, UploadSound, Complete, Within, Bare, Original, Thumbnail

\* A step of the request q about the file f.
LEMMA FileStep ==
    ASSUME FilesInv, NEW q \in Upload, NEW f \in File,
           upload' \in [Upload -> UploadRow], \A p \in Upload \ {q} : upload'[p] = upload[p],
           upload[q].file \in {f, Nothing}, upload'[q].file \in {f, Nothing},
           upload'[q].file = Nothing => upload'[q].at = "idle",
           upload'[q].at = "idle" => upload'[q] = Files!Idle,
           parents' \subseteq Parent, stored' \in [File -> Files!Rows],
           objects' \subseteq File \X {"original", "thumbnail"},
           erased' \subseteq File, stray' \subseteq File,
           \A g \in File \ {f} :
              /\ stored'[g] = stored[g]
              /\ g \in erased' <=> g \in erased
              /\ g \in stray' <=> g \in stray
              /\ Original(g)' <=> Original(g)
              /\ Thumbnail(g)' <=> Thumbnail(g),
           FileSound(f)', QuotaKept'
    PROVE  FilesInv'
<1>1. FilesTyped'
  BY DEF FilesTyped
<1>2. ASSUME NEW p \in Upload
      PROVE  /\ upload'[p].file = Nothing => upload'[p].at = "idle"
             /\ upload'[p].at = "idle" => upload'[p] = Files!Idle
  BY DEF FilesInv
<1>3. ASSUME NEW g \in File
      PROVE  FileSound(g)'
  <2>1. CASE g = f
    BY <2>1
  <2>2. CASE g # f
    <3>1. \A p \in Upload : upload[p].file = g \/ upload'[p].file = g => upload'[p] = upload[p]
      BY <2>2, IdleUpload
    <3>2. FileSound(g)
      BY DEF FilesInv
    <3> QED BY <2>2, <3>1, <3>2, OtherFile
  <2> QED BY <2>1, <2>2
<1>4. Files!Idle' = Files!Idle
  BY DEF Files!Idle, Files!NoFile
<1> QED BY <1>1, <1>2, <1>3, <1>4 DEF FilesInv

LEMMA SizeNatural == Quota \in Nat /\ \A n \in Size \cup {0} : n \in Nat
<1>1. \A n \in Size : n \in Nat
  BY SizeAssumption
<1> QED BY <1>1, SizeAssumption

\* The request q goes on without the lock, or with the lock it has, and no
\* row is added.
LEMMA QuotaStep ==
    ASSUME QuotaKept, NEW q \in Upload,
           \A p \in Upload \ {q} : upload'[p] = upload[p],
           \A f \in File : stored'[f].state = "stored" => stored'[f] = stored[f],
           upload'[q].at \in Holding => upload[q].at \in Holding,
           upload'[q].at \in {"locked", "put", "ready"} =>
              upload[q].at \in {"locked", "put", "ready"} /\ upload'[q].row = upload[q].row,
           upload \in [Upload -> UploadRow]
    PROVE  QuotaKept'
<1>1. /\ IsFiniteSet(Files!Bytes)'
      /\ Cardinality(Files!Bytes)' <= Cardinality(Files!Bytes)
      /\ Cardinality(Files!Bytes)' \in Nat /\ Cardinality(Files!Bytes) \in Nat
  BY BytesKept DEF QuotaKept
<1>2. Cardinality(Files!Bytes)' <= Quota
  BY <1>1, SizeAssumption DEF QuotaKept
<1>3. ASSUME NEW p \in Upload, NEW r \in Upload,
             upload'[p].at \in Holding, upload'[r].at \in Holding
      PROVE  p = r
  BY <1>3 DEF QuotaKept
<1>4. ASSUME NEW p \in Upload, upload'[p].at \in {"locked", "put", "ready"}
      PROVE  Cardinality(Files!Bytes)' + upload'[p].row.size <= Quota
  <2>1. upload[p].at \in {"locked", "put", "ready"} /\ upload'[p].row.size = upload[p].row.size
    BY <1>4
  <2>2. Cardinality(Files!Bytes) + upload[p].row.size <= Quota
    BY <2>1 DEF QuotaKept
  <2>3. upload[p].row.size \in Nat
    <3>1. upload[p].row \in Files!Rows
      BY DEF UploadRow
    <3>2. upload[p].row.size \in Size \cup {0}
      BY <3>1 DEF Files!Rows
    <3> QED BY <3>2, SizeNatural
  <2> DEFINE now == Cardinality(Files!Bytes)
             then == Cardinality(Files!Bytes)'
             size == upload[p].row.size
  <2>4. then <= now /\ now + size <= Quota /\ then \in Nat /\ now \in Nat /\ size \in Nat
    BY <1>1, <2>2, <2>3
  <2>5. upload'[p].row.size = size
    BY <2>1
  <2> HIDE DEF now, size
  <2>6. then + size <= Quota
    BY <2>4, SizeAssumption
  <2> QED BY <2>5, <2>6
<1> QED BY <1>1, <1>2, <1>3, <1>4 DEF QuotaKept

\* A request goes on to its next step.
LEMMA Moves ==
    ASSUME FilesInv, NEW q \in Upload, NEW at \in Uploading \cup Erasing, Files!GoTo(q, at),
           upload[q].at # "idle"
    PROVE  /\ upload' \in [Upload -> UploadRow]
           /\ upload'[q].at = at /\ upload'[q].row = upload[q].row
           /\ upload'[q].file = upload[q].file /\ upload[q].file \in File
           /\ \A p \in Upload \ {q} : upload'[p] = upload[p]
<1>1. upload[q] \in UploadRow
  BY DEF FilesInv, FilesTyped
<1> DEFINE new == [upload[q] EXCEPT !.at = at]
<1>2. /\ new \in UploadRow /\ new.at = at
      /\ new.row = upload[q].row /\ new.file = upload[q].file
  BY <1>1 DEF UploadRow
<1>3. upload' = [upload EXCEPT ![q] = new]
  BY DEF Files!GoTo
<1>4. upload[q].file \in File
  BY <1>1 DEF FilesInv, UploadRow
<1> HIDE DEF new
<1> QED BY <1>2, <1>3, <1>4 DEF FilesInv, FilesTyped

\* A request ends.
LEMMA Ends ==
    ASSUME FilesInv, NEW q \in Upload, Files!Done(q)
    PROVE  /\ upload' \in [Upload -> UploadRow] /\ upload'[q] = Files!Idle
           /\ \A p \in Upload \ {q} : upload'[p] = upload[p]
BY IdleUpload DEF FilesInv, FilesTyped, Files!Done

\* What the invariant says of a request that goes on and of its file.
LEMMA Going ==
    ASSUME FilesInv, NEW q \in Upload, upload[q].at # "idle"
    PROVE  /\ upload[q].file \in File /\ upload[q].row \in Files!Rows
           /\ FileSound(upload[q].file) /\ UploadSound(q, upload[q].file)
           /\ stored[upload[q].file] \in Files!Rows
<1>1. upload[q] \in UploadRow
  BY DEF FilesInv, FilesTyped
<1>2. upload[q].file \in File /\ upload[q].row \in Files!Rows
  BY <1>1 DEF FilesInv, UploadRow
<1> QED BY <1>2 DEF FilesInv, FileSound, FilesTyped

LEMMA BeginUploadStep ==
    ASSUME FilesInv, NEW q \in Upload, NEW f \in File, NEW parent \in Parent,
           NEW size \in Size, NEW thumbnail \in BOOLEAN,
           Files!BeginUpload(q, f, parent, size, thumbnail)
    PROVE  FilesInv'
<1> DEFINE row == [state |-> "stored", parent |-> parent, size |-> size, thumbnail |-> thumbnail]
           new == [at |-> "read", file |-> f, row |-> row]
<1>1. /\ upload[q] = Files!Idle /\ stored[f] = Files!NoFile /\ f \notin stray
      /\ \A p \in Upload : upload[p].file # f
      /\ upload' = [upload EXCEPT ![q] = new]
      /\ UNCHANGED <<parents, stored, objects, erased, stray>>
  BY DEF Files!BeginUpload
<1>2. row \in Files!Rows /\ row.state = "stored" /\ row.size = size
  BY DEF Files!Rows
<1>3. new \in UploadRow /\ new.at = "read" /\ new.file = f /\ new.row = row
  BY <1>2 DEF UploadRow, Uploading
<1> HIDE DEF new, row
<1>4. /\ upload' \in [Upload -> UploadRow] /\ upload'[q] = new
      /\ \A p \in Upload \ {q} : upload'[p] = upload[p]
  BY <1>1, <1>3 DEF FilesInv, FilesTyped
<1>5. QuotaKept'
  BY <1>1, <1>3, <1>4, QuotaStep DEF FilesInv, FilesTyped, Holding
<1>6. FileSound(f)'
  <2>1. FileSound(f) /\ stored[f].state = "none"
    BY <1>1, IdleUpload DEF FilesInv
  <2>2. Bare(f) /\ Bare(f)'
    BY <1>1, <2>1 DEF FileSound, Bare, Original, Thumbnail
  <2>3. \A p \in Upload : upload'[p].file = f => p = q
    BY <1>1, <1>4
  <2>4. UploadSound(q, f)'
    BY <1>1, <1>2, <1>3, <1>4, <2>1, <2>2, <2>3
       DEF UploadSound, Within, Bare, Uploading, Erasing, Files!NoFile
  <2> QED BY <1>1, <1>3, <1>4, <2>1, <2>3, <2>4 DEF FileSound
<1>7. /\ upload[q].file \in {f, Nothing} /\ upload'[q].file = f /\ upload'[q].at # "idle"
      /\ f # Nothing
  BY <1>1, <1>3, <1>4, IdleUpload
<1> QED BY <1>1, <1>4, <1>5, <1>6, <1>7, FileStep
        DEF FilesInv, FilesTyped, Original, Thumbnail

LEMMA LockStep ==
    ASSUME FilesInv, NEW q \in Upload, NEW f \in File, f = upload[q].file, Files!Lock(q)
    PROVE  FilesInv'
<1>1. /\ upload[q].at = "read" /\ Files!GoTo(q, "locked")
      /\ Cardinality(Files!Bytes) + upload[q].row.size <= Quota
      /\ \A p \in Upload : upload[p].at \notin Holding
      /\ UNCHANGED <<parents, stored, objects, erased, stray>>
  BY FilesCardinality DEF Files!Lock, Files!At, Files!Locked, Files!Used, Holding
<1>2. /\ upload' \in [Upload -> UploadRow]
      /\ upload'[q].at = "locked" /\ upload'[q].row = upload[q].row
      /\ upload'[q].file = f /\ f \in File
      /\ \A p \in Upload \ {q} : upload'[p] = upload[p]
  BY <1>1, Moves DEF Uploading
<1>3. FileSound(f) /\ UploadSound(q, f)
  BY <1>1, Going
<1>4. QuotaKept'
  <2>1. Files!Bytes' = Files!Bytes
    BY <1>1 DEF Files!Bytes, Files!Stored
  <2>2. ASSUME NEW p \in Upload, upload'[p].at \in Holding
        PROVE  p = q
    BY <1>1, <1>2, <2>2
  <2>3. \A p \in Upload : upload'[p].at \in {"locked", "put", "ready"} =>
            Cardinality(Files!Bytes) + upload'[p].row.size <= Quota
    BY <1>1, <1>2, <2>2 DEF Holding
  <2> QED BY <2>1, <2>2, <2>3 DEF QuotaKept, FilesInv
<1>5. FileSound(f)'
  BY <1>1, <1>2, <1>3
     DEF FileSound, UploadSound, Complete, Within, Bare, Original, Thumbnail, Uploading, Erasing
<1> QED BY <1>1, <1>2, <1>4, <1>5, FileStep, IdleUpload
        DEF FilesInv, FilesTyped, Original, Thumbnail

LEMMA PutOriginalStep ==
    ASSUME FilesInv, NEW q \in Upload, NEW f \in File, f = upload[q].file, Files!PutOriginal(q)
    PROVE  FilesInv'
<1> DEFINE at == IF upload[q].row.thumbnail THEN "put" ELSE "ready"
<1>1. /\ upload[q].at = "locked" /\ Files!GoTo(q, at)
      /\ objects' = objects \cup {<<f, "original">>}
      /\ UNCHANGED <<parents, stored, erased, stray>>
  BY DEF Files!PutOriginal, Files!At
<1>2. /\ at \in {"put", "ready"} /\ upload' \in [Upload -> UploadRow]
      /\ upload'[q].at = at /\ upload'[q].row = upload[q].row
      /\ upload'[q].file = f /\ f \in File
      /\ \A p \in Upload \ {q} : upload'[p] = upload[p]
  BY <1>1, Moves DEF Uploading
<1>3. FileSound(f) /\ UploadSound(q, f)
  BY <1>1, Going
<1>4. QuotaKept'
  BY <1>1, <1>2, QuotaStep DEF FilesInv, FilesTyped, Holding
<1>5. Original(f)' /\ (Thumbnail(f)' <=> Thumbnail(f))
  BY <1>1 DEF Original, Thumbnail
<1>6. /\ upload[q].row.state = "stored" /\ upload[q].row.size \in Size
      /\ stored[f] = Files!NoFile /\ f \notin stray /\ ~Thumbnail(f)
      /\ \A p \in Upload : upload[p].file = f => p = q
  BY <1>1, <1>3 DEF UploadSound, Uploading, Bare
<1>7. UploadSound(q, f)'
  BY <1>1, <1>2, <1>5, <1>6 DEF UploadSound, Complete, Within, Uploading, Erasing, Files!NoFile
<1>8. FileSound(f)'
  BY <1>1, <1>2, <1>6, <1>7, IdleUpload DEF FileSound
<1>9. \A g \in File \ {f} : (Original(g)' <=> Original(g)) /\ (Thumbnail(g)' <=> Thumbnail(g))
  BY <1>1 DEF Original, Thumbnail
<1> QED BY <1>1, <1>2, <1>4, <1>8, <1>9, FileStep, IdleUpload DEF FilesInv, FilesTyped

LEMMA PutThumbnailStep ==
    ASSUME FilesInv, NEW q \in Upload, NEW f \in File, f = upload[q].file, Files!PutThumbnail(q)
    PROVE  FilesInv'
<1>1. /\ upload[q].at = "put" /\ Files!GoTo(q, "ready")
      /\ objects' = objects \cup {<<f, "thumbnail">>}
      /\ UNCHANGED <<parents, stored, erased, stray>>
  BY DEF Files!PutThumbnail, Files!At
<1>2. /\ upload' \in [Upload -> UploadRow]
      /\ upload'[q].at = "ready" /\ upload'[q].row = upload[q].row
      /\ upload'[q].file = f /\ f \in File
      /\ \A p \in Upload \ {q} : upload'[p] = upload[p]
  BY <1>1, Moves DEF Uploading
<1>3. FileSound(f) /\ UploadSound(q, f)
  BY <1>1, Going
<1>4. QuotaKept'
  BY <1>1, <1>2, QuotaStep DEF FilesInv, FilesTyped, Holding
<1>5. (Original(f)' <=> Original(f)) /\ Thumbnail(f)'
  BY <1>1 DEF Original, Thumbnail
<1>6. /\ upload[q].row.state = "stored" /\ upload[q].row.size \in Size
      /\ stored[f] = Files!NoFile /\ f \notin stray
      /\ Original(f) /\ upload[q].row.thumbnail
      /\ \A p \in Upload : upload[p].file = f => p = q
  BY <1>1, <1>3 DEF UploadSound, Uploading
<1>7. UploadSound(q, f)'
  BY <1>1, <1>2, <1>5, <1>6 DEF UploadSound, Complete, Within, Uploading, Erasing, Files!NoFile
<1>8. FileSound(f)'
  BY <1>1, <1>2, <1>6, <1>7, IdleUpload DEF FileSound
<1>9. \A g \in File \ {f} : (Original(g)' <=> Original(g)) /\ (Thumbnail(g)' <=> Thumbnail(g))
  BY <1>1 DEF Original, Thumbnail
<1> QED BY <1>1, <1>2, <1>4, <1>8, <1>9, FileStep, IdleUpload DEF FilesInv, FilesTyped

\* A put that fails leaves the object it was to write, or nothing.
LEMMA PutFailsStep ==
    ASSUME FilesInv, NEW q \in Upload, NEW f \in File, f = upload[q].file, Files!PutFails(q)
    PROVE  FilesInv'
<1> DEFINE kind == IF upload[q].at = "put" THEN "thumbnail" ELSE "original"
<1>1. /\ upload[q].at \in {"locked", "put"} /\ Files!GoTo(q, "failed")
      /\ UNCHANGED <<parents, stored, erased, stray>>
  BY DEF Files!PutFails
<1>2. PICK key \in SUBSET {<<f, kind>>} : objects' = objects \cup key
  BY DEF Files!PutFails, Files!At
<1>3. /\ upload' \in [Upload -> UploadRow]
      /\ upload'[q].at = "failed" /\ upload'[q].row = upload[q].row
      /\ upload'[q].file = f /\ f \in File
      /\ \A p \in Upload \ {q} : upload'[p] = upload[p]
  BY <1>1, Moves DEF Uploading
<1>4. FileSound(f) /\ UploadSound(q, f)
  BY <1>1, Going
<1>5. Thumbnail(f)' => Thumbnail(f) \/ upload[q].at = "put"
  BY <1>2 DEF Thumbnail
<1>6. \A g \in File \ {f} : (Original(g)' <=> Original(g)) /\ (Thumbnail(g)' <=> Thumbnail(g))
  BY <1>2 DEF Original, Thumbnail
<1>7. objects' \subseteq File \X {"original", "thumbnail"}
  BY <1>2, <1>3 DEF FilesInv, FilesTyped
<1> HIDE DEF kind
<1>8. QuotaKept'
  BY <1>1, <1>3, QuotaStep DEF FilesInv, FilesTyped, Holding
<1>9. /\ upload[q].row.state = "stored" /\ upload[q].row.size \in Size
      /\ stored[f] = Files!NoFile /\ f \notin stray /\ Within(f, upload[q].row)
      /\ \A p \in Upload : upload[p].file = f => p = q
      /\ upload[q].at = "put" => upload[q].row.thumbnail
  BY <1>1, <1>4 DEF UploadSound, Uploading
<1>10. UploadSound(q, f)'
  BY <1>1, <1>3, <1>5, <1>9 DEF UploadSound, Within, Uploading, Erasing, Files!NoFile
<1>11. FileSound(f)'
  BY <1>1, <1>3, <1>9, <1>10, IdleUpload DEF FileSound
<1> QED BY <1>1, <1>3, <1>6, <1>7, <1>8, <1>11, FileStep, IdleUpload DEF FilesInv, FilesTyped

LEMMA CommitFailsStep ==
    ASSUME FilesInv, NEW q \in Upload, NEW f \in File, f = upload[q].file, Files!CommitFails(q)
    PROVE  FilesInv'
<1>1. /\ upload[q].at = "ready" /\ Files!GoTo(q, "undone")
      /\ UNCHANGED <<parents, stored, objects, erased, stray>>
  BY DEF Files!CommitFails, Files!At
<1>2. /\ upload' \in [Upload -> UploadRow]
      /\ upload'[q].at = "undone" /\ upload'[q].row = upload[q].row
      /\ upload'[q].file = f /\ f \in File
      /\ \A p \in Upload \ {q} : upload'[p] = upload[p]
  BY <1>1, Moves DEF Uploading
<1>3. FileSound(f) /\ UploadSound(q, f)
  BY <1>1, Going
<1>4. QuotaKept'
  BY <1>1, <1>2, QuotaStep DEF FilesInv, FilesTyped, Holding
<1>5. FileSound(f)'
  BY <1>1, <1>2, <1>3
     DEF FileSound, UploadSound, Complete, Within, Bare, Original, Thumbnail, Uploading, Erasing
<1> QED BY <1>1, <1>2, <1>4, <1>5, FileStep, IdleUpload
        DEF FilesInv, FilesTyped, Original, Thumbnail

LEMMA CommitUploadStep ==
    ASSUME FilesInv, NEW q \in Upload, NEW f \in File, NEW row \in Files!Rows,
           f = upload[q].file, row = upload[q].row, Files!CommitUpload(q)
    PROVE  FilesInv'
<1>1. /\ upload[q].at = "ready" /\ (Files!Done(q) \/ Files!GoTo(q, "unheard"))
      /\ stored' = [stored EXCEPT ![f] = row]
      /\ UNCHANGED <<parents, objects, erased, stray>>
  BY DEF Files!CommitUpload, Files!At
<1>2. /\ upload' \in [Upload -> UploadRow]
      /\ \A p \in Upload \ {q} : upload'[p] = upload[p]
      /\ \/ upload'[q] = Files!Idle
         \/ upload'[q].at = "unheard" /\ upload'[q].row = row /\ upload'[q].file = f
  BY <1>1, Ends, Moves DEF Erasing
<1>3. f \in File /\ row \in Files!Rows /\ FileSound(f) /\ UploadSound(q, f)
  BY <1>1, Going
<1>4. /\ row.state = "stored" /\ row.size \in Size /\ stored[f] = Files!NoFile
      /\ f \notin stray /\ Complete(f, row) /\ Within(f, row)
      /\ \A p \in Upload : upload[p].file = f => p = q
  BY <1>1, <1>3 DEF UploadSound, Uploading
<1>5. QuotaKept'
  <2>1. /\ IsFiniteSet(Files!Bytes)'
        /\ Cardinality(Files!Bytes)' = Cardinality(Files!Bytes) + row.size
    <3>1. row.size \in Nat
      BY <1>4, SizeNatural
    <3>2. ~Files!Stored(f)
      BY <1>4, IdleUpload DEF Files!Stored
    <3>3. stored \in [File -> Files!Rows] /\ IsFiniteSet(Files!Bytes)
      BY DEF FilesInv, FilesTyped, QuotaKept
    <3> QED BY <1>1, <1>4, <3>1, <3>2, <3>3, BytesAdded
  <2>2. Cardinality(Files!Bytes) + row.size <= Quota
    BY <1>1 DEF FilesInv, QuotaKept
  <2>3. \A p \in Upload : upload'[p].at \notin Holding
    BY <1>1, <1>2, IdleUpload DEF FilesInv, QuotaKept, Holding
  <2> QED BY <2>1, <2>2, <2>3 DEF QuotaKept, Holding
<1>6. stored' \in [File -> Files!Rows] /\ stored'[f] = row
      /\ \A g \in File \ {f} : stored'[g] = stored[g]
  BY <1>1, <1>3 DEF FilesInv, FilesTyped
<1>7. /\ Complete(f, row)' /\ Within(f, row)'
      /\ \A p \in Upload : upload'[p].file = f => UploadSound(p, f)'
  <2>1. Complete(f, row)' /\ Within(f, row)'
    BY <1>1, <1>4 DEF Complete, Within, Original, Thumbnail
  <2>2. ASSUME NEW p \in Upload, upload'[p].file = f
        PROVE  UploadSound(p, f)'
    <3>1. p = q /\ upload'[q].at = "unheard" /\ upload'[q].row = row
      BY <1>2, <1>3, <1>4, <2>2, IdleUpload
    <3> QED BY <1>4, <1>6, <3>1 DEF UploadSound, Uploading, Erasing
  <2> QED BY <2>1, <2>2
<1>8. FileSound(f)'
  BY <1>1, <1>4, <1>6, <1>7 DEF FileSound, Complete, Within, Original, Thumbnail
<1> QED BY <1>1, <1>2, <1>3, <1>5, <1>6, <1>8, FileStep, IdleUpload
        DEF FilesInv, FilesTyped, Original, Thumbnail

\* The store keeps what it could not delete, and the file is then stray;
\* it keeps nothing otherwise, when it held nothing but the keys of the row.
LEMMA Erased ==
    ASSUME NEW q \in Upload, NEW f \in File, f = upload[q].file, Files!Erase(q),
           objects \subseteq File \X {"original", "thumbnail"}, stray \subseteq File
    PROVE  /\ objects' \subseteq objects /\ stray' \subseteq File /\ stray \subseteq stray'
           /\ \A g \in File \ {f} :
                 /\ g \in stray' <=> g \in stray
                 /\ Original(g)' <=> Original(g)
                 /\ Thumbnail(g)' <=> Thumbnail(g)
           /\ Within(f, upload[q].row) => Bare(f)' \/ f \in stray'
           /\ Thumbnail(f)' => Thumbnail(f)
<1>1. PICK left \in SUBSET Files!Keys(f, upload[q].row) :
         /\ objects' = objects \ (Files!Keys(f, upload[q].row) \ left)
         /\ stray' = IF left # {} THEN stray \cup {f} ELSE stray
  BY DEF Files!Erase, Files!Remain
<1>2. /\ objects' \subseteq objects /\ stray' \subseteq File /\ stray \subseteq stray'
      /\ \A g \in File \ {f} : g \in stray' <=> g \in stray
  BY <1>1
<1>3. ASSUME NEW g \in File \ {f}
      PROVE  (Original(g)' <=> Original(g)) /\ (Thumbnail(g)' <=> Thumbnail(g))
  <2>1. \A key \in Files!Keys(f, upload[q].row) : key[1] = f
    BY KeyIn
  <2> QED BY <1>1, <2>1 DEF Original, Thumbnail
<1>4. ASSUME Within(f, upload[q].row), f \notin stray'
      PROVE  Bare(f)'
  <2>1. objects' = objects \ Files!Keys(f, upload[q].row)
    BY <1>1, <1>4
  <2>2. <<f, "original">> \notin objects'
    BY <2>1, KeyIn
  <2>3. <<f, "thumbnail">> \notin objects'
    BY <1>4, <2>1, KeyIn DEF Within, Thumbnail
  <2> QED BY <2>2, <2>3 DEF Bare, Original, Thumbnail
<1>5. Thumbnail(f)' => Thumbnail(f)
  BY <1>2 DEF Thumbnail
<1> QED BY <1>2, <1>3, <1>4, <1>5

LEMMA CleanUpStep ==
    ASSUME FilesInv, NEW q \in Upload, NEW f \in File, f = upload[q].file, Files!CleanUp(q)
    PROVE  FilesInv'
<1>1. /\ upload[q].at \in {"failed", "undone"} /\ Files!Erase(q) /\ Files!Done(q)
      /\ UNCHANGED <<parents, stored, erased>>
  BY DEF Files!CleanUp
<1>2. /\ upload' \in [Upload -> UploadRow] /\ upload'[q] = Files!Idle
      /\ \A p \in Upload \ {q} : upload'[p] = upload[p]
  BY <1>1, Ends
<1>3. FileSound(f) /\ UploadSound(q, f)
  BY <1>1, Going
<1>4. QuotaKept'
  BY <1>1, <1>2, QuotaStep, IdleUpload DEF FilesInv, FilesTyped, Holding
<1>5. /\ stored[f] = Files!NoFile /\ Within(f, upload[q].row)
      /\ \A p \in Upload : upload[p].file = f => p = q
  BY <1>1, <1>3 DEF UploadSound, Uploading
<1>6. /\ objects' \subseteq objects /\ stray' \subseteq File
      /\ \A g \in File \ {f} :
            /\ g \in stray' <=> g \in stray
            /\ Original(g)' <=> Original(g)
            /\ Thumbnail(g)' <=> Thumbnail(g)
      /\ Bare(f)' \/ f \in stray'
  BY <1>1, <1>5, Erased DEF FilesInv, FilesTyped
<1>7. \A p \in Upload : upload'[p].file # f
  BY <1>2, <1>5, IdleUpload
<1>8. FileSound(f)'
  BY <1>1, <1>5, <1>6, <1>7, IdleUpload DEF FileSound
<1>9. objects' \subseteq File \X {"original", "thumbnail"}
  BY <1>6 DEF FilesInv, FilesTyped
<1> QED BY <1>1, <1>2, <1>4, <1>6, <1>8, <1>9, FileStep, IdleUpload DEF FilesInv, FilesTyped

LEMMA BeginDeleteStep ==
    ASSUME FilesInv, NEW q \in Upload, NEW f \in File, Files!BeginDelete(q, f)
    PROVE  FilesInv'
<1> DEFINE new == [at |-> "erase", file |-> f, row |-> stored[f]]
<1>1. /\ upload[q] = Files!Idle /\ stored[f].state = "stored" /\ stored[f] \in Files!Rows
      /\ upload' = [upload EXCEPT ![q] = new]
      /\ UNCHANGED <<parents, stored, objects, erased, stray>>
  BY DEF Files!BeginDelete, Files!Stored, FilesInv, FilesTyped
<1>2. new \in UploadRow /\ new.at = "erase" /\ new.file = f /\ new.row = stored[f]
  BY <1>1 DEF UploadRow, Erasing
<1> HIDE DEF new
<1>3. /\ upload' \in [Upload -> UploadRow] /\ upload'[q] = new
      /\ \A p \in Upload \ {q} : upload'[p] = upload[p]
  BY <1>1, <1>2 DEF FilesInv, FilesTyped
<1>4. QuotaKept'
  BY <1>1, <1>2, <1>3, QuotaStep DEF FilesInv, FilesTyped, Holding
<1>5. FileSound(f)'
  <2>1. FileSound(f) /\ upload[q].file # f
    BY <1>1, IdleUpload DEF FilesInv
  <2>2. UploadSound(q, f)'
    BY <1>1, <1>2, <1>3 DEF UploadSound, Uploading, Erasing
  <2>3. ASSUME NEW p \in Upload \ {q}, upload'[p].file = f
        PROVE  UploadSound(p, f)'
    <3>1. UploadSound(p, f) /\ upload'[p] = upload[p]
      BY <1>3, <2>1, <2>3 DEF FileSound
    <3>2. upload[p].at \notin Uploading
      BY <1>1, <3>1, IdleUpload DEF UploadSound
    <3> QED BY <1>1, <3>1, <3>2
            DEF UploadSound, Complete, Within, Bare, Original, Thumbnail, Uploading, Erasing
  <2>4. \A p \in Upload : upload'[p].file = f => UploadSound(p, f)'
    BY <2>2, <2>3
  <2> QED BY <1>1, <2>1, <2>4 DEF FileSound, Complete, Within, Original, Thumbnail
<1>6. /\ upload[q].file = Nothing /\ upload'[q].file = f /\ upload'[q].at # "idle"
      /\ f # Nothing
  BY <1>1, <1>2, <1>3, IdleUpload
<1> QED BY <1>1, <1>3, <1>4, <1>5, <1>6, FileStep
        DEF FilesInv, FilesTyped, Original, Thumbnail

LEMMA EraseObjectsStep ==
    ASSUME FilesInv, NEW q \in Upload, NEW f \in File, f = upload[q].file,
           Files!EraseObjects(q)
    PROVE  FilesInv'
<1>1. /\ upload[q].at \in {"erase", "unheard"} /\ Files!Erase(q) /\ erased' = erased \cup {f}
      /\ Files!GoTo(q, "erased") \/ Files!Done(q)
      /\ UNCHANGED <<parents, stored>>
  BY DEF Files!EraseObjects, Files!At
<1>2. /\ upload' \in [Upload -> UploadRow]
      /\ \A p \in Upload \ {q} : upload'[p] = upload[p]
      /\ \/ /\ upload'[q].at = "erased" /\ upload'[q].row = upload[q].row
            /\ upload'[q].file = f
         \/ upload'[q] = Files!Idle
  BY <1>1, Moves, Ends DEF Erasing
<1>3. FileSound(f) /\ UploadSound(q, f)
  BY <1>1, Going
<1>4. QuotaKept'
  BY <1>1, <1>2, QuotaStep, IdleUpload DEF FilesInv, FilesTyped, Holding
<1>5. /\ objects' \subseteq objects /\ stray' \subseteq File /\ stray \subseteq stray'
      /\ \A g \in File \ {f} :
            /\ g \in stray' <=> g \in stray
            /\ Original(g)' <=> Original(g)
            /\ Thumbnail(g)' <=> Thumbnail(g)
      /\ Within(f, upload[q].row) => Bare(f)' \/ f \in stray'
      /\ Thumbnail(f)' => Thumbnail(f)
  BY <1>1, Erased DEF FilesInv, FilesTyped
<1>6. /\ stored[f].state \in {"stored", "gone"}
      /\ stored[f].state = "stored" => upload[q].row = stored[f]
  BY <1>1, <1>3, Going DEF UploadSound, Erasing, Files!Rows
<1>7. Bare(f) => Bare(f)'
  BY <1>5 DEF Bare, Original, Thumbnail
<1>8. f \in stray' \/ Bare(f)'
  BY <1>3, <1>5, <1>6, <1>7 DEF FileSound
<1>9. ASSUME NEW p \in Upload, upload'[p].file = f
      PROVE  UploadSound(p, f)'
  <2>1. CASE p = q
    BY <1>1, <1>2, <1>6, <1>8, <1>9, <2>1, IdleUpload DEF UploadSound, Uploading, Erasing
  <2>2. CASE p # q
    <3>1. UploadSound(p, f) /\ upload'[p] = upload[p]
      BY <1>2, <1>3, <1>9, <2>2 DEF FileSound
    <3>2. upload[p].at \in Erasing
      BY <1>6, <3>1, IdleUpload DEF UploadSound
    <3> QED BY <1>1, <1>6, <1>8, <3>1, <3>2 DEF UploadSound, Uploading, Erasing
  <2> QED BY <2>1, <2>2
<1>10. FileSound(f)'
  <2>1. stored'[f] = stored[f] /\ f \in erased'
    BY <1>1
  <2>2. stored[f].state = "stored" /\ f \notin stray' => Within(f, stored[f])'
    <3>1. f \notin stray' => f \notin stray
      BY <1>5
    <3>2. stored[f].state = "stored" /\ f \notin stray => (Thumbnail(f) => stored[f].thumbnail)
      BY <1>3 DEF FileSound, Within
    <3> QED BY <1>1, <1>5, <3>1, <3>2 DEF Within, Thumbnail
  <2> QED BY <1>6, <1>8, <1>9, <2>1, <2>2 DEF FileSound, Within, Thumbnail
<1>11. objects' \subseteq File \X {"original", "thumbnail"}
  BY <1>5 DEF FilesInv, FilesTyped
<1> QED BY <1>1, <1>2, <1>4, <1>5, <1>10, <1>11, FileStep, IdleUpload DEF FilesInv, FilesTyped

LEMMA Removed ==
    ASSUME FilesInv, NEW F, Files!Remove(F)
    PROVE  /\ stored' \in [File -> Files!Rows]
           /\ \A g \in File :
                IF g \in F /\ stored[g].state = "stored" THEN stored'[g].state = "gone"
                ELSE stored'[g] = stored[g]
<1> DEFINE gone == [Files!NoFile EXCEPT !.state = "gone"]
<1>1. gone \in Files!Rows /\ gone.state = "gone"
  BY DEF Files!NoFile, Files!Rows
<1> HIDE DEF gone
<1>2. stored' = [g \in File |-> IF g \in F /\ stored[g].state = "stored"
                                THEN gone ELSE stored[g]]
  BY DEF Files!Remove, Files!Stored, gone
<1> QED BY <1>1, <1>2 DEF FilesInv, FilesTyped

LEMMA CommitDeleteStep ==
    ASSUME FilesInv, NEW q \in Upload, NEW f \in File, f = upload[q].file,
           Files!CommitDelete(q)
    PROVE  FilesInv'
<1>1. /\ upload[q].at = "erased" /\ Files!Remove({f}) /\ Files!Done(q)
      /\ UNCHANGED <<parents, objects, erased, stray>>
  BY DEF Files!CommitDelete, Files!At
<1>2. /\ upload' \in [Upload -> UploadRow] /\ upload'[q] = Files!Idle
      /\ \A p \in Upload \ {q} : upload'[p] = upload[p]
  BY <1>1, Ends
<1>3. /\ FileSound(f) /\ UploadSound(q, f)
      /\ stored[f].state \in {"stored", "gone"}
      /\ f \in stray \/ Bare(f)
  BY <1>1, Going DEF UploadSound, Erasing, Files!Rows
<1>4. /\ stored' \in [File -> Files!Rows] /\ stored'[f].state = "gone"
      /\ \A g \in File \ {f} : stored'[g] = stored[g]
      /\ \A g \in File : stored'[g].state = "stored" => stored'[g] = stored[g]
  <2>1. /\ stored' \in [File -> Files!Rows]
        /\ \A g \in File :
             IF g \in {f} /\ stored[g].state = "stored" THEN stored'[g].state = "gone"
             ELSE stored'[g] = stored[g]
    BY <1>1, Removed
  <2>2. stored'[f].state = "gone"
    BY <1>3, <2>1
  <2>3. \A g \in File \ {f} : stored'[g] = stored[g]
    BY <2>1
  <2> QED BY <2>1, <2>2, <2>3
<1>5. QuotaKept'
  BY <1>2, <1>4, QuotaStep, IdleUpload DEF FilesInv, FilesTyped, Holding
<1>6. ASSUME NEW p \in Upload, upload'[p].file = f
      PROVE  UploadSound(p, f)'
  <2>1. p # q /\ UploadSound(p, f) /\ upload'[p] = upload[p]
    BY <1>2, <1>3, <1>6, IdleUpload DEF FileSound
  <2>2. upload[p].at \in Erasing
    BY <1>3, <2>1, IdleUpload DEF UploadSound
  <2> QED BY <1>1, <1>4, <2>1, <2>2 DEF UploadSound, Uploading, Erasing, Bare, Original, Thumbnail
<1>7. FileSound(f)'
  BY <1>1, <1>3, <1>4, <1>6 DEF FileSound, Bare, Original, Thumbnail
<1> QED BY <1>1, <1>2, <1>4, <1>5, <1>7, FileStep, IdleUpload
        DEF FilesInv, FilesTyped, Original, Thumbnail

LEMMA FailStep ==
    ASSUME FilesInv, NEW q \in Upload, NEW f \in File, f = upload[q].file, Files!Fail(q)
    PROVE  FilesInv'
<1>1. /\ upload[q] # Files!Idle /\ upload[q].at # "idle" /\ Files!Done(q)
      /\ stray' = IF upload[q].at \in {"put", "ready", "failed", "undone"}
                  THEN stray \cup {f} ELSE stray
      /\ UNCHANGED <<parents, stored, objects, erased>>
  BY DEF Files!Fail, FilesInv
<1>2. /\ upload' \in [Upload -> UploadRow] /\ upload'[q] = Files!Idle
      /\ \A p \in Upload \ {q} : upload'[p] = upload[p]
  BY <1>1, Ends
<1>3. FileSound(f) /\ UploadSound(q, f)
  BY <1>1, Going
<1>4. QuotaKept'
  BY <1>1, <1>2, QuotaStep, IdleUpload DEF FilesInv, FilesTyped, Holding
<1>5. \A p \in Upload : upload'[p].file = f =>
          p # q /\ upload'[p] = upload[p] /\ UploadSound(p, f)
  BY <1>2, <1>3, IdleUpload DEF FileSound
<1>6. FileSound(f)'
  <2>1. CASE upload[q].at \in Uploading
    <3>1. stored[f] = Files!NoFile /\ \A p \in Upload : upload'[p].file # f
      BY <1>3, <1>5, <2>1 DEF UploadSound
    <3>2. Bare(f)' \/ f \in stray'
      BY <1>1, <1>3, <2>1 DEF UploadSound, Uploading, Bare, Original, Thumbnail
    <3> QED BY <1>1, <3>1, <3>2, IdleUpload DEF FileSound
  <2>2. CASE upload[q].at \in Erasing
    <3>1. stored[f].state # "none" /\ stray' = stray
      BY <1>1, <1>3, <2>2 DEF UploadSound, Erasing
    <3>2. \A p \in Upload : upload'[p].file = f => UploadSound(p, f)'
      BY <1>1, <1>5, <3>1 DEF UploadSound, Complete, Within, Bare, Original, Thumbnail
    <3> QED BY <1>1, <1>3, <3>1, <3>2
            DEF FileSound, Complete, Within, Bare, Original, Thumbnail
  <2> QED BY <1>3, <2>1, <2>2 DEF UploadSound
<1>7. stray' \subseteq File /\ \A g \in File \ {f} : g \in stray' <=> g \in stray
  BY <1>1 DEF FilesInv, FilesTyped
<1> QED BY <1>1, <1>2, <1>4, <1>6, <1>7, FileStep, IdleUpload
        DEF FilesInv, FilesTyped, Original, Thumbnail

LEMMA DeleteParentStep ==
    ASSUME FilesInv, NEW p \in Parent, Files!DeleteParent(p)
    PROVE  FilesInv'
<1> DEFINE children == {f \in File : stored[f].state = "stored" /\ stored[f].parent = p}
<1>1. /\ parents' = parents \ {p} /\ Files!Remove(children) /\ stray' = stray \cup children
      /\ UNCHANGED <<objects, upload, erased>>
  BY DEF Files!DeleteParent, Files!Stored
<1>2. /\ stored' \in [File -> Files!Rows]
      /\ \A g \in children : stored'[g].state = "gone"
      /\ \A g \in File \ children : stored'[g] = stored[g]
      /\ \A g \in File : stored'[g].state = "stored" => stored'[g] = stored[g]
  BY <1>1, Removed
<1>3. QuotaKept'
  <2>1. ASSUME NEW q \in Upload
        PROVE  QuotaKept'
    BY <1>1, <1>2, QuotaStep DEF FilesInv, FilesTyped
  <2>2. CASE Upload = {}
    <3>1. /\ IsFiniteSet(Files!Bytes)'
          /\ Cardinality(Files!Bytes)' <= Cardinality(Files!Bytes)
          /\ Cardinality(Files!Bytes)' \in Nat /\ Cardinality(Files!Bytes) \in Nat
      BY <1>2, BytesKept DEF FilesInv, QuotaKept
    <3>2. Cardinality(Files!Bytes)' <= Quota
      BY <3>1, SizeNatural DEF FilesInv, QuotaKept
    <3> QED BY <2>2, <3>1, <3>2 DEF QuotaKept
  <2> QED BY <2>1, <2>2
<1>4. ASSUME NEW g \in File
      PROVE  FileSound(g)'
  <2>1. FileSound(g)
    BY DEF FilesInv
  <2>2. CASE g \in children
    <3>1. stored'[g].state = "gone" /\ g \in stray'
      BY <1>1, <1>2, <2>2
    <3>2. ASSUME NEW q \in Upload, upload'[q].file = g
          PROVE  UploadSound(q, g)'
      <4>1. UploadSound(q, g) /\ upload' = upload
        BY <1>1, <2>1, <3>2 DEF FileSound
      <4>2. upload[q].at \in Erasing
        BY <2>2, <4>1, IdleUpload DEF UploadSound
      <4> QED BY <1>1, <3>1, <4>1, <4>2 DEF UploadSound, Uploading, Erasing
    <3> QED BY <3>1, <3>2 DEF FileSound
  <2>3. CASE g \notin children
    BY <1>1, <1>2, <2>1, <2>3, OtherFile DEF Original, Thumbnail
  <2> QED BY <2>2, <2>3
<1>5. FilesTyped'
  BY <1>1, <1>2 DEF FilesInv, FilesTyped
<1>6. Files!Idle' = Files!Idle
  BY DEF Files!Idle, Files!NoFile
<1> QED BY <1>1, <1>3, <1>4, <1>5, <1>6 DEF FilesInv

LEMMA FilesInit == Files!Init => FilesInv
<1> SUFFICES ASSUME Files!Init
             PROVE  FilesInv
  OBVIOUS
<1>1. /\ parents = Parent /\ stored = [f \in File |-> Files!NoFile] /\ objects = {}
      /\ upload = [q \in Upload |-> Files!Idle] /\ erased = {} /\ stray = {}
  BY DEF Files!Init
<1>2. FilesTyped
  BY <1>1, IdleUpload DEF FilesTyped
<1>3. ASSUME NEW f \in File
      PROVE  FileSound(f)
  BY <1>1, IdleUpload DEF FileSound, Bare, Original, Thumbnail
<1>4. QuotaKept
  <2>1. Files!Bytes = {}
    BY <1>1, IdleUpload DEF Files!Bytes, Files!Stored
  <2>2. \A q \in Upload : upload[q].at = "idle"
    BY <1>1, IdleUpload
  <2> QED BY <2>1, <2>2, FS_EmptySet, SizeNatural DEF QuotaKept, Holding
<1> QED BY <1>1, <1>2, <1>3, <1>4, IdleUpload DEF FilesInv

LEMMA FilesNext == FilesInv /\ (Files!Next \/ UNCHANGED fileVars) => FilesInv'
<1> SUFFICES ASSUME FilesInv, Files!Next \/ UNCHANGED fileVars
             PROVE  FilesInv'
  OBVIOUS
<1>1. CASE UNCHANGED fileVars
  BY <1>1 DEF fileVars, FilesInv, FilesTyped, FileSound, UploadSound, Complete, Within, Bare,
              Original, Thumbnail, QuotaKept, Files!Bytes, Files!Stored, Files!Idle, Files!NoFile
<1>2. ASSUME NEW q \in Upload, NEW f \in File, NEW parent \in Parent, NEW size \in Size,
             NEW thumbnail \in BOOLEAN, Files!BeginUpload(q, f, parent, size, thumbnail)
      PROVE  FilesInv'
  BY <1>2, BeginUploadStep
<1>3. ASSUME NEW q \in Upload, NEW f \in File, Files!BeginDelete(q, f)
      PROVE  FilesInv'
  BY <1>3, BeginDeleteStep
<1>4. ASSUME NEW q \in Upload,
             \/ Files!Lock(q) \/ Files!PutOriginal(q) \/ Files!PutThumbnail(q)
             \/ Files!PutFails(q) \/ Files!CommitUpload(q) \/ Files!CommitFails(q)
             \/ Files!CleanUp(q) \/ Files!EraseObjects(q) \/ Files!CommitDelete(q)
             \/ Files!Fail(q)
      PROVE  FilesInv'
  <2>1. upload[q].at # "idle"
    BY <1>4 DEF FilesInv, Files!Lock, Files!PutOriginal, Files!PutThumbnail, Files!PutFails,
                Files!CommitUpload, Files!CommitFails, Files!CleanUp, Files!EraseObjects,
                Files!CommitDelete, Files!Fail, Files!At
  <2>2. upload[q].file \in File /\ upload[q].row \in Files!Rows
    BY <2>1, Going
  <2> QED BY <1>4, <2>2, LockStep, PutOriginalStep, PutThumbnailStep, PutFailsStep,
             CommitUploadStep, CommitFailsStep, CleanUpStep, EraseObjectsStep,
             CommitDeleteStep, FailStep
<1>5. ASSUME NEW p \in Parent, Files!DeleteParent(p)
      PROVE  FilesInv'
  BY <1>5, DeleteParentStep
<1> QED BY <1>1, <1>2, <1>3, <1>4, <1>5 DEF Files!Next

-----------------------------------------------------------------------------
(* The whole.                                                              *)

\* A step of the whole is a step of one part and leaves the others alone.
LEMMA PartStep ==
    ASSUME [PartsNext]_partVars
    PROVE  /\ [Next]_vars
           /\ Timers!Next \/ UNCHANGED timerVars
           /\ Fields!Next \/ UNCHANGED fieldVars
           /\ Files!Next \/ UNCHANGED fileVars
<1>1. CASE UNCHANGED partVars
  BY <1>1 DEF partVars
<1>2. CASE ItemsStep
  BY <1>2 DEF ItemsStep
<1>3. CASE TimersStep
  BY <1>3 DEF TimersStep
<1>4. CASE FieldsStep
  BY <1>4 DEF FieldsStep
<1>5. CASE FilesStep
  BY <1>5 DEF FilesStep
<1> QED BY <1>1, <1>2, <1>3, <1>4, <1>5 DEF PartsNext

LEMMA ItemsOfParts == PartsSpec => Spec
<1>1. PartsInit => Init
  BY DEF PartsInit
<1>2. [PartsNext]_partVars => [Next]_vars
  BY PartStep
<1> QED BY <1>1, <1>2, PTL DEF PartsSpec, Spec

\* Whatever overlaps, a converted subtask is gone and, unless its conversion
\* raced, became one task; task numbers have no gap (convert_subtask).
THEOREM ItemsStayConsistent == PartsSpec => []ItemsConsistent
BY ItemsOfParts, ItemsAlone

\* Subtasks and checklist items keep ItemContract: a patch replaces only a row
\* that its client has seen, and what was removed stays away.
THEOREM Implements == PartsSpec => ImplementsContract
BY ItemsOfParts, ContractAlone

\* A person has one running timer, and an entry is stopped twice only when the
\* requests overlapped; a custom field value belongs to a field that is there
\* and is one the field allows, unless the options changed since it was
\* validated (task_productivity.py).
THEOREM ProductivityStays == PartsSpec => []ProductivityConsistent
<1> DEFINE Both == TimersInv /\ FieldsInv
<1>1. PartsInit => Both
  BY TimersInit, FieldsInit DEF PartsInit
<1>2. Both /\ [PartsNext]_partVars => Both'
  BY PartStep, TimersNext, FieldsNext
<1>3. Both => ProductivityConsistent
  BY TimersHold, FieldsHold DEF ProductivityConsistent
<1> QED BY <1>1, <1>2, <1>3, PTL DEF PartsSpec

\* Uploads that overlap do not exceed the quota together, a row has its objects
\* unless a deletion has begun to erase them or a commit raised although it was
\* done, and an object has a row or a request that goes on with it, unless the
\* store failed, the request died or its parent was deleted (attachments.py).
THEOREM AttachmentsStay == PartsSpec => []AttachmentsConsistent
<1>1. PartsInit => FilesInv
  BY FilesInit DEF PartsInit
<1>2. FilesInv /\ [PartsNext]_partVars => FilesInv'
  BY PartStep, FilesNext
<1>3. FilesInv => AttachmentsConsistent
  BY FilesHold DEF AttachmentsConsistent
<1> QED BY <1>1, <1>2, <1>3, PTL DEF PartsSpec
=============================================================================
