------------------------------- MODULE Outbox -------------------------------
(***************************************************************************)
(* What an offline queue promises: the changes a user could not send wait  *)
(* in the order they were made, each until the server confirmed it or the  *)
(* user discarded it.  OfflineQueue implements it until a call writes a    *)
(* list that another call has overtaken.                                   *)
(***************************************************************************)
EXTENDS Sequences, Naturals

CONSTANTS User, Mutation

VARIABLES
    outbox,     \* outbox[u]: the changes of u that wait, oldest first
    settled     \* the changes that were confirmed or discarded

vars == <<outbox, settled>>

Members(list) == {list[i] : i \in DOMAIN list}

Init == /\ outbox = [u \in User |-> <<>>]
        /\ settled = {}

\* A change is put at the end, once.
Put(u, m) == /\ \A v \in User : m \notin Members(outbox[v])
             /\ outbox' = [outbox EXCEPT ![u] = Append(@, m)]
             /\ UNCHANGED settled

Settle(m) == settled' = settled \cup {m}

\* What is left of old stands in its order.
InOrder(new, old) ==
    \A i, j \in DOMAIN new, k, l \in DOMAIN old :
        new[i] = old[k] /\ new[j] = old[l] /\ i < j => k < l

\* Some settled changes leave; the others stay, in order.
Clear(u) == LET list == outbox'[u] IN
            /\ list \in Seq(Members(outbox[u]))
            /\ Members(outbox[u]) \ Members(list) \subseteq settled
            /\ InOrder(list, outbox[u])
            /\ outbox' = [outbox EXCEPT ![u] = list]
            /\ UNCHANGED settled

Next == \/ \E u \in User, m \in Mutation : Put(u, m)
        \/ \E m \in Mutation : Settle(m) /\ UNCHANGED outbox
        \/ \E u \in User : Clear(u)

Spec == Init /\ [][Next]_vars
=============================================================================
