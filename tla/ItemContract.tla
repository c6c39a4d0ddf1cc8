---------------------------- MODULE ItemContract ----------------------------
(***************************************************************************)
(* What the versions of subtasks and checklist items promise: a row is     *)
(* replaced by its next version in one step, by a client whose copy is the *)
(* row itself, or it is removed, once.  There are no requests here.        *)
(***************************************************************************)
EXTENDS Naturals

CONSTANTS Item, Client, Title,
          NoItem        \* no row, and no copy of one

Row == [version: Nat, title: Title]

VARIABLES
    items,      \* items[i]: the row of i, or NoItem
    removed,    \* the items that were deleted
    copies      \* copies[c][i]: what client c last saw of i, or NoItem

vars == <<items, removed, copies>>

NewItem(title) == [version |-> 1, title |-> title]

Init == /\ items = [i \in Item |-> NoItem]
        /\ removed = {}
        /\ copies = [c \in Client |-> [i \in Item |-> NoItem]]

Create(i, title) == /\ items[i] = NoItem /\ i \notin removed
                    /\ items' = [items EXCEPT ![i] = NewItem(title)]
                    /\ UNCHANGED <<removed, copies>>

See(c, i) == /\ items[i] # NoItem
             /\ copies' = [copies EXCEPT ![c][i] = items[i]]
             /\ UNCHANGED <<items, removed>>

\* Only who has seen the row as it is may replace it.
Write(c, i, title) ==
    /\ items[i] # NoItem /\ copies[c][i] = items[i]
    /\ items' = [items EXCEPT ![i] = [version |-> @.version + 1, title |-> title]]
    /\ UNCHANGED <<removed, copies>>

\* A checklist goes with its items.
Remove(I) == /\ I # {} /\ I \subseteq {i \in Item : items[i] # NoItem}
             /\ items' = [i \in Item |-> IF i \in I THEN NoItem ELSE items[i]]
             /\ removed' = removed \cup I
             /\ UNCHANGED copies

Next == \/ \E i \in Item, title \in Title :
              Create(i, title) \/ \E c \in Client : Write(c, i, title)
        \/ \E c \in Client, i \in Item : See(c, i)
        \/ \E I \in SUBSET Item : Remove(I)

Spec == Init /\ [][Next]_vars
=============================================================================
