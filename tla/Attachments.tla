----------------------------- MODULE Attachments ----------------------------
(***************************************************************************)
(* Attachments of one workspace: rows in the database and objects in the   *)
(* object store (backend/app/api/routes/attachments.py, storage.py).       *)
(*                                                                         *)
(* The two are written one after the other.  An upload locks the row of    *)
(* the workspace, checks the quota, puts its objects and then commits the  *)
(* row; a deletion erases the objects and then commits.  The store may     *)
(* fail, do part of what it was asked, or do it and lose the answer; so    *)
(* may a commit; a request may die between any two steps.                  *)
(***************************************************************************)
EXTENDS Naturals, FiniteSets

CONSTANTS
    File,           \* the attachments there may be
    Parent,         \* the tasks, comments and projects they are attached to
    Size,           \* sizes of a file
    Quota,          \* storage_workspace_quota_bytes
    Upload,         \* requests that may be in progress together
    Nothing         \* no file, no parent

VARIABLES
    parents,    \* the parents that exist
    stored,     \* stored[f]: the row of f
    objects,    \* objects in the store
    upload,     \* upload[q]: the request q, between two of its steps
    erased,     \* history: files that had a row when objects of theirs were erased
    stray       \* history: files that may have left objects behind

vars == <<parents, stored, objects, upload, erased, stray>>

NoFile == [state |-> "none", parent |-> Nothing, size |-> 0, thumbnail |-> FALSE]
Idle == [at |-> "idle", file |-> Nothing, row |-> NoFile]

Keys(f, row) == {<<f, "original">>} \cup (IF row.thumbnail THEN {<<f, "thumbnail">>} ELSE {})

Rows == [state: {"none", "stored", "gone"}, parent: Parent \cup {Nothing},
         size: Size \cup {0}, thumbnail: BOOLEAN]

TypeOK ==
    /\ parents \subseteq Parent
    /\ stored \in [File -> Rows]
    /\ objects \subseteq File \X {"original", "thumbnail"}
    /\ upload \in [Upload -> [at: {"idle", "read", "locked", "put", "ready", "failed",
                                   "undone", "unheard", "erase", "erased"},
                              file: File \cup {Nothing}, row: Rows]]
    /\ erased \subseteq File /\ stray \subseteq File

Init == /\ parents = Parent
        /\ stored = [f \in File |-> NoFile]
        /\ objects = {}
        /\ upload = [q \in Upload |-> Idle]
        /\ erased = {}
        /\ stray = {}

Stored(f) == stored[f].state = "stored"

At(q, at) == upload[q].at = at
GoTo(q, at) == upload' = [upload EXCEPT ![q].at = at]
Done(q) == upload' = [upload EXCEPT ![q] = Idle]

-----------------------------------------------------------------------------
(* upload_attachment.                                                      *)

\* _resolve_entity finds the parent; the file gets an identity of its own.
BeginUpload(q, f, parent, size, thumbnail) ==
    /\ upload[q] = Idle
    /\ stored[f] = NoFile /\ f \notin stray /\ \A p \in Upload : upload[p].file # f
    /\ parent \in parents
    /\ upload' = [upload EXCEPT ![q] = [at |-> "read", file |-> f, row |->
         [state |-> "stored", parent |-> parent, size |-> size, thumbnail |-> thumbnail]]]
    /\ UNCHANGED <<parents, stored, objects, erased, stray>>

\* Fault: the workspace is read without FOR UPDATE.
LockedNever == FALSE

\* An upload holds the row of the workspace until its end.
Locked == \E q \in Upload : upload[q].at \in {"locked", "put", "ready", "failed"}

\* The sum of the sizes of the rows, as the number of the bytes they stand for.
Bytes == UNION {{f} \X (1..stored[f].size) : f \in {g \in File : Stored(g)}}
Used == Cardinality(Bytes)

\* The lock, and then the sum of the sizes.
Lock(q) == /\ At(q, "read") /\ ~Locked
           /\ Used + upload[q].row.size <= Quota
           /\ GoTo(q, "locked")
           /\ UNCHANGED <<parents, stored, objects, erased, stray>>

PutOriginal(q) ==
    /\ At(q, "locked")
    /\ objects' = objects \cup {<<upload[q].file, "original">>}
    /\ GoTo(q, IF upload[q].row.thumbnail THEN "put" ELSE "ready")
    /\ UNCHANGED <<parents, stored, erased, stray>>

PutThumbnail(q) ==
    /\ At(q, "put")
    /\ objects' = objects \cup {<<upload[q].file, "thumbnail">>}
    /\ GoTo(q, "ready")
    /\ UNCHANGED <<parents, stored, erased, stray>>

\* put_object raises; the object may be there all the same.
PutFails(q) ==
    /\ upload[q].at \in {"locked", "put"}
    /\ \E key \in SUBSET {<<upload[q].file, IF At(q, "put") THEN "thumbnail" ELSE "original">>} :
          objects' = objects \cup key
    /\ GoTo(q, "failed")
    /\ UNCHANGED <<parents, stored, erased, stray>>

\* The commit may raise although the database has done it: the row is there,
\* and the clean-up comes next.
CommitUpload(q) ==
    /\ At(q, "ready") /\ upload[q].row.parent \in parents
    /\ stored' = [stored EXCEPT ![upload[q].file] = upload[q].row]
    /\ Done(q) \/ GoTo(q, "unheard")
    /\ UNCHANGED <<parents, objects, erased, stray>>

\* The foreign key, or any other error of the commit; the lock is released.
CommitFails(q) == /\ At(q, "ready") /\ GoTo(q, "undone")
                  /\ UNCHANGED <<parents, stored, objects, erased, stray>>

\* What the store leaves of the keys it was asked to delete: the request may
\* fail, and delete_objects reports a key it could not delete without raising.
Remain(q, left) == left

Erase(q) == \E left \in SUBSET Keys(upload[q].file, upload[q].row) :
    /\ objects' = objects \ (Keys(upload[q].file, upload[q].row) \ Remain(q, left))
    /\ stray' = IF left # {} THEN stray \cup {upload[q].file} ELSE stray

CleanUp(q) == /\ upload[q].at \in {"failed", "undone"} /\ Erase(q)
              /\ Done(q) /\ UNCHANGED <<parents, stored, erased>>

-----------------------------------------------------------------------------
(* delete_attachment.                                                      *)

BeginDelete(q, f) ==
    /\ upload[q] = Idle /\ Stored(f)
    /\ upload' = [upload EXCEPT ![q] = [at |-> "erase", file |-> f, row |-> stored[f]]]
    /\ UNCHANGED <<parents, stored, objects, erased, stray>>

\* delete_keys of a file that has a row; with an exception the request ends,
\* and so it does when it is an upload that cleans up.
EraseObjects(q) ==
    /\ upload[q].at \in {"erase", "unheard"} /\ Erase(q)
    /\ erased' = erased \cup {upload[q].file}
    /\ (At(q, "erase") /\ GoTo(q, "erased")) \/ Done(q)
    /\ UNCHANGED <<parents, stored>>

Remove(F) == stored' = [f \in File |-> IF f \in F /\ Stored(f)
                                       THEN [NoFile EXCEPT !.state = "gone"] ELSE stored[f]]

CommitDelete(q) == /\ At(q, "erased") /\ Remove({upload[q].file})
                   /\ Done(q) /\ UNCHANGED <<parents, objects, erased, stray>>

-----------------------------------------------------------------------------
\* A comment is deleted: the rows go with it, nobody erases their objects.
DeleteParent(p) ==
    LET children == {f \in File : Stored(f) /\ stored[f].parent = p} IN
    /\ p \in parents
    /\ parents' = parents \ {p}
    /\ Remove(children)
    /\ stray' = stray \cup children
    /\ UNCHANGED <<objects, upload, erased>>

\* A refusal (413, 415, 503) before anything is written, or a crash.
Fail(q) == /\ upload[q] # Idle /\ Done(q)
           /\ stray' = IF upload[q].at \in {"put", "ready", "failed", "undone"}
                       THEN stray \cup {upload[q].file} ELSE stray
           /\ UNCHANGED <<parents, stored, objects, erased>>

Next == \/ \E q \in Upload :
              \/ \E f \in File, p \in Parent, size \in Size, thumbnail \in BOOLEAN :
                    BeginUpload(q, f, p, size, thumbnail)
              \/ \E f \in File : BeginDelete(q, f)
              \/ Lock(q) \/ PutOriginal(q) \/ PutThumbnail(q) \/ PutFails(q)
              \/ CommitUpload(q) \/ CommitFails(q) \/ CleanUp(q)
              \/ EraseObjects(q) \/ CommitDelete(q) \/ Fail(q)
        \/ \E p \in Parent : DeleteParent(p)

Spec == Init /\ [][Next]_vars

-----------------------------------------------------------------------------
(* What the code promises.                                                 *)

(* Uploads that overlap do not exceed the quota together: the workspace is *)
(* locked from the sum to the commit (upload_attachment).                  *)
QuotaHolds == Used <= Quota

(* A row has its objects, unless a deletion has begun to erase them or the *)
(* commit of the upload raised although it was done: no clean-up takes     *)
(* those of another file, no row is committed before them.                 *)
RowsBacked == \A f \in File : Stored(f) /\ f \notin erased => Keys(f, stored[f]) \subseteq objects

(* An object belongs to a row or to a request that goes on with it, unless *)
(* the store failed to erase it, a request died, or its parent was deleted.*)
ObjectsOwned ==
    \A object \in objects : LET f == object[1] IN
        f \in stray \/ Stored(f) \/ \E q \in Upload : upload[q].file = f

(* Rows, objects and the quota are consistent: the three above, and the    *)
(* type.                                                                   *)
AttachmentsConsistent == TypeOK /\ QuotaHolds /\ RowsBacked /\ ObjectsOwned
=============================================================================
