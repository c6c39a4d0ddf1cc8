---------------------------- MODULE MCWorkspaces ----------------------------
(* Model values, symmetry and bounds for the run of Workspaces.            *)
EXTENDS Workspaces, TLC

CONSTANTS u1, u2, u3, i1, i2, q1, q2, w1, w2

WorkspaceSymmetry == Permutations(User) \cup Permutations(Invitation)
                     \cup Permutations(Request)

\* Bounds: what follows the first write that splits the ownership, and two
\* requests in progress after a second email.
BeforeSplit == ~split
FirstEmails == \/ \A i \in Invitation : delivery[i].attempts <= 1
               \/ \E q \in Request : request[q] = Idle
=============================================================================
