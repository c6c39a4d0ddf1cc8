--------------------------- MODULE MCOfflineQueue ---------------------------
(* Model values, symmetry and bounds for the run of OfflineQueue.          *)
EXTENDS OfflineQueue, TLC

CONSTANTS u1, u2, m1, m2, s1, s2

QueueSymmetry == Permutations(Mutation) \cup Permutations(Slot) \cup Permutations(User)

\* Bounds: what follows a torn list, and changes the server has applied twice.
NotTorn == ~torn
AppliedOnce == \A m \in Mutation : applied[m] <= 1
=============================================================================
