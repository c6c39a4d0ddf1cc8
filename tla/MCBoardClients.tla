--------------------------- MODULE MCBoardClients ---------------------------
(* Model values for the run of BoardClients.                               *)
EXTENDS BoardClients

CONSTANTS t1, c1, b1, k1, k2, x1, e1

\* To the board a patch is one more way to make a new version.
Lifecycle == {"move", "archive", "restore"}
=============================================================================
