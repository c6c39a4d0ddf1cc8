---------------------------- MODULE ProjectRows ----------------------------
(* What the board of a project and the dependencies of its tasks share.    *)

CONSTANTS
    Task,       \* the tasks of the project
    Nobody      \* no row
=============================================================================
