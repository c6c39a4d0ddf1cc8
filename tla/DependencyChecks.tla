-------------------------- MODULE DependencyChecks --------------------------
(***************************************************************************)
(* The requests of Dependencies and the search that decides their check.   *)
(*                                                                         *)
(* The search works in memory on the edges the request has read and has no *)
(* await, so it and the requests share no step: a behaviour is one of the  *)
(* requests, whose check is WouldCreateCycle, or one search of a graph,    *)
(* which has to answer like WouldCreateCycle.                              *)
(***************************************************************************)
EXTENDS Dependencies

CONSTANT
    Node            \* the tasks of the graphs that are searched; a project has
                    \* finitely many

ASSUME NodeAssumption == IsFiniteSet(Node) /\ Nobody \notin Node

VARIABLES
    part,                                           \* "requests" or "search"
    graph, blocker, blocked, stack, seen, result    \* of CycleSearch

searchVars == <<graph, blocker, blocked, stack, seen, result>>
checksVars == <<part, vars, searchVars>>

Search == INSTANCE CycleSearch WITH edges <- graph

NoSearch == /\ graph = {} /\ blocker = Nobody /\ blocked = Nobody
            /\ stack = <<>> /\ seen = {} /\ result = "none"

ChecksInit == /\ Init
              /\ \/ part = "requests" /\ NoSearch
                 \/ part = "search" /\ Search!Init

RequestsStep == part = "requests" /\ Next /\ UNCHANGED <<part, searchVars>>
SearchStep == part = "search" /\ Search!Next /\ UNCHANGED <<part, vars>>

ChecksNext == RequestsStep \/ SearchStep

\* A Python loop runs to its end.
ChecksSpec == ChecksInit /\ [][ChecksNext]_checksVars /\ WF_checksVars(SearchStep)

-----------------------------------------------------------------------------
\* The search answers what WouldCreateCycle says, for every graph, with circles
\* and self-edges, and in whatever order its sets are iterated.
ResultCorrect == Search!ResultCorrect

\* Every search ends, also on graphs that have a circle.
Terminates == Search!Terminates
=============================================================================
