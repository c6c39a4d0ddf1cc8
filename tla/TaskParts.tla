------------------------------ MODULE TaskParts ------------------------------
(***************************************************************************)
(* The parts of a task: subtasks and checklist, time entries, custom field *)
(* values and attachments.                                                 *)
(*                                                                         *)
(* Their routes share no row, no lock and no object, so a behaviour of the *)
(* whole interleaves one behaviour of each part, and what the properties   *)
(* of a part say depends on its own steps only.  The specification lets    *)
(* one part move in every behaviour and explores each of them.             *)
(***************************************************************************)
EXTENDS TaskItems

CONSTANTS
    Entry, Person, Work, Call,          \* of TimeEntries
    Field, Choice, Setter,              \* of CustomFields
    File, Parent, Size, Quota, Upload,  \* of Attachments
    Nothing                             \* no row of any kind

ASSUME CallAssumption == IsFiniteSet(Call)
ASSUME SizeAssumption == Size \subseteq Nat \ {0} /\ Quota \in Nat
ASSUME NothingAssumption ==
    Nothing \notin Entry \cup Person \cup Work \cup Field \cup Choice \cup File \cup Parent

VARIABLES
    part,                                                   \* the part that moves
    tracking, entry, call, contested,
    field, value, setter,
    parents, stored, objects, upload, erased, stray

Timers == INSTANCE TimeEntries
Fields == INSTANCE CustomFields
Files == INSTANCE Attachments

timerVars == <<tracking, entry, call, contested>>
fieldVars == <<field, value, setter>>
fileVars == <<parents, stored, objects, upload, erased, stray>>
partVars == <<part, vars, timerVars, fieldVars, fileVars>>

PartsInit == /\ part \in {"items", "timers", "fields", "files"}
             /\ Init /\ Timers!Init /\ Fields!Init /\ Files!Init

ItemsStep == /\ part = "items" /\ Next
             /\ UNCHANGED <<part, timerVars, fieldVars, fileVars>>
TimersStep == /\ part = "timers" /\ Timers!Next
              /\ UNCHANGED <<part, vars, fieldVars, fileVars>>
FieldsStep == /\ part = "fields" /\ Fields!Next
              /\ UNCHANGED <<part, vars, timerVars, fileVars>>
FilesStep == /\ part = "files" /\ Files!Next
             /\ UNCHANGED <<part, vars, timerVars, fieldVars>>

PartsNext == ItemsStep \/ TimersStep \/ FieldsStep \/ FilesStep

PartsSpec == PartsInit /\ [][PartsNext]_partVars

-----------------------------------------------------------------------------
(* Timers and custom field values stay consistent: a user has one running  *)
(* timer and stops it once, a value belongs to a field and is one the      *)
(* field allowed (task_productivity.py).                                   *)
ProductivityConsistent == Timers!TimersConsistent /\ Fields!FieldsConsistent

(* Attachments stay within the quota, a row has its objects and an object  *)
(* its row (attachments.py).                                               *)
AttachmentsConsistent == Files!AttachmentsConsistent
=============================================================================
