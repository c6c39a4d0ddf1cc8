----------------------------- MODULE CustomFields ----------------------------
(***************************************************************************)
(* Custom fields of a workspace and their values on its tasks              *)
(* (backend/app/api/routes/task_productivity.py).                          *)
(*                                                                         *)
(* No route takes a lock: a request reads and checks (the Begins), then    *)
(* writes by id (the Commits).  A value refers to its field and is unique  *)
(* for a field and a task; an UPDATE of a row that is gone fails.  Names   *)
(* of fields are left out.                                                 *)
(***************************************************************************)
EXTENDS Naturals, FiniteSets

CONSTANTS
    Field, Choice,      \* custom fields, and the values a user may give
    Work,               \* the tasks
    Setter,             \* requests that may be in progress together
    Nothing             \* no field, task or value

VARIABLES
    field,      \* field[f]: the row of custom_fields
    value,      \* value[f][w]: the row of custom_field_values
    setter      \* setter[q]: the request q, between its two steps

vars == <<field, value, setter>>

Maybe(S) == S \cup {Nothing}

\* options are the values the type and the options of the field allow.
NoField == [state |-> "none", options |-> {}, required |-> FALSE]

\* late: options of the field were changed after the value was validated.
NoValue == [value |-> Nothing, late |-> FALSE]

Idle == [kind |-> "none", field |-> Nothing, work |-> Nothing, value |-> Nothing,
         found |-> "none", late |-> FALSE]

Kinds == {"set", "patch", "remove"}

(* The type of the state.  found: whether the request has found the row of *)
(* a value, and that this row has been lost since.                         *)
TypeOK ==
    /\ field \in [Field -> [state: {"none", "here", "gone"}, options: SUBSET Choice,
                            required: BOOLEAN]]
    /\ value \in [Field -> [Work -> [value: Maybe(Choice), late: BOOLEAN]]]
    /\ setter \in [Setter -> [kind: Kinds \cup {"none"}, field: Maybe(Field),
                              work: Maybe(Work), value: Maybe(Choice),
                              found: {"none", "row", "lost"}, late: BOOLEAN]]

Init == /\ field = [f \in Field |-> NoField]
        /\ value = [f \in Field |-> [w \in Work |-> NoValue]]
        /\ setter = [q \in Setter |-> Idle]

Here(f) == field[f].state = "here"
Has(f, w) == value[f][w] # NoValue

Done(q) == setter' = [setter EXCEPT ![q] = Idle]

\* The request q ends; the values of f on the tasks W are deleted.
DoneWithout(q, f, W) == setter' = [r \in Setter |->
    IF r = q THEN Idle
    ELSE IF setter[r].field = f /\ setter[r].work \in W /\ setter[r].found = "row"
         THEN [setter[r] EXCEPT !.found = "lost"] ELSE setter[r]]

-----------------------------------------------------------------------------
CreateField(f, options, required) ==
    /\ field[f].state = "none"
    /\ field' = [field EXCEPT ![f] = [state |-> "here", options |-> options,
                                      required |-> required]]
    /\ UNCHANGED <<value, setter>>

\* _validate_custom_field_value.
Valid(f, v) == IF v = Nothing THEN ~field[f].required ELSE v \in field[f].options

\* set_task_custom_field has read the field, validated and read the value.
BeginSet(q, f, w, v) ==
    /\ setter[q] = Idle /\ Here(f) /\ Valid(f, v)
    /\ setter' = [setter EXCEPT ![q] =
         [kind |-> "set", field |-> f, work |-> w, value |-> v,
          found |-> IF Has(f, w) THEN "row" ELSE "none", late |-> FALSE]]
    /\ UNCHANGED <<field, value>>

BeginField(q, kind, f) ==
    /\ setter[q] = Idle /\ kind \in {"patch", "remove"} /\ Here(f)
    /\ setter' = [setter EXCEPT ![q] = [Idle EXCEPT !.kind = kind, !.field = f]]
    /\ UNCHANGED <<field, value>>

\* The foreign key of a value.
FieldHere(f) == Here(f)

\* An INSERT needs the field and no other value, an UPDATE its row.
CommitSet(q) ==
    LET f == setter[q].field
        w == setter[q].work
    IN  /\ setter[q].kind = "set" /\ setter[q].value # Nothing
        /\ setter[q].found # "lost"
        /\ setter[q].found = "none" => ~Has(f, w) /\ FieldHere(f)
        /\ value' = [value EXCEPT ![f][w] = [value |-> setter[q].value, late |-> setter[q].late]]
        /\ Done(q) /\ UNCHANGED field

\* An empty value: a DELETE of the row it found, which may be gone.
CommitClear(q) ==
    LET f == setter[q].field
        w == setter[q].work
        deleted == setter[q].found = "row"
    IN  /\ setter[q].kind = "set" /\ setter[q].value = Nothing
        /\ value' = IF deleted THEN [value EXCEPT ![f][w] = NoValue] ELSE value
        /\ DoneWithout(q, f, IF deleted THEN {w} ELSE {}) /\ UNCHANGED field

\* patch_custom_field writes the options it was sent and leaves the values.
CommitPatch(q, options, required) ==
    LET f == setter[q].field
        revised == options # field[f].options
    IN  /\ setter[q].kind = "patch" /\ Here(f)
        /\ field' = [field EXCEPT ![f] = [@ EXCEPT !.options = options, !.required = required]]
        /\ value' = [value EXCEPT ![f] = [w \in Work |->
             IF revised /\ Has(f, w) THEN [value[f][w] EXCEPT !.late = TRUE] ELSE value[f][w]]]
        /\ setter' = [r \in Setter |->
             IF r = q THEN Idle
             ELSE IF revised /\ setter[r].kind = "set" /\ setter[r].field = f
                  THEN [setter[r] EXCEPT !.late = TRUE] ELSE setter[r]]

\* The values go with their field.
Cascade(f) == [value EXCEPT ![f] = [w \in Work |-> NoValue]]

CommitRemove(q) ==
    LET f == setter[q].field
    IN  /\ setter[q].kind = "remove"
        /\ field' = [field EXCEPT ![f] = [NoField EXCEPT !.state = "gone"]]
        /\ value' = Cascade(f)
        /\ DoneWithout(q, f, Work)

\* An error return, a refused write or a crash.
Fail(q) == setter[q] # Idle /\ Done(q) /\ UNCHANGED <<field, value>>

OptionSets == SUBSET Choice \ {{}}

Next == \/ \E q \in Setter :
              \/ \E f \in Field : \/ \E kind \in Kinds : BeginField(q, kind, f)
                                  \/ \E w \in Work, v \in Maybe(Choice) : BeginSet(q, f, w, v)
              \/ \E options \in OptionSets, required \in BOOLEAN : CommitPatch(q, options, required)
              \/ CommitSet(q) \/ CommitClear(q) \/ CommitRemove(q) \/ Fail(q)
        \/ \E f \in Field, options \in OptionSets, required \in BOOLEAN :
              CreateField(f, options, required)

Spec == Init /\ [][Next]_vars

-----------------------------------------------------------------------------
(* What the code promises.                                                 *)

(* A value belongs to a field that exists, whatever a deletion of the      *)
(* field overlaps (set_task_custom_field, delete_custom_field).            *)
ValuesHaveFields ==
    \A f \in Field, w \in Work : Has(f, w) => Here(f)

(* A value is one its field allows, unless the options were changed since  *)
(* it was validated: patch_custom_field leaves the values as they are.     *)
ValuesAllowed ==
    \A f \in Field, w \in Work :
        Has(f, w) /\ ~value[f][w].late => value[f][w].value \in field[f].options

(* Custom fields are consistent: the two above, and the type.              *)
FieldsConsistent == TypeOK /\ ValuesHaveFields /\ ValuesAllowed
=============================================================================
