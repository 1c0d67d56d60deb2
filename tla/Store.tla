------------------------------- MODULE Store -------------------------------
(***************************************************************************)
(* What the object-relational mapping promises to a request that works on  *)
(* the schemas and fields of a project: the request sees its own edits,    *)
(* and what is saved are the fields of the models it said to save, neither *)
(* more nor less.                                                          *)
(***************************************************************************)
CONSTANTS Project, Schema, Field, Value

VARIABLES saved, \* model -> its owner, name and auto_created, as stored
          seen   \* the same, as the request sees it

vars == <<saved, seen>>

Model == Schema \cup Field
Data == [owner : Schema \cup {Project}, name : Value, auto : BOOLEAN]

Members(d, o) == {m \in DOMAIN d : d[m].owner = o}
OwnersIn(d) == {Project} \cup (Schema \cap DOMAIN d)
With(d, m, x) == [n \in DOMAIN d \cup {m} |-> IF n = m THEN x ELSE d[n]]

Init == saved = <<>> /\ seen = <<>>

\* A request begins, or gives up: edits that were not saved are gone.
Begin == UNCHANGED saved /\ seen' = saved

Assign(m, v) == /\ UNCHANGED saved
                /\ seen' = [seen EXCEPT ![m].name = v]

Create(m) == \E data \in Data : /\ data.owner \in OwnersIn(seen)
                               /\ saved' = With(saved, m, data)
                               /\ seen' = With(seen, m, data)

Save(m) == saved' = [saved EXCEPT ![m] = seen[m]] /\ UNCHANGED seen

\* Saves this and no other edit.
ClearAuto(m) == /\ saved' = [saved EXCEPT ![m].auto = FALSE]
                /\ seen' = [seen EXCEPT ![m].auto = FALSE]

\* A schema goes with its fields.
Delete(m) ==
  LET Without(d) == [n \in DOMAIN d \ ({m} \cup Members(d, m)) |-> d[n]]
  IN saved' = Without(saved) /\ seen' = Without(seen)

Next == \/ Begin
        \/ \E m \in DOMAIN seen :
             \/ Save(m) \/ ClearAuto(m) \/ Delete(m)
             \/ \E v \in Value : Assign(m, v)
        \/ \E m \in Model \ DOMAIN seen : Create(m)

Spec == Init /\ [][Next]_vars
=============================================================================
