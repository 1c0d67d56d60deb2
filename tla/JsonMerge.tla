----------------------------- MODULE JsonMerge -----------------------------
(***************************************************************************)
(* The field-by-field three-way merge of two json objects against their    *)
(* common ancestor: merge_jsons in storage/jsondiff.py, for fields whose   *)
(* two new values are not both lists (those go through merge_lists).       *)
(*                                                                         *)
(* A json object is a function from Field to a value, Absent for a key the *)
(* object lacks.  Values are compared whole, as the code compares them:    *)
(* "only the outermost objects are considered".                            *)
(***************************************************************************)
CONSTANTS Field,    \* the keys a json object may have
          Value,    \* what a user can store under a key
          Absent,   \* a key that is not there
          Null      \* what dict.get returns for such a key: json's null

ASSUME AbsentAssumption == Absent \notin Value /\ Absent # Null

\* The object with no key, which Python takes for false.
EmptyJson == [k \in Field |-> Absent]

IsJson(j) == /\ DOMAIN j = Field
             /\ j = [k \in Field |-> j[k]]

\* JsonDiff: the operation that leads from base to new at key k.
Op(base, new, k) ==
  IF base[k] = Absent
  THEN IF new[k] = Absent THEN "NONE" ELSE "ADDED"
  ELSE IF new[k] = Absent THEN "REMOVED"
  ELSE IF new[k] = base[k] THEN "UNCHANGED" ELSE "CHANGED"

\* json.get(k): a missing key and a null cannot be told apart any more.
Get(json, k) == IF json[k] = Absent THEN Null ELSE json[k]

EqVals(mine, other, k) == Get(mine, k) = Get(other, k)

\* Mutant: the values are not compared when both sides changed the key.
FieldConflictOnAgreement(base, mine, other, k) ==
  LET mineOp == Op(base, mine, k)
      otherOp == Op(base, other, k)
  IN \/ mineOp = "ADDED"   /\ otherOp = "ADDED"
     \/ mineOp = "REMOVED" /\ otherOp = "CHANGED"
     \/ mineOp = "CHANGED" /\ otherOp # "UNCHANGED"

\* Mutant: a key one side removes and the other changes goes by the removal.
FieldConflictDropsChange(base, mine, other, k) ==
  LET mineOp == Op(base, mine, k)
      otherOp == Op(base, other, k)
  IN \/ mineOp = "ADDED"   /\ otherOp = "ADDED"     /\ ~EqVals(mine, other, k)
     \/ mineOp = "CHANGED" /\ otherOp # "UNCHANGED" /\ ~EqVals(mine, other, k)

\* resolve_json: the pairs of operations it cannot resolve.
FieldConflict(base, mine, other, k) ==
  LET mineOp == Op(base, mine, k)
      otherOp == Op(base, other, k)
  IN \/ mineOp = "ADDED"   /\ otherOp = "ADDED"     /\ ~EqVals(mine, other, k)
     \/ mineOp = "REMOVED" /\ otherOp = "CHANGED"
     \/ mineOp = "CHANGED" /\ otherOp # "UNCHANGED" /\ ~EqVals(mine, other, k)

\* The __CONFLICT object that takes the place of the value.
Marker(base, mine, other, k) ==
  [base_val |-> Get(base, k), my_val |-> Get(mine, k), other_val |-> Get(other, k)]

\* What is neither absent nor something a user stored is a __CONFLICT object.
IsMarker(v) == v \notin Value \cup {Absent, Null}

HasMarker(json) == \E k \in Field : IsMarker(json[k])

\* Mutant: an untouched key keeps its old value instead of the other side's.
MergeFieldKeepsBase(base, mine, other, k) ==
  CASE FieldConflict(base, mine, other, k)       -> Marker(base, mine, other, k)
    [] Op(base, mine, k) \in {"NONE","UNCHANGED"} -> base[k]
    [] OTHER                                      -> mine[k]

\* resolve_json for one key: mine wins what it touched, other the rest.
MergeField(base, mine, other, k) ==
  CASE FieldConflict(base, mine, other, k)       -> Marker(base, mine, other, k)
    [] Op(base, mine, k) \in {"NONE","UNCHANGED"} -> other[k]
    [] OTHER                                      -> mine[k]

\* merge_jsons: the merged object, and whether the merge had a conflict.
Merged(base, mine, other) ==
  [k \in Field |-> MergeField(base, mine, other, k)]

\* Mutant: a conflict with a key of mine that is gone is not reported.
HadConflictInWhatIsLeft(base, mine, other) ==
  \E k \in Field : mine[k] # Absent /\ FieldConflict(base, mine, other, k)

HadConflict(base, mine, other) ==
  \E k \in Field : FieldConflict(base, mine, other, k)
============================================================================
