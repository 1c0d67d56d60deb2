----------------------------- MODULE Collection -----------------------------
(***************************************************************************)
(* The list of related models (ModelCollection): a Python list, and beside *)
(* it a dictionary from the key of a model to its index, so that a model   *)
(* is found without a search.  The dictionary has an order of its own, is  *)
(* filled when it is needed, and is trusted while it is as long as the     *)
(* list.  Indices are from 1, and inside the list.                         *)
(***************************************************************************)
EXTENDS Naturals, Sequences, SequencesExt

CONSTANTS Model,
          Slices   \* may a part of a list be deleted, or only all of it?

VARIABLES list,    \* the models
          cache    \* the dictionary: a sequence of [key, index]

vars == <<list, cache>>

Init == list = <<>> /\ cache = <<>>

-----------------------------------------------------------------------------
(* The dictionary (OrderedIndexedTransformDict).                           *)

Entry(m, i) == [key |-> m, index |-> i]
Keys(c) == {e.key : e \in Range(c)}
IndexIn(c, m) == (CHOOSE e \in Range(c) : e.key = m).index

SetItem(c, m) == Append(c, Entry(m, Len(c) + 1))

\* Mutant: the models that follow keep their index.
PopOnly(c, m) == SelectSeq(c, LAMBDA e : e.key # m)

Pop(c, m) ==
  LET at == CHOOSE j \in DOMAIN c : c[j].key = m
      rest == RemoveAt(c, at)
      shifted(e) == IF e.index > c[at].index THEN Entry(e.key, e.index - 1) ELSE e
  IN  IF m \in Keys(c) THEN [j \in DOMAIN rest |-> shifted(rest[j])] ELSE c

\* The models after it move up, but in the dictionary it comes last.
InsertKey(c, i, m) ==
  LET shifted(e) == IF e.index >= i THEN Entry(e.key, e.index + 1) ELSE e
  IN  Append([j \in DOMAIN c |-> shifted(c[j])], Entry(m, i))

ReplaceKey(c, m, by) ==
  [j \in DOMAIN c |-> IF c[j].key = m THEN Entry(by, c[j].index) ELSE c[j]]

Without(s, i, j) == SubSeq(s, 1, i - 1) \o SubSeq(s, j + 1, Len(s))

\* The keys of a slice are taken in the order of the dictionary.
DelSlice(c, i, j) ==
  LET rest == Without(c, i, j) IN
  IF Len(c) <= j - i + 1 THEN <<>>
  ELSE [k \in DOMAIN rest |-> Entry(rest[k].key, k)]

Populated(l) == [i \in DOMAIN l |-> Entry(l[i], i)]

-----------------------------------------------------------------------------
(* Looking for a model fills the dictionary, when it is not found there    *)
(* and their lengths differ.  An integer is never found and always does.   *)

Ready == IF Len(cache) = Len(list) THEN cache ELSE Populated(list)
After(m) == IF m \in Keys(cache) THEN cache ELSE Ready

Has(m) == m \in Keys(After(m))

\* The index of m: of the dictionary, or else of the first equal model.
IndicesOf(m) == IF m \in Keys(After(m)) THEN {IndexIn(After(m), m)}
                ELSE {i \in DOMAIN list : list[i] = m}

-----------------------------------------------------------------------------
LookUp(m) == cache' = After(m) /\ UNCHANGED list

(* append, or add of a new model. *)
AppendModel(m) == /\ ~Has(m)
                  /\ list' = Append(list, m)
                  /\ cache' = SetItem(Ready, m)

InsertModel(i, m) == /\ ~Has(m)
                     /\ list' = InsertAt(list, i, m)
                     /\ cache' = InsertKey(Ready, i, m)

(* remove or discard: the list is searched, not the dictionary. *)
RemoveModel(m) == /\ m \in Range(list)
                  /\ list' = RemoveFirst(list, m)
                  /\ cache' = Pop(cache, m)

(* pop, by index or by key; or del of one model. *)
PopIndex(i) == /\ list' = RemoveAt(list, i)
               /\ cache' = Pop(Ready, list[i])

(* collection[i] = m: callers pass the same model, or a new one. *)
SetIndex(i, m) == /\ m \in {list[i]} \/ m \notin Range(list)
                  /\ list' = ReplaceAt(list, i, m)
                  /\ cache' = ReplaceKey(Ready, list[i], m)

DeleteSlice(i, j) == /\ list' = Without(list, i, j)
                     /\ cache' = DelSlice(cache, i, j)

(* clear *)
Clear == list' = <<>> /\ cache' = <<>>

(* owner.attribute = models: all are deleted and added again. *)
Assign(models) == /\ models # list
                  /\ list' = models
                  /\ cache' = Populated(models)

(* A copy with other snapshots starts without a dictionary. *)
WithSnapshots == cache' = <<>> /\ UNCHANGED list

Next ==
  \/ \E m \in Model : LookUp(m) \/ AppendModel(m) \/ RemoveModel(m)
  \/ \E i \in 1..Len(list) + 1, m \in Model : InsertModel(i, m)
  \/ \E i \in 1..Len(list) : PopIndex(i)
  \/ \E i \in 1..Len(list), m \in Model : SetIndex(i, m)
  \/ \E i \in 1..Len(list) + 1 : \E j \in i - 1..Len(list) :
       /\ Slices \/ (i = 1 /\ j = Len(list))
       /\ DeleteSlice(i, j)
  \/ \E models \in {s \in SeqOf(Model, 2) : IsInjective(s)} : Assign(models)
  \/ Clear
  \/ WithSnapshots

Spec == Init /\ [][Next]_vars

-----------------------------------------------------------------------------
(* A collection is "an mutable ordered set that can be indexed by the      *)
(* model's primary key" (its docstring): whatever has been done to it, and *)
(* though the dictionary may lag behind, every model is found where it is, *)
(* and no other model is found.                                            *)
IndexedByKey ==
  \A m \in Model : /\ Has(m) <=> m \in Range(list)
                   /\ IndicesOf(m) = {i \in DOMAIN list : list[i] = m}
=============================================================================
