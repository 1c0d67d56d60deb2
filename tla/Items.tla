------------------------------- MODULE Items -------------------------------
(***************************************************************************)
(* What is extracted from a page becomes items (ItemProcessor in           *)
(* scrapely_annotations/processors.py, ContainerExtractor in               *)
(* extraction/container_extractors.py, SlybotIBLExtractor in               *)
(* extraction/extractors.py).                                              *)
(*                                                                         *)
(* A container of a sample has the annotations that belong to it directly  *)
(* and the containers in it; nested ones have a name.  What a page gives   *)
(* for an annotation is a set of values; those its field's type can        *)
(* process are GoodValue.  Names are numbers in the order of their letters,*)
(* 0 being no name.                                                        *)
(*   container: [name, schema, annotations: id -> annotation, nested: seq] *)
(*   annotation, field: [of, required, values]                             *)
(*   item: [name, schema, fields: id -> field, nested: name -> item]       *)
(*   exported: [type, fields: name -> values, nested: name -> exported]    *)
(***************************************************************************)
EXTENDS Integers, SequencesExt

CONSTANTS NoItem,        \* the empty dictionary
          GoodValue,     \* the values that survive type and extractors
          Schema,        \* the item types
          Required       \* their required fields

None == 0

-----------------------------------------------------------------------------
(* Merging what the extractors of a container found                        *)

\* An item made of one field only, which is the field it is named for, is a
\* repeated field.
IsRepeatedField(item) ==
  /\ Cardinality(DOMAIN item.fields) = 1 /\ item.nested = <<>>
  /\ \A id \in DOMAIN item.fields : item.fields[id].of = item.name

\* Mutant: the item found last is the only one inside.
AddItemAlone(item, other) ==
  IF IsRepeatedField(other)
  THEN [item EXCEPT !.fields = other.fields @@ @]
  ELSE [item EXCEPT !.nested = other.name :> other]

AddItem(item, other) ==
  IF IsRepeatedField(other)
  THEN [item EXCEPT !.fields = other.fields @@ @]
  ELSE [item EXCEPT !.nested = (other.name :> other) @@ @]

Merge(item, other) ==
  LET Both(id) ==
        [item.fields[id] EXCEPT !.values = @ \cup other.fields[id].values]
      shared == DOMAIN item.fields \cap DOMAIN other.fields
  IN  IF other.name # None THEN AddItem(item, other)
      ELSE [item EXCEPT !.fields = [id \in shared |-> Both(id)] @@ @ @@ other.fields]

\* Sorting by name is stable and puts items without a name first.
ByName(items) ==
  LET names == {items[i].name : i \in DOMAIN items}
      Named(n) == SelectSeq(items, LAMBDA item : item.name = n)
  IN  FlattenSeq([i \in 1..Cardinality(names) |-> Named(SetToSortSeq(names, <)[i])])

MergeItems(items) ==
  LET found == SelectSeq(items, LAMBDA i : i # NoItem
                                   /\ (DOMAIN i.fields # {} \/ DOMAIN i.nested # {}))
      sorted == ByName(found)
  IN  IF found = <<>> THEN NoItem ELSE FoldLeft(Merge, Head(sorted), Tail(sorted))

Found(container) ==
  {id \in DOMAIN container.annotations : container.annotations[id].values # {}}
Missing(container) ==
  {id \in DOMAIN container.annotations \ Found(container) : container.annotations[id].required}

\* The containers inside come before the annotations.  A required annotation
\* without a value empties its container; nobody else notices.
RECURSIVE Extract(_)
Extract(container) ==
  LET record == [name |-> container.name, schema |-> container.schema, nested |-> <<>>,
                 fields |-> [id \in Found(container) |-> container.annotations[id]]]
      parts == [i \in DOMAIN container.nested |-> Extract(container.nested[i])]
  IN  IF Missing(container) # {} THEN NoItem ELSE MergeItems(Append(parts, record))

-----------------------------------------------------------------------------
(* Exporting an item                                                       *)

Processed(field) == field.values \cap GoodValue
MissingRequired(item) ==
  \E id \in DOMAIN item.fields : item.fields[id].required /\ Processed(item.fields[id]) = {}

\* Fields without a name guide the extraction only.
Fields(item) ==
  LET given == {id \in DOMAIN item.fields : /\ item.fields[id].of # None
                                            /\ Processed(item.fields[id]) # {}}
  IN  [name \in {item.fields[id].of : id \in given} |->
         UNION {Processed(item.fields[id]) : id \in {g \in given : item.fields[g].of = name}}]

\* _validate: the keys of an item inside count as the item's own, its _type
\* among them, and a _type says that the item has been checked before.
Valid(exported, schema) ==
  \/ exported.nested # <<>>
  \/ /\ exported.fields # <<>>
     /\ Required[schema] \subseteq DOMAIN exported.fields

\* Only the item of the page is discarded if it is not valid: a nested item
\* that is not is written as it is, unless an annotation of it is missing.
RECURSIVE Dump(_)
Dump(item) ==
  LET nested == [n \in DOMAIN item.nested |-> Dump(item.nested[n])]
  IN  IF MissingRequired(item) THEN NoItem
      ELSE [type |-> item.schema, fields |-> Fields(item),
            nested |-> [n \in {m \in DOMAIN nested : nested[m] # NoItem} |-> nested[n]]]

Process(item) ==
  IF item = NoItem THEN NoItem
  ELSE LET exported == Dump(item)
       IN  IF exported # NoItem /\ Valid(exported, item.schema) THEN exported ELSE NoItem

-----------------------------------------------------------------------------
(* Samples with more annotations are tried first, one that is preferred     *)
(* before all; the first that gives an item is used.                       *)

ExtractPage(containers) ==
  SelectSeq([i \in DOMAIN containers |-> Process(Extract(containers[i]))],
            LAMBDA item : item # NoItem)

FirstOf(samples) ==
  LET results == [i \in DOMAIN samples |-> ExtractPage(samples[i])]
      used == {i \in DOMAIN samples : results[i] # <<>>}
  IN  IF used = {} THEN <<>> ELSE results[CHOOSE i \in used : \A j \in used : i <= j]
=============================================================================
