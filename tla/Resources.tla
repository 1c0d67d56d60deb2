----------------------------- MODULE Resources -----------------------------
(***************************************************************************)
(* The records of a project behind the json api: schemas and their fields, *)
(* samples, items and annotations, and what one request does to them.      *)
(*                                                                         *)
(* A schema or field made on behalf of an item or annotation is            *)
(* auto_created: it is deleted with its user.  Once a person edits it, or  *)
(* a second record uses it, it is kept (clear_auto_created).  A field that *)
(* annotations use, a schema that items use, is protected.  But protection *)
(* looks only at records that the request has loaded: those of one sample. *)
(*                                                                         *)
(* Only `BelongsTo' sides are variables, their `HasMany' sides follow. A   *)
(* request that is answered with an error changes nothing if its storage   *)
(* writes what was saved when the request commits (GitStorage).  FsStorage,*)
(* the default, writes each save at once: there what was saved before the  *)
(* error stays.  A refused deletion has saved nothing, an update may have. *)
(*                                                                         *)
(* Ids are chosen fresh among constants that bound the model; other        *)
(* attributes than a field's name are left out.  A server that stops in    *)
(* the middle of a request is left to SpiderFiles and WorkingTree.         *)
(***************************************************************************)
EXTENDS FiniteSets, Functions

CONSTANTS Schema, Field, Sample, Item, Annotation,
          Name,    \* of fields: annotations follow it to another schema
          Orders,  \* what Item._fields yields first: a dict has an order
                   \* of its own before Python 3.6
          Commits  \* TRUE: GitStorage; FALSE: FsStorage

ASSUME OrdersAssumption == Orders \subseteq {"annotations", "schema"}
ASSUME CommitsAssumption == Commits \in BOOLEAN

VARIABLES schema, field, sample, item, annotation,
          half   \* a change of schema was left half-made by a request that
                 \* failed: what later requests make of it is not modelled

vars == <<schema, field, sample, item, annotation, half>>

(* Items are nested in items of their own sample. *)
TypeOK ==
  /\ \E S \in SUBSET Schema :
       schema \in [S -> [auto : BOOLEAN, default : BOOLEAN]]
  /\ \E F \in SUBSET Field :
       field \in [F -> [schema : Schema, name : Name, auto : BOOLEAN]]
  /\ sample \subseteq Sample
  /\ \E I \in SUBSET Item :
       /\ item \in [I -> [sample : sample, within : SUBSET I, schema : Schema]]
       /\ \A i \in I : /\ i \in item[i].within
                     /\ \A j \in item[i].within :
                          /\ item[j].sample = item[i].sample
                          /\ item[j].within \subseteq item[i].within
  /\ \E A \in SUBSET Annotation :
       annotation \in [A -> [item : Item, field : Field]]
  /\ half \in BOOLEAN

Init == /\ schema = <<>> /\ field = <<>> /\ sample = {}
        /\ item = <<>> /\ annotation = <<>> /\ half = FALSE

----------------------------------------------------------------------------
Without(f, S) == Restrict(f, DOMAIN f \ S)
With(f, r, v) == [x \in DOMAIN f \cup {r} |-> IF x = r THEN v ELSE f[x]]

(* Mutant: items are looked for in samples, not inside other items. *)
ItemsNotNested(s) ==
  {i \in DOMAIN item : item[i].schema = s /\ item[i].within = {i}}

ItemsOf(s) == {i \in DOMAIN item : item[i].schema = s}
FieldsOf(s) == {f \in DOMAIN field : field[f].schema = s}

(* Mutant: the samples are not loaded, so no annotation is found. *)
UsersNotLoaded(f) == {}

UsersOf(f) == {a \in DOMAIN annotation : annotation[a].field = f}

(* Mutant: what is nested in an item is not deleted with it. *)
NothingInside(i) == {i}

(* item[i].within holds i and the items around it. *)
Inside(i)  == {j \in DOMAIN item : i \in item[j].within}
ChildrenOf(I) == {a \in DOMAIN annotation : annotation[a].item \in I}

Loaded(x) == {i \in DOMAIN item : item[i].sample = x}

NewSchema(s, auto) == With(schema, s, [auto |-> auto, default |-> FALSE])
NewField(f, s, n, auto) ==
  With(field, f, [schema |-> s, name |-> n, auto |-> auto])
NewItem(i, x, around, s) ==
  With(item, i, [sample |-> x, within |-> around \cup {i}, schema |-> s])

(* Mutant: the flag is left as it is. *)
KeepAuto(records, r) == records

ClearAuto(records, r) == [records EXCEPT ![r].auto = FALSE]

(* Mutant: the old default schema is not reset. *)
DefaultKept(was, default) == was

(* A new default schema takes the place of the old one. *)
DefaultOfOthers(was, default) == was /\ ~default

----------------------------------------------------------------------------
CreateSchema(s) ==
  /\ s \in Schema \ DOMAIN schema
  /\ schema' = NewSchema(s, FALSE)
  /\ UNCHANGED <<field, sample, item, annotation>>

UpdateSchema(s, default) ==
  /\ s \in DOMAIN schema
  /\ schema' = [r \in DOMAIN schema |->
       IF r = s THEN [auto |-> FALSE, default |-> default]
       ELSE [schema[r] EXCEPT !.default = DefaultOfOthers(@, default)]]
  /\ UNCHANGED <<field, sample, item, annotation>>

(* The other schemas are saved before the request is found to be invalid. *)
UpdateSchemaInvalid ==
  /\ ~Commits
  /\ \E r \in DOMAIN schema : schema[r].default
  /\ schema' = [r \in DOMAIN schema |->
       [schema[r] EXCEPT !.default = DefaultOfOthers(@, TRUE)]]
  /\ UNCHANGED <<field, sample, item, annotation>>

(* Every sample is loaded to look for items, nested or not, that use s. *)
DestroySchema(s) ==
  /\ s \in DOMAIN schema
  /\ ItemsOf(s) = {}
  /\ \A f \in FieldsOf(s) : UsersOf(f) = {}
  /\ schema' = Without(schema, {s})
  /\ field' = Without(field, FieldsOf(s))
  /\ UNCHANGED <<sample, item, annotation>>

CreateField(f, s, n) ==
  /\ s \in DOMAIN schema /\ f \in Field \ DOMAIN field
  /\ field' = NewField(f, s, n, FALSE)
  /\ schema' = ClearAuto(schema, s)
  /\ UNCHANGED <<sample, item, annotation>>

UpdateField(f, n) ==
  /\ f \in DOMAIN field
  /\ field' = ClearAuto([field EXCEPT ![f].name = n], f)
  /\ schema' = ClearAuto(schema, field[f].schema)
  /\ UNCHANGED <<sample, item, annotation>>

(* Every sample is loaded to count the annotations that use f. *)
DestroyField(f) ==
  /\ f \in DOMAIN field
  /\ UsersOf(f) = {}
  /\ field' = Without(field, {f})
  /\ schema' = ClearAuto(schema, field[f].schema)
  /\ UNCHANGED <<sample, item, annotation>>

----------------------------------------------------------------------------
(* A sample starts with an item of the default schema, or of a new one. *)
CreateSample(x, i, s) ==
  LET defaults == {r \in DOMAIN schema : schema[r].default} IN
  /\ x \in Sample \ sample /\ i \in Item \ DOMAIN item
  /\ IF defaults # {} THEN s \in defaults /\ UNCHANGED schema
     ELSE s \in Schema \ DOMAIN schema /\ schema' = NewSchema(s, TRUE)
  /\ sample' = sample \cup {x}
  /\ item' = NewItem(i, x, {}, s)
  /\ UNCHANGED <<field, annotation>>

(* Every item the api creates gets a schema of its own. *)
CreateItem(i, x, around, s) ==
  /\ i \in Item \ DOMAIN item /\ s \in Schema \ DOMAIN schema
  /\ \/ x \in sample /\ around = {}
     \/ \E j \in Loaded(x) : around = item[j].within
  /\ schema' = NewSchema(s, TRUE)
  /\ item' = NewItem(i, x, around, s)
  /\ UNCHANGED <<field, sample, annotation>>

(* And every annotation a field of its own, with a name that is free. *)
CreateAnnotation(a, i, f, n) ==
  /\ a \in Annotation \ DOMAIN annotation /\ i \in DOMAIN item
  /\ f \in Field \ DOMAIN field
  /\ n \notin {field[g].name : g \in FieldsOf(item[i].schema)}
  /\ field' = NewField(f, item[i].schema, n, TRUE)
  /\ annotation' = With(annotation, a, [item |-> i, field |-> f])
  /\ UNCHANGED <<schema, sample, item>>

(* An annotation takes another field of its item's schema, as the user     *)
(* interface offers them. The field it leaves is deleted if auto_created.  *)
UpdateAnnotation(a, f) ==
  LET old == annotation[a].field
      gone == {g \in {old} : field[g].auto}
  IN
  /\ a \in DOMAIN annotation
  /\ f \in FieldsOf(item[annotation[a].item].schema) \ {old}
  /\ gone # {} => UsersOf(old) \cap
       ChildrenOf(Loaded(item[annotation[a].item].sample)) = {a}
  /\ annotation' = [annotation EXCEPT ![a].field = f]
  /\ field' = ClearAuto(Without(field, gone), f)
  /\ UNCHANGED <<schema, sample, item>>

(* Mutant: any field of the new schema will do. *)
FieldsOfAnyName(s, n) == FieldsOf(s)

FieldsNamed(s, n) == {f \in FieldsOf(s) : field[f].name = n}

(* What is saved of the change once the annotations in `done' have moved;  *)
(* `goes' is the old schema if it goes too, with its fields.               *)
MoveToSchema(i, s, to, done, goes) ==
  LET nameOf(a) == field[annotation[a].field].name
      made    == {n \in DOMAIN to : FieldsNamed(s, n) = {}}
      left    == {annotation[a].field : a \in done}
      loaded  == ChildrenOf(Loaded(item[i].sample))
      gone    == {f \in left : field[f].auto}
                   \cup UNION {FieldsOf(r) : r \in goes}
  IN
  /\ s \in DOMAIN schema \ {item[i].schema}
  /\ DOMAIN to = {nameOf(a) : a \in done}
  /\ \A n \in DOMAIN to \ made : to[n] \in FieldsNamed(s, n)
  /\ \A n \in made : to[n] \notin DOMAIN field
  /\ \A m, n \in made : to[m] = to[n] => m = n
  /\ \A f \in left : field[f].auto => Cardinality(UsersOf(f) \cap loaded) = 1
  /\ item' = [item EXCEPT ![i].schema = s]
  /\ annotation' = [a \in DOMAIN annotation |->
       IF a \in done THEN [annotation[a] EXCEPT !.field = to[nameOf(a)]]
       ELSE annotation[a]]
  /\ field' = [f \in (DOMAIN field \ gone) \cup {to[n] : n \in made} |->
       IF f \in DOMAIN field
       THEN [field[f] EXCEPT !.auto = @ /\ f \notin Range(to)]
       ELSE LET n == CHOOSE m \in made : to[m] = f IN
            [schema |-> s, name |-> n,
             auto |-> Cardinality({a \in done : nameOf(a) = n}) = 1]]
  /\ UNCHANGED sample

(* A schema without users left goes, with its fields, if auto_created. *)
UpdateItemSchema(i, s, to) ==
  LET old    == item[i].schema
      goes   == IF schema[old].auto THEN {old} ELSE {}
      others == ChildrenOf(Loaded(item[i].sample)) \ ChildrenOf({i})
  IN
  /\ Inside(i) = {i}
  /\ \A r \in goes : /\ ItemsOf(r) \cap Loaded(item[i].sample) = {i}
                      /\ \A a \in others : annotation[a].field \notin FieldsOf(r)
  /\ MoveToSchema(i, s, to, ChildrenOf({i}), goes)
  /\ schema' = ClearAuto(Without(schema, goes), s)

(* An item has no field, so one that is nested in i ends the request: the  *)
(* item and the annotations before it have been saved, the others have not *)
(* moved, and neither schema is looked at any more.                        *)
UpdateItemSchemaFails(i, s, to, done) ==
  /\ ~Commits
  /\ Inside(i) # {i}
  /\ MoveToSchema(i, s, to, done, {})
  /\ UNCHANGED schema

----------------------------------------------------------------------------
(* Deleting items takes along what is inside them and the schemas and      *)
(* fields that were created for it.  A field or schema that another loaded *)
(* record uses is protected, and refuses the request: also against a       *)
(* record of this request that is not yet deleted when its turn comes.     *)
Delete(I, loadedItems, order) ==
  LET children == ChildrenOf(I)
      loaded   == ChildrenOf(loadedItems)
      autos    == {f \in {annotation[a].field : a \in children} : field[f].auto}
      schemas  == {s \in {item[i].schema : i \in I} : schema[s].auto}
      before(i) == IF order = "annotations" THEN ChildrenOf(Inside(i)) ELSE {}
  IN
  /\ \A f \in autos : Cardinality(UsersOf(f) \cap loaded) = 1
  /\ \A s \in schemas : Cardinality(ItemsOf(s) \cap loadedItems) = 1
  /\ \A i \in I : item[i].schema \in schemas =>
       \A a \in loaded \ before(i) :
         field[annotation[a].field].schema # item[i].schema
  /\ item' = Without(item, I)
  /\ annotation' = Without(annotation, children)
  /\ field' = Without(field, autos \cup UNION {FieldsOf(s) : s \in schemas})
  /\ schema' = Without(schema, schemas)

(* The request loads the samples X of the spider. *)
DestroySample(x, X, order) ==
  /\ x \in X /\ X \subseteq sample
  /\ Delete(Loaded(x), UNION {Loaded(y) : y \in X}, order)
  /\ sample' = sample \ {x}

(* The only item of a sample stays. *)
DestroyItem(i, order) ==
  /\ i \in DOMAIN item
  /\ {j \in Loaded(item[i].sample) : item[j].within = {j}} # {i}
  /\ Delete(Inside(i), Loaded(item[i].sample), order)
  /\ UNCHANGED sample

DestroyAnnotation(a) ==
  LET f == annotation[a].field IN
  /\ a \in DOMAIN annotation
  /\ field[f].auto => UsersOf(f) \cap
       ChildrenOf(Loaded(item[annotation[a].item].sample)) = {a}
  /\ annotation' = Without(annotation, {a})
  /\ field' = Without(field, {g \in {f} : field[g].auto})
  /\ UNCHANGED <<schema, sample, item>>

(* New fields for the names of those that the annotations A have. *)
ChoicesFor(A) == [{field[annotation[a].field].name : a \in A} -> Field]

Request ==
  \/ \E s \in Schema : CreateSchema(s) \/ DestroySchema(s)
  \/ \E s \in Schema, default \in BOOLEAN : UpdateSchema(s, default)
  \/ UpdateSchemaInvalid
  \/ \E f \in Field, s \in Schema, n \in Name : CreateField(f, s, n)
  \/ \E f \in Field, n \in Name : UpdateField(f, n)
  \/ \E f \in Field : DestroyField(f)
  \/ \E x \in Sample, i \in Item, s \in Schema : CreateSample(x, i, s)
  \/ \E i \in Item, x \in Sample, s \in Schema, around \in SUBSET Item :
       CreateItem(i, x, around, s)
  \/ \E a \in Annotation, i \in Item, f \in Field, n \in Name :
       CreateAnnotation(a, i, f, n)
  \/ \E a \in Annotation, f \in Field : UpdateAnnotation(a, f)
  \/ \E i \in DOMAIN item, s \in Schema :
       \E to \in ChoicesFor(ChildrenOf({i})) : UpdateItemSchema(i, s, to)
  \/ \E x \in Sample, X \in SUBSET Sample, order \in Orders :
       DestroySample(x, X, order)
  \/ \E i \in Item, order \in Orders : DestroyItem(i, order)
  \/ \E a \in Annotation : DestroyAnnotation(a)

(* Nothing is said of what follows a change that is left half-made. *)
Next ==
  \/ ~half /\ Request /\ half' = FALSE
  \/ /\ ~half
     /\ \E i \in DOMAIN item, s \in Schema : \E done \in SUBSET ChildrenOf({i}) :
          \E to \in ChoicesFor(done) : UpdateItemSchemaFails(i, s, to, done)
     /\ half' = TRUE
  \/ half /\ UNCHANGED vars

Spec == Init /\ [][Next]_vars

----------------------------------------------------------------------------
SchemasExist ==
  /\ \A i \in DOMAIN item : item[i].schema \in DOMAIN schema
  /\ \A f \in DOMAIN field : field[f].schema \in DOMAIN schema

FieldsOfItsSchema ==
  \A a \in DOMAIN annotation :
    /\ annotation[a].field \in DOMAIN field
    /\ annotation[a].item \in DOMAIN item
    /\ field[annotation[a].field].schema = item[annotation[a].item].schema

(* No deletion, though it looks only at the records of one sample, leaves  *)
(* a reference to what is gone; and an annotation extracts into a field of *)
(* the schema of its item, also when the item has changed its schema or    *)
(* others delete their items.  With FsStorage this lasts until a change of *)
(* schema is left half-made: it leaves annotations on fields of the schema *)
(* their item has left.                                                    *)
ReferencesHold == TypeOK /\ (~half => SchemasExist /\ FieldsOfItsSchema)

(* What was created for a record serves this record only, until a change   *)
(* of schema is left half-made.  This is why it can be deleted without     *)
(* loading the other samples; and none is left over when its user is gone. *)
AutoCreatedHasOneUser == ~half =>
  /\ \A s \in DOMAIN schema : schema[s].auto => Cardinality(ItemsOf(s)) = 1
  /\ \A f \in DOMAIN field : field[f].auto => Cardinality(UsersOf(f)) = 1

(* New samples never have to choose between two default schemas, whatever  *)
(* requests fail.                                                          *)
OneDefaultSchema ==
  Cardinality({s \in DOMAIN schema : schema[s].default}) <= 1

(* Data keeps its names when an item changes its schema, and also when the *)
(* change is left half-made.                                               *)
SchemaChangeKeepsNames ==
  [][\A i \in DOMAIN item \cap DOMAIN item' :
       item[i].schema # item'[i].schema =>
         \A a \in ChildrenOf({i}) :
           field'[annotation'[a].field].name = field[annotation[a].field].name
    ]_vars

=============================================================================
