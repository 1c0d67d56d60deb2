-------------------------- MODULE ResourcesProofs --------------------------
(***************************************************************************)
(* Proofs about Resources, for every set of schemas, fields, samples,      *)
(* items, annotations and names: the invariants ReferencesHold,            *)
(* AutoCreatedHasOneUser and OneDefaultSchema, and the action property     *)
(* SchemaChangeKeepsNames.                                                 *)
(*                                                                         *)
(* The inductive invariant, IInv, states the same without cardinalities,   *)
(* part by part: the records are Sound until a change of an item's schema  *)
(* is left half-made, which only FsStorage allows, and even then typed.    *)
(* Sound is why a request need not load the samples it does not touch: an  *)
(* auto_created record has one user, so the user that is deleted was the   *)
(* only one; and the annotations on the fields of an auto_created schema   *)
(* are those of the one item that uses the schema.                         *)
(***************************************************************************)
EXTENDS Resources, FiniteSetTheorems, TLAPS

SchemaTyped ==
  /\ DOMAIN schema \subseteq Schema
  /\ schema \in [DOMAIN schema -> [auto : BOOLEAN, default : BOOLEAN]]

FieldTyped ==
  /\ DOMAIN field \subseteq Field
  /\ field \in [DOMAIN field -> [schema : Schema, name : Name, auto : BOOLEAN]]

ItemTyped ==
  /\ DOMAIN item \subseteq Item /\ IsFiniteSet(DOMAIN item)
  /\ item \in [DOMAIN item -> [sample : sample, within : SUBSET DOMAIN item,
                               schema : Schema]]

AnnotationTyped ==
  /\ DOMAIN annotation \subseteq Annotation /\ IsFiniteSet(DOMAIN annotation)
  /\ annotation \in [DOMAIN annotation -> [item : Item, field : Field]]

(* What is around an item is in its sample, and has around it no more.     *)
Nested ==
  \A i \in DOMAIN item :
    /\ i \in item[i].within
    /\ \A j \in item[i].within : /\ item[j].sample = item[i].sample
                                 /\ item[j].within \subseteq item[i].within

ServesItem(s, i) ==
  i \in DOMAIN item /\ \A j \in DOMAIN item : (item[j].schema = s) <=> (j = i)

ServesAnnotation(f, a) ==
  /\ a \in DOMAIN annotation
  /\ \A b \in DOMAIN annotation : (annotation[b].field = f) <=> (b = a)

AutoSchemasServeOne ==
  \A s \in DOMAIN schema : schema[s].auto => \E i : ServesItem(s, i)

AutoFieldsServeOne ==
  \A f \in DOMAIN field : field[f].auto => \E a : ServesAnnotation(f, a)

(* A default schema was chosen by a person, so nothing deletes it.         *)
DefaultsAgree ==
  \A r, s \in DOMAIN schema : schema[r].default /\ schema[s].default =>
                                r = s /\ ~schema[s].auto

Typed == /\ SchemaTyped /\ FieldTyped /\ sample \subseteq Sample
         /\ ItemTyped /\ AnnotationTyped /\ Nested

Sound == /\ Typed /\ SchemasExist /\ FieldsOfItsSchema
         /\ AutoSchemasServeOne /\ AutoFieldsServeOne /\ DefaultsAgree
----------------------------------------------------------------------------
(* Records are added, taken away and marked one by one.                    *)

LEMMA WithoutIs ==
  ASSUME NEW f, NEW S
  PROVE  Without(f, S) = [x \in DOMAIN f \ S |-> f[x]]
BY DEF Without, Restrict

(* The flag of a schema is all that changes when its fields do.            *)
FlagsFall ==
  /\ SchemaTyped'
  /\ DOMAIN schema' = DOMAIN schema
  /\ \A r \in DOMAIN schema : /\ schema'[r].default = schema[r].default
                              /\ schema'[r].auto => schema[r].auto

LEMMA ClearedSchema ==
  ASSUME SchemaTyped, NEW s \in DOMAIN schema, schema' = ClearAuto(schema, s)
  PROVE  FlagsFall
BY DEF SchemaTyped, ClearAuto, FlagsFall

LEMMA FlagsFallSafely ==
  ASSUME SchemaTyped, AutoSchemasServeOne, DefaultsAgree, FlagsFall,
         item' = item
  PROVE  AutoSchemasServeOne' /\ DefaultsAgree'
<1>1. \A s, i : ServesItem(s, i) => ServesItem(s, i)'
  BY DEF ServesItem
<1>2. QED
  BY <1>1 DEF FlagsFall, AutoSchemasServeOne, DefaultsAgree

LEMMA FlagsOfFieldsFallSafely ==
  ASSUME AutoFieldsServeOne, annotation' = annotation,
         \A f \in DOMAIN field' :
           field'[f].auto => f \in DOMAIN field /\ field[f].auto
  PROVE  AutoFieldsServeOne'
<1>1. \A f, a : ServesAnnotation(f, a) => ServesAnnotation(f, a)'
  BY DEF ServesAnnotation
<1>2. QED
  BY <1>1 DEF AutoFieldsServeOne

----------------------------------------------------------------------------
(* Schemas and fields that a user creates, changes and deletes.            *)

LEMMA SchemaCreated ==
  ASSUME Sound, NEW s, CreateSchema(s)
  PROVE  Sound'
<1> USE DEF Sound, CreateSchema, NewSchema, With
<1>1. Typed'
  BY DEF Typed, SchemaTyped, FieldTyped, ItemTyped, AnnotationTyped, Nested
<1>2. SchemasExist' /\ FieldsOfItsSchema'
  BY DEF SchemasExist, FieldsOfItsSchema
<1>3. AutoSchemasServeOne'
  BY DEF AutoSchemasServeOne, ServesItem, Typed, SchemaTyped
<1>4. AutoFieldsServeOne'
  BY FlagsOfFieldsFallSafely
<1>5. DefaultsAgree'
  BY DEF DefaultsAgree, Typed, SchemaTyped
<1>6. QED
  BY <1>1, <1>2, <1>3, <1>4, <1>5

LEMMA SchemaUpdated ==
  ASSUME Sound, NEW s, NEW default \in BOOLEAN, UpdateSchema(s, default)
  PROVE  Sound'
<1> USE DEF Sound, UpdateSchema, DefaultOfOthers
<1>1. Typed'
  <2>1. SchemaTyped'
    BY DEF Typed, SchemaTyped
  <2>2. UNCHANGED <<field, sample, item, annotation>>
    OBVIOUS
  <2>3. FieldTyped' /\ ItemTyped' /\ AnnotationTyped' /\ Nested'
    BY <2>2 DEF Typed, FieldTyped, ItemTyped, AnnotationTyped, Nested
  <2>4. QED
    BY <2>1, <2>2, <2>3 DEF Typed
<1>2. SchemasExist' /\ FieldsOfItsSchema'
  BY DEF SchemasExist, FieldsOfItsSchema
<1>3. AutoSchemasServeOne'
  BY DEF AutoSchemasServeOne, ServesItem, Typed, SchemaTyped
<1>4. AutoFieldsServeOne'
  BY FlagsOfFieldsFallSafely
<1>5. DefaultsAgree'
  BY DEF DefaultsAgree, Typed, SchemaTyped
<1>6. QED
  BY <1>1, <1>2, <1>3, <1>4, <1>5

LEMMA SchemaUpdateInvalid ==
  ASSUME Sound, UpdateSchemaInvalid
  PROVE  Sound'
<1> USE DEF Sound, UpdateSchemaInvalid, DefaultOfOthers
<1>1. Typed'
  <2>1. SchemaTyped'
    BY DEF Typed, SchemaTyped
  <2>2. UNCHANGED <<field, sample, item, annotation>>
    OBVIOUS
  <2>3. FieldTyped' /\ ItemTyped' /\ AnnotationTyped' /\ Nested'
    BY <2>2 DEF Typed, FieldTyped, ItemTyped, AnnotationTyped, Nested
  <2>4. QED
    BY <2>1, <2>2, <2>3 DEF Typed
<1>2. SchemasExist' /\ FieldsOfItsSchema'
  BY DEF SchemasExist, FieldsOfItsSchema
<1>3. AutoSchemasServeOne'
  BY DEF AutoSchemasServeOne, ServesItem, Typed, SchemaTyped
<1>4. AutoFieldsServeOne'
  BY FlagsOfFieldsFallSafely
<1>5. DefaultsAgree'
  BY DEF DefaultsAgree, Typed, SchemaTyped
<1>6. QED
  BY <1>1, <1>2, <1>3, <1>4, <1>5

LEMMA SchemaDestroyed ==
  ASSUME Sound, NEW s, DestroySchema(s)
  PROVE  Sound'
<1> USE DEF Sound, DestroySchema, Without, Restrict
<1>1. Typed'
  BY DEF Typed, SchemaTyped, FieldTyped, ItemTyped, AnnotationTyped, Nested
<1>2. SchemasExist'
  BY DEF SchemasExist, ItemsOf, FieldsOf
<1>3. FieldsOfItsSchema'
  BY DEF FieldsOfItsSchema, UsersOf
<1>4. AutoSchemasServeOne'
  BY DEF AutoSchemasServeOne, ServesItem
<1>5. AutoFieldsServeOne'
  BY FlagsOfFieldsFallSafely
<1>6. DefaultsAgree'
  BY DEF DefaultsAgree
<1>7. QED
  BY <1>1, <1>2, <1>3, <1>4, <1>5, <1>6

LEMMA FieldCreated ==
  ASSUME Sound, NEW f, NEW s, NEW n \in Name, CreateField(f, s, n)
  PROVE  Sound'
<1> USE DEF Sound, CreateField, NewField, With
<1>0. FlagsFall
  BY ClearedSchema DEF Typed
<1>1. Typed'
  BY <1>0 DEF FlagsFall, Typed, SchemaTyped, FieldTyped, ItemTyped,
              AnnotationTyped, Nested
<1>2. SchemasExist' /\ FieldsOfItsSchema'
  BY <1>0 DEF FlagsFall, SchemasExist, FieldsOfItsSchema
<1>3. AutoSchemasServeOne' /\ DefaultsAgree'
  BY <1>0, FlagsFallSafely DEF Typed
<1>4. AutoFieldsServeOne'
  BY FlagsOfFieldsFallSafely
<1>5. QED
  BY <1>1, <1>2, <1>3, <1>4

LEMMA FieldUpdated ==
  ASSUME Sound, NEW f, NEW n \in Name, UpdateField(f, n)
  PROVE  Sound'
<1> USE DEF Sound, UpdateField
<1>1. FlagsFall
  BY ClearedSchema DEF Typed, SchemasExist
<1>2. /\ FieldTyped' /\ DOMAIN field' = DOMAIN field
      /\ \A g \in DOMAIN field : /\ field'[g].schema = field[g].schema
                                 /\ field'[g].auto => field[g].auto
  BY DEF ClearAuto, Typed, FieldTyped
<1>3. Typed'
  BY <1>1, <1>2 DEF FlagsFall, Typed, ItemTyped, AnnotationTyped, Nested
<1>4. SchemasExist' /\ FieldsOfItsSchema'
  BY <1>1, <1>2 DEF FlagsFall, SchemasExist, FieldsOfItsSchema
<1>5. AutoSchemasServeOne' /\ DefaultsAgree'
  BY <1>1, FlagsFallSafely DEF Typed
<1>6. AutoFieldsServeOne'
  BY <1>2, FlagsOfFieldsFallSafely
<1>7. QED
  BY <1>3, <1>4, <1>5, <1>6

LEMMA FieldDestroyed ==
  ASSUME Sound, NEW f, DestroyField(f)
  PROVE  Sound'
<1> USE DEF Sound, DestroyField
<1>1. FlagsFall
  BY ClearedSchema DEF Typed, SchemasExist
<1>2. field' = [g \in DOMAIN field \ {f} |-> field[g]]
  BY WithoutIs
<1>3. FieldTyped'
  BY <1>2 DEF Typed, FieldTyped
<1>4. Typed'
  BY <1>1, <1>3 DEF FlagsFall, Typed, ItemTyped, AnnotationTyped, Nested
<1>9. \A a \in DOMAIN annotation : annotation[a].field # f
  BY DEF UsersOf
<1>5. SchemasExist' /\ FieldsOfItsSchema'
  BY <1>1, <1>2, <1>9 DEF FlagsFall, SchemasExist, FieldsOfItsSchema
<1>6. AutoSchemasServeOne' /\ DefaultsAgree'
  BY <1>1, FlagsFallSafely DEF Typed
<1>7. AutoFieldsServeOne'
  BY <1>2, FlagsOfFieldsFallSafely
<1>8. QED
  BY <1>4, <1>5, <1>6, <1>7

----------------------------------------------------------------------------
(* Samples, items and annotations that are created.                        *)

(* A new item is one more user of its schema, and of no other.             *)
LEMMA ItemAdded ==
  ASSUME Sound,
         NEW i \in Item \ DOMAIN item,
         NEW x, x \in sample', sample \subseteq sample',
         NEW around \in SUBSET DOMAIN item,
         \A j \in around : /\ item[j].sample = x
                           /\ item[j].within \subseteq around,
         NEW s \in Schema, item' = NewItem(i, x, around, s)
  PROVE  /\ ItemTyped' /\ Nested'
         /\ DOMAIN item' = DOMAIN item \cup {i}
         /\ \A j \in DOMAIN item : item'[j] = item[j]
         /\ item'[i].schema = s
<1>1. item' = [j \in DOMAIN item \cup {i} |-> IF j = i
        THEN [sample |-> x, within |-> around \cup {i}, schema |-> s]
        ELSE item[j]]
  BY DEF NewItem, With
<1>2. IsFiniteSet(DOMAIN item')
  BY <1>1, FS_AddElement DEF Sound, Typed, ItemTyped
<1>3. ItemTyped'
  BY <1>1, <1>2 DEF Sound, Typed, ItemTyped
<1>4. Nested'
  BY <1>1 DEF Sound, Typed, ItemTyped, Nested
<1>5. QED
  BY <1>1, <1>3, <1>4

(* A schema made for a new item serves this item only.                     *)
LEMMA ItemWithItsSchema ==
  ASSUME Sound, NEW i, i \notin DOMAIN item, NEW s \in Schema \ DOMAIN schema,
         schema' = With(schema, s, [auto |-> TRUE, default |-> FALSE]),
         DOMAIN item' = DOMAIN item \cup {i},
         \A j \in DOMAIN item : item'[j] = item[j],
         item'[i].schema = s
  PROVE  SchemaTyped' /\ AutoSchemasServeOne' /\ DefaultsAgree'
<1>1. schema' = [r \in DOMAIN schema \cup {s} |-> IF r = s
        THEN [auto |-> TRUE, default |-> FALSE] ELSE schema[r]]
  BY DEF With
<1>2. SchemaTyped' /\ DefaultsAgree'
  <2>1. SchemaTyped'
    <3>1. [auto |-> TRUE, default |-> FALSE] \in [auto : BOOLEAN, default : BOOLEAN]
      OBVIOUS
    <3>2. /\ DOMAIN schema' = DOMAIN schema \cup {s}
          /\ schema' = [r \in DOMAIN schema' |-> schema'[r]]
      BY <1>1
    <3>3. \A r \in DOMAIN schema' :
            schema'[r] \in [auto : BOOLEAN, default : BOOLEAN]
      BY <1>1, <3>1 DEF Sound, Typed, SchemaTyped
    <3>4. QED
      BY <3>2, <3>3 DEF Sound, Typed, SchemaTyped
  <2>2. \A r \in DOMAIN schema' : schema'[r].default =>
          r \in DOMAIN schema /\ schema'[r] = schema[r]
    BY <1>1
  <2>3. QED
    BY <2>1, <2>2 DEF Sound, DefaultsAgree
<1>3. ServesItem(s, i)'
  BY DEF ServesItem, Sound, SchemasExist
<1>4. \A r \in DOMAIN schema : \A k : ServesItem(r, k) => ServesItem(r, k)'
  BY DEF ServesItem
<1>5. QED
  BY <1>1, <1>2, <1>3, <1>4 DEF Sound, AutoSchemasServeOne

LEMMA SampleCreated ==
  ASSUME Sound, NEW x, NEW i, NEW s \in Schema, CreateSample(x, i, s)
  PROVE  Sound'
<1> DEFINE defaults == {r \in DOMAIN schema : schema[r].default}
<1>1. /\ x \in Sample \ sample /\ i \in Item \ DOMAIN item
      /\ sample' = sample \cup {x} /\ item' = NewItem(i, x, {}, s)
      /\ UNCHANGED <<field, annotation>>
  BY DEF CreateSample
<1>2. /\ ItemTyped' /\ Nested'
      /\ DOMAIN item' = DOMAIN item \cup {i}
      /\ \A j \in DOMAIN item : item'[j] = item[j]
      /\ item'[i].schema = s
  BY <1>1, ItemAdded
<1>3. /\ SchemaTyped' /\ AutoSchemasServeOne' /\ DefaultsAgree'
      /\ DOMAIN schema \cup {s} = DOMAIN schema'
  <2>1. CASE defaults # {}
    <3>1. schema' = schema /\ s \in DOMAIN schema /\ schema[s].default
      BY <2>1 DEF CreateSample
    <3>2. ~schema[s].auto
      BY <3>1 DEF Sound, DefaultsAgree
    <3>3. \A r, k : r # s /\ ServesItem(r, k) => ServesItem(r, k)'
      BY <1>1, <1>2 DEF ServesItem
    <3>4. QED
      BY <3>1, <3>2, <3>3
      DEF Sound, Typed, SchemaTyped, DefaultsAgree, AutoSchemasServeOne
  <2>2. CASE defaults = {}
    <3>1. /\ s \notin DOMAIN schema
          /\ schema' = With(schema, s, [auto |-> TRUE, default |-> FALSE])
      BY <2>2 DEF CreateSample, NewSchema
    <3>2. QED
      BY <1>1, <1>2, <3>1, ItemWithItsSchema DEF With
  <2>3. QED
    BY <2>1, <2>2
<1>4. Typed'
  BY <1>1, <1>2, <1>3 DEF Sound, Typed, FieldTyped, AnnotationTyped
<1>5. SchemasExist' /\ FieldsOfItsSchema'
  BY <1>1, <1>2, <1>3 DEF Sound, SchemasExist, FieldsOfItsSchema
<1>6. AutoFieldsServeOne'
  BY <1>1, FlagsOfFieldsFallSafely DEF Sound
<1>7. QED
  BY <1>3, <1>4, <1>5, <1>6 DEF Sound

LEMMA ItemCreated ==
  ASSUME Sound, NEW i, NEW x, NEW around, NEW s, CreateItem(i, x, around, s)
  PROVE  Sound'
<1>1. /\ i \in Item \ DOMAIN item /\ s \in Schema \ DOMAIN schema
      /\ schema' = With(schema, s, [auto |-> TRUE, default |-> FALSE])
      /\ item' = NewItem(i, x, around, s)
      /\ UNCHANGED <<field, sample, annotation>>
  BY DEF CreateItem, NewSchema
<1>2. /\ x \in sample /\ around \in SUBSET DOMAIN item
      /\ \A j \in around : /\ item[j].sample = x
                           /\ item[j].within \subseteq around
  <2>1. CASE x \in sample /\ around = {}
    BY <2>1
  <2>2. CASE \E j \in Loaded(x) : around = item[j].within
    BY <2>2 DEF Loaded, Sound, Typed, ItemTyped, Nested
  <2>3. QED
    BY <2>1, <2>2 DEF CreateItem
<1>3. /\ ItemTyped' /\ Nested'
      /\ DOMAIN item' = DOMAIN item \cup {i}
      /\ \A j \in DOMAIN item : item'[j] = item[j]
      /\ item'[i].schema = s
  BY <1>1, <1>2, ItemAdded
<1>4. SchemaTyped' /\ AutoSchemasServeOne' /\ DefaultsAgree'
  BY <1>1, <1>3, ItemWithItsSchema
<1>5. Typed'
  BY <1>1, <1>3, <1>4 DEF Sound, Typed, FieldTyped, AnnotationTyped
<1>6. SchemasExist' /\ FieldsOfItsSchema'
  BY <1>1, <1>3 DEF Sound, SchemasExist, FieldsOfItsSchema, With
<1>7. AutoFieldsServeOne'
  BY <1>1, FlagsOfFieldsFallSafely DEF Sound
<1>8. QED
  BY <1>4, <1>5, <1>6, <1>7 DEF Sound

LEMMA AnnotationCreated ==
  ASSUME Sound, NEW a, NEW i, NEW f, NEW n \in Name, CreateAnnotation(a, i, f, n)
  PROVE  Sound'
<1>1. /\ a \in Annotation \ DOMAIN annotation /\ i \in DOMAIN item
      /\ f \in Field \ DOMAIN field
      /\ field' = [g \in DOMAIN field \cup {f} |-> IF g = f
           THEN [schema |-> item[i].schema, name |-> n, auto |-> TRUE]
           ELSE field[g]]
      /\ annotation' = [b \in DOMAIN annotation \cup {a} |-> IF b = a
           THEN [item |-> i, field |-> f] ELSE annotation[b]]
      /\ UNCHANGED <<schema, sample, item>>
  BY DEF CreateAnnotation, NewField, With
<1>2. IsFiniteSet(DOMAIN annotation')
  BY <1>1, FS_AddElement DEF Sound, Typed, AnnotationTyped
<1>3. Typed'
  BY <1>1, <1>2 DEF Sound, Typed, SchemaTyped, FieldTyped, ItemTyped,
                    AnnotationTyped, Nested
<1>4. SchemasExist' /\ FieldsOfItsSchema'
  BY <1>1 DEF Sound, SchemasExist, FieldsOfItsSchema
<1>5. AutoSchemasServeOne' /\ DefaultsAgree'
  BY <1>1, FlagsFallSafely DEF Sound, Typed, SchemaTyped, FlagsFall
<1>6. AutoFieldsServeOne'
  <2>1. ServesAnnotation(f, a)'
    BY <1>1 DEF ServesAnnotation, Sound, FieldsOfItsSchema
  <2>2. \A g \in DOMAIN field : \A b :
          ServesAnnotation(g, b) => ServesAnnotation(g, b)'
    BY <1>1 DEF ServesAnnotation
  <2>3. QED
    BY <1>1, <2>1, <2>2 DEF Sound, AutoFieldsServeOne
<1>7. QED
  BY <1>3, <1>4, <1>5, <1>6 DEF Sound

----------------------------------------------------------------------------
(* Items and annotations that go, alone or with what is inside them.       *)

(* What is auto_created and used by a record that goes has no other user.  *)
LEMMA DeletedAlone ==
  ASSUME Sound, NEW I \in SUBSET DOMAIN item,
         \A i \in DOMAIN item : \A j \in I : j \in item[i].within => i \in I,
         NEW L, NEW order, Delete(I, L, order),
         sample' \subseteq sample,
         \A i \in DOMAIN item \ I : item[i].sample \in sample'
  PROVE  Sound'
<1> DEFINE children == ChildrenOf(I)
           autos == {f \in {annotation[a].field : a \in children} : field[f].auto}
           schemas == {s \in {item[i].schema : i \in I} : schema[s].auto}
           fields == autos \cup UNION {FieldsOf(s) : s \in schemas}
<1>0. /\ item' = Without(item, I) /\ annotation' = Without(annotation, children)
      /\ field' = Without(field, fields) /\ schema' = Without(schema, schemas)
  BY DEF Delete
<1>2. \A a \in DOMAIN annotation : a \in children <=> annotation[a].item \in I
  BY DEF ChildrenOf
<1>3. \A i \in DOMAIN item : item[i].schema \in schemas => i \in I
  BY DEF Sound, SchemasExist, AutoSchemasServeOne, ServesItem
<1>4. \A a \in DOMAIN annotation : annotation[a].field \in fields => a \in children
  <2>1. ASSUME NEW a \in DOMAIN annotation, annotation[a].field \in autos
        PROVE  a \in children
    BY <2>1 DEF ChildrenOf, Sound, FieldsOfItsSchema, AutoFieldsServeOne,
                ServesAnnotation
  <2>2. ASSUME NEW a \in DOMAIN annotation, NEW s \in schemas,
               annotation[a].field \in FieldsOf(s)
        PROVE  a \in children
    BY <2>2, <1>2, <1>3 DEF FieldsOf, Sound, FieldsOfItsSchema
  <2>3. QED
    BY <2>1, <2>2
<1>5. \A f \in DOMAIN field : field[f].schema \in schemas => f \in fields
  BY DEF FieldsOf
<1>6. \A s \in DOMAIN schema : schema[s].auto /\ s \notin schemas =>
        \A i \in I : item[i].schema # s
  OBVIOUS
<1>7. \A f \in DOMAIN field : field[f].auto /\ f \notin fields =>
        \A a \in children : annotation[a].field # f
  OBVIOUS
<1> HIDE DEF children, autos, schemas, fields
<1>1. /\ item' = [i \in DOMAIN item \ I |-> item[i]]
      /\ annotation' = [a \in DOMAIN annotation \ children |-> annotation[a]]
      /\ field' = [f \in DOMAIN field \ fields |-> field[f]]
      /\ schema' = [s \in DOMAIN schema \ schemas |-> schema[s]]
  BY <1>0, WithoutIs
<1>8. IsFiniteSet(DOMAIN item') /\ IsFiniteSet(DOMAIN annotation')
  BY <1>1, FS_Subset DEF Sound, Typed, ItemTyped, AnnotationTyped
<1>9. Typed'
  <2>1. SchemaTyped' /\ FieldTyped' /\ AnnotationTyped'
    BY <1>1, <1>8 DEF Sound, Typed, SchemaTyped, FieldTyped, AnnotationTyped
  <2>2. \A i \in DOMAIN item' : item'[i].within \subseteq DOMAIN item'
    BY <1>1 DEF Sound, Typed, ItemTyped
  <2>3. ItemTyped'
    BY <1>1, <1>8, <2>2 DEF Sound, Typed, ItemTyped
  <2>4. Nested'
    BY <1>1, <2>2 DEF Sound, Typed, Nested
  <2>5. QED
    BY <2>1, <2>3, <2>4 DEF Sound, Typed
<1>10. SchemasExist'
  BY <1>1, <1>3, <1>5 DEF Sound, SchemasExist
<1>11. FieldsOfItsSchema'
  BY <1>1, <1>2, <1>4 DEF Sound, FieldsOfItsSchema
<1>12. AutoSchemasServeOne'
  <2>1. \A s \in DOMAIN schema' : \A i :
          schema[s].auto /\ ServesItem(s, i) => ServesItem(s, i)'
    BY <1>1, <1>6 DEF ServesItem
  <2>2. QED
    BY <1>1, <2>1 DEF Sound, AutoSchemasServeOne
<1>13. AutoFieldsServeOne'
  <2>1. \A f \in DOMAIN field' : \A a :
          field[f].auto /\ ServesAnnotation(f, a) => ServesAnnotation(f, a)'
    BY <1>1, <1>7 DEF ServesAnnotation
  <2>2. QED
    BY <1>1, <2>1 DEF Sound, AutoFieldsServeOne
<1>14. DefaultsAgree'
  BY <1>1 DEF Sound, DefaultsAgree
<1>15. QED
  BY <1>9, <1>10, <1>11, <1>12, <1>13, <1>14 DEF Sound

LEMMA SampleDestroyed ==
  ASSUME Sound, NEW x, NEW X, NEW order, DestroySample(x, X, order)
  PROVE  Sound'
<1>1. \A i \in DOMAIN item : i \in Loaded(x) <=> item[i].sample = x
  BY DEF Loaded
<1>2. \A i \in DOMAIN item : \A j \in Loaded(x) :
        j \in item[i].within => i \in Loaded(x)
  BY <1>1 DEF Loaded, Sound, Typed, Nested
<1>3. \A i \in DOMAIN item \ Loaded(x) : item[i].sample \in sample \ {x}
  BY <1>1 DEF Sound, Typed, ItemTyped
<1>4. Loaded(x) \in SUBSET DOMAIN item
  BY DEF Loaded
<1>5. QED
  BY <1>2, <1>3, <1>4, DeletedAlone DEF DestroySample

LEMMA ItemDestroyed ==
  ASSUME Sound, NEW i, NEW order, DestroyItem(i, order)
  PROVE  Sound'
<1>1. \A k \in DOMAIN item : \A j \in Inside(i) :
        j \in item[k].within => k \in Inside(i)
  BY DEF Inside, Sound, Typed, Nested
<1>2. Inside(i) \in SUBSET DOMAIN item
  BY DEF Inside
<1>3. \A k \in DOMAIN item : item[k].sample \in sample
  BY DEF Sound, Typed, ItemTyped
<1>4. QED
  BY <1>1, <1>2, <1>3, DeletedAlone DEF DestroyItem

LEMMA AnnotationDestroyed ==
  ASSUME Sound, NEW a, DestroyAnnotation(a)
  PROVE  Sound'
<1> DEFINE f == annotation[a].field
           gone == {g \in {f} : field[g].auto}
<1>0. /\ annotation' = Without(annotation, {a}) /\ field' = Without(field, gone)
      /\ a \in DOMAIN annotation /\ UNCHANGED <<schema, sample, item>>
  BY DEF DestroyAnnotation
<1>2. \A g : g \in gone <=> g = f /\ field[f].auto
  OBVIOUS
<1> HIDE DEF gone
<1>1. /\ f \in DOMAIN field
      /\ annotation' = [b \in DOMAIN annotation \ {a} |-> annotation[b]]
      /\ field' = [g \in DOMAIN field \ gone |-> field[g]]
      /\ UNCHANGED <<schema, sample, item>>
  BY <1>0, WithoutIs DEF Sound, FieldsOfItsSchema
<1>3. \A b \in DOMAIN annotation : annotation[b].field \in gone => b = a
  BY <1>0, <1>1, <1>2 DEF Sound, AutoFieldsServeOne, ServesAnnotation
<1>4. IsFiniteSet(DOMAIN annotation')
  BY <1>1, FS_Subset DEF Sound, Typed, AnnotationTyped
<1>5. Typed'
  BY <1>1, <1>4 DEF Sound, Typed, SchemaTyped, FieldTyped, ItemTyped,
                    AnnotationTyped, Nested
<1>6. SchemasExist' /\ FieldsOfItsSchema'
  <2>1. SchemasExist'
    BY <1>1 DEF Sound, SchemasExist
  <2>2. \A b \in DOMAIN annotation' : annotation[b].field \notin gone
    BY <1>1, <1>3
  <2>3. FieldsOfItsSchema'
    BY <1>1, <2>2 DEF Sound, FieldsOfItsSchema
  <2>4. QED
    BY <2>1, <2>3
<1>7. AutoSchemasServeOne' /\ DefaultsAgree'
  BY <1>1, FlagsFallSafely DEF Sound, Typed, SchemaTyped, FlagsFall
<1>8. AutoFieldsServeOne'
  <2>1. \A g \in DOMAIN field' : \A b :
          field[g].auto /\ ServesAnnotation(g, b) => ServesAnnotation(g, b)'
    BY <1>1, <1>2 DEF ServesAnnotation
  <2>2. QED
    BY <1>1, <2>1 DEF Sound, AutoFieldsServeOne
<1>9. QED
  BY <1>5, <1>6, <1>7, <1>8 DEF Sound

----------------------------------------------------------------------------
(* Annotations that take another field, items that take another schema.    *)

LEMMA AnnotationUpdated ==
  ASSUME Sound, NEW a, NEW f, UpdateAnnotation(a, f)
  PROVE  Sound'
<1> DEFINE old == annotation[a].field
           gone == {g \in {old} : field[g].auto}
           left == Without(field, gone)
<1>1. /\ a \in DOMAIN annotation
      /\ f \in DOMAIN field /\ f # old
      /\ field[f].schema = item[annotation[a].item].schema
      /\ annotation' = [annotation EXCEPT ![a].field = f]
      /\ field' = ClearAuto(left, f)
      /\ UNCHANGED <<schema, sample, item>>
  BY DEF UpdateAnnotation, FieldsOf
<1>2. \A g : g \in gone <=> g = old /\ field[old].auto
  OBVIOUS
<1>3. left = [g \in DOMAIN field \ gone |-> field[g]]
  BY WithoutIs
<1> HIDE DEF gone, left
<1>4. field' = [g \in DOMAIN field \ gone |->
                  IF g = f THEN [field[f] EXCEPT !.auto = FALSE] ELSE field[g]]
  BY <1>1, <1>2, <1>3 DEF ClearAuto
<1>5. \A b \in DOMAIN annotation : annotation[b].field \in gone => b = a
  BY <1>1, <1>2 DEF Sound, AutoFieldsServeOne, ServesAnnotation, FieldsOfItsSchema
<1>6. /\ FieldTyped' /\ DOMAIN field' = DOMAIN field \ gone
      /\ \A g \in DOMAIN field' : /\ field'[g].schema = field[g].schema
                                  /\ field'[g].auto => field[g].auto /\ g # f
  BY <1>4 DEF Sound, Typed, FieldTyped
<1>7. /\ AnnotationTyped' /\ DOMAIN annotation' = DOMAIN annotation
      /\ \A b \in DOMAIN annotation :
           /\ annotation'[b].item = annotation[b].item
           /\ annotation'[b].field = IF b = a THEN f ELSE annotation[b].field
  BY <1>1 DEF Sound, Typed, AnnotationTyped, FieldTyped
<1>8. Typed'
  BY <1>1, <1>6, <1>7 DEF Sound, Typed, SchemaTyped, ItemTyped, Nested
<1>9. SchemasExist'
  BY <1>1, <1>6 DEF Sound, SchemasExist
<1>10. FieldsOfItsSchema'
  BY <1>1, <1>2, <1>5, <1>6, <1>7 DEF Sound, FieldsOfItsSchema
<1>11. AutoSchemasServeOne' /\ DefaultsAgree'
  BY <1>1, FlagsFallSafely DEF Sound, Typed, SchemaTyped, FlagsFall
<1>12. AutoFieldsServeOne'
  <2>1. \A g \in DOMAIN field' : \A b : field'[g].auto /\ ServesAnnotation(g, b)
          => ServesAnnotation(g, b)'
    BY <1>1, <1>2, <1>6, <1>7 DEF ServesAnnotation
  <2>2. QED
    BY <1>6, <2>1 DEF Sound, AutoFieldsServeOne
<1>13. QED
  BY <1>8, <1>9, <1>10, <1>11, <1>12 DEF Sound

(* When an item changes its schema, which is all that happens to items     *)
(* that stay, the names of its data stay.                                  *)
NamesKept ==
  \A i \in DOMAIN item \cap DOMAIN item' :
    item[i].schema # item'[i].schema =>
      \A a \in ChildrenOf({i}) :
        field'[annotation'[a].field].name = field[annotation[a].field].name

LEMMA ChoicesAreTyped ==
  ASSUME Sound, NEW i, NEW A \in SUBSET ChildrenOf({i}), NEW to \in ChoicesFor(A)
  PROVE  /\ to \in [DOMAIN to -> Field] /\ DOMAIN to \subseteq Name
         /\ \A a \in A : field[annotation[a].field].name \in DOMAIN to
BY DEF ChoicesFor, ChildrenOf, Sound, Typed, FieldTyped, FieldsOfItsSchema

(* The fields of the old schema that go with it, or with the annotations   *)
(* that leave them, are of no use to the others; and every annotation that *)
(* moves finds its new field under the name of the one it had.  When all   *)
(* have moved and the old schema, if it serves only the item, is gone, the *)
(* records are sound again.                                                *)
LEMMA MovedToSchema ==
  ASSUME Sound, NEW i \in DOMAIN item, NEW s, NEW to, to \in [DOMAIN to -> Field],
         NEW done \in SUBSET ChildrenOf({i}),
         \A a \in done : field[annotation[a].field].name \in DOMAIN to,
         DOMAIN to \subseteq Name,
         NEW goes \in SUBSET {item[i].schema},
         goes # {} => schema[item[i].schema].auto /\ done = ChildrenOf({i}),
         MoveToSchema(i, s, to, done, goes)
  PROVE  /\ sample' = sample
         /\ FieldTyped' /\ ItemTyped' /\ Nested' /\ AnnotationTyped'
         /\ DOMAIN item' = DOMAIN item
         /\ \A j \in DOMAIN item : item'[j].schema # item[j].schema => j = i
         /\ \A a \in ChildrenOf({i}) :
              field'[annotation'[a].field].name = field[annotation[a].field].name
         /\ (/\ done = ChildrenOf({i})
             /\ schema[item[i].schema].auto => goes # {}
             /\ schema' = ClearAuto(Without(schema, goes), s)) => Sound'
<1> DEFINE old == item[i].schema
           nameOf(a) == field[annotation[a].field].name
           made == {n \in DOMAIN to : FieldsNamed(s, n) = {}}
           left == {annotation[a].field : a \in done}
           gone == {f \in left : field[f].auto}
                     \cup UNION {FieldsOf(r) : r \in goes}
           new == {to[n] : n \in made}
           makers(f) == CHOOSE n \in made : to[n] = f
           users(n) == {a \in done : nameOf(a) = n}
           rest == Without(schema, goes)
<1>1. /\ s \in DOMAIN schema /\ s # old
      /\ \A n \in DOMAIN to \ made : to[n] \in FieldsNamed(s, n)
      /\ \A n \in made : to[n] \notin DOMAIN field
      /\ \A m, n \in made : to[m] = to[n] => m = n
      /\ item' = [item EXCEPT ![i].schema = s]
      /\ annotation' = [a \in DOMAIN annotation |->
           IF a \in done THEN [annotation[a] EXCEPT !.field = to[nameOf(a)]]
           ELSE annotation[a]]
      /\ UNCHANGED sample
  BY DEF MoveToSchema
<1>2. field' = [f \in (DOMAIN field \ gone) \cup new |->
        IF f \in DOMAIN field
        THEN [field[f] EXCEPT !.auto = @ /\ f \notin Range(to)]
        ELSE [schema |-> s, name |-> makers(f),
              auto |-> Cardinality(users(makers(f))) = 1]]
  BY DEF MoveToSchema
<1>3. /\ \A a : a \in ChildrenOf({i}) <=>
              a \in DOMAIN annotation /\ annotation[a].item = i
      /\ \A a \in done : a \in DOMAIN annotation /\ annotation[a].item = i
  BY DEF ChildrenOf
<1>4. \A a \in done : nameOf(a) \in DOMAIN to
  OBVIOUS
<1>5. \A n \in DOMAIN to \ made : /\ to[n] \in DOMAIN field
                                  /\ field[to[n]].schema = s
                                  /\ field[to[n]].name = n
  BY <1>1 DEF FieldsNamed, FieldsOf
<1>6. \A f : f \in gone <=>
        \/ \E a \in done : f = annotation[a].field /\ field[f].auto
        \/ goes # {} /\ f \in DOMAIN field /\ field[f].schema = old
  BY DEF FieldsOf
<1>7. \A f : f \in new <=> \E n \in made : f = to[n]
  OBVIOUS
<1>8. \A n \in made : makers(to[n]) = n
  BY <1>1
<1>9. \A n, a : a \in users(n) <=> a \in done /\ nameOf(a) = n
  OBVIOUS
<1>10. \A n : IsFiniteSet(users(n))
  <2>1. ASSUME NEW n PROVE users(n) \in SUBSET DOMAIN annotation
    BY <1>3
  <2>2. QED
    BY <2>1, FS_Subset DEF Sound, Typed, AnnotationTyped
<1>11. made \subseteq DOMAIN to
  OBVIOUS
<1>12. \A r : r \in goes <=> r = old /\ goes # {}
  OBVIOUS
<1> HIDE DEF made, left, gone, new, makers, users, rest
<1>15. /\ FieldTyped' /\ DOMAIN field' = (DOMAIN field \ gone) \cup new
       /\ \A f \in DOMAIN field \ gone :
            /\ field'[f].schema = field[f].schema
            /\ field'[f].name = field[f].name
            /\ field'[f].auto => field[f].auto /\ f \notin Range(to)
       /\ \A n \in made :
            /\ field'[to[n]].schema = s /\ field'[to[n]].name = n
            /\ field'[to[n]].auto <=> Cardinality(users(n)) = 1
  <2>1. DOMAIN field' = (DOMAIN field \ gone) \cup new
    BY <1>2
  <2>2. ASSUME NEW f \in DOMAIN field \ gone
        PROVE  /\ field'[f] = [field[f] EXCEPT !.auto = @ /\ f \notin Range(to)]
               /\ field'[f] \in [schema : Schema, name : Name, auto : BOOLEAN]
               /\ field'[f].schema = field[f].schema
               /\ field'[f].name = field[f].name
               /\ field'[f].auto => field[f].auto /\ f \notin Range(to)
    BY <1>2 DEF Sound, Typed, FieldTyped
  <2>3. ASSUME NEW n \in made
        PROVE  /\ field'[to[n]] =
                    [schema |-> s, name |-> n, auto |-> Cardinality(users(n)) = 1]
               /\ field'[to[n]] \in [schema : Schema, name : Name, auto : BOOLEAN]
    <3>1. to[n] \in new /\ to[n] \notin DOMAIN field
      BY <1>1, <1>7
    <3>2. field'[to[n]] = [schema |-> s, name |-> makers(to[n]),
                           auto |-> Cardinality(users(makers(to[n]))) = 1]
      BY <1>2, <3>1
    <3>3. field'[to[n]] =
            [schema |-> s, name |-> n, auto |-> Cardinality(users(n)) = 1]
      BY <1>8, <3>2
    <3>4. s \in Schema /\ n \in Name
      BY <1>1, <1>11 DEF Sound, Typed, SchemaTyped
    <3>5. QED
      BY <3>3, <3>4
  <2>4. new \subseteq Field
    BY <1>7, <1>11
  <2>5. FieldTyped'
    <3>1. \A f \in DOMAIN field' :
            field'[f] \in [schema : Schema, name : Name, auto : BOOLEAN]
      <4>1. ASSUME NEW f \in new
            PROVE  field'[f] \in [schema : Schema, name : Name, auto : BOOLEAN]
        <5>1. PICK n \in made : f = to[n]
          BY <1>7
        <5>2. QED
          BY <2>3, <5>1
      <4>2. QED
        BY <2>1, <2>2, <4>1
    <3>2. field' = [f \in DOMAIN field' |-> field'[f]]
      BY <1>2
    <3>3. QED
      BY <2>1, <2>4, <3>1, <3>2 DEF Sound, Typed, FieldTyped
  <2>6. ASSUME NEW n \in made
        PROVE  /\ field'[to[n]].schema = s /\ field'[to[n]].name = n
               /\ field'[to[n]].auto <=> Cardinality(users(n)) = 1
    <3> DEFINE alone == Cardinality(users(n)) = 1
    <3>1. field'[to[n]] = [schema |-> s, name |-> n, auto |-> alone]
      BY <2>3
    <3>2. alone \in BOOLEAN
      OBVIOUS
    <3> HIDE DEF alone
    <3>3. /\ field'[to[n]].schema = s /\ field'[to[n]].name = n
          /\ field'[to[n]].auto = alone
      BY <3>1
    <3>4. QED
      BY <3>2, <3>3 DEF alone
  <2>7. QED
    BY <2>1, <2>2, <2>5, <2>6
<1>16. /\ DOMAIN item' = DOMAIN item
       /\ \A j \in DOMAIN item :
            /\ item'[j].sample = item[j].sample
            /\ item'[j].within = item[j].within
            /\ item'[j].schema = IF j = i THEN s ELSE item[j].schema
       /\ ItemTyped' /\ Nested'
  <2>1. s \in Schema
    BY <1>1 DEF Sound, Typed, SchemaTyped
  <2>2. ItemTyped'
    BY <1>1, <2>1 DEF Sound, Typed, ItemTyped
  <2>3. /\ DOMAIN item' = DOMAIN item
        /\ \A j \in DOMAIN item :
             /\ item'[j].sample = item[j].sample
             /\ item'[j].within = item[j].within
             /\ item'[j].schema = IF j = i THEN s ELSE item[j].schema
    BY <1>1 DEF Sound, Typed, ItemTyped
  <2>4. Nested'
    BY <2>3 DEF Sound, Typed, ItemTyped, Nested
  <2>5. QED
    BY <2>2, <2>3, <2>4
<1>17. /\ AnnotationTyped' /\ DOMAIN annotation' = DOMAIN annotation
       /\ \A a \in DOMAIN annotation :
            /\ annotation'[a].item = annotation[a].item
            /\ annotation'[a].field = IF a \in done THEN to[nameOf(a)]
                                      ELSE annotation[a].field
  BY <1>1, <1>3, <1>4 DEF Sound, Typed, AnnotationTyped
(* Nobody else uses what is gone, and no new user is among it.             *)
<1>18. ASSUME NEW a \in DOMAIN annotation, a \notin done
       PROVE  annotation[a].field \notin gone
  <2>1. ASSUME goes # {}, field[annotation[a].field].schema = old
        PROVE  FALSE
    <3>1. annotation[a].item # i /\ annotation[a].item \in DOMAIN item
      BY <1>3, <1>18, <2>1 DEF Sound, FieldsOfItsSchema
    <3>2. QED
      BY <2>1, <3>1 DEF Sound, FieldsOfItsSchema, AutoSchemasServeOne,
                        ServesItem, SchemasExist
  <2>2. ASSUME NEW b \in done, annotation[b].field = annotation[a].field,
               field[annotation[a].field].auto
        PROVE  FALSE
    BY <1>3, <1>18, <2>2 DEF Sound, FieldsOfItsSchema, AutoFieldsServeOne,
                             ServesAnnotation
  <2>3. QED
    BY <1>6, <2>1, <2>2
<1>19. \A n \in DOMAIN to \ made : to[n] \notin gone
  <2>1. ASSUME NEW b \in done PROVE field[annotation[b].field].schema = old
    BY <1>3 DEF Sound, FieldsOfItsSchema
  <2>2. QED
    BY <1>1, <1>5, <1>6, <2>1
<1>20. ASSUME NEW a \in done
       PROVE  LET n == nameOf(a) IN
              /\ to[n] \in DOMAIN field'
              /\ field'[to[n]].schema = s /\ field'[to[n]].name = n
  BY <1>4, <1>5, <1>7, <1>15, <1>19
<1>21. \A a \in ChildrenOf({i}) :
         field'[annotation'[a].field].name = field[annotation[a].field].name
  <2>1. ASSUME NEW a \in DOMAIN annotation, a \notin done
        PROVE  field'[annotation'[a].field].name = field[annotation[a].field].name
    <3>1. annotation[a].field \in DOMAIN field \ gone
      BY <1>18, <2>1 DEF Sound, FieldsOfItsSchema
    <3>2. QED
      BY <1>15, <1>17, <2>1, <3>1
  <2>2. QED
    BY <1>3, <1>17, <1>20, <2>1
<1>22. ASSUME done = ChildrenOf({i}), schema[old].auto => goes # {},
              schema' = ClearAuto(rest, s)
       PROVE  Sound'
  <2>1. schema' = [r \in DOMAIN schema \ goes |->
           IF r = s THEN [schema[s] EXCEPT !.auto = FALSE] ELSE schema[r]]
    <3>1. rest = [r \in DOMAIN schema \ goes |-> schema[r]]
      BY WithoutIs DEF rest
    <3>2. s \in DOMAIN rest
      BY <1>1, <3>1
    <3>3. schema' = [rest EXCEPT ![s].auto = FALSE]
      BY <1>22 DEF ClearAuto, rest
    <3>4. QED
      BY <3>1, <3>2, <3>3
  <2>2. /\ SchemaTyped' /\ DOMAIN schema' = DOMAIN schema \ goes
        /\ \A r \in DOMAIN schema' :
             /\ schema'[r].default = schema[r].default
             /\ schema'[r].auto => schema[r].auto /\ r \notin {s, old}
    <3>1. SchemaTyped' /\ DOMAIN schema' = DOMAIN schema \ goes
      BY <2>1 DEF Sound, Typed, SchemaTyped
    <3>2. ASSUME NEW r \in DOMAIN schema'
          PROVE  /\ schema'[r].default = schema[r].default
                 /\ schema'[r].auto => schema[r].auto /\ r # s
      BY <2>1, <3>1 DEF Sound, Typed, SchemaTyped
    <3>3. QED
      BY <1>12, <1>22, <3>1, <3>2
  <2>3. Typed'
    BY <1>1, <2>2, <1>15, <1>16, <1>17 DEF Sound, Typed
  <2>4. \A j \in DOMAIN item : item[j].schema = old /\ schema[old].auto => j = i
    BY DEF Sound, AutoSchemasServeOne, ServesItem, SchemasExist
  <2>5. SchemasExist'
    <3>1. \A j \in DOMAIN item' : item'[j].schema \in DOMAIN schema'
      BY <1>1, <1>12, <1>22, <2>2, <1>16, <2>4 DEF Sound, SchemasExist
    <3>2. \A f \in DOMAIN field \ gone : field[f].schema \in DOMAIN schema'
      BY <1>6, <1>12, <1>22, <2>2 DEF Sound, SchemasExist
    <3>3. s \in DOMAIN schema'
      BY <1>1, <1>12, <1>22, <2>2
    <3>4. \A f \in DOMAIN field' : field'[f].schema \in DOMAIN schema'
      <4>1. ASSUME NEW f \in new PROVE field'[f].schema \in DOMAIN schema'
        <5>1. PICK n \in made : f = to[n]
          BY <1>7
        <5>2. QED
          BY <1>15, <3>3, <5>1
      <4>2. QED
        BY <1>15, <3>2, <4>1
    <3>5. QED
      BY <3>1, <3>4 DEF SchemasExist
  <2>6. FieldsOfItsSchema'
    <3>1. ASSUME NEW a \in done
          PROVE  /\ annotation'[a].field \in DOMAIN field'
                 /\ annotation'[a].item \in DOMAIN item'
                 /\ field'[annotation'[a].field].schema
                      = item'[annotation'[a].item].schema
      BY <1>3, <1>16, <1>17, <1>20
    <3>2. ASSUME NEW a \in DOMAIN annotation, a \notin done
          PROVE  /\ annotation'[a].field \in DOMAIN field'
                 /\ annotation'[a].item \in DOMAIN item'
                 /\ field'[annotation'[a].field].schema
                      = item'[annotation'[a].item].schema
      <4>1. annotation[a].item # i
        BY <1>3, <1>22, <3>2
      <4>2. QED
        BY <1>15, <1>16, <1>17, <1>18, <3>2, <4>1 DEF Sound, FieldsOfItsSchema
    <3>3. QED
      BY <1>17, <3>1, <3>2 DEF FieldsOfItsSchema
  <2>7. AutoSchemasServeOne'
    <3>1. \A r \in DOMAIN schema' : \A j :
            schema'[r].auto /\ ServesItem(r, j) => ServesItem(r, j)'
      BY <2>2, <1>16 DEF ServesItem
    <3>2. QED
      BY <2>2, <3>1 DEF Sound, AutoSchemasServeOne
  <2>8. AutoFieldsServeOne'
    <3>1. ASSUME NEW f \in DOMAIN field \ gone, field'[f].auto, NEW a,
                 ServesAnnotation(f, a)
          PROVE  ServesAnnotation(f, a)'
      <4>1. \A b \in done : annotation[b].field # f /\ to[nameOf(b)] # f
        BY <1>4, <1>6, <1>15, <3>1 DEF Range
      <4>2. QED
        BY <1>17, <3>1, <4>1 DEF ServesAnnotation
    <3>2. ASSUME NEW n \in made, field'[to[n]].auto
          PROVE  \E a : ServesAnnotation(to[n], a)'
      <4>1. PICK a : users(n) = {a}
        BY <1>10, <1>15, <3>2, FS_Singleton
      <4>2. a \in done /\ nameOf(a) = n
        BY <1>9, <4>1
      <4>3. ASSUME NEW b \in DOMAIN annotation, annotation'[b].field = to[n]
            PROVE  b = a
        <5>1. to[n] \notin DOMAIN field
          BY <1>1
        <5>2. b \in done /\ to[nameOf(b)] = to[n]
          BY <1>17, <4>3, <5>1 DEF Sound, FieldsOfItsSchema
        <5>3. nameOf(b) \in made
          BY <1>4, <1>5, <5>1, <5>2
        <5>4. nameOf(b) = n
          BY <1>1, <5>2, <5>3
        <5>5. QED
          BY <1>9, <4>1, <5>2, <5>4
      <4>4. ServesAnnotation(to[n], a)'
        BY <1>3, <1>17, <4>2, <4>3 DEF ServesAnnotation
      <4>5. QED
        BY <4>4
    <3>3. ASSUME NEW f \in DOMAIN field', field'[f].auto
          PROVE  \E a : ServesAnnotation(f, a)'
      <4>1. CASE f \in new
        <5>1. PICK n \in made : f = to[n]
          BY <1>7, <4>1
        <5>2. QED
          BY <3>2, <3>3, <5>1
      <4>2. CASE f \in DOMAIN field \ gone
        BY <1>15, <3>1, <3>3, <4>2 DEF Sound, AutoFieldsServeOne
      <4>3. QED
        BY <1>15, <4>1, <4>2
    <3>4. QED
      BY <3>3 DEF AutoFieldsServeOne
  <2>9. DefaultsAgree'
    BY <2>2 DEF Sound, DefaultsAgree
  <2>10. QED
    BY <2>3, <2>5, <2>6, <2>7, <2>8, <2>9 DEF Sound
<1>23. QED
  BY <1>1, <1>15, <1>16, <1>17, <1>21, <1>22 DEF rest

LEMMA ItemSchemaUpdated ==
  ASSUME Sound, NEW i \in DOMAIN item, NEW s, NEW to \in ChoicesFor(ChildrenOf({i})),
         UpdateItemSchema(i, s, to)
  PROVE  Sound' /\ NamesKept
<1> DEFINE old == item[i].schema
           goes == IF schema[old].auto THEN {old} ELSE {}
<1>1. /\ MoveToSchema(i, s, to, ChildrenOf({i}), goes)
      /\ schema' = ClearAuto(Without(schema, goes), s)
  BY DEF UpdateItemSchema
<1>2. /\ to \in [DOMAIN to -> Field] /\ DOMAIN to \subseteq Name
      /\ \A a \in ChildrenOf({i}) :
           field[annotation[a].field].name \in DOMAIN to
  BY ChoicesAreTyped
<1>3. /\ goes \in SUBSET {old} /\ (schema[old].auto => goes # {})
      /\ goes # {} => schema[old].auto
  OBVIOUS
<1> HIDE DEF goes
<1>4. QED
  BY <1>1, <1>2, <1>3, MovedToSchema DEF NamesKept

LEMMA ItemSchemaUpdateFailed ==
  ASSUME Sound, NEW i \in DOMAIN item, NEW s, NEW done \in SUBSET ChildrenOf({i}),
         NEW to \in ChoicesFor(done), UpdateItemSchemaFails(i, s, to, done)
  PROVE  Typed' /\ DefaultsAgree' /\ NamesKept
<1>1. MoveToSchema(i, s, to, done, {}) /\ schema' = schema
  BY DEF UpdateItemSchemaFails
<1>2. /\ to \in [DOMAIN to -> Field] /\ DOMAIN to \subseteq Name
      /\ \A a \in done : field[annotation[a].field].name \in DOMAIN to
  BY ChoicesAreTyped
<1>3. /\ sample' = sample
      /\ FieldTyped' /\ ItemTyped' /\ Nested' /\ AnnotationTyped'
  BY <1>1, <1>2, MovedToSchema
<1>4. NamesKept
  BY <1>1, <1>2, MovedToSchema DEF NamesKept
<1>5. Typed' /\ DefaultsAgree'
  BY <1>1, <1>3 DEF Sound, Typed, SchemaTyped, DefaultsAgree
<1>6. QED
  BY <1>4, <1>5

----------------------------------------------------------------------------
(* The theorems.                                                           *)

SchemasStay ==
  \A i \in DOMAIN item \cap DOMAIN item' : item[i].schema = item'[i].schema

LEMMA SchemasStayWithout ==
  ASSUME NEW I, item' = Without(item, I) PROVE SchemasStay
BY WithoutIs DEF SchemasStay

LEMMA SoundStep ==
  ASSUME Sound, Request
  PROVE  Sound' /\ NamesKept
<1>1. ASSUME NEW s \in Schema, CreateSchema(s) PROVE Sound' /\ SchemasStay
  BY <1>1, SchemaCreated DEF CreateSchema, SchemasStay
<1>2. ASSUME NEW s \in Schema, DestroySchema(s) PROVE Sound' /\ SchemasStay
  BY <1>2, SchemaDestroyed DEF DestroySchema, SchemasStay
<1>3. ASSUME NEW s \in Schema, NEW default \in BOOLEAN, UpdateSchema(s, default)
      PROVE  Sound' /\ SchemasStay
  BY <1>3, SchemaUpdated DEF UpdateSchema, SchemasStay
<1>4. ASSUME NEW f \in Field, NEW s \in Schema, NEW n \in Name,
             CreateField(f, s, n)
      PROVE  Sound' /\ SchemasStay
  BY <1>4, FieldCreated DEF CreateField, SchemasStay
<1>5. ASSUME NEW f \in Field, NEW n \in Name, UpdateField(f, n)
      PROVE  Sound' /\ SchemasStay
  BY <1>5, FieldUpdated DEF UpdateField, SchemasStay
<1>6. ASSUME NEW f \in Field, DestroyField(f) PROVE Sound' /\ SchemasStay
  BY <1>6, FieldDestroyed DEF DestroyField, SchemasStay
<1>7. ASSUME NEW x \in Sample, NEW i \in Item, NEW s \in Schema,
             CreateSample(x, i, s)
      PROVE  Sound' /\ SchemasStay
  BY <1>7, SampleCreated DEF CreateSample, NewItem, With, SchemasStay
<1>8. ASSUME NEW i \in Item, NEW x \in Sample, NEW s \in Schema,
             NEW around \in SUBSET Item, CreateItem(i, x, around, s)
      PROVE  Sound' /\ SchemasStay
  <2>1. item' = NewItem(i, x, around, s) /\ i \notin DOMAIN item
    BY <1>8 DEF CreateItem
  <2>2. SchemasStay
    BY <2>1 DEF NewItem, With, SchemasStay
  <2>3. QED
    BY <1>8, <2>2, ItemCreated
<1>9. ASSUME NEW a \in Annotation, NEW i \in Item, NEW f \in Field,
             NEW n \in Name, CreateAnnotation(a, i, f, n)
      PROVE  Sound' /\ SchemasStay
  BY <1>9, AnnotationCreated DEF CreateAnnotation, SchemasStay
<1>10. ASSUME NEW a \in Annotation, NEW f \in Field, UpdateAnnotation(a, f)
       PROVE  Sound' /\ SchemasStay
  BY <1>10, AnnotationUpdated DEF UpdateAnnotation, SchemasStay
<1>11. ASSUME NEW i \in DOMAIN item, NEW s \in Schema,
              NEW to \in ChoicesFor(ChildrenOf({i})), UpdateItemSchema(i, s, to)
       PROVE  Sound' /\ NamesKept
  BY <1>11, ItemSchemaUpdated
<1>12. ASSUME NEW x \in Sample, NEW X \in SUBSET Sample, NEW order \in Orders,
              DestroySample(x, X, order)
       PROVE  Sound' /\ SchemasStay
  <2>1. item' = Without(item, Loaded(x))
    BY <1>12 DEF DestroySample, Delete
  <2>2. QED
    BY <1>12, <2>1, SampleDestroyed, SchemasStayWithout
<1>13. ASSUME NEW i \in Item, NEW order \in Orders, DestroyItem(i, order)
       PROVE  Sound' /\ SchemasStay
  <2>1. item' = Without(item, Inside(i))
    BY <1>13 DEF DestroyItem, Delete
  <2>2. QED
    BY <1>13, <2>1, ItemDestroyed, SchemasStayWithout
<1>14. ASSUME NEW a \in Annotation, DestroyAnnotation(a)
       PROVE  Sound' /\ SchemasStay
  BY <1>14, AnnotationDestroyed DEF DestroyAnnotation, SchemasStay
<1>15. ASSUME UpdateSchemaInvalid PROVE Sound' /\ SchemasStay
  BY <1>15, SchemaUpdateInvalid DEF UpdateSchemaInvalid, SchemasStay
<1>16. SchemasStay => NamesKept
  BY DEF SchemasStay, NamesKept
<1>17. QED
  BY <1>1, <1>2, <1>3, <1>4, <1>5, <1>6, <1>7, <1>8, <1>9, <1>10, <1>11,
     <1>12, <1>13, <1>14, <1>15, <1>16 DEF Request

(* Records are sound until a change is left half-made, what is left then is*)
(* still typed, and a storage that commits whole requests leaves nothing   *)
(* half-made.                                                              *)
IInv == /\ Typed /\ DefaultsAgree /\ half \in BOOLEAN
        /\ ~half => Sound
        /\ Commits => ~half

LEMMA Step ==
  ASSUME IInv, Next
  PROVE  IInv' /\ NamesKept
<1>1. ASSUME ~half, Request, half' = FALSE PROVE IInv' /\ NamesKept
  BY <1>1, SoundStep DEF IInv, Sound
<1>2. ASSUME ~half, half' = TRUE,
             NEW i \in DOMAIN item, NEW s \in Schema,
             NEW done \in SUBSET ChildrenOf({i}), NEW to \in ChoicesFor(done),
             UpdateItemSchemaFails(i, s, to, done)
      PROVE  IInv' /\ NamesKept
  <2>1. Typed' /\ DefaultsAgree' /\ NamesKept
    BY <1>2, ItemSchemaUpdateFailed DEF IInv
  <2>2. ~Commits
    BY <1>2 DEF UpdateItemSchemaFails
  <2>3. QED
    BY <1>2, <2>1, <2>2 DEF IInv
<1>3. ASSUME half, UNCHANGED vars PROVE IInv' /\ NamesKept
  <2>1. Typed' /\ DefaultsAgree'
    BY <1>3 DEF IInv, vars, Typed, SchemaTyped, FieldTyped, ItemTyped,
                AnnotationTyped, Nested, DefaultsAgree
  <2>2. half' = half /\ NamesKept
    BY <1>3 DEF vars, NamesKept
  <2>3. QED
    BY <1>3, <2>1, <2>2 DEF IInv
<1>4. QED
  BY <1>1, <1>2, <1>3 DEF Next

LEMMA IInvAlways == Spec => []IInv
<1>1. Init => IInv
  <2>1. Init => Sound
    BY FS_EmptySet
    DEF Init, Sound, Typed, SchemaTyped, FieldTyped, ItemTyped,
        AnnotationTyped, Nested, SchemasExist, FieldsOfItsSchema,
        AutoSchemasServeOne, AutoFieldsServeOne, DefaultsAgree
  <2>2. QED
    BY <2>1 DEF Init, IInv, Sound
<1>2. IInv /\ [Next]_vars => IInv'
  <2>1. ASSUME IInv, UNCHANGED vars PROVE IInv'
    <3>1. Typed' /\ DefaultsAgree' /\ half' = half
      BY <2>1 DEF vars, IInv, Typed, SchemaTyped, FieldTyped, ItemTyped,
                  AnnotationTyped, Nested, DefaultsAgree
    <3>2. Sound => Sound'
      BY <2>1, <3>1
      DEF vars, Sound, SchemasExist, FieldsOfItsSchema, AutoSchemasServeOne,
          AutoFieldsServeOne, ServesItem, ServesAnnotation
    <3>3. QED
      BY <2>1, <3>1, <3>2 DEF IInv
  <2>2. QED
    BY <2>1, Step
<1>3. QED
  BY <1>1, <1>2, PTL DEF Spec

(* Every reference of a record of a project is to a record that exists, and*)
(* an annotation extracts into a field of the schema of its item, whatever *)
(* users create, change and delete, though the request that deletes does   *)
(* not load all that could refer to what it deletes: always, if the storage*)
(* commits whole requests (GitStorage), otherwise (FsStorage) until a      *)
(* change of an item's schema fails at an item nested in it.               *)
THEOREM NoReferenceDangles ==
  Spec => /\ []ReferencesHold
          /\ Commits => [](SchemasExist /\ FieldsOfItsSchema)
<1>1. IInv => ReferencesHold
  <2>1. ASSUME IInv PROVE TypeOK
    BY <2>1 DEF IInv, Typed, SchemaTyped, FieldTyped, ItemTyped,
                AnnotationTyped, Nested, TypeOK
  <2>2. QED
    BY <2>1 DEF IInv, Sound, ReferencesHold
<1>2. IInv /\ Commits => SchemasExist /\ FieldsOfItsSchema
  BY DEF IInv, Sound
<1>3. CASE Commits
  <2>1. IInv => SchemasExist /\ FieldsOfItsSchema
    BY <1>2, <1>3
  <2>2. QED
    BY <1>1, <2>1, IInvAlways, PTL
<1>4. CASE ~Commits
  BY <1>1, <1>4, IInvAlways, PTL
<1>5. QED
  BY <1>3, <1>4

(* A schema or field that was created for a record has this record as its  *)
(* only user, so it can be deleted with it: until, with FsStorage, a change*)
(* of an item's schema is left half-made.                                  *)
THEOREM AutoCreatedServesOne == Spec => []AutoCreatedHasOneUser
<1>1. IInv => AutoCreatedHasOneUser
  <2>1. ASSUME Sound, NEW s \in DOMAIN schema, schema[s].auto
        PROVE  Cardinality(ItemsOf(s)) = 1
    <3>1. PICK i : ServesItem(s, i)
      BY <2>1 DEF Sound, AutoSchemasServeOne
    <3>2. ItemsOf(s) = {i}
      BY <3>1 DEF ItemsOf, ServesItem
    <3>3. QED
      BY <3>2, FS_Singleton
  <2>2. ASSUME Sound, NEW f \in DOMAIN field, field[f].auto
        PROVE  Cardinality(UsersOf(f)) = 1
    <3>1. PICK a : ServesAnnotation(f, a)
      BY <2>2 DEF Sound, AutoFieldsServeOne
    <3>2. UsersOf(f) = {a}
      BY <3>1 DEF UsersOf, ServesAnnotation
    <3>3. QED
      BY <3>2, FS_Singleton
  <2>3. QED
    BY <2>1, <2>2 DEF IInv, AutoCreatedHasOneUser
<1>2. QED
  BY <1>1, IInvAlways, PTL

(* There is at most one default schema for new samples, whatever requests  *)
(* fail.                                                                   *)
THEOREM DefaultIsUnique == Spec => []OneDefaultSchema
<1>1. IInv => OneDefaultSchema
  <2> SUFFICES ASSUME IInv PROVE OneDefaultSchema
    OBVIOUS
  <2> DEFINE defaults == {s \in DOMAIN schema : schema[s].default}
  <2>1. CASE defaults = {}
    BY <2>1, FS_EmptySet DEF OneDefaultSchema
  <2>2. CASE defaults # {}
    <3>1. PICK s : s \in defaults
      BY <2>2
    <3>2. defaults = {s}
      BY <3>1 DEF IInv, DefaultsAgree
    <3> HIDE DEF defaults
    <3>3. Cardinality(defaults) = 1
      BY <3>2, FS_Singleton
    <3>4. QED
      BY <3>3 DEF OneDefaultSchema, defaults
  <2>3. QED
    BY <2>1, <2>2
<1>2. QED
  BY <1>1, IInvAlways, PTL

(* Data keeps its names when an item changes its schema, and also when the *)
(* change is left half-made.                                               *)
THEOREM NamesSurvive == Spec => SchemaChangeKeepsNames
<1>1. IInv /\ [Next]_vars => [NamesKept]_vars
  BY Step
<1>2. QED
  BY <1>1, IInvAlways, PTL DEF Spec, SchemaChangeKeepsNames, NamesKept
============================================================================
