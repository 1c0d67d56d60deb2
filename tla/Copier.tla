------------------------------- MODULE Copier -------------------------------
(***************************************************************************)
(* Copying spiders and schemas from one project into another               *)
(* (ModelCopier), one saved model after the other.  The copier reads what  *)
(* the project has when it starts, keeps a copy's original in dictionaries *)
(* so that what was shared stays shared, and picks names that are free.    *)
(* A sample without a stored page stops it half-way.  The projects are     *)
(* different ones, and items are not nested.                               *)
(***************************************************************************)
EXTENDS Naturals, Sequences, SequencesExt, Functions

CONSTANTS Base,      \* names of spiders; a number may be appended
          MaxNumber, \* bound on it
          Schema

VARIABLES from,      \* the other project: id -> sequence of samples
          to,        \* this one: id -> [settings, samples]
          asked,     \* the models of the request
          todo,      \* what it still has to copy
          into,      \* the spider it is copying into
          ids,       \* the spiders when it started
          copied,    \* schema -> its copy
          made       \* counts the times a schema was to be copied

vars == <<from, to, asked, todo, into, ids, copied, made>>

\* <<b, 0>> is the name b, <<b, 1>> the name b_1.
Id == Base \X (0..MaxNumber)
Samples == [schema : Schema, page : BOOLEAN]
Own == <<>>

Init ==
  /\ \E I \in SUBSET Id : from \in [I -> {s \in SeqOf(Samples, 1) : s # <<>>}]
  /\ \E I \in SUBSET Id : to = [i \in I |-> [settings |-> Own, samples |-> {}]]
  /\ asked = <<>> /\ todo = <<>> /\ into = Own /\ ids = {} /\ copied = <<>> /\ made = 0

\* Mutant: the names are not compared.
FirstName(id) == id

\* A number is appended, or the one it has counted up, while it is taken.
UniqueId(id) == CHOOSE new \in {id[1]} \X (id[2]..MaxNumber + 1) :
  /\ new \notin ids
  /\ \A n \in id[2]..new[2] - 1 : <<id[1], n>> \in ids

\* Mutant: a copy is not looked for.
CopyAgain(s) == [t \in DOMAIN copied \cup {s} |-> IF t = s THEN made + 1 ELSE copied[t]]

CopyOf(s) ==
  [t \in DOMAIN copied \cup {s} |-> IF t \in DOMAIN copied THEN copied[t] ELSE made + 1]

-----------------------------------------------------------------------------
\* Spiders come first, then the schemas on their own.
Group(spiders, schemas) ==
  [i \in DOMAIN spiders |-> [do |-> "spider", of |-> spiders[i]]]
    \o [i \in DOMAIN schemas |-> [do |-> "schema", of |-> schemas[i]]]

Copy(spiders, schemas) ==
  /\ asked = <<>> /\ spiders \o schemas # <<>>
  /\ Range(spiders) \subseteq DOMAIN from
  /\ asked' = spiders \o schemas /\ todo' = Group(spiders, schemas)
  /\ ids' = DOMAIN to
  /\ UNCHANGED <<from, to, into, copied, made>>

Doing(do) == todo # <<>> /\ Head(todo).do = do

\* The samples of a spider are copied after it, before the next one.  The bound:
\* a free name exists.  A spider of that name keeps its samples.
SamplesOf(id) == [j \in DOMAIN from[id] |-> [do |-> "sample", of |-> <<id, j>>]]

CopySpider ==
  LET id == Head(todo).of
      new == UniqueId(id)
  IN
  /\ Doing("spider")
  /\ \E n \in id[2]..MaxNumber : <<id[1], n>> \notin ids
  /\ to' = [i \in DOMAIN to \cup {new} |->
             IF i # new THEN to[i]
             ELSE [settings |-> id,
                   samples |-> IF new \in DOMAIN to THEN to[new].samples ELSE {}]]
  /\ into' = new /\ todo' = SamplesOf(id) \o Tail(todo)
  /\ UNCHANGED <<from, asked, ids, copied, made>>

\* The sample with its pages, then the schema of its item, then the item.
CopySample ==
  LET of == Head(todo).of
      sample == from[of[1]][of[2]]
      schemas == CopyOf(sample.schema)
  IN
  /\ Doing("sample")
  /\ IF sample.page
     THEN /\ copied' = schemas /\ made' = made + 1
          /\ to' = [to EXCEPT ![into].samples =
                      @ \cup {[of |-> of, schema |-> schemas[sample.schema]]}]
          /\ todo' = Tail(todo)
     ELSE /\ todo' = <<>> /\ UNCHANGED <<to, copied, made>>
  /\ UNCHANGED <<from, asked, into, ids>>

CopySchema ==
  LET s == Head(todo).of IN
  /\ Doing("schema")
  /\ copied' = CopyOf(s) /\ made' = made + 1
  /\ todo' = Tail(todo)
  /\ UNCHANGED <<from, asked, to, into, ids>>

Next ==
  \/ \E spiders \in {s \in SeqOf(Id, 2) : IsInjective(s)},
        schemas \in SeqOf(Schema, 1) : Copy(spiders, schemas)
  \/ CopySpider \/ CopySample \/ CopySchema

Spec == Init /\ [][Next]_vars

-----------------------------------------------------------------------------
(* "Populating projects to avoid overwrites" (copy.py:20): no spider that  *)
(* the project had is touched, whatever the names.                         *)
OwnSpidersKept == [][\A id \in ids : to'[id] = to[id]]_vars

(* Samples that shared a schema share its copy; others have others.        *)
CopiesShareSchemas ==
  \A id, other \in DOMAIN to :
    \A x \in to[id].samples, y \in to[other].samples :
      x.schema = y.schema <=> from[x.of[1]][x.of[2]].schema
                                = from[y.of[1]][y.of[2]].schema
=============================================================================
