----------------------------- MODULE OrmProofs -----------------------------
(***************************************************************************)
(* The snapshots of the object-relational mapping (Orm) are seen as the    *)
(* store of values of Store, for any schemas, fields and names.            *)
(***************************************************************************)
EXTENDS Storage, TLAPS

Model == Unsaved!Model
Nodes == Model \cup {Project}
Views == {"working", "staged", "committed"}

-----------------------------------------------------------------------------
(* What the snapshots of one model hold: a value or none.                  *)

At(d, view, k) == IF k \in DOMAIN d[view] THEN <<d[view][k]>> ELSE <<>>
First(a, b) == IF a = <<>> THEN b ELSE a
OrNone(a) == IF a = <<>> THEN None ELSE a[1]
Kept(d, k) == First(At(d, "staged", k), At(d, "committed", k))
Read(d, k) == First(At(d, "working", k), Kept(d, k))

IsData(d) == DOMAIN d = Views

LEMMA AtIs ==
  ASSUME NEW d, NEW view, NEW k
  PROVE  /\ At(d, view, k) # <<>> <=> k \in DOMAIN d[view]
         /\ k \in DOMAIN d[view] => At(d, view, k) = <<d[view][k]>>
                                    /\ OrNone(At(d, view, k)) = d[view][k]
BY DEF At, OrNone

LEMMA FirstIs ==
  /\ \A a : First(<<>>, a) = a
  /\ \A x, a : First(<<x>>, a) = <<x>> /\ OrNone(<<x>>) = x /\ <<x>> # <<>> /\ <<x>>[1] = x
  /\ \A x, y : <<x>> = <<y>> => x = y
  /\ OrNone(<<>>) = None
<1>1. \A x : <<x>> # <<>> /\ <<x>>[1] = x
  OBVIOUS
<1>2. \A x, y : <<x>> = <<y>> => x = y
  OBVIOUS
<1>3. QED
  BY <1>1, <1>2 DEF First, OrNone

LEMMA KeptIs ==
  ASSUME NEW d, NEW k
  PROVE  /\ At(d, "staged", k) = <<>> => Kept(d, k) = At(d, "committed", k)
         /\ At(d, "staged", k) # <<>> => Kept(d, k) = At(d, "staged", k)
         /\ At(d, "working", k) = <<>> => Read(d, k) = Kept(d, k)
         /\ At(d, "working", k) # <<>> => Read(d, k) = At(d, "working", k)
BY DEF Kept, Read, First

LEMMA SetIs ==
  ASSUME NEW d, IsData(d), NEW view \in Views, NEW k, NEW x
  PROVE  /\ IsData(Unsaved!Set(d, view, k, x))
         /\ \A v \in Views : \A j : At(Unsaved!Set(d, view, k, x), v, j) =
              IF v = view /\ j = k THEN <<x>> ELSE At(d, v, j)
BY DEF Unsaved!Set, Unsaved!Updated, At, IsData

LEMMA CopiedIs ==
  ASSUME NEW d, IsData(d), NEW at \in Views, NEW views, NEW ks
  PROVE  /\ IsData(Unsaved!Copied(d, at, views, ks))
         /\ \A v \in Views : \A j : At(Unsaved!Copied(d, at, views, ks), v, j) =
              IF v = at /\ j \in ks THEN <<Unsaved!Get(d, j, views)>> ELSE At(d, v, j)
BY DEF Unsaved!Copied, Unsaved!Updated, At, IsData

LEMMA WithoutIs ==
  ASSUME NEW d, IsData(d), NEW view \in Views, NEW ks
  PROVE  /\ IsData(Unsaved!Without(d, view, ks))
         /\ \A v \in Views : \A j : At(Unsaved!Without(d, view, ks), v, j) =
              IF v = view /\ j \in ks THEN <<>> ELSE At(d, v, j)
BY DEF Unsaved!Without, At, IsData

LEMMA GetIs ==
  ASSUME NEW d, IsData(d), NEW k
  PROVE  /\ Unsaved!Get(d, k, Unsaved!All) = OrNone(Read(d, k))
         /\ Unsaved!Get(d, k, Unsaved!Stored) = OrNone(Kept(d, k))
         /\ Unsaved!Get(d, k, Unsaved!OrCommitted)
              = OrNone(First(At(d, "working", k), At(d, "committed", k)))
         /\ Unsaved!Get(d, k, <<"working">>) = OrNone(At(d, "working", k))
<1> DEFINE Sees(views, i) == /\ i \in DOMAIN views /\ k \in DOMAIN d[views[i]]
                             /\ \A j \in 1..i - 1 : k \notin DOMAIN d[views[j]]
<1>1. ASSUME NEW views, NEW i, Sees(views, i), \A j \in DOMAIN views : Sees(views, j) => j = i
      PROVE  Unsaved!Get(d, k, views) = d[views[i]][k]
  <2>1. Unsaved!Has(d, k, views)
    BY <1>1 DEF Unsaved!Has
  <2>2. i = CHOOSE j \in DOMAIN views : /\ k \in DOMAIN d[views[j]]
                                        /\ \A l \in 1..j - 1 : k \notin DOMAIN d[views[l]]
    BY <1>1
  <2>3. QED
    BY <2>1, <2>2 DEF Unsaved!Get
<1>2. ASSUME NEW views, \A i \in DOMAIN views : k \notin DOMAIN d[views[i]]
      PROVE  Unsaved!Get(d, k, views) = None
  BY <1>2 DEF Unsaved!Get, Unsaved!Has
<1> HIDE DEF Sees
<1>3. \A view \in Views : k \in DOMAIN d[view] <=> At(d, view, k) # <<>>
  BY AtIs
<1>4. \A view \in Views : k \in DOMAIN d[view] => OrNone(At(d, view, k)) = d[view][k]
  BY AtIs
<1>5. OrNone(<<>>) = None
  BY DEF OrNone
<1>6. Unsaved!Get(d, k, Unsaved!All) = OrNone(Read(d, k))
  <2> DEFINE views == Unsaved!All
  <2>1. DOMAIN views = 1..3 /\ views[1] = "working" /\ views[2] = "staged" /\ views[3] = "committed"
    BY DEF Unsaved!All
  <2> HIDE DEF views
  <2>2. CASE k \in DOMAIN d["working"]
    <3>1. Sees(views, 1) /\ \A j \in DOMAIN views : Sees(views, j) => j = 1
      BY <2>1, <2>2 DEF Sees
    <3>2. QED
      BY <1>1, <1>3, <1>4, <2>1, <2>2, <3>1 DEF Read, First, views, Views
  <2>3. CASE k \notin DOMAIN d["working"] /\ k \in DOMAIN d["staged"]
    <3>1. Sees(views, 2) /\ \A j \in DOMAIN views : Sees(views, j) => j = 2
      BY <2>1, <2>3 DEF Sees
    <3>2. QED
      BY <1>1, <1>3, <1>4, <2>1, <2>3, <3>1 DEF Read, Kept, First, views, Views
  <2>4. CASE /\ k \notin DOMAIN d["working"] /\ k \notin DOMAIN d["staged"]
             /\ k \in DOMAIN d["committed"]
    <3>1. Sees(views, 3) /\ \A j \in DOMAIN views : Sees(views, j) => j = 3
      BY <2>1, <2>4 DEF Sees
    <3>2. QED
      BY <1>1, <1>3, <1>4, <2>1, <2>4, <3>1 DEF Read, Kept, First, views, Views
  <2>5. CASE /\ k \notin DOMAIN d["working"] /\ k \notin DOMAIN d["staged"]
             /\ k \notin DOMAIN d["committed"]
    <3>1. Unsaved!Get(d, k, views) = None
      BY <1>2, <2>1, <2>5
    <3>2. QED
      BY <1>3, <1>5, <2>5, <3>1 DEF Read, Kept, First, views, Views
  <2>6. QED
    BY <2>2, <2>3, <2>4, <2>5
<1>7. ASSUME NEW view \in {"staged", "working"}, NEW views, views = <<view, "committed">>
      PROVE  Unsaved!Get(d, k, views) = OrNone(First(At(d, view, k), At(d, "committed", k)))
  <2>1. DOMAIN views = 1..2 /\ views[1] = view /\ views[2] = "committed"
    BY <1>7
  <2>2. CASE k \in DOMAIN d[view]
    <3>1. Sees(views, 1) /\ \A j \in DOMAIN views : Sees(views, j) => j = 1
      BY <2>1, <2>2 DEF Sees
    <3>2. QED
      BY <1>1, <1>3, <1>4, <2>1, <2>2, <3>1 DEF First, Views
  <2>3. CASE k \notin DOMAIN d[view] /\ k \in DOMAIN d["committed"]
    <3>1. Sees(views, 2) /\ \A j \in DOMAIN views : Sees(views, j) => j = 2
      BY <2>1, <2>3 DEF Sees
    <3>2. QED
      BY <1>1, <1>3, <1>4, <2>1, <2>3, <3>1 DEF First, Views
  <2>4. CASE k \notin DOMAIN d[view] /\ k \notin DOMAIN d["committed"]
    <3>1. Unsaved!Get(d, k, views) = None
      BY <1>2, <2>1, <2>4
    <3>2. QED
      BY <1>3, <1>5, <2>4, <3>1 DEF First, Views
  <2>5. QED
    BY <2>2, <2>3, <2>4
<1>8. Unsaved!Get(d, k, <<"working">>) = OrNone(At(d, "working", k))
  <2> DEFINE views == <<"working">>
  <2>1. DOMAIN views = 1..1 /\ views[1] = "working"
    OBVIOUS
  <2> HIDE DEF views
  <2>2. CASE k \in DOMAIN d["working"]
    <3>1. Sees(views, 1) /\ \A j \in DOMAIN views : Sees(views, j) => j = 1
      BY <2>1, <2>2 DEF Sees
    <3>2. QED
      BY <1>1, <1>4, <2>1, <2>2, <3>1 DEF views, Views
  <2>3. CASE k \notin DOMAIN d["working"]
    <3>1. Unsaved!Get(d, k, views) = None
      BY <1>2, <2>1, <2>3
    <3>2. QED
      BY <1>3, <1>5, <2>3, <3>1 DEF views, Views
  <2>4. QED
    BY <2>2, <2>3
<1>9. QED
  BY <1>6, <1>7, <1>8 DEF Unsaved!Stored, Unsaved!OrCommitted, Kept

-----------------------------------------------------------------------------
(* Snapshots of all models, and the file.                                  *)

IsSnaps(s) == DOMAIN s = Nodes /\ \A m \in Nodes : IsData(s[m])

\* A list that is empty may as well be missing.
Holds(a, S) == a = <<S>> \/ (S = {} /\ a = <<>>)

Owned(f, o) == {m \in DOMAIN f : f[m].owner = o}

IsFile(f) ==
  /\ DOMAIN f \subseteq Model
  /\ f = [m \in DOMAIN f |-> [owner |-> f[m].owner, name |-> f[m].name, auto |-> f[m].auto]]
  /\ \A m \in DOMAIN f :
       \/ m \in Schema /\ f[m].owner = Project
       \/ m \in Field /\ f[m].owner \in Schema \cap DOMAIN f

LEMMA ModelsAre ==
  /\ Model = Schema \cup Field /\ Schema \cap Field = {} /\ Project \notin Model
  /\ None \notin Nodes /\ Nodes = Model \cup {Project} /\ None \notin SUBSET Model
BY ModelAssumption DEF Model, Nodes, Unsaved!Model

LEMMA OwnedIs ==
  ASSUME NEW f, IsFile(f)
  PROVE  /\ Owned(f, Project) = Schema \cap DOMAIN f
         /\ \A o : Owned(f, o) \subseteq Model
         /\ \A o \in Field : Owned(f, o) = {}
         /\ \A o \in Model : o \notin DOMAIN f => Owned(f, o) = {}
         /\ \A o \in Schema : Owned(f, o) = {m \in Field \cap DOMAIN f : f[m].owner = o}
         /\ \A m \in DOMAIN f : m \in Owned(f, f[m].owner)
BY ModelsAre DEF Owned, IsFile

LEMMA ListIs ==
  ASSUME NEW s, IsSnaps(s), NEW o \in Nodes, NEW S \in SUBSET Model
  PROVE  /\ Holds(Kept(s[o], "members"), S) => Unsaved!MembersOf(s, o, Unsaved!Stored) = S
         /\ Holds(Read(s[o], "members"), S) => Unsaved!MembersOf(s, o, Unsaved!All) = S
<1>1. IsData(s[o])
  BY DEF IsSnaps
<1>2. ASSUME NEW a, Holds(a, S)
      PROVE  OrNone(a) = S \/ (S = {} /\ OrNone(a) = None)
  BY <1>2 DEF Holds, OrNone
<1>3. S # None
  BY ModelsAre
<1>4. QED
  BY <1>1, <1>2, <1>3, GetIs DEF Unsaved!MembersOf

LEMMA OwnerIs ==
  ASSUME NEW s, IsSnaps(s), NEW m \in Nodes
  PROVE  /\ Unsaved!OwnerOf(s, m, Unsaved!Stored) = OrNone(Kept(s[m], "owner"))
         /\ Unsaved!OwnerOf(s, m, Unsaved!All) = OrNone(Read(s[m], "owner"))
BY GetIs DEF Unsaved!OwnerOf, IsSnaps

\* What would be written is the file f.
StoredAs(s, f) ==
  /\ IsSnaps(s)
  /\ Unsaved!MembersOf(s, Project, Unsaved!Stored) = Owned(f, Project)
  /\ \A m \in Schema \cap DOMAIN f : Unsaved!MembersOf(s, m, Unsaved!Stored) = Owned(f, m)
  /\ \A m \in DOMAIN f : /\ Kept(s[m], "name") = <<f[m].name>>
                           /\ Kept(s[m], "auto") = <<f[m].auto>>

LEMMA HasIs ==
  ASSUME NEW s, IsSnaps(s), NEW m \in Nodes
  PROVE  Unsaved!Has(s[m], "name", Unsaved!Stored) <=> Kept(s[m], "name") # <<>>
<1>1. Unsaved!Has(s[m], "name", Unsaved!Stored)
        <=> "name" \in DOMAIN s[m]["staged"] \/ "name" \in DOMAIN s[m]["committed"]
  BY DEF Unsaved!Has, Unsaved!Stored
<1>2. QED
  BY <1>1, AtIs DEF Kept, First

LEMMA DumpIs ==
  ASSUME NEW s, NEW f, IsFile(f), StoredAs(s, f)
  PROVE  Unsaved!CanDump(s) /\ Unsaved!Dump(s) = f
<1> DEFINE schemas == Unsaved!SchemasIn(s)
           fields == Unsaved!FieldsIn(s)
<1>1. schemas = Schema \cap DOMAIN f
  BY OwnedIs DEF StoredAs, Unsaved!SchemasIn
<1>2. \A o \in schemas : Unsaved!MembersOf(s, o, Unsaved!Stored) = Owned(f, o)
  BY <1>1 DEF StoredAs
<1>3. fields = Field \cap DOMAIN f
  <2>1. fields = UNION {Owned(f, o) : o \in schemas}
    BY <1>2 DEF Unsaved!FieldsIn
  <2>2. \A m \in Field \cap DOMAIN f : f[m].owner \in schemas /\ m \in Owned(f, f[m].owner)
    BY <1>1, ModelsAre DEF IsFile, Owned
  <2>3. \A o \in schemas : Owned(f, o) \subseteq Field \cap DOMAIN f
    BY <1>1, OwnedIs
  <2> HIDE DEF schemas, fields
  <2>4. QED
    BY <2>1, <2>2, <2>3
<1>4. schemas \cup fields = DOMAIN f /\ DOMAIN f \subseteq Nodes
  BY <1>1, <1>3, ModelsAre DEF IsFile
<1>5. \A m \in DOMAIN f :
        /\ Unsaved!Has(s[m], "name", Unsaved!Stored)
        /\ Unsaved!Get(s[m], "name", Unsaved!Stored) = f[m].name
        /\ Unsaved!Get(s[m], "auto", Unsaved!Stored) = f[m].auto
  BY <1>4, HasIs, GetIs DEF StoredAs, IsSnaps, OrNone
<1>6. \A m \in DOMAIN f : f[m].owner =
        IF m \in schemas THEN Project
        ELSE CHOOSE o \in schemas : m \in Unsaved!MembersOf(s, o, Unsaved!Stored)
  <2> TAKE m \in DOMAIN f
  <2>1. CASE m \in schemas
    BY <1>1, <2>1, ModelsAre DEF IsFile
  <2>2. CASE m \notin schemas
    <3>1. f[m].owner \in schemas /\ \A o \in schemas : m \in Owned(f, o) <=> o = f[m].owner
      BY <1>1, <2>2, ModelsAre DEF IsFile, Owned
    <3> HIDE DEF schemas
    <3>2. \A o \in schemas : m \in Unsaved!MembersOf(s, o, Unsaved!Stored) <=> o = f[m].owner
      BY <1>2, <3>1
    <3>3. QED
      BY <2>2, <3>1, <3>2
  <2>3. QED
    BY <2>1, <2>2
<1>7. Unsaved!CanDump(s)
  BY <1>4, <1>5 DEF Unsaved!CanDump
<1>8. Unsaved!Dump(s) = [m \in schemas \cup fields |->
        [owner |-> IF m \in schemas THEN Project
                   ELSE CHOOSE o \in schemas : m \in Unsaved!MembersOf(s, o, Unsaved!Stored),
         name |-> Unsaved!Get(s[m], "name", Unsaved!Stored),
         auto |-> Unsaved!Get(s[m], "auto", Unsaved!Stored)]]
  BY DEF Unsaved!Dump
<1> HIDE DEF schemas, fields
<1>9. Unsaved!Dump(s) =
        [m \in DOMAIN f |-> [owner |-> f[m].owner, name |-> f[m].name, auto |-> f[m].auto]]
  BY <1>4, <1>5, <1>6, <1>8
<1>10. QED
  BY <1>7, <1>9 DEF IsFile

-----------------------------------------------------------------------------
(* Between requests' steps, the snapshots are what the file says, but for  *)
(* the names (or marks) a request has given and not saved.                 *)

Mirrored(d, f, m) ==
  /\ \A k : /\ At(d, "staged", k) = <<>>
            /\ k \notin {"name", "auto"} => At(d, "working", k) = <<>>
  /\ At(d, "committed", "name") = <<f[m].name>>
  /\ At(d, "committed", "auto") = <<f[m].auto>>
  /\ At(d, "committed", "owner") = <<f[m].owner>>
  /\ Holds(At(d, "committed", "members"), Owned(f, m))

\* A model that was deleted, or is not there yet.
Blank(d) == \A k : At(d, "staged", k) = <<>> /\ At(d, "committed", k) = <<>>

\* The list of schemas: once a schema was deleted, it is staged and the
\* committed list still has what was deleted.
Listed(d, f) ==
  /\ \A k : /\ At(d, "working", k) = <<>>
            /\ k # "members" => At(d, "staged", k) = <<>>
  /\ \E C \in SUBSET Schema :
       /\ At(d, "committed", "members") = <<C>> /\ Owned(f, Project) \subseteq C
       /\ \/ At(d, "staged", "members") = <<Owned(f, Project)>>
          \/ At(d, "staged", "members") = <<>> /\ C = Owned(f, Project)

Mirrors(s, f) ==
  /\ IsSnaps(s) /\ IsFile(f)
  /\ \A m \in DOMAIN f : Mirrored(s[m], f, m)
  /\ \A m \in Model : m \notin DOMAIN f => Blank(s[m])
  /\ Listed(s[Project], f)

Given(d, k, x) == IF At(d, "working", k) = <<>> THEN x ELSE At(d, "working", k)[1]

Shows(s, f) ==
  [m \in DOMAIN f |-> [owner |-> f[m].owner,
                       name |-> Given(s[m], "name", f[m].name),
                       auto |-> Given(s[m], "auto", f[m].auto)]]

LEMMA MirroredIs ==
  ASSUME NEW s, NEW f, Mirrors(s, f), NEW m \in DOMAIN f
  PROVE  /\ m \in Model /\ m \in Nodes /\ IsData(s[m])
         /\ Kept(s[m], "name") = <<f[m].name>> /\ Kept(s[m], "auto") = <<f[m].auto>>
         /\ Kept(s[m], "owner") = <<f[m].owner>> /\ Read(s[m], "owner") = <<f[m].owner>>
         /\ Holds(Kept(s[m], "members"), Owned(f, m))
         /\ Holds(Read(s[m], "members"), Owned(f, m))
         /\ Unsaved!MembersOf(s, m, Unsaved!Stored) = Owned(f, m)
         /\ Unsaved!MembersOf(s, m, Unsaved!All) = Owned(f, m)
         /\ Unsaved!OwnerOf(s, m, Unsaved!Stored) = f[m].owner
         /\ Unsaved!OwnerOf(s, m, Unsaved!All) = f[m].owner
         /\ f[m].owner \in Nodes /\ f[m].owner # None /\ f[m].owner # m
<1>1. m \in Model /\ m \in Nodes /\ IsData(s[m]) /\ IsSnaps(s)
  BY ModelsAre DEF Mirrors, IsFile, IsSnaps
<1>2. Mirrored(s[m], f, m) /\ IsFile(f)
  BY DEF Mirrors
<1>3. /\ Kept(s[m], "name") = <<f[m].name>> /\ Kept(s[m], "auto") = <<f[m].auto>>
      /\ Kept(s[m], "owner") = <<f[m].owner>> /\ Read(s[m], "owner") = <<f[m].owner>>
      /\ Kept(s[m], "members") = At(s[m], "committed", "members")
      /\ Read(s[m], "members") = At(s[m], "committed", "members")
  <2>1. \A k : Kept(s[m], k) = At(s[m], "committed", k)
    BY <1>2, KeptIs DEF Mirrored
  <2>2. \A k : k \notin {"name", "auto"} => Read(s[m], k) = Kept(s[m], k)
    BY <1>2, KeptIs DEF Mirrored
  <2>3. QED
    BY <1>2, <2>1, <2>2 DEF Mirrored
<1>4. Owned(f, m) \in SUBSET Model
  BY <1>2, OwnedIs
<1>5. f[m].owner \in Nodes /\ f[m].owner # None /\ f[m].owner # m
  BY <1>1, <1>2, ModelsAre DEF IsFile
<1>6. /\ Unsaved!MembersOf(s, m, Unsaved!Stored) = Owned(f, m)
      /\ Unsaved!MembersOf(s, m, Unsaved!All) = Owned(f, m)
  BY <1>1, <1>2, <1>3, <1>4, ListIs DEF Mirrored
<1>7. /\ Unsaved!OwnerOf(s, m, Unsaved!Stored) = f[m].owner
      /\ Unsaved!OwnerOf(s, m, Unsaved!All) = f[m].owner
  BY <1>1, <1>3, OwnerIs DEF OrNone
<1>8. QED
  BY <1>1, <1>2, <1>3, <1>5, <1>6, <1>7 DEF Mirrored

LEMMA ListedIs ==
  ASSUME NEW s, NEW f, Mirrors(s, f)
  PROVE  /\ Project \in Nodes /\ IsData(s[Project])
         /\ Kept(s[Project], "members") = <<Owned(f, Project)>>
         /\ Read(s[Project], "members") = <<Owned(f, Project)>>
         /\ Unsaved!MembersOf(s, Project, Unsaved!Stored) = Owned(f, Project)
         /\ Unsaved!MembersOf(s, Project, Unsaved!All) = Owned(f, Project)
<1>1. Project \in Nodes /\ IsData(s[Project]) /\ IsSnaps(s)
  BY ModelsAre DEF Mirrors, IsSnaps
<1>2. Listed(s[Project], f) /\ IsFile(f)
  BY DEF Mirrors
<1>3. /\ Kept(s[Project], "members") = <<Owned(f, Project)>>
      /\ Read(s[Project], "members") = <<Owned(f, Project)>>
  <2>1. Kept(s[Project], "members") = <<Owned(f, Project)>>
    BY <1>2, KeptIs, FirstIs DEF Listed
  <2>2. Read(s[Project], "members") = Kept(s[Project], "members")
    BY <1>2, KeptIs DEF Listed
  <2>3. QED
    BY <2>1, <2>2
<1>4. Owned(f, Project) \in SUBSET Model
  BY <1>2, OwnedIs
<1>5. QED
  BY <1>1, <1>3, <1>4, ListIs DEF Holds

LEMMA MirrorsStored ==
  ASSUME NEW s, NEW f, Mirrors(s, f)
  PROVE  StoredAs(s, f)
BY MirroredIs, ListedIs DEF StoredAs, Mirrors

LEMMA ViewIs ==
  ASSUME NEW f, Mirrors(snap, f)
  PROVE  /\ Unsaved!SchemasSeen = Schema \cap DOMAIN f
         /\ Unsaved!Seen = DOMAIN f
         /\ Unsaved!View = Shows(snap, f)
<1> DEFINE schemas == Unsaved!SchemasSeen
<1>1. IsFile(f) /\ IsSnaps(snap)
  BY DEF Mirrors
<1>2. schemas = Schema \cap DOMAIN f
  BY <1>1, ListedIs, OwnedIs DEF Unsaved!SchemasSeen
<1>3. \A o \in schemas : Unsaved!MembersOf(snap, o, Unsaved!All) = Owned(f, o)
  BY <1>2, MirroredIs
<1>4. Unsaved!Seen = schemas \cup UNION {Owned(f, o) : o \in schemas}
  BY <1>3 DEF Unsaved!Seen
<1>5. \A m \in Field \cap DOMAIN f : f[m].owner \in schemas /\ m \in Owned(f, f[m].owner)
  BY <1>1, <1>2, ModelsAre DEF IsFile, Owned
<1>6. \A o \in schemas : Owned(f, o) \subseteq Field \cap DOMAIN f
  BY <1>1, <1>2, OwnedIs
<1>7. DOMAIN f \subseteq schemas \cup Field
  BY <1>1, <1>2, ModelsAre DEF IsFile
<1>8. Unsaved!Seen = DOMAIN f
  <2> HIDE DEF schemas
  <2>1. schemas \subseteq DOMAIN f
    BY <1>2
  <2>2. QED
    BY <1>4, <1>5, <1>6, <1>7, <2>1
<1>9. \A m \in DOMAIN f :
        /\ Unsaved!Get(snap[m], "owner", Unsaved!All) = f[m].owner
        /\ Unsaved!Get(snap[m], "name", Unsaved!All) = Given(snap[m], "name", f[m].name)
        /\ Unsaved!Get(snap[m], "auto", Unsaved!All) = Given(snap[m], "auto", f[m].auto)
  <2> TAKE m \in DOMAIN f
  <2>1. /\ IsData(snap[m]) /\ Read(snap[m], "owner") = <<f[m].owner>>
        /\ Kept(snap[m], "name") = <<f[m].name>> /\ Kept(snap[m], "auto") = <<f[m].auto>>
    BY MirroredIs
  <2>2. /\ OrNone(Read(snap[m], "name")) = Given(snap[m], "name", f[m].name)
        /\ OrNone(Read(snap[m], "auto")) = Given(snap[m], "auto", f[m].auto)
    <3>1. ASSUME NEW k, NEW x, Kept(snap[m], k) = <<x>>
          PROVE  OrNone(Read(snap[m], k)) = Given(snap[m], k, x)
      <4>1. CASE At(snap[m], "working", k) = <<>>
        BY <3>1, <4>1, FirstIs DEF Read, Given
      <4>2. CASE At(snap[m], "working", k) # <<>>
        BY <4>2 DEF Read, First, OrNone, Given
      <4>3. QED
        BY <4>1, <4>2
    <3>2. QED
      BY <2>1, <3>1
  <2>3. OrNone(Read(snap[m], "owner")) = f[m].owner
    BY <2>1, FirstIs
  <2>4. QED
    BY <2>1, <2>2, <2>3, GetIs
<1>10. Unsaved!View = Shows(snap, f)
  BY <1>8, <1>9 DEF Unsaved!View, Shows
<1>11. QED
  BY <1>2, <1>8, <1>10

-----------------------------------------------------------------------------
(* Staging and committing.                                                 *)

LEMMA RelatedIs ==
  ASSUME NEW s, NEW m
  PROVE  LET o == Unsaved!OwnerOf(s, m, Unsaved!Stored)
             members == Unsaved!MembersOf(s, m, Unsaved!Stored)
             related == Unsaved!Related(s, m)
         IN  /\ DOMAIN related = members \cup ({o} \ {None})
             /\ \A r \in DOMAIN related : related[r] = IF r = o THEN "members" ELSE "owner"
BY DEF Unsaved!Related

LEMMA DirtyIs ==
  ASSUME NEW d, NEW k
  PROVE  k \in Unsaved!Dirty(d) <=> /\ At(d, "working", k) # <<>>
                                    /\ At(d, "working", k) # At(d, "committed", k)
<1>1. k \in Unsaved!Dirty(d) <=>
        /\ k \in DOMAIN d["working"]
        /\ ~(k \in DOMAIN d["committed"] /\ d["committed"][k] = d["working"][k])
  BY DEF Unsaved!Dirty
<1>2. CASE k \in DOMAIN d["working"] /\ k \in DOMAIN d["committed"]
  <2>1. At(d, "working", k) = <<d["working"][k]>> /\ At(d, "committed", k) = <<d["committed"][k]>>
    BY <1>2, AtIs
  <2>2. QED
    BY <1>1, <1>2, <2>1, FirstIs
<1>3. CASE k \notin DOMAIN d["working"] \/ k \notin DOMAIN d["committed"]
  BY <1>1, <1>3, AtIs
<1>4. QED
  BY <1>2, <1>3

\* The fields of a model that are staged first.
Mine(s, m, dirty) == [s EXCEPT ![m] = Unsaved!Copied(@, "staged", <<"working">>, dirty)]

IsMine(mine, s, m, dirty) ==
  /\ IsSnaps(mine)
  /\ \A r \in Nodes, v \in Views : \A k : At(mine[r], v, k) =
       IF r = m /\ v = "staged" /\ k \in dirty THEN At(s[m], "working", k)
       ELSE At(s[r], v, k)

LEMMA MineIs ==
  ASSUME NEW s, IsSnaps(s), NEW m \in Nodes, NEW dirty, dirty \subseteq DOMAIN s[m]["working"]
  PROVE  IsMine(Mine(s, m, dirty), s, m, dirty)
<1> DEFINE e == Unsaved!Copied(s[m], "staged", <<"working">>, dirty)
<1>1. IsData(s[m]) /\ "staged" \in Views
  BY DEF IsSnaps, Views
<1>2. /\ IsData(e)
      /\ \A v \in Views : \A k : At(e, v, k) =
           IF v = "staged" /\ k \in dirty THEN <<Unsaved!Get(s[m], k, <<"working">>)>>
           ELSE At(s[m], v, k)
  BY <1>1, CopiedIs
<1>3. \A k \in dirty : <<Unsaved!Get(s[m], k, <<"working">>)>> = At(s[m], "working", k)
  BY <1>1, GetIs, AtIs
<1>4. \A r \in Nodes : Mine(s, m, dirty)[r] = IF r = m THEN e ELSE s[r]
  BY DEF Mine, IsSnaps
<1>5. DOMAIN Mine(s, m, dirty) = Nodes
  BY DEF Mine, IsSnaps
<1> HIDE DEF e
<1>6. QED
  BY <1>2, <1>3, <1>4, <1>5 DEF IsSnaps, IsMine

\* Then the one field of each related model.
IsStaged(staged, mine, related, dirty) ==
  /\ IsSnaps(staged)
  /\ \A r \in Nodes, v \in Views : \A k : At(staged[r], v, k) =
       IF /\ r \in DOMAIN related /\ v = "staged" /\ k = related[r]
          /\ dirty # {} \/ k \in Unsaved!Dirty(mine[r])
       THEN <<OrNone(First(At(mine[r], "working", k), At(mine[r], "committed", k)))>>
       ELSE At(mine[r], v, k)

LEMMA StageFieldsIs ==
  ASSUME NEW s, IsSnaps(s), NEW m \in Nodes, NEW dirty, dirty \subseteq DOMAIN s[m]["working"]
  PROVE  LET mine == Mine(s, m, dirty)
         IN  IsStaged(Unsaved!StageFields(s, m, dirty), mine, Unsaved!Related(mine, m), dirty)
<1> DEFINE mine == Mine(s, m, dirty)
           related == Unsaved!Related(mine, m)
           staged == Unsaved!StageFields(s, m, dirty)
           refresh(r) == dirty # {} \/ related[r] \in Unsaved!Dirty(mine[r])
           copy(r) == Unsaved!Copied(mine[r], "staged", Unsaved!OrCommitted, {related[r]})
<1>1. IsSnaps(mine)
  BY MineIs DEF IsMine
<1>2. staged = [r \in DOMAIN mine |->
                  IF r \in DOMAIN related /\ refresh(r) THEN copy(r) ELSE mine[r]]
  BY DEF Unsaved!StageFields, Mine
<1>3. DOMAIN mine = Nodes /\ \A r \in Nodes : IsData(mine[r])
  BY <1>1 DEF IsSnaps
<1> HIDE DEF mine, related, staged
<1>4. \A r \in Nodes :
        /\ IsData(copy(r))
        /\ \A v \in Views : \A k : At(copy(r), v, k) =
             IF v = "staged" /\ k \in {related[r]}
             THEN <<Unsaved!Get(mine[r], k, Unsaved!OrCommitted)>> ELSE At(mine[r], v, k)
  <2> TAKE r \in Nodes
  <2>1. IsData(mine[r]) /\ "staged" \in Views
    BY <1>3 DEF Views
  <2>2. QED
    BY <2>1, CopiedIs
<1>5. \A r \in Nodes : \A k : <<Unsaved!Get(mine[r], k, Unsaved!OrCommitted)>>
        = <<OrNone(First(At(mine[r], "working", k), At(mine[r], "committed", k)))>>
  BY <1>3, GetIs
<1> HIDE DEF copy
<1>6. IsSnaps(staged)
  BY <1>2, <1>3, <1>4 DEF IsSnaps
<1>7. ASSUME NEW r \in Nodes, NEW v \in Views, NEW k
      PROVE  At(staged[r], v, k) =
               IF /\ r \in DOMAIN related /\ v = "staged" /\ k = related[r]
                  /\ dirty # {} \/ k \in Unsaved!Dirty(mine[r])
               THEN <<OrNone(First(At(mine[r], "working", k), At(mine[r], "committed", k)))>>
               ELSE At(mine[r], v, k)
  <2>1. CASE r \in DOMAIN related /\ refresh(r)
    <3>1. staged[r] = copy(r)
      BY <1>2, <1>3, <2>1
    <3>2. CASE v = "staged" /\ k = related[r]
      <4>1. At(staged[r], v, k)
              = <<OrNone(First(At(mine[r], "working", k), At(mine[r], "committed", k)))>>
        BY <1>4, <1>5, <3>1, <3>2
      <4>2. QED
        BY <2>1, <3>2, <4>1
    <3>3. CASE ~(v = "staged" /\ k = related[r])
      <4>1. At(staged[r], v, k) = At(mine[r], v, k)
        BY <1>4, <3>1, <3>3
      <4>2. QED
        BY <3>3, <4>1
    <3>4. QED
      BY <3>2, <3>3
  <2>2. CASE ~(r \in DOMAIN related /\ refresh(r))
    <3>1. staged[r] = mine[r]
      BY <1>2, <1>3, <2>2
    <3>2. ~(/\ r \in DOMAIN related /\ v = "staged" /\ k = related[r]
            /\ dirty # {} \/ k \in Unsaved!Dirty(mine[r]))
      BY <2>2
    <3>3. QED
      BY <3>1, <3>2
  <2>3. QED
    BY <2>1, <2>2
<1>8. QED
  BY <1>6, <1>7 DEF mine, related, staged, IsStaged

LEMMA CommitIs ==
  ASSUME NEW s, IsSnaps(s), NEW m \in Nodes
  PROVE  LET t == Unsaved!Commit(s, m)
             written == {m} \cup DOMAIN Unsaved!Related(s, m)
         IN  /\ IsSnaps(t)
             /\ \A r \in Nodes : r \notin written => t[r] = s[r]
             /\ \A r \in Nodes : \A k : r \in written =>
                  /\ At(t[r], "committed", k) = Kept(s[r], k)
                  /\ At(t[r], "staged", k) = <<>>
                  /\ At(t[r], "working", k) =
                       IF At(s[r], "staged", k) = <<>> THEN At(s[r], "working", k) ELSE <<>>
<1> DEFINE t == Unsaved!Commit(s, m)
           written == {m} \cup DOMAIN Unsaved!Related(s, m)
           staged(r) == DOMAIN s[r]["staged"]
           moved(r) == Unsaved!Copied(s[r], "committed", Unsaved!Stored, staged(r))
           unstaged(r) == Unsaved!Without(moved(r), "staged", staged(r))
           commit(r) == Unsaved!Without(unstaged(r), "working", staged(r))
<1>1. t = [r \in DOMAIN s |-> IF r \in written THEN commit(r) ELSE s[r]]
  BY DEF Unsaved!Commit
<1>2. DOMAIN s = Nodes /\ \A r \in Nodes : IsData(s[r])
  BY DEF IsSnaps
<1>3. "staged" \in Views /\ "committed" \in Views /\ "working" \in Views
  BY DEF Views
<1>4. \A r \in Nodes : \A k : k \in staged(r) <=> At(s[r], "staged", k) # <<>>
  BY AtIs
<1>5. \A r \in Nodes : \A k : <<Unsaved!Get(s[r], k, Unsaved!Stored)>> = <<OrNone(Kept(s[r], k))>>
  BY <1>2, GetIs
<1> HIDE DEF t, written, staged
<1>6. \A r \in Nodes :
        /\ IsData(moved(r))
        /\ \A v \in Views : \A k : At(moved(r), v, k) =
             IF v = "committed" /\ k \in staged(r)
             THEN <<Unsaved!Get(s[r], k, Unsaved!Stored)>> ELSE At(s[r], v, k)
  BY <1>2, <1>3, CopiedIs
<1> HIDE DEF moved
<1>7. \A r \in Nodes :
        /\ IsData(unstaged(r))
        /\ \A v \in Views : \A k : At(unstaged(r), v, k) =
             IF v = "staged" /\ k \in staged(r) THEN <<>> ELSE At(moved(r), v, k)
  BY <1>3, <1>6, WithoutIs
<1> HIDE DEF unstaged
<1>8. \A r \in Nodes :
        /\ IsData(commit(r))
        /\ \A v \in Views : \A k : At(commit(r), v, k) =
             IF v = "working" /\ k \in staged(r) THEN <<>> ELSE At(unstaged(r), v, k)
  BY <1>3, <1>7, WithoutIs
<1> HIDE DEF commit
<1>9. IsSnaps(t)
  BY <1>1, <1>2, <1>8 DEF IsSnaps
<1>10. \A r \in Nodes : t[r] = IF r \in written THEN commit(r) ELSE s[r]
  BY <1>1, <1>2
<1>11. ASSUME NEW r \in Nodes, NEW k
       PROVE  /\ At(commit(r), "committed", k) = Kept(s[r], k)
              /\ At(commit(r), "staged", k) = <<>>
              /\ At(commit(r), "working", k) =
                   IF At(s[r], "staged", k) = <<>> THEN At(s[r], "working", k) ELSE <<>>
  <2>1. CASE k \in staged(r)
    <3>1. Kept(s[r], k) = At(s[r], "staged", k) /\ At(s[r], "staged", k) # <<>>
      BY <1>4, <2>1, KeptIs
    <3>2. At(s[r], "staged", k) = <<OrNone(At(s[r], "staged", k))>>
      BY <3>1, AtIs
    <3>3. /\ At(commit(r), "committed", k) = <<OrNone(Kept(s[r], k))>>
          /\ At(commit(r), "staged", k) = <<>> /\ At(commit(r), "working", k) = <<>>
      <4>1. At(moved(r), "committed", k) = <<Unsaved!Get(s[r], k, Unsaved!Stored)>>
        BY <1>3, <1>6, <2>1
      <4>2. At(unstaged(r), "committed", k) = At(moved(r), "committed", k)
            /\ At(unstaged(r), "staged", k) = <<>>
        BY <1>3, <1>7, <2>1
      <4>3. /\ At(commit(r), "committed", k) = At(unstaged(r), "committed", k)
            /\ At(commit(r), "staged", k) = At(unstaged(r), "staged", k)
            /\ At(commit(r), "working", k) = <<>>
        BY <1>3, <1>8, <2>1
      <4>4. At(commit(r), "committed", k) = <<Unsaved!Get(s[r], k, Unsaved!Stored)>>
        BY <4>1, <4>2, <4>3
      <4>5. QED
        BY <1>5, <4>2, <4>3, <4>4
    <3>4. QED
      BY <3>1, <3>2, <3>3
  <2>2. CASE k \notin staged(r)
    <3>1. Kept(s[r], k) = At(s[r], "committed", k) /\ At(s[r], "staged", k) = <<>>
      BY <1>4, <2>2, KeptIs
    <3>2. \A v \in Views : At(commit(r), v, k) = At(s[r], v, k)
      BY <1>6, <1>7, <1>8, <2>2
    <3>3. QED
      BY <1>3, <3>1, <3>2
  <2>3. QED
    BY <2>1, <2>2
<1>12. \A r \in Nodes : r \notin written => t[r] = s[r]
  BY <1>10
<1>13. ASSUME NEW r \in Nodes, NEW k, r \in written
       PROVE  /\ At(t[r], "committed", k) = Kept(s[r], k)
              /\ At(t[r], "staged", k) = <<>>
              /\ At(t[r], "working", k) =
                   IF At(s[r], "staged", k) = <<>> THEN At(s[r], "working", k) ELSE <<>>
  BY <1>10, <1>11, <1>13
<1>14. QED
  BY <1>9, <1>12, <1>13 DEF t, written

-----------------------------------------------------------------------------
(* What is ready to be written or committed.                               *)

Ready(d, f, m) ==
  /\ Kept(d, "name") = <<f[m].name>>
  /\ Kept(d, "auto") = <<f[m].auto>>
  /\ Kept(d, "owner") = <<f[m].owner>>
  /\ Holds(Kept(d, "members"), Owned(f, m))
  /\ \A k : k \notin {"name", "auto"} => At(d, "working", k) = <<>> \/ At(d, "staged", k) # <<>>

ReadyList(d, f) ==
  /\ Kept(d, "members") = <<Owned(f, Project)>>
  /\ \A k : At(d, "working", k) = <<>> \/ At(d, "staged", k) # <<>>

LEMMA MirroredReady ==
  ASSUME NEW s, NEW f, Mirrors(s, f)
  PROVE  /\ \A m \in DOMAIN f : Ready(s[m], f, m)
         /\ ReadyList(s[Project], f)
<1>1. ASSUME NEW m \in DOMAIN f PROVE Ready(s[m], f, m)
  <2>1. Mirrored(s[m], f, m)
    BY DEF Mirrors
  <2>2. \A k : k \notin {"name", "auto"} => At(s[m], "working", k) = <<>>
    BY <2>1 DEF Mirrored
  <2>3. QED
    BY <2>2, MirroredIs DEF Ready
<1>2. ReadyList(s[Project], f)
  BY ListedIs DEF ReadyList, Mirrors, Listed
<1>3. QED
  BY <1>1, <1>2

LEMMA ReadyIs ==
  ASSUME NEW t, IsSnaps(t), NEW f, IsFile(f), NEW m \in DOMAIN f, Ready(t[m], f, m)
  PROVE  /\ m \in Nodes
         /\ Unsaved!MembersOf(t, m, Unsaved!Stored) = Owned(f, m)
         /\ Unsaved!OwnerOf(t, m, Unsaved!Stored) = f[m].owner
         /\ DOMAIN Unsaved!Related(t, m) = Owned(f, m) \cup {f[m].owner}
         /\ \A r \in DOMAIN Unsaved!Related(t, m) :
              Unsaved!Related(t, m)[r] = IF r = f[m].owner THEN "members" ELSE "owner"
<1>1. m \in Nodes /\ Owned(f, m) \in SUBSET Model /\ f[m].owner # None
  BY ModelsAre, OwnedIs DEF IsFile
<1>2. Unsaved!MembersOf(t, m, Unsaved!Stored) = Owned(f, m)
  BY <1>1, ListIs DEF Ready
<1>3. Unsaved!OwnerOf(t, m, Unsaved!Stored) = f[m].owner
  BY <1>1, OwnerIs, FirstIs DEF Ready
<1>4. /\ DOMAIN Unsaved!Related(t, m) = Unsaved!MembersOf(t, m, Unsaved!Stored)
           \cup ({Unsaved!OwnerOf(t, m, Unsaved!Stored)} \ {None})
      /\ \A r \in DOMAIN Unsaved!Related(t, m) : Unsaved!Related(t, m)[r] =
           IF r = Unsaved!OwnerOf(t, m, Unsaved!Stored) THEN "members" ELSE "owner"
  BY RelatedIs
<1>5. DOMAIN Unsaved!Related(t, m) = Owned(f, m) \cup {f[m].owner}
  BY <1>1, <1>2, <1>3, <1>4
<1>6. QED
  BY <1>1, <1>2, <1>3, <1>4, <1>5

LEMMA ReadyStored ==
  ASSUME NEW t, IsSnaps(t), NEW f, IsFile(f), \A m \in DOMAIN f : Ready(t[m], f, m),
         Kept(t[Project], "members") = <<Owned(f, Project)>>
  PROVE  StoredAs(t, f)
<1>1. \A m \in Schema \cap DOMAIN f : Unsaved!MembersOf(t, m, Unsaved!Stored) = Owned(f, m)
  BY ReadyIs
<1>2. Unsaved!MembersOf(t, Project, Unsaved!Stored) = Owned(f, Project)
  <2>1. Owned(f, Project) \in SUBSET Model
    BY OwnedIs
  <2>2. QED
    BY <2>1, ListIs, ModelsAre DEF Holds
<1>3. \A m \in DOMAIN f : /\ Kept(t[m], "name") = <<f[m].name>>
                          /\ Kept(t[m], "auto") = <<f[m].auto>>
  BY DEF Ready
<1>4. QED
  BY <1>1, <1>2, <1>3 DEF StoredAs

\* What is not written keeps its staged data, if it has any.
WorkingIs(u, t, written) ==
  \A r \in Nodes : \A k : At(u[r], "working", k) =
    IF r \in written /\ At(t[r], "staged", k) # <<>> THEN <<>> ELSE At(t[r], "working", k)

Committing(u, t, f, written) ==
  /\ IsSnaps(u) /\ WorkingIs(u, t, written)
  /\ \A r \in DOMAIN f : r \in written /\ Ready(t[r], f, r) => Mirrored(u[r], f, r)
  /\ \A r \in DOMAIN f : r \notin written /\ Mirrored(t[r], f, r) => Mirrored(u[r], f, r)
  /\ \A r \in Nodes : r \notin written /\ Blank(t[r]) => Blank(u[r])
  /\ Project \in written /\ ReadyList(t[Project], f) => Listed(u[Project], f)
  /\ Project \notin written /\ Listed(t[Project], f) => Listed(u[Project], f)

LEMMA CommitMirrors ==
  ASSUME NEW t, IsSnaps(t), NEW f, IsFile(f), NEW m \in Nodes, NEW written,
         written = {m} \cup DOMAIN Unsaved!Related(t, m)
  PROVE  Committing(Unsaved!Commit(t, m), t, f, written)
<1> DEFINE u == Unsaved!Commit(t, m)
<1>1. IsSnaps(u) /\ \A r \in Nodes : r \notin written => u[r] = t[r]
  BY CommitIs
<1>2. \A r \in Nodes : \A k : r \in written =>
         /\ At(u[r], "committed", k) = Kept(t[r], k)
         /\ At(u[r], "staged", k) = <<>>
         /\ At(u[r], "working", k) =
              IF At(t[r], "staged", k) = <<>> THEN At(t[r], "working", k) ELSE <<>>
  BY CommitIs
<1>3. DOMAIN f \subseteq Nodes /\ Project \in Nodes
  BY ModelsAre DEF IsFile
<1> HIDE DEF u
<1>4. ASSUME NEW r \in DOMAIN f, r \in written, Ready(t[r], f, r) PROVE Mirrored(u[r], f, r)
  <2>1. /\ \A k : At(u[r], "committed", k) = Kept(t[r], k) /\ At(u[r], "staged", k) = <<>>
        /\ \A k : At(u[r], "working", k) =
                    IF At(t[r], "staged", k) = <<>> THEN At(t[r], "working", k) ELSE <<>>
    BY <1>2, <1>3, <1>4
  <2>2. \A k : k \notin {"name", "auto"} => At(u[r], "working", k) = <<>>
    BY <1>4, <2>1 DEF Ready
  <2>3. QED
    BY <1>4, <2>1, <2>2 DEF Ready, Mirrored
<1>5. ASSUME Project \in written, ReadyList(t[Project], f) PROVE Listed(u[Project], f)
  <2>1. Owned(f, Project) \in SUBSET Schema
    BY OwnedIs
  <2>2. /\ \A k : At(u[Project], "working", k) = <<>> /\ At(u[Project], "staged", k) = <<>>
        /\ At(u[Project], "committed", "members") = <<Owned(f, Project)>>
    BY <1>2, <1>3, <1>5 DEF ReadyList
  <2>3. QED
    BY <2>1, <2>2 DEF Listed
<1>6. \A r \in Nodes : \A k : At(u[r], "working", k) =
        IF r \in written /\ At(t[r], "staged", k) # <<>> THEN <<>> ELSE At(t[r], "working", k)
  BY <1>1, <1>2
<1>7. QED
  BY <1>1, <1>3, <1>4, <1>5, <1>6 DEF u, Committing, WorkingIs

-----------------------------------------------------------------------------
(* Saving fields of a model.                                               *)

\* The file when the fields only of m were written to it.
Wrote(s, f, m, only) ==
  [f EXCEPT ![m] =
     [owner |-> f[m].owner,
      name |-> IF "name" \in only THEN Given(s[m], "name", f[m].name) ELSE f[m].name,
      auto |-> IF "auto" \in only THEN Given(s[m], "auto", f[m].auto) ELSE f[m].auto]]

IsWrote(g, s, f, m, only) ==
  /\ IsFile(g) /\ DOMAIN g = DOMAIN f
  /\ \A r \in DOMAIN f : r # m => g[r] = f[r]
  /\ \A r \in DOMAIN f : g[r].owner = f[r].owner
  /\ g[m].name = IF "name" \in only THEN Given(s[m], "name", f[m].name) ELSE f[m].name
  /\ g[m].auto = IF "auto" \in only THEN Given(s[m], "auto", f[m].auto) ELSE f[m].auto
  /\ \A o : Owned(g, o) = Owned(f, o)

LEMMA WroteIs ==
  ASSUME NEW s, NEW f, IsFile(f), NEW m \in DOMAIN f, NEW only
  PROVE  IsWrote(Wrote(s, f, m, only), s, f, m, only)
<1> DEFINE g == Wrote(s, f, m, only)
           n == IF "name" \in only THEN Given(s[m], "name", f[m].name) ELSE f[m].name
           a == IF "auto" \in only THEN Given(s[m], "auto", f[m].auto) ELSE f[m].auto
<1>1. g = [f EXCEPT ![m] = [owner |-> f[m].owner, name |-> n, auto |-> a]]
  BY DEF Wrote
<1> HIDE DEF n, a, g
<1>2. /\ DOMAIN g = DOMAIN f /\ \A r \in DOMAIN f : r # m => g[r] = f[r]
      /\ g[m] = [owner |-> f[m].owner, name |-> n, auto |-> a]
  BY <1>1
<1>3. \A r \in DOMAIN f : g[r].owner = f[r].owner
  BY <1>2
<1>4. \A o : Owned(g, o) = Owned(f, o)
  BY <1>2, <1>3 DEF Owned
<1>5. g = [r \in DOMAIN g |-> [owner |-> g[r].owner, name |-> g[r].name, auto |-> g[r].auto]]
  <2>1. \A r \in DOMAIN f : f[r] = [owner |-> f[r].owner, name |-> f[r].name, auto |-> f[r].auto]
    BY DEF IsFile
  <2>2. \A r \in DOMAIN g : g[r] = [owner |-> g[r].owner, name |-> g[r].name, auto |-> g[r].auto]
    BY <1>2, <2>1
  <2>3. g = [r \in DOMAIN g |-> g[r]]
    BY <1>1, <1>2
  <2>4. QED
    BY <2>2, <2>3
<1>6. IsFile(g)
  BY <1>2, <1>3, <1>5 DEF IsFile
<1>7. QED
  BY <1>2, <1>3, <1>4, <1>6 DEF n, a, g, IsWrote

\* The models after the staging of some of the fields of m.
Staged(s, m, f, dirty, t) ==
  /\ IsSnaps(t)
  /\ \A r \in Nodes, v \in Views : \A k : At(t[r], v, k) =
       IF v = "staged" /\ r = m /\ k \in dirty THEN At(s[m], "working", k)
       ELSE IF /\ v = "staged" /\ dirty # {}
               /\ \/ r = f[m].owner /\ k = "members"
                  \/ r \in Owned(f, m) /\ k = "owner"
       THEN <<OrNone(At(s[r], "committed", k))>>
       ELSE At(s[r], v, k)

LEMMA SaveStages ==
  ASSUME NEW s, NEW f, Mirrors(s, f), NEW m \in DOMAIN f, NEW only \in SUBSET {"name", "auto"}
  PROVE  Staged(s, m, f, Unsaved!Dirty(s[m]) \cap only, Unsaved!Stage(s, m, only))
<1> DEFINE dirty == Unsaved!Dirty(s[m]) \cap only
           mine == Mine(s, m, dirty)
           related == Unsaved!Related(mine, m)
           t == Unsaved!Stage(s, m, only)
<1>1. IsSnaps(s) /\ IsFile(f) /\ m \in Nodes /\ f[m].owner \in Nodes /\ f[m].owner # m
  BY MirroredIs DEF Mirrors
<1>2. dirty \subseteq DOMAIN s[m]["working"] /\ dirty \subseteq {"name", "auto"}
  BY DEF Unsaved!Dirty
<1>3. t = Unsaved!StageFields(s, m, dirty)
  BY DEF Unsaved!Stage
<1> HIDE DEF dirty
<1>4. /\ IsSnaps(mine)
      /\ \A r \in Nodes, v \in Views : \A k : At(mine[r], v, k) =
           IF r = m /\ v = "staged" /\ k \in dirty THEN At(s[m], "working", k) ELSE At(s[r], v, k)
  <2>1. IsMine(mine, s, m, dirty)
    BY <1>1, <1>2, MineIs
  <2>2. QED
    BY <2>1 DEF IsMine
<1>5. /\ IsSnaps(t)
      /\ \A r \in Nodes, v \in Views : \A k : At(t[r], v, k) =
           IF /\ r \in DOMAIN related /\ v = "staged" /\ k = related[r]
              /\ dirty # {} \/ k \in Unsaved!Dirty(mine[r])
           THEN <<OrNone(First(At(mine[r], "working", k), At(mine[r], "committed", k)))>>
           ELSE At(mine[r], v, k)
  <2>1. IsStaged(t, mine, related, dirty)
    BY <1>1, <1>2, <1>3, StageFieldsIs
  <2>2. QED
    BY <2>1 DEF IsStaged
<1> HIDE DEF mine, t
<1>6. /\ DOMAIN related = Owned(f, m) \cup {f[m].owner}
      /\ \A r \in DOMAIN related : related[r] = IF r = f[m].owner THEN "members" ELSE "owner"
  <2>1. \A k : k \notin dirty => Kept(mine[m], k) = Kept(s[m], k)
    BY <1>1, <1>4 DEF Kept, Views
  <2>2. Kept(mine[m], "owner") = <<f[m].owner>> /\ Holds(Kept(mine[m], "members"), Owned(f, m))
    BY <1>2, <2>1, MirroredIs
  <2>3. Owned(f, m) \in SUBSET Model /\ f[m].owner # None
    BY <1>1, OwnedIs, MirroredIs
  <2>4. Unsaved!MembersOf(mine, m, Unsaved!Stored) = Owned(f, m)
    BY <1>1, <1>4, <2>2, <2>3, ListIs
  <2>5. Unsaved!OwnerOf(mine, m, Unsaved!Stored) = f[m].owner
    BY <1>1, <1>4, <2>2, OwnerIs, FirstIs
  <2>6. LET o == Unsaved!OwnerOf(mine, m, Unsaved!Stored)
            members == Unsaved!MembersOf(mine, m, Unsaved!Stored)
        IN  /\ DOMAIN related = members \cup ({o} \ {None})
            /\ \A r \in DOMAIN related : related[r] = IF r = o THEN "members" ELSE "owner"
    BY RelatedIs
  <2> HIDE DEF related
  <2>7. QED
    BY <2>3, <2>4, <2>5, <2>6
<1> HIDE DEF related
<1>7. m \notin DOMAIN related /\ f[m].owner \notin Owned(f, m) /\ DOMAIN related \subseteq Nodes
  <2>1. m \notin Owned(f, m) /\ Owned(f, m) \subseteq Nodes
    BY <1>1, OwnedIs, ModelsAre DEF Owned
  <2>2. f[m].owner \notin Owned(f, m)
    BY <1>1, ModelsAre DEF IsFile, Owned
  <2>3. QED
    BY <1>1, <1>6, <2>1, <2>2
<1>8. \A r \in DOMAIN related : \A k \in {"members", "owner"} :
        /\ At(mine[r], "working", k) = <<>> /\ At(mine[r], "committed", k) = At(s[r], "committed", k)
        /\ k \notin Unsaved!Dirty(mine[r])
  <2> TAKE r \in DOMAIN related
  <2>1. r \in DOMAIN f \/ r = Project
    BY <1>1, <1>6 DEF Owned, IsFile
  <2>2. \A k \in {"members", "owner"} : At(s[r], "working", k) = <<>>
    BY <2>1 DEF Mirrors, Mirrored, Listed
  <2>3. \A k : /\ At(mine[r], "working", k) = At(s[r], "working", k)
               /\ At(mine[r], "committed", k) = At(s[r], "committed", k)
    BY <1>4, <1>7 DEF Views
  <2>4. QED
    BY <2>2, <2>3, DirtyIs
<1>9. \A r \in DOMAIN related : \A k : k = related[r] => k \in {"members", "owner"}
  BY <1>6
<1>10. ASSUME NEW r \in Nodes, NEW v \in Views, NEW k
       PROVE  At(t[r], v, k) =
         IF v = "staged" /\ r = m /\ k \in dirty THEN At(s[m], "working", k)
         ELSE IF /\ v = "staged" /\ dirty # {}
                 /\ \/ r = f[m].owner /\ k = "members"
                    \/ r \in Owned(f, m) /\ k = "owner"
         THEN <<OrNone(At(s[r], "committed", k))>>
         ELSE At(s[r], v, k)
  <2>1. CASE v = "staged" /\ r \in DOMAIN related /\ k = related[r] /\ dirty # {}
    <3>1. At(t[r], v, k)
            = <<OrNone(First(At(mine[r], "working", k), At(mine[r], "committed", k)))>>
      BY <1>5, <2>1
    <3>2. First(At(mine[r], "working", k), At(mine[r], "committed", k)) = At(s[r], "committed", k)
      BY <1>8, <1>9, <2>1, FirstIs
    <3>3. At(t[r], v, k) = <<OrNone(At(s[r], "committed", k))>>
      BY <3>1, <3>2
    <3>4. r # m /\ \/ r = f[m].owner /\ k = "members"
                   \/ r \in Owned(f, m) /\ k = "owner"
      BY <1>6, <1>7, <2>1
    <3>5. QED
      BY <2>1, <3>3, <3>4
  <2>2. CASE ~(v = "staged" /\ r \in DOMAIN related /\ k = related[r] /\ dirty # {})
    <3>1. At(t[r], v, k) = At(mine[r], v, k)
      <4>1. ~(/\ r \in DOMAIN related /\ v = "staged" /\ k = related[r]
              /\ dirty # {} \/ k \in Unsaved!Dirty(mine[r]))
        BY <1>8, <1>9, <2>2
      <4>2. QED
        BY <1>5, <4>1
    <3>2. ~(/\ v = "staged" /\ dirty # {}
            /\ \/ r = f[m].owner /\ k = "members"
               \/ r \in Owned(f, m) /\ k = "owner")
      BY <1>6, <1>7, <2>2
    <3>3. At(mine[r], v, k) =
            IF r = m /\ v = "staged" /\ k \in dirty THEN At(s[m], "working", k) ELSE At(s[r], v, k)
      BY <1>4
    <3>4. QED
      BY <3>1, <3>2, <3>3
  <2>3. QED
    BY <2>1, <2>2
<1>11. Staged(s, m, f, dirty, t)
  BY <1>5, <1>10 DEF Staged
<1>12. QED
  BY <1>11 DEF dirty, t

LEMMA GivenIs ==
  ASSUME NEW d, NEW k, NEW x, At(d, "committed", k) = <<x>>
  PROVE  /\ k \in Unsaved!Dirty(d) => At(d, "working", k) = <<Given(d, k, x)>>
         /\ k \notin Unsaved!Dirty(d) => Given(d, k, x) = x
<1>1. CASE At(d, "working", k) = <<>>
  BY <1>1, DirtyIs DEF Given
<1>2. CASE At(d, "working", k) # <<>>
  <2>1. PICK y : At(d, "working", k) = <<y>>
    BY <1>2, AtIs
  <2>2. Given(d, k, x) = y
    BY <1>2, <2>1, FirstIs DEF Given
  <2>3. k \notin Unsaved!Dirty(d) => <<y>> = <<x>>
    BY <1>2, <2>1, DirtyIs
  <2>4. QED
    BY <2>1, <2>2, <2>3, FirstIs
<1>3. QED
  BY <1>1, <1>2

LEMMA StagedReady ==
  ASSUME NEW s, NEW f, Mirrors(s, f), NEW m \in DOMAIN f, NEW only \in SUBSET {"name", "auto"},
         NEW t, NEW dirty, dirty = Unsaved!Dirty(s[m]) \cap only, Staged(s, m, f, dirty, t),
         NEW g, g = Wrote(s, f, m, only),
         \/ f[m].owner # Project \/ dirty = {}
         \/ At(s[Project], "committed", "members") = <<Owned(f, Project)>>
  PROVE  /\ \A r \in DOMAIN f : Ready(t[r], g, r)
         /\ \A r \in DOMAIN f :
              r \notin {m} \cup Owned(f, m) \cup {f[m].owner} => Mirrored(t[r], g, r)
         /\ \A r \in Model : r \notin DOMAIN f => Blank(t[r])
         /\ ReadyList(t[Project], g)
         /\ f[m].owner # Project => Listed(t[Project], g)
<1> DEFINE o == f[m].owner
<1>1. IsSnaps(s) /\ IsFile(f) /\ m \in Nodes /\ o \in Nodes /\ o # m
  BY MirroredIs DEF Mirrors
<1>2. /\ DOMAIN g = DOMAIN f /\ \A r : Owned(g, r) = Owned(f, r)
      /\ \A r \in DOMAIN f : g[r].owner = f[r].owner
      /\ \A r \in DOMAIN f : r # m => g[r] = f[r]
  BY <1>1, WroteIs DEF IsWrote
<1>3. /\ m \notin Owned(f, m) /\ Owned(f, m) \subseteq DOMAIN f /\ DOMAIN f \subseteq Nodes
      /\ Project \in Nodes /\ Project \notin DOMAIN f /\ o \notin Owned(f, m)
      /\ \A r \in Model : r \in Nodes
  BY <1>1, ModelsAre DEF IsFile, Owned
<1>0. IsWrote(g, s, f, m, only)
  BY <1>1, WroteIs
<1>4. "staged" \in Views /\ "working" \in Views /\ "committed" \in Views
  BY DEF Views
<1> HIDE DEF o
<1>5. \A r \in Nodes : \A k :
        /\ At(t[r], "working", k) = At(s[r], "working", k)
        /\ At(t[r], "committed", k) = At(s[r], "committed", k)
  BY <1>4 DEF Staged
<1>6. \A k : At(t[m], "staged", k) = IF k \in dirty THEN At(s[m], "working", k)
                                     ELSE At(s[m], "staged", k)
  BY <1>1, <1>3, <1>4 DEF Staged, o
<1>7. ASSUME NEW r \in Nodes, r # m, NEW k
      PROVE  /\ dirty # {} /\ r = o /\ k = "members" =>
                  At(t[r], "staged", k) = <<OrNone(At(s[r], "committed", k))>>
             /\ dirty # {} /\ r \in Owned(f, m) /\ k = "owner" =>
                  At(t[r], "staged", k) = <<OrNone(At(s[r], "committed", k))>>
             /\ \/ dirty = {}
                \/ ~(\/ r = o /\ k = "members"
                     \/ r \in Owned(f, m) /\ k = "owner")
                => At(t[r], "staged", k) = At(s[r], "staged", k)
  <2>1. At(t[r], "staged", k) =
          IF dirty # {} /\ (\/ r = o /\ k = "members"
                            \/ r \in Owned(f, m) /\ k = "owner")
          THEN <<OrNone(At(s[r], "committed", k))>> ELSE At(s[r], "staged", k)
    BY <1>4, <1>7 DEF Staged, o
  <2>2. QED
    BY <2>1
<1>8. \A r \in DOMAIN f : Mirrored(s[r], f, r)
  BY DEF Mirrors
<1>9. ASSUME NEW r \in Nodes, r \notin {m} \cup Owned(f, m) \cup {o}
      PROVE  \A k : /\ At(t[r], "working", k) = At(s[r], "working", k)
                    /\ At(t[r], "staged", k) = At(s[r], "staged", k)
                    /\ At(t[r], "committed", k) = At(s[r], "committed", k)
  BY <1>5, <1>7, <1>9
<1>10. ASSUME NEW r \in DOMAIN f, r \notin {m} \cup Owned(f, m) \cup {o}
       PROVE  Mirrored(t[r], g, r)
  <2>1. g[r] = f[r] /\ Owned(g, r) = Owned(f, r) /\ r \in Nodes
    BY <1>2, <1>3, <1>10
  <2>2. Mirrored(s[r], f, r)
    BY <1>8
  <2>3. \A k : /\ At(t[r], "working", k) = At(s[r], "working", k)
               /\ At(t[r], "staged", k) = At(s[r], "staged", k)
               /\ At(t[r], "committed", k) = At(s[r], "committed", k)
    BY <1>9, <1>10, <2>1
  <2>4. QED
    BY <2>1, <2>2, <2>3 DEF Mirrored
<1>11. ASSUME NEW r \in Model, r \notin DOMAIN f PROVE Blank(t[r])
  <2>1. o = Project \/ o \in DOMAIN f
    BY <1>1 DEF IsFile, o
  <2>2. r \notin {m} \cup Owned(f, m) \cup {o} /\ Blank(s[r])
    BY <1>1, <1>3, <1>11, <2>1, ModelsAre DEF Mirrors
  <2>3. QED
    BY <1>3, <1>9, <2>2 DEF Blank
<1>12. o # Project => Listed(t[Project], g)
  <2>1. Listed(s[Project], f) /\ Project \notin {m} \cup Owned(f, m)
    BY <1>3 DEF Mirrors
  <2>2. QED
    BY <1>2, <1>3, <1>9, <2>1 DEF Listed
<1>13. ReadyList(t[Project], g)
  <2>1. Listed(s[Project], f) /\ ReadyList(s[Project], f) /\ Project # m
    BY <1>3, MirroredReady DEF Mirrors
  <2>2. \A k : At(t[Project], "working", k) = <<>>
    BY <1>3, <1>5, <2>1 DEF Listed
  <2>3. CASE o # Project \/ dirty = {}
    <3>1. At(t[Project], "staged", "members") = At(s[Project], "staged", "members")
      BY <1>3, <1>7, <2>1, <2>3
    <3>2. Kept(t[Project], "members") = Kept(s[Project], "members")
      BY <1>3, <1>5, <3>1 DEF Kept
    <3>3. QED
      BY <1>2, <2>1, <2>2, <3>2 DEF ReadyList
  <2>4. CASE o = Project /\ dirty # {} /\ At(s[Project], "committed", "members") = <<Owned(f, Project)>>
    <3>1. At(t[Project], "staged", "members") = <<Owned(f, Project)>>
      BY <1>3, <1>7, <2>1, <2>4, FirstIs
    <3>2. Kept(t[Project], "members") = <<Owned(f, Project)>>
      BY <3>1, KeptIs, FirstIs
    <3>3. QED
      BY <1>2, <2>2, <3>2 DEF ReadyList
  <2>5. QED
    BY <2>3, <2>4 DEF o
<1>14. Ready(t[m], g, m)
  <2>1. Mirrored(s[m], f, m)
    BY <1>8
  <2>2. \A k : k \notin dirty => Kept(t[m], k) = At(s[m], "committed", k)
    <3>1. \A k : At(s[m], "staged", k) = <<>>
      BY <2>1 DEF Mirrored
    <3>2. \A k : k \notin dirty => At(t[m], "staged", k) = <<>>
      BY <1>6, <3>1
    <3>3. QED
      BY <1>1, <1>5, <3>2, KeptIs
  <2>3. \A k \in dirty : At(s[m], "working", k) # <<>>
    BY DirtyIs
  <2>4. \A k \in dirty : Kept(t[m], k) = At(s[m], "working", k)
    BY <1>6, <2>3, KeptIs
  <2>5. "owner" \notin dirty /\ "members" \notin dirty
    OBVIOUS
  <2>6. Kept(t[m], "name") = <<g[m].name>>
    <3>1. g[m].name = IF "name" \in only THEN Given(s[m], "name", f[m].name) ELSE f[m].name
      BY <1>0 DEF IsWrote
    <3>2. At(s[m], "committed", "name") = <<f[m].name>>
      BY <2>1 DEF Mirrored
    <3>3. CASE "name" \in dirty
      BY <2>4, <3>1, <3>2, <3>3, GivenIs
    <3>4. CASE "name" \notin dirty
      BY <2>2, <3>1, <3>2, <3>4, GivenIs
    <3>5. QED
      BY <3>3, <3>4
  <2>7. Kept(t[m], "auto") = <<g[m].auto>>
    <3>1. g[m].auto = IF "auto" \in only THEN Given(s[m], "auto", f[m].auto) ELSE f[m].auto
      BY <1>0 DEF IsWrote
    <3>2. At(s[m], "committed", "auto") = <<f[m].auto>>
      BY <2>1 DEF Mirrored
    <3>3. CASE "auto" \in dirty
      BY <2>4, <3>1, <3>2, <3>3, GivenIs
    <3>4. CASE "auto" \notin dirty
      BY <2>2, <3>1, <3>2, <3>4, GivenIs
    <3>5. QED
      BY <3>3, <3>4
  <2>8. Kept(t[m], "owner") = <<g[m].owner>> /\ Holds(Kept(t[m], "members"), Owned(g, m))
    BY <1>2, <2>1, <2>2, <2>5 DEF Mirrored
  <2>9. \A k : k \notin {"name", "auto"} => At(t[m], "working", k) = <<>>
    BY <1>1, <1>5, <2>1 DEF Mirrored
  <2>10. QED
    BY <2>6, <2>7, <2>8, <2>9 DEF Ready
<1>15. ASSUME NEW r \in DOMAIN f, r # m PROVE Ready(t[r], g, r)
  <2>1. Mirrored(s[r], f, r) /\ Ready(s[r], f, r) /\ r \in Nodes
    BY <1>3, <1>8, MirroredReady
  <2>2. g[r] = f[r] /\ Owned(g, r) = Owned(f, r)
    BY <1>2, <1>15
  <2>3. ASSUME NEW k, \/ dirty = {}
                      \/ ~(\/ r = o /\ k = "members"
                           \/ r \in Owned(f, m) /\ k = "owner")
        PROVE  Kept(t[r], k) = Kept(s[r], k)
    <3>1. At(t[r], "staged", k) = At(s[r], "staged", k)
      BY <1>7, <1>15, <2>1, <2>3
    <3>2. QED
      BY <1>5, <2>1, <3>1 DEF Kept
  <2>4. Kept(t[r], "name") = <<f[r].name>> /\ Kept(t[r], "auto") = <<f[r].auto>>
    BY <2>1, <2>3 DEF Ready
  <2>5. Kept(t[r], "owner") = <<f[r].owner>>
    <3>1. CASE dirty # {} /\ r \in Owned(f, m)
      <4>1. At(t[r], "staged", "owner") = <<OrNone(At(s[r], "committed", "owner"))>>
        BY <1>7, <1>15, <2>1, <3>1
      <4>2. At(t[r], "staged", "owner") = <<f[r].owner>>
        BY <2>1, <4>1, FirstIs DEF Mirrored
      <4>3. QED
        BY <4>2, KeptIs, FirstIs
    <3>2. CASE dirty = {} \/ r \notin Owned(f, m)
      BY <2>1, <2>3, <3>2 DEF Ready
    <3>3. QED
      BY <3>1, <3>2
  <2>6. Holds(Kept(t[r], "members"), Owned(f, r))
    <3>1. CASE dirty # {} /\ r = o
      <4>1. At(t[r], "staged", "members") = <<OrNone(At(s[r], "committed", "members"))>>
        BY <1>7, <1>15, <2>1, <3>1
      <4>2. m \in Owned(f, r)
        BY <3>1 DEF Owned, o
      <4>3. At(s[r], "committed", "members") = <<Owned(f, r)>>
        BY <2>1, <4>2 DEF Mirrored, Holds
      <4>4. At(t[r], "staged", "members") = <<Owned(f, r)>>
        BY <4>1, <4>3, FirstIs
      <4>5. QED
        BY <4>4, KeptIs, FirstIs DEF Holds
    <3>2. CASE dirty = {} \/ r # o
      BY <2>1, <2>3, <3>2 DEF Ready
    <3>3. QED
      BY <3>1, <3>2
  <2>7. \A k : k \notin {"name", "auto"} => At(t[r], "working", k) = <<>>
    BY <1>5, <2>1 DEF Mirrored
  <2>8. QED
    BY <2>2, <2>4, <2>5, <2>6, <2>7 DEF Ready
<1>16. QED
  BY <1>10, <1>11, <1>12, <1>13, <1>14, <1>15 DEF o

LEMMA WrittenAgain ==
  ASSUME NEW s, NEW f, Mirrors(s, f), NEW m \in DOMAIN f, NEW only \in SUBSET {"name", "auto"},
         Unsaved!Dirty(s[m]) \cap only = {}
  PROVE  Wrote(s, f, m, only) = f
<1> DEFINE g == Wrote(s, f, m, only)
<1>1. IsFile(f) /\ IsWrote(g, s, f, m, only) /\ IsFile(g)
  BY WroteIs DEF Mirrors, IsWrote
<1>2. Mirrored(s[m], f, m)
  BY DEF Mirrors
<1> HIDE DEF g
<1>3. g[m].name = f[m].name
  <2>1. At(s[m], "committed", "name") = <<f[m].name>>
    BY <1>2 DEF Mirrored
  <2>2. "name" \in only => Given(s[m], "name", f[m].name) = f[m].name
    BY <2>1, GivenIs
  <2>3. QED
    BY <1>1, <2>2 DEF IsWrote
<1>4. g[m].auto = f[m].auto
  <2>1. At(s[m], "committed", "auto") = <<f[m].auto>>
    BY <1>2 DEF Mirrored
  <2>2. "auto" \in only => Given(s[m], "auto", f[m].auto) = f[m].auto
    BY <2>1, GivenIs
  <2>3. QED
    BY <1>1, <2>2 DEF IsWrote
<1>5. DOMAIN g = DOMAIN f /\ \A r \in DOMAIN f : /\ g[r].owner = f[r].owner
                                                 /\ g[r].name = f[r].name
                                                 /\ g[r].auto = f[r].auto
  BY <1>1, <1>3, <1>4 DEF IsWrote
<1>6. /\ g = [r \in DOMAIN g |-> [owner |-> g[r].owner, name |-> g[r].name, auto |-> g[r].auto]]
      /\ f = [r \in DOMAIN f |-> [owner |-> f[r].owner, name |-> f[r].name, auto |-> f[r].auto]]
  BY <1>1 DEF IsFile
<1>7. [r \in DOMAIN g |-> [owner |-> g[r].owner, name |-> g[r].name, auto |-> g[r].auto]]
        = [r \in DOMAIN f |-> [owner |-> f[r].owner, name |-> f[r].name, auto |-> f[r].auto]]
  BY <1>5
<1>8. g = f
  BY <1>6, <1>7
<1>9. QED
  BY <1>8 DEF g

\* A list that still has a deleted schema cannot be written.
LEMMA DumpedIsCommitted ==
  ASSUME NEW s, NEW f, Mirrors(s, f), NEW m \in DOMAIN f, NEW only \in SUBSET {"name", "auto"},
         NEW t, NEW dirty, dirty = Unsaved!Dirty(s[m]) \cap only, Staged(s, m, f, dirty, t),
         dirty # {}, f[m].owner = Project, Unsaved!CanDump(t)
  PROVE  At(s[Project], "committed", "members") = <<Owned(f, Project)>>
<1>1. PICK C \in SUBSET Schema :
        /\ At(s[Project], "committed", "members") = <<C>> /\ Owned(f, Project) \subseteq C
  BY DEF Mirrors, Listed
<1>2. Project \in Nodes /\ Project # m /\ IsFile(f) /\ m \in Nodes /\ IsSnaps(t)
  BY ModelsAre, MirroredIs DEF Mirrors, IsFile, Staged
<1>3. "staged" \in Views /\ "committed" \in Views
  BY DEF Views
<1>4. At(t[Project], "staged", "members") = <<C>>
  BY <1>1, <1>2, <1>3, FirstIs DEF Staged
<1>5. Unsaved!SchemasIn(t) = C
  <2>1. Kept(t[Project], "members") = <<C>> /\ C \in SUBSET Model
    BY <1>1, <1>4, KeptIs, FirstIs, ModelsAre
  <2>2. QED
    BY <1>2, <2>1, ListIs DEF Holds, Unsaved!SchemasIn
<1>6. ASSUME NEW x \in C, x \notin Owned(f, Project) PROVE FALSE
  <2>1. x \in Model /\ x \in Nodes /\ x \in Schema /\ x \notin DOMAIN f
    BY <1>1, <1>2, <1>6, ModelsAre, OwnedIs
  <2>2. Blank(s[x]) /\ x # m /\ x # Project /\ x \notin Owned(f, m)
    <3>1. Blank(s[x])
      BY <2>1 DEF Mirrors
    <3>2. QED
      BY <2>1, <3>1, ModelsAre DEF Owned
  <2>3. /\ At(t[x], "staged", "name") = At(s[x], "staged", "name")
        /\ At(t[x], "committed", "name") = At(s[x], "committed", "name")
    BY <1>3, <2>1, <2>2 DEF Staged
  <2>4. Kept(t[x], "name") = <<>>
    BY <2>2, <2>3, KeptIs DEF Blank
  <2>5. ~Unsaved!Has(t[x], "name", Unsaved!Stored)
    BY <1>2, <2>1, <2>4, HasIs
  <2>6. QED
    BY <1>5, <1>6, <2>5 DEF Unsaved!CanDump
<1>7. C = Owned(f, Project)
  BY <1>1, <1>6
<1>8. QED
  BY <1>1, <1>7

LEMMA MustWriteIs ==
  ASSUME NEW s, NEW f, Mirrors(s, f), NEW m \in DOMAIN f, NEW only \in SUBSET {"name", "auto"},
         NEW t, NEW dirty, dirty = Unsaved!Dirty(s[m]) \cap only, Staged(s, m, f, dirty, t),
         DOMAIN Unsaved!Related(t, m) = Owned(f, m) \cup {f[m].owner}
  PROVE  Unsaved!MustWrite(t, m) <=> dirty # {}
<1>1. /\ IsFile(f) /\ m \in Nodes /\ m \in Schema \cup Field /\ m \notin Owned(f, m)
      /\ m # f[m].owner /\ DOMAIN f \subseteq Nodes /\ Project \in Nodes
      /\ Project \notin Schema \cup Field
  BY ModelsAre, MirroredIs DEF Mirrors, Owned, IsFile
<1>2. \A v \in {"staged", "working", "committed"} : v \in Views
  BY DEF Views
<1>3. CASE dirty # {}
  <2>1. PICK k \in dirty : k \in {"name", "auto"}
    BY <1>3
  <2>2. At(t[m], "staged", k) = At(s[m], "working", k)
    BY <1>1, <1>2, <2>1 DEF Staged
  <2>3. At(s[m], "working", k) # <<>>
    BY <2>1, DirtyIs
  <2>4. k \in DOMAIN t[m]["staged"]
    BY <2>2, <2>3, AtIs
  <2>5. k \in Unsaved!InFile(m)
    BY <1>1, <2>1 DEF Unsaved!InFile, Unsaved!Scalars
  <2>6. QED
    BY <1>3, <2>4, <2>5 DEF Unsaved!MustWrite
<1>4. CASE dirty = {}
  <2>1. \A r \in Nodes, v \in Views : \A k : At(t[r], v, k) = At(s[r], v, k)
    BY <1>4 DEF Staged
  <2>2. ASSUME NEW r \in DOMAIN f
        PROVE  /\ Unsaved!InFile(r) \cap DOMAIN t[r]["staged"] = {}
               /\ "owner" \notin Unsaved!Dirty(t[r])
    <3>1. Mirrored(s[r], f, r) /\ r \in Nodes
      BY <1>1 DEF Mirrors
    <3>2. \A k : At(t[r], "staged", k) = <<>>
      BY <1>2, <2>1, <3>1 DEF Mirrored
    <3>3. DOMAIN t[r]["staged"] = {}
      BY <3>2, AtIs
    <3>4. At(t[r], "working", "owner") = <<>>
      BY <1>2, <2>1, <3>1 DEF Mirrored
    <3>5. QED
      BY <3>3, <3>4, DirtyIs
  <2>3. Unsaved!InFile(Project) = {} /\ Project \notin Schema
    BY <1>1 DEF Unsaved!InFile
  <2>4. {m} \cup DOMAIN Unsaved!Related(t, m) \subseteq DOMAIN f \cup {Project}
    BY <1>1 DEF Owned, IsFile
  <2>5. ~Unsaved!MustWrite(t, m)
    BY <2>2, <2>3, <2>4 DEF Unsaved!MustWrite
  <2>6. QED
    BY <1>4, <2>5
<1>5. QED
  BY <1>3, <1>4

\* Of the other models no name or mark is staged; m is still related to the same.
StagedOnly(t, s, f, m, dirty) ==
  /\ \A r \in Nodes : \A k :
       /\ At(t[r], "working", k) = At(s[r], "working", k)
       /\ At(t[r], "committed", k) = At(s[r], "committed", k)
  /\ \A r \in Nodes : \A k \in {"name", "auto"} :
       r # m => At(t[r], "staged", k) = At(s[r], "staged", k)
  /\ \A k : At(t[m], "staged", k) = IF k \in dirty THEN At(s[m], "working", k) ELSE <<>>
  /\ DOMAIN Unsaved!Related(t, m) = Owned(f, m) \cup {f[m].owner}

LEMMA StagedIs ==
  ASSUME NEW s, NEW f, Mirrors(s, f), NEW m \in DOMAIN f, NEW t, NEW dirty,
         dirty \subseteq {"name", "auto"}, Staged(s, m, f, dirty, t)
  PROVE  StagedOnly(t, s, f, m, dirty)
<1>1. "staged" \in Views /\ "working" \in Views /\ "committed" \in Views
  BY DEF Views
<1>2. m \in Nodes /\ m # f[m].owner /\ m \notin Owned(f, m) /\ f[m].owner # None /\ IsFile(f)
  <2>1. m \in Nodes /\ m # f[m].owner /\ f[m].owner # None
    BY MirroredIs
  <2>2. m \notin Owned(f, m)
    BY <2>1 DEF Owned
  <2>3. QED
    BY <2>1, <2>2 DEF Mirrors
<1>3. ASSUME NEW r \in Nodes, NEW k
      PROVE  At(t[r], "staged", k) =
               IF r = m /\ k \in dirty THEN At(s[m], "working", k)
               ELSE IF /\ dirty # {}
                       /\ \/ r = f[m].owner /\ k = "members"
                          \/ r \in Owned(f, m) /\ k = "owner"
               THEN <<OrNone(At(s[r], "committed", k))>>
               ELSE At(s[r], "staged", k)
  BY <1>1 DEF Staged
<1>4. ASSUME NEW r \in Nodes, NEW k \in {"name", "auto"}, r # m
      PROVE  At(t[r], "staged", k) = At(s[r], "staged", k)
  <2>1. k # "members" /\ k # "owner"
    OBVIOUS
  <2>2. QED
    BY <1>3, <1>4, <2>1
<1>5. ASSUME NEW k
      PROVE  At(t[m], "staged", k) = IF k \in dirty THEN At(s[m], "working", k) ELSE <<>>
  <2>1. At(s[m], "staged", k) = <<>>
    BY DEF Mirrors, Mirrored
  <2>2. QED
    BY <1>2, <1>3, <2>1
<1>6. \A r \in Nodes : \A k : /\ At(t[r], "working", k) = At(s[r], "working", k)
                              /\ At(t[r], "committed", k) = At(s[r], "committed", k)
  BY <1>1 DEF Staged
<1>7. DOMAIN Unsaved!Related(t, m) = Owned(f, m) \cup {f[m].owner}
  <2>1. "owner" \notin dirty /\ "members" \notin dirty
    OBVIOUS
  <2>2. \A k \in {"owner", "members"} : Kept(t[m], k) = At(s[m], "committed", k)
    BY <1>2, <1>5, <1>6, <2>1, KeptIs
  <2>3. Mirrored(s[m], f, m)
    BY DEF Mirrors
  <2>4. /\ Kept(t[m], "owner") = <<f[m].owner>>
        /\ Holds(Kept(t[m], "members"), Owned(f, m))
    BY <2>2, <2>3 DEF Mirrored
  <2>5. Owned(f, m) \in SUBSET Model /\ IsSnaps(t)
    BY <1>2, OwnedIs DEF Staged
  <2>6. Unsaved!MembersOf(t, m, Unsaved!Stored) = Owned(f, m)
    BY <1>2, <2>4, <2>5, ListIs
  <2>7. Unsaved!OwnerOf(t, m, Unsaved!Stored) = f[m].owner
    BY <1>2, <2>4, <2>5, OwnerIs, FirstIs
  <2>8. DOMAIN Unsaved!Related(t, m) = Unsaved!MembersOf(t, m, Unsaved!Stored)
          \cup ({Unsaved!OwnerOf(t, m, Unsaved!Stored)} \ {None})
    BY RelatedIs
  <2>9. QED
    BY <1>2, <2>6, <2>7, <2>8
<1>8. QED
  BY <1>4, <1>5, <1>6, <1>7 DEF StagedOnly

\* Fields that are saved are no longer working data; the request sees them still.
LEMMA ShownAfter ==
  ASSUME NEW s, NEW f, Mirrors(s, f), NEW m \in DOMAIN f, NEW only \in SUBSET {"name", "auto"},
         NEW t, NEW dirty, dirty = Unsaved!Dirty(s[m]) \cap only, Staged(s, m, f, dirty, t),
         NEW g, g = Wrote(s, f, m, only), NEW u, NEW written, m \in written,
         WorkingIs(u, t, written)
  PROVE  Shows(u, g) = Shows(s, f)
<1>1. IsFile(f) /\ IsWrote(g, s, f, m, only) /\ DOMAIN f \subseteq Nodes
  BY WroteIs, ModelsAre DEF Mirrors, IsFile
<1>2. "staged" \in Views /\ "working" \in Views
  BY DEF Views
<1>3. \A r \in DOMAIN f : Mirrored(s[r], f, r)
  BY DEF Mirrors
<1>0. StagedOnly(t, s, f, m, dirty)
  <2>1. dirty \subseteq {"name", "auto"}
    OBVIOUS
  <2>2. QED
    BY <2>1, StagedIs
<1>4. \A r \in DOMAIN f : \A k : At(t[r], "working", k) = At(s[r], "working", k)
  BY <1>1, <1>0 DEF StagedOnly
<1>5. ASSUME NEW r \in DOMAIN f, r # m, NEW k \in {"name", "auto"}
      PROVE  At(u[r], "working", k) = At(s[r], "working", k)
  <2>1. At(t[r], "staged", k) = At(s[r], "staged", k)
    BY <1>1, <1>5, <1>0 DEF StagedOnly
  <2>2. At(t[r], "staged", k) = <<>>
    BY <1>3, <2>1 DEF Mirrored
  <2>3. QED
    BY <1>1, <1>4, <2>2 DEF WorkingIs
<1>6. ASSUME NEW k \in {"name", "auto"}, NEW x, NEW y, At(s[m], "committed", k) = <<x>>,
             y = IF k \in only THEN Given(s[m], k, x) ELSE x
      PROVE  Given(u[m], k, y) = Given(s[m], k, x)
  <2>1. m \in Nodes
    BY MirroredIs
  <2>2. At(t[m], "staged", k) = IF k \in dirty THEN At(s[m], "working", k) ELSE <<>>
    BY <1>0 DEF StagedOnly
  <2>3. CASE k \in dirty
    <3>1. At(t[m], "staged", k) # <<>>
      BY <2>2, <2>3, DirtyIs
    <3>2. At(u[m], "working", k) = <<>>
      BY <2>1, <3>1 DEF WorkingIs
    <3>3. QED
      BY <1>6, <2>3, <3>2 DEF Given
  <2>4. CASE k \notin dirty
    <3>1. At(u[m], "working", k) = At(s[m], "working", k)
      BY <1>4, <2>1, <2>2, <2>4 DEF WorkingIs
    <3>2. k \in only => Given(s[m], k, x) = x
      BY <1>6, <2>4, GivenIs
    <3>3. y = x
      BY <1>6, <3>2
    <3>4. QED
      BY <3>1, <3>3 DEF Given
  <2>5. QED
    BY <2>3, <2>4
<1>7. ASSUME NEW r \in DOMAIN f
      PROVE  /\ g[r].owner = f[r].owner
             /\ Given(u[r], "name", g[r].name) = Given(s[r], "name", f[r].name)
             /\ Given(u[r], "auto", g[r].auto) = Given(s[r], "auto", f[r].auto)
  <2>1. CASE r = m
    <3>1. /\ At(s[m], "committed", "name") = <<f[m].name>>
          /\ At(s[m], "committed", "auto") = <<f[m].auto>>
      BY <1>3 DEF Mirrored
    <3>2. Given(u[m], "name", g[m].name) = Given(s[m], "name", f[m].name)
      BY <1>1, <1>6, <3>1 DEF IsWrote
    <3>3. Given(u[m], "auto", g[m].auto) = Given(s[m], "auto", f[m].auto)
      BY <1>1, <1>6, <3>1 DEF IsWrote
    <3>4. QED
      BY <1>1, <2>1, <3>2, <3>3 DEF IsWrote
  <2>2. CASE r # m
    BY <1>1, <1>5, <2>2 DEF IsWrote, Given
  <2>3. QED
    BY <2>1, <2>2
<1>8. DOMAIN g = DOMAIN f
  BY <1>1 DEF IsWrote
<1>9. QED
  BY <1>7, <1>8 DEF Shows

\* Either what was staged cannot be written, or it is and all is as before, but
\* for what was saved.
SavedAs(s, f, m, t, g) ==
  /\ g = IF Unsaved!MustWrite(t, m) THEN Unsaved!Dump(t) ELSE f
  /\ Mirrors(Unsaved!Commit(t, m), g)
  /\ Shows(Unsaved!Commit(t, m), g) = Shows(s, f)

LEMMA SavingIs ==
  ASSUME NEW s, NEW f, Mirrors(s, f), NEW m \in DOMAIN f, NEW only \in SUBSET {"name", "auto"},
         NEW t, t = Unsaved!Stage(s, m, only)
  PROVE  \/ Unsaved!MustWrite(t, m) /\ ~Unsaved!CanDump(t)
         \/ SavedAs(s, f, m, t, Wrote(s, f, m, only))
<1> DEFINE dirty == Unsaved!Dirty(s[m]) \cap only
           g == Wrote(s, f, m, only)
           u == Unsaved!Commit(t, m)
           written == {m} \cup Owned(f, m) \cup {f[m].owner}
<1>1. Staged(s, m, f, dirty, t) /\ IsSnaps(t)
  BY SaveStages DEF Staged
<1>2. IsFile(f) /\ m \in Nodes /\ IsWrote(g, s, f, m, only)
  BY MirroredIs, WroteIs DEF Mirrors
<1>3. IsFile(g) /\ DOMAIN g = DOMAIN f /\ Owned(g, m) = Owned(f, m) /\ g[m].owner = f[m].owner
  BY <1>2 DEF IsWrote
<1>4. DOMAIN Unsaved!Related(t, m) = Owned(f, m) \cup {f[m].owner}
  <2>1. dirty \subseteq {"name", "auto"}
    OBVIOUS
  <2>2. StagedOnly(t, s, f, m, dirty)
    BY <1>1, <2>1, StagedIs
  <2>3. QED
    BY <2>2 DEF StagedOnly
<1>5. Unsaved!MustWrite(t, m) <=> dirty # {}
  BY <1>1, <1>4, MustWriteIs
<1>6. CASE dirty # {} /\ ~Unsaved!CanDump(t)
  BY <1>5, <1>6
<1>7. CASE dirty = {} \/ Unsaved!CanDump(t)
  <2>1. \/ f[m].owner # Project \/ dirty = {}
        \/ At(s[Project], "committed", "members") = <<Owned(f, Project)>>
    BY <1>1, <1>7, DumpedIsCommitted
  <2> HIDE DEF dirty, g
  <2>2. /\ \A r \in DOMAIN f : Ready(t[r], g, r)
        /\ \A r \in DOMAIN f :
             r \notin {m} \cup Owned(f, m) \cup {f[m].owner} => Mirrored(t[r], g, r)
        /\ \A r \in Model : r \notin DOMAIN f => Blank(t[r])
        /\ ReadyList(t[Project], g)
        /\ f[m].owner # Project => Listed(t[Project], g)
    BY <1>1, <2>1, StagedReady DEF dirty, g
  <2>3. written = {m} \cup DOMAIN Unsaved!Related(t, m)
    BY <1>4
  <2>4. Project \in written <=> f[m].owner = Project
    BY <1>2, ModelsAre DEF IsFile, Owned
  <2>5. \A r \in Model : r \notin DOMAIN f => r \notin written /\ r \in Nodes
    BY <1>2, ModelsAre DEF IsFile, Owned
  <2> HIDE DEF written, u
  <2>6. Committing(u, t, g, written)
    BY <1>1, <1>2, <1>3, <2>3, CommitMirrors DEF u
  <2>7. \A r \in DOMAIN f : Mirrored(u[r], g, r)
    BY <1>3, <2>2, <2>6 DEF written, Committing
  <2>8. \A r \in Model : r \notin DOMAIN g => Blank(u[r])
    BY <1>3, <2>2, <2>5, <2>6 DEF Committing
  <2>9. Listed(u[Project], g)
    BY <2>2, <2>4, <2>6 DEF Committing
  <2>10. Mirrors(u, g)
    BY <1>3, <2>6, <2>7, <2>8, <2>9 DEF Mirrors, Committing
  <2>11. Shows(u, g) = Shows(s, f)
    <3>1. m \in written
      BY DEF written
    <3>2. QED
      BY <1>1, <2>6, <3>1, ShownAfter DEF dirty, g, Committing
  <2>12. g = IF Unsaved!MustWrite(t, m) THEN Unsaved!Dump(t) ELSE f
    <3>1. CASE dirty = {}
      BY <1>5, <3>1, WrittenAgain DEF dirty, g
    <3>2. CASE dirty # {}
      <4>1. StoredAs(t, g)
        BY <1>1, <1>3, <2>2, ReadyStored DEF ReadyList
      <4>2. Unsaved!Dump(t) = g
        BY <1>3, <4>1, DumpIs
      <4>3. QED
        BY <1>5, <3>2, <4>2
    <3>3. QED
      BY <3>1, <3>2
  <2>13. QED
    BY <2>10, <2>11, <2>12 DEF SavedAs, g, u
<1>8. QED
  BY <1>6, <1>7

-----------------------------------------------------------------------------
(* Names and marks that a request gives.                                   *)

Gave(s, m, k, x) == [s EXCEPT ![m] = Unsaved!Set(@, "working", k, x)]

IsGave(t, s, m, k, x) ==
  /\ IsSnaps(t)
  /\ \A r \in Nodes, v \in Views : \A j : At(t[r], v, j) =
       IF r = m /\ v = "working" /\ j = k THEN <<x>> ELSE At(s[r], v, j)

LEMMA GaveIs ==
  ASSUME NEW s, IsSnaps(s), NEW m \in Nodes, NEW k, NEW x
  PROVE  IsGave(Gave(s, m, k, x), s, m, k, x)
<1> DEFINE e == Unsaved!Set(s[m], "working", k, x)
<1>1. IsData(s[m]) /\ "working" \in Views
  BY DEF IsSnaps, Views
<1>2. /\ IsData(e)
      /\ \A v \in Views : \A j : At(e, v, j) =
           IF v = "working" /\ j = k THEN <<x>> ELSE At(s[m], v, j)
  BY <1>1, SetIs
<1>3. \A r \in Nodes : Gave(s, m, k, x)[r] = IF r = m THEN e ELSE s[r]
  BY DEF Gave, IsSnaps
<1>4. DOMAIN Gave(s, m, k, x) = Nodes
  BY DEF Gave, IsSnaps
<1> HIDE DEF e
<1>5. QED
  BY <1>2, <1>3, <1>4 DEF IsSnaps, IsGave

LEMMA GaveMirrors ==
  ASSUME NEW s, NEW f, Mirrors(s, f), NEW m \in DOMAIN f, NEW k \in {"name", "auto"}, NEW x
  PROVE  /\ Mirrors(Gave(s, m, k, x), f)
         /\ Given(Gave(s, m, k, x)[m], k, f[m][k]) = x
         /\ \A r \in DOMAIN f, j \in {"name", "auto"} : r # m \/ j # k =>
              Given(Gave(s, m, k, x)[r], j, f[r][j]) = Given(s[r], j, f[r][j])
<1> DEFINE t == Gave(s, m, k, x)
<1>1. IsSnaps(s) /\ IsFile(f) /\ m \in Nodes /\ m \in Model /\ m # Project
  <2>1. m \in Nodes /\ m \in Model
    BY MirroredIs
  <2>2. QED
    BY <2>1, ModelsAre DEF Mirrors
<1>2. DOMAIN f \subseteq Nodes /\ Model \subseteq Nodes /\ Project \in Nodes
  BY <1>1, ModelsAre DEF IsFile
<1>3. "staged" \in Views /\ "working" \in Views /\ "committed" \in Views
  BY DEF Views
<1>4. IsGave(t, s, m, k, x)
  BY <1>1, GaveIs
<1> HIDE DEF t
<1>5. IsSnaps(t) /\ At(t[m], "working", k) = <<x>>
  BY <1>1, <1>3, <1>4 DEF IsGave
<1>6. \A r \in Nodes : \A j : /\ At(t[r], "staged", j) = At(s[r], "staged", j)
                              /\ At(t[r], "committed", j) = At(s[r], "committed", j)
                              /\ r # m \/ j # k => At(t[r], "working", j) = At(s[r], "working", j)
  BY <1>3, <1>4 DEF IsGave
<1>7. \A r \in DOMAIN f : Mirrored(t[r], f, r)
  <2> TAKE r \in DOMAIN f
  <2>1. Mirrored(s[r], f, r) /\ r \in Nodes
    BY <1>2 DEF Mirrors
  <2>2. QED
    BY <1>6, <2>1 DEF Mirrored
<1>8. \A r \in Model : r \notin DOMAIN f => Blank(t[r])
  BY <1>2, <1>6 DEF Mirrors, Blank
<1>9. Listed(t[Project], f)
  <2>1. Listed(s[Project], f)
    BY DEF Mirrors
  <2>2. QED
    BY <1>1, <1>2, <1>6, <2>1 DEF Listed
<1>10. Mirrors(t, f)
  BY <1>1, <1>5, <1>7, <1>8, <1>9 DEF Mirrors
<1>11. Given(t[m], k, f[m][k]) = x
  BY <1>5, FirstIs DEF Given
<1>12. \A r \in DOMAIN f, j \in {"name", "auto"} : r # m \/ j # k =>
         Given(t[r], j, f[r][j]) = Given(s[r], j, f[r][j])
  BY <1>2, <1>6 DEF Given
<1>13. QED
  BY <1>10, <1>11, <1>12 DEF t

LEMMA GaveShows ==
  ASSUME NEW s, NEW f, Mirrors(s, f), NEW m \in DOMAIN f, NEW x
  PROVE  /\ Shows(Gave(s, m, "name", x), f) = [Shows(s, f) EXCEPT ![m].name = x]
         /\ Shows(Gave(s, m, "auto", x), f) = [Shows(s, f) EXCEPT ![m].auto = x]
<1>1. ASSUME NEW k \in {"name", "auto"}
      PROVE  /\ Given(Gave(s, m, k, x)[m], k, f[m][k]) = x
             /\ \A r \in DOMAIN f, j \in {"name", "auto"} : r # m \/ j # k =>
                  Given(Gave(s, m, k, x)[r], j, f[r][j]) = Given(s[r], j, f[r][j])
  BY GaveMirrors
<1>2. Shows(Gave(s, m, "name", x), f) = [Shows(s, f) EXCEPT ![m].name = x]
  <2> DEFINE t == Gave(s, m, "name", x)
  <2>1. /\ Given(t[m], "name", f[m].name) = x
        /\ \A r \in DOMAIN f : r # m => Given(t[r], "name", f[r].name) = Given(s[r], "name", f[r].name)
        /\ \A r \in DOMAIN f : Given(t[r], "auto", f[r].auto) = Given(s[r], "auto", f[r].auto)
    BY <1>1
  <2> HIDE DEF t
  <2>2. Shows(t, f) = [Shows(s, f) EXCEPT ![m].name = x]
    BY <2>1 DEF Shows
  <2>3. QED
    BY <2>2 DEF t
<1>3. Shows(Gave(s, m, "auto", x), f) = [Shows(s, f) EXCEPT ![m].auto = x]
  <2> DEFINE t == Gave(s, m, "auto", x)
  <2>1. /\ Given(t[m], "auto", f[m].auto) = x
        /\ \A r \in DOMAIN f : r # m => Given(t[r], "auto", f[r].auto) = Given(s[r], "auto", f[r].auto)
        /\ \A r \in DOMAIN f : Given(t[r], "name", f[r].name) = Given(s[r], "name", f[r].name)
    BY <1>1
  <2> HIDE DEF t
  <2>2. Shows(t, f) = [Shows(s, f) EXCEPT ![m].auto = x]
    BY <2>1 DEF Shows
  <2>3. QED
    BY <2>2 DEF t
<1>4. QED
  BY <1>2, <1>3

-----------------------------------------------------------------------------
(* What requests do.                                                       *)

OrmInv == /\ IsFile(itemsFile)
          /\ ~failed => Mirrors(snap, itemsFile)

Shown == IF failed THEN itemsFile ELSE Unsaved!View

LEMMA ShownIs ==
  OrmInv => Shown = IF failed THEN itemsFile ELSE Shows(snap, itemsFile)
BY ViewIs DEF OrmInv, Shown

\* The file and what the request sees after a step that does not fail.
LEMMA ActedIs ==
  ASSUME OrmInv, ~failed, ~failed', IsFile(itemsFile)', Mirrors(snap', itemsFile')
  PROVE  /\ OrmInv'
         /\ Shown = Shows(snap, itemsFile) /\ Shown' = Shows(snap', itemsFile')
<1>1. OrmInv'
  BY DEF OrmInv
<1>2. (OrmInv => Shown = IF failed THEN itemsFile ELSE Shows(snap, itemsFile))'
  BY ShownIs, PTL
<1>3. (Shown = IF failed THEN itemsFile ELSE Shows(snap, itemsFile))'
  BY <1>1, <1>2
<1>4. Shown' = Shows(snap', itemsFile')
  BY <1>3 DEF Shows
<1>5. QED
  BY <1>1, <1>4, ShownIs

LEMMA FailIs ==
  ASSUME OrmInv, Unsaved!Fail
  PROVE  OrmInv' /\ Unsaved!AsStored!Next
<1>1. OrmInv' /\ failed' = TRUE /\ itemsFile' = itemsFile
  BY DEF OrmInv, Unsaved!Fail, IsFile, Owned
<1>2. Unsaved!AsStored!Begin
  BY <1>1 DEF Unsaved!AsStored!Begin
<1>3. QED
  BY <1>1, <1>2 DEF Unsaved!AsStored!Next

LEMMA AssignActs ==
  ASSUME OrmInv, ~failed, NEW m, NEW v \in Value, Unsaved!Assign(m, v)
  PROVE  OrmInv' /\ Unsaved!AsStored!Next
<1>1. Mirrors(snap, itemsFile) /\ m \in DOMAIN itemsFile
  BY ViewIs DEF OrmInv, Unsaved!Assign
<1>2. snap' = Gave(snap, m, "name", v) /\ itemsFile' = itemsFile /\ ~failed'
  BY DEF Unsaved!Assign, Gave
<1>3. Mirrors(snap', itemsFile') /\ Shows(snap', itemsFile') = [Shows(snap, itemsFile) EXCEPT ![m].name = v]
  BY <1>1, <1>2, GaveMirrors, GaveShows
<1>4. OrmInv' /\ Shown = Shows(snap, itemsFile) /\ Shown' = Shows(snap', itemsFile')
  BY <1>2, <1>3, ActedIs DEF OrmInv, IsFile, Owned
<1>5. Shown' = [Shown EXCEPT ![m].name = v] /\ m \in DOMAIN Shown
  BY <1>1, <1>3, <1>4 DEF Shows
<1>6. Unsaved!AsStored!Assign(m, v)
  BY <1>2, <1>5 DEF Unsaved!AsStored!Assign, Shown
<1>7. QED
  BY <1>4, <1>5, <1>6 DEF Unsaved!AsStored!Next, Shown

LEMMA SaveFromIs ==
  ASSUME NEW s, Mirrors(s, itemsFile), NEW m \in DOMAIN itemsFile, ~failed,
         NEW only \in SUBSET {"name", "auto"}, Unsaved!SaveFrom(s, m, only)
  PROVE  \/ Unsaved!Fail
         \/ /\ ~failed' /\ itemsFile' = Wrote(s, itemsFile, m, only)
            /\ Mirrors(snap', itemsFile') /\ Shows(snap', itemsFile') = Shows(s, itemsFile)
<1> DEFINE t == Unsaved!Stage(s, m, only)
<1>1. \/ Unsaved!MustWrite(t, m) /\ ~Unsaved!CanDump(t)
      \/ SavedAs(s, itemsFile, m, t, Wrote(s, itemsFile, m, only))
  BY SavingIs
<1>2. IF Unsaved!MustWrite(t, m) /\ ~Unsaved!CanDump(t) THEN Unsaved!Fail
      ELSE /\ itemsFile' = IF Unsaved!MustWrite(t, m) THEN Unsaved!Dump(t) ELSE itemsFile
           /\ snap' = Unsaved!Commit(t, m) /\ UNCHANGED failed
  BY DEF Unsaved!SaveFrom
<1> HIDE DEF t
<1>3. CASE Unsaved!MustWrite(t, m) /\ ~Unsaved!CanDump(t)
  BY <1>2, <1>3
<1>4. CASE ~(Unsaved!MustWrite(t, m) /\ ~Unsaved!CanDump(t))
  BY <1>1, <1>2, <1>4 DEF SavedAs
<1>5. QED
  BY <1>3, <1>4

LEMMA SaveActs ==
  ASSUME OrmInv, ~failed, NEW m, Unsaved!Save(m)
  PROVE  OrmInv' /\ Unsaved!AsStored!Next
<1> DEFINE f == itemsFile
<1>1. Mirrors(snap, f) /\ m \in DOMAIN f /\ IsFile(f)
  BY ViewIs DEF OrmInv, Unsaved!Save
<1>2. Unsaved!SaveFrom(snap, m, {"name", "auto"})
  BY DEF Unsaved!Save, Unsaved!Scalars
<1>3. \/ Unsaved!Fail
      \/ /\ ~failed' /\ itemsFile' = Wrote(snap, f, m, {"name", "auto"})
         /\ Mirrors(snap', itemsFile') /\ Shows(snap', itemsFile') = Shows(snap, f)
  BY <1>1, <1>2, SaveFromIs
<1>4. CASE Unsaved!Fail
  BY <1>4, FailIs
<1>5. CASE /\ ~failed' /\ itemsFile' = Wrote(snap, f, m, {"name", "auto"})
           /\ Mirrors(snap', itemsFile') /\ Shows(snap', itemsFile') = Shows(snap, f)
  <2>1. OrmInv' /\ Shown = Shows(snap, f) /\ Shown' = Shows(snap', itemsFile')
    BY <1>5, ActedIs DEF Mirrors, IsFile, Owned
  <2>2. Shown[m] = [owner |-> f[m].owner, name |-> Given(snap[m], "name", f[m].name),
                    auto |-> Given(snap[m], "auto", f[m].auto)] /\ m \in DOMAIN Shown
    BY <1>1, <2>1 DEF Shows
  <2>3. itemsFile' = [itemsFile EXCEPT ![m] = Shown[m]]
    BY <1>5, <2>2 DEF Wrote
  <2>4. Unsaved!AsStored!Save(m)
    BY <1>5, <2>1, <2>3 DEF Unsaved!AsStored!Save, Shown
  <2>5. QED
    BY <2>1, <2>2, <2>4 DEF Unsaved!AsStored!Next, Shown
<1>6. QED
  BY <1>3, <1>4, <1>5

LEMMA ClearAutoActs ==
  ASSUME OrmInv, ~failed, NEW m, Unsaved!ClearAuto(m)
  PROVE  OrmInv' /\ Unsaved!AsStored!Next
<1>0. PICK no : no = FALSE
  OBVIOUS
<1> DEFINE f == itemsFile
           s == Gave(snap, m, "auto", no)
<1>1. Mirrors(snap, f) /\ m \in DOMAIN f /\ IsFile(f)
  BY ViewIs DEF OrmInv, Unsaved!ClearAuto
<1>2. Unsaved!SaveFrom(s, m, {"auto"})
  BY <1>0 DEF Unsaved!ClearAuto, Gave
<1>3. Mirrors(s, f) /\ Shows(s, f) = [Shows(snap, f) EXCEPT ![m].auto = no]
  BY <1>1, GaveMirrors, GaveShows
<1>4. Given(s[m], "auto", f[m].auto) = no
  <2>1. Given(Gave(snap, m, "auto", no)[m], "auto", f[m]["auto"]) = no
    BY <1>1, GaveMirrors
  <2>2. QED
    BY <2>1
<1> HIDE DEF s
<1>5. \/ Unsaved!Fail
      \/ /\ ~failed' /\ itemsFile' = Wrote(s, f, m, {"auto"})
         /\ Mirrors(snap', itemsFile') /\ Shows(snap', itemsFile') = Shows(s, f)
  BY <1>1, <1>2, <1>3, SaveFromIs
<1>6. CASE Unsaved!Fail
  BY <1>6, FailIs
<1>7. CASE /\ ~failed' /\ itemsFile' = Wrote(s, f, m, {"auto"})
           /\ Mirrors(snap', itemsFile') /\ Shows(snap', itemsFile') = Shows(s, f)
  <2>1. OrmInv' /\ Shown = Shows(snap, f) /\ Shown' = Shows(snap', itemsFile')
    BY <1>7, ActedIs DEF Mirrors, IsFile, Owned
  <2>2. Shown' = [Shown EXCEPT ![m].auto = no] /\ m \in DOMAIN Shown
    BY <1>1, <1>3, <1>7, <2>1 DEF Shows
  <2>3. itemsFile' = [itemsFile EXCEPT ![m].auto = no]
    <3>1. itemsFile' = [f EXCEPT ![m] = [owner |-> f[m].owner, name |-> f[m].name, auto |-> no]]
      BY <1>4, <1>7 DEF Wrote
    <3>2. f[m] = [owner |-> f[m].owner, name |-> f[m].name, auto |-> f[m].auto]
      BY <1>1 DEF IsFile
    <3>3. [f[m] EXCEPT !.auto = no] = [owner |-> f[m].owner, name |-> f[m].name, auto |-> no]
      BY <3>2
    <3>4. QED
      BY <3>1, <3>3
  <2>4. Unsaved!AsStored!ClearAuto(m)
    BY <1>7, <1>0, <2>2, <2>3 DEF Unsaved!AsStored!ClearAuto, Shown
  <2>5. QED
    BY <2>1, <2>2, <2>4 DEF Unsaved!AsStored!Next, Shown
<1>8. QED
  BY <1>5, <1>6, <1>7

LEMMA LoadedIs ==
  ASSUME NEW f, IsFile(f)
  PROVE  /\ Mirrors(Unsaved!Loaded(f), f)
         /\ Shows(Unsaved!Loaded(f), f) = f
<1> DEFINE s == Unsaved!Loaded(f)
           data(m) == IF m = Project THEN [members |-> Owned(f, m)]
                      ELSE IF m \in Schema \cap DOMAIN f
                      THEN Unsaved!Updated(f[m], [members |-> Owned(f, m)])
                      ELSE IF m \in DOMAIN f THEN f[m] ELSE <<>>
<1>1. s = [m \in Nodes |-> [Unsaved!Nothing EXCEPT !["committed"] = data(m)]]
  BY DEF Unsaved!Loaded, Owned, Nodes, Model
<1>2. DOMAIN Unsaved!Nothing = Views /\ \A v \in Views : Unsaved!Nothing[v] = <<>>
  BY DEF Unsaved!Nothing, Unsaved!Snapshots, Views
<1>3. "staged" \in Views /\ "working" \in Views /\ "committed" \in Views
  BY DEF Views
<1> HIDE DEF s
<1>4. ASSUME NEW m \in Nodes
      PROVE  /\ IsData(s[m]) /\ s[m]["working"] = <<>> /\ s[m]["staged"] = <<>>
             /\ s[m]["committed"] = data(m)
  <2> HIDE DEF data
  <2>1. s[m] = [Unsaved!Nothing EXCEPT !["committed"] = data(m)]
    BY <1>1
  <2>2. QED
    BY <1>2, <1>3, <2>1 DEF IsData
<1>5. \A m \in Nodes : \A k : /\ At(s[m], "working", k) = <<>> /\ At(s[m], "staged", k) = <<>>
                              /\ k \in DOMAIN data(m) => At(s[m], "committed", k) = <<data(m)[k]>>
                              /\ k \notin DOMAIN data(m) => At(s[m], "committed", k) = <<>>
  <2> HIDE DEF data
  <2>1. \A k : k \notin DOMAIN <<>>
    OBVIOUS
  <2>2. QED
    BY <1>4, <2>1 DEF At
<1>6. IsSnaps(s)
  <2>1. DOMAIN s = Nodes
    BY <1>1
  <2>2. QED
    BY <1>4, <2>1 DEF IsSnaps
<1>7. DOMAIN f \subseteq Model /\ Model \subseteq Nodes /\ Project \in Nodes /\ Project \notin Model
      /\ Owned(f, Project) \in SUBSET Schema /\ Model = Schema \cup Field
  BY ModelsAre, OwnedIs DEF IsFile
<1>8. ASSUME NEW m \in DOMAIN f PROVE Mirrored(s[m], f, m)
  <2>1. f[m] = [owner |-> f[m].owner, name |-> f[m].name, auto |-> f[m].auto]
    BY DEF IsFile
  <2>2. DOMAIN f[m] = {"owner", "name", "auto"}
    BY <2>1
  <2>3. CASE m \in Schema
    <3>1. data(m) = Unsaved!Updated(f[m], [members |-> Owned(f, m)])
      BY <1>7, <2>3
    <3>2. /\ DOMAIN data(m) = {"owner", "name", "auto", "members"}
          /\ data(m)["name"] = f[m].name /\ data(m)["auto"] = f[m].auto
          /\ data(m)["owner"] = f[m].owner /\ data(m)["members"] = Owned(f, m)
      <4> HIDE DEF data
      <4>1. QED
        BY <2>2, <3>1 DEF Unsaved!Updated
    <3> HIDE DEF data
    <3>3. QED
      BY <1>5, <1>7, <3>2 DEF Mirrored, Holds
  <2>4. CASE m \notin Schema
    <3>1. data(m) = f[m] /\ Owned(f, m) = {}
      BY <1>7, <2>4, OwnedIs
    <3> HIDE DEF data
    <3>2. QED
      BY <1>5, <1>7, <2>2, <3>1 DEF Mirrored, Holds
  <2>5. QED
    BY <2>3, <2>4
<1>9. ASSUME NEW m \in Model, m \notin DOMAIN f PROVE Blank(s[m])
  <2>1. data(m) = <<>>
    BY <1>7, <1>9
  <2>2. DOMAIN data(m) = {}
    BY <2>1
  <2> HIDE DEF data
  <2>3. QED
    BY <1>5, <1>7, <2>2 DEF Blank
<1>10. Listed(s[Project], f)
  <2>1. data(Project) = [members |-> Owned(f, Project)]
    OBVIOUS
  <2>2. "members" \in DOMAIN data(Project) /\ data(Project)["members"] = Owned(f, Project)
    BY <2>1
  <2> HIDE DEF data
  <2>3. QED
    BY <1>5, <1>7, <2>2 DEF Listed
<1>11. Mirrors(s, f)
  BY <1>6, <1>8, <1>9, <1>10 DEF Mirrors
<1>12. Shows(s, f) = f
  <2>1. Shows(s, f) = [m \in DOMAIN f |-> [owner |-> f[m].owner, name |-> f[m].name, auto |-> f[m].auto]]
    <3> HIDE DEF data
    <3>1. \A m \in DOMAIN f : \A k : At(s[m], "working", k) = <<>>
      BY <1>5, <1>7
    <3>2. QED
      BY <3>1 DEF Shows, Given
  <2>2. QED
    BY <2>1 DEF IsFile
<1>13. QED
  BY <1>11, <1>12 DEF s

LEMMA BeginActs ==
  ASSUME OrmInv, Unsaved!Begin
  PROVE  OrmInv' /\ Unsaved!AsStored!Next
<1>1. snap' = Unsaved!Loaded(itemsFile) /\ ~failed' /\ itemsFile' = itemsFile /\ IsFile(itemsFile)
  BY DEF Unsaved!Begin, OrmInv
<1>2. Mirrors(snap', itemsFile') /\ Shows(snap', itemsFile') = itemsFile
  BY <1>1, LoadedIs
<1>3. OrmInv'
  BY <1>1, <1>2 DEF OrmInv, IsFile, Owned
<1>4. (OrmInv => Shown = IF failed THEN itemsFile ELSE Shows(snap, itemsFile))'
  BY ShownIs, PTL
<1>5. (Shown = IF failed THEN itemsFile ELSE Shows(snap, itemsFile))'
  BY <1>3, <1>4
<1>6. Shown' = itemsFile'
  BY <1>1, <1>2, <1>5 DEF Shows
<1>7. Unsaved!AsStored!Begin
  BY <1>1, <1>6 DEF Unsaved!AsStored!Begin, Shown
<1>8. QED
  BY <1>3, <1>7 DEF Unsaved!AsStored!Next

LEMMA InitActs ==
  ASSUME Unsaved!Init
  PROVE  OrmInv /\ Unsaved!AsStored!Init
<1>1. snap = Unsaved!Loaded(<<>>) /\ ~failed /\ itemsFile = <<>>
  BY DEF Unsaved!Init
<1>2. IsFile(itemsFile)
  BY <1>1 DEF IsFile
<1>3. Mirrors(snap, itemsFile) /\ Shows(snap, itemsFile) = itemsFile
  BY <1>1, <1>2, LoadedIs
<1>4. OrmInv
  BY <1>2, <1>3 DEF OrmInv
<1>5. Shown = itemsFile
  BY <1>1, <1>3, <1>4, ShownIs
<1>6. QED
  BY <1>1, <1>4, <1>5 DEF Unsaved!AsStored!Init, Shown

-----------------------------------------------------------------------------
(* Creation.                                                               *)

Added(f, m, o, yes) ==
  Unsaved!AsStored!With(f, m, [owner |-> o, name |-> New, auto |-> yes])

MayOwn(f, m, o) == \/ m \in Schema /\ o = Project
                   \/ m \in Field /\ o \in Schema \cap DOMAIN f

IsAdded(g, f, m, o, yes) ==
  /\ IsFile(g) /\ DOMAIN g = DOMAIN f \cup {m}
  /\ \A r \in DOMAIN f : g[r] = f[r]
  /\ g[m].owner = o /\ g[m].name = New /\ g[m].auto = yes
  /\ \A p : p # o => Owned(g, p) = Owned(f, p)
  /\ Owned(g, o) = Owned(f, o) \cup {m}

LEMMA AddedIs ==
  ASSUME NEW f, IsFile(f), NEW m, m \notin DOMAIN f, NEW o, MayOwn(f, m, o), NEW yes
  PROVE  IsAdded(Added(f, m, o, yes), f, m, o, yes)
<1> DEFINE x == [owner |-> o, name |-> New, auto |-> yes]
           g == Added(f, m, o, yes)
<1>1. g = [r \in DOMAIN f \cup {m} |-> IF r = m THEN x ELSE f[r]]
  BY DEF Added, Unsaved!AsStored!With
<1>2. x.owner = o /\ x.name = New /\ x.auto = yes
      /\ x = [owner |-> x.owner, name |-> x.name, auto |-> x.auto]
  OBVIOUS
<1> HIDE DEF x, g
<1>3. /\ DOMAIN g = DOMAIN f \cup {m} /\ g[m] = x
      /\ \A r \in DOMAIN f : g[r] = f[r]
  BY <1>1
<1>4. g = [r \in DOMAIN g |-> [owner |-> g[r].owner, name |-> g[r].name, auto |-> g[r].auto]]
  <2>1. \A r \in DOMAIN f : f[r] = [owner |-> f[r].owner, name |-> f[r].name, auto |-> f[r].auto]
    BY DEF IsFile
  <2>2. \A r \in DOMAIN g : g[r] = [owner |-> g[r].owner, name |-> g[r].name, auto |-> g[r].auto]
    BY <1>2, <1>3, <2>1
  <2>3. g = [r \in DOMAIN g |-> g[r]]
    BY <1>1, <1>3
  <2>4. QED
    BY <2>2, <2>3
<1>5. IsFile(g)
  <2>1. m \in Model
    BY ModelsAre DEF MayOwn
  <2>2. ASSUME NEW r \in DOMAIN g
        PROVE  \/ r \in Schema /\ g[r].owner = Project
               \/ r \in Field /\ g[r].owner \in Schema \cap DOMAIN g
    <3>1. CASE r = m
      BY <1>2, <1>3, <3>1 DEF MayOwn
    <3>2. CASE r # m
      <4>1. r \in DOMAIN f /\ g[r] = f[r]
        BY <1>3, <3>2
      <4>2. QED
        BY <1>3, <4>1 DEF IsFile
    <3>3. QED
      BY <3>1, <3>2
  <2>3. DOMAIN g \subseteq Model
    BY <1>3, <2>1 DEF IsFile
  <2>4. QED
    BY <1>4, <2>2, <2>3 DEF IsFile
<1>6. \A p : p # o => Owned(g, p) = Owned(f, p)
  BY <1>2, <1>3 DEF Owned
<1>7. Owned(g, o) = Owned(f, o) \cup {m}
  BY <1>2, <1>3 DEF Owned
<1>8. QED
  BY <1>2, <1>3, <1>5, <1>6, <1>7 DEF IsAdded, g

\* An instance is constructed: both sides are in the working data.
Fresh(k, o, yes) == IF k = "name" THEN <<New>> ELSE IF k = "auto" THEN <<yes>>
                    ELSE IF k = "owner" THEN <<o>> ELSE <<>>

IsConstructed(c, s, f, m, o, yes) ==
  /\ IsSnaps(c)
  /\ \A k : At(c[m], "working", k) = Fresh(k, o, yes)
  /\ At(c[o], "working", "members") = <<Owned(f, o) \cup {m}>>
  /\ \A r \in Nodes : \A k :
       /\ At(c[r], "staged", k) = At(s[r], "staged", k)
       /\ r # m /\ (r # o \/ k # "members") => At(c[r], "working", k) = At(s[r], "working", k)
       /\ r # o \/ k # "members" => At(c[r], "committed", k) = At(s[r], "committed", k)

LEMMA ConstructedIs ==
  ASSUME NEW f, Mirrors(snap, f), NEW m \in Model, m \notin DOMAIN f, NEW o, MayOwn(f, m, o),
         NEW yes, yes = TRUE, \A view \in Unsaved!Snapshots : snap[m][view] = <<>>
  PROVE  IsConstructed(Unsaved!Constructed(m, o), snap, f, m, o, yes)
<1> DEFINE x == [name |-> New, auto |-> yes, owner |-> o]
           own == [Unsaved!Nothing EXCEPT !["working"] = x]
           s == [snap EXCEPT ![m] = own]
           sides == Unsaved!MembersOf(s, o, Unsaved!All) \cup {m}
           mine == Unsaved!Set(s[o], "working", "members", sides)
           both == Unsaved!Set(mine, "committed", "members", sides)
           c == Unsaved!Constructed(m, o)
<1>1. c = [s EXCEPT ![o] = IF o \in live THEN both ELSE mine]
  BY DEF Unsaved!Constructed, Unsaved!Add
<1>2. DOMAIN Unsaved!Nothing = Views /\ \A v \in Views : Unsaved!Nothing[v] = <<>>
  BY DEF Unsaved!Nothing, Unsaved!Snapshots, Views
<1>3. "staged" \in Views /\ "working" \in Views /\ "committed" \in Views
  BY DEF Views
<1>4. m \in Nodes /\ o \in Nodes /\ o # m /\ IsSnaps(snap) /\ IsFile(f)
  BY ModelsAre DEF MayOwn, Mirrors
<1>5. \A k : (IF k \in DOMAIN x THEN <<x[k]>> ELSE <<>>) = Fresh(k, o, yes)
  <2>1. DOMAIN x = {"name", "auto", "owner"}
    OBVIOUS
  <2>2. x["name"] = New /\ x["auto"] = yes /\ x["owner"] = o
    OBVIOUS
  <2> HIDE DEF x
  <2>3. QED
    BY <2>1, <2>2 DEF Fresh
<1> HIDE DEF x
<1>6. IsData(own) /\ own["working"] = x /\ own["staged"] = <<>> /\ own["committed"] = <<>>
  BY <1>2, <1>3 DEF IsData
<1> HIDE DEF own
<1>7. /\ IsSnaps(s) /\ s[m] = own
      /\ \A r \in Nodes : r # m => s[r] = snap[r]
  BY <1>4, <1>6 DEF IsSnaps
<1>8. /\ \A k : At(s[m], "working", k) = Fresh(k, o, yes)
      /\ \A k : /\ At(s[m], "staged", k) = At(snap[m], "staged", k)
                /\ At(s[m], "committed", k) = At(snap[m], "committed", k)
  <2>1. \A k : At(s[m], "working", k) = Fresh(k, o, yes)
    BY <1>5, <1>6, <1>7 DEF At
  <2>2. snap[m]["staged"] = <<>> /\ snap[m]["committed"] = <<>>
    BY DEF Unsaved!Snapshots
  <2>3. \A k : k \notin DOMAIN <<>>
    OBVIOUS
  <2>4. \A k : /\ At(s[m], "staged", k) = <<>> /\ At(s[m], "committed", k) = <<>>
               /\ At(snap[m], "staged", k) = <<>> /\ At(snap[m], "committed", k) = <<>>
    BY <1>6, <1>7, <2>2, <2>3 DEF At
  <2>5. QED
    BY <2>1, <2>4
<1> HIDE DEF s
<1>9. sides = Owned(f, o) \cup {m}
  <2>1. Holds(Read(snap[o], "members"), Owned(f, o))
    <3>1. CASE o = Project
      BY <3>1, ListedIs DEF Holds
    <3>2. CASE o # Project
      <4>1. o \in DOMAIN f
        BY <3>2, ModelsAre DEF MayOwn
      <4>2. QED
        BY <4>1, MirroredIs
    <3>3. QED
      BY <3>1, <3>2
  <2>2. s[o] = snap[o] /\ Owned(f, o) \in SUBSET Model
    BY <1>4, <1>7, OwnedIs
  <2>3. Unsaved!MembersOf(s, o, Unsaved!All) = Owned(f, o)
    BY <1>4, <1>7, <2>1, <2>2, ListIs
  <2>4. QED
    BY <2>3
<1> HIDE DEF sides
<1>10. IsData(s[o]) /\ s[o] = snap[o]
  BY <1>4, <1>7 DEF IsSnaps
<1>11. /\ IsData(mine)
       /\ \A v \in Views : \A j : At(mine, v, j) =
            IF v = "working" /\ j = "members" THEN <<sides>> ELSE At(s[o], v, j)
  BY <1>3, <1>10, SetIs
<1> HIDE DEF mine
<1>12. /\ IsData(both)
       /\ \A v \in Views : \A j : At(both, v, j) =
            IF v = "committed" /\ j = "members" THEN <<sides>> ELSE At(mine, v, j)
  BY <1>3, <1>11, SetIs
<1> HIDE DEF both, c
<1>13. /\ DOMAIN c = Nodes /\ c[o] = IF o \in live THEN both ELSE mine
       /\ \A r \in Nodes : r # o => c[r] = s[r]
  BY <1>1, <1>4, <1>7 DEF IsSnaps
<1>14. IsSnaps(c)
  BY <1>7, <1>11, <1>12, <1>13 DEF IsSnaps
<1>15. /\ \A k : At(c[o], "working", k) = IF k = "members" THEN <<sides>> ELSE At(snap[o], "working", k)
       /\ \A k : At(c[o], "staged", k) = At(snap[o], "staged", k)
       /\ \A k : k # "members" => At(c[o], "committed", k) = At(snap[o], "committed", k)
  <2>1. CASE o \in live
    BY <1>3, <1>10, <1>11, <1>12, <1>13, <2>1
  <2>2. CASE o \notin live
    BY <1>3, <1>10, <1>11, <1>13, <2>2
  <2>3. QED
    BY <2>1, <2>2
<1>16. \A k : At(c[m], "working", k) = Fresh(k, o, yes)
  BY <1>4, <1>8, <1>13
<1>17. ASSUME NEW r \in Nodes, NEW k
       PROVE  /\ At(c[r], "staged", k) = At(snap[r], "staged", k)
              /\ r # m /\ (r # o \/ k # "members") => At(c[r], "working", k) = At(snap[r], "working", k)
              /\ r # o \/ k # "members" => At(c[r], "committed", k) = At(snap[r], "committed", k)
  <2>1. CASE r = o
    BY <1>15, <2>1
  <2>2. CASE r = m
    BY <1>4, <1>8, <1>13, <2>2
  <2>3. CASE r # o /\ r # m
    BY <1>7, <1>13, <2>3
  <2>4. QED
    BY <2>1, <2>2, <2>3
<1>18. QED
  BY <1>9, <1>14, <1>15, <1>16, <1>17 DEF IsConstructed, c

NewStaged(t, c, s, f, m, o, yes) ==
  /\ IsSnaps(t)
  /\ \A r \in Nodes : \A k : /\ At(t[r], "working", k) = At(c[r], "working", k)
                             /\ At(t[r], "committed", k) = At(c[r], "committed", k)
  /\ \A k : At(t[m], "staged", k) = Fresh(k, o, yes)
  /\ At(t[o], "staged", "members") = <<Owned(f, o) \cup {m}>>
  /\ \A r \in Nodes : \A k :
       r # m /\ (r # o \/ k # "members") => At(t[r], "staged", k) = At(s[r], "staged", k)
  /\ DOMAIN Unsaved!Related(t, m) = {o}

LEMMA CreateStages ==
  ASSUME NEW s, NEW f, Mirrors(s, f), NEW m \in Model, m \notin DOMAIN f, NEW o, MayOwn(f, m, o),
         NEW yes, NEW c, IsConstructed(c, s, f, m, o, yes),
         \A k : At(s[m], "committed", k) = <<>>
  PROVE  NewStaged(Unsaved!Stage(c, m, {"name", "auto", "owner"}), c, s, f, m, o, yes)
<1> DEFINE dirty == {"name", "auto", "owner"}
           mine == Mine(c, m, dirty)
           related == Unsaved!Related(mine, m)
           t == Unsaved!Stage(c, m, {"name", "auto", "owner"})
<1>1. m \in Nodes /\ o \in Nodes /\ o # m /\ o # None /\ IsSnaps(c) /\ {} \in SUBSET Model
  BY ModelsAre DEF MayOwn, IsConstructed
<1>2. "staged" \in Views /\ "working" \in Views /\ "committed" \in Views
  BY DEF Views
<1>3. \A k : At(s[m], "staged", k) = <<>>
  BY DEF Mirrors, Blank
<1>4. /\ \A k : At(c[m], "working", k) = Fresh(k, o, yes)
      /\ \A k : At(c[m], "staged", k) = <<>> /\ At(c[m], "committed", k) = <<>>
      /\ At(c[o], "working", "members") = <<Owned(f, o) \cup {m}>>
      /\ \A r \in Nodes : \A k : At(c[r], "staged", k) = At(s[r], "staged", k)
  BY <1>1, <1>3 DEF IsConstructed
<1>5. \A k : Fresh(k, o, yes) # <<>> <=> k \in dirty
  BY FirstIs DEF Fresh
<1>6. Unsaved!Dirty(c[m]) \cap dirty = dirty
  BY <1>4, <1>5, DirtyIs
<1>7. t = Unsaved!StageFields(c, m, dirty)
  BY <1>6 DEF Unsaved!Stage
<1>8. dirty \subseteq DOMAIN c[m]["working"]
  BY <1>4, <1>5, AtIs
<1> HIDE DEF dirty
<1>9. IsMine(mine, c, m, dirty)
  BY <1>1, <1>8, MineIs
<1>10. IsStaged(t, mine, related, dirty)
  BY <1>1, <1>7, <1>8, StageFieldsIs
<1> HIDE DEF mine, t
<1>11. /\ IsSnaps(mine)
       /\ \A r \in Nodes : \A k : /\ At(mine[r], "working", k) = At(c[r], "working", k)
                                  /\ At(mine[r], "committed", k) = At(c[r], "committed", k)
                                  /\ r # m => At(mine[r], "staged", k) = At(c[r], "staged", k)
       /\ \A k : At(mine[m], "staged", k) = Fresh(k, o, yes)
  <2>1. IsSnaps(mine)
    BY <1>9 DEF IsMine
  <2>2. \A r \in Nodes : \A k : /\ At(mine[r], "working", k) = At(c[r], "working", k)
                                /\ At(mine[r], "committed", k) = At(c[r], "committed", k)
                                /\ r # m => At(mine[r], "staged", k) = At(c[r], "staged", k)
    BY <1>2, <1>9 DEF IsMine
  <2>3. \A k : At(mine[m], "staged", k) =
          IF k \in dirty THEN At(c[m], "working", k) ELSE At(c[m], "staged", k)
    BY <1>1, <1>2, <1>9 DEF IsMine
  <2>4. QED
    BY <1>4, <1>5, <2>1, <2>2, <2>3
<1>12. \A e : (\A k : At(e, "staged", k) = Fresh(k, o, yes) /\ At(e, "committed", k) = <<>>)
                 => Kept(e, "owner") = <<o>> /\ Kept(e, "members") = <<>>
  <2>1. Fresh("owner", o, yes) = <<o>> /\ Fresh("members", o, yes) = <<>>
    BY DEF Fresh
  <2>2. QED
    BY <2>1, KeptIs, FirstIs
<1>13. ASSUME NEW e, IsSnaps(e),
              \A k : At(e[m], "staged", k) = Fresh(k, o, yes) /\ At(e[m], "committed", k) = <<>>
       PROVE  /\ DOMAIN Unsaved!Related(e, m) = {o}
              /\ \A r \in DOMAIN Unsaved!Related(e, m) : Unsaved!Related(e, m)[r] = "members"
  <2>1. Kept(e[m], "owner") = <<o>> /\ Kept(e[m], "members") = <<>>
    BY <1>12, <1>13
  <2>2. Unsaved!OwnerOf(e, m, Unsaved!Stored) = o
    BY <1>1, <1>13, <2>1, OwnerIs, FirstIs
  <2>3. Unsaved!MembersOf(e, m, Unsaved!Stored) = {}
    BY <1>1, <1>13, <2>1, ListIs DEF Holds
  <2>4. /\ DOMAIN Unsaved!Related(e, m) = Unsaved!MembersOf(e, m, Unsaved!Stored)
             \cup ({Unsaved!OwnerOf(e, m, Unsaved!Stored)} \ {None})
        /\ \A r \in DOMAIN Unsaved!Related(e, m) : Unsaved!Related(e, m)[r] =
             IF r = Unsaved!OwnerOf(e, m, Unsaved!Stored) THEN "members" ELSE "owner"
    BY RelatedIs
  <2>5. DOMAIN Unsaved!Related(e, m) = {o}
    BY <1>1, <2>2, <2>3, <2>4
  <2>6. QED
    BY <2>2, <2>4, <2>5
<1>14. DOMAIN related = {o} /\ \A r \in DOMAIN related : related[r] = "members"
  BY <1>1, <1>4, <1>11, <1>13
<1> HIDE DEF related
<1>15. dirty # {}
  BY DEF dirty
<1>16. /\ IsSnaps(t)
       /\ \A r \in Nodes : \A k :
            /\ At(t[r], "working", k) = At(mine[r], "working", k)
            /\ At(t[r], "committed", k) = At(mine[r], "committed", k)
            /\ r # o \/ k # "members" => At(t[r], "staged", k) = At(mine[r], "staged", k)
  <2>1. IsSnaps(t)
    BY <1>10 DEF IsStaged
  <2>2. ASSUME NEW r \in Nodes, NEW k
        PROVE  /\ At(t[r], "working", k) = At(mine[r], "working", k)
               /\ At(t[r], "committed", k) = At(mine[r], "committed", k)
    BY <1>2, <1>10 DEF IsStaged
  <2>3. ASSUME NEW r \in Nodes, NEW k, r # o \/ k # "members"
        PROVE  At(t[r], "staged", k) = At(mine[r], "staged", k)
    <3>1. ~(r \in DOMAIN related /\ k = related[r])
      BY <1>14, <2>3
    <3>2. QED
      BY <1>2, <1>10, <3>1 DEF IsStaged
  <2>4. QED
    BY <2>1, <2>2, <2>3
<1>17. At(t[o], "staged", "members") = <<Owned(f, o) \cup {m}>>
  <2>1. At(mine[o], "working", "members") = <<Owned(f, o) \cup {m}>>
    BY <1>1, <1>4, <1>11
  <2>2. At(t[o], "staged", "members")
          = <<OrNone(First(At(mine[o], "working", "members"), At(mine[o], "committed", "members")))>>
    BY <1>1, <1>2, <1>10, <1>14, <1>15 DEF IsStaged
  <2>3. QED
    BY <2>1, <2>2, FirstIs
<1>18. \A k : At(t[m], "staged", k) = Fresh(k, o, yes) /\ At(t[m], "committed", k) = <<>>
  <2> TAKE k
  <2>1. At(t[m], "staged", k) = Fresh(k, o, yes)
    BY <1>1, <1>11, <1>16
  <2>2. At(t[m], "committed", k) = At(c[m], "committed", k)
    BY <1>1, <1>11, <1>16
  <2>3. QED
    BY <1>4, <2>1, <2>2
<1>19. DOMAIN Unsaved!Related(t, m) = {o}
  BY <1>13, <1>16, <1>18
<1>20. \A r \in Nodes : \A k :
         r # m /\ (r # o \/ k # "members") => At(t[r], "staged", k) = At(s[r], "staged", k)
  BY <1>4, <1>11, <1>16
<1>21. QED
  BY <1>11, <1>16, <1>17, <1>18, <1>19, <1>20 DEF NewStaged, t

CreatedAs(s, f, m, o, yes, t, g) ==
  /\ Unsaved!MustWrite(t, m) /\ Unsaved!CanDump(t) /\ Unsaved!Dump(t) = g
  /\ Mirrors(Unsaved!Commit(t, m), g)
  /\ Shows(Unsaved!Commit(t, m), g) = Added(Shows(s, f), m, o, yes)

LEMMA CreatingIs ==
  ASSUME NEW s, NEW f, Mirrors(s, f), NEW m \in Model, m \notin DOMAIN f, NEW o, MayOwn(f, m, o),
         NEW yes, NEW c, IsConstructed(c, s, f, m, o, yes),
         \A k : At(s[m], "committed", k) = <<>>, NEW t, NewStaged(t, c, s, f, m, o, yes)
  PROVE  CreatedAs(s, f, m, o, yes, t, Added(f, m, o, yes))
<1> DEFINE g == Added(f, m, o, yes)
           u == Unsaved!Commit(t, m)
           written == {m, o}
<1>1. /\ m \in Nodes /\ o \in Nodes /\ o # m /\ IsSnaps(t) /\ IsFile(f)
      /\ o = Project \/ o \in Schema \cap DOMAIN f
      /\ Project \notin Model /\ Model \subseteq Nodes /\ DOMAIN f \subseteq Model
      /\ Model = Schema \cup Field
  BY ModelsAre DEF MayOwn, NewStaged, Mirrors, IsFile
<1>2. IsAdded(g, f, m, o, yes)
  BY <1>1, AddedIs
<1> HIDE DEF g
<1>3. /\ IsFile(g) /\ DOMAIN g = DOMAIN f \cup {m}
      /\ \A r \in DOMAIN f : g[r] = f[r]
      /\ g[m].owner = o /\ g[m].name = New /\ g[m].auto = yes
      /\ \A p : p # o => Owned(g, p) = Owned(f, p)
      /\ Owned(g, o) = Owned(f, o) \cup {m}
  BY <1>2 DEF IsAdded
<1>4. /\ \A k : At(t[m], "working", k) = Fresh(k, o, yes)
      /\ \A k : At(t[m], "staged", k) = Fresh(k, o, yes)
      /\ \A k : At(t[m], "committed", k) = <<>>
      /\ At(t[o], "staged", "members") = <<Owned(g, o)>>
      /\ \A k : k # "members" =>
           /\ At(t[o], "working", k) = At(s[o], "working", k)
           /\ At(t[o], "staged", k) = At(s[o], "staged", k)
           /\ At(t[o], "committed", k) = At(s[o], "committed", k)
  <2>1. \A k : /\ At(t[m], "working", k) = At(c[m], "working", k)
               /\ At(t[m], "committed", k) = At(c[m], "committed", k)
    BY <1>1 DEF NewStaged
  <2>2. \A k : /\ At(c[m], "working", k) = Fresh(k, o, yes)
               /\ At(c[m], "committed", k) = <<>>
    BY <1>1 DEF IsConstructed
  <2>3. \A k : At(t[m], "staged", k) = Fresh(k, o, yes)
    BY DEF NewStaged
  <2>4. At(t[o], "staged", "members") = <<Owned(g, o)>>
    BY <1>3 DEF NewStaged
  <2>5. ASSUME NEW k, k # "members"
        PROVE  /\ At(t[o], "working", k) = At(s[o], "working", k)
               /\ At(t[o], "staged", k) = At(s[o], "staged", k)
               /\ At(t[o], "committed", k) = At(s[o], "committed", k)
    <3>1. At(t[o], "working", k) = At(c[o], "working", k)
          /\ At(t[o], "committed", k) = At(c[o], "committed", k)
      BY <1>1 DEF NewStaged
    <3>2. At(c[o], "working", k) = At(s[o], "working", k)
          /\ At(c[o], "committed", k) = At(s[o], "committed", k)
      BY <1>1, <2>5 DEF IsConstructed
    <3>3. At(t[o], "staged", k) = At(s[o], "staged", k)
      BY <1>1, <2>5 DEF NewStaged
    <3>4. QED
      BY <3>1, <3>2, <3>3
  <2>6. QED
    BY <2>1, <2>2, <2>3, <2>4, <2>5
<1>5. ASSUME NEW r \in Nodes, r # m, r # o
      PROVE  \A k : /\ At(t[r], "working", k) = At(s[r], "working", k)
                    /\ At(t[r], "staged", k) = At(s[r], "staged", k)
                    /\ At(t[r], "committed", k) = At(s[r], "committed", k)
  <2> TAKE k
  <2>1. At(t[r], "working", k) = At(c[r], "working", k)
        /\ At(t[r], "committed", k) = At(c[r], "committed", k)
    BY DEF NewStaged
  <2>2. At(c[r], "working", k) = At(s[r], "working", k)
        /\ At(c[r], "committed", k) = At(s[r], "committed", k)
    BY <1>5 DEF IsConstructed
  <2>3. At(t[r], "staged", k) = At(s[r], "staged", k)
    BY <1>5 DEF NewStaged
  <2>4. QED
    BY <2>1, <2>2, <2>3
<1>6. written = {m} \cup DOMAIN Unsaved!Related(t, m)
  BY DEF NewStaged
<1>7. Ready(t[m], g, m)
  <2>1. /\ Fresh("name", o, yes) = <<New>> /\ Fresh("auto", o, yes) = <<yes>>
        /\ Fresh("owner", o, yes) = <<o>> /\ Fresh("members", o, yes) = <<>>
    BY DEF Fresh
  <2>2. Owned(g, m) = {}
    BY <1>1, <1>3, OwnedIs
  <2>3. /\ Kept(t[m], "name") = <<New>> /\ Kept(t[m], "auto") = <<yes>>
        /\ Kept(t[m], "owner") = <<o>> /\ Kept(t[m], "members") = <<>>
    BY <1>4, <2>1, KeptIs, FirstIs
  <2>4. \A k : At(t[m], "working", k) = <<>> \/ At(t[m], "staged", k) # <<>>
    BY <1>4
  <2>5. QED
    BY <1>3, <2>2, <2>3, <2>4 DEF Ready, Holds
<1>8. Kept(t[o], "members") = <<Owned(g, o)>>
  BY <1>4, KeptIs, FirstIs
<1>9. o # Project => Ready(t[o], g, o)
  <2> SUFFICES ASSUME o # Project PROVE Ready(t[o], g, o)
    OBVIOUS
  <2>1. o \in DOMAIN f /\ Mirrored(s[o], f, o) /\ Ready(s[o], f, o)
    BY <1>1, MirroredReady DEF Mirrors
  <2>2. \A k : k # "members" => Kept(t[o], k) = Kept(s[o], k)
    BY <1>4 DEF Kept
  <2>3. /\ Kept(t[o], "name") = <<g[o].name>> /\ Kept(t[o], "auto") = <<g[o].auto>>
        /\ Kept(t[o], "owner") = <<g[o].owner>>
    BY <1>3, <2>1, <2>2 DEF Ready
  <2>4. \A k : k \notin {"name", "auto"} => At(t[o], "working", k) = <<>> \/ At(t[o], "staged", k) # <<>>
    <3> TAKE k
    <3>1. CASE k = "members"
      BY <1>4, <3>1, FirstIs
    <3>2. CASE k # "members"
      BY <1>4, <2>1, <3>2 DEF Mirrored
    <3>3. QED
      BY <3>1, <3>2
  <2>5. QED
    BY <1>8, <2>3, <2>4 DEF Ready, Holds
<1>10. o = Project => ReadyList(t[Project], g)
  <2> SUFFICES ASSUME o = Project PROVE ReadyList(t[Project], g)
    OBVIOUS
  <2>1. Listed(s[Project], f)
    BY DEF Mirrors
  <2>2. \A k : At(t[Project], "working", k) = <<>> \/ At(t[Project], "staged", k) # <<>>
    <3> TAKE k
    <3>1. CASE k = "members"
      BY <1>4, <3>1, FirstIs
    <3>2. CASE k # "members"
      BY <1>4, <2>1, <3>2 DEF Listed
    <3>3. QED
      BY <3>1, <3>2
  <2>3. QED
    BY <1>8, <2>2 DEF ReadyList
<1>11. o # Project => Listed(t[Project], g)
  <2> SUFFICES ASSUME o # Project PROVE Listed(t[Project], g)
    OBVIOUS
  <2>1. Listed(s[Project], f) /\ Project \in Nodes /\ Project # m
    BY <1>1, ModelsAre DEF Mirrors
  <2>2. \A k : /\ At(t[Project], "working", k) = At(s[Project], "working", k)
               /\ At(t[Project], "staged", k) = At(s[Project], "staged", k)
               /\ At(t[Project], "committed", k) = At(s[Project], "committed", k)
    BY <1>5, <2>1
  <2>3. QED
    BY <1>3, <2>1, <2>2 DEF Listed
<1>12. ASSUME NEW r \in DOMAIN f, r # o PROVE Mirrored(t[r], g, r)
  <2>1. Mirrored(s[r], f, r) /\ r \in Nodes /\ r # m
    BY <1>1 DEF Mirrors
  <2>2. \A k : /\ At(t[r], "working", k) = At(s[r], "working", k)
               /\ At(t[r], "staged", k) = At(s[r], "staged", k)
               /\ At(t[r], "committed", k) = At(s[r], "committed", k)
    BY <1>5, <1>12, <2>1
  <2>3. g[r] = f[r] /\ Owned(g, r) = Owned(f, r)
    BY <1>3, <1>12
  <2>4. QED
    BY <2>1, <2>2, <2>3 DEF Mirrored
<1>13. ASSUME NEW r \in Model, r \notin DOMAIN g PROVE Blank(t[r]) /\ r \notin written /\ r \in Nodes
  <2>1. r # m /\ r # o /\ r \in Nodes /\ r \notin DOMAIN f
    BY <1>1, <1>3, <1>13
  <2>2. Blank(s[r])
    BY <2>1 DEF Mirrors
  <2>3. QED
    BY <1>5, <2>1, <2>2 DEF Blank
<1>14. Unsaved!CanDump(t) /\ Unsaved!Dump(t) = g
  <2>1. \A r \in DOMAIN g :
          /\ Kept(t[r], "name") = <<g[r].name>> /\ Kept(t[r], "auto") = <<g[r].auto>>
          /\ r \in Schema => Unsaved!MembersOf(t, r, Unsaved!Stored) = Owned(g, r)
    <3> TAKE r \in DOMAIN g
    <3>1. CASE Ready(t[r], g, r)
      BY <1>1, <1>3, <3>1, ReadyIs DEF Ready
    <3>2. CASE Mirrored(t[r], g, r)
      <4>1. \A k : Kept(t[r], k) = At(t[r], "committed", k)
        BY <3>2, KeptIs DEF Mirrored
      <4>2. Owned(g, r) \in SUBSET Model /\ r \in Nodes
        BY <1>1, <1>3, OwnedIs
      <4>3. Unsaved!MembersOf(t, r, Unsaved!Stored) = Owned(g, r)
        <5>1. Holds(Kept(t[r], "members"), Owned(g, r))
          BY <3>2, <4>1 DEF Mirrored
        <5>2. QED
          BY <1>1, <4>2, <5>1, ListIs
      <4>4. QED
        BY <3>2, <4>1, <4>3 DEF Mirrored
    <3>3. QED
      BY <1>1, <1>3, <1>7, <1>9, <1>12, <3>1, <3>2
  <2>2. Unsaved!MembersOf(t, Project, Unsaved!Stored) = Owned(g, Project)
    <3>1. Kept(t[Project], "members") = <<Owned(g, Project)>>
      <4>1. CASE o = Project
        BY <1>10, <4>1 DEF ReadyList
      <4>2. CASE o # Project
        <5>1. Listed(t[Project], g)
          BY <1>11, <4>2
        <5>2. QED
          BY <5>1, KeptIs, FirstIs DEF Listed
      <4>3. QED
        BY <4>1, <4>2
    <3>2. Owned(g, Project) \in SUBSET Model /\ Project \in Nodes
      BY <1>3, OwnedIs, ModelsAre
    <3>3. QED
      BY <1>1, <3>1, <3>2, ListIs DEF Holds
  <2>3. StoredAs(t, g)
    BY <1>1, <2>1, <2>2 DEF StoredAs
  <2>4. QED
    BY <1>3, <2>3, DumpIs
<1>15. Unsaved!MustWrite(t, m)
  <2>1. "name" \in DOMAIN t[m]["staged"]
    BY <1>4, AtIs, FirstIs DEF Fresh
  <2>2. "name" \in Unsaved!InFile(m)
    BY <1>1 DEF Unsaved!InFile, Unsaved!Scalars
  <2>3. QED
    BY <2>1, <2>2 DEF Unsaved!MustWrite
<1> HIDE DEF u, written
<1>16. Committing(u, t, g, written)
  BY <1>1, <1>3, <1>6, CommitMirrors DEF u
<1>17. \A r : r \in written <=> r = m \/ r = o
  BY DEF written
<1>18. Mirrors(u, g)
  <2>1. \A r \in DOMAIN g : Mirrored(u[r], g, r)
    BY <1>1, <1>3, <1>7, <1>9, <1>12, <1>16, <1>17 DEF Committing
  <2>2. \A r \in Model : r \notin DOMAIN g => Blank(u[r])
    BY <1>13, <1>16 DEF Committing
  <2>3. Listed(u[Project], g)
    BY <1>1, <1>10, <1>11, <1>16, <1>17 DEF Committing
  <2>4. QED
    BY <1>3, <1>16, <2>1, <2>2, <2>3 DEF Mirrors, Committing
<1>19. Shows(u, g) = Added(Shows(s, f), m, o, yes)
  <2>1. \A k \in {"name", "auto"} : At(u[m], "working", k) = <<>>
    <3>1. \A k \in {"name", "auto"} : At(t[m], "staged", k) # <<>>
      BY <1>4, FirstIs DEF Fresh
    <3>2. QED
      BY <1>1, <1>16, <1>17, <3>1 DEF Committing, WorkingIs
  <2>2. ASSUME NEW r \in DOMAIN f, NEW k \in {"name", "auto"}
        PROVE  At(u[r], "working", k) = At(s[r], "working", k)
    <3>1. r \in Nodes /\ r # m /\ At(s[r], "staged", k) = <<>> /\ k # "members"
      BY <1>1 DEF Mirrors, Mirrored
    <3>2. At(t[r], "staged", k) = <<>> /\ At(t[r], "working", k) = At(s[r], "working", k)
      BY <1>4, <1>5, <3>1
    <3>3. QED
      BY <1>16, <3>1, <3>2 DEF Committing, WorkingIs
  <2>3. \A r \in DOMAIN f :
          [owner |-> g[r].owner, name |-> Given(u[r], "name", g[r].name),
           auto |-> Given(u[r], "auto", g[r].auto)] = Shows(s, f)[r]
    BY <1>3, <2>2 DEF Shows, Given
  <2>4. [owner |-> g[m].owner, name |-> Given(u[m], "name", g[m].name),
         auto |-> Given(u[m], "auto", g[m].auto)] = [owner |-> o, name |-> New, auto |-> yes]
    BY <1>3, <2>1 DEF Given
  <2>5. DOMAIN Shows(s, f) = DOMAIN f
    BY DEF Shows
  <2>6. Shows(u, g) = [r \in DOMAIN f \cup {m} |->
           IF r = m THEN [owner |-> o, name |-> New, auto |-> yes] ELSE Shows(s, f)[r]]
    BY <1>3, <2>3, <2>4 DEF Shows
  <2>7. QED
    BY <2>5, <2>6 DEF Added, Unsaved!AsStored!With
<1>20. QED
  BY <1>14, <1>15, <1>18, <1>19 DEF CreatedAs, g, u

LEMMA CreateActs ==
  ASSUME OrmInv, ~failed, NEW m \in Model, NEW o, Unsaved!Create(m, o)
  PROVE  OrmInv' /\ Unsaved!AsStored!Next
<1>1. PICK yes : yes = TRUE
  OBVIOUS
<1> DEFINE f == itemsFile
           c == Unsaved!Constructed(m, o)
           t == Unsaved!Stage(c, m, {"name", "auto", "owner"})
           g == Added(f, m, o, yes)
<1>2. Mirrors(snap, f) /\ IsFile(f)
  BY DEF OrmInv
<1>3. \A view \in Unsaved!Snapshots : snap[m][view] = <<>>
  BY DEF Unsaved!Create
<1>4. \A k : At(snap[m], "committed", k) = <<>>
  <2>1. snap[m]["committed"] = <<>> /\ \A k : k \notin DOMAIN <<>>
    BY <1>3 DEF Unsaved!Snapshots
  <2>2. QED
    BY <2>1 DEF At
<1>5. m \notin DOMAIN f
  <2>1. m \in DOMAIN f => Mirrored(snap[m], f, m)
    BY <1>2 DEF Mirrors
  <2>2. QED
    BY <1>4, <2>1, FirstIs DEF Mirrored
<1>6. MayOwn(f, m, o)
  <2>1. o \in (IF m \in Schema THEN {Project} ELSE Unsaved!SchemasSeen)
    BY DEF Unsaved!Create
  <2>2. Unsaved!SchemasSeen = Schema \cap DOMAIN f
    BY <1>2, ViewIs
  <2>3. QED
    BY <2>1, <2>2, ModelsAre DEF MayOwn
<1>7. IsConstructed(c, snap, f, m, o, yes)
  BY <1>1, <1>2, <1>3, <1>5, <1>6, ConstructedIs
<1>8. Unsaved!SaveFrom(c, m, {"name", "auto", "owner"})
  <2>1. Unsaved!Scalars \cup {"owner"} = {"name", "auto", "owner"}
    BY DEF Unsaved!Scalars
  <2>2. QED
    BY <2>1 DEF Unsaved!Create
<1> HIDE DEF c
<1>9. NewStaged(t, c, snap, f, m, o, yes)
  BY <1>2, <1>4, <1>5, <1>6, <1>7, CreateStages
<1>10. IF Unsaved!MustWrite(t, m) /\ ~Unsaved!CanDump(t) THEN Unsaved!Fail
       ELSE /\ itemsFile' = IF Unsaved!MustWrite(t, m) THEN Unsaved!Dump(t) ELSE itemsFile
            /\ snap' = Unsaved!Commit(t, m) /\ UNCHANGED failed
  BY <1>8 DEF Unsaved!SaveFrom
<1> HIDE DEF t
<1>11. CreatedAs(snap, f, m, o, yes, t, g)
  BY <1>2, <1>4, <1>5, <1>6, <1>7, <1>9, CreatingIs
<1>12. /\ itemsFile' = g /\ ~failed' /\ Mirrors(snap', itemsFile')
       /\ Shows(snap', itemsFile') = Added(Shows(snap, f), m, o, yes)
  BY <1>10, <1>11 DEF CreatedAs
<1>13. OrmInv' /\ Shown = Shows(snap, f) /\ Shown' = Shows(snap', itemsFile')
  BY <1>12, ActedIs DEF Mirrors, IsFile, Owned
<1>14. /\ itemsFile' = Added(itemsFile, m, o, yes)
       /\ Shown' = Added(Shown, m, o, yes)
       /\ DOMAIN Shown = DOMAIN f
  BY <1>12, <1>13 DEF Shows
<1>15. Unsaved!AsStored!Create(m)
  <2> DEFINE x == [owner |-> o, name |-> New, auto |-> yes]
  <2>1. x \in Unsaved!AsStored!Data
    BY <1>1, <1>6 DEF Unsaved!AsStored!Data, MayOwn
  <2>2. x.owner \in Unsaved!AsStored!OwnersIn(Shown)
    BY <1>6, <1>14 DEF Unsaved!AsStored!OwnersIn, MayOwn
  <2>3. /\ itemsFile' = Unsaved!AsStored!With(itemsFile, m, x)
        /\ Shown' = Unsaved!AsStored!With(Shown, m, x)
    BY <1>14 DEF Added
  <2> HIDE DEF x
  <2>4. QED
    BY <2>1, <2>2, <2>3 DEF Unsaved!AsStored!Create, Shown
<1>16. m \in Unsaved!AsStored!Model \ DOMAIN Shown
  BY <1>5, <1>14 DEF Unsaved!AsStored!Model, Model, Unsaved!Model
<1>17. QED
  BY <1>13, <1>15, <1>16 DEF Unsaved!AsStored!Next, Shown

-----------------------------------------------------------------------------
(* Deletion.                                                               *)

Gone(f, m) == {m} \cup Owned(f, m)
Left(f, m) == [r \in DOMAIN f \ Gone(f, m) |-> f[r]]

IsLeft(g, f, m) ==
  /\ IsFile(g) /\ DOMAIN g = DOMAIN f \ Gone(f, m)
  /\ \A r \in DOMAIN g : g[r] = f[r]
  /\ \A p \in DOMAIN g \cup {Project} : Owned(g, p) = Owned(f, p) \ {m}

LEMMA LeftIs ==
  ASSUME NEW f, IsFile(f), NEW m \in DOMAIN f
  PROVE  IsLeft(Left(f, m), f, m)
<1> DEFINE g == Left(f, m)
<1>1. DOMAIN g = DOMAIN f \ Gone(f, m) /\ \A r \in DOMAIN g : g[r] = f[r]
  BY DEF Left
<1>2. g = [r \in DOMAIN g |-> [owner |-> g[r].owner, name |-> g[r].name, auto |-> g[r].auto]]
  <2>1. \A r \in DOMAIN f : f[r] = [owner |-> f[r].owner, name |-> f[r].name, auto |-> f[r].auto]
    BY DEF IsFile
  <2>2. \A r \in DOMAIN g : g[r] = [owner |-> g[r].owner, name |-> g[r].name, auto |-> g[r].auto]
    BY <1>1, <2>1
  <2>3. g = [r \in DOMAIN g |-> g[r]]
    BY DEF Left
  <2> HIDE DEF g
  <2>4. QED
    BY <2>2, <2>3
<1> HIDE DEF g
<1>3. ASSUME NEW r \in DOMAIN g
      PROVE  \/ r \in Schema /\ g[r].owner = Project
             \/ r \in Field /\ g[r].owner \in Schema \cap DOMAIN g
  <2>1. r \in DOMAIN f /\ g[r] = f[r] /\ r \notin Owned(f, m)
    BY <1>1 DEF Gone
  <2>2. CASE r \in Schema /\ f[r].owner = Project
    BY <2>1, <2>2
  <2>3. CASE r \in Field /\ f[r].owner \in Schema \cap DOMAIN f
    <3>1. f[r].owner # m
      BY <2>1 DEF Owned
    <3>2. f[r].owner \notin Owned(f, m)
      BY <2>3, ModelsAre DEF Owned, IsFile
    <3>3. QED
      BY <1>1, <2>1, <2>3, <3>1, <3>2 DEF Gone
  <2>4. QED
    BY <2>1, <2>2, <2>3 DEF IsFile
<1>4. IsFile(g)
  BY <1>1, <1>2, <1>3 DEF IsFile
<1>5. ASSUME NEW p \in DOMAIN g \cup {Project}
      PROVE  Owned(g, p) = Owned(f, p) \ {m}
  <2>1. p # m
    BY <1>1, <1>5, ModelsAre DEF Gone, IsFile
  <2>2. \A r \in Owned(f, p) : r \notin Owned(f, m)
    BY <2>1 DEF Owned
  <2>3. QED
    BY <1>1, <2>2 DEF Owned, Gone
<1>6. QED
  BY <1>1, <1>4, <1>5 DEF IsLeft, g

IsDetached(d, s, f, m) ==
  /\ IsSnaps(d)
  /\ \A r \in Nodes : \A k :
       /\ At(d[r], "working", k) = At(s[r], "working", k)
       /\ At(d[r], "committed", k) = At(s[r], "committed", k)
       /\ /\ r \notin Gone(f, m)
          /\ r # f[m].owner \/ k # "members"
          => At(d[r], "staged", k) = At(s[r], "staged", k)
  /\ At(d[f[m].owner], "staged", "members") = <<Owned(f, f[m].owner) \ {m}>>

LEMMA DetachIs ==
  ASSUME NEW s, NEW f, Mirrors(s, f), NEW m \in DOMAIN f
  PROVE  IsDetached(Unsaved!Detach(s, m), s, f, m)
<1> DEFINE o == f[m].owner
           alone == [r \in DOMAIN s |->
                       IF r \in {m} \cup Owned(f, m)
                       THEN Unsaved!Set(s[r], "staged", "owner", None) ELSE s[r]]
           empty == IF Owned(f, m) = {} THEN alone
                    ELSE [alone EXCEPT ![m] = Unsaved!Set(@, "staged", "members", {})]
           kept == Unsaved!MembersOf(empty, o, Unsaved!Stored)
           d == Unsaved!Detach(s, m)
<1>1. IsSnaps(s) /\ IsFile(f) /\ m \in Nodes /\ o \in Nodes /\ o # m /\ o # None
  <2>1. m \in Nodes /\ o \in Nodes /\ o # m /\ o # None
    BY MirroredIs
  <2>2. QED
    BY <2>1 DEF Mirrors
<1>2. /\ Unsaved!MembersOf(s, m, Unsaved!All) = Owned(f, m)
      /\ Unsaved!OwnerOf(s, m, Unsaved!All) = o
  BY MirroredIs
<1>3. d = IF m \notin kept THEN empty
          ELSE [empty EXCEPT ![o] = Unsaved!Set(@, "staged", "members", kept \ {m})]
  BY <1>2 DEF Unsaved!Detach, Unsaved!Discard
<1>4. "staged" \in Views /\ "working" \in Views /\ "committed" \in Views
  BY DEF Views
<1>5. o \notin Gone(f, m) /\ m \in Gone(f, m) /\ \A r : r \in Gone(f, m) <=> r \in {m} \cup Owned(f, m)
  <2>1. o \notin Owned(f, m)
    BY <1>1, ModelsAre DEF IsFile, Owned
  <2>2. QED
    BY <1>1, <2>1 DEF Gone
<1> HIDE DEF o, d, kept
<1>6. /\ IsSnaps(alone)
      /\ \A r \in Nodes : r \notin Gone(f, m) => alone[r] = s[r]
      /\ \A r \in Nodes : \A k : /\ At(alone[r], "working", k) = At(s[r], "working", k)
                                 /\ At(alone[r], "committed", k) = At(s[r], "committed", k)
  <2>1. \A r \in Nodes : LET e == Unsaved!Set(s[r], "staged", "owner", None)
          IN /\ IsData(e)
             /\ \A k : /\ At(e, "working", k) = At(s[r], "working", k)
                       /\ At(e, "committed", k) = At(s[r], "committed", k)
    BY <1>1, <1>4, SetIs DEF IsSnaps
  <2>2. DOMAIN alone = Nodes /\ \A r \in Nodes : alone[r] =
          IF r \in Gone(f, m) THEN Unsaved!Set(s[r], "staged", "owner", None) ELSE s[r]
    BY <1>1, <1>5 DEF IsSnaps
  <2> HIDE DEF alone
  <2>3. QED
    BY <1>1, <2>1, <2>2 DEF IsSnaps
<1> HIDE DEF alone
<1>7. /\ IsSnaps(empty)
      /\ \A r \in Nodes : r \notin Gone(f, m) => empty[r] = s[r]
      /\ \A r \in Nodes : \A k : /\ At(empty[r], "working", k) = At(s[r], "working", k)
                                 /\ At(empty[r], "committed", k) = At(s[r], "committed", k)
  <2> DEFINE e == Unsaved!Set(alone[m], "staged", "members", {})
  <2>1. IsData(e) /\ \A k : /\ At(e, "working", k) = At(alone[m], "working", k)
                            /\ At(e, "committed", k) = At(alone[m], "committed", k)
    BY <1>1, <1>4, <1>6, SetIs DEF IsSnaps
  <2>2. empty = IF Owned(f, m) = {} THEN alone ELSE [alone EXCEPT ![m] = e]
    OBVIOUS
  <2> HIDE DEF e, empty
  <2>3. CASE Owned(f, m) = {}
    BY <1>6, <2>2, <2>3
  <2>4. CASE Owned(f, m) # {}
    <3>1. DOMAIN empty = Nodes /\ empty[m] = e /\ \A r \in Nodes : r # m => empty[r] = alone[r]
      BY <1>1, <1>6, <2>2, <2>4 DEF IsSnaps
    <3>2. QED
      BY <1>1, <1>5, <1>6, <2>1, <3>1 DEF IsSnaps
  <2>5. QED
    BY <2>3, <2>4
<1> HIDE DEF empty
<1>8. kept = Owned(f, o)
  <2>1. empty[o] = s[o] /\ Owned(f, o) \in SUBSET Model
    BY <1>1, <1>5, <1>7, OwnedIs
  <2>2. Holds(Kept(s[o], "members"), Owned(f, o))
    <3>1. CASE o = Project
      BY <3>1, ListedIs DEF Holds
    <3>2. CASE o # Project
      <4>1. o \in DOMAIN f
        BY <1>1, <3>2 DEF IsFile, o
      <4>2. QED
        BY <4>1, MirroredIs
    <3>3. QED
      BY <3>1, <3>2
  <2>3. QED
    BY <1>1, <1>7, <2>1, <2>2, ListIs DEF kept
<1>9. m \in kept
  BY <1>8 DEF Owned, o
<1>10. /\ IsSnaps(d) /\ At(d[o], "staged", "members") = <<kept \ {m}>>
       /\ \A k : /\ At(d[o], "working", k) = At(s[o], "working", k)
                 /\ At(d[o], "committed", k) = At(s[o], "committed", k)
                 /\ k # "members" => At(d[o], "staged", k) = At(s[o], "staged", k)
       /\ \A r \in Nodes : r # o => d[r] = empty[r]
  <2>7. PICK rest : rest = kept \ {m}
    OBVIOUS
  <2> DEFINE e == Unsaved!Set(empty[o], "staged", "members", rest)
  <2>1. empty[o] = s[o] /\ IsData(empty[o])
    BY <1>1, <1>5, <1>7 DEF IsSnaps
  <2>2. IsData(e) /\ \A v \in Views : \A k : At(e, v, k) =
          IF v = "staged" /\ k = "members" THEN <<rest>> ELSE At(empty[o], v, k)
    BY <1>4, <2>1, SetIs
  <2>3. d = [empty EXCEPT ![o] = e]
    BY <1>3, <1>9, <2>7
  <2> HIDE DEF e
  <2>4. DOMAIN d = Nodes /\ d[o] = e /\ \A r \in Nodes : r # o => d[r] = empty[r]
    BY <1>1, <1>7, <2>3 DEF IsSnaps
  <2>5. IsSnaps(d)
    BY <1>7, <2>2, <2>4 DEF IsSnaps
  <2>6. QED
    BY <1>4, <2>1, <2>2, <2>4, <2>5, <2>7
<1>11. ASSUME NEW r \in Nodes, NEW k
       PROVE  /\ At(d[r], "working", k) = At(s[r], "working", k)
              /\ At(d[r], "committed", k) = At(s[r], "committed", k)
              /\ r \notin Gone(f, m) /\ (r # o \/ k # "members")
                   => At(d[r], "staged", k) = At(s[r], "staged", k)
  <2>1. CASE r = o
    BY <1>10, <2>1
  <2>2. CASE r # o
    BY <1>7, <1>10, <2>2
  <2>3. QED
    BY <2>1, <2>2
<1>12. QED
  BY <1>8, <1>10, <1>11 DEF IsDetached, o, d

\* What is left is ready to be written, and the owner to be committed.
Loose(t, s, f, m, g) ==
  /\ IsSnaps(t)
  /\ \A r \in DOMAIN g : Ready(t[r], g, r)
  /\ \A r \in DOMAIN g : r # f[m].owner => Mirrored(t[r], g, r)
  /\ \A r \in Model : r \notin DOMAIN f => Blank(t[r])
  /\ ReadyList(t[Project], g)
  /\ Kept(t[Project], "members") = <<Owned(g, Project)>>
  /\ Listed(t[Project], g)
  /\ \A r \in DOMAIN g : \A k \in {"name", "auto"} :
       At(t[r], "working", k) = At(s[r], "working", k) /\ At(t[r], "staged", k) = <<>>

LEMMA DetachedIs ==
  ASSUME NEW s, NEW f, Mirrors(s, f), NEW m \in DOMAIN f, NEW t, IsDetached(t, s, f, m)
  PROVE  Loose(t, s, f, m, Left(f, m))
<1> DEFINE o == f[m].owner
           g == Left(f, m)
<1>1. IsFile(f) /\ IsSnaps(t) /\ o \in Nodes /\ m \in Model /\ IsSnaps(s)
  <2>1. o \in Nodes /\ m \in Model
    BY MirroredIs
  <2>2. QED
    BY <2>1 DEF Mirrors, IsDetached
<1>2. IsLeft(g, f, m)
  BY <1>1, LeftIs
<1> HIDE DEF o, g
<1>3. /\ IsFile(g) /\ DOMAIN g = DOMAIN f \ Gone(f, m)
      /\ \A r \in DOMAIN g : g[r] = f[r]
      /\ \A p \in DOMAIN g \cup {Project} : Owned(g, p) = Owned(f, p) \ {m}
      /\ \A p : p # o => Owned(f, p) \ {m} = Owned(f, p)
  BY <1>2 DEF IsLeft, Owned, o
<1>4. /\ DOMAIN g \subseteq Nodes /\ DOMAIN g \subseteq DOMAIN f /\ Project \in Nodes /\ Model \subseteq Nodes
      /\ Gone(f, m) \subseteq DOMAIN f /\ Project \notin Gone(f, m)
      /\ Project \notin Model
      /\ \A r \in DOMAIN g : r \notin Gone(f, m)
  BY <1>1, <1>3, ModelsAre DEF IsFile, Gone, Owned
<1>5. ASSUME NEW r \in Nodes, NEW k
      PROVE  /\ At(t[r], "working", k) = At(s[r], "working", k)
             /\ At(t[r], "committed", k) = At(s[r], "committed", k)
             /\ r \notin Gone(f, m) /\ (r # o \/ k # "members")
                  => At(t[r], "staged", k) = At(s[r], "staged", k)
  BY DEF IsDetached, o
<1>6. At(t[o], "staged", "members") = <<Owned(f, o) \ {m}>>
  BY DEF IsDetached, o
<1>7. \A r \in DOMAIN f : Mirrored(s[r], f, r) /\ Ready(s[r], f, r)
  BY MirroredReady DEF Mirrors
<1>8. ASSUME NEW r \in DOMAIN g, r # o PROVE Mirrored(t[r], g, r)
  <2>1. \A k : /\ At(t[r], "working", k) = At(s[r], "working", k)
               /\ At(t[r], "staged", k) = At(s[r], "staged", k)
               /\ At(t[r], "committed", k) = At(s[r], "committed", k)
    BY <1>4, <1>5, <1>8
  <2>2. g[r] = f[r] /\ Owned(g, r) = Owned(f, r) /\ Mirrored(s[r], f, r)
    BY <1>3, <1>4, <1>7, <1>8
  <2>3. QED
    BY <2>1, <2>2 DEF Mirrored
<1>9. ASSUME NEW r \in DOMAIN g, r # o PROVE Ready(t[r], g, r)
  <2>1. Mirrored(t[r], g, r)
    BY <1>8, <1>9
  <2>2. \A k : Kept(t[r], k) = At(t[r], "committed", k)
    BY <2>1, KeptIs DEF Mirrored
  <2>3. QED
    BY <2>1, <2>2 DEF Mirrored, Ready
<1>10. o \in DOMAIN g => Ready(t[o], g, o)
  <2> SUFFICES ASSUME o \in DOMAIN g PROVE Ready(t[o], g, o)
    OBVIOUS
  <2>1. g[o] = f[o] /\ Owned(g, o) = Owned(f, o) \ {m} /\ Mirrored(s[o], f, o) /\ Ready(s[o], f, o)
        /\ o \notin Gone(f, m)
    BY <1>3, <1>4, <1>7
  <2>2. \A k : k # "members" => Kept(t[o], k) = Kept(s[o], k)
    BY <1>1, <1>5, <2>1 DEF Kept
  <2>3. Kept(t[o], "members") = <<Owned(g, o)>>
    BY <1>6, <2>1, KeptIs, FirstIs
  <2>4. \A k : k \notin {"name", "auto"} => At(t[o], "working", k) = <<>>
    BY <1>1, <1>5, <2>1 DEF Mirrored
  <2>5. /\ Kept(t[o], "name") = <<g[o].name>> /\ Kept(t[o], "auto") = <<g[o].auto>>
        /\ Kept(t[o], "owner") = <<g[o].owner>>
    BY <2>1, <2>2 DEF Ready
  <2>6. QED
    BY <2>3, <2>4, <2>5 DEF Ready, Holds
<1>11. \A r \in Model : r \notin DOMAIN f => Blank(t[r])
  <2> SUFFICES ASSUME NEW r \in Model, r \notin DOMAIN f PROVE Blank(t[r])
    OBVIOUS
  <2>1. r # o /\ r \notin Gone(f, m) /\ Blank(s[r]) /\ r \in Nodes
    <3>1. o = Project \/ o \in DOMAIN f
      BY <1>1 DEF IsFile, o
    <3>2. QED
      BY <1>4, <3>1 DEF Mirrors
  <2>2. QED
    BY <1>5, <2>1 DEF Blank
<1>12. Listed(s[Project], f)
  BY DEF Mirrors
<1>13. Listed(t[Project], g)
  <2>1. PICK C \in SUBSET Schema :
          /\ At(s[Project], "committed", "members") = <<C>> /\ Owned(f, Project) \subseteq C
          /\ \/ At(s[Project], "staged", "members") = <<Owned(f, Project)>>
             \/ At(s[Project], "staged", "members") = <<>> /\ C = Owned(f, Project)
    BY <1>12 DEF Listed
  <2>2. Owned(g, Project) = Owned(f, Project) \ {m}
    BY <1>3
  <2>3. \A k : /\ At(t[Project], "working", k) = <<>>
               /\ k # "members" => At(t[Project], "staged", k) = <<>>
    BY <1>4, <1>5, <1>12 DEF Listed
  <2>4. At(t[Project], "committed", "members") = <<C>> /\ Owned(g, Project) \subseteq C
    BY <1>4, <1>5, <2>1, <2>2
  <2>5. CASE o = Project
    <3>1. At(t[Project], "staged", "members") = <<Owned(g, Project)>>
      BY <1>6, <2>2, <2>5
    <3>2. QED
      BY <2>3, <2>4, <3>1 DEF Listed
  <2>6. CASE o # Project
    <3>1. At(t[Project], "staged", "members") = At(s[Project], "staged", "members")
          /\ Owned(g, Project) = Owned(f, Project)
      BY <1>3, <1>4, <1>5, <2>2, <2>6
    <3>2. QED
      BY <2>1, <2>3, <2>4, <3>1 DEF Listed
  <2>7. QED
    BY <2>5, <2>6
<1>14. Kept(t[Project], "members") = <<Owned(g, Project)>>
  BY <1>13, KeptIs, FirstIs DEF Listed
<1>15. ReadyList(t[Project], g)
  BY <1>13, <1>14 DEF ReadyList, Listed
<1>16. \A r \in DOMAIN g : \A k \in {"name", "auto"} :
         At(t[r], "working", k) = At(s[r], "working", k) /\ At(t[r], "staged", k) = <<>>
  <2> TAKE r \in DOMAIN g, k \in {"name", "auto"}
  <2>1. k # "members" /\ Mirrored(s[r], f, r) /\ r \notin Gone(f, m) /\ r \in Nodes
    BY <1>4, <1>7
  <2>2. QED
    BY <1>5, <2>1 DEF Mirrored
<1>17. \A r \in DOMAIN g : Ready(t[r], g, r)
  BY <1>9, <1>10
<1>18. QED
  BY <1>1, <1>8, <1>11, <1>13, <1>14, <1>15, <1>16, <1>17 DEF Loose, g, o

LEMMA LooseDumps ==
  ASSUME NEW s, NEW f, Mirrors(s, f), NEW m \in DOMAIN f, NEW t, Loose(t, s, f, m, Left(f, m))
  PROVE  Unsaved!CanDump(t) /\ Unsaved!Dump(t) = Left(f, m)
<1>1. IsFile(Left(f, m))
  BY LeftIs DEF Mirrors, IsLeft
<1>2. StoredAs(t, Left(f, m))
  BY <1>1, ReadyStored DEF Loose
<1>3. QED
  BY <1>1, <1>2, DumpIs

\* The owner has nothing more to be staged.
LEMMA DetachStages ==
  ASSUME NEW s, NEW f, Mirrors(s, f), NEW m \in DOMAIN f, NEW d, IsDetached(d, s, f, m),
         f[m].owner # Project
  PROVE  LET t == Unsaved!Stage(d, f[m].owner, {"members"})
         IN  /\ IsDetached(t, s, f, m)
             /\ DOMAIN Unsaved!Related(t, f[m].owner) =
                  Owned(Left(f, m), f[m].owner) \cup {Project}
<1> DEFINE o == f[m].owner
           t == Unsaved!Stage(d, o, {"members"})
           mine == Mine(d, o, {})
           related == Unsaved!Related(mine, o)
<1>1. /\ IsSnaps(d) /\ IsFile(f) /\ o \in DOMAIN f /\ o \in Nodes /\ DOMAIN f \subseteq Nodes
      /\ Project \in Nodes
  BY ModelsAre DEF IsDetached, Mirrors, IsFile
<1>2. "staged" \in Views /\ "working" \in Views /\ "committed" \in Views
  BY DEF Views
<1>3. Loose(d, s, f, m, Left(f, m))
  BY DetachedIs
<1>4. /\ IsFile(Left(f, m)) /\ o \in DOMAIN Left(f, m) /\ Left(f, m)[o].owner = Project
      /\ Owned(Left(f, m), o) \subseteq DOMAIN f
  <2>1. IsLeft(Left(f, m), f, m) /\ o \in Schema /\ f[o].owner = Project
    BY <1>1, LeftIs, ModelsAre DEF IsFile
  <2>2. o \notin Gone(f, m)
    <3>1. o # m
      BY MirroredIs
    <3>2. o \notin Owned(f, m)
      BY <1>1, <2>1, ModelsAre DEF Owned, IsFile
    <3>3. QED
      BY <3>1, <3>2 DEF Gone
  <2>3. QED
    BY <1>1, <2>1, <2>2 DEF IsLeft, Owned
<1> HIDE DEF o
<1>5. \A r \in Nodes : \A k : /\ At(d[r], "working", k) = At(s[r], "working", k)
                              /\ At(d[r], "committed", k) = At(s[r], "committed", k)
  BY DEF IsDetached
<1>6. \A r \in DOMAIN f : \A k \in {"members", "owner"} : At(d[r], "working", k) = <<>>
  <2> TAKE r \in DOMAIN f, k \in {"members", "owner"}
  <2>1. Mirrored(s[r], f, r) /\ k \notin {"name", "auto"} /\ r \in Nodes
    BY <1>1 DEF Mirrors
  <2>2. QED
    BY <1>5, <2>1 DEF Mirrored
<1>7. \A k : At(d[Project], "working", k) = <<>>
  <2>1. Listed(s[Project], f)
    BY DEF Mirrors
  <2>2. QED
    BY <1>1, <1>5, <2>1 DEF Listed
<1>8. Unsaved!Dirty(d[o]) \cap {"members"} = {}
  BY <1>1, <1>6, DirtyIs
<1>9. t = Unsaved!StageFields(d, o, {})
  BY <1>8 DEF Unsaved!Stage
<1>10. IsMine(mine, d, o, {})
  BY <1>1, MineIs
<1>11. IsStaged(t, mine, related, {})
  BY <1>1, <1>9, StageFieldsIs
<1> HIDE DEF mine, t
<1>12. IsSnaps(mine) /\ \A r \in Nodes, v \in Views : \A k : At(mine[r], v, k) = At(d[r], v, k)
  BY <1>10 DEF IsMine
<1>13. ASSUME NEW e, IsSnaps(e),
              \A r \in Nodes, v \in Views : \A k : At(e[r], v, k) = At(d[r], v, k)
       PROVE  /\ DOMAIN Unsaved!Related(e, o) = Owned(Left(f, m), o) \cup {Project}
              /\ \A r \in DOMAIN Unsaved!Related(e, o) :
                   Unsaved!Related(e, o)[r] \in {"members", "owner"}
  <2>1. Ready(d[o], Left(f, m), o)
    BY <1>3, <1>4 DEF Loose
  <2>2. \A v \in Views : \A k : At(e[o], v, k) = At(d[o], v, k)
    BY <1>1, <1>13
  <2>3. \A k : Kept(e[o], k) = Kept(d[o], k)
    BY <1>2, <2>2 DEF Kept
  <2>4. Ready(e[o], Left(f, m), o)
    BY <1>2, <2>1, <2>2, <2>3 DEF Ready
  <2>5. /\ DOMAIN Unsaved!Related(e, o) = Owned(Left(f, m), o) \cup {Left(f, m)[o].owner}
        /\ \A r \in DOMAIN Unsaved!Related(e, o) :
             Unsaved!Related(e, o)[r] = IF r = Left(f, m)[o].owner THEN "members" ELSE "owner"
    <3>1. PICK g : g = Left(f, m)
      OBVIOUS
    <3>2. IsFile(g) /\ o \in DOMAIN g /\ Ready(e[o], g, o) /\ IsSnaps(e)
      BY <1>4, <1>13, <2>4, <3>1
    <3>3. DOMAIN Unsaved!Related(e, o) = Owned(g, o) \cup {g[o].owner}
      BY <3>2, ReadyIs
    <3>4. \A r \in DOMAIN Unsaved!Related(e, o) :
            Unsaved!Related(e, o)[r] = IF r = g[o].owner THEN "members" ELSE "owner"
      BY <3>2, ReadyIs
    <3>5. QED
      BY <3>1, <3>3, <3>4
  <2>6. QED
    BY <1>4, <2>5
<1>14. /\ DOMAIN related \subseteq DOMAIN f \cup {Project}
       /\ \A r \in DOMAIN related : related[r] \in {"members", "owner"}
  BY <1>4, <1>12, <1>13
<1> HIDE DEF related
<1>15. \A r \in DOMAIN related : related[r] \notin Unsaved!Dirty(mine[r])
  <2> TAKE r \in DOMAIN related
  <2>1. r \in Nodes /\ At(d[r], "working", related[r]) = <<>>
    BY <1>1, <1>6, <1>7, <1>14
  <2>2. At(mine[r], "working", related[r]) = <<>>
    BY <1>2, <1>12, <2>1
  <2>3. QED
    BY <2>2, DirtyIs
<1>16. IsSnaps(t) /\ \A r \in Nodes, v \in Views : \A k : At(t[r], v, k) = At(d[r], v, k)
  <2>1. IsSnaps(t)
    BY <1>11 DEF IsStaged
  <2>2. ASSUME NEW r \in Nodes, NEW v \in Views, NEW k
        PROVE  At(t[r], v, k) = At(d[r], v, k)
    <3>1. ~(/\ r \in DOMAIN related /\ v = "staged" /\ k = related[r]
            /\ {} # {} \/ k \in Unsaved!Dirty(mine[r]))
      BY <1>15
    <3>2. At(t[r], v, k) = At(mine[r], v, k)
      BY <1>11, <3>1 DEF IsStaged
    <3>3. QED
      BY <1>12, <3>2
  <2>3. QED
    BY <2>1, <2>2
<1>17. IsDetached(t, s, f, m)
  <2>1. IsDetached(d, s, f, m)
    OBVIOUS
  <2>2. \A r \in Nodes : \A k : /\ At(t[r], "working", k) = At(d[r], "working", k)
                                /\ At(t[r], "staged", k) = At(d[r], "staged", k)
                                /\ At(t[r], "committed", k) = At(d[r], "committed", k)
    BY <1>2, <1>16
  <2>3. f[m].owner \in Nodes
    BY <1>1 DEF o
  <2>4. QED
    BY <1>16, <2>1, <2>2, <2>3 DEF IsDetached
<1>18. DOMAIN Unsaved!Related(t, o) = Owned(Left(f, m), o) \cup {Project}
  BY <1>13, <1>16
<1>19. QED
  BY <1>17, <1>18 DEF t, o

\* What is deleted is working data only.
Bury(s, f, m) == [r \in DOMAIN s |-> IF r \in Gone(f, m) THEN Unsaved!Buried(s[r]) ELSE s[r]]

LEMMA BuriedIs ==
  ASSUME NEW d
  PROVE  IsData(Unsaved!Buried(d)) /\ Blank(Unsaved!Buried(d))
<1>1. DOMAIN Unsaved!Nothing = Views /\ \A v \in Views : Unsaved!Nothing[v] = <<>>
  BY DEF Unsaved!Nothing, Unsaved!Snapshots, Views
<1>2. PICK x : Unsaved!Buried(d) = [Unsaved!Nothing EXCEPT !["working"] = x]
  BY DEF Unsaved!Buried
<1>3. /\ DOMAIN Unsaved!Buried(d) = Views /\ Unsaved!Buried(d)["staged"] = <<>>
      /\ Unsaved!Buried(d)["committed"] = <<>>
  BY <1>1, <1>2 DEF Views
<1>4. \A k : k \notin DOMAIN <<>>
  OBVIOUS
<1>5. QED
  BY <1>3, <1>4 DEF IsData, Blank, At

LEMMA BuryIs ==
  ASSUME NEW s, NEW f, Mirrors(s, f), NEW m \in DOMAIN f, NEW u, IsSnaps(u), NEW g, g = Left(f, m),
         \A r \in DOMAIN g : Mirrored(u[r], g, r),
         \A r \in Model : r \notin DOMAIN f => Blank(u[r]),
         Listed(u[Project], g),
         \A r \in DOMAIN g : \A k \in {"name", "auto"} :
           At(u[r], "working", k) = At(s[r], "working", k)
  PROVE  /\ Mirrors(Bury(u, f, m), g)
         /\ Shows(Bury(u, f, m), g) = Left(Shows(s, f), m)
<1> DEFINE b == Bury(u, f, m)
<1>1. /\ IsFile(g) /\ DOMAIN g = DOMAIN f \ Gone(f, m) /\ \A r \in DOMAIN g : g[r] = f[r]
  BY LeftIs DEF Mirrors, IsLeft
<1>2. /\ Project \notin Gone(f, m) /\ Project \in Nodes /\ Model \subseteq Nodes
      /\ DOMAIN f \subseteq Model
  BY ModelsAre DEF Mirrors, IsFile, Gone, Owned
<1>3. /\ DOMAIN b = Nodes
      /\ \A r \in Nodes : b[r] = IF r \in Gone(f, m) THEN Unsaved!Buried(u[r]) ELSE u[r]
  BY DEF Bury, IsSnaps
<1> HIDE DEF b
<1>4. IsSnaps(b)
  BY <1>3, BuriedIs DEF IsSnaps
<1>5. \A r \in DOMAIN g : b[r] = u[r] /\ Mirrored(b[r], g, r)
  BY <1>1, <1>2, <1>3
<1>6. \A r \in Model : r \notin DOMAIN g => Blank(b[r])
  BY <1>1, <1>2, <1>3, BuriedIs
<1>7. Listed(b[Project], g)
  BY <1>2, <1>3
<1>8. Mirrors(b, g)
  BY <1>1, <1>4, <1>5, <1>6, <1>7 DEF Mirrors
<1>9. Shows(b, g) = Left(Shows(s, f), m)
  <2>1. DOMAIN Shows(s, f) = DOMAIN f /\ Owned(Shows(s, f), m) = Owned(f, m)
    BY DEF Shows, Owned
  <2>2. Gone(Shows(s, f), m) = Gone(f, m)
    BY <2>1 DEF Gone
  <2>3. \A r \in DOMAIN g :
          [owner |-> g[r].owner, name |-> Given(b[r], "name", g[r].name),
           auto |-> Given(b[r], "auto", g[r].auto)] = Shows(s, f)[r]
    <3> TAKE r \in DOMAIN g
    <3>1. /\ Given(b[r], "name", g[r].name) = Given(s[r], "name", f[r].name)
          /\ Given(b[r], "auto", g[r].auto) = Given(s[r], "auto", f[r].auto)
      BY <1>1, <1>5 DEF Given
    <3>2. QED
      BY <1>1, <3>1 DEF Shows
  <2>4. Shows(b, g) = [r \in DOMAIN f \ Gone(f, m) |-> Shows(s, f)[r]]
    BY <1>1, <2>3 DEF Shows
  <2>5. QED
    BY <2>1, <2>2, <2>4 DEF Left
<1>10. QED
  BY <1>8, <1>9 DEF b

LEMMA DeletingIs ==
  ASSUME NEW s, NEW f, Mirrors(s, f), NEW m \in DOMAIN f, NEW d, d = Unsaved!Detach(s, m),
         NEW t, t = IF f[m].owner = Project THEN d
                    ELSE Unsaved!Stage(d, f[m].owner, {"members"}),
         NEW u, u = IF f[m].owner = Project THEN t ELSE Unsaved!Commit(t, f[m].owner)
  PROVE  /\ Unsaved!CanDump(t) /\ Unsaved!Dump(t) = Left(f, m)
         /\ Mirrors(Bury(u, f, m), Left(f, m))
         /\ Shows(Bury(u, f, m), Left(f, m)) = Left(Shows(s, f), m)
<1>1. IsDetached(d, s, f, m)
  BY DetachIs
<1>2. IsDetached(t, s, f, m)
  BY <1>1, DetachStages
<1>3. PICK g : g = Left(f, m)
  OBVIOUS
<1>4. Loose(t, s, f, m, g)
  BY <1>2, <1>3, DetachedIs
<1>5. Unsaved!CanDump(t) /\ Unsaved!Dump(t) = g
  BY <1>3, <1>4, LooseDumps
<1>6. IsLeft(g, f, m) /\ IsFile(f)
  BY <1>3, LeftIs DEF Mirrors
<1>7. /\ IsSnaps(u)
      /\ \A r \in DOMAIN g : Mirrored(u[r], g, r)
      /\ \A r \in Model : r \notin DOMAIN f => Blank(u[r])
      /\ Listed(u[Project], g)
      /\ \A r \in DOMAIN g : \A k \in {"name", "auto"} :
           At(u[r], "working", k) = At(s[r], "working", k)
  <2>1. CASE f[m].owner = Project
    <3>1. f[m].owner \notin DOMAIN g
      BY <1>6, <2>1, ModelsAre DEF IsLeft, IsFile
    <3>2. u = t
      BY <2>1
    <3>3. QED
      BY <1>4, <3>1, <3>2 DEF Loose
  <2>2. CASE f[m].owner # Project
    <3>1. PICK o : o = f[m].owner
      OBVIOUS
    <3>2. PICK written : written = {o} \cup DOMAIN Unsaved!Related(t, o)
      OBVIOUS
    <3>3. written = {o} \cup Owned(g, o) \cup {Project}
      <4>1. DOMAIN Unsaved!Related(t, f[m].owner) = Owned(Left(f, m), f[m].owner) \cup {Project}
        BY <1>1, <2>2, DetachStages
      <4>2. QED
        BY <1>3, <3>1, <3>2, <4>1
    <3>4. /\ o \in Nodes /\ o \in DOMAIN f /\ Model \subseteq Nodes /\ DOMAIN g \subseteq DOMAIN f
          /\ DOMAIN f \subseteq Model /\ IsFile(g) /\ Project \notin Model
      BY <1>6, <2>2, <3>1, ModelsAre DEF IsLeft, IsFile
    <3>5. u = Unsaved!Commit(t, o)
      BY <2>2, <3>1
    <3>6. Committing(u, t, g, written)
      BY <1>4, <3>2, <3>4, <3>5, CommitMirrors DEF Loose
    <3>7. \A r \in DOMAIN g : Mirrored(u[r], g, r)
      BY <1>4, <3>1, <3>3, <3>6 DEF Loose, Committing
    <3>8. ASSUME NEW r \in Model, r \notin DOMAIN f PROVE Blank(u[r])
      <4>1. r \notin written /\ r \in Nodes
        BY <3>3, <3>4, <3>8 DEF Owned
      <4>2. Blank(t[r])
        BY <1>4, <3>8 DEF Loose
      <4>3. QED
        BY <3>6, <4>1, <4>2 DEF Committing
    <3>9. Listed(u[Project], g)
      BY <1>4, <3>3, <3>6 DEF Loose, Committing
    <3>10. ASSUME NEW r \in DOMAIN g, NEW k \in {"name", "auto"}
           PROVE  At(u[r], "working", k) = At(s[r], "working", k)
      <4>1. At(t[r], "working", k) = At(s[r], "working", k) /\ At(t[r], "staged", k) = <<>>
        BY <1>4 DEF Loose
      <4>2. WorkingIs(u, t, written) /\ r \in Nodes
        BY <3>4, <3>6 DEF Committing
      <4>3. QED
        BY <4>1, <4>2 DEF WorkingIs
    <3>11. IsSnaps(u)
      BY <3>6 DEF Committing
    <3>12. QED
      BY <3>7, <3>8, <3>9, <3>10, <3>11
  <2>3. QED
    BY <2>1, <2>2
<1>8. Mirrors(Bury(u, f, m), g) /\ Shows(Bury(u, f, m), g) = Left(Shows(s, f), m)
  BY <1>3, <1>7, BuryIs
<1>9. QED
  BY <1>3, <1>5, <1>8

LEMMA DeleteActs ==
  ASSUME OrmInv, ~failed, NEW m, m \in Unsaved!Seen, Unsaved!Delete(m)
  PROVE  OrmInv' /\ Unsaved!AsStored!Next
<1> DEFINE f == itemsFile
           o == f[m].owner
           d == Unsaved!Detach(snap, m)
           t == IF o = Project THEN d ELSE Unsaved!Stage(d, o, {"members"})
           u == IF o = Project THEN t ELSE Unsaved!Commit(t, o)
<1>1. Mirrors(snap, f) /\ m \in DOMAIN f
  BY ViewIs DEF OrmInv
<1>2. /\ Unsaved!MembersOf(snap, m, Unsaved!All) = Owned(f, m)
      /\ Unsaved!OwnerOf(snap, m, Unsaved!All) = o
  BY <1>1, MirroredIs
<1>3. IF ~Unsaved!CanDump(t) THEN Unsaved!Fail
      ELSE /\ itemsFile' = Unsaved!Dump(t)
           /\ snap' = [r \in DOMAIN u |->
                         IF r \in {m} \cup Owned(f, m) THEN Unsaved!Buried(u[r]) ELSE u[r]]
           /\ UNCHANGED failed
  BY <1>2 DEF Unsaved!Delete
<1>4. /\ Unsaved!CanDump(t) /\ Unsaved!Dump(t) = Left(f, m)
      /\ Mirrors(Bury(u, f, m), Left(f, m))
      /\ Shows(Bury(u, f, m), Left(f, m)) = Left(Shows(snap, f), m)
  BY <1>1, DeletingIs
<1> HIDE DEF t, u
<1>5. itemsFile' = Left(f, m) /\ snap' = Bury(u, f, m) /\ ~failed'
  BY <1>3, <1>4 DEF Bury, Gone
<1>6. Mirrors(snap', itemsFile') /\ Shows(snap', itemsFile') = Left(Shows(snap, f), m)
  BY <1>4, <1>5
<1>7. OrmInv' /\ Shown = Shows(snap, f) /\ Shown' = Shows(snap', itemsFile')
  BY <1>5, <1>6, ActedIs DEF Mirrors, IsFile, Owned
<1>8. itemsFile' = Left(itemsFile, m) /\ Shown' = Left(Shown, m) /\ m \in DOMAIN Shown
  BY <1>1, <1>5, <1>6, <1>7 DEF Shows
<1>9. Unsaved!AsStored!Delete(m)
  BY <1>8 DEF Unsaved!AsStored!Delete, Unsaved!AsStored!Members, Left, Gone, Owned, Shown
<1>10. QED
  BY <1>7, <1>8, <1>9 DEF Unsaved!AsStored!Next, Shown

LEMMA NextActs ==
  OrmInv /\ Unsaved!Next => OrmInv' /\ Unsaved!AsStored!Next
<1> SUFFICES ASSUME OrmInv, Unsaved!Next PROVE OrmInv' /\ Unsaved!AsStored!Next
  OBVIOUS
<1>1. CASE Unsaved!Begin
  BY <1>1, BeginActs
<1>2. CASE ~failed /\ \E m \in Model :
             \/ \E o \in Schema \cup {Project} : Unsaved!Create(m, o)
             \/ \E v \in Value : Unsaved!Assign(m, v)
             \/ Unsaved!Save(m)
             \/ Unsaved!ClearAuto(m)
             \/ m \in Unsaved!Seen /\ Unsaved!Delete(m)
  <2>1. PICK m \in Model :
             \/ \E o \in Schema \cup {Project} : Unsaved!Create(m, o)
             \/ \E v \in Value : Unsaved!Assign(m, v)
             \/ Unsaved!Save(m)
             \/ Unsaved!ClearAuto(m)
             \/ m \in Unsaved!Seen /\ Unsaved!Delete(m)
    BY <1>2
  <2>2. CASE \E o \in Schema \cup {Project} : Unsaved!Create(m, o)
    BY <1>2, <2>2, CreateActs
  <2>3. CASE \E v \in Value : Unsaved!Assign(m, v)
    BY <1>2, <2>3, AssignActs
  <2>4. CASE Unsaved!Save(m)
    BY <1>2, <2>4, SaveActs
  <2>5. CASE Unsaved!ClearAuto(m)
    BY <1>2, <2>5, ClearAutoActs
  <2>6. CASE m \in Unsaved!Seen /\ Unsaved!Delete(m)
    BY <1>2, <2>6, DeleteActs
  <2>7. QED
    BY <2>1, <2>2, <2>3, <2>4, <2>5, <2>6
<1>3. QED
  BY <1>1, <1>2 DEF Unsaved!Next, Model

\* Whatever a request does, the file holds what was saved and no edit that was
\* not, both sides of a relationship agree, and a save that fails changes
\* nothing: the snapshots of Orm implement Store.
THEOREM SavesAreExact == Spec => ActsAsStore
<1>1. Init => OrmInv /\ Unsaved!AsStored!Init
  BY InitActs DEF Init
<1>2. OrmInv /\ [Next]_vars => OrmInv' /\ [Unsaved!AsStored!Next]_(Unsaved!AsStored!vars)
  <2> SUFFICES ASSUME OrmInv, [Next]_vars
               PROVE  OrmInv' /\ [Unsaved!AsStored!Next]_(Unsaved!AsStored!vars)
    OBVIOUS
  <2>1. CASE Unsaved!Next
    BY <2>1, NextActs
  <2>2. CASE UNCHANGED unsavedVars
    <3>1. UNCHANGED <<snap, live, itemsFile, failed>>
      BY <2>2 DEF unsavedVars
    <3>2. OrmInv'
      <4>1. IsFile(itemsFile)'
        BY <3>1 DEF OrmInv, IsFile
      <4>2. ~failed' => Mirrors(snap', itemsFile')
        BY <3>1 DEF OrmInv
      <4>3. QED
        BY <4>1, <4>2 DEF OrmInv
    <3>3. Shown' = Shown
      BY <3>1 DEF Shown, Unsaved!View, Unsaved!Seen, Unsaved!SchemasSeen, Unsaved!MembersOf
    <3>4. QED
      BY <3>1, <3>2, <3>3 DEF Unsaved!AsStored!vars, Shown
  <2>3. QED
    BY <2>1, <2>2 DEF Next, vars, unsavedVars
<1>3. QED
  BY <1>1, <1>2, PTL DEF Spec, ActsAsStore, Unsaved!ActsAsStore, Unsaved!AsStored!Spec
=============================================================================
