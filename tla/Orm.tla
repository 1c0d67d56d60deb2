-------------------------------- MODULE Orm --------------------------------
(***************************************************************************)
(* Snapshots, saving and deletion in the object-relational mapping, for    *)
(* the schemas of a project and their fields: a tree that is kept in one   *)
(* file, items.json.                                                       *)
(*                                                                         *)
(* A request keeps the data of every model in three snapshots: working,    *)
(* staged and committed; reading looks in the snapshots of the instance,   *)
(* in that order.  A model is written together with its siblings, from     *)
(* what is staged and what is committed.  Both sides of a relationship are *)
(* kept: "owner" in the member, "members" in the owner.                    *)
(*                                                                         *)
(* Left out: the order of members; models with files of their own; a field *)
(* that moves from one schema to another.                                  *)
(***************************************************************************)
EXTENDS Naturals, Sequences

CONSTANTS Project, Schema, Field,
          Value, \* the names that are given to models
          New,   \* the name of what is created; it is auto_created, too
          None

VARIABLES snap,  \* model -> snapshot -> the fields that are set in it
          live,  \* owners whose committed list is also what the request edits
          file,  \* items.json: what it says of each model
          failed \* an exception has ended the request

vars == <<snap, live, file, failed>>

Model == Schema \cup Field
Scalars == {"name", "auto"}
Snapshots == {"working", "staged", "committed"}

All         == <<"working", "staged", "committed">>
Stored      == <<"staged", "committed">>
OrCommitted == <<"working", "committed">>
Committed   == <<"committed">>

-----------------------------------------------------------------------------
(* One model: ModelSnapshots.                                              *)

Has(d, k, views) == \E i \in DOMAIN views : k \in DOMAIN d[views[i]]

Get(d, k, views) ==
  LET first == CHOOSE i \in DOMAIN views :
                 /\ k \in DOMAIN d[views[i]]
                 /\ \A j \in 1..i - 1 : k \notin DOMAIN d[views[j]]
  IN IF Has(d, k, views) THEN d[views[first]][k] ELSE None

Dirty(d) == {k \in DOMAIN d["working"] :
               ~(/\ k \in DOMAIN d["committed"]
                 /\ d["committed"][k] = d["working"][k])}

Updated(f, g) ==
  [k \in DOMAIN f \cup DOMAIN g |-> IF k \in DOMAIN g THEN g[k] ELSE f[k]]

Set(d, view, k, v) == [d EXCEPT ![view] = Updated(@, [x \in {k} |-> v])]

Copied(d, to, views, ks) ==
  [d EXCEPT ![to] = Updated(@, [k \in ks |-> Get(d, k, views)])]

Without(d, view, ks) ==
  [d EXCEPT ![view] = [k \in DOMAIN @ \ ks |-> @[k]]]

Nothing == [v \in Snapshots |-> <<>>]

-----------------------------------------------------------------------------
(* Relationships.                                                          *)

OwnerOf(s, m, views) == Get(s[m], "owner", views)

MembersOf(s, o, views) ==
  LET list == Get(s[o], "members", views) IN IF list = None THEN {} ELSE list

\* _staged_model_references: the owner and the members as they will be stored.
Related(s, m) ==
  LET o == OwnerOf(s, m, Stored)
  IN [r \in MembersOf(s, m, Stored) \cup ({o} \ {None}) |->
        IF r = o THEN "members" ELSE "owner"]

\* The list a request edits is a copy of the committed one, or that one.
Add(s, o, m) ==
  LET list == MembersOf(s, o, All) \cup {m}
      mine == Set(s[o], "working", "members", list)
  IN [s EXCEPT ![o] = IF o \in live THEN Set(mine, "committed", "members", list)
                                    ELSE mine]

\* Mutant: the member goes from the list the request edits.
DiscardInWorking(s, o, m) ==
  IF m \notin MembersOf(s, o, Stored) THEN s
  ELSE [s EXCEPT ![o] = Set(@, "working", "members",
                            MembersOf(s, o, Stored) \ {m})]

Discard(s, o, m) ==
  IF m \notin MembersOf(s, o, Stored) THEN s
  ELSE [s EXCEPT ![o] = Set(@, "staged", "members",
                            MembersOf(s, o, Stored) \ {m})]

-----------------------------------------------------------------------------
(* Saving: Model.save.                                                     *)

\* Both sides of a relationship are staged.
StageFields(s, m, dirty) ==
  LET mine == [s EXCEPT ![m] = Copied(@, "staged", <<"working">>, dirty)]
      related == Related(mine, m)
      refresh(r) == dirty # {} \/ related[r] \in Dirty(mine[r])
  IN [r \in DOMAIN mine |->
        IF r \in DOMAIN related /\ refresh(r)
        THEN Copied(mine[r], "staged", OrCommitted, {related[r]})
        ELSE mine[r]]

\* Mutant: what is saved is not limited to the fields that were named.
StageEveryField(s, m, only) == StageFields(s, m, Dirty(s[m]))

\* _stage_changes
Stage(s, m, only) == StageFields(s, m, Dirty(s[m]) \cap only)

\* The models of the file: those that the project's list leads to.
SchemasIn(s) == MembersOf(s, Project, Stored)
FieldsIn(s) == UNION {MembersOf(s, m, Stored) : m \in SchemasIn(s)}

CanDump(s) == \A m \in SchemasIn(s) \cup FieldsIn(s) : Has(s[m], "name", Stored)

Dump(s) ==
  [m \in SchemasIn(s) \cup FieldsIn(s) |->
     [owner |-> IF m \in SchemasIn(s) THEN Project
                ELSE CHOOSE o \in SchemasIn(s) : m \in MembersOf(s, o, Stored),
      name |-> Get(s[m], "name", Stored),
      auto |-> Get(s[m], "auto", Stored)]]

InFile(m) == IF m \in Schema THEN Scalars \cup {"members"}
             ELSE IF m \in Field THEN Scalars ELSE {}

\* The model or one of its relations has something to be written.
MustWrite(s, m) ==
  \E r \in {m} \cup DOMAIN Related(s, m) :
    \/ InFile(r) \cap DOMAIN s[r]["staged"] # {}
    \/ r \in Schema /\ "owner" \in Dirty(s[r])

\* The end of _commit_changes.
Commit(s, m) ==
  LET written == {m} \cup DOMAIN Related(s, m)
      commit(d) == LET staged == DOMAIN d["staged"] IN
        Without(Without(Copied(d, "committed", Stored, staged), "staged", staged),
                "working", staged)
  IN [r \in DOMAIN s |-> IF r \in written THEN commit(s[r]) ELSE s[r]]

\* Lists that were staged as the request edits them are now committed.
Shared(s, m) ==
  LET staged == {r \in {m} \cup DOMAIN Related(s, m) :
                   "members" \in DOMAIN s[r]["staged"]}
      edited == {r \in staged : "members" \in DOMAIN s[r]["working"] \/ r \in live}
  IN (live \ staged) \cup edited

Fail == failed' = TRUE /\ UNCHANGED <<snap, live, file>>

SaveFrom(s, m, only) ==
  LET staged == Stage(s, m, only) IN
  IF MustWrite(staged, m) /\ ~CanDump(staged)
  THEN Fail
  ELSE /\ file' = IF MustWrite(staged, m) THEN Dump(staged) ELSE file
       /\ snap' = Commit(staged, m)
       /\ live' = Shared(staged, m)
       /\ UNCHANGED failed

-----------------------------------------------------------------------------
(* Deletion: Collector, CLEAR in the owner and CASCADE to the members.     *)

\* _stage_delete
Detach(s, m) ==
  LET gone == MembersOf(s, m, All)
      alone == [r \in DOMAIN s |->
                  IF r \in {m} \cup gone THEN Set(s[r], "staged", "owner", None)
                  ELSE s[r]]
      empty == IF gone = {} THEN alone
               ELSE [alone EXCEPT ![m] = Set(@, "staged", "members", {})]
  IN Discard(empty, OwnerOf(s, m, All), m)

\* The end of _commit_delete: only working data is left of a deleted model.
Buried(d) ==
  LET rest == UNION {DOMAIN d[v] : v \in Snapshots}
  IN [Nothing EXCEPT !["working"] = [k \in rest |-> Get(d, k, All)]]

\* _commit_delete.  The list of schemas is in no file: the project is not
\* among the models to be saved and its list stays staged.
Delete(m) ==
  LET o == OwnerOf(snap, m, All)
      gone == {m} \cup MembersOf(snap, m, All)
      detached == Detach(snap, m)
      staged == IF o = Project THEN detached ELSE Stage(detached, o, {"members"})
      done == IF o = Project THEN staged ELSE Commit(staged, o)
  IN IF ~CanDump(staged) THEN Fail
     ELSE /\ file' = Dump(staged)
          /\ snap' = [r \in DOMAIN done |->
                        IF r \in gone THEN Buried(done[r]) ELSE done[r]]
          /\ live' = IF o = Project THEN live ELSE Shared(staged, o)
          /\ UNCHANGED failed

-----------------------------------------------------------------------------
(* What requests do.                                                       *)

SchemasSeen == MembersOf(snap, Project, All)
Seen == SchemasSeen \cup UNION {MembersOf(snap, m, All) : m \in SchemasSeen}

\* An instance is constructed, which sets both sides of its relationship.
Constructed(m, o) ==
  LET own == [Nothing EXCEPT !["working"] =
                [name |-> New, auto |-> TRUE, owner |-> o]]
  IN Add([snap EXCEPT ![m] = own], o, m)

\* The serializers save what they have constructed.
Create(m, o) ==
  /\ \A view \in Snapshots : snap[m][view] = <<>>
  /\ o \in (IF m \in Schema THEN {Project} ELSE SchemasSeen)
  /\ SaveFrom(Constructed(m, o), m, Scalars \cup {"owner"})

Assign(m, v) == /\ m \in Seen
                /\ snap' = [snap EXCEPT ![m] = Set(@, "working", "name", v)]
                /\ UNCHANGED <<live, file, failed>>

Save(m) == m \in Seen /\ SaveFrom(snap, m, Scalars)

\* clear_auto_created saves one field: other edits stay unsaved.
ClearAuto(m) ==
  /\ m \in Seen /\ Get(snap[m], "auto", All)
  /\ SaveFrom([snap EXCEPT ![m] = Set(@, "working", "auto", FALSE)], m, {"auto"})

\* What a request reads first, and items.json with it.
Loaded(f) ==
  LET members(o) == {m \in DOMAIN f : f[m].owner = o}
      data(m) == IF m = Project THEN [members |-> members(m)]
                 ELSE IF m \in Schema \cap DOMAIN f
                 THEN Updated(f[m], [members |-> members(m)])
                 ELSE IF m \in DOMAIN f THEN f[m] ELSE <<>>
  IN [m \in Model \cup {Project} |-> [Nothing EXCEPT !["committed"] = data(m)]]

Begin == /\ snap' = Loaded(file) /\ live' = {} /\ failed' = FALSE
         /\ UNCHANGED file

Init == file = <<>> /\ snap = Loaded(<<>>) /\ live = {} /\ failed = FALSE

Next == \/ Begin
        \/ /\ ~failed
           /\ \E m \in Model :
                \/ \E o \in Schema \cup {Project} : Create(m, o)
                \/ \E v \in Value : Assign(m, v)
                \/ Save(m)
                \/ ClearAuto(m)
                \/ m \in Seen /\ Delete(m)

Spec == Init /\ [][Next]_vars

-----------------------------------------------------------------------------
(* Properties.                                                             *)

View == [m \in Seen |->
           [owner |-> Get(snap[m], "owner", All),
            name |-> Get(snap[m], "name", All), auto |-> Get(snap[m], "auto", All)]]

AsStored == INSTANCE Store WITH Value <- Value \cup {New}, saved <- file,
                                seen <- IF failed THEN file ELSE View

\* Whatever a request does, the file holds what was saved and no edit that was
\* not, both sides of a relationship agree, and a save that fails changes
\* nothing.
ActsAsStore == AsStored!Spec
=============================================================================
