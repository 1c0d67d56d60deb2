------------------------------ MODULE Repoman ------------------------------
(***************************************************************************)
(* The repository of one project: storage/repoman.py.  Users edit on a     *)
(* branch that bears their name and publish it to master, by squashing it  *)
(* when master has not moved and by a three-way merge when it has.         *)
(*                                                                         *)
(* One action is one call of a Repoman method.  Commit ids are indices     *)
(* into commits.  A commit has one parent (the code never gives it two),   *)
(* so what a walk from it visits is a chain, kept in its field log.        *)
(***************************************************************************)
EXTENDS JsonMerge, Naturals, Sequences, FiniteSetsExt

CONSTANTS User,       \* authors, each with a branch of that name
          JsonPath,   \* paths of json files
          RawPath,    \* paths of other files, such as a page's original_body.html
          RawValue,   \* contents of those files
          NoFile,     \* what a tree holds at a path without a file
          Tag,        \* names for tags
          EditKinds,  \* what users do to files: of "set", "delete" and "move"
          Forces,     \* the values of publish_branch's force that users pass
          ResolveFirst,  \* TRUE: users publish no file with a __CONFLICT in it
          MaxCommits     \* bound on the length of the history

ASSUME PathAssumption == JsonPath \cap RawPath = {}
ASSUME ForcesAssumption == Forces \subseteq BOOLEAN
ASSUME MaxCommitsAssumption == MaxCommits \in Nat \ {0}

Path == JsonPath \cup RawPath

VARIABLES commits,  \* the object store: a sequence of commits
          master,   \* refs/heads/master
          branch,   \* refs/heads/<user>, 0 if there is none
          tags,     \* refs/tags/<tag>, 0 if there is none
          fork,     \* auxiliary: the master head a branch was created from
          merged    \* auxiliary: the master head a failed publish merged in

refs == <<master, branch, tags>>
vars == <<commits, refs, fork, merged>>

-----------------------------------------------------------------------------
(* Trees and the objects in them.                                          *)

EmptyTree == [p \in Path |-> NoFile]

IsTree(t) == /\ DOMAIN t = Path
             /\ t = [p \in Path |-> t[p]]

TreeOf(c) == commits[c].tree

\* A file whose contents json.loads does not parse.
IsRaw(file) == file \in RawValue

\* load_raw and load_json: a file that is not there reads as '{}'.
Load(tree, p) == IF tree[p] = NoFile THEN EmptyJson ELSE tree[p]

\* a or b or c, for three json objects.
FirstTrue(a, b, c) == IF a # EmptyJson THEN a ELSE IF b # EmptyJson THEN b ELSE c

-----------------------------------------------------------------------------
(* The differences between two trees, as dulwich's tree_changes reports    *)
(* them with a rename detector.  Only a file moved with its contents       *)
(* unchanged counts as renamed here; the detector also pairs files that    *)
(* are merely similar.                                                     *)

Moves(from, to) ==
  {m \in Path \X Path : /\ from[m[1]] # NoFile /\ to[m[1]] = NoFile
                        /\ from[m[2]] = NoFile /\ to[m[2]] = from[m[1]]}

\* Each removed file is paired with at most one added file and conversely,
\* and as many as possible are paired.
Renames(from, to) ==
  LET Pairings == {R \in SUBSET Moves(from, to) :
                     \A r, s \in R : r[1] = s[1] <=> r[2] = s[2]}
  IN CHOOSE R \in Pairings : \A S \in Pairings : Cardinality(S) <= Cardinality(R)

\* The type of the change recorded under path p: a rename is recorded under
\* the old path only.
Change(from, to, p) ==
  LET renames == Renames(from, to)
  IN CASE from[p] # NoFile /\ to[p] = from[p]       -> "unchanged"
       [] from[p] # NoFile /\ to[p] = NoFile        ->
            IF \E r \in renames : r[1] = p THEN "rename" ELSE "delete"
       [] from[p] # NoFile /\ to[p] \notin {from[p], NoFile} -> "modify"
       [] from[p] = NoFile /\ to[p] # NoFile /\ \A r \in renames : r[2] # p -> "add"
       [] OTHER                                     -> "none"

\* change.new.path, for a path with a change that is no deletion.
NewPath(from, to, p) ==
  LET paired == {m \in Moves(from, to) : m[1] = p /\ m \in Renames(from, to)}
  IN IF paired = {} THEN p ELSE (CHOOSE m \in paired : TRUE)[2]

-----------------------------------------------------------------------------
(* _merge_branches, path by path.  A path contributes at most one file to  *)
(* the merged tree, at the path it ends up under.                          *)

Contribution(p, file, conflict) ==
  {[path |-> p, file |-> file, conflict |-> conflict]}

\* Only one side has a change at p: it is a file that side added.  The file
\* goes through json.loads; when that fails, what is kept is mine.
AddedByOneSide(base, mine, other, p) ==
  LET unparsed == \/ IsRaw(Load(mine, p))
                  \/ Load(mine, p) = EmptyJson /\ IsRaw(Load(other, p))
      file == IF unparsed THEN Load(mine, p)
              ELSE FirstTrue(Load(mine, p), Load(other, p), Load(base, p))
  IN Contribution(p, file, FALSE)

\* Neither side deleted the file.  Its contents are merged as found under the
\* old path; a forced publish looks under the new one.
KeptByBothSides(base, mine, other, takeMine, p) ==
  LET myPath    == NewPath(base, mine, p)
      otherPath == NewPath(base, other, p)
      path      == IF myPath # p THEN myPath ELSE otherPath
      found     == <<Load(base, p), Load(mine, p), Load(other, p)>>
  IN IF \E i \in 1..3 : IsRaw(found[i])
     THEN Contribution(p, found[2], FALSE)
     ELSE IF takeMine
     THEN Contribution(path, FirstTrue(Load(mine, myPath), Load(other, otherPath),
                                       found[1]), FALSE)
     ELSE Contribution(path, Merged(found[1], found[2], found[3]),
                       HadConflict(found[1], found[2], found[3]))

MergePath(base, mine, other, takeMine, p) ==
  LET my    == Change(base, mine, p)
      their == Change(base, other, p)
  IN CASE my = "none" /\ their = "none" -> {}
       [] (my = "none") # (their = "none") -> AddedByOneSide(base, mine, other, p)
       [] my = "delete" /\ their # "none" ->
                              IF their \in {"rename", "modify"}
                              THEN Contribution(NewPath(base, other, p),
                                                other[NewPath(base, other, p)], FALSE)
                              ELSE {}
       [] their = "delete" /\ my \notin {"none", "delete"} ->
                              IF my \in {"rename", "modify"}
                              THEN Contribution(NewPath(base, mine, p),
                                                mine[NewPath(base, mine, p)], FALSE)
                              ELSE {}
       [] OTHER            -> KeptByBothSides(base, mine, other, takeMine, p)

\* The trees the merge can build, and whether it had a conflict.  Of two files
\* put at one path the later one stays, and the paths are visited in the
\* order of a hash table.
Merge(base, mine, other, takeMine) ==
  LET parts == UNION {MergePath(base, mine, other, takeMine, p) : p \in Path}
      filesAt(q) == {part.file : part \in {x \in parts : x.path = q}}
      files == {part.file : part \in parts} \cup {NoFile}
  IN [trees    |-> {t \in [Path -> files] :
                      \A q \in Path : IF filesAt(q) = {} THEN t[q] = NoFile
                                                       ELSE t[q] \in filesAt(q)},
      conflict |-> \E part \in parts : part.conflict]

-----------------------------------------------------------------------------
(* The history.                                                            *)

\* get_published_revisions: the publishes among master's ancestors.
Published == {c \in commits[master].log : commits[c].message = "publish"}

\* Mutant: the walk does not stop at the branch's fork point.
MergeBaseWalksPast(u) == Min(commits[branch[u]].log)

\* The last of get_branch_checkpoints: walking back from the branch, the
\* first publish met, or the root.
MergeBase(u) ==
  LET walked == commits[branch[u]].log
  IN IF walked \cap Published = {} THEN Min(walked)
                                   ELSE Max(walked \cap Published)

\* Mutant: the arguments of _is_ancestor_commit swapped.
MasterIsAncestorSwapped(u) == branch[u] \in commits[master].log

\* _is_ancestor_commit(branch, head)
MasterIsAncestor(u) == master \in commits[branch[u]].log

\* Mutant: the reference set is the one of the newest commit before.
NextIdStale == Len(commits)

NextId == Len(commits) + 1

\* Mutant: commit.parents is not set.
AddCommitWithoutParent(parent, message, tree) ==
  /\ Len(commits) < MaxCommits
  /\ commits' = Append(commits, [parent |-> parent, message |-> message,
                                 tree |-> tree, log |-> {NextId}])

\* Store a commit; the guard is the bound on the history.
AddCommit(parent, message, tree) ==
  /\ Len(commits) < MaxCommits
  /\ commits' = Append(commits, [parent  |-> parent,
                                 message |-> message,
                                 tree    |-> tree,
                                 log     |-> commits[parent].log \cup {NextId}])

-----------------------------------------------------------------------------
(* The methods.                                                            *)

\* create_repo: an empty tree in a commit without parent.
Init == /\ commits = <<[parent |-> 0, message |-> "init", tree |-> EmptyTree,
                        log |-> {1}]>>
        /\ master = 1
        /\ branch = [u \in User |-> 0]
        /\ tags = [t \in Tag |-> 0]
        /\ fork = [u \in User |-> 0]
        /\ merged = [u \in User |-> 0]

\* create_branch at master's head.  Its callers create missing branches only.
CreateBranch(u) ==
  /\ branch[u] = 0
  /\ branch' = [branch EXCEPT ![u] = master]
  /\ fork' = [fork EXCEPT ![u] = master]
  /\ UNCHANGED <<commits, master, tags, merged>>

\* save_files: changes maps paths to new contents, NoFile for a deletion.
\* A branch that does not exist yet is created first.
SaveFiles(u, changes) ==
  LET parent == IF branch[u] = 0 THEN master ELSE branch[u]
  IN /\ AddCommit(parent, "save",
                  [p \in Path |-> IF p \in DOMAIN changes THEN changes[p]
                                                          ELSE TreeOf(parent)[p]])
     /\ branch' = [branch EXCEPT ![u] = NextId]
     /\ fork' = IF branch[u] = 0 THEN [fork EXCEPT ![u] = master] ELSE fork
     /\ UNCHANGED <<master, tags, merged>>

\* publish_branch when master has not moved: the branch squashed into one
\* commit on top of master.
Squash(u) ==
  /\ MasterIsAncestor(u)
  /\ AddCommit(master, "publish", TreeOf(branch[u]))
  /\ master' = NextId
  /\ UNCHANGED <<branch, tags, fork, merged>>

\* publish_branch when it has: a merge, committed to master if it had no
\* conflict and to the branch, markers and all, if it had.
MergeIn(u, force) ==
  LET result == Merge(TreeOf(MergeBase(u)), TreeOf(branch[u]), TreeOf(master), force)
  IN /\ ~MasterIsAncestor(u)
     /\ \E tree \in result.trees :
          IF result.conflict
          THEN /\ AddCommit(branch[u], "resolve", tree)
               /\ branch' = [branch EXCEPT ![u] = NextId]
               /\ merged' = [merged EXCEPT ![u] = master]
               /\ UNCHANGED master
          ELSE /\ AddCommit(master, "publish", tree)
               /\ master' = NextId
               /\ UNCHANGED <<branch, merged>>
     /\ UNCHANGED <<tags, fork>>

PublishBranch(u, force) ==
  /\ branch[u] # 0
  /\ Squash(u) \/ MergeIn(u, force)

\* delete_branch: the reference only.
DeleteBranch(u) ==
  /\ branch[u] # 0
  /\ branch' = [branch EXCEPT ![u] = 0]
  /\ fork' = [fork EXCEPT ![u] = 0]
  /\ merged' = [merged EXCEPT ![u] = 0]
  /\ UNCHANGED <<commits, master, tags>>

\* add_tag: the tag object names master's head.
AddTag(t) ==
  /\ tags' = [tags EXCEPT ![t] = master]
  /\ UNCHANGED <<commits, master, branch, fork, merged>>

\* checkout_tag: master goes where the tag points.
CheckoutTag(t, remove) ==
  /\ tags[t] # 0
  /\ master' = tags[t]
  /\ tags' = IF remove THEN [tags EXCEPT ![t] = 0] ELSE tags
  /\ UNCHANGED <<commits, branch, fork, merged>>

-----------------------------------------------------------------------------
(* What users do with them.                                                *)

HasConflicts(tree) ==
  \E p \in JsonPath : tree[p] # NoFile /\ HasMarker(tree[p])

\* The changes a user can make to a tree in one save.
Edits(tree) ==
  LET sets    == {<<p, [Load(tree, p) EXCEPT ![k] = v]>> :
                    p \in JsonPath, k \in Field, v \in Value \cup {Absent}}
                 \cup RawPath \X RawValue
      deletes == {<<p, NoFile>> : p \in {p \in Path : tree[p] # NoFile}}
      moves   == {m \in JsonPath \X JsonPath :
                    tree[m[1]] # NoFile /\ tree[m[2]] = NoFile}
      one(c)  == [p \in {c[1]} |-> c[2]]
      move(m) == [p \in {m[1], m[2]} |-> IF p = m[1] THEN NoFile ELSE tree[m[1]]]
  IN    (IF "set"    \in EditKinds THEN {one(c) : c \in sets}    ELSE {})
   \cup (IF "delete" \in EditKinds THEN {one(c) : c \in deletes} ELSE {})
   \cup (IF "move"   \in EditKinds THEN {move(m) : m \in moves}  ELSE {})

Save(u) ==
  LET tree == TreeOf(IF branch[u] = 0 THEN master ELSE branch[u])
  IN \E changes \in Edits(tree) :
       /\ \E p \in DOMAIN changes : changes[p] # tree[p]
       /\ SaveFiles(u, changes)

Publish(u) ==
  /\ branch[u] # 0
  /\ ResolveFirst => ~HasConflicts(TreeOf(branch[u]))
  /\ \E force \in Forces : PublishBranch(u, force)

Next == \/ \E u \in User : \/ CreateBranch(u) \/ Save(u)
                           \/ Publish(u)      \/ DeleteBranch(u)
        \/ \E t \in Tag : \/ AddTag(t)
                          \/ \E remove \in BOOLEAN : CheckoutTag(t, remove)

Spec == Init /\ [][Next]_vars

-----------------------------------------------------------------------------
(* What the repository promises.                                           *)

Messages == {"init", "save", "publish", "resolve"}

\* A commit's parent is older than it; its log holds it and nothing younger.
CommitsOK ==
  /\ Len(commits) \in 1..MaxCommits
  /\ \A c \in 1..Len(commits) : /\ commits[c].parent \in 0..(c - 1)
                                /\ commits[c].message \in Messages
                                /\ IsTree(commits[c].tree)
                                /\ commits[c].log \subseteq 1..c
                                /\ c \in commits[c].log

\* References name commits of the object store.
RefsOK ==
  /\ master \in 1..Len(commits)
  /\ branch \in [User -> 0..Len(commits)]
  /\ tags \in [Tag -> 0..Len(commits)]
  /\ fork \in [User -> 0..Len(commits)]
  /\ merged \in [User -> 0..Len(commits)]

\* The repository is well formed: no reference dangles, and no commit has
\* itself or a younger one in its history.
TypeOK == CommitsOK /\ RefsOK

\* The commit publish_branch merges against is the one the branch was forked
\* from, which the code has not recorded and finds by the commit messages.
MergeBaseIsForkPoint ==
  \A u \in User : branch[u] # 0 => MergeBase(u) = fork[u]

\* No __CONFLICT object is ever published.
MasterHasNoMarkers == ~HasConflicts(TreeOf(master))

\* Whatever was published stays in master's history, unless a tag is checked
\* out: no publish takes another one's place.
MasterHistoryGrows ==
  [][\/ commits[master].log \subseteq commits'[master'].log
     \/ \E t \in Tag : tags[t] # 0 /\ master' = tags[t]]_vars

\* result holds what both sides did to a file since base: mine where only I
\* touched it, other where only others did, key by key if both did.  A file
\* one side deleted and the other changed is kept.
MergedFile(base, mine, other, result) ==
  IF mine = base       THEN result = other
  ELSE IF other = base THEN result = mine
  ELSE IF mine = NoFile THEN result = other
  ELSE IF other = NoFile THEN result = mine
  ELSE LET b == IF base = NoFile THEN EmptyJson ELSE base
       IN \A k \in Field : /\ mine[k] = b[k]  => result[k] = other[k]
                           /\ other[k] = b[k] => result[k] = mine[k]
                           /\ result[k] \in {mine[k], other[k]}

\* No file was moved since the fork, neither on the branch nor on master.
NothingMoved(u) == /\ Moves(TreeOf(fork[u]), TreeOf(branch[u])) = {}
                   /\ Moves(TreeOf(fork[u]), TreeOf(master)) = {}

PublishedFile(u, p) ==
  MergedFile(TreeOf(fork[u])[p], TreeOf(branch[u])[p], TreeOf(master)[p],
             commits'[master'].tree[p])

\* A publish loses no work on json files: neither the publisher's since the
\* fork, nor what others published since then.
PublishMergesJson ==
  [][\A u \in User :
       (PublishBranch(u, FALSE) /\ master' # master /\ NothingMoved(u))
         => \A p \in JsonPath : PublishedFile(u, p)]_vars

\* A publish fails only where the publisher and others changed the same key
\* since the fork, and then the branch keeps both values of that key.
FailedPublishKeepsBoth ==
  [][\A u \in User :
       (PublishBranch(u, FALSE) /\ branch'[u] # branch[u] /\ NothingMoved(u))
         => \E p \in JsonPath, k \in Field :
              LET file(c) == Load(TreeOf(c), p)
              IN /\ file(branch[u])[k] \notin {file(fork[u])[k], file(master)[k]}
                 /\ file(master)[k] # file(fork[u])[k]
                 /\ commits'[branch'[u]].tree[p][k] =
                      [base_val  |-> Get(file(fork[u]), k),
                       my_val    |-> Get(file(branch[u]), k),
                       other_val |-> Get(file(master), k)]]_vars
============================================================================
