------------------------------ MODULE Project ------------------------------
(***************************************************************************)
(* A project under version control, as its users see it: each request of   *)
(* the api happens at once.  Files and their merging are in Repoman; here  *)
(* a version of the project is the set of the edits made to get there, an  *)
(* edit being named by the commit that saved it.                           *)
(*                                                                         *)
(* The actions take the heads the request has read as arguments, u being   *)
(* the user and b and m the heads of u's branch and of master (0: none).   *)
(* Next passes them what is there.  Sessions, where requests overlap,      *)
(* passes what was there when the request read it.                         *)
(***************************************************************************)
EXTENDS Naturals, Sequences, FiniteSetsExt

CONSTANTS User,       \* each has a branch of that name
          Master,     \* the reference refs/heads/master
          MaxCommits  \* bound on the length of the history

ASSUME MasterAssumption == Master \notin User
ASSUME BoundAssumption == MaxCommits \in Nat \ {0}

Ref == User \cup {Master}

VARIABLES commits,  \* the object store: a sequence of commits
          refs,     \* the commit each reference names, 0 for none
          givenUp,  \* auxiliary: edits that somebody chose to discard
          loose     \* auxiliary: edits that a merge may not keep: any but those
                    \* that only set keys of json objects, not to lists or null,
                    \* in files that are neither moved nor deleted (Repoman)

vars == <<commits, refs, givenUp, loose>>

Edits(c) == IF c = 0 THEN {} ELSE commits[c].edits

Log(c) == commits[c].log

\* Mutant: a reference is advanced to the newest commit before.
NextIdStale == Len(commits)

NextId == Len(commits) + 1

Init == /\ commits = <<[message |-> "init", edits |-> {}, log |-> {1}]>>
        /\ refs = [r \in Ref |-> IF r = Master THEN 1 ELSE 0]
        /\ givenUp = {}
        /\ loose = {}

AddCommit(parent, message, edits) ==
  /\ Len(commits) < MaxCommits
  /\ commits' = Append(commits, [message |-> message, edits |-> edits,
                                 log |-> Log(parent) \cup {NextId}])

-----------------------------------------------------------------------------
(* What a publish puts on master.                                          *)

\* The last of get_branch_checkpoints, as in Repoman.
MergeBase(b, m) ==
  LET met == {c \in Log(b) \cap Log(m) : commits[c].message = "publish"}
  IN IF met = {} THEN Min(Log(b)) ELSE Max(met)

Squashed(b, m) == m \in Log(b)

\* Mutant: a version of master the branch has not seen counts for its base.
MergedEditsOfMine(b, m) ==
  LET base == Edits(m)
  IN (Edits(b) \cap Edits(m)) \cup (Edits(b) \ base) \cup (Edits(m) \ base)

\* The three-way merge, where it goes key by key (PublishMergesJson of
\* Repoman): what both have and what one of them added.
MergedEdits(b, m) ==
  LET base == Edits(MergeBase(b, m))
  IN (Edits(b) \cap Edits(m)) \cup (Edits(b) \ base) \cup (Edits(m) \ base)

\* Of the rest, raw files, lists, files moved or deleted, either side may win.
MergeResults(b, m) == {MergedEdits(b, m) \ dropped : dropped \in SUBSET loose}

\* A conflict needs a change on both sides; whether there is one depends on
\* the files.
MayConflict(b, m) ==
  ~Squashed(b, m) /\ b # MergeBase(b, m) /\ m # MergeBase(b, m)

\* changed_files compares the two trees.  Sets of edits do not tell when trees
\* are equal, but those of one commit are.
HasChanges(b, m) == b # 0 /\ b # m

-----------------------------------------------------------------------------
(* The requests.                                                           *)

\* The storage checks out the user's branch, or master where there is none.
CheckedOut(b, m) == IF b = 0 THEN m ELSE b

\* Create, update, destroy, rename, copy: the storage commits on top of what
\* it has checked out, and moves the branch there.
EditOn(u, b, m) ==
  LET parent == CheckedOut(b, m)
  IN /\ AddCommit(parent, "save", Edits(parent) \cup {NextId})
     /\ refs' = [refs EXCEPT ![u] = NextId]
     /\ loose' \in {loose, loose \cup {NextId}}
     /\ UNCHANGED givenUp

\* publish without a conflict.  The branch is deleted after the deploy, and
\* is still there when that is refused.
PublishOn(u, b, m, deployed) ==
  /\ HasChanges(b, m)
  /\ \E edits \in IF Squashed(b, m) THEN {Edits(b)} ELSE MergeResults(b, m) :
       AddCommit(m, "publish", edits)
  /\ refs' = [refs EXCEPT ![Master] = NextId, ![u] = IF deployed THEN 0 ELSE b]
  /\ UNCHANGED <<givenUp, loose>>

\* publish?force: of what others published since the fork only files they
\* added survive, and who forces has given up the rest.  Even then a file of
\* mine that is empty or deleted becomes theirs.
ForcePublishOn(u, b, m, deployed) ==
  /\ HasChanges(b, m)
  /\ ~Squashed(b, m)
  /\ \E kept \in SUBSET (Edits(m) \ Edits(b)), dropped \in SUBSET loose :
       /\ AddCommit(m, "publish", (Edits(b) \ dropped) \cup kept)
       /\ givenUp' = givenUp \cup (Edits(m) \ (Edits(b) \cup kept))
  /\ refs' = [refs EXCEPT ![Master] = NextId, ![u] = IF deployed THEN 0 ELSE b]
  /\ UNCHANGED loose

\* publish with a conflict: the merge, markers and all, goes on the branch.
ConflictOn(u, b, m) ==
  /\ HasChanges(b, m)
  /\ MayConflict(b, m)
  /\ \E edits \in MergeResults(b, m) : AddCommit(b, "resolve", edits)
  /\ refs' = [refs EXCEPT ![u] = NextId]
  /\ UNCHANGED <<givenUp, loose>>

\* reset: the branch is put where master is.
ResetOn(u, m) ==
  /\ refs' = [refs EXCEPT ![u] = m]
  /\ givenUp' = givenUp \cup (Edits(refs[u]) \ Edits(m))
  /\ UNCHANGED <<commits, loose>>

\* rollback: master is put on any commit, a branch head included.
RollbackTo(c) ==
  /\ c \in 1..Len(commits)
  /\ refs' = [refs EXCEPT ![Master] = c]
  /\ givenUp' = givenUp \cup (Edits(refs[Master]) \ Edits(c))
  /\ UNCHANGED <<commits, loose>>

Next ==
  \/ \E u \in User :
       LET b == refs[u]
           m == refs[Master]
       IN \/ EditOn(u, b, m)
          \/ \E deployed \in BOOLEAN : \/ PublishOn(u, b, m, deployed)
                                       \/ ForcePublishOn(u, b, m, deployed)
          \/ ConflictOn(u, b, m)
          \/ ResetOn(u, m)
  \/ \E c \in 1..Len(commits) : RollbackTo(c)

Spec == Init /\ [][Next]_vars

-----------------------------------------------------------------------------
(* What the project promises its users.                                    *)

Messages == {"init", "save", "publish", "resolve"}

\* The store and the references are well formed: master always names a
\* commit, and no version holds an edit from its future.
TypeOK ==
  /\ Len(commits) \in 1..MaxCommits
  /\ \A c \in 1..Len(commits) : /\ commits[c].message \in Messages
                                /\ commits[c].log \subseteq 1..c
                                /\ c \in commits[c].log
                                /\ commits[c].edits \subseteq 1..c
  /\ refs \in [Ref -> 0..Len(commits)]
  /\ refs[Master] # 0
  /\ givenUp \subseteq 1..Len(commits)
  /\ loose \subseteq 1..Len(commits)

Saved == {c \in 1..Len(commits) : commits[c].message = "save"}

\* What master or some branch holds.
Work == UNION {Edits(refs[r]) : r \in Ref}

\* What need not be there any more.
Excused == givenUp \cup loose

\* An edit of keys of json objects that the server has answered for is in
\* master or on a branch, unless somebody chose to discard it by a reset, a
\* rollback or a forced publish: no squash, no merge, whichever its base, no
\* branch deletion and no retry loses it.  Of other edits a merge may drop one
\* side's (PublishKeepsOthersRawFiles, which is refuted).
NoLostEdits == Saved \ Excused \subseteq Work
============================================================================
