--------------------------- MODULE SessionsProofs ---------------------------
(***************************************************************************)
(* No edit is lost, of those that merges go about key by key, for any      *)
(* users and any bound on the history, and overlapping requests act as     *)
(* requests that run one after the other, for any number of sessions.      *)
(*                                                                         *)
(* NoLostEdits is not inductive: that a squash or a merge keeps what is on *)
(* master rests on Grows, that a version holds what its ancestors hold but *)
(* for what was given up or merges may drop, and on the merge base being   *)
(* an ancestor of both sides, which Rooted provides where no publish is.   *)
(*                                                                         *)
(* What a transaction has read is still there when it commits, because     *)
(* whoever changes a reference holds it alone.  With the websocket, which  *)
(* holds nothing, only its own messages lose work.                         *)
(***************************************************************************)
EXTENDS Sessions, WellFoundedInduction, TLAPS

-----------------------------------------------------------------------------
(* The inductive invariant of the project.                                 *)

\* commits is a sequence; of what is TypeOK's business.
Stored == \E S : commits \in Seq(S)

Rooted == \A c \in 1..Len(commits) : 1 \in commits[c].log

Grows == \A d \in 1..Len(commits) : \A c \in commits[d].log :
           commits[c].edits \subseteq commits[d].edits \cup Excused

Inv == TypeOK /\ Stored /\ Rooted /\ Grows

-----------------------------------------------------------------------------
(* The merge base.                                                         *)

\* A bounded set of numbers has a maximum.
LEMMA MaxOfBounded ==
  ASSUME NEW n \in Nat, NEW S \in SUBSET (0..n), S # {}
  PROVE  Max(S) \in S
<1> DEFINE less == OpToRel(<, Nat)
           T == {k \in Nat : n - k \in S}
<1>1. T \subseteq Nat /\ T # {}
  <2>1. PICK x \in S : TRUE
    OBVIOUS
  <2>2. n - x \in Nat /\ n - (n - x) = x
    BY <2>1
  <2>3. QED
    BY <2>1, <2>2
<1>2. IsWellFoundedOn(less, Nat)
  BY NatLessThanWellFounded
<1> HIDE DEF less, T
<1>3. PICK k \in T : \A j \in T : ~ (<<j, k>> \in less)
  BY <1>1, <1>2, WFMin
<1>4. \A j \in T : ~ (j < k)
  BY <1>1, <1>3 DEF less, OpToRel
<1>5. n - k \in S /\ k \in Nat
  BY <1>3 DEF T
<1>6. ASSUME NEW y \in S PROVE n - k >= y
  <2>1. n - y \in T
    BY DEF T
  <2>2. QED
    BY <1>4, <1>5, <2>1
<1>7. QED
  BY <1>5, <1>6 DEF Max

\* publish merges against a common ancestor of the two sides.
LEMMA MergeBaseIsCommon ==
  ASSUME TypeOK, Rooted, NEW b \in 1..Len(commits), NEW m \in 1..Len(commits)
  PROVE  MergeBase(b, m) \in Log(b) /\ MergeBase(b, m) \in Log(m)
<1> DEFINE met == {c \in Log(b) \cap Log(m) : commits[c].message = "publish"}
<1>1. Len(commits) \in Nat /\ Log(b) \subseteq 1..b /\ 1 \in Log(b) /\ 1 \in Log(m)
  BY DEF TypeOK, Rooted, Log
<1>2. CASE met = {}
  <2>1. Min(Log(b)) = 1
    <3>1. \A x \in Log(b) : 1 =< x
      BY <1>1
    <3>2. \A x \in Log(b) : (\A y \in Log(b) : x =< y) => x = 1
      BY <1>1
    <3>3. QED
      BY <1>1, <3>1, <3>2 DEF Min
  <2>2. QED
    BY <1>1, <1>2, <2>1 DEF MergeBase
<1>3. CASE met # {}
  <2>1. met \in SUBSET (0..b) /\ b \in Nat
    BY <1>1
  <2> HIDE DEF met
  <2>2. Max(met) \in met
    BY <1>3, <2>1, MaxOfBounded
  <2>3. MergeBase(b, m) = Max(met)
    BY <1>3 DEF MergeBase, met
  <2>4. QED
    BY <2>2, <2>3 DEF met
<1>4. QED
  BY <1>2, <1>3

\* What a merge or a squash of b and m holds, and what it cannot lose.
LEMMA PublishKeepsBoth ==
  ASSUME Inv, NEW b \in 1..Len(commits), NEW m \in 1..Len(commits)
  PROVE  /\ Edits(b) \subseteq 1..Len(commits) /\ Edits(m) \subseteq 1..Len(commits)
         /\ \A edits \in MergeResults(b, m) :
              /\ edits \subseteq 1..Len(commits)
              /\ Edits(b) \subseteq edits \cup Excused
              /\ Edits(m) \subseteq edits \cup Excused
         /\ Squashed(b, m) => Edits(m) \subseteq Edits(b) \cup Excused
<1> DEFINE base == MergeBase(b, m)
<1>0. Len(commits) \in Nat /\ \A c \in 1..Len(commits) :
                                 Edits(c) = commits[c].edits /\ Log(c) \subseteq 1..c
                                 /\ Edits(c) \subseteq 1..c
  BY DEF Inv, TypeOK, Edits, Log
<1>1. base \in Log(b) /\ base \in Log(m)
  BY MergeBaseIsCommon DEF Inv
<1>2. base \in 1..Len(commits)
  BY <1>0, <1>1
<1>3. Edits(base) \subseteq Edits(b) \cup Excused /\ Edits(base) \subseteq Edits(m) \cup Excused
  BY <1>0, <1>1, <1>2 DEF Inv, Grows, Log
<1>4. Squashed(b, m) => Edits(m) \subseteq Edits(b) \cup Excused
  BY <1>0 DEF Inv, Grows, Log, Squashed
<1>5. Edits(b) \subseteq 1..Len(commits) /\ Edits(m) \subseteq 1..Len(commits)
  BY <1>0
<1> HIDE DEF base
<1>6. MergedEdits(b, m) =
        (Edits(b) \cap Edits(m)) \cup (Edits(b) \ Edits(base)) \cup (Edits(m) \ Edits(base))
  BY DEF MergedEdits, base
<1>7. ASSUME NEW edits \in MergeResults(b, m)
      PROVE  /\ edits \subseteq 1..Len(commits)
             /\ Edits(b) \subseteq edits \cup Excused
             /\ Edits(m) \subseteq edits \cup Excused
  <2>1. PICK dropped \in SUBSET loose : edits = MergedEdits(b, m) \ dropped
    BY DEF MergeResults
  <2>2. dropped \subseteq Excused
    BY DEF Excused
  <2>3. QED
    BY <1>3, <1>5, <1>6, <2>1, <2>2
<1>8. QED
  BY <1>4, <1>5, <1>7

-----------------------------------------------------------------------------
(* The steps.                                                              *)

\* Storing a commit leaves the others as they are.
LEMMA AddCommitEffect ==
  ASSUME Stored, NEW parent, NEW message, NEW edits,
         AddCommit(parent, message, edits)
  PROVE  /\ Stored'
         /\ NextId = Len(commits) + 1
         /\ Len(commits) \in Nat
         /\ Len(commits) < MaxCommits
         /\ Len(commits') = NextId
         /\ \A c \in 1..Len(commits) : commits'[c] = commits[c]
         /\ commits'[NextId].message = message
         /\ commits'[NextId].edits = edits
         /\ commits'[NextId].log = commits[parent].log \cup {NextId}
<1> DEFINE new == [message |-> message, edits |-> edits,
                   log |-> commits[parent].log \cup {NextId}]
<1>1. PICK S : commits \in Seq(S)
  BY DEF Stored
<1> DEFINE T == S \cup {new}
<1>2. commits \in Seq(T) /\ new \in T
  BY <1>1
<1>3. commits' = Append(commits, new) /\ Len(commits) < MaxCommits
  BY DEF AddCommit, Log
<1> HIDE DEF new, T
<1>4. commits' \in Seq(T) /\ Len(commits') = Len(commits) + 1
      /\ Len(commits) \in Nat
      /\ \A c \in 1..Len(commits) : commits'[c] = commits[c]
      /\ commits'[Len(commits) + 1] = new
  BY <1>2, <1>3
<1>5. QED
  BY <1>3, <1>4 DEF new, NextId, Stored

\* A commit that holds what its parent holds keeps the store well formed.
LEMMA AddCommitKeeps ==
  ASSUME Inv, NEW parent \in 1..Len(commits), NEW message \in Messages, NEW edits,
         AddCommit(parent, message, edits),
         edits \subseteq 1..NextId,
         Excused \subseteq Excused',
         Edits(parent) \subseteq edits \cup Excused'
  PROVE  /\ Stored' /\ Rooted' /\ Grows'
         /\ Len(commits) \in Nat /\ NextId = Len(commits) + 1
         /\ Len(commits') = NextId
         /\ Len(commits') \in 1..MaxCommits
         /\ \A c \in 1..Len(commits) : commits'[c] = commits[c]
         /\ commits'[NextId].message = message /\ commits'[NextId].edits = edits
         /\ \A c \in 1..Len(commits') : /\ commits'[c].message \in Messages
                                        /\ commits'[c].log \subseteq 1..c
                                        /\ c \in commits'[c].log
                                        /\ commits'[c].edits \subseteq 1..c
<1>1. /\ Stored' /\ NextId = Len(commits) + 1 /\ Len(commits) \in Nat
      /\ Len(commits) < MaxCommits /\ Len(commits') = NextId
      /\ \A c \in 1..Len(commits) : commits'[c] = commits[c]
      /\ commits'[NextId].message = message
      /\ commits'[NextId].edits = edits
      /\ commits'[NextId].log = commits[parent].log \cup {NextId}
  BY AddCommitEffect DEF Inv
<1>2. /\ 1 \in commits[parent].log /\ commits[parent].log \subseteq 1..parent
      /\ \A c \in 1..Len(commits) : commits[c].log \subseteq 1..c /\ 1 \in commits[c].log
      /\ Edits(parent) = commits[parent].edits
  BY <1>1 DEF Inv, Rooted, TypeOK, Edits
<1>3. Rooted'
  BY <1>1, <1>2 DEF Rooted
<1>4. Grows'
  <2>1. ASSUME NEW d \in 1..Len(commits), NEW c \in commits[d].log
        PROVE  commits'[c].edits \subseteq commits'[d].edits \cup Excused'
    <3>1. c \in 1..Len(commits)
      BY <1>1, <1>2
    <3>2. QED
      BY <1>1, <3>1 DEF Inv, Grows
  <2>2. ASSUME NEW c \in commits[parent].log
        PROVE  commits'[c].edits \subseteq edits \cup Excused'
    <3>1. c \in 1..Len(commits)
      BY <1>1, <1>2
    <3>2. commits[c].edits \subseteq commits[parent].edits \cup Excused
      BY DEF Inv, Grows
    <3>3. QED
      BY <1>1, <1>2, <3>1, <3>2
  <2>3. ASSUME NEW d \in 1..Len(commits'), NEW c \in commits'[d].log
        PROVE  commits'[c].edits \subseteq commits'[d].edits \cup Excused'
    <3>1. CASE d \in 1..Len(commits)
      BY <1>1, <2>1, <3>1
    <3>2. CASE d = NextId
      BY <1>1, <2>2, <3>2
    <3>3. QED
      BY <1>1, <3>1, <3>2
  <2>4. QED
    BY <2>3 DEF Grows
<1>5. Len(commits') \in 1..MaxCommits
  BY <1>1, BoundAssumption
<1>6. ASSUME NEW c \in 1..Len(commits')
      PROVE  /\ commits'[c].message \in Messages
             /\ commits'[c].log \subseteq 1..c
             /\ c \in commits'[c].log
             /\ commits'[c].edits \subseteq 1..c
  <2>1. CASE c \in 1..Len(commits)
    BY <1>1, <2>1 DEF Inv, TypeOK
  <2>2. CASE c = NextId
    <3>1. commits[parent].log \subseteq 1..NextId
      BY <1>1, <1>2
    <3>2. QED
      BY <1>1, <2>2, <3>1
  <2>3. QED
    BY <1>1, <2>1, <2>2
<1>7. QED
  BY <1>1, <1>3, <1>4, <1>5, <1>6

\* A step keeps what somebody holds, but for what is given up in it, and holds
\* the edit it saves.
KeepsWork == /\ Excused \subseteq Excused'
             /\ Work \ Excused' \subseteq Work'
             /\ Saved' \subseteq Saved \cup Work'

LEMMA NoneLost == NoLostEdits /\ KeepsWork => NoLostEdits'
BY DEF NoLostEdits, KeepsWork

\* A commit with the work of its parent that one reference moves to, while
\* others may be dropped that the commit makes up for, loses no edit.
LEMMA CommitLosesNothing ==
  ASSUME Inv, NEW parent \in 1..Len(commits),
         NEW message \in Messages, NEW edits, AddCommit(parent, message, edits),
         edits \subseteq 1..NextId,
         Excused \subseteq Excused', Excused' \subseteq 1..NextId,
         Edits(parent) \subseteq edits \cup Excused',
         message = "save" => NextId \in edits,
         refs' \in [Ref -> 0..NextId], refs'[Master] # 0,
         NEW head \in Ref, refs'[head] = NextId,
         \A r \in Ref : \/ refs'[r] = refs[r]
                        \/ Edits(refs[r]) \subseteq edits \cup Excused'
  PROVE  Inv' /\ KeepsWork
<1>1. /\ Stored' /\ Rooted' /\ Grows'
      /\ Len(commits) \in Nat /\ NextId = Len(commits) + 1
      /\ Len(commits') = NextId /\ Len(commits') \in 1..MaxCommits
      /\ \A c \in 1..Len(commits) : commits'[c] = commits[c]
      /\ commits'[NextId].message = message /\ commits'[NextId].edits = edits
      /\ \A c \in 1..Len(commits') : /\ commits'[c].message \in Messages
                                     /\ commits'[c].log \subseteq 1..c
                                     /\ c \in commits'[c].log
                                     /\ commits'[c].edits \subseteq 1..c
  BY AddCommitKeeps
<1>2. TypeOK'
  BY <1>1 DEF TypeOK, Excused
<1>3. edits \subseteq Work'
  <2>1. Edits(refs[head])' = edits
    BY <1>1 DEF Edits
  <2>2. QED
    BY <2>1 DEF Work
<1>4. ASSUME NEW r \in Ref, NEW e \in Edits(refs[r])
      PROVE  e \in Excused' \cup Work'
  <2>1. CASE refs'[r] = refs[r]
    <3>1. refs[r] \in 0..Len(commits)
      BY DEF Inv, TypeOK
    <3>2. Edits(refs[r])' = Edits(refs[r])
      BY <1>1, <2>1, <3>1 DEF Edits
    <3>3. QED
      BY <1>4, <3>2 DEF Work
  <2>2. CASE Edits(refs[r]) \subseteq edits \cup Excused'
    BY <1>3, <1>4, <2>2
  <2>3. QED
    BY <2>1, <2>2
<1>5. ASSUME NEW e \in Saved'
      PROVE  e \in Saved \/ e \in Work'
  <2>1. CASE e = NextId
    BY <1>1, <1>3, <1>5, <2>1 DEF Saved
  <2>2. CASE e # NextId
    BY <1>1, <1>5, <2>2 DEF Saved
  <2>3. QED
    BY <2>1, <2>2
<1>6. Work \subseteq Excused' \cup Work'
  BY <1>4 DEF Work
<1>7. KeepsWork
  BY <1>5, <1>6 DEF KeepsWork
<1>8. QED
  BY <1>1, <1>2, <1>7 DEF Inv

\* Moving a reference loses nothing but what is then given up.
LEMMA MoveLosesNothing ==
  ASSUME Inv, UNCHANGED <<commits, loose>>,
         NEW head \in Ref, NEW to \in 1..Len(commits),
         refs' = [refs EXCEPT ![head] = to],
         givenUp' = givenUp \cup (Edits(refs[head]) \ Edits(to))
  PROVE  Inv' /\ KeepsWork
<1>0. Len(commits) \in Nat /\ refs \in [Ref -> 0..Len(commits)] /\ refs[Master] # 0
      /\ Master \in Ref /\ refs' \in [Ref -> 0..Len(commits)]
      /\ refs'[head] = to /\ \A r \in Ref : r # head => refs'[r] = refs[r]
  BY DEF Inv, TypeOK, Ref
<1>1. \A c \in 0..Len(commits) : Edits(c) \subseteq 1..Len(commits)
  BY <1>0 DEF Inv, TypeOK, Edits
<1>2. Excused \subseteq Excused' /\ givenUp' \subseteq 1..Len(commits)
  BY <1>0, <1>1 DEF Inv, TypeOK, Excused
<1>3. TypeOK'
  BY <1>0, <1>2 DEF Inv, TypeOK
<1>4. Stored' /\ Rooted' /\ Grows'
  BY <1>2 DEF Inv, Stored, Rooted, Grows
<1>6. ASSUME NEW r \in Ref, NEW e \in Edits(refs[r])
      PROVE  e \in Excused' \cup Work'
  <2>0. e \in Edits(to) \/ e \in Excused' \/ r # head
    BY <1>6 DEF Excused
  <2>1. CASE r # head
    <3>1. Edits(refs[r])' = Edits(refs[r])
      BY <1>0, <2>1 DEF Edits
    <3>2. QED
      BY <1>6, <3>1 DEF Work
  <2>2. CASE r = head
    <3>1. Edits(refs[head])' = Edits(to)
      BY <1>0 DEF Edits
    <3>2. QED
      BY <2>0, <2>2, <3>1 DEF Work
  <2>3. QED
    BY <2>1, <2>2
<1>7. Saved' = Saved
  BY DEF Saved
<1>8. KeepsWork
  <2>1. Work \subseteq Excused' \cup Work'
    BY <1>6 DEF Work
  <2>2. QED
    BY <1>2, <1>7, <2>1 DEF KeepsWork
<1>9. QED
  BY <1>3, <1>4, <1>8 DEF Inv

-----------------------------------------------------------------------------
(* The theorems.                                                           *)

LEMMA StartsRight == Init => Inv /\ NoLostEdits
<1> SUFFICES ASSUME Init PROVE Inv /\ NoLostEdits
  OBVIOUS
<1>1. /\ commits \in Seq({commits[1]}) /\ Len(commits) = 1
      /\ commits[1] = [message |-> "init", edits |-> {}, log |-> {1}]
  BY DEF Init
<1>2. TypeOK
  BY <1>1, BoundAssumption, MasterAssumption DEF Init, TypeOK, Messages, Ref
<1>3. Stored /\ Rooted /\ Grows
  BY <1>1 DEF Stored, Rooted, Grows
<1>4. Saved = {}
  BY <1>1 DEF Saved
<1>5. QED
  BY <1>2, <1>3, <1>4 DEF Inv, NoLostEdits

\* What a request does to the store and to the work in it.
LEMMA StepKeeps ==
  ASSUME Inv, [Next]_vars
  PROVE  Inv' /\ KeepsWork
<1>0. /\ Len(commits) \in Nat /\ NextId = Len(commits) + 1
      /\ refs \in [Ref -> 0..Len(commits)] /\ refs[Master] \in 1..Len(commits)
      /\ Master \in Ref /\ User \subseteq Ref /\ Master \notin User
      /\ Excused \subseteq 1..Len(commits)
      /\ \A c \in 1..Len(commits) : Edits(c) \subseteq 1..Len(commits)
      /\ Edits(0) = {}
  BY MasterAssumption DEF Inv, TypeOK, NextId, Ref, Edits, Excused
<1>1. ASSUME NEW u \in User, EditOn(u, refs[u], refs[Master])
      PROVE  Inv' /\ KeepsWork
  <2> DEFINE parent == IF refs[u] = 0 THEN refs[Master] ELSE refs[u]
             edits == Edits(parent) \cup {NextId}
  <2>1. /\ AddCommit(parent, "save", edits)
        /\ refs' = [refs EXCEPT ![u] = NextId]
        /\ Excused \subseteq Excused' /\ Excused' \subseteq 1..NextId
    BY <1>0, <1>1 DEF EditOn, CheckedOut, Excused
  <2>2. parent \in 1..Len(commits) /\ Edits(refs[u]) \subseteq edits
    BY <1>0
  <2>3. edits \subseteq 1..NextId /\ NextId \in edits /\ Edits(parent) \subseteq edits
    BY <1>0, <2>2
  <2>4. refs' \in [Ref -> 0..NextId] /\ refs'[Master] # 0 /\ refs'[u] = NextId
        /\ \A r \in Ref : r # u => refs'[r] = refs[r]
    BY <1>0, <2>1
  <2> HIDE DEF parent, edits
  <2>5. QED
    BY <1>0, <2>1, <2>2, <2>3, <2>4, CommitLosesNothing DEF Messages
<1>2. ASSUME NEW u \in User, NEW deployed \in BOOLEAN,
             PublishOn(u, refs[u], refs[Master], deployed)
      PROVE  Inv' /\ KeepsWork
  <2> DEFINE b == refs[u]
             m == refs[Master]
  <2>0. PICK edits \in IF Squashed(b, m) THEN {Edits(b)} ELSE MergeResults(b, m) :
          AddCommit(m, "publish", edits)
    BY <1>2 DEF PublishOn
  <2>1. /\ AddCommit(m, "publish", edits) /\ Excused' = Excused
        /\ refs' = [refs EXCEPT ![Master] = NextId, ![u] = IF deployed THEN 0 ELSE b]
        /\ b \in 1..Len(commits) /\ m \in 1..Len(commits)
    BY <1>0, <1>2, <2>0 DEF PublishOn, HasChanges, Excused
  <2>2. /\ edits \subseteq 1..Len(commits)
        /\ Edits(b) \subseteq edits \cup Excused /\ Edits(m) \subseteq edits \cup Excused
    BY <2>0, <2>1, PublishKeepsBoth
  <2>3. refs' \in [Ref -> 0..NextId] /\ refs'[Master] = NextId /\ NextId # 0
        /\ \A r \in Ref : r \notin {u, Master} => refs'[r] = refs[r]
    BY <1>0, <2>1
  <2> HIDE DEF b, m
  <2>4. \A r \in Ref : refs'[r] = refs[r] \/ Edits(refs[r]) \subseteq edits \cup Excused'
    BY <2>1, <2>2, <2>3 DEF b, m
  <2>5. /\ edits \subseteq 1..NextId /\ Edits(m) \subseteq edits \cup Excused'
        /\ Excused \subseteq Excused' /\ Excused' \subseteq 1..NextId
    BY <1>0, <2>1, <2>2
  <2>6. QED
    BY <1>0, <2>1, <2>2, <2>3, <2>4, <2>5, CommitLosesNothing DEF Messages
<1>3. ASSUME NEW u \in User, NEW deployed \in BOOLEAN,
             ForcePublishOn(u, refs[u], refs[Master], deployed)
      PROVE  Inv' /\ KeepsWork
  <2> DEFINE b == refs[u]
             m == refs[Master]
  <2>1. PICK kept \in SUBSET (Edits(m) \ Edits(b)), dropped \in SUBSET loose :
           /\ AddCommit(m, "publish", (Edits(b) \ dropped) \cup kept)
           /\ givenUp' = givenUp \cup (Edits(m) \ (Edits(b) \cup kept))
    BY <1>3 DEF ForcePublishOn
  <2>2. /\ refs' = [refs EXCEPT ![Master] = NextId, ![u] = IF deployed THEN 0 ELSE b]
        /\ b \in 1..Len(commits) /\ m \in 1..Len(commits)
        /\ loose' = loose
    BY <1>0, <1>3 DEF ForcePublishOn, HasChanges
  <2> DEFINE edits == (Edits(b) \ dropped) \cup kept
  <2>3. /\ edits \subseteq 1..Len(commits)
        /\ Edits(b) \subseteq edits \cup Excused' /\ Edits(m) \subseteq edits \cup Excused'
        /\ Excused \subseteq Excused' /\ Excused' \subseteq 1..NextId
    BY <1>0, <2>1, <2>2 DEF Excused
  <2>4. refs' \in [Ref -> 0..NextId] /\ refs'[Master] = NextId /\ NextId # 0
        /\ \A r \in Ref : r \notin {u, Master} => refs'[r] = refs[r]
    BY <1>0, <2>2
  <2>5. AddCommit(m, "publish", edits)
    BY <2>1
  <2> HIDE DEF b, m, edits
  <2>6. \A r \in Ref : refs'[r] = refs[r] \/ Edits(refs[r]) \subseteq edits \cup Excused'
    BY <2>3, <2>4 DEF b, m
  <2>7. edits \subseteq 1..NextId
    BY <1>0, <2>3
  <2>8. QED
    BY <1>0, <2>2, <2>3, <2>4, <2>5, <2>6, <2>7, CommitLosesNothing DEF Messages
<1>4. ASSUME NEW u \in User, ConflictOn(u, refs[u], refs[Master])
      PROVE  Inv' /\ KeepsWork
  <2> DEFINE b == refs[u]
             m == refs[Master]
  <2>0. PICK edits \in MergeResults(b, m) : AddCommit(b, "resolve", edits)
    BY <1>4 DEF ConflictOn
  <2>1. /\ AddCommit(b, "resolve", edits) /\ Excused' = Excused
        /\ refs' = [refs EXCEPT ![u] = NextId]
        /\ b \in 1..Len(commits) /\ m \in 1..Len(commits)
    BY <1>0, <1>4, <2>0 DEF ConflictOn, HasChanges, Excused
  <2>2. edits \subseteq 1..Len(commits) /\ Edits(b) \subseteq edits \cup Excused
    BY <2>1, PublishKeepsBoth
  <2>3. refs' \in [Ref -> 0..NextId] /\ refs'[Master] # 0 /\ refs'[u] = NextId
        /\ \A r \in Ref : r # u => refs'[r] = refs[r]
    BY <1>0, <2>1
  <2> HIDE DEF b, m
  <2>4. \A r \in Ref : refs'[r] = refs[r] \/ Edits(refs[r]) \subseteq edits \cup Excused'
    BY <2>1, <2>2, <2>3 DEF b
  <2>5. /\ edits \subseteq 1..NextId /\ Edits(b) \subseteq edits \cup Excused'
        /\ Excused \subseteq Excused' /\ Excused' \subseteq 1..NextId
    BY <1>0, <2>1, <2>2
  <2>6. QED
    BY <1>0, <2>1, <2>2, <2>3, <2>4, <2>5, CommitLosesNothing DEF Messages
<1>5. ASSUME NEW u \in User, ResetOn(u, refs[Master])
      PROVE  Inv' /\ KeepsWork
  BY <1>0, <1>5, MoveLosesNothing DEF ResetOn
<1>6. ASSUME NEW c \in 1..Len(commits), RollbackTo(c)
      PROVE  Inv' /\ KeepsWork
  BY <1>0, <1>6, MoveLosesNothing DEF RollbackTo
<1>7. CASE UNCHANGED vars
  BY <1>7 DEF vars, Inv, TypeOK, Stored, Rooted, Grows, KeepsWork, Saved, Work, Edits,
                  Excused
<1>8. QED
  BY <1>1, <1>2, <1>3, <1>4, <1>5, <1>6, <1>7 DEF Next

LEMMA AlwaysRight == Spec => [](Inv /\ NoLostEdits)
<1>1. (Inv /\ NoLostEdits) /\ [Next]_vars => (Inv /\ NoLostEdits)'
  BY StepKeeps, NoneLost
<1>2. QED
  BY StartsRight, <1>1, PTL DEF Spec

\* The store and the references stay well formed, master always names a commit
\* and no version holds an edit from its future: reset and rollback, which
\* point a reference anywhere, included.
THEOREM ProjectTypeCorrect == Spec => []TypeOK
<1>1. Inv => TypeOK
  BY DEF Inv
<1>2. QED
  BY AlwaysRight, <1>1, PTL

\* An edit of keys of json objects that the server has answered for is in
\* master or on a branch unless somebody chose to discard it: publish_branch,
\* whichever of squash, merge and conflict it takes, and whatever its merges
\* drop of other edits (loose), and the deletion of the published branch lose
\* none.
THEOREM EditsAreKept == Spec => []NoLostEdits
<1>1. Inv /\ NoLostEdits => NoLostEdits
  OBVIOUS
<1>2. QED
  BY AlwaysRight, <1>1, PTL

-----------------------------------------------------------------------------
(* The inductive invariant of the sessions.                                *)

SessionTypes ==
  /\ pc \in [Session -> {"idle", "read", "write"}]
  /\ kind \in [Session -> {"edit", "publish", "reset", "rollback"}]
  /\ from \in [Session -> User \cup {0}]
  /\ seen = [s \in Session |-> seen[s]]
  /\ \A s \in Session :
       /\ Touched(s) \subseteq Ref
       /\ \A r \in Touched(s) : seen[s][r] \in 0..Len(commits)
       /\ Master \in Touched(s) => seen[s][Master] # 0
       /\ pc[s] = "idle" => Touched(s) = {}
       /\ s \in Ferry => kind[s] = "edit" /\ pc[s] # "write"

\* What a transaction has read is still there.
ReadsAreCurrent ==
  \A s \in Session \ Ferry : \A r \in Touched(s) : seen[s][r] = refs[r]

\* A writer knows what it needs to.
WritersAreReady ==
  \A s \in Session : pc[s] = "write" => NextRead(s) = None /\ CanWrite(s)

\* A row is locked by one session; a gap by many, none of which has inserted.
LocksExclude ==
  \A s, t \in Session : \A r \in Ref :
    s # t /\ Holds(s, r) /\ Holds(t, r) => refs[r] = 0 /\ ~Wrote(s, r)

SessionInv == SessionTypes /\ ReadsAreCurrent /\ WritersAreReady /\ LocksExclude

-----------------------------------------------------------------------------
(* What a session has read when it has read all it needs.                  *)

\* It reads each reference once.
LEMMA NextReadIsNew ==
  ASSUME SessionTypes, NEW s \in Session, NextRead(s) # None
  PROVE  NextRead(s) \in Ref /\ NextRead(s) \notin Touched(s)
<1>1. Owner[s] \in User /\ from[s] \in User \cup {0}
  BY OwnerAssumption DEF SessionTypes
<1>2. \/ NextRead(s) = Owner[s] /\ Owner[s] \notin Touched(s)
      \/ NextRead(s) = Master /\ Master \notin Touched(s)
      \/ NextRead(s) = from[s] /\ from[s] \notin Touched(s) \cup {0}
  BY DEF NextRead
<1>3. QED
  BY <1>1, <1>2 DEF Ref

LEMMA AllRead ==
  ASSUME SessionTypes, NEW s \in Session, NextRead(s) = None
  PROVE  /\ Owner[s] \in Touched(s)
         /\ seen[s][Owner[s]] = 0 \/ kind[s] \in {"publish", "reset"}
              => Master \in Touched(s)
         /\ from[s] # 0 => from[s] \in Touched(s)
<1>1. Owner[s] \in User /\ from[s] \in User \cup {0}
  BY OwnerAssumption DEF SessionTypes
<1>2. Owner[s] # None /\ Master # None /\ (from[s] # 0 => from[s] # None)
  BY <1>1, NoneAssumption DEF Ref
<1>3. QED
  BY <1>2 DEF NextRead

-----------------------------------------------------------------------------
(* The steps that change no reference.                                     *)

LEMMA StartKeeps ==
  ASSUME SessionInv, NEW s \in Session, Start(s)
  PROVE  SessionInv' /\ UNCHANGED vars
<1>1. /\ pc' = [pc EXCEPT ![s] = "read"] /\ pc[s] = "idle"
      /\ UNCHANGED <<commits, refs, seen>>
      /\ \E k \in {"edit", "publish", "reset", "rollback"} :
           kind' = [kind EXCEPT ![s] = k] /\ (s \in Ferry => k = "edit")
      /\ \E u \in User \cup {0} : from' = [from EXCEPT ![s] = u]
  BY KindsAssumption DEF Start, vars
<1>2. Touched(s) = {}
  BY <1>1 DEF SessionInv, SessionTypes
<1>3. SessionTypes'
  BY <1>1, <1>2 DEF SessionInv, SessionTypes, Touched
<1>4. ReadsAreCurrent'
  BY <1>1 DEF SessionInv, ReadsAreCurrent, Touched
<1>5. \A t \in Session : t # s => pc'[t] = pc[t] /\ kind'[t] = kind[t] /\ from'[t] = from[t]
  BY <1>1 DEF SessionInv, SessionTypes
<1>6. pc'[s] = "read"
  BY <1>1 DEF SessionInv, SessionTypes
<1>7. WritersAreReady'
  <2>1. ASSUME NEW t \in Session, pc'[t] = "write"
        PROVE  (NextRead(t) = None)' /\ CanWrite(t)'
    <3>1. t # s
      BY <1>6, <2>1
    <3>2. NextRead(t) = None /\ CanWrite(t)
      BY <1>5, <2>1, <3>1 DEF SessionInv, WritersAreReady
    <3>3. NextRead(t)' = NextRead(t) /\ CanWrite(t)' = CanWrite(t)
      BY <1>1, <1>5, <3>1 DEF NextRead, CanWrite, Touched, HasChanges
    <3>4. QED
      BY <3>2, <3>3 DEF None
  <2>2. QED
    BY <2>1 DEF WritersAreReady
<1>8. LocksExclude'
  <2>1. \A t \in Session, r \in Ref : (Holds(t, r)' => Holds(t, r)) /\ (Wrote(t, r)' => Wrote(t, r))
    BY <1>1, <1>5, <1>6 DEF Holds, Wrote, WriteRef, Touched
  <2>2. \A t \in Session, r \in Ref : t # s => (Wrote(t, r)' <=> Wrote(t, r))
    BY <1>5 DEF Wrote, WriteRef
  <2>3. QED
    BY <1>1, <2>1, <2>2 DEF SessionInv, LocksExclude
<1>9. QED
  BY <1>1, <1>3, <1>4, <1>7, <1>8 DEF SessionInv, Start

LEMMA ReadKeeps ==
  ASSUME SessionInv, TypeOK, NEW s \in Session, Read(s)
  PROVE  SessionInv' /\ UNCHANGED vars
<1> DEFINE r == NextRead(s)
           read == [x \in Touched(s) \cup {r} |-> IF x = r THEN refs[r] ELSE seen[s][x]]
<1>1. /\ pc[s] = "read" /\ r # None /\ Blockers(s) = {}
      /\ seen' = [seen EXCEPT ![s] = read]
      /\ UNCHANGED <<commits, refs, pc, kind, from>>
  BY DEF Read, vars
<1>2. r \in Ref /\ r \notin Touched(s)
  BY <1>1, NextReadIsNew DEF SessionInv
<1>3. s \notin Ferry => ReadersBlock(s, r) = {}
  BY <1>1 DEF Blockers
<1> HIDE DEF r
<1>4. /\ seen'[s] = read /\ DOMAIN read = Touched(s) \cup {r} /\ read[r] = refs[r]
      /\ \A x \in Touched(s) : read[x] = seen[s][x]
      /\ \A t \in Session : t # s => seen'[t] = seen[t]
  BY <1>1, <1>2 DEF SessionInv, SessionTypes
<1> HIDE DEF read
<1>5. SessionTypes'
  <2>1. seen' = [t \in Session |-> seen'[t]]
    BY <1>1 DEF SessionInv, SessionTypes
  <2>2. refs[r] \in 0..Len(commits) /\ refs[Master] # 0
    BY <1>2 DEF TypeOK
  <2>3. ASSUME NEW t \in Session
        PROVE  /\ Touched(t)' \subseteq Ref
               /\ \A x \in Touched(t)' : seen'[t][x] \in 0..Len(commits')
               /\ Master \in Touched(t)' => seen'[t][Master] # 0
               /\ pc'[t] = "idle" => Touched(t)' = {}
               /\ t \in Ferry => kind'[t] = "edit" /\ pc'[t] # "write"
    <3>1. CASE t = s
      BY <1>1, <1>2, <1>4, <2>2, <3>1 DEF SessionInv, SessionTypes, Touched
    <3>2. CASE t # s
      BY <1>1, <1>4, <3>2 DEF SessionInv, SessionTypes, Touched
    <3>3. QED
      BY <3>1, <3>2
  <2>4. QED
    BY <1>1, <2>1, <2>3 DEF SessionInv, SessionTypes
<1>6. ReadsAreCurrent'
  <2>1. ASSUME NEW t \in Session \ Ferry, NEW x \in Touched(t)'
        PROVE  seen'[t][x] = refs'[x]
    <3>1. CASE t = s
      BY <1>1, <1>2, <1>4, <2>1, <3>1 DEF SessionInv, ReadsAreCurrent, Touched
    <3>2. CASE t # s
      BY <1>1, <1>4, <2>1, <3>2 DEF SessionInv, ReadsAreCurrent, Touched
    <3>3. QED
      BY <3>1, <3>2
  <2>2. QED
    BY <2>1 DEF ReadsAreCurrent
<1>7. WritersAreReady'
  <2>1. ASSUME NEW t \in Session, pc'[t] = "write"
        PROVE  (NextRead(t) = None)' /\ CanWrite(t)'
    <3>1. t # s
      BY <1>1, <2>1
    <3>2. NextRead(t) = None /\ CanWrite(t)
      BY <1>1, <2>1, <3>1 DEF SessionInv, WritersAreReady
    <3>3. NextRead(t)' = NextRead(t) /\ CanWrite(t)' = CanWrite(t)
      BY <1>1, <1>4, <3>1 DEF NextRead, CanWrite, Touched, HasChanges
    <3>4. QED
      BY <3>2, <3>3 DEF None
  <2>2. QED
    BY <2>1 DEF WritersAreReady
<1>8. LocksExclude'
  <2>1. \A t \in Session, x \in Ref : Wrote(t, x)' <=> Wrote(t, x)
    BY <1>1 DEF Wrote, WriteRef
  <2>2. \A t \in Session, x \in Ref : t # s \/ x # r => (Holds(t, x)' => Holds(t, x))
    BY <1>1, <1>4, <2>1 DEF Holds, Touched
  <2>3. \A t \in Session : ~Wrote(s, t)
    BY <1>1 DEF Wrote
  <2>4. \A t \in Session : t # s /\ s \notin Ferry /\ Holds(t, r) => refs[r] = 0 /\ ~Wrote(t, r)
    BY <1>3 DEF ReadersBlock
  <2>5. ~Wrote(s, r)
    BY <1>1 DEF Wrote
  <2>6. ASSUME NEW t \in Session, NEW v \in Session, NEW x \in Ref, t # v,
               Holds(t, x)', Holds(v, x)'
        PROVE  refs'[x] = 0 /\ ~Wrote(t, x)'
    <3>1. CASE x # r \/ (t # s /\ v # s)
      BY <1>1, <2>1, <2>2, <2>6, <3>1 DEF SessionInv, LocksExclude
    <3>2. CASE x = r /\ t = s
      <4>1. s \notin Ferry /\ Holds(v, r)
        BY <2>2, <2>6, <3>2 DEF Holds
      <4>2. QED
        BY <1>1, <2>1, <2>4, <2>5, <2>6, <3>2, <4>1
    <3>3. CASE x = r /\ v = s
      <4>1. s \notin Ferry /\ Holds(t, r)
        BY <2>2, <2>6, <3>3 DEF Holds
      <4>2. QED
        BY <1>1, <2>1, <2>4, <2>6, <3>3, <4>1
    <3>4. QED
      BY <3>1, <3>2, <3>3
  <2>7. QED
    BY <2>6 DEF LocksExclude
<1>9. QED
  BY <1>1, <1>5, <1>6, <1>7, <1>8 DEF SessionInv, Read

LEMMA WriteKeeps ==
  ASSUME SessionInv, NEW s \in Session, Write(s)
  PROVE  SessionInv' /\ UNCHANGED vars
<1>1. /\ pc[s] = "read" /\ s \notin Ferry /\ NextRead(s) = None /\ CanWrite(s)
      /\ Blockers(s) = {} /\ pc' = [pc EXCEPT ![s] = "write"]
      /\ UNCHANGED <<commits, refs, kind, from, seen>>
  BY DEF Write, vars
<1>2. WritersBlock(s, WriteRef(s)) = {}
  BY <1>1 DEF Blockers
<1>3. SessionTypes' /\ ReadsAreCurrent'
  BY <1>1 DEF SessionInv, SessionTypes, ReadsAreCurrent, Touched
<1>4. \A t \in Session : NextRead(t)' = NextRead(t) /\ CanWrite(t)' = CanWrite(t)
  BY <1>1 DEF NextRead, CanWrite, Touched, HasChanges
<1>5. \A t \in Session : t # s => pc'[t] = pc[t]
  BY <1>1 DEF SessionInv, SessionTypes
<1>6. WritersAreReady'
  <2>1. ASSUME NEW t \in Session, pc'[t] = "write"
        PROVE  NextRead(t) = None /\ CanWrite(t)
    BY <1>1, <1>5, <2>1 DEF SessionInv, WritersAreReady
  <2>2. QED
    BY <1>4, <2>1 DEF WritersAreReady, None
<1>7. LocksExclude'
  <2>1. \A t \in Session, r \in Ref :
          t # s \/ r # WriteRef(s)
            => (Wrote(t, r)' => Wrote(t, r)) /\ (Holds(t, r)' => Holds(t, r))
    BY <1>1, <1>5 DEF Wrote, WriteRef, Holds, Touched
  <2>2. \A t \in Session : t # s => ~Holds(t, WriteRef(s))
    BY <1>2 DEF WritersBlock
  <2>3. ASSUME NEW t \in Session, NEW v \in Session, NEW r \in Ref, t # v,
               Holds(t, r)', Holds(v, r)'
        PROVE  refs'[r] = 0 /\ ~Wrote(t, r)'
    <3>1. r # WriteRef(s)
      BY <2>1, <2>2, <2>3
    <3>2. QED
      BY <1>1, <2>1, <2>3, <3>1 DEF SessionInv, LocksExclude
  <2>4. QED
    BY <2>3 DEF LocksExclude
<1>8. QED
  BY <1>1, <1>3, <1>6, <1>7 DEF SessionInv, Write

-----------------------------------------------------------------------------
(* The end of a session.                                                   *)

\* A session may end with a change to references that nobody else holds.
LEMMA CloseKeeps ==
  ASSUME SessionInv, NEW s \in Session, Close(s),
         Len(commits) \in Nat, Len(commits') \in Nat, Len(commits) <= Len(commits'),
         \A t \in Session \ {s} : \A r \in Ref : Holds(t, r) => refs'[r] = refs[r]
  PROVE  SessionInv'
<1>1. /\ pc' = [pc EXCEPT ![s] = "idle"] /\ kind' = [kind EXCEPT ![s] = "edit"]
      /\ from' = [from EXCEPT ![s] = 0] /\ seen' = [seen EXCEPT ![s] = <<>>]
  BY DEF Close
<1>2. /\ pc'[s] = "idle" /\ kind'[s] = "edit" /\ seen'[s] = <<>>
      /\ seen' = [t \in Session |-> seen'[t]]
      /\ \A t \in Session : t # s => /\ pc'[t] = pc[t] /\ kind'[t] = kind[t]
                                     /\ from'[t] = from[t] /\ seen'[t] = seen[t]
  BY <1>1 DEF SessionInv, SessionTypes
<1>3. Touched(s)' = {} /\ \A t \in Session : t # s => Touched(t)' = Touched(t)
  BY <1>2 DEF Touched
<1>4. SessionTypes'
  BY <1>1, <1>2, <1>3 DEF SessionInv, SessionTypes
<1>5. ReadsAreCurrent'
  <2>1. ASSUME NEW t \in Session \ Ferry, NEW r \in Touched(t)'
        PROVE  seen'[t][r] = refs'[r]
    <3>1. t # s /\ r \in Touched(t) /\ r \in Ref
      BY <1>3, <2>1 DEF SessionInv, SessionTypes
    <3>2. Holds(t, r)
      BY <2>1, <3>1 DEF Holds
    <3>3. QED
      BY <1>2, <2>1, <3>1, <3>2 DEF SessionInv, ReadsAreCurrent
  <2>2. QED
    BY <2>1 DEF ReadsAreCurrent
<1>6. WritersAreReady'
  <2>1. ASSUME NEW t \in Session, pc'[t] = "write"
        PROVE  (NextRead(t) = None)' /\ CanWrite(t)'
    <3>1. t # s
      BY <1>2, <2>1
    <3>2. NextRead(t) = None /\ CanWrite(t)
      BY <1>2, <2>1, <3>1 DEF SessionInv, WritersAreReady
    <3>3. NextRead(t)' = NextRead(t) /\ CanWrite(t)' = CanWrite(t)
      BY <1>2, <1>3, <3>1 DEF NextRead, CanWrite, HasChanges
    <3>4. QED
      BY <3>2, <3>3 DEF None
  <2>2. QED
    BY <2>1 DEF WritersAreReady
<1>7. LocksExclude'
  <2>1. \A r \in Ref : ~Holds(s, r)'
    BY <1>2, <1>3 DEF Holds, Wrote
  <2>2. \A t \in Session, r \in Ref :
          t # s => (Holds(t, r)' <=> Holds(t, r)) /\ (Wrote(t, r)' <=> Wrote(t, r))
    BY <1>2, <1>3 DEF Holds, Wrote, WriteRef
  <2>3. QED
    BY <2>1, <2>2 DEF SessionInv, LocksExclude
<1>8. QED
  BY <1>4, <1>5, <1>6, <1>7 DEF SessionInv

LEMMA FinishEffect ==
  ASSUME SessionInv, NEW s \in Session, Finish(s)
  PROVE  LET u == Owner[s]
             b == seen[s][u]
             m == IF Master \in Touched(s) THEN seen[s][Master] ELSE 0
         IN /\ Close(s) /\ NextRead(s) = None
            /\ \/ pc[s] = "write" /\ s \notin Ferry /\ CanWrite(s)
               \/ s \in Ferry /\ WritersBlock(s, WriteRef(s)) = {}
            /\ \/ kind[s] = "edit" /\ EditOn(u, b, m)
               \/ /\ kind[s] = "publish"
                  /\ \/ \E deployed \in BOOLEAN : \/ PublishOn(u, b, m, deployed)
                                                  \/ ForcePublishOn(u, b, m, deployed)
                     \/ ConflictOn(u, b, m)
               \/ kind[s] = "reset" /\ ResetOn(u, m)
               \/ kind[s] = "rollback" /\ \E c \in 1..Len(commits) : RollbackTo(c)
<1> DEFINE u == Owner[s]
           b == seen[s][u]
           m == IF Master \in Touched(s) THEN seen[s][Master] ELSE 0
<1>1. Effect(s) /\ Close(s)
  BY DEF Finish
<1>2. kind[s] \in {"edit", "publish", "reset", "rollback"}
  BY DEF SessionInv, SessionTypes
<1>3. /\ kind[s] = "edit" => EditOn(u, b, m)
      /\ kind[s] = "publish" =>
           \/ \E deployed \in BOOLEAN : \/ PublishOn(u, b, m, deployed)
                                        \/ ForcePublishOn(u, b, m, deployed)
           \/ ConflictOn(u, b, m)
      /\ kind[s] = "reset" => ResetOn(u, m)
      /\ kind[s] = "rollback" => IF from[s] = 0 THEN \E c \in 1..Len(commits) : RollbackTo(c)
                                                ELSE RollbackTo(seen[s][from[s]])
  BY <1>1 DEF Effect
<1>4. \A c : RollbackTo(c) => c \in 1..Len(commits)
  BY DEF RollbackTo
<1>5. /\ NextRead(s) = None
      /\ \/ pc[s] = "write" /\ s \notin Ferry /\ CanWrite(s)
         \/ s \in Ferry /\ WritersBlock(s, WriteRef(s)) = {}
  <2>1. CASE pc[s] = "write"
    BY <2>1 DEF SessionInv, SessionTypes, WritersAreReady
  <2>2. CASE s \in Ferry /\ pc[s] = "read" /\ NextRead(s) = None /\ Blockers(s) = {}
    BY <2>2 DEF Blockers
  <2>3. QED
    BY <2>1, <2>2 DEF Finish
<1> HIDE DEF u, b, m
<1>6. /\ kind[s] = "rollback" => \E c \in 1..Len(commits) : RollbackTo(c)
  BY <1>3, <1>4
<1>7. QED
  BY <1>1, <1>2, <1>3, <1>5, <1>6 DEF u, b, m

\* Whoever changes a reference holds it alone.
LEMMA FinishIsAlone ==
  ASSUME SessionInv, TypeOK, NEW s \in Session, Finish(s),
         NEW t \in Session \ {s}, NEW r \in Ref, Holds(t, r)
  PROVE  refs'[r] = refs[r]
<1> DEFINE u == Owner[s]
           b == seen[s][u]
           m == IF Master \in Touched(s) THEN seen[s][Master] ELSE 0
<1>1. u \in User /\ u \in Ref /\ Master \in Ref /\ u # Master
  BY OwnerAssumption, MasterAssumption DEF Ref
<1>2. /\ NextRead(s) = None
      /\ \/ pc[s] = "write" /\ s \notin Ferry /\ CanWrite(s)
         \/ s \in Ferry /\ WritersBlock(s, WriteRef(s)) = {}
      /\ \/ kind[s] = "edit" /\ EditOn(u, b, m)
         \/ /\ kind[s] = "publish"
            /\ \/ \E deployed \in BOOLEAN : \/ PublishOn(u, b, m, deployed)
                                            \/ ForcePublishOn(u, b, m, deployed)
               \/ ConflictOn(u, b, m)
         \/ kind[s] = "reset" /\ ResetOn(u, m)
         \/ kind[s] = "rollback" /\ \E c \in 1..Len(commits) : RollbackTo(c)
  BY FinishEffect
<1> HIDE DEF u, b, m
<1>3. r # WriteRef(s)
  <2>1. CASE pc[s] = "write" /\ s \notin Ferry
    <3>1. Holds(s, WriteRef(s)) /\ Wrote(s, WriteRef(s))
      BY <2>1 DEF Holds, Wrote
    <3>2. QED
      BY <3>1 DEF SessionInv, LocksExclude
  <2>2. CASE WritersBlock(s, WriteRef(s)) = {}
    BY <2>2 DEF WritersBlock
  <2>3. QED
    BY <1>2, <2>1, <2>2
<1>4. CASE kind[s] = "edit" /\ EditOn(u, b, m)
  BY <1>1, <1>3, <1>4 DEF EditOn, WriteRef, u
<1>5. CASE kind[s] = "publish"
  <2>1. s \notin Ferry /\ CanWrite(s)
    BY <1>2, <1>5 DEF SessionInv, SessionTypes
  <2>2. b # 0
    BY <1>5, <2>1 DEF CanWrite, HasChanges, b, u
  <2>3. u \in Touched(s)
    BY <1>2, AllRead DEF SessionInv, u
  <2>4. refs[u] # 0 /\ Holds(s, u)
    BY <2>1, <2>2, <2>3 DEF SessionInv, ReadsAreCurrent, Holds, b
  <2>5. r # u
    BY <1>1, <2>4 DEF SessionInv, LocksExclude
  <2>6. r # Master
    BY <1>3, <1>5 DEF WriteRef
  <2>7. \/ \E to : refs' = [refs EXCEPT ![Master] = NextId, ![u] = to]
        \/ refs' = [refs EXCEPT ![u] = NextId]
    BY <1>2, <1>5 DEF PublishOn, ForcePublishOn, ConflictOn
  <2>8. ASSUME NEW to, refs' = [refs EXCEPT ![Master] = NextId, ![u] = to]
        PROVE  refs'[r] = refs[r]
    <3>1. DOMAIN refs = Ref
      BY DEF TypeOK
    <3>2. QED
      BY <1>1, <2>5, <2>6, <2>8, <3>1
  <2>9. CASE refs' = [refs EXCEPT ![u] = NextId]
    BY <2>5, <2>9
  <2>10. QED
    BY <2>7, <2>8, <2>9
<1>6. CASE kind[s] = "reset" /\ ResetOn(u, m)
  BY <1>1, <1>3, <1>6 DEF ResetOn, WriteRef, u
<1>7. CASE kind[s] = "rollback" /\ \E c \in 1..Len(commits) : RollbackTo(c)
  BY <1>1, <1>3, <1>7 DEF RollbackTo, WriteRef
<1>8. QED
  BY <1>2, <1>4, <1>5, <1>6, <1>7

\* A request of the http api that ends does what it does alone.
LEMMA FinishIsRequest ==
  ASSUME SessionInv, NEW s \in Session \ Ferry, Finish(s)
  PROVE  Next
<1> DEFINE u == Owner[s]
           b == seen[s][u]
           m == IF Master \in Touched(s) THEN seen[s][Master] ELSE 0
<1>1. u \in User
  BY OwnerAssumption
<1>2. /\ NextRead(s) = None
      /\ \/ kind[s] = "edit" /\ EditOn(u, b, m)
         \/ /\ kind[s] = "publish"
            /\ \/ \E deployed \in BOOLEAN : \/ PublishOn(u, b, m, deployed)
                                            \/ ForcePublishOn(u, b, m, deployed)
               \/ ConflictOn(u, b, m)
         \/ kind[s] = "reset" /\ ResetOn(u, m)
         \/ kind[s] = "rollback" /\ \E c \in 1..Len(commits) : RollbackTo(c)
  BY FinishEffect
<1>3. /\ u \in Touched(s)
      /\ b = 0 \/ kind[s] \in {"publish", "reset"} => Master \in Touched(s)
  BY <1>2, AllRead DEF SessionInv
<1>4. b = refs[u] /\ (Master \in Touched(s) => m = refs[Master])
  BY <1>3 DEF SessionInv, ReadsAreCurrent
<1> HIDE DEF u, b, m
<1>5. CASE kind[s] = "edit" /\ EditOn(u, b, m)
  <2>1. CheckedOut(b, m) = CheckedOut(refs[u], refs[Master])
    BY <1>3, <1>4 DEF CheckedOut
  <2>2. EditOn(u, refs[u], refs[Master])
    BY <1>5, <2>1 DEF EditOn
  <2>3. QED
    BY <1>1, <2>2 DEF Next
<1>6. CASE kind[s] \in {"publish", "reset"}
  <2>1. m = refs[Master] /\ b = refs[u]
    BY <1>3, <1>4, <1>6
  <2>2. QED
    BY <1>1, <1>2, <1>6, <2>1 DEF Next
<1>7. CASE kind[s] = "rollback" /\ \E c \in 1..Len(commits) : RollbackTo(c)
  BY <1>7 DEF Next
<1>8. QED
  BY <1>2, <1>5, <1>6, <1>7

-----------------------------------------------------------------------------
(* What the steps of the sessions do to the project.                       *)

\* A save on top of a commit that need not be the branch's head any more
\* keeps the store well formed, and loses nothing if it is the head.
LEMMA StaleEditKeeps ==
  ASSUME Inv, NEW u \in User, NEW b \in 0..Len(commits), NEW m \in 0..Len(commits),
         b = 0 => m # 0, EditOn(u, b, m)
  PROVE  Inv' /\ (b = refs[u] => Work \ Excused' \subseteq Work')
<1> DEFINE parent == CheckedOut(b, m)
           edits  == Edits(parent) \cup {NextId}
<1>1. /\ AddCommit(parent, "save", edits)
      /\ refs' = [refs EXCEPT ![u] = NextId]
      /\ givenUp' = givenUp /\ loose' \in {loose, loose \cup {NextId}}
  BY DEF EditOn
<1>2. /\ Len(commits) \in Nat /\ NextId = Len(commits) + 1
      /\ refs \in [Ref -> 0..Len(commits)] /\ refs[Master] # 0
      /\ u \in Ref /\ Master \in Ref /\ u # Master
      /\ Excused \subseteq 1..Len(commits)
      /\ \A c \in 1..Len(commits) : Edits(c) \subseteq 1..Len(commits)
      /\ Edits(0) = {}
  BY MasterAssumption DEF Inv, TypeOK, NextId, Ref, Edits, Excused
<1>3. Excused \subseteq Excused' /\ Excused' \subseteq 1..NextId
  BY <1>1, <1>2 DEF Excused
<1>4. parent \in 1..Len(commits)
  BY <1>2 DEF CheckedOut
<1>5. edits \subseteq 1..NextId /\ NextId \in edits /\ Edits(parent) \subseteq edits
  BY <1>2, <1>4
<1>6. /\ refs' \in [Ref -> 0..NextId] /\ refs'[Master] # 0 /\ refs'[u] = NextId
      /\ \A r \in Ref : r # u => refs'[r] = refs[r]
  BY <1>1, <1>2
<1>7. b = refs[u] => Edits(refs[u]) \subseteq edits
  BY <1>2, <1>5 DEF CheckedOut
<1> HIDE DEF parent, edits
<1>8. Inv'
  <2>1. /\ Stored' /\ Rooted' /\ Grows' /\ Len(commits') = NextId
        /\ Len(commits') \in 1..MaxCommits
        /\ \A c \in 1..Len(commits') : /\ commits'[c].message \in Messages
                                       /\ commits'[c].log \subseteq 1..c
                                       /\ c \in commits'[c].log
                                       /\ commits'[c].edits \subseteq 1..c
    BY <1>1, <1>3, <1>4, <1>5, AddCommitKeeps DEF Messages
  <2>2. QED
    BY <1>1, <1>2, <1>3, <1>6, <2>1 DEF Inv, TypeOK, Excused
<1>9. ASSUME b = refs[u] PROVE Work \ Excused' \subseteq Work'
  <2>1. \A r \in Ref : refs'[r] = refs[r] \/ Edits(refs[r]) \subseteq edits \cup Excused'
    BY <1>6, <1>7, <1>9
  <2>2. KeepsWork
    BY <1>1, <1>2, <1>3, <1>4, <1>5, <1>6, <2>1, CommitLosesNothing DEF Messages
  <2>3. QED
    BY <2>2 DEF KeepsWork
<1>10. QED
  BY <1>8, <1>9

LEMMA NextGrows ==
  ASSUME Inv, Next
  PROVE  Len(commits) \in Nat /\ Len(commits') \in Nat /\ Len(commits) <= Len(commits')
<1>1. Len(commits) \in Nat
  BY DEF Inv, TypeOK
<1>2. \/ \E parent, message, edits : AddCommit(parent, message, edits)
      \/ UNCHANGED commits
  BY DEF Next, EditOn, PublishOn, ForcePublishOn, ConflictOn, ResetOn, RollbackTo
<1>3. ASSUME NEW parent, NEW message, NEW edits, AddCommit(parent, message, edits)
      PROVE  Len(commits') = Len(commits) + 1
  BY <1>3, AddCommitEffect DEF Inv
<1>4. QED
  BY <1>1, <1>2, <1>3

LEMMA FinishKeeps ==
  ASSUME Inv, SessionInv, NEW s \in Session, Finish(s)
  PROVE  /\ Inv' /\ SessionInv'
         /\ s \notin Ferry => Next
         /\ \/ Work \ Excused' \subseteq Work'
            \/ s \in Ferry /\ seen[s][Owner[s]] # refs[Owner[s]]
<1>1. Close(s) /\ Len(commits) \in Nat
  BY DEF Finish, Inv, TypeOK
<1>2. \A t \in Session \ {s} : \A r \in Ref : Holds(t, r) => refs'[r] = refs[r]
  BY FinishIsAlone DEF Inv
<1>3. CASE s \notin Ferry
  <2>1. Next
    BY <1>3, FinishIsRequest
  <2>2. Inv' /\ KeepsWork
    BY <2>1, StepKeeps
  <2>3. SessionInv'
    BY <1>1, <1>2, <2>1, NextGrows, CloseKeeps
  <2>4. QED
    BY <1>3, <2>1, <2>2, <2>3 DEF KeepsWork
<1>4. CASE s \in Ferry
  <2> DEFINE u == Owner[s]
             b == seen[s][u]
             m == IF Master \in Touched(s) THEN seen[s][Master] ELSE 0
  <2>1. kind[s] = "edit" /\ u \in User
    BY <1>4, OwnerAssumption DEF SessionInv, SessionTypes
  <2>2. NextRead(s) = None /\ EditOn(u, b, m)
    BY <2>1, FinishEffect
  <2>3. u \in Touched(s) /\ (b = 0 => Master \in Touched(s))
    BY <2>2, AllRead DEF SessionInv
  <2>4. b \in 0..Len(commits) /\ m \in 0..Len(commits) /\ (b = 0 => m # 0)
    BY <1>1, <2>3 DEF SessionInv, SessionTypes
  <2> HIDE DEF b, m, u
  <2>5. Inv' /\ (b = refs[u] => Work \ Excused' \subseteq Work')
    BY <2>1, <2>2, <2>4, StaleEditKeeps
  <2>6. Len(commits') = Len(commits) + 1
    BY <2>2, AddCommitEffect DEF EditOn, Inv, NextId
  <2>7. SessionInv'
    BY <1>1, <1>2, <2>6, CloseKeeps
  <2>8. QED
    BY <1>4, <2>5, <2>7 DEF b, u
<1>5. QED
  BY <1>3, <1>4

\* An answer or a rollback of the transaction.
LEMMA EndKeeps ==
  ASSUME Inv, SessionInv, NEW s \in Session, Close(s), UNCHANGED vars
  PROVE  SessionInv'
<1>1. Len(commits) \in Nat /\ commits' = commits /\ refs' = refs
  BY DEF Inv, TypeOK, vars
<1>2. QED
  BY <1>1, CloseKeeps

\* A step of the sessions is a step of the project, or none, unless it is the
\* end of a message of the websocket.
LEMMA SessionStep ==
  ASSUME Inv, SessionInv, [SessionsNext]_allVars
  PROVE  /\ Inv' /\ SessionInv'
         /\ [Next]_vars \/ \E s \in Ferry : Finish(s)
         /\ \/ Work \ Excused' \subseteq Work'
            \/ \E s \in Ferry : /\ pc[s] # "idle" /\ pc'[s] = "idle"
                                /\ seen[s][Owner[s]] # refs[Owner[s]]
<1>1. ASSUME UNCHANGED vars PROVE Inv' /\ Work \ Excused' \subseteq Work'
  BY <1>1 DEF vars, Inv, TypeOK, Stored, Rooted, Grows, Work, Edits, Excused
<1>2. CASE UNCHANGED allVars
  <2>1. UNCHANGED vars /\ UNCHANGED <<pc, kind, from, seen>>
    BY <1>2 DEF allVars, sessionVars
  <2>2. SessionInv'
    BY <2>1 DEF vars, SessionInv, SessionTypes, ReadsAreCurrent, WritersAreReady,
                LocksExclude, Touched, Holds, Wrote, WriteRef, NextRead, CanWrite,
                HasChanges, None
  <2>3. QED
    BY <1>1, <2>1, <2>2
<1>3. ASSUME NEW s \in Session, Start(s) \/ Read(s) \/ Write(s) \/ Answer(s) \/ Abort(s)
      PROVE  SessionInv' /\ UNCHANGED vars
  BY <1>3, StartKeeps, ReadKeeps, WriteKeeps, EndKeeps DEF Answer, Abort, Inv
<1>4. ASSUME NEW s \in Session, Finish(s)
      PROVE  /\ Inv' /\ SessionInv'
             /\ Next \/ s \in Ferry
             /\ \/ Work \ Excused' \subseteq Work'
                \/ /\ s \in Ferry /\ pc[s] # "idle" /\ pc'[s] = "idle"
                   /\ seen[s][Owner[s]] # refs[Owner[s]]
  <2>1. pc[s] # "idle" /\ pc'[s] = "idle"
    BY <1>4 DEF Finish, Close, SessionInv, SessionTypes
  <2>2. QED
    BY <1>4, <2>1, FinishKeeps
<1>5. QED
  BY <1>1, <1>2, <1>3, <1>4 DEF SessionsNext, Step

-----------------------------------------------------------------------------
(* The theorems.                                                           *)

LEMMA SessionInvariant == SessionsSpec => [](Inv /\ SessionInv)
<1>1. SessionsInit => Inv /\ SessionInv
  <2> SUFFICES ASSUME Init, NoSession PROVE Inv /\ SessionInv
    BY DEF SessionsInit
  <2>1. Inv
    BY StartsRight
  <2>2. \A s \in Session : pc[s] = "idle" /\ Touched(s) = {} /\ kind[s] = "edit"
    BY DEF NoSession, Touched
  <2>3. SessionTypes
    BY <2>2 DEF NoSession, SessionTypes
  <2>4. ReadsAreCurrent /\ WritersAreReady /\ LocksExclude
    BY <2>2 DEF ReadsAreCurrent, WritersAreReady, LocksExclude, Holds, Wrote
  <2>5. QED
    BY <2>1, <2>3, <2>4 DEF SessionInv
<1>2. Inv /\ SessionInv /\ [SessionsNext]_allVars => Inv' /\ SessionInv'
  BY SessionStep
<1>3. QED
  BY <1>1, <1>2, PTL DEF SessionsSpec

\* With requests and messages of the websocket that overlap in any way, the
\* store and the references stay well formed.
THEOREM SessionsTypeCorrect == SessionsSpec => []TypeOK
<1>1. Inv => TypeOK
  BY DEF Inv
<1>2. QED
  BY <1>1, SessionInvariant, PTL

\* Requests of the http api that overlap have the effect of requests that run
\* one after the other: the locks of read_loose_ref make Sessions implement
\* Project, whatever the requests are and whoever dies or is rolled back.
THEOREM RequestsActAtomically ==
  ASSUME Ferry = {} PROVE SessionsSpec => ActsAtomically
<1>1. SessionsInit => Init
  BY DEF SessionsInit
<1>2. Inv /\ SessionInv /\ [SessionsNext]_allVars => [Next]_vars
  BY SessionStep
<1>3. QED
  BY <1>1, <1>2, SessionInvariant, PTL DEF SessionsSpec, ActsAtomically, Spec

\* So overlapping requests lose no edit of keys of json objects either.
THEOREM RequestsKeepEdits ==
  ASSUME Ferry = {} PROVE SessionsSpec => []NoLostEdits
BY RequestsActAtomically, EditsAreKept, PTL DEF ActsAtomically

\* With the websocket running, work that nobody gave up and that merges go key
\* by key about (not loose) is lost only by a message of the websocket whose
\* user's branch has moved since the message read it.
THEOREM RequestsLoseNoWork == SessionsSpec => OnlyStaleFerryLosesWork
<1>1. Inv /\ SessionInv /\ [SessionsNext]_allVars =>
        [(Work \ Excused') \subseteq Work'
         \/ \E s \in Ferry : /\ pc[s] # "idle" /\ pc'[s] = "idle"
                             /\ seen[s][Owner[s]] # refs[Owner[s]]]_allVars
  BY SessionStep
<1>2. QED
  BY <1>1, SessionInvariant, PTL DEF SessionsSpec, OnlyStaleFerryLosesWork
============================================================================
