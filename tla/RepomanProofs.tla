--------------------------- MODULE RepomanProofs ---------------------------
(***************************************************************************)
(* Theorems about Repoman, for any users, files, history bound and inputs. *)
(***************************************************************************)
EXTENDS Repoman, FiniteSetTheorems, TLAPS

-----------------------------------------------------------------------------
(* The object store grows at its end.                                      *)

\* commits is a sequence; of what is TypeOK's business.
Stored == \E S : commits \in Seq(S)

\* Storing a commit leaves the others as they are.
LEMMA AddCommitEffect ==
  ASSUME Stored, NEW parent, NEW message, NEW tree,
         AddCommit(parent, message, tree)
  PROVE  /\ Stored'
         /\ NextId = Len(commits) + 1
         /\ Len(commits) \in Nat
         /\ Len(commits) < MaxCommits
         /\ Len(commits') = Len(commits) + 1
         /\ \A c \in 1..Len(commits) : commits'[c] = commits[c]
         /\ commits'[NextId].parent = parent
         /\ commits'[NextId].message = message
         /\ commits'[NextId].tree = tree
         /\ commits'[NextId].log = commits[parent].log \cup {NextId}
<1> DEFINE new == [parent  |-> parent, message |-> message, tree |-> tree,
                   log |-> commits[parent].log \cup {NextId}]
<1>1. PICK S : commits \in Seq(S)
  BY DEF Stored
<1> DEFINE T == S \cup {new}
<1>2. commits \in Seq(T) /\ new \in T
  BY <1>1
<1>3. commits' = Append(commits, new) /\ Len(commits) < MaxCommits
  BY DEF AddCommit
<1> HIDE DEF new, T
<1>4. commits' \in Seq(T) /\ Len(commits') = Len(commits) + 1
      /\ Len(commits) \in Nat
      /\ \A c \in 1..Len(commits) : commits'[c] = commits[c]
      /\ commits'[Len(commits) + 1] = new
  BY <1>2, <1>3
<1>5. QED
  BY <1>3, <1>4 DEF new, NextId, Stored

-----------------------------------------------------------------------------
(* Type correctness.                                                       *)

TypeInv == TypeOK /\ Stored

\* A merge builds trees.
LEMMA MergeBuildsTrees ==
  ASSUME NEW base, NEW mine, NEW other, NEW takeMine,
         NEW tree \in Merge(base, mine, other, takeMine).trees
  PROVE  IsTree(tree)
BY DEF Merge, IsTree

\* Storing a well-formed commit keeps the object store well formed.
LEMMA AddCommitType ==
  ASSUME CommitsOK, Stored, NEW parent \in 1..Len(commits),
         NEW message \in Messages, NEW tree, IsTree(tree),
         AddCommit(parent, message, tree)
  PROVE  /\ CommitsOK' /\ Stored'
         /\ Len(commits) \in Nat
         /\ NextId = Len(commits) + 1
         /\ Len(commits') = Len(commits) + 1
<1>1. /\ Stored' /\ NextId = Len(commits) + 1 /\ Len(commits) \in Nat
      /\ Len(commits) < MaxCommits
      /\ Len(commits') = Len(commits) + 1
      /\ \A c \in 1..Len(commits) : commits'[c] = commits[c]
      /\ commits'[NextId].parent = parent
      /\ commits'[NextId].message = message
      /\ commits'[NextId].tree = tree
      /\ commits'[NextId].log = commits[parent].log \cup {NextId}
  BY AddCommitEffect
<1>2. ASSUME NEW c \in 1..Len(commits)
      PROVE  /\ commits'[c].parent \in 0..(c - 1)
             /\ commits'[c].message \in Messages
             /\ IsTree(commits'[c].tree)
             /\ commits'[c].log \subseteq 1..c
             /\ c \in commits'[c].log
  BY <1>1 DEF CommitsOK
<1>3. /\ commits'[NextId].parent \in 0..(NextId - 1)
      /\ commits'[NextId].message \in Messages
      /\ IsTree(commits'[NextId].tree)
      /\ commits'[NextId].log \subseteq 1..NextId
      /\ NextId \in commits'[NextId].log
  <2>1. commits[parent].log \subseteq 1..parent
    BY DEF CommitsOK
  <2>2. QED
    BY <1>1, <2>1
<1>4. Len(commits') \in 1..MaxCommits
  BY <1>1, MaxCommitsAssumption
<1>5. QED
  BY <1>1, <1>2, <1>3, <1>4 DEF CommitsOK

\* The inductive invariant behind type correctness.
LEMMA TypeInvariant == Spec => []TypeInv
<1>1. Init => TypeInv
  <2> SUFFICES ASSUME Init PROVE TypeInv
    OBVIOUS
  <2>1. commits \in Seq({commits[1]}) /\ Len(commits) = 1
    BY DEF Init
  <2>2. /\ commits[1].parent = 0 /\ commits[1].message = "init"
        /\ commits[1].tree = EmptyTree /\ commits[1].log = {1}
    BY DEF Init
  <2>3. IsTree(EmptyTree)
    BY DEF IsTree, EmptyTree
  <2>4. CommitsOK
    BY <2>1, <2>2, <2>3, MaxCommitsAssumption DEF CommitsOK, Messages
  <2>5. RefsOK
    BY <2>1 DEF Init, RefsOK
  <2>6. QED
    BY <2>1, <2>4, <2>5 DEF TypeInv, TypeOK, Stored
<1>2. TypeInv /\ [Next]_vars => TypeInv'
  <2> SUFFICES ASSUME CommitsOK, RefsOK, Stored, [Next]_vars
               PROVE  CommitsOK' /\ RefsOK' /\ Stored'
    BY DEF TypeInv, TypeOK
  <2>0. Len(commits) \in Nat
    BY DEF CommitsOK
  <2>1. ASSUME NEW u \in User, CreateBranch(u)
        PROVE  CommitsOK' /\ RefsOK' /\ Stored'
    BY <2>0, <2>1 DEF CommitsOK, RefsOK, CreateBranch, Stored
  <2>2. ASSUME NEW u \in User, NEW changes, SaveFiles(u, changes)
        PROVE  CommitsOK' /\ RefsOK' /\ Stored'
    <3> DEFINE parent == IF branch[u] = 0 THEN master ELSE branch[u]
               tree == [p \in Path |-> IF p \in DOMAIN changes THEN changes[p]
                                       ELSE TreeOf(parent)[p]]
    <3>1. parent \in 1..Len(commits) /\ "save" \in Messages
      BY <2>0 DEF RefsOK, Messages
    <3>2. IsTree(tree)
      BY DEF IsTree
    <3>3. AddCommit(parent, "save", tree)
      BY <2>2 DEF SaveFiles
    <3> HIDE DEF parent, tree
    <3>4. CommitsOK' /\ Stored' /\ NextId = Len(commits) + 1
          /\ Len(commits') = Len(commits) + 1
      BY <3>1, <3>2, <3>3, AddCommitType
    <3>5. RefsOK'
      BY <2>0, <2>2, <3>4 DEF RefsOK, SaveFiles
    <3>6. QED
      BY <3>4, <3>5
  <2>3. ASSUME NEW u \in User, NEW force, PublishBranch(u, force)
        PROVE  CommitsOK' /\ RefsOK' /\ Stored'
    <3>1. /\ branch[u] \in 1..Len(commits) /\ master \in 1..Len(commits)
          /\ "publish" \in Messages /\ "resolve" \in Messages
      BY <2>0, <2>3 DEF PublishBranch, RefsOK, Messages
    <3>2. CASE Squash(u)
      <4>1. IsTree(TreeOf(branch[u]))
        BY <3>1 DEF CommitsOK, TreeOf
      <4>2. AddCommit(master, "publish", TreeOf(branch[u]))
        BY <3>2 DEF Squash
      <4>3. CommitsOK' /\ Stored' /\ NextId = Len(commits) + 1
            /\ Len(commits') = Len(commits) + 1
        BY <3>1, <4>1, <4>2, AddCommitType
      <4>4. RefsOK'
        BY <2>0, <3>2, <4>3 DEF RefsOK, Squash
      <4>5. QED
        BY <4>3, <4>4
    <3>3. CASE MergeIn(u, force)
      <4>1. PICK tree : /\ IsTree(tree)
                        /\ \/ /\ AddCommit(branch[u], "resolve", tree)
                              /\ branch' = [branch EXCEPT ![u] = NextId]
                              /\ merged' = [merged EXCEPT ![u] = master]
                              /\ UNCHANGED master
                           \/ /\ AddCommit(master, "publish", tree)
                              /\ master' = NextId
                              /\ UNCHANGED <<branch, merged>>
        BY <3>3, MergeBuildsTrees DEF MergeIn
      <4>2. CommitsOK' /\ Stored' /\ NextId = Len(commits) + 1
            /\ Len(commits') = Len(commits) + 1
        BY <3>1, <4>1, AddCommitType
      <4>3. UNCHANGED <<tags, fork>>
        BY <3>3 DEF MergeIn
      <4>4. RefsOK'
        <5>1. /\ master' \in 1..Len(commits')
              /\ branch' \in [User -> 0..Len(commits')]
              /\ merged' \in [User -> 0..Len(commits')]
          <6>1. CASE /\ branch' = [branch EXCEPT ![u] = NextId]
                     /\ merged' = [merged EXCEPT ![u] = master]
                     /\ UNCHANGED master
            BY <2>0, <3>1, <4>2, <6>1 DEF RefsOK
          <6>2. CASE master' = NextId /\ UNCHANGED <<branch, merged>>
            BY <2>0, <3>1, <4>2, <6>2 DEF RefsOK
          <6>3. QED
            BY <4>1, <6>1, <6>2
        <5>2. tags' \in [Tag -> 0..Len(commits')]
          BY <2>0, <4>2, <4>3 DEF RefsOK
        <5>3. fork' \in [User -> 0..Len(commits')]
          BY <2>0, <4>2, <4>3 DEF RefsOK
        <5>4. QED
          BY <5>1, <5>2, <5>3 DEF RefsOK
      <4>5. QED
        BY <4>2, <4>4
    <3>4. QED
      BY <2>3, <3>2, <3>3 DEF PublishBranch
  <2>4. ASSUME NEW u \in User, DeleteBranch(u)
        PROVE  CommitsOK' /\ RefsOK' /\ Stored'
    BY <2>0, <2>4 DEF CommitsOK, RefsOK, DeleteBranch, Stored
  <2>5. ASSUME NEW t \in Tag, AddTag(t)
        PROVE  CommitsOK' /\ RefsOK' /\ Stored'
    BY <2>0, <2>5 DEF CommitsOK, RefsOK, AddTag, Stored
  <2>6. ASSUME NEW t \in Tag, NEW remove, CheckoutTag(t, remove)
        PROVE  CommitsOK' /\ RefsOK' /\ Stored'
    BY <2>0, <2>6 DEF CommitsOK, RefsOK, CheckoutTag, Stored
  <2>7. CASE UNCHANGED vars
    BY <2>7 DEF CommitsOK, RefsOK, vars, refs, Stored
  <2>8. QED
    BY <2>1, <2>2, <2>3, <2>4, <2>5, <2>6, <2>7 DEF Next, Publish, Save
<1>3. QED
  BY <1>1, <1>2, PTL DEF Spec

\* Every state is well formed: no ref dangles and no commit has itself or a
\* younger one in its history, whatever the users do.
THEOREM TypeCorrect == Spec => []TypeOK
<1>1. TypeInv => TypeOK
  BY DEF TypeInv
<1>2. QED
  BY <1>1, TypeInvariant, PTL

-----------------------------------------------------------------------------
(* What a step does to the history, seen from the references.              *)

\* What a publish can do, once the contents of the tree do not matter.
LEMMA PublishCases ==
  ASSUME NEW u, NEW force, PublishBranch(u, force)
  PROVE  \E tree :
           /\ UNCHANGED <<tags, fork>>
           /\ \/ /\ AddCommit(branch[u], "resolve", tree)
                 /\ branch' = [branch EXCEPT ![u] = NextId]
                 /\ UNCHANGED master
              \/ /\ AddCommit(master, "publish", tree)
                 /\ master' = NextId
                 /\ UNCHANGED branch
BY DEF PublishBranch, Squash, MergeIn

\* What was published stays published: a publish adds to master's history and
\* nothing but the checkout of a tag takes anything from it.
THEOREM HistoryGrows == Spec => MasterHistoryGrows
<1>1. TypeInv /\ [Next]_vars =>
        [\/ commits[master].log \subseteq commits'[master'].log
         \/ \E t \in Tag : tags[t] # 0 /\ master' = tags[t]]_vars
  <2> SUFFICES ASSUME CommitsOK, RefsOK, Stored, Next
               PROVE  \/ commits[master].log \subseteq commits'[master'].log
                      \/ \E t \in Tag : tags[t] # 0 /\ master' = tags[t]
    BY DEF TypeInv, TypeOK
  <2>0. master \in 1..Len(commits)
    BY DEF RefsOK
  <2>1. ASSUME NEW u \in User, CreateBranch(u) \/ DeleteBranch(u)
        PROVE  commits[master].log \subseteq commits'[master'].log
    BY <2>1 DEF CreateBranch, DeleteBranch
  <2>2. ASSUME NEW u \in User, NEW changes, SaveFiles(u, changes)
        PROVE  commits[master].log \subseteq commits'[master'].log
    BY <2>0, <2>2, AddCommitEffect DEF SaveFiles
  <2>3. ASSUME NEW u \in User, NEW force, PublishBranch(u, force)
        PROVE  commits[master].log \subseteq commits'[master'].log
    <3>1. PICK tree : \/ AddCommit(branch[u], "resolve", tree) /\ UNCHANGED master
                      \/ AddCommit(master, "publish", tree) /\ master' = NextId
      BY <2>3, PublishCases
    <3>2. QED
      BY <2>0, <3>1, AddCommitEffect
  <2>4. ASSUME NEW t \in Tag, AddTag(t)
        PROVE  commits[master].log \subseteq commits'[master'].log
    BY <2>4 DEF AddTag
  <2>5. ASSUME NEW t \in Tag, NEW remove, CheckoutTag(t, remove)
        PROVE  tags[t] # 0 /\ master' = tags[t]
    BY <2>5 DEF CheckoutTag
  <2>6. QED
    BY <2>1, <2>2, <2>3, <2>4, <2>5 DEF Next, Publish, Save
<1>2. QED
  BY <1>1, TypeInvariant, PTL DEF Spec, MasterHistoryGrows

-----------------------------------------------------------------------------
(* The merge base.  The code finds it by the messages of commits; that the *)
(* commit it finds is where the branch was forked takes an invariant over  *)
(* all of the history: master holds the root and publishes only, and what  *)
(* a branch adds to its fork point is never a publish.                     *)

\* One root, in the history of every commit.
RootInv ==
  \A c \in 1..Len(commits) : /\ 1 \in commits[c].log
                             /\ commits[c].message = "init" => c = 1

MasterInv ==
  \A c \in commits[master].log : commits[c].message \in {"init", "publish"}

ForkInv ==
  \A u \in User : branch[u] # 0 =>
    /\ fork[u] \in commits[branch[u]].log
    /\ fork[u] \in commits[master].log
    /\ \A c \in commits[branch[u]].log :
         c > fork[u] => commits[c].message \in {"save", "resolve"}

BaseInv == TypeInv /\ RootInv /\ MasterInv /\ ForkInv

LEMMA BaseInvGivesForkPoint == BaseInv => MergeBaseIsForkPoint
<1> SUFFICES ASSUME BaseInv, NEW u \in User, branch[u] # 0
             PROVE  MergeBase(u) = fork[u]
  BY DEF MergeBaseIsForkPoint
<1> DEFINE walked == commits[branch[u]].log
           hits   == walked \cap Published
<1>0. Len(commits) \in Nat /\ branch[u] \in 1..Len(commits)
      /\ master \in 1..Len(commits)
  BY DEF BaseInv, TypeInv, TypeOK, CommitsOK, RefsOK
<1>1. walked \subseteq 1..branch[u] /\ commits[master].log \subseteq 1..master
  BY <1>0 DEF BaseInv, TypeInv, TypeOK, CommitsOK
<1>2. /\ fork[u] \in walked /\ fork[u] \in commits[master].log
      /\ \A c \in walked : c > fork[u] => commits[c].message \in {"save", "resolve"}
      /\ 1 \in walked
  BY <1>0 DEF BaseInv, ForkInv, RootInv
<1>3. fork[u] \in Nat /\ \A c \in walked : c \in Nat /\ c >= 1
  BY <1>0, <1>1, <1>2
<1>4. \A c \in hits : c \in walked /\ c <= fork[u]
  BY <1>2, <1>3 DEF Published
<1>5. CASE commits[fork[u]].message = "publish"
  <2>1. fork[u] \in hits
    BY <1>2, <1>5 DEF Published
  <2>2. \A x \in hits : (\A y \in hits : x >= y) => x = fork[u]
    BY <1>3, <1>4, <2>1
  <2>3. \A y \in hits : fork[u] >= y
    BY <1>3, <1>4
  <2> HIDE DEF hits
  <2>4. Max(hits) = fork[u]
    BY <2>1, <2>2, <2>3 DEF Max
  <2>5. QED
    BY <2>1, <2>4 DEF MergeBase, hits
<1>6. CASE commits[fork[u]].message # "publish"
  <2>1. fork[u] = 1
    BY <1>0, <1>1, <1>2, <1>6 DEF BaseInv, MasterInv, RootInv
  <2>2. hits = {}
    BY <1>2, <1>3, <1>4, <1>6, <2>1 DEF Published
  <2>3. \A x \in walked : (\A y \in walked : x =< y) => x = 1
    BY <1>2, <1>3
  <2>4. Min(walked) = 1
    <3> HIDE DEF walked
    <3>1. \A y \in walked : 1 =< y
      BY <1>3
    <3>2. QED
      BY <1>2, <2>3, <3>1 DEF Min
  <2>5. QED
    BY <2>1, <2>2, <2>4 DEF MergeBase
<1>7. QED
  BY <1>5, <1>6

\* A new commit leaves what RootInv says of the others, and is no second root.
LEMMA AddCommitRoot ==
  ASSUME CommitsOK, Stored, RootInv, NEW parent \in 1..Len(commits),
         NEW message, message # "init", NEW tree,
         AddCommit(parent, message, tree)
  PROVE  RootInv'
<1>1. /\ NextId = Len(commits) + 1 /\ Len(commits) \in Nat
      /\ Len(commits') = Len(commits) + 1
      /\ \A c \in 1..Len(commits) : commits'[c] = commits[c]
      /\ commits'[NextId].message = message
      /\ commits'[NextId].log = commits[parent].log \cup {NextId}
  BY AddCommitEffect
<1>2. ASSUME NEW c \in 1..Len(commits)
      PROVE  1 \in commits'[c].log /\ (commits'[c].message = "init" => c = 1)
  BY <1>1 DEF RootInv
<1>3. 1 \in commits'[NextId].log /\ commits'[NextId].message # "init"
  BY <1>1 DEF RootInv
<1>4. QED
  BY <1>1, <1>2, <1>3 DEF RootInv

\* Where no tag moves master about, BaseInv holds of every state.
LEMMA BaseInvariant == ASSUME Tag = {} PROVE Spec => []BaseInv
<1>1. Init => RootInv /\ MasterInv /\ ForkInv
  BY DEF Init, RootInv, MasterInv, ForkInv
<1>2. TypeInv /\ TypeInv' /\ RootInv /\ MasterInv /\ ForkInv /\ [Next]_vars
        => RootInv' /\ MasterInv' /\ ForkInv'
  <2> SUFFICES ASSUME CommitsOK, RefsOK, Stored, RootInv, MasterInv, ForkInv,
                      [Next]_vars
               PROVE  RootInv' /\ MasterInv' /\ ForkInv'
    BY DEF TypeInv, TypeOK
  <2>0. /\ Len(commits) \in Nat /\ master \in 1..Len(commits)
        /\ \A u \in User : branch[u] \in 0..Len(commits)
        /\ \A c \in 1..Len(commits) : c \in commits[c].log /\ commits[c].log \subseteq 1..c
    BY DEF CommitsOK, RefsOK
  <2>1. ASSUME NEW u \in User, CreateBranch(u)
        PROVE  RootInv' /\ MasterInv' /\ ForkInv'
    <3>1. RootInv' /\ MasterInv'
      BY <2>1 DEF CreateBranch, RootInv, MasterInv
    <3>2. ASSUME NEW v \in User, branch'[v] # 0
          PROVE  /\ fork'[v] \in commits'[branch'[v]].log
                 /\ fork'[v] \in commits'[master'].log
                 /\ \A c \in commits'[branch'[v]].log :
                      c > fork'[v] => commits'[c].message \in {"save", "resolve"}
      BY <2>0, <2>1, <3>2 DEF CreateBranch, ForkInv, RefsOK
    <3>3. QED
      BY <3>1, <3>2 DEF ForkInv
  <2>2. ASSUME NEW u \in User, NEW changes, SaveFiles(u, changes)
        PROVE  RootInv' /\ MasterInv' /\ ForkInv'
    <3> DEFINE parent == IF branch[u] = 0 THEN master ELSE branch[u]
    <3>1. PICK tree : AddCommit(parent, "save", tree)
      BY <2>2 DEF SaveFiles
    <3>2. parent \in 1..Len(commits)
      BY <2>0
    <3>3. /\ branch' = [branch EXCEPT ![u] = NextId]
          /\ fork' = IF branch[u] = 0 THEN [fork EXCEPT ![u] = master] ELSE fork
          /\ master' = master
      BY <2>2 DEF SaveFiles
    <3>4. /\ fork'[u] \in commits[parent].log /\ fork'[u] \in commits[master].log
          /\ \A c \in commits[parent].log :
               c > fork'[u] => commits[c].message \in {"save", "resolve"}
          /\ \A v \in User : v # u => fork'[v] = fork[v]
      BY <2>0, <3>3 DEF ForkInv, RefsOK
    <3> HIDE DEF parent
    <3>5. RootInv'
      BY <3>1, <3>2, AddCommitRoot
    <3>6. /\ NextId = Len(commits) + 1
          /\ \A c \in 1..Len(commits) : commits'[c] = commits[c]
          /\ commits'[NextId].message = "save"
          /\ commits'[NextId].log = commits[parent].log \cup {NextId}
      BY <3>1, AddCommitEffect
    <3>7. MasterInv'
      BY <2>0, <3>3, <3>6 DEF MasterInv
    <3>8. ASSUME NEW v \in User, branch'[v] # 0
          PROVE  /\ fork'[v] \in commits'[branch'[v]].log
                 /\ fork'[v] \in commits'[master'].log
                 /\ \A c \in commits'[branch'[v]].log :
                      c > fork'[v] => commits'[c].message \in {"save", "resolve"}
      <4>0. /\ commits'[master'].log = commits[master].log
            /\ \A d \in 1..Len(commits) : \A c \in commits[d].log : c \in 1..Len(commits)
        BY <2>0, <3>3, <3>6
      <4>1. CASE v = u
        <5>1. branch'[v] = NextId
          BY <3>3, <4>1 DEF RefsOK
        <5>2. /\ fork'[v] \in commits'[branch'[v]].log
              /\ fork'[v] \in commits'[master'].log
          BY <3>4, <3>6, <4>0, <4>1, <5>1
        <5>3. \A c \in commits[parent].log :
                c > fork'[v] => commits'[c].message \in {"save", "resolve"}
          BY <3>2, <3>4, <3>6, <4>0, <4>1
        <5>4. QED
          BY <3>6, <5>1, <5>2, <5>3
      <4>2. CASE v # u
        <5>1. branch'[v] = branch[v] /\ branch[v] \in 1..Len(commits)
          BY <2>0, <3>3, <3>8, <4>2 DEF RefsOK
        <5>2. /\ fork'[v] = fork[v] /\ commits'[branch'[v]] = commits[branch[v]]
          BY <3>4, <3>6, <4>2, <5>1
        <5>3. QED
          BY <3>6, <4>0, <5>1, <5>2 DEF ForkInv
      <4>3. QED
        BY <4>1, <4>2
    <3>9. QED
      BY <3>5, <3>7, <3>8 DEF ForkInv
  <2>3. ASSUME NEW u \in User, NEW force, PublishBranch(u, force)
        PROVE  RootInv' /\ MasterInv' /\ ForkInv'
    <3>0. branch[u] \in 1..Len(commits)
      BY <2>0, <2>3 DEF PublishBranch
    <3>1. PICK tree :
            /\ UNCHANGED fork
            /\ \/ /\ AddCommit(branch[u], "resolve", tree)
                  /\ branch' = [branch EXCEPT ![u] = NextId]
                  /\ UNCHANGED master
               \/ /\ AddCommit(master, "publish", tree)
                  /\ master' = NextId
                  /\ UNCHANGED branch
      BY <2>3, PublishCases
    <3>2. RootInv'
      BY <2>0, <3>0, <3>1, AddCommitRoot
    <3>3. CASE /\ AddCommit(branch[u], "resolve", tree)
               /\ branch' = [branch EXCEPT ![u] = NextId]
               /\ UNCHANGED master
      <4>1. /\ NextId = Len(commits) + 1
            /\ \A c \in 1..Len(commits) : commits'[c] = commits[c]
            /\ commits'[NextId].message = "resolve"
            /\ commits'[NextId].log = commits[branch[u]].log \cup {NextId}
        BY <3>3, AddCommitEffect
      <4>2. MasterInv'
        BY <2>0, <3>3, <4>1 DEF MasterInv
      <4>3. ASSUME NEW v \in User, branch'[v] # 0
            PROVE  /\ fork'[v] \in commits'[branch'[v]].log
                   /\ fork'[v] \in commits'[master'].log
                   /\ \A c \in commits'[branch'[v]].log :
                        c > fork'[v] => commits'[c].message \in {"save", "resolve"}
        <5>0. /\ commits'[master'].log = commits[master].log
              /\ fork' = fork
              /\ \A d \in 1..Len(commits) : \A c \in commits[d].log : c \in 1..Len(commits)
          BY <2>0, <3>1, <3>3, <4>1
        <5>1. CASE v = u
          <6>1. branch'[v] = NextId
            BY <3>3, <5>1 DEF RefsOK
          <6>2. /\ fork[v] \in commits'[branch'[v]].log
                /\ fork[v] \in commits'[master'].log
            BY <3>0, <4>1, <5>0, <5>1, <6>1 DEF ForkInv
          <6>3. \A c \in commits[branch[u]].log :
                  c > fork[v] => commits'[c].message \in {"save", "resolve"}
            BY <3>0, <4>1, <5>0, <5>1 DEF ForkInv
          <6>4. QED
            BY <4>1, <5>0, <6>1, <6>2, <6>3
        <5>2. CASE v # u
          <6>1. branch'[v] = branch[v] /\ branch[v] \in 1..Len(commits)
            BY <2>0, <3>3, <4>3, <5>2 DEF RefsOK
          <6>2. commits'[branch'[v]] = commits[branch[v]]
            BY <4>1, <6>1
          <6>3. QED
            BY <4>1, <5>0, <6>1, <6>2 DEF ForkInv
        <5>3. QED
          BY <5>1, <5>2
      <4>4. QED
        BY <3>2, <4>2, <4>3 DEF ForkInv
    <3>4. CASE /\ AddCommit(master, "publish", tree)
               /\ master' = NextId
               /\ UNCHANGED branch
      <4>1. /\ NextId = Len(commits) + 1
            /\ \A c \in 1..Len(commits) : commits'[c] = commits[c]
            /\ commits'[NextId].message = "publish"
            /\ commits'[NextId].log = commits[master].log \cup {NextId}
        BY <3>4, AddCommitEffect
      <4>2. MasterInv'
        BY <2>0, <3>4, <4>1 DEF MasterInv
      <4>3. ASSUME NEW v \in User, branch'[v] # 0
            PROVE  /\ fork'[v] \in commits'[branch'[v]].log
                   /\ fork'[v] \in commits'[master'].log
                   /\ \A c \in commits'[branch'[v]].log :
                        c > fork'[v] => commits'[c].message \in {"save", "resolve"}
        <5>1. branch'[v] = branch[v] /\ branch[v] \in 1..Len(commits) /\ fork' = fork
          BY <2>0, <3>1, <3>4, <4>3
        <5>2. /\ commits'[branch'[v]] = commits[branch[v]]
              /\ commits'[master'].log = commits[master].log \cup {NextId}
              /\ \A c \in commits[branch[v]].log : c \in 1..Len(commits)
          BY <2>0, <3>4, <4>1, <5>1
        <5>3. QED
          BY <4>1, <5>1, <5>2 DEF ForkInv
      <4>4. QED
        BY <3>2, <4>2, <4>3 DEF ForkInv
    <3>5. QED
      BY <3>1, <3>3, <3>4
  <2>4. ASSUME NEW u \in User, DeleteBranch(u)
        PROVE  RootInv' /\ MasterInv' /\ ForkInv'
    BY <2>4 DEF DeleteBranch, RootInv, MasterInv, ForkInv, RefsOK
  <2>5. CASE UNCHANGED vars
    BY <2>5 DEF vars, refs, RootInv, MasterInv, ForkInv
  <2>6. QED
    BY <2>1, <2>2, <2>3, <2>4, <2>5 DEF Next, Publish, Save
<1>3. QED
  BY <1>1, <1>2, TypeInvariant, PTL DEF Spec, BaseInv

\* A merge is done against the commit the branch was forked from, for any
\* number of users, of publishes, failed ones among them, and of branches
\* created anew: no publish takes work for new that it already had.
THEOREM MergeBaseCorrect == ASSUME Tag = {} PROVE Spec => []MergeBaseIsForkPoint
BY BaseInvariant, BaseInvGivesForkPoint, PTL

-----------------------------------------------------------------------------
(* Conflict markers.  They get into the branch of a user whose publish     *)
(* failed; users who resolve them before they publish again keep them out  *)
(* of master.                                                              *)

CleanFile(file) == file = NoFile \/ ~HasMarker(file)

CleanTree(tree) == \A p \in Path : CleanFile(tree[p])

\* What is read as '{}' when there is no file has no marker either.
LEMMA LoadIsClean ==
  ASSUME NEW tree, CleanTree(tree), NEW p \in Path
  PROVE  ~HasMarker(Load(tree, p))
BY DEF CleanTree, CleanFile, Load, HasMarker, IsMarker, EmptyJson

\* A field without conflict gets one of the two values that met there.
LEMMA MergedIsClean ==
  ASSUME NEW b, NEW m, NEW o, ~HasMarker(m), ~HasMarker(o), ~HadConflict(b, m, o)
  PROVE  ~HasMarker(Merged(b, m, o))
<1> SUFFICES ASSUME NEW k \in Field PROVE ~IsMarker(Merged(b, m, o)[k])
  BY DEF HasMarker
<1>1. Merged(b, m, o)[k] = MergeField(b, m, o, k) /\ ~FieldConflict(b, m, o, k)
  BY DEF Merged, HadConflict
<1>2. MergeField(b, m, o, k) \in {m[k], o[k]}
  BY <1>1 DEF MergeField
<1>3. QED
  BY <1>1, <1>2 DEF HasMarker

LEMMA NewPathIsPath ==
  ASSUME NEW from, NEW to, NEW p \in Path
  PROVE  NewPath(from, to, p) \in Path
<1> DEFINE paired == {m \in Moves(from, to) : m[1] = p /\ m \in Renames(from, to)}
<1>1. CASE paired = {}
  BY <1>1 DEF NewPath
<1>2. CASE paired # {}
  <2>1. PICK m \in paired : m = (CHOOSE n \in paired : TRUE)
    BY <1>2
  <2>2. m[2] \in Path
    BY DEF Moves
  <2>3. QED
    BY <1>2, <2>1, <2>2 DEF NewPath
<1>3. QED
  BY <1>1, <1>2

\* Where all files are json and all three trees are clean, what a path adds to
\* a merge without conflict is clean.
LEMMA MergePathIsClean ==
  ASSUME RawValue = {},
         NEW b, NEW m, NEW o, CleanTree(b), CleanTree(m), CleanTree(o),
         NEW takeMine, NEW p \in Path,
         NEW part \in MergePath(b, m, o, takeMine, p), ~part.conflict
  PROVE  CleanFile(part.file)
<1> DEFINE my    == Change(b, m, p)
           their == Change(b, o, p)
           mine  == NewPath(b, m, p)
           other == NewPath(b, o, p)
<1>0. mine \in Path /\ other \in Path
  BY NewPathIsPath
<1>1. /\ ~HasMarker(Load(b, p)) /\ ~HasMarker(Load(m, p)) /\ ~HasMarker(Load(o, p))
      /\ ~HasMarker(Load(m, mine)) /\ ~HasMarker(Load(o, other))
  BY <1>0, LoadIsClean
<1>2. CleanFile(m[mine]) /\ CleanFile(o[other])
  BY <1>0 DEF CleanTree
<1>3. CASE part \in AddedByOneSide(b, m, o, p)
  <2>1. \/ part.file = Load(m, p)
        \/ part.file = FirstTrue(Load(m, p), Load(o, p), Load(b, p))
    BY <1>3 DEF AddedByOneSide, Contribution
  <2>2. QED
    BY <1>1, <2>1 DEF FirstTrue, CleanFile
<1>4. CASE part \in KeptByBothSides(b, m, o, takeMine, p)
  <2>1. \/ part.file = FirstTrue(Load(m, mine), Load(o, other), Load(b, p))
        \/ /\ part.file = Merged(Load(b, p), Load(m, p), Load(o, p))
           /\ ~HadConflict(Load(b, p), Load(m, p), Load(o, p))
    BY <1>4 DEF KeptByBothSides, Contribution, IsRaw
  <2>2. QED
    BY <1>1, <2>1, MergedIsClean DEF FirstTrue, CleanFile
<1>5. CASE part \in Contribution(other, o[other], FALSE)
  BY <1>2, <1>5 DEF Contribution
<1>6. CASE part \in Contribution(mine, m[mine], FALSE)
  BY <1>2, <1>6 DEF Contribution
<1>7. QED
  BY <1>3, <1>4, <1>5, <1>6 DEF MergePath

LEMMA MergeIsClean ==
  ASSUME RawValue = {},
         NEW b, NEW m, NEW o, CleanTree(b), CleanTree(m), CleanTree(o),
         NEW takeMine, ~Merge(b, m, o, takeMine).conflict,
         NEW tree \in Merge(b, m, o, takeMine).trees
  PROVE  CleanTree(tree)
<1> DEFINE parts == UNION {MergePath(b, m, o, takeMine, p) : p \in Path}
<1> SUFFICES ASSUME NEW q \in Path, tree[q] # NoFile PROVE CleanFile(tree[q])
  BY DEF CleanTree, CleanFile
<1>1. \A part \in parts : ~part.conflict
  BY DEF Merge
<1>2. PICK part \in parts : tree[q] = part.file
  BY DEF Merge
<1>3. PICK p \in Path : part \in MergePath(b, m, o, takeMine, p)
  BY <1>2
<1>4. QED
  BY <1>1, <1>2, <1>3, MergePathIsClean

\* What was ever published has no marker in it.
CleanInv ==
  \A c \in 1..Len(commits) :
    commits[c].message \in {"init", "publish"} => CleanTree(commits[c].tree)

\* Storing a commit keeps CleanInv, if a published one is clean.
LEMMA AddCommitClean ==
  ASSUME Stored, CleanInv, NEW parent, NEW message, NEW tree,
         message \in {"init", "publish"} => CleanTree(tree),
         AddCommit(parent, message, tree)
  PROVE  CleanInv'
<1>1. /\ NextId = Len(commits) + 1 /\ Len(commits) \in Nat
      /\ Len(commits') = Len(commits) + 1
      /\ \A c \in 1..Len(commits) : commits'[c] = commits[c]
      /\ commits'[NextId].message = message
      /\ commits'[NextId].tree = tree
  BY AddCommitEffect
<1>2. ASSUME NEW c \in 1..Len(commits'), commits'[c].message \in {"init", "publish"}
      PROVE  CleanTree(commits'[c].tree)
  <2>1. CASE c \in 1..Len(commits)
    BY <1>1, <1>2, <2>1 DEF CleanInv
  <2>2. CASE c = NextId
    BY <1>1, <1>2, <2>2
  <2>3. QED
    BY <1>1, <2>1, <2>2
<1>3. QED
  BY <1>2 DEF CleanInv

\* A step of users who publish nothing with a marker in it.
LEMMA CleanStep ==
  ASSUME RawPath = {}, RawValue = {}, Tag = {}, ResolveFirst,
         BaseInv, CleanInv, [Next]_vars
  PROVE  CleanInv'
<1>0. Stored /\ CommitsOK /\ RefsOK /\ MasterInv /\ ForkInv
  BY DEF BaseInv, TypeInv, TypeOK
<1>1. ASSUME NEW u \in User, CreateBranch(u) \/ DeleteBranch(u) PROVE CleanInv'
  BY <1>1 DEF CreateBranch, DeleteBranch, CleanInv
<1>2. ASSUME NEW u \in User, NEW changes, SaveFiles(u, changes) PROVE CleanInv'
  BY <1>0, <1>2, AddCommitClean DEF SaveFiles
<1>3. ASSUME NEW u \in User, Publish(u) PROVE CleanInv'
  <2>1. PICK force : branch[u] # 0 /\ (Squash(u) \/ MergeIn(u, force))
    BY <1>3 DEF Publish, PublishBranch
  <2>2. CleanTree(TreeOf(branch[u]))
    BY <1>3 DEF Publish, HasConflicts, CleanTree, CleanFile, Path
  <2>3. CASE Squash(u)
    BY <1>0, <2>2, <2>3, AddCommitClean DEF Squash
  <2>4. CASE MergeIn(u, force)
    <3> DEFINE result == Merge(TreeOf(MergeBase(u)), TreeOf(branch[u]),
                               TreeOf(master), force)
    <3>1. CleanTree(TreeOf(MergeBase(u))) /\ CleanTree(TreeOf(master))
      <4>1. MergeBase(u) = fork[u]
        BY <2>1, BaseInvGivesForkPoint DEF MergeBaseIsForkPoint
      <4>2. /\ master \in 1..Len(commits) /\ master \in commits[master].log
            /\ fork[u] \in commits[master].log
            /\ commits[master].log \subseteq 1..master
            /\ Len(commits) \in Nat
        BY <1>0, <2>1 DEF CommitsOK, RefsOK, ForkInv
      <4>3. fork[u] \in 1..Len(commits)
        BY <4>2
      <4>4. QED
        BY <1>0, <4>1, <4>2, <4>3 DEF MasterInv, CleanInv, TreeOf
    <3>2. PICK tree \in result.trees :
            IF result.conflict
            THEN AddCommit(branch[u], "resolve", tree)
            ELSE AddCommit(master, "publish", tree)
      BY <2>4 DEF MergeIn
    <3>3. ~result.conflict => CleanTree(tree)
      BY <2>2, <3>1, MergeIsClean
    <3> HIDE DEF result
    <3>4. QED
      BY <1>0, <3>2, <3>3, AddCommitClean
  <2>5. QED
    BY <2>1, <2>3, <2>4
<1>4. CASE UNCHANGED vars
  BY <1>4 DEF vars, CleanInv
<1>5. QED
  BY <1>1, <1>2, <1>3, <1>4 DEF Next, Save

\* Users who resolve the conflicts of a failed publish before they publish
\* again, in a repository of json files, never publish a __CONFLICT object:
\* the automatic merge of any number of branches makes none of its own.
THEOREM MasterStaysClean ==
  ASSUME RawPath = {}, RawValue = {}, Tag = {}, ResolveFirst
  PROVE  Spec => []MasterHasNoMarkers
<1>1. Init => CleanInv
  <2> SUFFICES ASSUME Init PROVE CleanInv
    OBVIOUS
  <2>1. Len(commits) = 1 /\ commits[1].tree = EmptyTree
    BY DEF Init
  <2>2. CleanTree(EmptyTree)
    BY DEF CleanTree, CleanFile, EmptyTree
  <2>3. QED
    BY <2>1, <2>2 DEF CleanInv
<1>2. BaseInv /\ CleanInv /\ [Next]_vars => CleanInv'
  BY CleanStep
<1>3. BaseInv /\ CleanInv => MasterHasNoMarkers
  <2> SUFFICES ASSUME BaseInv, CleanInv PROVE MasterHasNoMarkers
    OBVIOUS
  <2>1. master \in 1..Len(commits) /\ master \in commits[master].log
    BY DEF BaseInv, TypeInv, TypeOK, CommitsOK, RefsOK
  <2>2. CleanTree(TreeOf(master))
    BY <2>1 DEF BaseInv, MasterInv, CleanInv, TreeOf
  <2>3. QED
    BY <2>2 DEF MasterHasNoMarkers, HasConflicts, CleanTree, CleanFile, Path
<1>4. QED
  BY <1>1, <1>2, <1>3, BaseInvariant, PTL DEF Spec

-----------------------------------------------------------------------------
(* What is in the files.  Paths of json files hold json objects, whatever  *)
(* is renamed to them: raw contents never get there.                       *)

\* Raw contents are those json.loads does not parse.
RawIsNotJson == \A v \in RawValue : ~IsJson(v)

IsFile(p, file) == file = NoFile \/ IsJson(file) \/ (p \in RawPath /\ IsRaw(file))

FilesOK(tree) == \A p \in Path : IsFile(p, tree[p])

LEMMA LoadIsFile ==
  ASSUME NEW tree, FilesOK(tree), NEW p \in Path
  PROVE  /\ IsFile(p, Load(tree, p))
         /\ ~IsRaw(Load(tree, p)) => IsJson(Load(tree, p))
         /\ p \in JsonPath => IsJson(Load(tree, p))
<1>1. IsJson(EmptyJson)
  BY DEF IsJson, EmptyJson
<1>2. IsFile(p, tree[p]) /\ (p \in JsonPath => p \notin RawPath)
  BY PathAssumption DEF FilesOK
<1>3. CASE tree[p] = NoFile
  BY <1>1, <1>3 DEF Load, IsFile
<1>4. CASE tree[p] # NoFile
  BY <1>2, <1>4 DEF Load, IsFile
<1>5. QED
  BY <1>3, <1>4

\* A path that is not the old one holds what was moved there.
LEMMA MovedContents ==
  ASSUME NEW from, NEW to, NEW p, NewPath(from, to, p) # p
  PROVE  from[p] # NoFile /\ to[NewPath(from, to, p)] = from[p]
<1> DEFINE paired == {m \in Moves(from, to) : m[1] = p /\ m \in Renames(from, to)}
<1>1. paired # {} /\ NewPath(from, to, p) = (CHOOSE m \in paired : TRUE)[2]
  BY DEF NewPath
<1>2. PICK m \in paired : m = (CHOOSE n \in paired : TRUE)
  BY <1>1
<1>3. QED
  BY <1>1, <1>2 DEF Moves

\* What a path adds to a merge suits the path it ends up under.
LEMMA MergePathFiles ==
  ASSUME RawIsNotJson, NEW b, NEW m, NEW o, FilesOK(b), FilesOK(m), FilesOK(o),
         NEW takeMine, NEW p \in Path, NEW part \in MergePath(b, m, o, takeMine, p)
  PROVE  part.path \in Path /\ IsFile(part.path, part.file)
<1> DEFINE mine  == NewPath(b, m, p)
           other == NewPath(b, o, p)
<1>0. mine \in Path /\ other \in Path
  BY NewPathIsPath
<1>1. CASE part \in AddedByOneSide(b, m, o, p)
  <2>1. part.path = p
    BY <1>1 DEF AddedByOneSide, Contribution
  <2>2. \/ part.file = Load(m, p)
        \/ part.file = FirstTrue(Load(m, p), Load(o, p), Load(b, p))
    BY <1>1 DEF AddedByOneSide, Contribution
  <2>3. part.file \in {Load(m, p), Load(o, p), Load(b, p)}
    BY <2>2 DEF FirstTrue
  <2>4. QED
    BY <2>1, <2>3, LoadIsFile
<1>2. CASE part \in KeptByBothSides(b, m, o, takeMine, p)
  <2> DEFINE path  == IF mine # p THEN mine ELSE other
             found == <<Load(b, p), Load(m, p), Load(o, p)>>
  <2>1. CASE \E i \in 1..3 : IsRaw(found[i])
    <3>1. part.path = p /\ part.file = Load(m, p)
      BY <1>2, <2>1 DEF KeptByBothSides, Contribution
    <3>2. QED
      BY <3>1, LoadIsFile
  <2>2. CASE ~ \E i \in 1..3 : IsRaw(found[i])
    <3>1. ~IsRaw(Load(b, p)) /\ ~IsRaw(Load(m, p)) /\ ~IsRaw(Load(o, p))
      BY <2>2
    <3>2. IsJson(Load(b, p)) /\ IsJson(Load(m, p)) /\ IsJson(Load(o, p))
      BY <3>1, LoadIsFile
    <3>3. IsJson(Load(m, mine)) /\ IsJson(Load(o, other))
      <4>1. mine # p => Load(m, mine) = Load(b, p)
        BY MovedContents DEF Load
      <4>2. other # p => Load(o, other) = Load(b, p)
        BY MovedContents DEF Load
      <4>3. QED
        BY <3>2, <4>1, <4>2
    <3>4. IsJson(Merged(Load(b, p), Load(m, p), Load(o, p)))
      BY DEF Merged, IsJson
    <3>5. /\ part.path = path
          /\ \/ part.file = FirstTrue(Load(m, mine), Load(o, other), Load(b, p))
             \/ part.file = Merged(Load(b, p), Load(m, p), Load(o, p))
      BY <1>2, <2>2 DEF KeptByBothSides, Contribution
    <3>6. QED
      BY <1>0, <3>2, <3>3, <3>4, <3>5 DEF FirstTrue, IsFile
  <2>3. QED
    BY <2>1, <2>2
<1>3. CASE part \in Contribution(other, o[other], FALSE)
  BY <1>0, <1>3 DEF Contribution, FilesOK
<1>4. CASE part \in Contribution(mine, m[mine], FALSE)
  BY <1>0, <1>4 DEF Contribution, FilesOK
<1>5. QED
  BY <1>1, <1>2, <1>3, <1>4 DEF MergePath

LEMMA MergeFiles ==
  ASSUME RawIsNotJson, NEW b, NEW m, NEW o, FilesOK(b), FilesOK(m), FilesOK(o),
         NEW takeMine, NEW tree \in Merge(b, m, o, takeMine).trees
  PROVE  FilesOK(tree)
<1> DEFINE parts == UNION {MergePath(b, m, o, takeMine, p) : p \in Path}
<1> SUFFICES ASSUME NEW q \in Path PROVE IsFile(q, tree[q])
  BY DEF FilesOK
<1>1. \/ tree[q] = NoFile
      \/ \E part \in parts : part.path = q /\ part.file = tree[q]
  BY DEF Merge
<1>2. ASSUME NEW part \in parts, part.path = q, part.file = tree[q]
      PROVE  IsFile(q, tree[q])
  <2>1. PICK p \in Path : part \in MergePath(b, m, o, takeMine, p)
    OBVIOUS
  <2>2. QED
    BY <1>2, <2>1, MergePathFiles
<1>3. QED
  BY <1>1, <1>2 DEF IsFile

LEMMA EditedJson ==
  ASSUME NEW j, IsJson(j), NEW k, NEW v
  PROVE  IsJson([j EXCEPT ![k] = v])
<1> DEFINE edited == [j EXCEPT ![k] = v]
<1>1. edited = [i \in Field |-> IF i = k THEN v ELSE j[i]]
  BY DEF IsJson
<1> HIDE DEF edited
<1>2. QED
  BY <1>1 DEF IsJson, edited

\* What users save suits the path they save it under.
LEMMA EditsAreFiles ==
  ASSUME NEW tree, FilesOK(tree), NEW changes \in Edits(tree),
         NEW p \in DOMAIN changes
  PROVE  IsFile(p, changes[p])
<1> DEFINE edit(q, k, v) == <<q, [Load(tree, q) EXCEPT ![k] = v]>>
           jsons == {edit(q, k, v) :
                       q \in JsonPath, k \in Field, v \in Value \cup {Absent}}
           raws == RawPath \X RawValue
           deletes == {<<q, NoFile>> : q \in {q \in Path : tree[q] # NoFile}}
           moves == {m \in JsonPath \X JsonPath :
                       tree[m[1]] # NoFile /\ tree[m[2]] = NoFile}
           one(c) == [q \in {c[1]} |-> c[2]]
           move(m) == [q \in {m[1], m[2]} |-> IF q = m[1] THEN NoFile ELSE tree[m[1]]]
<1>0. \/ \E c \in jsons : changes = one(c)
      \/ \E c \in raws : changes = one(c)
      \/ \E c \in deletes : changes = one(c)
      \/ \E m \in moves : changes = move(m)
  <2> DEFINE sets == jsons \cup raws
  <2>1. Edits(tree) = (IF "set" \in EditKinds THEN {one(c) : c \in sets} ELSE {})
               \cup (IF "delete" \in EditKinds THEN {one(c) : c \in deletes} ELSE {})
               \cup (IF "move" \in EditKinds THEN {move(m) : m \in moves} ELSE {})
    BY DEF Edits
  <2> HIDE DEF jsons, raws, deletes, moves, one, move
  <2>2. \/ \E c \in sets : changes = one(c)
        \/ \E c \in deletes : changes = one(c)
        \/ \E m \in moves : changes = move(m)
    BY <2>1, Zenon
  <2>3. QED
    BY <2>2, Zenon
<1>1. ASSUME NEW c \in jsons, changes = one(c) PROVE IsFile(p, changes[p])
  <2>1. p = c[1] /\ changes[p] = c[2]
    BY <1>1
  <2>2. PICK q \in JsonPath, k \in Field, v \in Value \cup {Absent} :
               c = edit(q, k, v)
    <3> HIDE DEF edit
    <3>1. QED
      OBVIOUS
  <2>3. IsJson(Load(tree, q))
    BY LoadIsFile DEF Path
  <2>4. IsJson([Load(tree, q) EXCEPT ![k] = v])
    BY <2>3, EditedJson
  <2>5. c[2] = [Load(tree, q) EXCEPT ![k] = v]
    BY <2>2
  <2>6. QED
    BY <2>1, <2>4, <2>5 DEF IsFile
<1>2. ASSUME NEW c \in raws, changes = one(c) PROVE IsFile(p, changes[p])
  BY <1>2 DEF IsFile, IsRaw
<1>3. ASSUME NEW c \in deletes, changes = one(c) PROVE IsFile(p, changes[p])
  BY <1>3 DEF IsFile
<1>4. ASSUME NEW m \in moves, changes = move(m) PROVE IsFile(p, changes[p])
  <2>1. m[1] \in Path /\ m[1] \in JsonPath /\ m[1] \notin RawPath
    BY PathAssumption DEF Path
  <2>2. IsJson(tree[m[1]])
    BY <2>1 DEF FilesOK, IsFile
  <2>3. QED
    BY <1>4, <2>2 DEF IsFile
<1> HIDE DEF jsons, raws, deletes, moves, one, move
<1>5. QED
  BY <1>0, <1>1, <1>2, <1>3, <1>4

FilesInv == \A c \in 1..Len(commits) : FilesOK(commits[c].tree)

LEMMA AddCommitFiles ==
  ASSUME Stored, FilesInv, NEW parent, NEW message, NEW tree, FilesOK(tree),
         AddCommit(parent, message, tree)
  PROVE  FilesInv'
<1>1. /\ NextId = Len(commits) + 1 /\ Len(commits) \in Nat
      /\ Len(commits') = Len(commits) + 1
      /\ \A c \in 1..Len(commits) : commits'[c] = commits[c]
      /\ commits'[NextId].tree = tree
  BY AddCommitEffect
<1>2. ASSUME NEW c \in 1..Len(commits') PROVE FilesOK(commits'[c].tree)
  <2>1. CASE c \in 1..Len(commits)
    BY <1>1, <2>1 DEF FilesInv
  <2>2. CASE c = NextId
    BY <1>1, <2>2
  <2>3. QED
    BY <1>1, <2>1, <2>2
<1>3. QED
  BY <1>2 DEF FilesInv

\* Where no tag is used, a step leaves the right kind of file at each path.
LEMMA FilesStep ==
  ASSUME RawIsNotJson, Tag = {}, BaseInv, FilesInv, [Next]_vars
  PROVE  FilesInv'
<1>0. /\ Stored /\ Len(commits) \in Nat /\ master \in 1..Len(commits)
      /\ \A u \in User : branch[u] \in 0..Len(commits)
  BY DEF BaseInv, TypeInv, TypeOK, CommitsOK, RefsOK
<1>1. ASSUME NEW u \in User, CreateBranch(u) \/ DeleteBranch(u) PROVE FilesInv'
  BY <1>1 DEF CreateBranch, DeleteBranch, FilesInv
<1>2. ASSUME NEW u \in User, Save(u) PROVE FilesInv'
  <2> DEFINE parent == IF branch[u] = 0 THEN master ELSE branch[u]
  <2>1. PICK changes \in Edits(TreeOf(parent)) : SaveFiles(u, changes)
    BY <1>2 DEF Save
  <2> DEFINE tree == [p \in Path |-> IF p \in DOMAIN changes THEN changes[p]
                                     ELSE TreeOf(parent)[p]]
  <2>2. AddCommit(parent, "save", tree)
    BY <2>1 DEF SaveFiles
  <2>3. FilesOK(TreeOf(parent))
    BY <1>0 DEF FilesInv, TreeOf
  <2>4. FilesOK(tree)
    BY <2>1, <2>3, EditsAreFiles DEF FilesOK
  <2> HIDE DEF tree, parent
  <2>5. QED
    BY <1>0, <2>2, <2>4, AddCommitFiles
<1>3. ASSUME NEW u \in User, Publish(u) PROVE FilesInv'
  <2>1. PICK force : branch[u] # 0 /\ (Squash(u) \/ MergeIn(u, force))
    BY <1>3 DEF Publish, PublishBranch
  <2>2. FilesOK(TreeOf(branch[u])) /\ FilesOK(TreeOf(master))
    BY <1>0, <2>1 DEF FilesInv, TreeOf
  <2>3. CASE Squash(u)
    BY <1>0, <2>2, <2>3, AddCommitFiles DEF Squash
  <2>4. CASE MergeIn(u, force)
    <3>1. FilesOK(TreeOf(MergeBase(u)))
      <4>1. MergeBase(u) = fork[u] /\ fork[u] \in commits[master].log
        BY <2>1, BaseInvGivesForkPoint DEF MergeBaseIsForkPoint, BaseInv, ForkInv
      <4>2. commits[master].log \subseteq 1..master
        BY <1>0 DEF BaseInv, TypeInv, TypeOK, CommitsOK
      <4>3. fork[u] \in 1..Len(commits)
        BY <1>0, <4>1, <4>2
      <4>4. QED
        BY <4>1, <4>3 DEF FilesInv, TreeOf
    <3>2. PICK tree \in Merge(TreeOf(MergeBase(u)), TreeOf(branch[u]),
                              TreeOf(master), force).trees :
            \/ AddCommit(branch[u], "resolve", tree)
            \/ AddCommit(master, "publish", tree)
      BY <2>4 DEF MergeIn
    <3>3. FilesOK(tree)
      BY <2>2, <3>1, MergeFiles
    <3>4. QED
      BY <1>0, <3>2, <3>3, AddCommitFiles
  <2>5. QED
    BY <2>1, <2>3, <2>4
<1>4. CASE UNCHANGED vars
  BY <1>4 DEF vars, FilesInv
<1>5. QED
  BY <1>1, <1>2, <1>3, <1>4 DEF Next

LEMMA FilesInvariant ==
  ASSUME RawIsNotJson, Tag = {}
  PROVE  Spec => [](BaseInv /\ FilesInv)
<1>1. Init => FilesInv
  <2> SUFFICES ASSUME Init PROVE FilesInv
    OBVIOUS
  <2>1. Len(commits) = 1 /\ commits[1].tree = EmptyTree
    BY DEF Init
  <2>2. FilesOK(EmptyTree)
    BY DEF FilesOK, IsFile, EmptyTree
  <2>3. QED
    BY <2>1, <2>2 DEF FilesInv
<1>2. BaseInv /\ FilesInv /\ [Next]_vars => FilesInv'
  BY FilesStep
<1>3. QED
  BY <1>1, <1>2, BaseInvariant, PTL DEF Spec

-----------------------------------------------------------------------------
(* Merges of files that were not moved.                                    *)

\* With no candidate for a rename there is no rename.
LEMMA ChangeOfUnmoved ==
  ASSUME NEW from, NEW to, Moves(from, to) = {}, NEW p
  PROVE  /\ NewPath(from, to, p) = p
         /\ from[p] # NoFile /\ to[p] = from[p] => Change(from, to, p) = "unchanged"
         /\ from[p] # NoFile /\ to[p] = NoFile  => Change(from, to, p) = "delete"
         /\ from[p] # NoFile /\ to[p] \notin {from[p], NoFile}
              => Change(from, to, p) = "modify"
         /\ from[p] = NoFile /\ to[p] # NoFile  => Change(from, to, p) = "add"
         /\ from[p] = NoFile /\ to[p] = NoFile  => Change(from, to, p) = "none"
<1> DEFINE Pairings == {R \in SUBSET Moves(from, to) :
                          \A r, s \in R : r[1] = s[1] <=> r[2] = s[2]}
<1>1. Renames(from, to) = {}
  <2>1. {} \in Pairings /\ \A R \in Pairings : R = {}
    OBVIOUS
  <2>2. \A S \in Pairings : Cardinality(S) <= Cardinality({})
    BY <2>1, FS_EmptySet
  <2>3. Renames(from, to) = CHOOSE R \in Pairings :
                              \A S \in Pairings : Cardinality(S) <= Cardinality(R)
    BY DEF Renames
  <2> HIDE DEF Pairings
  <2>4. Renames(from, to) \in Pairings
    BY <2>1, <2>2, <2>3
  <2>5. QED
    BY <2>1, <2>4
<1>2. NewPath(from, to, p) = p
  BY DEF NewPath
<1>3. QED
  BY <1>1, <1>2 DEF Change

\* Then what the merge puts at a path comes from that path.
LEMMA MergedAtPath ==
  ASSUME NEW b, NEW m, NEW o, Moves(b, m) = {}, Moves(b, o) = {},
         NEW p \in Path, NEW tree \in Merge(b, m, o, FALSE).trees
  PROVE  \/ MergePath(b, m, o, FALSE, p) = {} /\ tree[p] = NoFile
         \/ \E part \in MergePath(b, m, o, FALSE, p) : tree[p] = part.file
<1> DEFINE parts == UNION {MergePath(b, m, o, FALSE, q) : q \in Path}
           filesAt(q) == {part.file : part \in {x \in parts : x.path = q}}
<1>1. ASSUME NEW q \in Path, NEW part \in MergePath(b, m, o, FALSE, q)
      PROVE  part.path = q
  <2>1. NewPath(b, m, q) = q /\ NewPath(b, o, q) = q
    BY ChangeOfUnmoved
  <2>2. \/ part \in AddedByOneSide(b, m, o, q)
        \/ part \in KeptByBothSides(b, m, o, FALSE, q)
        \/ part \in Contribution(NewPath(b, o, q), o[NewPath(b, o, q)], FALSE)
        \/ part \in Contribution(NewPath(b, m, q), m[NewPath(b, m, q)], FALSE)
    BY <1>1 DEF MergePath
  <2>3. QED
    BY <2>1, <2>2 DEF AddedByOneSide, KeptByBothSides, Contribution
<1>2. IF filesAt(p) = {} THEN tree[p] = NoFile ELSE tree[p] \in filesAt(p)
  BY DEF Merge
<1>3. filesAt(p) = {part.file : part \in MergePath(b, m, o, FALSE, p)}
  BY <1>1
<1> HIDE DEF filesAt
<1>4. QED
  BY <1>2, <1>3

LEMMA OneContribution ==
  ASSUME NEW p, NEW file, NEW conflict
  PROVE  /\ Contribution(p, file, conflict) # {}
         /\ \A part \in Contribution(p, file, conflict) :
              part.file = file /\ part.conflict = conflict
BY DEF Contribution

LEMMA ReportedConflict ==
  ASSUME NEW p, NEW file, NEW b, NEW m, NEW o,
         NEW part \in Contribution(p, file, HadConflict(b, m, o)), part.conflict
  PROVE  HadConflict(b, m, o)
BY DEF Contribution, HadConflict

LEMMA OneCleanContribution ==
  ASSUME NEW p, NEW file
  PROVE  /\ Contribution(p, file, FALSE) # {}
         /\ \A part \in Contribution(p, file, FALSE) : part.file = file
BY DEF Contribution

LEMMA MergedJsonAtPath ==
  ASSUME NEW b, NEW m, NEW o, Moves(b, m) = {}, Moves(b, o) = {},
         NEW p \in Path, NEW tree \in Merge(b, m, o, FALSE).trees,
         NEW file, NEW x, NEW y, NEW z,
         MergePath(b, m, o, FALSE, p) = Contribution(p, file, HadConflict(x, y, z))
  PROVE  tree[p] = file
<1> DEFINE parts == MergePath(b, m, o, FALSE, p)
<1>1. \/ parts = {} /\ tree[p] = NoFile
      \/ \E part \in parts : tree[p] = part.file
  BY MergedAtPath
<1>2. parts = Contribution(p, file, HadConflict(x, y, z))
  OBVIOUS
<1> HIDE DEF parts
<1>3. QED
  BY <1>1, <1>2, OneContribution

\* Field by field, the merge keeps what one side changed and what both sides
\* changed alike.
LEMMA MergedFields ==
  ASSUME NEW b, NEW m, NEW o, NEW k \in Field, ~FieldConflict(b, m, o, k)
  PROVE  /\ m[k] = b[k] => MergeField(b, m, o, k) = o[k]
         /\ o[k] = b[k] => MergeField(b, m, o, k) = m[k]
         /\ MergeField(b, m, o, k) \in {m[k], o[k]}
BY DEF MergeField, FieldConflict, Op

\* A merge without conflict makes of each json file what MergedFile says.
LEMMA MergeKeepsBothSides ==
  ASSUME RawIsNotJson, NEW b, NEW m, NEW o, FilesOK(b), FilesOK(m), FilesOK(o),
         Moves(b, m) = {}, Moves(b, o) = {},
         ~Merge(b, m, o, FALSE).conflict,
         NEW tree \in Merge(b, m, o, FALSE).trees, NEW p \in JsonPath
  PROVE  MergedFile(b[p], m[p], o[p], tree[p])
<1> DEFINE parts == MergePath(b, m, o, FALSE, p)
           my    == Change(b, m, p)
           their == Change(b, o, p)
<1>0. /\ p \in Path
      /\ IsJson(Load(b, p)) /\ IsJson(Load(m, p)) /\ IsJson(Load(o, p))
      /\ ~IsRaw(Load(b, p)) /\ ~IsRaw(Load(m, p)) /\ ~IsRaw(Load(o, p))
  <2>1. p \in Path
    BY DEF Path
  <2>2. IsJson(Load(b, p)) /\ IsJson(Load(m, p)) /\ IsJson(Load(o, p))
    BY <2>1, LoadIsFile
  <2>3. QED
    BY <2>1, <2>2 DEF RawIsNotJson, IsRaw
<1>1. \/ parts = {} /\ tree[p] = NoFile
      \/ \E part \in parts : tree[p] = part.file
  BY <1>0, MergedAtPath
<1>2. /\ NewPath(b, m, p) = p /\ NewPath(b, o, p) = p
      /\ b[p] # NoFile /\ m[p] = b[p]   => my = "unchanged"
      /\ b[p] # NoFile /\ m[p] = NoFile => my = "delete"
      /\ b[p] # NoFile /\ m[p] \notin {b[p], NoFile} => my = "modify"
      /\ b[p] = NoFile /\ m[p] # NoFile => my = "add"
      /\ b[p] = NoFile /\ m[p] = NoFile => my = "none"
  BY ChangeOfUnmoved
<1>3. /\ b[p] # NoFile /\ o[p] = b[p]   => their = "unchanged"
      /\ b[p] # NoFile /\ o[p] = NoFile => their = "delete"
      /\ b[p] # NoFile /\ o[p] \notin {b[p], NoFile} => their = "modify"
      /\ b[p] = NoFile /\ o[p] # NoFile => their = "add"
      /\ b[p] = NoFile /\ o[p] = NoFile => their = "none"
  BY ChangeOfUnmoved
<1>4. parts = CASE my = "none" /\ their = "none" -> {}
                [] (my = "none") # (their = "none") -> AddedByOneSide(b, m, o, p)
                [] my = "delete" /\ their # "none" ->
                     IF their \in {"rename", "modify"}
                     THEN Contribution(p, o[p], FALSE) ELSE {}
                [] their = "delete" /\ my \notin {"none", "delete"} ->
                     IF my \in {"rename", "modify"}
                     THEN Contribution(p, m[p], FALSE) ELSE {}
                [] OTHER -> KeptByBothSides(b, m, o, FALSE, p)
  BY <1>2 DEF MergePath
<1> HIDE DEF parts, my, their
<1>5. CASE m[p] = NoFile /\ o[p] = NoFile
  <2>1. parts = {}
    BY <1>2, <1>3, <1>4, <1>5
  <2>2. QED
    BY <1>1, <1>5, <2>1 DEF MergedFile
<1>6. CASE b[p] = NoFile /\ m[p] = NoFile /\ o[p] # NoFile
  <2>1. parts = AddedByOneSide(b, m, o, p)
    BY <1>2, <1>3, <1>4, <1>6
  <2>2. parts = Contribution(p, o[p], FALSE)
    BY <1>0, <1>6, <2>1 DEF AddedByOneSide, Load, FirstTrue
  <2>3. tree[p] = o[p]
    BY <1>1, <2>2, OneCleanContribution
  <2>4. QED
    BY <1>6, <2>3 DEF MergedFile
<1>7. CASE b[p] = NoFile /\ m[p] # NoFile /\ o[p] = NoFile
  <2>1. parts = AddedByOneSide(b, m, o, p)
    BY <1>2, <1>3, <1>4, <1>7
  <2>2. parts = Contribution(p, m[p], FALSE)
    BY <1>0, <1>7, <2>1 DEF AddedByOneSide, Load, FirstTrue
  <2>3. tree[p] = m[p]
    BY <1>1, <2>2, OneCleanContribution
  <2>4. QED
    BY <1>7, <2>3 DEF MergedFile
<1>8. CASE b[p] # NoFile /\ m[p] = NoFile /\ o[p] # NoFile
  <2>1. parts = IF o[p] = b[p] THEN {} ELSE Contribution(p, o[p], FALSE)
    BY <1>2, <1>3, <1>4, <1>8
  <2>2. tree[p] = IF o[p] = b[p] THEN NoFile ELSE o[p]
    BY <1>1, <2>1, OneCleanContribution
  <2>3. QED
    BY <1>8, <2>2 DEF MergedFile
<1>9. CASE b[p] # NoFile /\ m[p] # NoFile /\ o[p] = NoFile
  <2>1. parts = IF m[p] = b[p] THEN {} ELSE Contribution(p, m[p], FALSE)
    BY <1>2, <1>3, <1>4, <1>9
  <2>2. tree[p] = IF m[p] = b[p] THEN NoFile ELSE m[p]
    BY <1>1, <2>1, OneCleanContribution
  <2>3. QED
    BY <1>9, <2>2 DEF MergedFile
<1>10. CASE m[p] # NoFile /\ o[p] # NoFile
  <2> DEFINE base  == Load(b, p)
  <2>1. /\ Load(m, p) = m[p] /\ Load(o, p) = o[p]
        /\ base = IF b[p] = NoFile THEN EmptyJson ELSE b[p]
    BY <1>10 DEF Load
  <2>2. parts = KeptByBothSides(b, m, o, FALSE, p)
    BY <1>2, <1>3, <1>4, <1>10
  <2>3. parts = Contribution(p, Merged(base, m[p], o[p]), HadConflict(base, m[p], o[p]))
    <3> DEFINE found == <<base, Load(m, p), Load(o, p)>>
    <3>1. ~ \E i \in 1..3 : IsRaw(found[i])
      <4>1. \A i \in 1..3 : i = 1 \/ i = 2 \/ i = 3
        OBVIOUS
      <4>2. QED
        BY <1>0, <4>1
    <3>2. found[1] = base /\ found[2] = m[p] /\ found[3] = o[p]
      BY <2>1
    <3> HIDE DEF found
    <3>3. parts = Contribution(p, Merged(found[1], found[2], found[3]),
                               HadConflict(found[1], found[2], found[3]))
      BY <1>2, <2>2, <3>1 DEF KeptByBothSides, found
    <3>4. QED
      BY <3>2, <3>3
  <2>4. tree[p] = Merged(base, m[p], o[p])
    BY <1>1, <2>3, OneContribution
  <2>5. ~HadConflict(base, m[p], o[p])
    <3>1. \A part \in parts : ~part.conflict
      BY <1>0 DEF Merge, parts
    <3>2. QED
      BY <2>3, <3>1, OneContribution
  <2> HIDE DEF base
  <2>6. ASSUME NEW k \in Field
        PROVE  /\ m[p][k] = base[k] => tree[p][k] = o[p][k]
               /\ o[p][k] = base[k] => tree[p][k] = m[p][k]
               /\ tree[p][k] \in {m[p][k], o[p][k]}
    <3>1. ~FieldConflict(base, m[p], o[p], k)
      BY <2>5 DEF HadConflict
    <3>2. tree[p][k] = MergeField(base, m[p], o[p], k)
      BY <2>4 DEF Merged
    <3>3. QED
      BY <3>1, <3>2, MergedFields
  <2>7. IsJson(tree[p]) /\ IsJson(m[p]) /\ IsJson(o[p])
    BY <1>0, <2>1, <2>4 DEF Merged, IsJson
  <2>8. m[p] = b[p] => tree[p] = o[p]
    BY <1>10, <2>1, <2>6, <2>7 DEF IsJson
  <2>9. o[p] = b[p] => tree[p] = m[p]
    BY <1>10, <2>1, <2>6, <2>7 DEF IsJson
  <2>10. QED
    BY <1>10, <2>1, <2>6, <2>8, <2>9 DEF MergedFile
<1>11. QED
  BY <1>5, <1>6, <1>7, <1>8, <1>9, <1>10

\* In a conflict both sides changed the key, and not alike.
LEMMA ConflictIsOfBothSides ==
  ASSUME NEW b, NEW m, NEW o, NEW k, FieldConflict(b, m, o, k)
  PROVE  m[k] \notin {b[k], o[k]} /\ o[k] # b[k]
BY DEF FieldConflict, Op, EqVals, Get

\* Of a merge: it has a conflict, and a conflict is found in the merged tree.
HasConflict(b, m, o) ==
  \E p \in Path : \E part \in MergePath(b, m, o, FALSE, p) : part.conflict

ConflictIsKept(b, m, o, tree) ==
  \E p \in JsonPath, k \in Field :
    /\ FieldConflict(Load(b, p), Load(m, p), Load(o, p), k)
    /\ tree[p][k] = Marker(Load(b, p), Load(m, p), Load(o, p), k)

\* A merge of json files has a conflict only where both sides changed a key,
\* and it leaves a marker with their values there.
LEMMA MergeKeepsConflicts ==
  ASSUME RawIsNotJson, RawPath = {}, NEW b, NEW m, NEW o,
         FilesOK(b), FilesOK(m), FilesOK(o),
         Moves(b, m) = {}, Moves(b, o) = {},
         HasConflict(b, m, o), NEW tree \in Merge(b, m, o, FALSE).trees
  PROVE  ConflictIsKept(b, m, o, tree)
<1>1. PICK p \in Path : \E part \in MergePath(b, m, o, FALSE, p) : part.conflict
  BY DEF HasConflict
<1>2. PICK part \in MergePath(b, m, o, FALSE, p) : part.conflict
  BY <1>1
<1>3. p \in JsonPath
  BY DEF Path
<1> DEFINE found == <<Load(b, p), Load(m, p), Load(o, p)>>
<1>4. ~ \E i \in 1..3 : IsRaw(found[i])
  <2>1. IsJson(Load(b, p)) /\ IsJson(Load(m, p)) /\ IsJson(Load(o, p))
    BY <1>1, <1>3, LoadIsFile
  <2>2. \A i \in 1..3 : i = 1 \/ i = 2 \/ i = 3
    OBVIOUS
  <2>3. QED
    BY <2>1, <2>2 DEF RawIsNotJson, IsRaw
<1>5. NewPath(b, m, p) = p /\ NewPath(b, o, p) = p
  BY ChangeOfUnmoved
<1>6. MergePath(b, m, o, FALSE, p) = KeptByBothSides(b, m, o, FALSE, p)
  <2>1. \/ MergePath(b, m, o, FALSE, p) = {}
        \/ MergePath(b, m, o, FALSE, p) = AddedByOneSide(b, m, o, p)
        \/ MergePath(b, m, o, FALSE, p) = Contribution(p, o[p], FALSE)
        \/ MergePath(b, m, o, FALSE, p) = Contribution(p, m[p], FALSE)
        \/ MergePath(b, m, o, FALSE, p) = KeptByBothSides(b, m, o, FALSE, p)
    BY <1>5 DEF MergePath
  <2>2. \A q, file : \A x \in Contribution(q, file, FALSE) : ~x.conflict
    BY DEF Contribution
  <2>3. QED
    BY <1>2, <2>1, <2>2 DEF AddedByOneSide
<1>7. MergePath(b, m, o, FALSE, p) =
        Contribution(p, Merged(Load(b, p), Load(m, p), Load(o, p)),
                     HadConflict(Load(b, p), Load(m, p), Load(o, p)))
  <2>1. found[1] = Load(b, p) /\ found[2] = Load(m, p) /\ found[3] = Load(o, p)
    OBVIOUS
  <2> HIDE DEF found
  <2>2. MergePath(b, m, o, FALSE, p) =
          Contribution(p, Merged(found[1], found[2], found[3]),
                       HadConflict(found[1], found[2], found[3]))
    BY <1>4, <1>5, <1>6 DEF KeptByBothSides, found
  <2>3. QED
    BY <2>1, <2>2
<1> DEFINE parts == MergePath(b, m, o, FALSE, p)
<1> HIDE DEF parts
<1>8. PICK k \in Field : FieldConflict(Load(b, p), Load(m, p), Load(o, p), k)
  <2>1. HadConflict(Load(b, p), Load(m, p), Load(o, p))
    <3>1. \E x \in parts : x.conflict
      BY <1>1 DEF parts
    <3>2. QED
      BY <1>7, <3>1, ReportedConflict DEF parts
  <2>2. QED
    BY <2>1 DEF HadConflict
<1>9. tree[p] = Merged(Load(b, p), Load(m, p), Load(o, p))
  BY <1>1, <1>7, MergedJsonAtPath
<1>10. tree[p][k] = Marker(Load(b, p), Load(m, p), Load(o, p), k)
  <2>1. MergeField(Load(b, p), Load(m, p), Load(o, p), k) =
          Marker(Load(b, p), Load(m, p), Load(o, p), k)
    <3>1. Op(Load(b, p), Load(m, p), k) \notin {"NONE", "UNCHANGED"}
      BY <1>8 DEF FieldConflict
    <3>2. QED
      BY <1>8, <3>1 DEF MergeField
  <2>2. QED
    BY <1>9, <2>1 DEF Merged
<1>11. QED
  BY <1>3, <1>8, <1>10 DEF ConflictIsKept

\* What a publish merges: files of the right kind, against the fork point.
LEMMA WhatIsMerged ==
  ASSUME BaseInv, FilesInv, NEW u \in User, branch[u] # 0
  PROVE  /\ MergeBase(u) = fork[u]
         /\ FilesOK(TreeOf(fork[u])) /\ FilesOK(TreeOf(branch[u]))
         /\ FilesOK(TreeOf(master))
         /\ MasterIsAncestor(u) => fork[u] = master
         /\ \A c \in {fork[u], branch[u], master} : c \in 1..Len(commits)
<1>1. MergeBase(u) = fork[u]
  BY BaseInvGivesForkPoint DEF MergeBaseIsForkPoint
<1>2. /\ Len(commits) \in Nat /\ master \in 1..Len(commits)
      /\ branch[u] \in 1..Len(commits)
      /\ fork[u] \in commits[master].log
      /\ commits[master].log \subseteq 1..master
  BY DEF BaseInv, TypeInv, TypeOK, CommitsOK, RefsOK, ForkInv
<1>3. fork[u] \in 1..Len(commits) /\ fork[u] <= master
  BY <1>2
<1>4. MasterIsAncestor(u) => fork[u] = master
  <2> SUFFICES ASSUME master \in commits[branch[u]].log PROVE fork[u] = master
    BY DEF MasterIsAncestor
  <2>1. commits[master].message \notin {"save", "resolve"}
    BY <1>2 DEF BaseInv, MasterInv, TypeInv, TypeOK, CommitsOK
  <2>2. ~(master > fork[u])
    BY <2>1 DEF BaseInv, ForkInv
  <2>3. QED
    BY <1>2, <1>3, <2>2
<1>5. QED
  BY <1>1, <1>2, <1>3, <1>4 DEF FilesInv, TreeOf

\* A publish loses no work on json files that were not moved: what it puts on
\* master holds what the publisher did since the fork and what others
\* published since, whatever their number and their earlier publishes.
THEOREM PublishKeepsBothSides ==
  ASSUME RawIsNotJson, Tag = {}
  PROVE  Spec => PublishMergesJson
<1>1. ASSUME BaseInv, FilesInv, NEW u \in User, PublishBranch(u, FALSE),
             master' # master, NothingMoved(u), NEW p \in JsonPath
      PROVE  PublishedFile(u, p)
  <2>0. branch[u] # 0 /\ Stored
    BY <1>1 DEF PublishBranch, BaseInv, TypeInv
  <2>1. /\ MergeBase(u) = fork[u]
        /\ FilesOK(TreeOf(fork[u])) /\ FilesOK(TreeOf(branch[u]))
        /\ FilesOK(TreeOf(master))
        /\ MasterIsAncestor(u) => fork[u] = master
    BY <1>1, <2>0, WhatIsMerged
  <2>2. CASE Squash(u)
    <3>1. commits'[master'].tree = TreeOf(branch[u])
      BY <2>0, <2>2, AddCommitEffect DEF Squash
    <3>2. fork[u] = master
      BY <2>1, <2>2 DEF Squash
    <3>3. QED
      BY <3>1, <3>2 DEF PublishedFile, MergedFile
  <2>3. CASE MergeIn(u, FALSE)
    <3> DEFINE result == Merge(TreeOf(fork[u]), TreeOf(branch[u]), TreeOf(master), FALSE)
    <3>1. PICK tree \in result.trees :
            /\ ~result.conflict
            /\ AddCommit(master, "publish", tree)
            /\ master' = NextId
      BY <1>1, <2>1, <2>3 DEF MergeIn
    <3>2. commits'[master'].tree = tree
      BY <2>0, <3>1, AddCommitEffect
    <3>3. MergedFile(TreeOf(fork[u])[p], TreeOf(branch[u])[p], TreeOf(master)[p], tree[p])
      BY <1>1, <2>1, <3>1, MergeKeepsBothSides DEF NothingMoved
    <3>4. QED
      BY <3>2, <3>3 DEF PublishedFile
  <2>4. QED
    BY <1>1, <2>2, <2>3 DEF PublishBranch
<1>2. BaseInv /\ FilesInv /\ [Next]_vars =>
        [\A u \in User : (PublishBranch(u, FALSE) /\ master' # master /\ NothingMoved(u))
                            => \A p \in JsonPath : PublishedFile(u, p)]_vars
  BY <1>1
<1>3. QED
  BY <1>2, FilesInvariant, PTL DEF Spec, PublishMergesJson

\* In a repository of json files a publish is refused only where the publisher
\* and others changed one key differently, and the branch then has both values.
THEOREM RefusedPublishKeepsBoth ==
  ASSUME RawIsNotJson, RawPath = {}, Tag = {}
  PROVE  Spec => FailedPublishKeepsBoth
<1> DEFINE file(c, p) == Load(TreeOf(c), p)
           Kept(u, p, k) ==
             /\ file(branch[u], p)[k] \notin {file(fork[u], p)[k], file(master, p)[k]}
             /\ file(master, p)[k] # file(fork[u], p)[k]
             /\ commits'[branch'[u]].tree[p][k] =
                  [base_val  |-> Get(file(fork[u], p), k),
                   my_val    |-> Get(file(branch[u], p), k),
                   other_val |-> Get(file(master, p), k)]
<1>1. ASSUME BaseInv, FilesInv, NEW u \in User, PublishBranch(u, FALSE),
             branch'[u] # branch[u], NothingMoved(u)
      PROVE  \E p \in JsonPath, k \in Field : Kept(u, p, k)
  <2>0. branch[u] # 0 /\ Stored /\ branch \in [User -> 0..Len(commits)]
    BY <1>1 DEF PublishBranch, BaseInv, TypeInv, TypeOK, RefsOK
  <2>1. /\ MergeBase(u) = fork[u]
        /\ FilesOK(TreeOf(fork[u])) /\ FilesOK(TreeOf(branch[u]))
        /\ FilesOK(TreeOf(master))
    BY <1>1, <2>0, WhatIsMerged
  <2> DEFINE result == Merge(TreeOf(fork[u]), TreeOf(branch[u]), TreeOf(master), FALSE)
  <2>2. PICK tree \in result.trees :
          /\ result.conflict
          /\ AddCommit(branch[u], "resolve", tree)
          /\ branch' = [branch EXCEPT ![u] = NextId]
    BY <1>1, <2>1 DEF PublishBranch, Squash, MergeIn
  <2>3. commits'[branch'[u]].tree = tree
    BY <2>0, <2>2, AddCommitEffect
  <2>4. PICK p \in JsonPath, k \in Field :
          /\ FieldConflict(file(fork[u], p), file(branch[u], p), file(master, p), k)
          /\ tree[p][k] = Marker(file(fork[u], p), file(branch[u], p), file(master, p), k)
    <3>1. HasConflict(TreeOf(fork[u]), TreeOf(branch[u]), TreeOf(master))
      BY <2>2 DEF Merge, HasConflict
    <3>2. /\ Moves(TreeOf(fork[u]), TreeOf(branch[u])) = {}
          /\ Moves(TreeOf(fork[u]), TreeOf(master)) = {}
      BY <1>1 DEF NothingMoved
    <3>3. ConflictIsKept(TreeOf(fork[u]), TreeOf(branch[u]), TreeOf(master), tree)
      BY <2>1, <3>1, <3>2, MergeKeepsConflicts
    <3>4. QED
      BY <3>3 DEF ConflictIsKept
  <2>5. Kept(u, p, k)
    BY <2>3, <2>4, ConflictIsOfBothSides DEF Marker
  <2>6. QED
    BY <2>5
<1>2. BaseInv /\ FilesInv /\ [Next]_vars =>
        [\A u \in User :
           (PublishBranch(u, FALSE) /\ branch'[u] # branch[u] /\ NothingMoved(u))
              => \E p \in JsonPath, k \in Field : Kept(u, p, k)]_vars
  <2> HIDE DEF Kept
  <2>1. QED
    BY <1>1
<1>3. [][\A u \in User :
           (PublishBranch(u, FALSE) /\ branch'[u] # branch[u] /\ NothingMoved(u))
              => \E p \in JsonPath, k \in Field : Kept(u, p, k)]_vars
        => FailedPublishKeepsBoth
  BY PTL DEF FailedPublishKeepsBoth
<1>4. QED
  BY <1>2, <1>3, FilesInvariant, PTL DEF Spec
============================================================================
