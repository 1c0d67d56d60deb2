----------------------------- MODULE MCRepoman -----------------------------
(***************************************************************************)
(* Repoman on small instances, and what its docstrings and comments say of *)
(* it that the code does not do.                                           *)
(***************************************************************************)
EXTENDS Repoman, TLC

\* Users are alike, and so are the values of keys.
Symmetry == Permutations(User) \cup Permutations(Value)

\* Start with a published project instead of an empty one: the state the
\* program is in after the first user's first save, publish and branch
\* deletion, but for the saved commit, which nothing refers to.
InitPublished ==
  \E file \in [Field -> Value], present \in SUBSET JsonPath \ {{}},
     raw \in [RawPath -> RawValue \cup {NoFile}] :
    LET first == [parent |-> 0, message |-> "init", tree |-> EmptyTree, log |-> {1}]
    IN /\ commits = <<first, [parent |-> 1, message |-> "publish", log |-> {1, 2},
                             tree |-> [p \in Path |-> IF p \in present THEN file
                                                 ELSE IF p \in RawPath THEN raw[p]
                                                 ELSE NoFile]]>>
       /\ master = 2
       /\ branch = [u \in User |-> 0]
       /\ tags = [t \in Tag |-> 0]
       /\ fork = [u \in User |-> 0]
       /\ merged = [u \in User |-> 0]

SpecPublished == InitPublished /\ [][Next]_vars

\* "User B resolves the pending conflicts.  User B publishes his changes": the
\* publish succeeds if nobody published since the one that failed.
ResolvedPublishSucceeds ==
  [][\A u \in User :
       (/\ PublishBranch(u, FALSE)
        /\ merged[u] = master
        /\ ~HasConflicts(TreeOf(branch[u]))) => master' # master]_vars

\* "a three way merge is performed": of files that are not json too, what
\* others made of a file that was there when I started, and that I did not
\* touch, is still there after my publish.
PublishKeepsOthersRawFiles ==
  [][\A u \in User, p \in RawPath :
       (/\ PublishBranch(u, FALSE) /\ master' # master
        /\ TreeOf(branch[u])[p] = TreeOf(fork[u])[p]
        /\ NoFile \notin {TreeOf(fork[u])[p], TreeOf(master)[p]})
         => commits'[master'].tree[p] = TreeOf(master)[p]]_vars
============================================================================
