----------------------------- MODULE MCSessions -----------------------------
(***************************************************************************)
(* Sessions on small instances.                                            *)
(***************************************************************************)
EXTENDS Sessions, TLC

CONSTANTS u1, u2, s1, s2, s3

\* u1 has two browser tabs open, u2 has one.
TwoTabs == s1 :> u1 @@ s2 :> u1 @@ s3 :> u2

\* The two tabs are alike.
Tabs == Permutations({s1, s2})

CONSTANTS MaxAtRollback, MaxLoose

\* A bound: rollbacks run only while the history is this short.
RollbacksComeEarly ==
  (\E s \in Session : kind[s] = "rollback") => Len(commits) <= MaxAtRollback

\* A bound: of the edits only early ones are such that merges may drop them,
\* and after one of those no more than two requests overlap.
LooseComeEarly ==
  loose # {} => /\ loose \subseteq 1..MaxLoose
                /\ Cardinality({s \in Session : pc[s] # "idle"}) <= 2
============================================================================
