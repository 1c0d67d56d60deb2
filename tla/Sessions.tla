------------------------------ MODULE Sessions ------------------------------
(***************************************************************************)
(* Requests that overlap, on a project kept in MySQL (db_repo).            *)
(*                                                                         *)
(* A session is one request in progress.  One of the http api runs in a    *)
(* transaction (route.py), where MysqlRefsContainer reads a reference with *)
(* select_for_update, so each reference it has touched is locked until it  *)
(* ends.  One of the websocket (ferry.py) is in autocommit, reads what is  *)
(* committed and locks nothing.  The locks are InnoDB's: a row is locked   *)
(* by one transaction; where there is no row, any number of transactions   *)
(* lock the gap, and as long as another does, none can insert.             *)
(*                                                                         *)
(* What a request writes takes effect when its transaction commits, so     *)
(* Finish is one action of Project with the heads the request has read.    *)
(***************************************************************************)
EXTENDS Project

CONSTANTS Session,  \* requests that can be in progress together
          Owner,    \* [Session -> User]
          Ferry,    \* the sessions of the websocket
          Kinds     \* what http requests do

ASSUME OwnerAssumption == Owner \in [Session -> User] /\ Ferry \subseteq Session
ASSUME KindsAssumption == Kinds \subseteq {"edit", "publish", "reset", "rollback"}

VARIABLES pc,    \* "idle", "read" or "write"
          kind,  \* what the request is
          from,  \* for a rollback to a branch, its user; 0 for one to a version
          seen   \* the references read so far, with what was read

sessionVars == <<pc, kind, from, seen>>
allVars == <<vars, sessionVars>>

NoSession == /\ pc = [s \in Session |-> "idle"]
             /\ kind = [s \in Session |-> "edit"]
             /\ from = [s \in Session |-> 0]
             /\ seen = [s \in Session |-> <<>>]

SessionsInit == Init /\ NoSession

-----------------------------------------------------------------------------
(* The locks.                                                              *)

Touched(s) == DOMAIN seen[s]

\* The reference s writes before anything else that it has not locked yet.
WriteRef(s) == IF kind[s] \in {"publish", "rollback"} THEN Master ELSE Owner[s]

Wrote(s, r) == pc[s] = "write" /\ r = WriteRef(s)

\* Mutant: get_autocommit taken the wrong way round, nothing is locked.
HoldsNothing(s, r) == FALSE

\* Mutant: select_for_update is left out, only what is written is locked.
HoldsWrites(s, r) == s \notin Ferry /\ Wrote(s, r)

\* s has read or written r in a transaction.
Holds(s, r) == s \notin Ferry /\ (r \in Touched(s) \/ Wrote(s, r))

\* The sessions s waits for to read r: who holds the row, or has inserted it.
ReadersBlock(s, r) ==
  {t \in Session \ {s} :
     Holds(t, r) /\ (refs[r] # 0 \/ Wrote(t, r))}

\* The sessions s waits for to write r: who holds the row or the gap.
WritersBlock(s, r) == {t \in Session \ {s} : Holds(t, r)}

-----------------------------------------------------------------------------
(* A request.                                                              *)

None == "none"

ASSUME NoneAssumption == None \notin Ref

\* The reference s reads next.  The checkout reads the user's branch, and
\* master if there is no such branch; publish compares with master, reset
\* copies it; a rollback to a branch reads that.
NextRead(s) ==
  LET me == Owner[s]
  IN CASE me \notin Touched(s) -> me
       [] me \in Touched(s) /\ Master \notin Touched(s)
            /\ (seen[s][me] = 0 \/ kind[s] \in {"publish", "reset"}) -> Master
       [] me \in Touched(s) /\ from[s] \notin Touched(s) \cup {0}
            /\ (Master \in Touched(s) \/ seen[s][me] # 0) -> from[s]
       [] OTHER -> None

\* What the session waits for, if it is waiting.
Blockers(s) ==
  CASE pc[s] = "read" /\ NextRead(s) # None ->
         IF s \in Ferry THEN {} ELSE ReadersBlock(s, NextRead(s))
    [] pc[s] = "read" /\ NextRead(s) = None -> WritersBlock(s, WriteRef(s))
    [] OTHER -> {}

\* There is room in the history for the commits of the requests in progress
\* and one more.
Commits(s) == pc[s] # "idle" /\ kind[s] \in {"edit", "publish"}

Room == Len(commits) + Cardinality({s \in Session : Commits(s)}) < MaxCommits

Start(s) ==
  /\ pc[s] = "idle"
  /\ pc' = [pc EXCEPT ![s] = "read"]
  /\ \E k \in (IF s \in Ferry THEN {"edit"} ELSE Kinds) :
       /\ k \in {"edit", "publish"} => Room
       /\ kind' = [kind EXCEPT ![s] = k]
       /\ \E u \in (IF k = "rollback" THEN User \cup {0} ELSE {0}) :
            from' = [from EXCEPT ![s] = u]
  /\ UNCHANGED <<vars, seen>>

Read(s) ==
  LET r == NextRead(s)
  IN /\ pc[s] = "read"
     /\ r # None
     /\ Blockers(s) = {}
     /\ seen' = [seen EXCEPT ![s] = [x \in Touched(s) \cup {r} |->
                                       IF x = r THEN refs[r] ELSE seen[s][x]]]
     /\ UNCHANGED <<vars, pc, kind, from>>

\* Mutant: the connection is reused with its transaction open.
CloseKeepsLocks(s) == /\ pc' = [pc EXCEPT ![s] = "idle"]
                      /\ kind' = [kind EXCEPT ![s] = "edit"]
                      /\ from' = [from EXCEPT ![s] = 0]
                      /\ UNCHANGED seen

\* The session is over and its locks are released.
Close(s) == /\ pc' = [pc EXCEPT ![s] = "idle"]
            /\ kind' = [kind EXCEPT ![s] = "edit"]
            /\ from' = [from EXCEPT ![s] = 0]
            /\ seen' = [seen EXCEPT ![s] = <<>>]

\* An answer that changes nothing: to a request that only reads, a publish
\* without changes, a rollback to a branch that is not there.
Answer(s) == /\ pc[s] = "read"
             /\ NextRead(s) = None
             /\ Close(s)
             /\ UNCHANGED vars

CanWrite(s) ==
  CASE kind[s] = "publish"  -> HasChanges(seen[s][Owner[s]], seen[s][Master])
    [] kind[s] = "rollback" -> from[s] # 0 => seen[s][from[s]] # 0
    [] OTHER                -> TRUE

\* The first write of a transaction: it may have to wait for a lock.
Write(s) == /\ pc[s] = "read"
            /\ s \notin Ferry
            /\ NextRead(s) = None
            /\ CanWrite(s)
            /\ Blockers(s) = {}
            /\ pc' = [pc EXCEPT ![s] = "write"]
            /\ UNCHANGED <<vars, kind, from, seen>>

\* The request as Project has it, with what s has read.
Effect(s) ==
  LET u == Owner[s]
      b == seen[s][u]
      m == IF Master \in Touched(s) THEN seen[s][Master] ELSE 0
  IN CASE kind[s] = "edit"     -> EditOn(u, b, m)
       [] kind[s] = "publish"  -> \/ \E deployed \in BOOLEAN :
                                       \/ PublishOn(u, b, m, deployed)
                                       \/ ForcePublishOn(u, b, m, deployed)
                                  \/ ConflictOn(u, b, m)
       [] kind[s] = "reset"    -> ResetOn(u, m)
       [] kind[s] = "rollback" -> 
            IF from[s] = 0 THEN \E c \in 1..Len(commits) : RollbackTo(c)
                           ELSE RollbackTo(seen[s][from[s]])

\* A transaction commits.  The websocket's one write is one statement.
Finish(s) == /\ \/ pc[s] = "write"
                \/ s \in Ferry /\ pc[s] = "read" /\ NextRead(s) = None
                               /\ Blockers(s) = {}
             /\ Effect(s)
             /\ Close(s)

\* A transaction is rolled back: the deploy raises, the worker dies.
Abort(s) == /\ pc[s] # "idle"
            /\ s \notin Ferry
            /\ Close(s)
            /\ UNCHANGED vars

WaitForEachOther(S) == S # {} /\ \A s \in S : \E t \in S : t \in Blockers(s)

\* Sessions that wait for each other and not merely for such sessions.
Deadlocked(S) == /\ WaitForEachOther(S)
                 /\ \A T \in SUBSET S : WaitForEachOther(T) => T = S

\* The database rolls back one of them.
BreakDeadlock ==
  \E S \in SUBSET Session : Deadlocked(S) /\ \E s \in S : Abort(s)

Step(s) == Read(s) \/ Write(s) \/ Answer(s) \/ Finish(s)

SessionsNext == \E s \in Session : Start(s) \/ Step(s) \/ Abort(s)

SessionsSpec == SessionsInit /\ [][SessionsNext]_allVars

\* Requests are run to their end, locks are granted in the order they are
\* asked for, and deadlocks are broken.
Fairness == /\ \A s \in Session : SF_allVars(Step(s))
            /\ WF_allVars(BreakDeadlock)

FairSpec == SessionsSpec /\ Fairness

-----------------------------------------------------------------------------
(* What overlapping requests promise.                                      *)

\* Overlapping http requests have the effect of requests that run one after
\* the other: what the locks of read_loose_ref are for.
ActsAtomically == Spec

\* With the websocket running, which does not lock: no http request loses
\* work nobody gave up (of what merges keep), only a message of the websocket
\* does, and then its user's branch has moved since it was checked out.
OnlyStaleFerryLosesWork ==
  [][(Work \ Excused') \subseteq Work'
     \/ \E s \in Ferry : /\ pc[s] # "idle" /\ pc'[s] = "idle"
                         /\ seen[s][Owner[s]] # refs[Owner[s]]]_allVars

\* Every request is answered, whatever locks it needs in whatever order.
EveryRequestEnds == \A s \in Session : pc[s] # "idle" ~> pc[s] = "idle"
============================================================================
