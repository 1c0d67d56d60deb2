------------------------- MODULE WorkingTreeProofs -------------------------
(***************************************************************************)
(* The storage of a project under git implements whole versions            *)
(* (WorkingTree implements Versions), for any files, contents and bounds,  *)
(* and wherever a request fails.                                           *)
(***************************************************************************)
EXTENDS Storage, SequenceTheorems, FiniteSetTheorems, TLAPS

-----------------------------------------------------------------------------
(* What holds of the objects, the references and the open storage.         *)

\* All versions up to h can be read: commits, trees and files.
Whole(h, objects) ==
  \A i \in 1..Len(h) : /\ Git!Commit(SubSeq(h, 1, i)) \in objects
                       /\ Git!Tree(h[i]) \in objects
                       /\ \A p \in DOMAIN h[i] : Git!Blob(h[i][p]) \in objects

\* Nobody has a branch before there is a master.
Based(heads) == /\ heads \in [Git!Branch -> Seq(Git!Trees)]
                /\ heads["user"] # <<>> => heads["master"] # <<>>

Newest(heads) == IF heads["user"] # <<>> THEN heads["user"] ELSE heads["master"]

\* When a request began, and whenever none runs.
StartsWhole == /\ start = [store |-> start.store, refs |-> start.refs]
               /\ Based(start.refs)
               /\ \A b \in Git!Branch : Whole(start.refs[b], start.store)
               /\ treeTodo = <<>> => start.store = store /\ start.refs = refs
               /\ refs \in [Git!Branch -> Seq(Git!Trees)]

\* What an open storage has is what it read, or was written into it.
OpenSound ==
  req # Closed =>
    /\ req \in Git!Storages
    /\ IsFiniteSet(req.blobs)
    /\ \A p \in DOMAIN req.working :
         req.working[p] \in req.blobs \/ Git!Blob(req.working[p]) \in start.store
    /\ req.tree = Git!FilesOf(req.commit)
    /\ req.mode # "look" => req.commit = Newest(start.refs)
    /\ req.mode = "ferry" => req.commit # <<>>

NewVersion == Append(IF req.commit = <<>> THEN Git!First ELSE req.commit, req.working)

Adds == UNION {treeTodo[i].add : i \in 1..Len(treeTodo)}

MakesMaster(s) == s.ref = {"master"} /\ s.to = Git!First /\ req.commit = <<>>

\* The statements of a commit that are left: the user's branch is moved by the
\* last of them, when all that it will show is stored.
CommitSound ==
  treeTodo # <<>> =>
    LET n == Len(treeTodo) IN
    /\ \E S : treeTodo \in Seq(S)
    /\ req # Closed /\ req.mode # "look"
    /\ start.store \subseteq store
    /\ Whole(NewVersion, store \cup Adds)
    /\ \A i \in 1..(n - 1) : treeTodo[i].ref = {} \/ MakesMaster(treeTodo[i])
    /\ treeTodo[n] = [add |-> {}, ref |-> {"user"}, to |-> NewVersion]
    /\ refs["user"] = start.refs["user"]
    /\ \/ refs["master"] = start.refs["master"]
       \/ req.commit = <<>> /\ refs["master"] = Git!First
    /\ req.commit = <<>> /\ refs["master"] # Git!First =>
         \E i \in 1..(n - 1) : MakesMaster(treeTodo[i])

GitInv == StartsWhole /\ OpenSound /\ CommitSound

-----------------------------------------------------------------------------
(* What is shown of it.                                                    *)

LEMMA WholeGrows ==
  ASSUME NEW h, NEW less, NEW more, less \subseteq more, Whole(h, less)
  PROVE  Whole(h, more)
BY DEF Whole

LEMMA Prefixes ==
  ASSUME NEW S, NEW h \in Seq(S), NEW t \in S
  PROVE  /\ Append(h, t) \in Seq(S) /\ Append(h, t) # <<>>
         /\ Len(Append(h, t)) = Len(h) + 1
         /\ SubSeq(Append(h, t), 1, Len(h) + 1) = Append(h, t)
         /\ Append(h, t)[Len(h) + 1] = t
         /\ \A i \in 1..Len(h) : /\ Append(h, t)[i] = h[i]
                                 /\ SubSeq(Append(h, t), 1, i) = SubSeq(h, 1, i)
<1>1. /\ Append(h, t) \in Seq(S) /\ Append(h, t) # <<>>
      /\ Len(Append(h, t)) = Len(h) + 1
      /\ Append(h, t)[Len(h) + 1] = t
      /\ \A i \in 1..Len(h) : Append(h, t)[i] = h[i]
  BY AppendProperties
<1>2. SubSeq(Append(h, t), 1, Len(h) + 1) = Append(h, t)
  BY <1>1, SubSeqFull
<1>3. ASSUME NEW i \in 1..Len(h) PROVE SubSeq(Append(h, t), 1, i) = SubSeq(h, 1, i)
  BY <1>1
<1>4. QED
  BY <1>1, <1>2, <1>3

LEMMA WholeAppend ==
  ASSUME NEW h \in Seq(Git!Trees), NEW t \in Git!Trees, NEW objects, Whole(h, objects),
         Git!Commit(Append(h, t)) \in objects, Git!Tree(t) \in objects,
         \A p \in DOMAIN t : Git!Blob(t[p]) \in objects
  PROVE  Whole(Append(h, t), objects)
<1> DEFINE g == Append(h, t)
<1>0. /\ Len(g) = Len(h) + 1 /\ Len(h) \in Nat
      /\ SubSeq(g, 1, Len(h) + 1) = g /\ g[Len(h) + 1] = t
      /\ \A i \in 1..Len(h) : g[i] = h[i] /\ SubSeq(g, 1, i) = SubSeq(h, 1, i)
  BY Prefixes, LenProperties
<1> HIDE DEF g
<1>1. ASSUME NEW i \in 1..Len(h) + 1
      PROVE  /\ Git!Commit(SubSeq(g, 1, i)) \in objects
             /\ Git!Tree(g[i]) \in objects
             /\ \A p \in DOMAIN g[i] : Git!Blob(g[i][p]) \in objects
  <2>1. CASE i \in 1..Len(h)
    BY <1>0, <2>1 DEF Whole
  <2>2. CASE i = Len(h) + 1
    BY <1>0, <2>2 DEF g
  <2>3. QED
    BY <1>0, <2>1, <2>2
<1>2. QED
  BY <1>0, <1>1 DEF Whole, g

\* A tree is shown as it is when its files can be read.
LEMMA TreeShown ==
  ASSUME NEW t \in Git!Trees, NEW blobs, NEW objects,
         \A p \in DOMAIN t : t[p] \in blobs \/ Git!Blob(t[p]) \in objects
  PROVE  Git!Read(t, blobs, objects) = t
BY DEF Git!Read, Git!Trees

LEMMA VersionsShown ==
  ASSUME NEW view, NEW b, view.refs[b] \in Seq(Git!Trees),
         Whole(view.refs[b], view.store)
  PROVE  Git!VersionsOf(view, b) = view.refs[b]
<1> DEFINE h == view.refs[b]
<1>1. ASSUME NEW i \in 1..Len(h)
      PROVE  /\ Git!Last(SubSeq(h, 1, i)) = h[i]
             /\ {Git!Commit(SubSeq(h, 1, i)), Git!Tree(h[i])} \subseteq view.store
             /\ Git!Read(h[i], {}, view.store) = h[i]
  <2>1. SubSeq(h, 1, i) \in Seq(Git!Trees) /\ Len(SubSeq(h, 1, i)) = i
        /\ SubSeq(h, 1, i)[i] = h[i] /\ h[i] \in Git!Trees
    BY SubSeqProperties, ElementOfSeq, LenProperties
  <2>2. QED
    BY <2>1, TreeShown DEF Git!Last, Whole
<1>2. /\ h = [i \in 1..Len(h) |-> h[i]]
      /\ DOMAIN h = 1..Len(h)
  OBVIOUS
<1>3. QED
  BY <1>1, <1>2 DEF Git!VersionsOf

LEMMA FilesWhole ==
  ASSUME NEW h \in Seq(Git!Trees), NEW objects, Whole(h, objects)
  PROVE  /\ Git!FilesOf(h) \in Git!Trees
         /\ \A p \in DOMAIN Git!FilesOf(h) : Git!Blob(Git!FilesOf(h)[p]) \in objects
<1>1. CASE h = <<>>
  <2>1. <<>> \in [{} -> TreeData \cup {Template}] /\ {} \in SUBSET Git!File
    OBVIOUS
  <2>2. <<>> \in Git!Trees
    BY <2>1 DEF Git!Trees
  <2>3. QED
    BY <1>1, <2>2 DEF Git!FilesOf
<1>2. CASE h # <<>>
  <2>1. Len(h) \in 1..Len(h) /\ h[Len(h)] \in Git!Trees
    BY <1>2, EmptySeq, LenProperties, ElementOfSeq
  <2>2. QED
    BY <1>2, <2>1 DEF Git!FilesOf, Git!Last, Whole
<1>3. QED
  BY <1>1, <1>2

\* What WorkingTree shows of itself to Versions.
Shown == /\ Git!VersionsOf(Git!Seen, "user") = start.refs["user"]
         /\ Git!VersionsOf(Git!Seen, "master") = start.refs["master"]
         /\ (IF req = Closed THEN Closed ELSE Git!Read(req.working, req.blobs, store))
              = IF req = Closed THEN Closed ELSE req.working

LEMMA ShowsVersions == ASSUME GitInv PROVE Shown
<1>1. /\ Git!Seen.refs = start.refs
      /\ \A b \in Git!Branch : Whole(start.refs[b], Git!Seen.store)
  <2>1. CASE req # Closed /\ req.mode # "ferry"
    BY <2>1 DEF GitInv, StartsWhole, Git!Seen
  <2>2. CASE ~(req # Closed /\ req.mode # "ferry")
    <3>1. CASE treeTodo = <<>>
      BY <2>2, <3>1 DEF GitInv, StartsWhole, Git!Seen
    <3>2. CASE treeTodo # <<>>
      <4>1. req # Closed /\ req.mode = "ferry" /\ req.commit # <<>>
        BY <2>2, <3>2 DEF GitInv, CommitSound, OpenSound
      <4>2. refs["user"] = start.refs["user"] /\ refs["master"] = start.refs["master"]
            /\ start.store \subseteq store
        BY <3>2, <4>1 DEF GitInv, CommitSound
      <4>3. refs = start.refs
        BY <4>2 DEF GitInv, StartsWhole, Based, Git!Branch
      <4>4. QED
        BY <2>2, <4>2, <4>3, WholeGrows DEF GitInv, StartsWhole, Git!Seen
    <3>3. QED
      BY <3>1, <3>2
  <2>3. QED
    BY <2>1, <2>2
<1>2. ASSUME NEW b \in Git!Branch
      PROVE  Git!VersionsOf(Git!Seen, b) = start.refs[b]
  <2>1. start.refs[b] \in Seq(Git!Trees)
    BY DEF GitInv, StartsWhole, Based
  <2>2. QED
    BY <1>1, <2>1, VersionsShown
<1>3. ASSUME req # Closed PROVE Git!Read(req.working, req.blobs, store) = req.working
  <2>1. start.store \subseteq store
    BY DEF GitInv, StartsWhole, CommitSound
  <2>2. /\ req.working \in Git!Trees
        /\ \A p \in DOMAIN req.working :
             req.working[p] \in req.blobs \/ Git!Blob(req.working[p]) \in store
    BY <1>3, <2>1 DEF GitInv, OpenSound, Git!Storages
  <2>3. QED
    BY <2>2, TreeShown
<1>4. QED
  BY <1>2, <1>3 DEF Shown, Git!Branch

-----------------------------------------------------------------------------
(* Opening, editing, closing.                                              *)

\* When no statement is to be made, the branches are those of start.
LEMMA AtRest ==
  ASSUME GitInv, treeTodo = <<>>
  PROVE  /\ start.store = store /\ start.refs = refs /\ Based(refs)
         /\ refs \in [Git!Branch -> Seq(Git!Trees)]
         /\ \A b \in Git!Branch : Whole(refs[b], store)
BY DEF GitInv, StartsWhole

LEMMA ClosedAtRest == ASSUME GitInv, req = Closed PROVE treeTodo = <<>>
BY DEF GitInv, CommitSound

LEMMA NewestIsCheckedOut ==
  ASSUME GitInv, treeTodo = <<>>
  PROVE  /\ Git!CheckedOut = Newest(refs)
         /\ Newest(refs) \in Seq(Git!Trees) /\ Whole(Newest(refs), store)
<1>1. /\ refs["user"] \in Seq(Git!Trees) /\ Whole(refs["user"], store)
      /\ refs["master"] \in Seq(Git!Trees) /\ Whole(refs["master"], store)
  BY AtRest DEF Git!Branch
<1>2. ASSUME refs["user"] # <<>> PROVE Git!Readable(refs["user"])
  <2> DEFINE h == refs["user"]
  <2>1. Len(h) \in 1..Len(h) /\ SubSeq(h, 1, Len(h)) = h
    BY <1>1, <1>2, EmptySeq, LenProperties, SubSeqFull
  <2>2. QED
    BY <1>1, <1>2, <2>1 DEF Git!Readable, Git!FilesOf, Git!Last, Whole
<1>3. QED
  BY <1>1, <1>2 DEF Git!CheckedOut, Newest

LEMMA OpenKeeps ==
  ASSUME GitInv, NEW mode \in {"http", "ferry"}, Git!Open(mode)
  PROVE  GitInv' /\ Git!Promised!Next
<1> DEFINE h == Newest(refs)
           files == Git!FilesOf(h)
           there == Git!Default \in DOMAIN files
           working == IF there THEN files ELSE Git!With(files, Git!Default, Template)
           blobs == IF there THEN {} ELSE {Template}
<1>1. req = Closed /\ treeTodo = <<>>
  BY ClosedAtRest DEF Git!Open
<1>2. /\ start.store = store /\ start.refs = refs /\ Based(refs)
      /\ refs \in [Git!Branch -> Seq(Git!Trees)]
  BY <1>1, AtRest
<1>3. h \in Seq(Git!Trees) /\ Whole(h, store) /\ Git!CheckedOut = h
  BY <1>1, NewestIsCheckedOut
<1>4. /\ files \in Git!Trees
      /\ \A p \in DOMAIN files : Git!Blob(files[p]) \in store
  BY <1>3, FilesWhole
<1>5. /\ req' = [mode |-> mode, commit |-> h, tree |-> files, working |-> working,
                 blobs |-> blobs]
      /\ refs' = refs
  <2>1. req' = Git!Storage(mode, h, working, blobs)
    BY <1>3 DEF Git!Open
  <2>2. refs' = refs
    BY <1>2, <1>3 DEF Git!Open, Newest, Git!Branch
  <2>3. QED
    BY <2>1, <2>2 DEF Git!Storage
<1>6. UNCHANGED <<store, treeTodo, start>> /\ (mode = "ferry" => refs["master"] # <<>>)
  BY DEF Git!Open
<1>7. /\ working \in Git!Trees /\ blobs \subseteq TreeData \cup {Template}
      /\ IsFiniteSet(blobs)
      /\ \A p \in DOMAIN working : working[p] \in blobs \/ Git!Blob(working[p]) \in store
  <2>1. CASE there
    BY <1>4, <2>1, FS_EmptySet
  <2>2. CASE ~there
    <3>1. working = [q \in DOMAIN files \cup {Git!Default} |->
                       IF q = Git!Default THEN Template ELSE files[q]]
      BY <2>2 DEF Git!With
    <3>2. PICK S \in SUBSET Git!File : files \in [S -> TreeData \cup {Template}]
      BY <1>4 DEF Git!Trees
    <3>3. /\ working \in [S \cup {Git!Default} -> TreeData \cup {Template}]
          /\ S \cup {Git!Default} \in SUBSET Git!File
      BY <3>1, <3>2 DEF Git!File
    <3>4. working \in Git!Trees
      BY <3>3 DEF Git!Trees
    <3>5. QED
      BY <1>4, <2>2, <3>1, <3>4, FS_Singleton
  <2>3. QED
    BY <2>1, <2>2
<1>8. req' \in Git!Storages /\ req' # Closed
  BY <1>3, <1>4, <1>5, <1>7, ClosedAssumption DEF Git!Storages
<1>9. h # <<>> \/ mode # "ferry"
  BY <1>2, <1>6 DEF Newest
<1>10. GitInv'
  <2> HIDE DEF h, files, working, blobs
  <2>1. StartsWhole'
    BY <1>1, <1>2, <1>5, <1>6 DEF GitInv, StartsWhole
  <2>2. OpenSound'
    BY <1>2, <1>5, <1>6, <1>7, <1>8, <1>9 DEF OpenSound, h, files
  <2>3. CommitSound'
    BY <1>1, <1>6 DEF CommitSound
  <2>4. QED
    BY <2>1, <2>2, <2>3 DEF GitInv
<1>11. Shown /\ Shown'
  BY <1>10, ShowsVersions, PTL
<1>12. working = Git!Promised!WithDefault(files)
  <2>1. CASE there
    BY <1>4, <2>1 DEF Git!Promised!WithDefault, Git!Trees
  <2>2. CASE ~there
    BY <2>2 DEF Git!Promised!WithDefault, Git!With
  <2>3. QED
    BY <2>1, <2>2
<1>13. Git!Promised!Open
  <2>1. Git!Promised!FilesOf(Git!Promised!Newest) = files
    BY <1>2, <1>11 DEF Git!Promised!FilesOf, Git!Promised!Newest, Git!FilesOf, Shown,
       Git!Last, Git!Promised!Last, Newest
  <2> HIDE DEF h, files, working, blobs
  <2>2. QED
    BY <1>1, <1>5, <1>6, <1>8, <1>11, <1>12, <2>1 DEF Shown, Git!Promised!Open
<1>14. QED
  BY <1>10, <1>13 DEF Git!Promised!Next

\* An edit leaves files that were there, or are of the contents written.
LEMMA ChangeKeeps ==
  ASSUME GitInv, NEW files \in Git!Trees, NEW blobs \in SUBSET (TreeData \cup {Template}),
         IsFiniteSet(blobs), Git!Editing, Git!Change(files, blobs),
         \A p \in DOMAIN files : \/ files[p] \in blobs
                                 \/ \E q \in DOMAIN req.working : files[p] = req.working[q]
  PROVE  GitInv' /\ Git!Promised!Next
<1>1. /\ req # Closed /\ req.mode # "look" /\ treeTodo = <<>>
      /\ UNCHANGED <<store, refs, treeTodo, start>>
      /\ req' = [req EXCEPT !.working = files, !.blobs = @ \cup blobs]
  BY DEF Git!Editing, Git!Change
<1>2. req \in Git!Storages /\ IsFiniteSet(req.blobs)
  BY <1>1 DEF GitInv, OpenSound
<1>3. /\ req' \in Git!Storages /\ req' # Closed /\ req'.working = files
      /\ req'.blobs = req.blobs \cup blobs /\ req'.mode = req.mode
      /\ req'.commit = req.commit /\ req'.tree = req.tree
  BY <1>1, <1>2, ClosedAssumption DEF Git!Storages
<1>4. IsFiniteSet(req'.blobs)
  <2>1. IsFiniteSet(req.blobs \cup blobs)
    BY <1>2, FS_Union
  <2>2. QED
    BY <1>3, <2>1
<1>5. \A p \in DOMAIN files :
        files[p] \in req.blobs \cup blobs \/ Git!Blob(files[p]) \in start.store
  BY <1>1 DEF GitInv, OpenSound
<1>6. GitInv'
  <2>1. OpenSound'
    BY <1>1, <1>3, <1>4, <1>5 DEF GitInv, OpenSound
  <2>2. QED
    BY <1>1, <2>1 DEF GitInv, StartsWhole, CommitSound
<1>7. Shown /\ Shown'
  BY <1>6, ShowsVersions, PTL
<1>8. files # Closed /\ None \notin Git!Promised!Range(files)
  BY ClosedAssumption, ContentAssumption DEF Git!Promised!Range, Git!Trees
<1>9. Git!Promised!Edit
  <2>1. req.working # Closed
    BY <1>2, ClosedAssumption DEF Git!Storages
  <2>2. QED
    BY <1>1, <1>3, <1>7, <1>8, <2>1 DEF Shown, Git!Promised!Edit
<1>10. QED
  BY <1>6, <1>9 DEF Git!Promised!Next

LEMMA OpenTree ==
  ASSUME GitInv, Git!Editing
  PROVE  \E S \in SUBSET Git!File : /\ req.working \in [S -> TreeData \cup {Template}]
                                    /\ DOMAIN req.working = S
BY DEF GitInv, OpenSound, Git!Editing, Git!Storages, Git!Trees

LEMMA SaveKeeps ==
  ASSUME GitInv, NEW p \in Git!File, NEW c \in TreeData, Git!Save(p, c)
  PROVE  GitInv' /\ Git!Promised!Next
<1> DEFINE files == Git!With(req.working, p, c)
<1>1. PICK S \in SUBSET Git!File : req.working \in [S -> TreeData \cup {Template}]
  BY OpenTree DEF Git!Save
<1>2. /\ files \in [S \cup {p} -> TreeData \cup {Template}]
      /\ \A q \in DOMAIN files : files[q] \in {c} \/ \E r \in DOMAIN req.working :
                                                       files[q] = req.working[r]
  BY <1>1 DEF Git!With
<1>3. files \in Git!Trees
  BY <1>1, <1>2 DEF Git!Trees
<1>4. Git!Editing /\ Git!Change(files, {c}) /\ {c} \in SUBSET (TreeData \cup {Template})
  BY DEF Git!Save
<1> HIDE DEF files
<1>5. QED
  BY <1>2, <1>3, <1>4, ChangeKeeps, FS_Singleton

LEMMA DeleteKeeps ==
  ASSUME GitInv, NEW p, Git!Delete(p)
  PROVE  GitInv' /\ Git!Promised!Next
<1> DEFINE gone == {p} \cup Git!Under(req.working, p)
           files == Git!Without(req.working, gone)
<1>1. PICK S \in SUBSET Git!File : req.working \in [S -> TreeData \cup {Template}]
  BY OpenTree DEF Git!Delete
<1> HIDE DEF gone
<1>2. /\ files \in [S \ gone -> TreeData \cup {Template}]
      /\ S \ gone \in SUBSET Git!File
      /\ \A q \in DOMAIN files : \E r \in DOMAIN req.working : files[q] = req.working[r]
  BY <1>1 DEF Git!Without
<1>3. files \in Git!Trees
  BY <1>2 DEF Git!Trees
<1>4. Git!Editing /\ Git!Change(files, {})
  BY DEF Git!Delete, gone
<1>5. QED
  BY <1>2, <1>3, <1>4, ChangeKeeps, FS_EmptySet

\* Files in a directory, and where they are moved to.
LEMMA Inside ==
  ASSUME NEW n \in Spider, NEW q \in Git!File, Git!IsStrictPrefix(<<n>>, q)
  PROVE  /\ <<n>> \o Tail(q) = q
         /\ \A m \in Spider : /\ <<m>> \o Tail(q) \in Git!File
                              /\ Tail(<<m>> \o Tail(q)) = Tail(q)
<1>1. ASSUME NEW q1 \in Seq({q[1], q[2]}), q1 = q, Len(q1) > 0 PROVE q[1] = n
  <2>1. <<n>> \in Seq({n}) /\ Len(<<n>>) = 1 /\ <<n>>[1] = n
    OBVIOUS
  <2>2. SubSeq(<<n>>, 1, 1) = SubSeq(q1, 1, 1)
    BY <1>1, <2>1 DEF Git!IsStrictPrefix, Git!IsPrefix
  <2>3. SubSeq(<<n>>, 1, 1)[1] = <<n>>[1]
    BY <2>1, SubSeqProperties
  <2>4. SubSeq(q1, 1, 1)[1] = q1[1]
    BY <1>1, SubSeqProperties
  <2>5. QED
    BY <1>1, <2>1, <2>2, <2>3, <2>4
<1>2. ASSUME NEW a, q = <<a>> PROVE FALSE
  <2>1. q \in Seq({q[1], q[2]}) /\ Len(q) > 0 /\ q[1] = a
    BY <1>2
  <2>2. a = n
    BY <1>1, <2>1
  <2>3. QED
    BY <1>2, <2>2 DEF Git!IsStrictPrefix
<1>3. q \in Spider \X TreeId
  BY <1>2 DEF Git!File, Git!Default
<1>4. PICK a \in Spider, x \in TreeId : q = <<a, x>>
  BY <1>3
<1>5. a = n
  <2>1. q \in Seq({q[1], q[2]}) /\ Len(q) > 0 /\ q[1] = a
    BY <1>4
  <2>2. QED
    BY <1>1, <2>1
<1>6. ASSUME NEW m PROVE Tail(<<m, x>>) = <<x>> /\ <<m>> \o <<x>> = <<m, x>>
  <2>1. /\ <<m, x>> \in Seq({m, x}) /\ Len(<<m, x>>) = 2 /\ <<m, x>> # <<>>
        /\ <<m>> \in Seq({m, x}) /\ <<x>> \in Seq({m, x}) /\ Len(<<m>>) = 1 /\ Len(<<x>>) = 1
    OBVIOUS
  <2>2. Tail(<<m, x>>) = <<x>>
    BY <2>1, HeadTailProperties, SeqEqual
  <2>3. <<m>> \o <<x>> = <<m, x>>
    <3> DEFINE s == <<m>> \o <<x>>
    <3>1. s \in Seq({m, x}) /\ Len(s) = 2
      BY <2>1, ConcatProperties
    <3>2. s[1] = m /\ s[2] = x
      BY <2>1, ConcatProperties
    <3>3. \A i \in 1..2 : s[i] = <<m, x>>[i]
      BY <3>2
    <3> HIDE DEF s
    <3>4. s = <<m, x>>
      BY <2>1, <3>1, <3>3, SeqEqual
    <3>5. QED
      BY <3>4 DEF s
  <2>4. QED
    BY <2>2, <2>3
<1>7. \A m \in Spider : <<m>> \o Tail(q) = <<m, x>>
  BY <1>4, <1>6
<1>8. ASSUME NEW m \in Spider
      PROVE  <<m>> \o Tail(q) \in Git!File /\ Tail(<<m>> \o Tail(q)) = Tail(q)
  <2>1. <<m, x>> \in Git!File
    BY <1>4 DEF Git!File
  <2>2. Tail(<<m, x>>) = <<x>> /\ Tail(<<a, x>>) = <<x>>
    BY <1>6
  <2>3. QED
    BY <1>4, <1>7, <2>1, <2>2
<1>9. QED
  BY <1>4, <1>5, <1>7, <1>8

LEMMA MoveKeeps ==
  ASSUME GitInv, NEW n \in Spider, NEW m \in Spider, Git!MoveDirectory(n, m)
  PROVE  GitInv' /\ Git!Promised!Next
<1>1. PICK met \in SUBSET Git!Under(req.working, <<n>>) :
        LET new == {<<m>> \o Tail(q) : q \in met} IN
        Git!Change([q \in (DOMAIN req.working \ met) \cup new |->
                      req.working[IF q \in new THEN <<n>> \o Tail(q) ELSE q]], {})
  BY DEF Git!MoveDirectory
<1>2. PICK S \in SUBSET Git!File : /\ req.working \in [S -> TreeData \cup {Template}]
                                   /\ DOMAIN req.working = S
  BY OpenTree DEF Git!MoveDirectory
<1> DEFINE new == {<<m>> \o Tail(q) : q \in met}
           files == [q \in (DOMAIN req.working \ met) \cup new |->
                       req.working[IF q \in new THEN <<n>> \o Tail(q) ELSE q]]
<1>3. ASSUME NEW q \in met
      PROVE  /\ q \in S /\ <<m>> \o Tail(q) \in Git!File
             /\ <<n>> \o Tail(<<m>> \o Tail(q)) = q
  BY <1>2, Inside DEF Git!Under
<1>4. /\ new \subseteq Git!File
      /\ \A q \in new : <<n>> \o Tail(q) \in S
  BY <1>3
<1> HIDE DEF new
<1>5. /\ files \in [(S \ met) \cup new -> TreeData \cup {Template}]
      /\ (S \ met) \cup new \in SUBSET Git!File
      /\ \A q \in DOMAIN files : \E r \in DOMAIN req.working : files[q] = req.working[r]
  BY <1>2, <1>4
<1>6. files \in Git!Trees
  BY <1>5 DEF Git!Trees
<1>7. Git!Editing /\ Git!Change(files, {})
  BY <1>1 DEF Git!MoveDirectory, new
<1> HIDE DEF files
<1>8. QED
  BY <1>5, <1>6, <1>7, ChangeKeeps, FS_EmptySet

LEMMA CheckoutKeeps ==
  ASSUME GitInv, NEW b \in Git!Branch, NEW i \in DOMAIN refs[b],
         Git!Checkout(SubSeq(refs[b], 1, i))
  PROVE  GitInv' /\ Git!Promised!Next
<1> DEFINE h == SubSeq(refs[b], 1, i)
           files == refs[b][i]
<1>1. /\ req # Closed /\ treeTodo = <<>> /\ req.mode = "http"
      /\ UNCHANGED <<store, refs, treeTodo, start>>
      /\ h # <<>> /\ req' = Git!Storage("look", h, Git!FilesOf(h), {})
  BY DEF Git!Checkout
<1>2. /\ start.store = store /\ start.refs = refs
      /\ refs[b] \in Seq(Git!Trees) /\ Whole(refs[b], store)
  BY <1>1, AtRest
<1>3. /\ i \in 1..Len(refs[b]) /\ files \in Git!Trees
      /\ h \in Seq(Git!Trees) /\ Len(h) = i /\ h[i] = files
  BY <1>2, SubSeqProperties, ElementOfSeq, LenProperties
<1>4. Git!FilesOf(h) = files
  BY <1>1, <1>3 DEF Git!FilesOf, Git!Last
<1>5. \A p \in DOMAIN files : Git!Blob(files[p]) \in store
  BY <1>2, <1>3 DEF Whole
<1> HIDE DEF h, files
<1>6. /\ req' = [mode |-> "look", commit |-> h, tree |-> files, working |-> files,
                 blobs |-> {}]
      /\ req' \in Git!Storages /\ req' # Closed
  BY <1>1, <1>3, <1>4, ClosedAssumption DEF Git!Storage, Git!Storages
<1>7. GitInv'
  <2>1. OpenSound'
    <3>1. /\ req'.mode = "look" /\ req'.commit = h /\ req'.tree = files
          /\ req'.working = files /\ req'.blobs = {}
      BY <1>6
    <3>2. IsFiniteSet(req'.blobs)
      BY <3>1, FS_EmptySet
    <3>3. QED
      BY <1>1, <1>2, <1>4, <1>5, <1>6, <3>1, <3>2 DEF OpenSound
  <2>2. QED
    BY <1>1, <2>1 DEF GitInv, StartsWhole, CommitSound
<1>8. Shown /\ Shown'
  BY <1>7, ShowsVersions, PTL
<1>9. req.working # Closed
  BY <1>1, ClosedAssumption DEF GitInv, OpenSound, Git!Storages
<1>10. files \in Git!Promised!Range(start.refs["user"]) \cup
                   Git!Promised!Range(start.refs["master"])
  BY <1>2, <1>3 DEF Git!Promised!Range, Git!Branch, files
<1>11. Git!Promised!LookAt
  BY <1>1, <1>6, <1>8, <1>9, <1>10 DEF Shown, Git!Promised!LookAt
<1>12. QED
  BY <1>7, <1>11 DEF Git!Promised!Next

\* After a request, that is, when the versions of start are those of now.
LEMMA EndKeeps ==
  ASSUME GitInv, Git!End, Based(refs'), \A b \in Git!Branch : Whole(refs'[b], store')
  PROVE  /\ GitInv' /\ Shown /\ Shown'
         /\ req' = Closed /\ start'.refs = refs'
<1>1. /\ req' = Closed /\ treeTodo' = <<>>
      /\ start' = [store |-> store', refs |-> refs']
  BY DEF Git!End
<1>2. GitInv'
  BY <1>1 DEF GitInv, StartsWhole, OpenSound, CommitSound, Based
<1>3. Shown /\ Shown'
  BY <1>2, ShowsVersions, PTL
<1>4. QED
  BY <1>1, <1>2, <1>3

LEMMA CloseKeeps ==
  ASSUME GitInv, Git!Close
  PROVE  GitInv' /\ Git!Promised!Next
<1>1. treeTodo = <<>> /\ UNCHANGED <<store, refs>> /\ Git!End
  BY DEF Git!Close
<1>2. start.refs = refs /\ Based(refs') /\ \A b \in Git!Branch : Whole(refs'[b], store')
  BY <1>1, AtRest
<1>3. GitInv' /\ Shown /\ Shown' /\ req' = Closed /\ start'.refs = refs'
  BY <1>1, <1>2, EndKeeps
<1>4. Git!Promised!GiveUp
  BY <1>1, <1>2, <1>3 DEF Shown, Git!Promised!GiveUp
<1>5. QED
  BY <1>3, <1>4 DEF Git!Promised!Next

\* Until the user's branch is moved no branch is, but for the master of a new
\* project, which only a request over HTTP makes.
LEMMA FerryMovesLast ==
  ASSUME GitInv, treeTodo # <<>>, req.commit # <<>>
  PROVE  refs = start.refs
<1>1. refs["user"] = start.refs["user"] /\ refs["master"] = start.refs["master"]
  BY DEF GitInv, CommitSound
<1>2. QED
  BY <1>1 DEF GitInv, StartsWhole, Based, Git!Branch

LEMMA CrashKeeps ==
  ASSUME GitInv, Git!Crash
  PROVE  GitInv' /\ Git!Promised!Next
<1>1. /\ req # Closed /\ treeTodo # <<>> /\ Git!End
      /\ store' = Git!Crashed.store /\ refs' = Git!Crashed.refs
  BY DEF Git!Crash
<1>2. Based(start.refs) /\ \A b \in Git!Branch : Whole(start.refs[b], start.store)
  BY DEF GitInv, StartsWhole
<1>3. refs' = start.refs /\ start.store \subseteq store'
  <2>1. CASE req.mode = "ferry"
    <3>1. req.commit # <<>> /\ start.store \subseteq store
      BY <1>1, <2>1 DEF GitInv, OpenSound, CommitSound
    <3>2. QED
      BY <1>1, <2>1, <3>1, FerryMovesLast DEF Git!Crashed
  <2>2. CASE req.mode # "ferry"
    BY <1>1, <2>2 DEF Git!Crashed
  <2>3. QED
    BY <2>1, <2>2
<1>4. Based(refs') /\ \A b \in Git!Branch : Whole(refs'[b], store')
  BY <1>2, <1>3, WholeGrows
<1>5. GitInv' /\ Shown /\ Shown' /\ req' = Closed /\ start'.refs = refs'
  BY <1>1, <1>4, EndKeeps
<1>6. Git!Promised!GiveUp
  BY <1>3, <1>5 DEF Shown, Git!Promised!GiveUp
<1>7. QED
  BY <1>5, <1>6 DEF Git!Promised!Next

LEMMA PublishKeeps ==
  ASSUME GitInv, Git!Publish
  PROVE  GitInv' /\ Git!Promised!Next
<1> DEFINE u == refs["user"]
           m == refs["master"]
           new == Append(m, u[Len(u)])
<1>1. /\ req = Closed /\ u # <<>> /\ Git!End
      /\ store' = store \cup {Git!Commit(new)}
      /\ refs' = [b \in Git!Branch |-> IF b = "master" THEN new ELSE <<>>]
  BY DEF Git!Publish, Git!Last
<1>2. /\ start.refs = refs /\ u \in Seq(Git!Trees) /\ m \in Seq(Git!Trees)
      /\ Whole(u, store) /\ Whole(m, store)
  BY <1>1, ClosedAtRest, AtRest DEF Git!Branch
<1>3. /\ Len(u) \in 1..Len(u) /\ u[Len(u)] \in Git!Trees
  BY <1>1, <1>2, EmptySeq, LenProperties, ElementOfSeq
<1>4. /\ Git!Tree(u[Len(u)]) \in store'
      /\ \A p \in DOMAIN u[Len(u)] : Git!Blob(u[Len(u)][p]) \in store'
  BY <1>1, <1>2, <1>3 DEF Whole
<1>5. Whole(m, store') /\ Whole(new, store')
  BY <1>1, <1>2, <1>3, <1>4, WholeGrows, WholeAppend
<1>6. new \in Seq(Git!Trees) /\ new # <<>>
  BY <1>2, <1>3, Prefixes
<1>7. Whole(<<>>, store')
  BY DEF Whole
<1> HIDE DEF new
<1>8. Based(refs') /\ \A b \in Git!Branch : Whole(refs'[b], store')
  BY <1>1, <1>5, <1>6, <1>7 DEF Based, Git!Branch
<1>9. GitInv' /\ Shown /\ Shown' /\ req' = Closed /\ start'.refs = refs'
  BY <1>1, <1>8, EndKeeps
<1>10. Git!Promised!Publish
  BY <1>1, <1>2, <1>9 DEF Shown, Git!Promised!Publish, Git!Promised!Last, Git!Branch, new
<1>11. QED
  BY <1>9, <1>10 DEF Git!Promised!Next

-----------------------------------------------------------------------------
(* The statements of a commit.                                             *)

\* SetToSeq leaves out nothing.
LEMMA SetInOrder ==
  ASSUME NEW S, IsFiniteSet(S)
  PROVE  /\ Git!SetToSeq(S) \in Seq(S)
         /\ \A x \in S : \E i \in 1..Len(Git!SetToSeq(S)) : Git!SetToSeq(S)[i] = x
<1> DEFINE n == Cardinality(S)
           f == Git!SetToSeq(S)
<1>1. n \in Nat /\ ExistsBijection(1..n, S)
  BY FS_CardinalityType
<1>2. PICK g : g \in [1..n -> S] /\ \A a, b \in 1..n : g[a] = g[b] => a = b
  BY <1>1 DEF ExistsBijection, Bijection, Injection, IsInjective
<1>3. Git!Cardinality(S) = n
  BY DEF Git!Cardinality, Cardinality
<1>4. f = CHOOSE h \in [1..n -> S] : Git!IsInjective(h)
  BY <1>3 DEF Git!SetToSeq
<1>5. g \in [1..n -> S] /\ Git!IsInjective(g)
  BY <1>2 DEF Git!IsInjective
<1> HIDE DEF n, f
<1>6. f \in [1..n -> S] /\ Git!IsInjective(f)
  BY <1>4, <1>5
<1>7. f \in Injection(1..n, S)
  BY <1>6 DEF Git!IsInjective, Injection, IsInjective
<1>8. IsFiniteSet(1..n) /\ Cardinality(1..n) = n
  BY <1>1, FS_Interval
<1>9. f \in Surjection(1..n, S)
  BY <1>7, <1>8, FS_Injection DEF n
<1>10. \A x \in S : \E i \in 1..n : f[i] = x
  BY <1>9 DEF Surjection
<1>11. f \in Seq(S) /\ Len(f) = n
  BY <1>1, <1>6
<1>12. QED
  BY <1>10, <1>11 DEF f

LEMMA AddedThenPointed ==
  ASSUME NEW X, NEW objects \in Seq(X), NEW b, NEW h
  PROVE  LET todo == Git!AddThenPoint(b, h, objects) IN
         /\ \E S : todo \in Seq(S)
         /\ Len(todo) = Len(objects) + 1
         /\ \A i \in 1..Len(objects) : todo[i] = [add |-> {objects[i]}, ref |-> {}, to |-> <<>>]
         /\ todo[Len(objects) + 1] = [add |-> {}, ref |-> {b}, to |-> h]
<1> DEFINE n == Len(objects)
           added == [i \in 1..n |-> [add |-> {objects[i]}, ref |-> {}, to |-> <<>>]]
           point == [add |-> {}, ref |-> {b}, to |-> h]
           S == {added[i] : i \in 1..n} \cup {point}
<1>1. n \in Nat /\ DOMAIN objects = 1..n
  BY LenProperties
<1>2. Git!AddThenPoint(b, h, objects) = added \o <<point>>
  BY <1>1 DEF Git!AddThenPoint, Git!Add, Git!Point
<1>3. added \in [1..n -> S] /\ point \in S /\ \A i \in 1..n : added[i].add = {objects[i]}
  OBVIOUS
<1>4. \A i \in 1..n : added[i] = [add |-> {objects[i]}, ref |-> {}, to |-> <<>>]
  OBVIOUS
<1> HIDE DEF added, point, S, n
<1>5. added \in Seq(S) /\ Len(added) = n /\ <<point>> \in Seq(S) /\ Len(<<point>>) = 1
      /\ <<point>>[1] = point
  BY <1>1, <1>3
<1>6. /\ added \o <<point>> \in Seq(S) /\ Len(added \o <<point>>) = n + 1
      /\ \A i \in 1..n : (added \o <<point>>)[i] = added[i]
      /\ (added \o <<point>>)[n + 1] = point
  BY <1>1, <1>5, ConcatProperties
<1>7. QED
  BY <1>2, <1>4, <1>6 DEF point, n

\* The version that a commit is to make, and what it consists of.
LEMMA NewVersionSound ==
  ASSUME GitInv, req # Closed, req.mode # "look"
  PROVE  /\ req.working \in Git!Trees /\ req.commit \in Seq(Git!Trees)
         /\ Git!First \in Seq(Git!Trees) /\ Git!First # <<>>
         /\ Whole(req.commit, start.store)
         /\ NewVersion \in Seq(Git!Trees) /\ NewVersion # <<>>
<1>1. /\ req.working \in Git!Trees /\ req.commit \in Seq(Git!Trees)
      /\ req.commit = Newest(start.refs)
  BY DEF GitInv, OpenSound, Git!Storages
<1>2. Git!First \in Seq(Git!Trees) /\ Git!First # <<>>
  <2>1. <<>> \in [{} -> TreeData \cup {Template}] /\ {} \in SUBSET Git!File
    OBVIOUS
  <2>2. <<>> \in Git!Trees
    BY <2>1 DEF Git!Trees
  <2>3. QED
    BY <2>2 DEF Git!First
<1>3. Whole(req.commit, start.store)
  BY <1>1 DEF GitInv, StartsWhole, Newest, Git!Branch
<1>4. QED
  BY <1>1, <1>2, <1>3, Prefixes DEF NewVersion

LEMMA CommitKeeps ==
  ASSUME GitInv, Git!CommitTree
  PROVE  GitInv' /\ UNCHANGED Git!Promised!vars
<1> DEFINE new == NewVersion
           blobs == {Git!Blob(c) : c \in Git!ChangedBlobs(req.working)}
           X == {Git!Commit(new), Git!Tree(req.working)} \cup blobs
           objects == <<Git!Commit(new), Git!Tree(req.working)>> \o Git!SetToSeq(blobs)
           create == IF req.commit = <<>> THEN Git!CreateRepo ELSE <<>>
           rest == Git!AddThenPoint("user", new, objects)
<1>1. /\ req # Closed /\ req.mode # "look" /\ treeTodo = <<>>
      /\ treeTodo' = create \o rest
      /\ UNCHANGED <<store, refs, req, start>>
  BY DEF Git!CommitTree, Git!Editing, NewVersion
<1>2. /\ start.store = store /\ start.refs = refs
      /\ req.working \in Git!Trees /\ req.commit \in Seq(Git!Trees)
      /\ Whole(req.commit, store) /\ req.tree = Git!FilesOf(req.commit)
      /\ \A p \in DOMAIN req.working :
           req.working[p] \in req.blobs \/ Git!Blob(req.working[p]) \in store
  BY <1>1, AtRest, NewVersionSound DEF GitInv, OpenSound
<1>3. IsFiniteSet(blobs)
  <2> DEFINE C == Git!ChangedBlobs(req.working)
             f == [c \in C |-> Git!Blob(c)]
  <2>1. IsFiniteSet(C)
    <3>1. IsFiniteSet(req.blobs) /\ C \in SUBSET req.blobs
      BY <1>1 DEF GitInv, OpenSound, Git!ChangedBlobs
    <3>2. QED
      BY <3>1, FS_Subset
  <2> HIDE DEF C
  <2>2. f \in Surjection(C, {Git!Blob(c) : c \in C})
    BY DEF Surjection
  <2>3. QED
    BY <2>1, <2>2, FS_Surjection DEF C
<1>4. /\ objects \in Seq(X)
      /\ \A x \in X : \E i \in 1..Len(objects) : objects[i] = x
  <2> DEFINE two == <<Git!Commit(new), Git!Tree(req.working)>>
             others == Git!SetToSeq(blobs)
  <2>1. /\ others \in Seq(blobs)
        /\ \A x \in blobs : \E i \in 1..Len(others) : others[i] = x
    BY <1>3, SetInOrder
  <2>2. /\ two \in Seq(X) /\ Len(two) = 2
        /\ two[1] = Git!Commit(new) /\ two[2] = Git!Tree(req.working)
    OBVIOUS
  <2> HIDE DEF others, blobs, new, two
  <2>3. others \in Seq(X)
    BY <2>1, SeqMonotonic
  <2> HIDE DEF X
  <2>4. /\ two \o others \in Seq(X) /\ Len(two \o others) = 2 + Len(others)
        /\ (two \o others)[1] = two[1] /\ (two \o others)[2] = two[2]
        /\ \A i \in 1..Len(others) : (two \o others)[i + 2] = others[i]
    <3>1. Len(others) \in Nat
      BY <2>3, LenProperties
    <3> DEFINE all == two \o others
    <3>a. /\ all \in Seq(X) /\ Len(all) = Len(two) + Len(others)
          /\ \A i \in 1..(Len(two) + Len(others)) :
               all[i] = IF i <= Len(two) THEN two[i] ELSE others[i - Len(two)]
      BY <2>2, <2>3, ConcatProperties
    <3> HIDE DEF all
    <3>2. /\ all \in Seq(X) /\ Len(all) = 2 + Len(others)
          /\ \A i \in 1..(2 + Len(others)) :
               all[i] = IF i <= 2 THEN two[i] ELSE others[i - 2]
      BY <2>2, <3>a
    <3>3. /\ 1 \in 1..(2 + Len(others)) /\ 2 \in 1..(2 + Len(others))
          /\ \A i \in 1..Len(others) : /\ i + 2 \in 1..(2 + Len(others))
                                       /\ ~(i + 2 <= 2) /\ (i + 2) - 2 = i
      BY <3>1
    <3>4. all[1] = two[1] /\ all[2] = two[2]
      BY <3>2, <3>3
    <3>5. \A i \in 1..Len(others) : all[i + 2] = others[i]
      BY <3>2, <3>3
    <3>6. QED
      BY <3>2, <3>4, <3>5 DEF all
  <2>5. ASSUME NEW x \in X PROVE \E i \in 1..(2 + Len(others)) : (two \o others)[i] = x
    <3>1. Len(others) \in Nat
      BY <2>3, LenProperties
    <3>2. CASE x \in blobs
      <4>1. PICK i \in 1..Len(others) : others[i] = x
        BY <2>1, <3>2
      <4>2. i + 2 \in 1..(2 + Len(others)) /\ (two \o others)[i + 2] = x
        BY <2>4, <3>1, <4>1
      <4>3. QED
        BY <4>2
    <3>3. CASE x \notin blobs
      BY <2>2, <2>4, <3>1, <3>3 DEF X
    <3>4. QED
      BY <3>2, <3>3
  <2>6. QED
    BY <2>4, <2>5 DEF two, others
<1>5. PICK S :
        /\ create \in Seq(S) /\ Len(create) \in Nat
        /\ \A i \in 1..Len(create) : create[i].ref = {} \/ MakesMaster(create[i])
        /\ req.commit = <<>> => /\ Len(create) \in 1..Len(create)
                                /\ MakesMaster(create[Len(create)])
                                /\ \A x \in {Git!Commit(Git!First), Git!Tree(<<>>)} :
                                     \E i \in 1..Len(create) : create[i].add = {x}
  <2>1. CASE req.commit # <<>>
    <3>1. create = <<>> /\ <<>> \in Seq({}) /\ Len(<<>>) = 0
      BY <2>1
    <3>2. QED
      BY <2>1, <3>1
  <2>2. CASE req.commit = <<>>
    <3> DEFINE c == Git!Commit(Git!First)
               t == Git!Tree(<<>>)
    <3>1. create = Git!AddThenPoint("master", Git!First, <<c, t>>)
      BY <2>2 DEF Git!CreateRepo
    <3>2. /\ <<c, t>> \in Seq({c, t}) /\ Len(<<c, t>>) = 2
          /\ <<c, t>>[1] = c /\ <<c, t>>[2] = t
      OBVIOUS
    <3> DEFINE both == <<c, t>>
    <3> HIDE DEF create, c, t, both
    <3>3. PICK S : create \in Seq(S)
      BY <3>1, <3>2, AddedThenPointed DEF both
    <3>a. /\ Len(create) = Len(both) + 1
          /\ \A i \in 1..Len(both) :
               create[i] = [add |-> {both[i]}, ref |-> {}, to |-> <<>>]
          /\ create[Len(both) + 1] = [add |-> {}, ref |-> {"master"}, to |-> Git!First]
      <4>1. both \in Seq({c, t}) /\ create = Git!AddThenPoint("master", Git!First, both)
        BY <3>1, <3>2 DEF both
      <4>2. QED
        BY <4>1, AddedThenPointed
    <3>4. /\ Len(create) = 2 + 1
          /\ \A i \in 1..2 : create[i] = [add |-> {both[i]}, ref |-> {}, to |-> <<>>]
          /\ create[2 + 1] = [add |-> {}, ref |-> {"master"}, to |-> Git!First]
      <4>1. Len(both) = 2
        BY <3>2 DEF both
      <4>2. QED
        BY <3>a, <4>1
    <3>5. Len(create) = 3 /\ create[1].add = {c} /\ create[1].ref = {}
          /\ create[2].add = {t} /\ create[2].ref = {}
          /\ create[3] = [add |-> {}, ref |-> {"master"}, to |-> Git!First]
      BY <3>2, <3>4 DEF both
    <3>6. MakesMaster(create[3])
      BY <2>2, <3>5 DEF MakesMaster
    <3>7. \A i \in 1..3 : create[i].ref = {} \/ MakesMaster(create[i])
      <4>1. \A i \in 1..3 : i = 1 \/ i = 2 \/ i = 3
        OBVIOUS
      <4>2. QED
        BY <3>5, <3>6, <4>1
    <3>8. \A x \in {c, t} : \E i \in 1..3 : create[i].add = {x}
      BY <3>5
    <3>9. QED
      BY <3>3, <3>5, <3>6, <3>7, <3>8 DEF c, t
  <2>3. QED
    BY <2>1, <2>2
<1> HIDE DEF create, objects, blobs
<1>6. PICK T :
        /\ rest \in Seq(T) /\ Len(objects) \in Nat /\ Len(rest) = Len(objects) + 1
        /\ \A i \in 1..Len(objects) : rest[i].add = {objects[i]} /\ rest[i].ref = {}
        /\ rest[Len(objects) + 1] = [add |-> {}, ref |-> {"user"}, to |-> new]
  <2>1. PICK T : rest \in Seq(T)
    BY <1>4, AddedThenPointed
  <2>2. /\ Len(rest) = Len(objects) + 1
        /\ \A i \in 1..Len(objects) : rest[i] = [add |-> {objects[i]}, ref |-> {}, to |-> <<>>]
        /\ rest[Len(objects) + 1] = [add |-> {}, ref |-> {"user"}, to |-> new]
    BY <1>4, AddedThenPointed
  <2>3. /\ Len(objects) \in Nat
        /\ \A i \in 1..Len(objects) : rest[i].add = {objects[i]} /\ rest[i].ref = {}
    <3> HIDE DEF rest, new
    <3>1. Len(objects) \in Nat
      BY <1>4, LenProperties
    <3>2. ASSUME NEW i \in 1..Len(objects)
          PROVE  rest[i].add = {objects[i]} /\ rest[i].ref = {}
      <4>1. rest[i] = [add |-> {objects[i]}, ref |-> {}, to |-> <<>>]
        BY <2>2
      <4>2. QED
        BY <4>1
    <3>3. QED
      BY <3>1, <3>2
  <2> HIDE DEF rest, new
  <2>4. QED
    BY <2>1, <2>2, <2>3
<1> HIDE DEF rest, new
<1>7. /\ treeTodo' \in Seq(S \cup T)
      /\ Len(treeTodo') = Len(create) + Len(objects) + 1
      /\ \A i \in 1..Len(create) : treeTodo'[i] = create[i]
      /\ \A i \in 1..(Len(objects) + 1) : treeTodo'[Len(create) + i] = rest[i]
  <2>1. create \in Seq(S \cup T) /\ rest \in Seq(S \cup T)
    BY <1>5, <1>6, SeqMonotonic
  <2>2. /\ create \o rest \in Seq(S \cup T)
        /\ Len(create \o rest) = Len(create) + Len(rest)
        /\ \A i \in 1..(Len(create) + Len(rest)) :
             (create \o rest)[i] = IF i <= Len(create) THEN create[i]
                                   ELSE rest[i - Len(create)]
    BY <2>1, ConcatProperties
  <2>3. QED
    BY <1>1, <1>5, <1>6, <2>2
<1>8. /\ X \subseteq Adds'
      /\ req.commit = <<>> => {Git!Commit(Git!First), Git!Tree(<<>>)} \subseteq Adds'
  <2>1. \A i \in 1..Len(treeTodo') : treeTodo'[i].add \subseteq Adds'
    BY DEF Adds
  <2>2. \A i \in 1..Len(create) : create[i].add \subseteq Adds'
    BY <1>5, <1>6, <1>7, <2>1
  <2>3. ASSUME NEW i \in 1..Len(objects) PROVE objects[i] \in Adds'
    <3>1. Len(create) + i \in 1..Len(treeTodo') /\ treeTodo'[Len(create) + i] = rest[i]
      BY <1>5, <1>6, <1>7
    <3>2. QED
      BY <1>6, <2>1, <3>1
  <2>4. ASSUME req.commit = <<>>, NEW x \in {Git!Commit(Git!First), Git!Tree(<<>>)}
        PROVE  x \in Adds'
    BY <1>5, <2>2, <2>4
  <2>5. QED
    BY <1>4, <2>3, <2>4
<1>9. Whole(new, store \cup Adds')
  <2> DEFINE base == IF req.commit = <<>> THEN Git!First ELSE req.commit
             there == store \cup Adds'
  <2>1. base \in Seq(Git!Trees) /\ new = Append(base, req.working)
    BY <1>1, NewVersionSound DEF new, NewVersion
  <2>2. Whole(base, there)
    <3>1. CASE req.commit # <<>>
      BY <1>2, <3>1, WholeGrows
    <3>2. CASE req.commit = <<>>
      <4>1. Len(Git!First) = 1 /\ Git!First[1] = <<>>
        BY DEF Git!First
      <4>2. SubSeq(Git!First, 1, 1) = Git!First
        BY <2>1, <3>2, <4>1, SubSeqFull
      <4>3. DOMAIN <<>> = {}
        OBVIOUS
      <4>4. \A i \in 1..1 : i = 1
        OBVIOUS
      <4>5. Git!Commit(Git!First) \in there /\ Git!Tree(<<>>) \in there
        BY <1>8, <3>2
      <4> HIDE DEF there
      <4>6. Whole(Git!First, there)
        BY <4>1, <4>2, <4>3, <4>4, <4>5 DEF Whole
      <4>7. QED
        BY <3>2, <4>6
    <3>3. QED
      BY <3>1, <3>2
  <2>3. ASSUME NEW p \in DOMAIN req.working PROVE Git!Blob(req.working[p]) \in there
    <3>1. CASE p \in DOMAIN req.tree /\ req.working[p] = req.tree[p]
      BY <1>2, <3>1, FilesWhole
    <3>2. CASE ~(p \in DOMAIN req.tree /\ req.working[p] = req.tree[p])
      <4>1. CASE req.working[p] \in req.blobs
        BY <1>8, <3>2, <4>1 DEF Git!ChangedBlobs, blobs
      <4>2. CASE Git!Blob(req.working[p]) \in store
        BY <4>2
      <4>3. QED
        BY <1>2, <4>1, <4>2
    <3>3. QED
      BY <3>1, <3>2
  <2>4. Git!Commit(new) \in there /\ Git!Tree(req.working) \in there
    BY <1>8
  <2> HIDE DEF base, there
  <2>5. QED
    BY <1>2, <2>1, <2>2, <2>3, <2>4, WholeAppend DEF there
<1>10. NewVersion' = new /\ \A s : MakesMaster(s)' <=> MakesMaster(s)
  BY <1>1 DEF NewVersion, MakesMaster, new
<1>11. CommitSound'
  <2>1. Len(treeTodo') = Len(create) + Len(objects) + 1 /\ treeTodo' # <<>>
    BY <1>5, <1>6, <1>7
  <2>2. ASSUME NEW i \in 1..(Len(treeTodo') - 1)
        PROVE  treeTodo'[i].ref = {} \/ MakesMaster(treeTodo'[i])
    <3>1. CASE i <= Len(create)
      BY <1>5, <1>7, <3>1
    <3>2. CASE i > Len(create)
      <4>1. i - Len(create) \in 1..Len(objects) /\ Len(create) + (i - Len(create)) = i
        BY <1>5, <1>6, <2>1, <3>2
      <4>2. treeTodo'[i] = rest[i - Len(create)]
        BY <1>6, <1>7, <4>1
      <4>3. QED
        BY <1>6, <4>1, <4>2
    <3>3. QED
      BY <1>5, <3>1, <3>2
  <2>3. treeTodo'[Len(treeTodo')] = [add |-> {}, ref |-> {"user"}, to |-> new]
    BY <1>5, <1>6, <1>7
  <2>4. req.commit = <<>> =>
          \E i \in 1..(Len(treeTodo') - 1) : MakesMaster(treeTodo'[i])
    <3>1. ASSUME req.commit = <<>>
          PROVE  /\ Len(create) \in 1..(Len(treeTodo') - 1)
                 /\ MakesMaster(treeTodo'[Len(create)])
      <4>1. Len(create) \in 1..Len(create) /\ MakesMaster(create[Len(create)])
        BY <1>5, <3>1
      <4>2. treeTodo'[Len(create)] = create[Len(create)]
        BY <1>7, <4>1
      <4>3. Len(create) \in 1..(Len(treeTodo') - 1)
        BY <1>5, <1>6, <1>7, <4>1
      <4>4. QED
        BY <4>1, <4>2, <4>3
    <3>2. QED
      BY <3>1
  <2>5. QED
    BY <1>1, <1>2, <1>7, <1>9, <1>10, <2>2, <2>3, <2>4 DEF CommitSound
<1>12. GitInv'
  <2>1. treeTodo' # <<>>
    BY <1>5, <1>6, <1>7
  <2>2. StartsWhole'
    BY <1>1, <2>1 DEF GitInv, StartsWhole
  <2>3. OpenSound'
    BY <1>1 DEF GitInv, OpenSound
  <2>4. QED
    BY <1>11, <2>2, <2>3 DEF GitInv
<1>13. Shown /\ Shown'
  BY <1>12, ShowsVersions, PTL
<1>14. QED
  BY <1>1, <1>12, <1>13 DEF Shown, Git!Promised!vars

LEMMA WholePrefix ==
  ASSUME NEW h \in Seq(Git!Trees), NEW t \in Git!Trees, NEW objects,
         Whole(Append(h, t), objects)
  PROVE  Whole(h, objects)
<1> DEFINE g == Append(h, t)
<1>1. /\ Len(g) = Len(h) + 1 /\ Len(h) \in Nat
      /\ \A i \in 1..Len(h) : g[i] = h[i] /\ SubSeq(g, 1, i) = SubSeq(h, 1, i)
  BY Prefixes, LenProperties
<1>2. Whole(g, objects)
  OBVIOUS
<1> HIDE DEF g
<1>3. ASSUME NEW i \in 1..Len(h)
      PROVE  /\ Git!Commit(SubSeq(h, 1, i)) \in objects
             /\ Git!Tree(h[i]) \in objects
             /\ \A p \in DOMAIN h[i] : Git!Blob(h[i][p]) \in objects
  <2>1. i \in 1..Len(g) /\ g[i] = h[i] /\ SubSeq(g, 1, i) = SubSeq(h, 1, i)
    BY <1>1
  <2>2. /\ Git!Commit(SubSeq(g, 1, i)) \in objects
        /\ Git!Tree(g[i]) \in objects
        /\ \A p \in DOMAIN g[i] : Git!Blob(g[i][p]) \in objects
    BY <1>2, <2>1 DEF Whole
  <2>3. QED
    BY <2>1, <2>2
<1>4. QED
  BY <1>3 DEF Whole

\* The statement that is made is the first of those left.
LEMMA StatementMade ==
  ASSUME GitInv, Git!Step
  PROVE  /\ treeTodo # <<>> /\ Len(treeTodo) \in Nat \ {0}
         /\ store' = store \cup treeTodo[1].add
         /\ refs' = [b \in Git!Branch |->
                       IF b \in treeTodo[1].ref THEN treeTodo[1].to ELSE refs[b]]
         /\ Len(treeTodo) = 1 => Git!End
         /\ Len(treeTodo) # 1 => treeTodo' = Tail(treeTodo) /\ UNCHANGED <<req, start>>
<1>1. treeTodo # <<>>
  BY DEF Git!Step
<1>2. PICK S : treeTodo \in Seq(S)
  BY <1>1 DEF GitInv, CommitSound
<1>3. Len(treeTodo) \in Nat \ {0} /\ Head(treeTodo) = treeTodo[1]
  BY <1>1, <1>2, EmptySeq, LenProperties
<1>4. QED
  BY <1>1, <1>3 DEF Git!Step

\* The last statement shows the new version to everybody.
LEMMA LastStepKeeps ==
  ASSUME GitInv, Git!Step, Len(treeTodo) = 1
  PROVE  GitInv' /\ Git!Promised!Next
<1>1. /\ treeTodo # <<>> /\ req # Closed /\ req.mode # "look" /\ Git!End
      /\ treeTodo[1] = [add |-> {}, ref |-> {"user"}, to |-> NewVersion]
      /\ start.store \subseteq store
  BY StatementMade DEF GitInv, CommitSound
<1>2. store' = store /\ refs' = [b \in Git!Branch |-> IF b = "user" THEN NewVersion
                                                      ELSE refs[b]]
  <2>1. /\ store' = store \cup treeTodo[1].add
        /\ refs' = [b \in Git!Branch |->
                      IF b \in treeTodo[1].ref THEN treeTodo[1].to ELSE refs[b]]
    BY StatementMade
  <2>2. /\ treeTodo[1].add = {} /\ treeTodo[1].ref = {"user"}
        /\ treeTodo[1].to = NewVersion
    BY <1>1
  <2>3. \A b : b \in {"user"} <=> b = "user"
    OBVIOUS
  <2>4. QED
    BY <2>1, <2>2, <2>3
<1>3. /\ req.working \in Git!Trees /\ req.commit \in Seq(Git!Trees)
      /\ Git!First \in Seq(Git!Trees) /\ Git!First # <<>>
      /\ NewVersion \in Seq(Git!Trees) /\ NewVersion # <<>>
  BY <1>1, NewVersionSound
<1>4. Whole(NewVersion, store)
  <2>1. Adds = {}
    BY <1>1 DEF Adds
  <2>2. Whole(NewVersion, store \cup Adds)
    BY <1>1 DEF GitInv, CommitSound
  <2>3. QED
    BY <2>1, <2>2
<1>5. /\ req.commit = Newest(start.refs) /\ Based(start.refs)
      /\ Whole(start.refs["master"], start.store)
      /\ refs \in [Git!Branch -> Seq(Git!Trees)]
  BY <1>1 DEF GitInv, OpenSound, StartsWhole, Git!Branch
<1>6. req.commit = <<>> <=> start.refs["master"] = <<>>
  BY <1>5 DEF Newest, Based
<1>7. refs["master"] = IF req.commit = <<>> THEN Git!First ELSE start.refs["master"]
  <2>1. ~ \E i \in 1..(1 - 1) : MakesMaster(treeTodo[i])
    OBVIOUS
  <2>2. QED
    BY <1>1, <2>1 DEF GitInv, CommitSound
<1>8. Whole(refs["master"], store) /\ refs["master"] # <<>>
  <2>1. CASE req.commit = <<>>
    <3>1. NewVersion = Append(Git!First, req.working)
      BY <2>1 DEF NewVersion
    <3>2. Whole(Git!First, store)
      BY <1>3, <1>4, <3>1, WholePrefix
    <3>3. QED
      BY <1>3, <1>7, <2>1, <3>2
  <2>2. CASE req.commit # <<>>
    BY <1>1, <1>5, <1>6, <1>7, <2>2, WholeGrows
  <2>3. QED
    BY <2>1, <2>2
<1>9. Based(refs') /\ \A b \in Git!Branch : Whole(refs'[b], store')
  BY <1>2, <1>3, <1>4, <1>5, <1>8 DEF Based, Git!Branch
<1>10. GitInv' /\ Shown /\ Shown' /\ req' = Closed /\ start'.refs = refs'
  BY <1>1, <1>9, EndKeeps
<1>11. Git!Promised!Save
  <2>1. /\ Git!VersionsOf(Git!Seen, "user")' = NewVersion
        /\ Git!VersionsOf(Git!Seen, "master")' = refs["master"]
    BY <1>2, <1>10 DEF Shown, Git!Branch
  <2>2. Git!Promised!Newest = req.commit
    BY <1>5, <1>10 DEF Shown, Git!Promised!Newest, Newest
  <2>3. req.working # Closed
    BY <1>3, ClosedAssumption
  <2>4. << <<>> >> = Git!First
    BY DEF Git!First
  <2>5. QED
    BY <1>1, <1>6, <1>7, <1>10, <2>1, <2>2, <2>3, <2>4
       DEF Shown, Git!Promised!Save, NewVersion
<1>12. QED
  BY <1>10, <1>11 DEF Git!Promised!Next

\* The others show nothing.
LEMMA OtherStepsKeep ==
  ASSUME GitInv, Git!Step, Len(treeTodo) # 1
  PROVE  GitInv' /\ UNCHANGED Git!Promised!vars
<1> DEFINE n == Len(treeTodo)
           s == treeTodo[1]
<1>1. /\ treeTodo # <<>> /\ treeTodo' = Tail(treeTodo) /\ UNCHANGED <<req, start>>
      /\ store' = store \cup s.add
      /\ refs' = [b \in Git!Branch |-> IF b \in s.ref THEN s.to ELSE refs[b]]
  BY StatementMade
<1>2. PICK S : treeTodo \in Seq(S)
  BY <1>1 DEF GitInv, CommitSound
<1>3. n \in Nat /\ n > 1
  <2>1. n \in Nat \ {0} /\ n # 1
    BY StatementMade
  <2>2. \A k \in Nat \ {0} : k # 1 => k > 1
    OBVIOUS
  <2> HIDE DEF n
  <2>3. QED
    BY <2>1, <2>2
<1>4. /\ treeTodo' \in Seq(S) /\ Len(treeTodo') = n - 1
      /\ \A i \in 1..(n - 1) : treeTodo'[i] = treeTodo[i + 1]
  BY <1>1, <1>2, HeadTailProperties
<1>5. treeTodo' # <<>>
  BY <1>3, <1>4
<1>6. /\ req # Closed /\ req.mode # "look" /\ start.store \subseteq store
      /\ Whole(NewVersion, store \cup Adds)
      /\ \A i \in 1..(n - 1) : treeTodo[i].ref = {} \/ MakesMaster(treeTodo[i])
      /\ treeTodo[n] = [add |-> {}, ref |-> {"user"}, to |-> NewVersion]
      /\ refs["user"] = start.refs["user"]
      /\ \/ refs["master"] = start.refs["master"]
         \/ req.commit = <<>> /\ refs["master"] = Git!First
      /\ req.commit = <<>> /\ refs["master"] # Git!First =>
           \E i \in 1..(n - 1) : MakesMaster(treeTodo[i])
  BY <1>1 DEF GitInv, CommitSound
<1>7. refs \in [Git!Branch -> Seq(Git!Trees)] /\ Git!First \in Seq(Git!Trees)
  BY <1>6, NewVersionSound DEF GitInv, StartsWhole
<1>8. /\ refs' \in [Git!Branch -> Seq(Git!Trees)]
      /\ refs'["user"] = refs["user"]
      /\ IF MakesMaster(s) THEN req.commit = <<>> /\ refs'["master"] = Git!First
         ELSE refs'["master"] = refs["master"]
  <2>1. s.ref = {} \/ MakesMaster(s)
    BY <1>3, <1>6
  <2>2. CASE MakesMaster(s)
    BY <1>1, <1>7, <2>2 DEF MakesMaster, Git!Branch
  <2>3. CASE ~MakesMaster(s)
    BY <1>1, <1>7, <2>1, <2>3 DEF Git!Branch
  <2>4. QED
    BY <2>2, <2>3
<1>9. store \cup Adds \subseteq store' \cup Adds'
  <2>1. ASSUME NEW x \in Adds PROVE x \in store' \cup Adds'
    <3>1. PICK i \in 1..n : x \in treeTodo[i].add
      BY DEF Adds
    <3>2. CASE i = 1
      BY <1>1, <3>1, <3>2
    <3>3. CASE i # 1
      <4>1. i - 1 \in 1..Len(treeTodo') /\ treeTodo'[i - 1] = treeTodo[i]
        BY <1>3, <1>4, <3>3
      <4>2. QED
        BY <3>1, <4>1 DEF Adds
    <3>4. QED
      BY <3>2, <3>3
  <2>2. QED
    BY <1>1, <2>1
<1>10. NewVersion' = NewVersion /\ \A x : MakesMaster(x)' <=> MakesMaster(x)
  BY <1>1 DEF NewVersion, MakesMaster
<1>11. Whole(NewVersion, store' \cup Adds')
  BY <1>6, <1>9, WholeGrows
<1>12. \A i \in 1..((n - 1) - 1) : treeTodo'[i].ref = {} \/ MakesMaster(treeTodo'[i])
  <2>1. ASSUME NEW i \in 1..((n - 1) - 1)
        PROVE  i + 1 \in 1..(n - 1) /\ treeTodo'[i] = treeTodo[i + 1]
    BY <1>3, <1>4
  <2>2. QED
    BY <1>6, <2>1
<1>13. treeTodo'[n - 1] = [add |-> {}, ref |-> {"user"}, to |-> NewVersion]
  <2>1. n - 1 \in 1..(n - 1) /\ (n - 1) + 1 = n
    BY <1>3
  <2>2. QED
    BY <1>4, <1>6, <2>1
<1>14. ASSUME req.commit = <<>>, refs'["master"] # Git!First
       PROVE  \E i \in 1..((n - 1) - 1) : MakesMaster(treeTodo'[i])
  <2>1. ~MakesMaster(s) /\ refs["master"] # Git!First
    BY <1>8, <1>14
  <2>2. PICK i \in 1..(n - 1) : MakesMaster(treeTodo[i])
    BY <1>6, <1>14, <2>1
  <2>3. i # 1
    BY <2>1, <2>2
  <2>4. i - 1 \in 1..((n - 1) - 1) /\ treeTodo'[i - 1] = treeTodo[i]
    BY <1>3, <1>4, <2>3
  <2>5. QED
    BY <2>2, <2>4
<1> HIDE DEF n, s
<1>15. CommitSound'
  BY <1>1, <1>4, <1>6, <1>8, <1>10, <1>11, <1>12, <1>13, <1>14 DEF CommitSound
<1>16. GitInv'
  <2>1. StartsWhole'
    BY <1>1, <1>5, <1>8 DEF GitInv, StartsWhole
  <2>2. OpenSound'
    BY <1>1 DEF GitInv, OpenSound
  <2>3. QED
    BY <1>15, <2>1, <2>2 DEF GitInv
<1>17. Shown /\ Shown'
  BY <1>16, ShowsVersions, PTL
<1>18. req' = req /\ start' = start
  BY <1>1
<1>19. QED
  BY <1>16, <1>17, <1>18 DEF Shown, Git!Promised!vars

-----------------------------------------------------------------------------
(* The behaviours of the storage.                                          *)

LEMMA GitStarts ==
  ASSUME Git!Init
  PROVE  GitInv /\ Git!Promised!Init
<1>1. /\ store = {} /\ refs = [b \in Git!Branch |-> <<>>] /\ req = Closed
      /\ treeTodo = <<>> /\ start = [store |-> store, refs |-> refs]
  BY DEF Git!Init
<1>2. Based(refs) /\ \A b \in Git!Branch : Whole(refs[b], store)
  BY <1>1 DEF Based, Whole, Git!Branch
<1>3. GitInv
  BY <1>1, <1>2 DEF GitInv, StartsWhole, OpenSound, CommitSound, Based
<1>4. Shown
  BY <1>3, ShowsVersions
<1>5. QED
  BY <1>1, <1>3, <1>4 DEF Shown, Git!Promised!Init, Git!Branch

LEMMA GitStepKeeps ==
  ASSUME GitInv, Git!Next
  PROVE  GitInv' /\ (Git!Promised!Next \/ UNCHANGED Git!Promised!vars)
<1>1. CASE \E mode \in {"http", "ferry"} : Git!Open(mode)
  BY <1>1, OpenKeeps
<1>2. CASE \E b \in Git!Branch : \E i \in DOMAIN refs[b] :
             Git!Checkout(SubSeq(refs[b], 1, i))
  BY <1>2, CheckoutKeeps
<1>3. CASE \E p \in Git!File : Git!Delete(p) \/ \E c \in TreeData : Git!Save(p, c)
  BY <1>3, DeleteKeeps, SaveKeeps
<1>4. CASE \E n, m \in Spider : Git!MoveDirectory(n, m)
  BY <1>4, MoveKeeps
<1>5. CASE Git!CommitTree
  BY <1>5, CommitKeeps
<1>6. CASE Git!Step
  BY <1>6, LastStepKeeps, OtherStepsKeep
<1>7. CASE Git!Close
  BY <1>7, CloseKeeps
<1>8. CASE Git!Crash
  BY <1>8, CrashKeeps
<1>9. CASE Git!Publish
  BY <1>9, PublishKeeps
<1>10. QED
  BY <1>1, <1>2, <1>3, <1>4, <1>5, <1>6, <1>7, <1>8, <1>9 DEF Git!Next

LEMMA StorageStepKeeps ==
  ASSUME GitInv, [Next]_vars
  PROVE  GitInv' /\ (Git!Promised!Next \/ UNCHANGED Git!Promised!vars)
<1>1. CASE Git!Next
  BY <1>1, GitStepKeeps
<1>2. CASE UNCHANGED gitVars
  <2>1. UNCHANGED <<store, refs, req, treeTodo, start>>
    BY <1>2 DEF gitVars
  <2>2. GitInv'
    <3>1. StartsWhole'
      BY <2>1 DEF GitInv, StartsWhole
    <3>2. OpenSound'
      BY <2>1 DEF GitInv, OpenSound
    <3>3. Adds' = Adds /\ NewVersion' = NewVersion
          /\ \A x : MakesMaster(x)' <=> MakesMaster(x)
      BY <2>1 DEF Adds, NewVersion, MakesMaster
    <3>4. CommitSound'
      BY <2>1, <3>3 DEF GitInv, CommitSound
    <3>5. QED
      BY <3>1, <3>2, <3>4 DEF GitInv
  <2>3. Shown /\ Shown'
    BY <2>2, ShowsVersions, PTL
  <2>4. QED
    BY <2>1, <2>2, <2>3 DEF Shown, Git!Promised!vars
<1>3. QED
  BY <1>1, <1>2 DEF Next, vars

\* A branch shows whole versions, and a request that is open works on files that
\* can be read: what GitStorage and db_repo keep, at every statement of a commit.
THEOREM GitIsSound == Spec => []GitInv
<1>1. Init => GitInv
  BY GitStarts DEF Init
<1>2. GitInv /\ [Next]_vars => GitInv'
  BY StorageStepKeeps
<1>3. QED
  BY <1>1, <1>2, PTL DEF Spec

\* Every version of a project can be read, and what a request saves is one more
\* version or nothing, whenever the server stops: db_repo's commits implement
\* Versions, for every set of files and contents, number of edits and size of a
\* tree.
THEOREM VersionsAreWhole == Spec => ActsAsVersions
<1>1. Init => Git!Promised!Init
  BY GitStarts DEF Init
<1>2. GitInv /\ [Next]_vars => [Git!Promised!Next]_(Git!Promised!vars)
  BY StorageStepKeeps
<1>3. QED
  BY <1>1, <1>2, GitIsSound, PTL
     DEF Spec, ActsAsVersions, Git!ActsAsVersions, Git!Promised!Spec
============================================================================
