---------------------------- MODULE WorkingTree ----------------------------
(***************************************************************************)
(* The working tree of a request (GitStorage) over the git objects and     *)
(* references that are kept in MySQL (db_repo): what opening a project     *)
(* reads, what edits do to the tree, and the statements of a commit.       *)
(*                                                                         *)
(* Objects are named by what is in them: <<"blob", c>>, <<"tree", files>>  *)
(* and <<"commit", h>>, where h is the sequence of the trees from the      *)
(* first commit of the project to this one.  A path <<n>> is the file      *)
(* n.json, and <<n, x>> the file x.json in the directory n.                *)
(*                                                                         *)
(* A request over HTTP is one transaction; one of the browser (Ferry)      *)
(* commits each statement on its own.  Either may crash before any of      *)
(* them.  Requests run one at a time: Sessions is about those that do not. *)
(***************************************************************************)
EXTENDS Naturals, Sequences, SequencesExt, Functions

CONSTANTS Name, Id, Content, Closed, None,
          Template,                \* project.json as it is made
          MaxEdits                 \* the bound

VARIABLES store,  \* the objects of the project
          refs,   \* branch -> its commit, <<>> for none
          req,    \* the open storage, or Closed
          todo,   \* the statements of its commit
          start,  \* store and refs when it was opened, or now
          edits   \* how many were made

vars == <<store, refs, req, todo, start, edits>>

\* The file that every project has: project.json.
Default == <<"project">>

File == {<<n>> : n \in Name} \cup (Name \X Id) \cup {Default}
Branch == {"user", "master"}

Blob(c) == <<"blob", c>>
Tree(files) == <<"tree", files>>
Commit(h) == <<"commit", h>>

FilesOf(h) == IF h = <<>> THEN <<>> ELSE Last(h)
Readable(h) == {Commit(h), Tree(FilesOf(h))} \subseteq store

With(files, p, c) == [q \in DOMAIN files \cup {p} |-> IF q = p THEN c ELSE files[q]]
Under(files, p) == {q \in DOMAIN files : IsStrictPrefix(p, q)}
Without(files, ps) == [q \in DOMAIN files \ ps |-> files[q]]

Init == /\ store = {} /\ refs = [b \in Branch |-> <<>>] /\ req = Closed
        /\ todo = <<>> /\ edits = 0
        /\ start = [store |-> store, refs |-> refs]

-----------------------------------------------------------------------------
(* Opening.                                                                *)

\* The user's own branch, or master; a branch that cannot be read is dropped.
CheckedOut == IF refs["user"] # <<>> /\ Readable(refs["user"])
              THEN refs["user"] ELSE refs["master"]

Trees == UNION {[S -> Content \cup {Template}] : S \in SUBSET File}
Storages == [mode : {"http", "ferry", "look"}, commit : Seq(Trees), tree : Trees,
             working : Trees, blobs : SUBSET (Content \cup {Template})]

Storage(mode, h, working, blobs) ==
  [mode |-> mode, commit |-> h, tree |-> FilesOf(h), working |-> working,
   blobs |-> blobs]

\* Only requests over HTTP make projects.
Open(mode) ==
  LET files == FilesOf(CheckedOut) IN
  /\ req = Closed
  /\ mode = "ferry" => refs["master"] # <<>>
  /\ refs["master"] # <<>> => Readable(CheckedOut)
  /\ req' = IF Default \in DOMAIN files
            THEN Storage(mode, CheckedOut, files, {})
            ELSE Storage(mode, CheckedOut, With(files, Default, Template), {Template})
  /\ refs' = IF CheckedOut = refs["user"] THEN refs
             ELSE [refs EXCEPT !["user"] = <<>>]
  /\ UNCHANGED <<store, todo, start, edits>>

\* Another version, to be downloaded or deployed.
Checkout(h) ==
  /\ req # Closed /\ req.mode = "http" /\ todo = <<>>
  /\ h # <<>> /\ \E b \in Branch : IsPrefix(h, refs[b])
  /\ req' = Storage("look", h, FilesOf(h), {})
  /\ UNCHANGED <<store, refs, todo, start, edits>>

-----------------------------------------------------------------------------
(* Edits of the working tree.                                              *)

Change(files, blobs) ==
  /\ edits < MaxEdits /\ edits' = edits + 1
  /\ req' = [req EXCEPT !.working = files, !.blobs = @ \cup blobs]
  /\ UNCHANGED <<store, refs, todo, start>>

Editing == req # Closed /\ req.mode # "look" /\ todo = <<>>

Save(p, c) == Editing /\ Change(With(req.working, p, c), {c})

\* A json file goes with the directory of its name.
Delete(p) == /\ Editing /\ p \in DOMAIN req.working
             /\ Change(Without(req.working, {p} \cup Under(req.working, p)), {})

\* The loop deletes from the dictionary it runs over: it meets some files.
MoveDirectory(n, m) ==
  /\ Editing /\ n # m
  /\ \E met \in SUBSET Under(req.working, <<n>>) \ {{}} :
       LET to == {<<m>> \o Tail(q) : q \in met} IN
       Change([q \in (DOMAIN req.working \ met) \cup to |->
                 req.working[IF q \in to THEN <<n>> \o Tail(q) ELSE q]], {})

-----------------------------------------------------------------------------
(* Commits.                                                                *)

Add(objects) == [i \in DOMAIN objects |-> [add |-> {objects[i]}, ref |-> {}, to |-> <<>>]]
Point(b, h) == <<[add |-> {}, ref |-> {b}, to |-> h]>>

\* Mutant: the branch is moved before its objects are there.
PointThenAdd(b, h, objects) == Point(b, h) \o Add(objects)

AddThenPoint(b, h, objects) == Add(objects) \o Point(b, h)

ChangedBlobs(files) ==
  {files[p] : p \in {q \in DOMAIN files : q \notin DOMAIN req.tree
                                          \/ files[q] # req.tree[q]}}
    \cap req.blobs

\* A project that has no commit gets an empty one, on master, first.
First == << <<>> >>
CreateRepo == AddThenPoint("master", First, <<Commit(First), Tree(<<>>)>>)

CommitTree ==
  LET new == Append(IF req.commit = <<>> THEN First ELSE req.commit, req.working)
      blobs == {Blob(c) : c \in ChangedBlobs(req.working)}
  IN /\ Editing /\ req.working # req.tree
     /\ req.commit = <<>> => store = {}
     /\ todo' = (IF req.commit = <<>> THEN CreateRepo ELSE <<>>)
                  \o AddThenPoint("user", new,
                       <<Commit(new), Tree(req.working)>> \o SetToSeq(blobs))
     /\ UNCHANGED <<store, refs, req, start, edits>>

End == /\ req' = Closed /\ todo' = <<>> /\ UNCHANGED edits
       /\ start' = [store |-> store', refs |-> refs']

\* One statement; the response is sent, and the transaction ends, after the last.
Step == LET s == Head(todo) IN
        /\ todo # <<>>
        /\ store' = store \cup s.add
        /\ refs' = [b \in Branch |-> IF b \in s.ref THEN s.to ELSE refs[b]]
        /\ IF Len(todo) = 1 THEN End
           ELSE todo' = Tail(todo) /\ UNCHANGED <<req, start, edits>>

Close == /\ req # Closed /\ todo = <<>>
         /\ UNCHANGED <<store, refs>> /\ End

Crashed == IF req.mode = "ferry" THEN [store |-> store, refs |-> refs] ELSE start

\* A request fails, or the server stops.
Crash == /\ req # Closed /\ todo # <<>>
         /\ store' = Crashed.store /\ refs' = Crashed.refs
         /\ End

\* The branch, squashed, is the next version of master, where nobody else
\* published (Repoman is about the other case), and is deleted.
Publish ==
  LET new == Append(refs["master"], Last(refs["user"])) IN
  /\ req = Closed
  /\ refs["user"] # <<>> /\ FilesOf(refs["user"]) # FilesOf(refs["master"])
  /\ store' = store \cup {Commit(new)}
  /\ refs' = [b \in Branch |-> IF b = "master" THEN new ELSE <<>>]
  /\ End

Next == \/ \E mode \in {"http", "ferry"} : Open(mode)
        \/ \E b \in Branch : \E i \in DOMAIN refs[b] : Checkout(SubSeq(refs[b], 1, i))
        \/ \E p \in File : Delete(p) \/ \E c \in Content : Save(p, c)
        \/ \E n, m \in Name : MoveDirectory(n, m)
        \/ CommitTree \/ Step \/ Close \/ Crash \/ Publish

Spec == Init /\ [][Next]_vars

-----------------------------------------------------------------------------
(* A file, a version as anybody reads it; until its transaction ends a     *)
(* request shows what was there when it was opened.                        *)

Read(files, blobs, objects) ==
  [p \in DOMAIN files |-> IF files[p] \in blobs \/ Blob(files[p]) \in objects
                          THEN files[p] ELSE None]

VersionsOf(view, b) ==
  [i \in DOMAIN view.refs[b] |->
     LET h == SubSeq(view.refs[b], 1, i) IN
     IF {Commit(h), Tree(Last(h))} \subseteq view.store
     THEN Read(Last(h), {}, view.store) ELSE None]

Seen == IF req # Closed /\ req.mode # "ferry" THEN start
        ELSE [store |-> store, refs |-> refs]

Promised == INSTANCE Versions
  WITH mine <- VersionsOf(Seen, "user"), master <- VersionsOf(Seen, "master"),
       work <- IF req = Closed THEN Closed
               ELSE Read(req.working, req.blobs, store)

\* Every version of a project can be read, whenever the server stops: a commit
\* is there, with its tree and all of its files, before a branch shows it, and
\* a request that fails leaves the versions as they were.
ActsAsVersions == Promised!Spec
=============================================================================
