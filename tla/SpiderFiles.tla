---------------------------- MODULE SpiderFiles ----------------------------
(***************************************************************************)
(* The files of a project's spiders on a file system (FsStorage), and the  *)
(* order in which one request writes, moves and deletes them.              *)
(*                                                                         *)
(* Paths are sequences: <<n>> is spiders/n.json, <<n, x>> the sample       *)
(* spiders/n/x.json, <<n, x, "page">> its stored page under spiders/n/x/.  *)
(* So the directory beside a json file is what its path is a prefix of.    *)
(*                                                                         *)
(* A request loads what it needs into memory and then makes one storage    *)
(* call at a time: todo.  It may fail half-way, or the server may crash in *)
(* the middle of a call.  Requests run one at a time.  Schemas, kept in    *)
(* items.json, are left out.                                               *)
(***************************************************************************)
EXTENDS Naturals, Sequences, SequencesExt, FiniteSets

CONSTANTS Name, Id, Content,
          Cut      \* a file that was being written when the server stopped

VARIABLES disk,    \* path -> contents
          todo,    \* the storage calls the request still has to make
          before,  \* the disk when it started
          request, \* "idle", or what it is about
          failed   \* has any request failed half-way?

vars == <<disk, todo, before, request, failed>>

Page == "page"
SpidersOn(d) == {n \in Name : <<n>> \in DOMAIN d}
SamplesIn(d, n) == {x \in Id : <<n, x>> \in DOMAIN d}

\* What is in the directory beside a json file, or in the one of that name.
Under(d, p) == {q \in DOMAIN d : IsStrictPrefix(p, q)}

Init == /\ disk = <<>> /\ todo = <<>> /\ before = <<>>
        /\ request = "idle" /\ failed = FALSE

-----------------------------------------------------------------------------
(* Calls of the storage.                                                   *)

Save(p, c)   == [do |-> "save", at |-> p, with |-> c]
Delete(p)    == [do |-> "delete", at |-> p]
Move(p, q)   == [do |-> "move", at |-> p, to |-> q]
Load(p)      == [do |-> "load", at |-> p]

Saved(p, c) == [q \in DOMAIN disk \cup {p} |-> IF q = p THEN c ELSE disk[q]]

DeletedFile(p) == [q \in DOMAIN disk \ {p} |-> disk[q]]

\* Mutant: not the directory beside the file is removed but the one it is in.
DeletedWithSiblings(p) ==
  [q \in {r \in DOMAIN disk : ~IsPrefix(Front(p), r)} |-> disk[q]]

\* A json file goes with the directory beside it.
Deleted(p) == [q \in DOMAIN disk \ ({p} \cup Under(disk, p)) |-> disk[q]]

\* shutil.move moves into a directory that exists already.
NewPath(p, to, q) ==
  (IF Under(disk, to) = {} THEN to ELSE Append(to, Last(p))) \o SubSeq(q, Len(p) + 1, Len(q))

\* The copy, and what it is a copy of.
Copied(p, to) ==
  LET from == Under(disk, p)
      new == {NewPath(p, to, q) : q \in from}
  IN  [q \in DOMAIN disk \cup new |->
         IF q \in new THEN disk[CHOOSE r \in from : NewPath(p, to, r) = q] ELSE disk[q]]

Moved(p, to) ==
  LET new == {NewPath(p, to, q) : q \in Under(disk, p)}
  IN  [q \in (DOMAIN disk \ Under(disk, p)) \cup new |-> Copied(p, to)[q]]

\* Of a json file that is only half there; of a page that is not, or into a
\* directory that has one of that name.
Raises(call) ==
  \/ call.do = "load" /\ disk[call.at] = Cut
  \/ call.do = "move" /\ Under(disk, call.at) = {}
  \/ /\ call.do = "move" /\ Under(disk, call.to) # {}
     /\ Under(disk, Append(call.to, Last(call.at))) # {}

End(broken) == /\ todo' = <<>> /\ request' = "idle" /\ before' = disk'
               /\ failed' = (failed \/ broken)

Step ==
  LET call == Head(todo) IN
  /\ todo # <<>>
  /\ disk' = CASE Raises(call)       -> disk
               [] call.do = "save"   -> Saved(call.at, call.with)
               [] call.do = "delete" -> Deleted(call.at)
               [] call.do = "move" /\ ~Raises(call) -> Moved(call.at, call.to)
               [] OTHER              -> disk
  /\ IF Raises(call) \/ Len(todo) = 1
     THEN End(Raises(call))
     ELSE todo' = Tail(todo) /\ UNCHANGED <<before, request, failed>>

\* The server stops in a call: a file is truncated before it is written, a
\* directory is copied before it is removed, a file goes before its directory.
\* The bound: it does so once.
Crash ==
  LET call == Head(todo) IN
  /\ todo # <<>>
  /\ ~failed
  /\ disk' = CASE call.do = "save"   -> Saved(call.at, Cut)
               [] call.do = "delete" -> DeletedFile(call.at)
               [] call.do = "move"   -> IF Raises(call) THEN disk
                                        ELSE Copied(call.at, call.to)
               [] OTHER              -> disk
  /\ End(TRUE)

-----------------------------------------------------------------------------
(* Requests.                                                               *)

Start(what, calls) == /\ todo = <<>>
                      /\ request' = what /\ todo' = calls /\ before' = disk
                      /\ UNCHANGED <<disk, failed>>

\* The spider can be read; its samples are the files in its directory.
CanLoad(n) == <<n>> \in DOMAIN disk /\ disk[<<n>>] # Cut
CanLoadSample(n, x) == /\ CanLoad(n) /\ <<n, x>> \in DOMAIN disk
                       /\ disk[<<n, x>>] # Cut

Create(n, c) == n \notin SpidersOn(disk) /\ Start("edit", <<Save(<<n>>, c)>>)

Edit(n, c) == CanLoad(n) /\ Start("edit", <<Save(<<n>>, c)>>)

\* The sample, the spider that lists it, and the sample with its first item.
AddSample(n, x, c) ==
  /\ CanLoad(n) /\ \A m \in Name : x \notin SamplesIn(disk, m)
  /\ Start("edit", <<Save(<<n, x>>, c), Save(<<n>>, disk[<<n>>]),
                     Save(<<n, x>>, c)>>)

EditSample(n, x, c) == /\ CanLoadSample(n, x)
                       /\ Start("edit", <<Save(<<n, x>>, c)>>)

\* The user interface asks for it once the sample is there.
StorePage(n, x, c) == /\ CanLoadSample(n, x)
                      /\ Start("edit", <<Save(<<n, x, Page>>, c)>>)

RemoveSample(n, x) ==
  /\ CanLoadSample(n, x)
  /\ Start("remove", <<Delete(<<n, x>>), Delete(<<n, x, Page>>),
                       Save(<<n>>, disk[<<n>>])>>)

RemoveSpider(n) ==
  /\ CanLoad(n) /\ \A x \in SamplesIn(disk, n) : CanLoadSample(n, x)
  /\ \E xs \in SetToSeqs(SamplesIn(disk, n)) :
       Start("remove", <<Delete(<<n>>)>>
                         \o [i \in DOMAIN xs |-> Delete(<<n, xs[i]>>)])

\* Two calls for each of the samples, one sample after the other.
Each(xs, first(_), second(_)) ==
  [i \in 1..2 * Len(xs) |-> IF i % 2 = 1 THEN first(xs[(i + 1) \div 2])
                                         ELSE second(xs[i \div 2])]

\* Pages are moved; saving the spider saves and deletes what has a new path.
RenameCalls(n, m, xs) ==
  Each(xs, LAMBDA x : Load(<<n, x>>), LAMBDA x : Move(<<n, x>>, <<m, x>>))
    \o <<Save(<<m>>, disk[<<n>>]), Delete(<<n>>)>>
    \o Each(xs, LAMBDA x : Save(<<m, x>>, disk[<<n, x>>]), LAMBDA x : Delete(<<n, x>>))

Rename(n, m) ==
  /\ CanLoad(n) /\ m \notin SpidersOn(disk)
  /\ \E xs \in SetToSeqs(SamplesIn(disk, n)) :
       Start("rename", RenameCalls(n, m, xs))

Next ==
  \/ Step \/ Crash
  \/ \E n \in Name :
       \/ \E c \in Content : Create(n, c) \/ Edit(n, c)
       \/ \E x \in Id, c \in Content :
            AddSample(n, x, c) \/ EditSample(n, x, c) \/ StorePage(n, x, c)
       \/ \E x \in Id : RemoveSample(n, x)
       \/ RemoveSpider(n)
       \/ \E m \in Name : Rename(n, m)

Spec == Init /\ [][Next]_vars

-----------------------------------------------------------------------------
(* What a user sees of the files.                                          *)

Shown(d) ==
  [n \in SpidersOn(d) |->
     [settings |-> d[<<n>>],
      samples |-> [x \in SamplesIn(d, n) |->
        [data |-> d[<<n, x>>],
         page |-> IF <<n, x, Page>> \in DOMAIN d THEN d[<<n, x, Page>>]
                  ELSE "none"]]]]

Promised == INSTANCE Spiders
  WITH spiders <- Shown(before), intact <- ~failed

(* Until a request fails half-way, each takes effect as a whole when its   *)
(* last call is done: no rename leaves a sample or its page behind, no     *)
(* removal leaves files that a later spider of that name would show.       *)
ActsAtOnce == Promised!Spec

(* Whatever fails, a request harms the spiders it is about, no others.     *)
OthersUntouched ==
  [][LET about == {p[1] : p \in {todo[i].at : i \in DOMAIN todo}}
                    \cup {todo[i].to[1] : i \in {j \in DOMAIN todo :
                                                   todo[j].do = "move"}}
     IN \A n \in Name \ about :
          /\ n \in SpidersOn(disk) <=> n \in SpidersOn(disk')
          /\ n \in SpidersOn(disk) => Shown(disk')[n] = Shown(disk)[n]]_vars
=============================================================================
