------------------------------ MODULE Versions ------------------------------
(***************************************************************************)
(* What a version-controlled project promises to a user: it has whole      *)
(* versions, on the user's branch and on master; a request works on the    *)
(* newest of them, and what it saves is one more version or nothing.       *)
(***************************************************************************)
EXTENDS Sequences, SequencesExt, Functions

CONSTANTS Closed, None,
          Default,  \* the file every project has
          Template  \* its first contents

VARIABLES mine,    \* the versions of the user's branch, oldest first
          master,  \* those of master
          work     \* the files the open request sees, or Closed

vars == <<mine, master, work>>

Newest == IF mine # <<>> THEN mine ELSE master
FilesOf(versions) == IF versions = <<>> THEN <<>> ELSE Last(versions)
WithDefault(files) ==
  [p \in DOMAIN files \cup {Default} |-> IF p \in DOMAIN files THEN files[p] ELSE Template]

Init == mine = <<>> /\ master = <<>> /\ work = Closed

Open == /\ work = Closed
        /\ work' = WithDefault(FilesOf(Newest))
        /\ UNCHANGED <<mine, master>>

Edit == /\ work # Closed /\ work' # Closed
        /\ None \notin Range(work')
        /\ UNCHANGED <<mine, master>>

LookAt == /\ work # Closed
          /\ work' \in Range(mine) \cup Range(master)
          /\ UNCHANGED <<mine, master>>

\* The first version of a project is an empty one.
Save == LET start == << <<>> >> IN
        /\ work # Closed /\ work' = Closed
        /\ mine' = Append(IF Newest = <<>> THEN start ELSE Newest, work)
        /\ master' = IF master = <<>> THEN start ELSE master

GiveUp == work' = Closed /\ UNCHANGED <<mine, master>>

Publish == /\ work = Closed /\ mine # <<>>
           /\ master' = Append(master, Last(mine)) /\ mine' = <<>>
           /\ UNCHANGED work

Next == Open \/ Edit \/ LookAt \/ Save \/ GiveUp \/ Publish

Spec == Init /\ [][Next]_vars
=============================================================================
