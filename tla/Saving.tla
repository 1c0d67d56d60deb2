------------------------------- MODULE Saving -------------------------------
(***************************************************************************)
(* Saving records: the queue of saves in the browser (models/base.js), the *)
(* bulk requests of its adapter, which carry updates of other records with *)
(* the one they are about, and what the json api does with those.          *)
(*                                                                         *)
(* Records are those that exist already; the data of a record is the       *)
(* number of the edit that made it.  A record that is being saved can be   *)
(* edited, and saved again: that save waits.                               *)
(***************************************************************************)
EXTENDS Naturals, Sequences, SequencesExt, FiniteSets

CONSTANTS Record,
          MaxEdits,  \* bounds the edits of each record
          Faults,    \* TRUE: requests may be refused, or their answer lost
          None       \* what is no record

VARIABLES value,   \* the data of a record in the browser
          known,   \* the data it had when it was last loaded or saved
          sent,    \* the data that is on its way, 0 if none is
          pending, \* what is to be saved with each record whose save waits
          current, \* currentActionModel
          queue,   \* modelActionQueue
          next,    \* runActions is to run in the next run loop
          wire,    \* requests and responses on their way
          stored,  \* the data on the server
          lost     \* records whose save has failed

vars == <<value, known, sent, pending, current, queue, next, wire, stored,
          lost>>

Zero == [r \in Record |-> 0]

Init == /\ value = Zero /\ known = Zero /\ sent = Zero /\ stored = Zero
        /\ pending = <<>>
        /\ current = None /\ queue = <<>> /\ next = FALSE
        /\ wire = {} /\ lost = {}

-----------------------------------------------------------------------------
(* The browser.                                                            *)

IsSaving(r) == sent[r] # 0
Waits(r) == r \in DOMAIN pending

\* Mutant: only a save of the same record makes one wait.
BusyWithIt(r) == IsSaving(r)

\* isSaving of the model that was last to be saved.
Busy(r) == current # None /\ IsSaving(current)

\* A request for r that carries updates of others; of them the last to be
\* prepared is the current one.  Data is numbered from 1 on the wire.
Send(r, others) ==
  LET all == {r} \cup others
      data == [q \in all |-> value[q] + 1]
  IN /\ sent' = [q \in Record |-> IF q \in all THEN data[q] ELSE sent[q]]
     /\ wire' = wire \cup {[to |-> "server", main |-> r, data |-> data]}
     /\ IF others = {} THEN current' = r ELSE \E q \in others : current' = q

Edit(r) == /\ value[r] < MaxEdits[r]
           /\ value' = [value EXCEPT ![r] = @ + 1]
           /\ UNCHANGED <<known, sent, pending, current, queue, next, wire,
                          stored, lost>>

\* save: at once, or after the one that is in progress.  A record that waits
\* already is saved once, with all that it was to be saved with.
SaveNow(r, others) ==
  /\ ~Busy(r)
  /\ Send(r, others)
  /\ UNCHANGED <<value, known, pending, queue, next, stored, lost>>

SaveLater(r, others) ==
  /\ Busy(r)
  /\ IF Waits(r)
     THEN /\ pending' = [pending EXCEPT ![r] = @ \cup others]
          /\ UNCHANGED queue
     ELSE /\ pending' = [q \in DOMAIN pending \cup {r} |->
                         IF q = r THEN others ELSE pending[q]]
          /\ queue' = Append(queue, r)
  /\ UNCHANGED <<value, known, sent, current, next, wire, stored, lost>>

\* runActions: the first in the queue that still has something to be saved.
RunActions ==
  LET ready == {i \in DOMAIN queue : Waits(queue[i]) \/ IsSaving(queue[i])}
      first == IF ready = {} THEN Len(queue)
               ELSE CHOOSE i \in ready : \A j \in ready : i <= j
      r == queue[first]
  IN /\ next /\ next' = FALSE
     /\ IF current # None /\ IsSaving(current)
        THEN UNCHANGED <<sent, pending, current, queue, wire>>
        ELSE /\ queue' = SubSeq(queue, first + 1, Len(queue))
             /\ IF ready = {} \/ IsSaving(r)
                THEN current' = None /\ UNCHANGED <<sent, pending, wire>>
                ELSE /\ Send(r, pending[r])
                     /\ pending' = Restrict(pending, DOMAIN pending \ {r})
     /\ UNCHANGED <<value, known, stored, lost>>

\* Mutant: the next save is only started by a record that was not part of a
\* bulk request.
MovesOnAlone(all) == current \in all /\ Cardinality(all) = 1

MovesOn(all) == current \in all

\* didCommit of the record and of those that were saved with it.
Saved(m) ==
  LET all == DOMAIN m.data IN
  /\ m \in wire /\ m.to = "browser" /\ m.ok
  /\ wire' = wire \ {m}
  /\ known' = [r \in Record |-> IF r \in all THEN m.data[r] - 1 ELSE known[r]]
  /\ sent' = [r \in Record |-> IF r \in all THEN 0 ELSE sent[r]]
  /\ IF MovesOn(all) THEN current' = None /\ next' = TRUE
                     ELSE UNCHANGED <<current, next>>
  /\ UNCHANGED <<value, pending, queue, stored, lost>>

\* becameError or becameInvalid: a save that waits is forgotten.
Failed(m) ==
  LET all == DOMAIN m.data IN
  /\ m \in wire /\ m.to = "browser" /\ ~m.ok
  /\ wire' = wire \ {m}
  /\ sent' = [r \in Record |-> IF r \in all THEN 0 ELSE sent[r]]
  /\ pending' = Restrict(pending, DOMAIN pending \ all)
  /\ lost' = lost \cup all
  /\ IF MovesOn(all) THEN current' = None /\ next' = TRUE
                     ELSE UNCHANGED <<current, next>>
  /\ UNCHANGED <<value, known, queue, stored>>

-----------------------------------------------------------------------------
(* The server.                                                             *)

\* is_valid loads the record and the updates; nothing is done unless all are
\* well formed.  Then each is set and saved by itself, the updates too if the
\* record is refused, and the answer tells whether one was.  The bound: at most
\* one save of a record fails.
MayFail(m) == Faults /\ DOMAIN m.data \cap lost = {}

Refusals(m) == IF MayFail(m) THEN [DOMAIN m.data -> {"no", "malformed", "invalid"}]
               ELSE [DOMAIN m.data -> {"no"}]

\* Mutant: the answer only tells whether the record itself was refused.
AnsweredByMain(m, refused) == refused[m.main] = "no"

Answered(m, refused) == \A r \in DOMAIN m.data : refused[r] = "no"

\* A commit at the end keeps all or nothing (git); files are written at once.
Serve(m) ==
  \E refused \in Refusals(m), versioned \in BOOLEAN :
    LET all == DOMAIN m.data
        ok == Answered(m, refused)
        done == IF \/ \E r \in all : refused[r] = "malformed"
                   \/ versioned /\ \E r \in all : refused[r] # "no"
                THEN {} ELSE {r \in all : refused[r] = "no"}
    IN /\ m \in wire /\ m.to = "server"
       /\ stored' = [r \in Record |-> IF r \in done THEN m.data[r] - 1
                                      ELSE stored[r]]
       /\ \E arrives \in {TRUE, ~MayFail(m)} :
            wire' = (wire \ {m}) \cup
              {[to |-> "browser", main |-> m.main, data |-> m.data,
                ok |-> ok /\ arrives]}
       /\ UNCHANGED <<value, known, sent, pending, current, queue, next, lost>>

-----------------------------------------------------------------------------
Save == \E r \in Record, others \in SUBSET Record :
          /\ r \notin others
          /\ value[r] # known[r]
          /\ SaveNow(r, others) \/ SaveLater(r, others)

Exchange == \E m \in wire : Serve(m) \/ Saved(m) \/ Failed(m)

Next == RunActions \/ Exchange \/ Save \/ \E r \in Record : Edit(r)

\* Requests are answered, or fail.  runActions runs a millisecond after a save
\* has ended: users do not go on for ever to save something in between.
Fairness == /\ WF_vars(Exchange)
            /\ SF_vars(RunActions /\ (current = None \/ ~IsSaving(current)))

Spec == Init /\ [][Next]_vars /\ Fairness

-----------------------------------------------------------------------------
(* Properties.                                                             *)

\* A record that the browser shows as saved is on the server as it is shown,
\* whatever was refused or lost, however saves and edits of it followed each
\* other.  (save in models/base.js lets one request at a time through.)
SavedIsStored ==
  \A r \in Record : value[r] = known[r] /\ ~IsSaving(r) => stored[r] = value[r]

\* A save that waits is made, or given up when an earlier one of its record
\* has failed; it does not wait for somebody to save something else.
\* (runActions and the events that start it.)
QueuedSavesAreMade ==
  \A r \in Record : Waits(r) ~> (IsSaving(r) \/ r \in lost)
=============================================================================
