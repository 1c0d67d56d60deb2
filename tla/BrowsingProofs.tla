--------------------------- MODULE BrowsingProofs ---------------------------
(***************************************************************************)
(* Proofs about what goes on between a user, the server and the sites, for *)
(* any records, sockets and pages: what is shown as saved is stored, there *)
(* is one connection, and the source of a page is that of the page shown.  *)
(***************************************************************************)
EXTENDS Browsing, SequenceTheorems, WellFoundedInduction, TLAPS

-----------------------------------------------------------------------------
(* The page of a tab (Ferry).                                              *)

\* raw_url follows the page that is shown, whether or not its response was
\* seen; a page whose response was missed is being loaded again.
PageIsRecorded ==
  tab # None =>
    /\ tab \in [shown : Page \cup {Blank}, raw : Page \cup {None},
                raw_url : Page \cup {Blank, None}, loaded : BOOLEAN,
                loading : Page \cup {None}, asked : BOOLEAN]
    /\ tab.raw_url = tab.shown \/ (tab.shown = Blank /\ tab.raw_url = None)
    /\ tab.loading = None /\ tab.shown # Blank => tab.raw = tab.shown

LEMMA NewTabIsRecorded ==
  ASSUME PageIsRecorded, tab' = Browser!Opened(tab)
  PROVE  PageIsRecorded'
BY PageAssumption DEF PageIsRecorded, Browser!Opened, Browser!NewTab

LEMMA PageStep ==
  ASSUME PageIsRecorded, Browser!Next
  PROVE  PageIsRecorded'
<1> USE PageAssumption
<1>1. ASSUME NEW p \in Page, Browser!LoadPage(p) PROVE PageIsRecorded'
  <2> DEFINE t == Browser!Opened(tab)
  <2>1. /\ t \in [shown : Page \cup {Blank}, raw : Page \cup {None},
                  raw_url : Page \cup {Blank, None}, loaded : BOOLEAN,
                  loading : Page \cup {None}, asked : BOOLEAN]
        /\ t.raw_url = t.shown \/ (t.shown = Blank /\ t.raw_url = None)
    BY DEF PageIsRecorded, Browser!Opened, Browser!NewTab
  <2>2. tab' = [t EXCEPT !.loaded = FALSE, !.loading = p, !.asked = TRUE]
    BY <1>1 DEF Browser!LoadPage
  <2> HIDE DEF t
  <2>3. QED
    BY <2>1, <2>2 DEF PageIsRecorded
<1>2. ASSUME NEW p \in Page, Browser!Follow(p) PROVE PageIsRecorded'
  BY <1>2 DEF Browser!Follow, PageIsRecorded
<1>3. ASSUME NEW seenIt \in BOOLEAN, NEW fails \in BOOLEAN,
             Browser!Arrive(seenIt, fails)
      PROVE  PageIsRecorded'
  <2> DEFINE shown == tab.loading
  <2>1. /\ tab # None /\ shown \in Page
        /\ shown = tab.shown => seenIt
        /\ PageIsRecorded
    BY <1>3 DEF Browser!Arrive, PageIsRecorded
  <2>2. tab' = [Browser!OnLoadFinished(
                  Browser!Recorded([tab EXCEPT !.shown = shown], seenIt)) EXCEPT
                  !.loaded = tab.loaded \/ tab.asked, !.asked = FALSE]
    BY <1>3 DEF Browser!Arrive
  <2>3. CASE seenIt
    BY <2>1, <2>2, <2>3
    DEF PageIsRecorded, Browser!OnLoadFinished, Browser!Recorded
  <2>4. CASE ~seenIt
    BY <2>1, <2>2, <2>4
    DEF PageIsRecorded, Browser!OnLoadFinished, Browser!Recorded
  <2>5. QED
    BY <2>3, <2>4
<1>4. ASSUME Browser!LoadFails PROVE PageIsRecorded'
  BY <1>4 DEF Browser!LoadFails, PageIsRecorded
<1>5. ASSUME Browser!CloseTab PROVE PageIsRecorded'
  BY <1>5 DEF Browser!CloseTab, PageIsRecorded
<1>6. ASSUME NEW k \in Browser!Key, NEW sample \in BOOLEAN,
             Browser!ExtractItems(k, sample)
      PROVE  PageIsRecorded'
  BY <1>6, NewTabIsRecorded DEF Browser!ExtractItems
<1>7. ASSUME tab' = tab PROVE PageIsRecorded'
  BY <1>7 DEF PageIsRecorded
<1>8. QED
  BY <1>1, <1>2, <1>3, <1>4, <1>5, <1>6, <1>7
  DEF Browser!Next, Browser!Mutate, Browser!ExtractLater, Browser!LateExtract,
      Browser!SaveHtml, Browser!Edit

-----------------------------------------------------------------------------
(* The connection (WebSocket).                                             *)

LEMMA LeastNumber ==
  ASSUME NEW S \in SUBSET Nat, S # {}
  PROVE  \E n \in S : \A m \in S : n <= m
<1>1. PICK n \in S : \A m \in S : ~(<<m, n>> \in OpToRel(<, Nat))
  BY WFMin, NatLessThanWellFounded
<1>2. \A m \in S : ~(m < n)
  BY <1>1 DEF OpToRel
<1>3. QED
  BY <1>2

SocketTyped ==
  /\ sockets \in [Socket!Socket -> {"none", "connecting", "open", "closed"}]
  /\ closed \in BOOLEAN /\ connecting \in BOOLEAN /\ message \in BOOLEAN
  /\ entries \in Nat

\* As long as the view was entered once there is a timer only while there is
\* no connection, and then one that can be cancelled; nobody is told to
\* connect twice.
ConnectsOnce ==
  /\ Socket!Alive \subseteq {ws}
  /\ connecting => closed /\ sockets[ws] = "connecting" /\ ws \in Socket!Socket
  /\ ~closed => sockets[ws] = "open" /\ ws \in Socket!Socket
  /\ closed /\ ~connecting => Socket!Alive = {}
  /\ timers \subseteq {reconnectTid}
  /\ Socket!Alive # {} => timers = {}
  /\ entries = 0 => /\ closed /\ ~connecting /\ ~message
                    /\ timers = {} /\ reconnectTid = 0

SocketInv == SocketTyped /\ (entries <= 1 => ConnectsOnce)

\* A socket is made only while there is none.
LEMMA SocketMade ==
  ASSUME SocketTyped, closed, NEW left, Socket!Create(left),
         Socket!Alive = {}, left \subseteq {reconnectTid},
         entries' # 0, entries' \in Nat
  PROVE  SocketTyped' /\ ConnectsOnce'
<1> DEFINE s == CHOOSE u \in Socket!Unused : \A v \in Socket!Unused : u <= v
<1>1. s \in Socket!Socket
  <2>1. /\ Socket!Unused # {} /\ Socket!Unused \subseteq Socket!Socket
        /\ Socket!Unused \in SUBSET Nat
    BY SocketsAssumption DEF Socket!Create, Socket!Unused, Socket!Socket
  <2>2. \E u \in Socket!Unused : \A v \in Socket!Unused : u <= v
    BY <2>1, LeastNumber
  <2>3. s \in Socket!Unused
    BY <2>2
  <2>4. QED
    BY <2>1, <2>3
<1>2. /\ sockets' = [sockets EXCEPT ![s] = "connecting"]
      /\ ws' = s /\ connecting' = TRUE /\ closed' = closed /\ message' = message
      /\ timers' = {} /\ reconnectTid' = 0
  BY DEF Socket!Create, Socket!Cancelled
<1> HIDE DEF s
<1>3. SocketTyped'
  BY <1>1, <1>2 DEF SocketTyped
<1>4. sockets'[s] = "connecting" /\ Socket!Alive' \subseteq {s}
  BY <1>1, <1>2 DEF SocketTyped, Socket!Alive
<1>5. ConnectsOnce'
  BY <1>1, <1>2, <1>4 DEF ConnectsOnce
<1>6. QED
  BY <1>3, <1>5

LEMMA SocketStep ==
  ASSUME SocketInv, Socket!Next
  PROVE  SocketInv'
<1>1. CASE Socket!Enter
  <2>1. entries' = entries + 1 /\ entries' \in Nat /\ entries' # 0
    BY <1>1 DEF Socket!Enter, SocketInv, SocketTyped
  <2>2. CASE entries = 0
    <3>1. /\ closed /\ Socket!Create(timers) /\ Socket!Alive = {}
          /\ timers \subseteq {reconnectTid} /\ SocketTyped
      BY <1>1, <2>2 DEF Socket!Enter, SocketInv, ConnectsOnce
    <3>2. QED
      BY <2>1, <3>1, SocketMade DEF SocketInv
  <2>3. CASE entries # 0
    <3>1. ~(entries' <= 1)
      BY <2>1, <2>3 DEF SocketInv, SocketTyped
    <3>2. SocketTyped'
      BY <1>1, <2>1
      DEF Socket!Enter, Socket!Create, Socket!connection, SocketInv, SocketTyped
    <3>3. QED
      BY <3>1, <3>2 DEF SocketInv
  <2>4. QED
    BY <2>2, <2>3
<1>2. CASE Socket!TryAgain
  <2>1. closed /\ ~connecting /\ (reconnectTid # 0 \/ message)
        /\ Socket!Create(timers) /\ entries' = entries
    BY <1>2 DEF Socket!TryAgain
  <2>2. CASE entries <= 1
    <3>1. /\ entries' # 0 /\ Socket!Alive = {} /\ timers \subseteq {reconnectTid}
          /\ SocketTyped /\ entries' \in Nat
      BY <2>1, <2>2 DEF SocketInv, ConnectsOnce, SocketTyped
    <3>2. QED
      BY <2>1, <3>1, SocketMade DEF SocketInv
  <2>3. CASE ~(entries <= 1)
    BY <2>1, <2>3 DEF Socket!Create, SocketInv, SocketTyped
  <2>4. QED
    BY <2>2, <2>3
<1>3. ASSUME NEW t \in timers, Socket!TimerFires(t) PROVE SocketInv'
  <2>1. entries' = entries /\ entries \in Nat
    BY <1>3 DEF Socket!TimerFires, SocketInv, SocketTyped
  <2>2. CASE closed
    <3>1. Socket!Create(timers \ {t})
      BY <1>3, <2>2 DEF Socket!TimerFires
    <3>2. CASE entries <= 1
      <4>1. /\ entries' # 0 /\ Socket!Alive = {} /\ SocketTyped
            /\ timers \ {t} \subseteq {reconnectTid}
        BY <2>1, <2>2, <3>2 DEF SocketInv, ConnectsOnce
      <4>2. QED
        BY <2>1, <2>2, <3>1, <4>1, SocketMade DEF SocketInv
    <3>3. CASE ~(entries <= 1)
      BY <2>1, <3>1, <3>3 DEF Socket!Create, SocketInv, SocketTyped
    <3>4. QED
      BY <3>2, <3>3
  <2>3. CASE ~closed
    <3>1. /\ timers' = timers \ {t}
          /\ UNCHANGED <<sockets, ws, closed, connecting, reconnectTid, message>>
      BY <1>3, <2>3 DEF Socket!TimerFires
    <3>2. QED
      BY <2>1, <2>3, <3>1 DEF SocketInv, SocketTyped, ConnectsOnce, Socket!Alive
  <2>4. QED
    BY <2>2, <2>3 DEF SocketInv, SocketTyped
<1>4. ASSUME NEW s \in Socket!Socket, Socket!Opens(s) PROVE SocketInv'
  <2>1. s \in Socket!Alive
    BY <1>4 DEF Socket!Opens, Socket!Alive
  <2>2. QED
    BY <1>4, <2>1
    DEF Socket!Opens, SocketInv, SocketTyped, ConnectsOnce, Socket!Alive
<1>5. ASSUME NEW s \in Socket!Socket, NEW how \in {"finished", "lost"},
             NEW online \in BOOLEAN, Socket!Closes(s, how, online)
      PROVE  SocketInv'
  <2>1. s \in Socket!Alive
    BY <1>5 DEF Socket!Closes, Socket!Alive
  <2>2. /\ sockets' = [sockets EXCEPT ![s] = "closed"]
        /\ closed' = TRUE /\ connecting' = FALSE /\ message' \in BOOLEAN
        /\ ws' = ws /\ entries' = entries
        /\ \/ timers' = timers /\ reconnectTid' = reconnectTid
           \/ timers' = timers \cup {s} /\ reconnectTid' = s
    BY <1>5 DEF Socket!Closes
  <2>3. SocketTyped'
    BY <2>2 DEF SocketInv, SocketTyped
  <2>4. ASSUME entries <= 1 PROVE ConnectsOnce'
    <3>1. ws = s /\ timers = {} /\ entries # 0 /\ Socket!Alive = {s}
      BY <2>1, <2>4 DEF SocketInv, ConnectsOnce
    <3>2. Socket!Alive' = {}
      BY <2>2, <3>1 DEF SocketInv, SocketTyped, Socket!Alive
    <3>3. QED
      BY <2>2, <3>1, <3>2 DEF ConnectsOnce
  <2>5. QED
    BY <2>2, <2>3, <2>4 DEF SocketInv
<1>6. ASSUME UNCHANGED Socket!connection, entries' = entries PROVE SocketInv'
  BY <1>6
  DEF Socket!connection, SocketInv, SocketTyped, ConnectsOnce, Socket!Alive
<1>7. QED
  BY <1>1, <1>2, <1>3, <1>4, <1>5, <1>6
  DEF Socket!Next, Socket!SendPromise, Socket!HandleMessage, Socket!PageLoaded,
      Socket!Receive, Socket!Moves

-----------------------------------------------------------------------------
(* Saves (Saving).                                                         *)

SavesTyped ==
  /\ value \in [Record -> Nat] /\ known \in [Record -> Nat]
  /\ sent \in [Record -> Nat] /\ stored \in [Record -> Nat]
  /\ current \in Record \cup {None}
  /\ queue \in Seq(Record)
  /\ pending \in [DOMAIN pending -> SUBSET Record]

\* A request, or its answer, is about records that are being saved, which it
\* brings to an edit between the one that was known and the one that is shown;
\* the answer that they were saved is true.
InFlight(m) ==
  /\ DOMAIN m.data \subseteq Record
  /\ m.data \in [DOMAIN m.data -> Nat]
  /\ current \in DOMAIN m.data
  /\ \A r \in DOMAIN m.data : known[r] < m.data[r] /\ m.data[r] <= value[r] + 1
  /\ \A r \in Record : sent[r] = IF r \in DOMAIN m.data THEN m.data[r] ELSE 0
  /\ m.to = "browser" /\ m.ok => \A r \in DOMAIN m.data : stored[r] = m.data[r] - 1

\* There is one request at a time, so an answer tells what is stored now.
OneRequest == \/ wire = {} /\ \A r \in Record : sent[r] = 0
              \/ \E m : wire = {m} /\ InFlight(m)

\* What was not edited since it was loaded or saved is stored.
KnownIsStored ==
  \A r \in Record : /\ known[r] <= value[r]
                    /\ value[r] = known[r] => stored[r] = known[r]

SavesInv == SavesTyped /\ OneRequest /\ KnownIsStored

LEMMA SaveSent ==
  ASSUME SavesInv, NEW r \in Record, NEW others \in SUBSET Record,
         ~(current # None /\ Saves!IsSaving(current)), Saves!Send(r, others),
         UNCHANGED <<value, known, stored>>,
         queue' \in Seq(Record), pending' \in [DOMAIN pending' -> SUBSET Record]
  PROVE  SavesInv'
<1> DEFINE all == {r} \cup others
           data == [q \in all |-> value[q] + 1]
<1>1. wire = {} /\ \A q \in Record : sent[q] = 0
  <2>1. ASSUME NEW m, InFlight(m) PROVE FALSE
    <3>1. current \in DOMAIN m.data /\ current \in Record
      BY <2>1 DEF InFlight
    <3>2. sent[current] = m.data[current] /\ known[current] < m.data[current]
      BY <2>1, <3>1 DEF InFlight
    <3>3. known[current] \in Nat /\ m.data[current] \in Nat
      BY <2>1, <3>1 DEF InFlight, SavesInv, SavesTyped
    <3>4. QED
      BY <3>1, <3>2, <3>3, RecordAssumption DEF Saves!IsSaving
  <2>2. QED
    BY <2>1 DEF SavesInv, OneRequest
<1>2. PICK m : /\ wire' = {m} /\ m.to = "server" /\ m.data = data
               /\ sent' = [q \in Record |-> IF q \in all THEN data[q] ELSE sent[q]]
               /\ current' \in all
  BY <1>1 DEF Saves!Send
<1>3. /\ all \subseteq Record /\ data \in [all -> Nat] /\ DOMAIN data = all
      /\ \A q \in all : data[q] = value[q] + 1
  BY DEF SavesInv, SavesTyped
<1> HIDE DEF all, data
<1>4. SavesTyped'
  BY <1>2, <1>3 DEF SavesInv, SavesTyped
<1>5. \A q \in Record : sent'[q] = IF q \in all THEN data[q] ELSE 0
  BY <1>1, <1>2
<1>6. \A q \in all : known'[q] < data[q] /\ data[q] <= value'[q] + 1
  BY <1>3 DEF SavesInv, SavesTyped, KnownIsStored
<1>7. InFlight(m)'
  BY <1>2, <1>3, <1>5, <1>6 DEF InFlight
<1>8. OneRequest'
  BY <1>2, <1>7 DEF OneRequest
<1>9. KnownIsStored'
  BY DEF SavesInv, KnownIsStored
<1>10. QED
  BY <1>4, <1>8, <1>9 DEF SavesInv

LEMMA Acknowledged ==
  ASSUME SavesInv, NEW m \in wire, Saves!Saved(m)
  PROVE  SavesInv'
<1>1. wire = {m} /\ InFlight(m) /\ m.to = "browser" /\ m.ok
  BY DEF SavesInv, OneRequest, Saves!Saved
<1> DEFINE all == DOMAIN m.data
<1>2. /\ wire' = {}
      /\ known' = [r \in Record |-> IF r \in all THEN m.data[r] - 1 ELSE known[r]]
      /\ sent' = [r \in Record |-> IF r \in all THEN 0 ELSE sent[r]]
      /\ current' \in {current, None}
      /\ UNCHANGED <<value, pending, queue, stored>>
  BY <1>1 DEF Saves!Saved
<1>3. \A r \in all : /\ r \in Record /\ m.data[r] \in Nat
                     /\ known[r] < m.data[r] /\ m.data[r] <= value[r] + 1
                     /\ stored[r] = m.data[r] - 1
                     /\ known[r] \in Nat /\ value[r] \in Nat
  BY <1>1 DEF InFlight, SavesInv, SavesTyped
<1>4. \A r \in all : m.data[r] - 1 \in Nat
  BY <1>3
<1>5. SavesTyped'
  BY <1>2, <1>4 DEF SavesInv, SavesTyped
<1>6. OneRequest'
  BY <1>1, <1>2 DEF OneRequest, InFlight
<1>7. KnownIsStored'
  BY <1>2, <1>3 DEF SavesInv, KnownIsStored
<1>8. QED
  BY <1>5, <1>6, <1>7 DEF SavesInv

LEMMA Refused ==
  ASSUME SavesInv, NEW m \in wire, Saves!Failed(m)
  PROVE  SavesInv'
<1>1. wire = {m} /\ InFlight(m)
  BY DEF SavesInv, OneRequest
<1> DEFINE all == DOMAIN m.data
<1>2. /\ wire' = {}
      /\ sent' = [r \in Record |-> IF r \in all THEN 0 ELSE sent[r]]
      /\ current' \in {current, None}
      /\ pending' = [r \in DOMAIN pending \ all |-> pending[r]]
      /\ UNCHANGED <<value, known, queue, stored>>
  BY <1>1 DEF Saves!Failed, Saves!Restrict
<1>3. SavesTyped'
  BY <1>2 DEF SavesInv, SavesTyped
<1>4. OneRequest'
  BY <1>1, <1>2 DEF OneRequest, InFlight
<1>5. KnownIsStored'
  BY <1>2 DEF SavesInv, KnownIsStored
<1>6. QED
  BY <1>3, <1>4, <1>5 DEF SavesInv

LEMMA Served ==
  ASSUME SavesInv, NEW m \in wire, Saves!Serve(m)
  PROVE  SavesInv'
<1> DEFINE all == DOMAIN m.data
<1>1. /\ wire = {m} /\ InFlight(m)
      /\ UNCHANGED <<value, known, sent, pending, current, queue>>
  BY DEF SavesInv, OneRequest, Saves!Serve
<1>2. PICK done, n :
        /\ done \in SUBSET all
        /\ stored' = [r \in Record |-> IF r \in done THEN m.data[r] - 1
                                       ELSE stored[r]]
        /\ wire' = {n} /\ n.data = m.data /\ (n.ok => done = all)
  <2>1. PICK refused \in Saves!Refusals(m), versioned \in BOOLEAN :
          LET done == IF \/ \E r \in all : refused[r] = "malformed"
                         \/ versioned /\ \E r \in all : refused[r] # "no"
                      THEN {} ELSE {r \in all : refused[r] = "no"}
          IN /\ stored' = [r \in Record |-> IF r \in done THEN m.data[r] - 1
                                            ELSE stored[r]]
             /\ \E arrives \in BOOLEAN :
                  wire' = {[to |-> "browser", main |-> m.main, data |-> m.data,
                            ok |-> Saves!Answered(m, refused) /\ arrives]}
    BY <1>1 DEF Saves!Serve
  <2> DEFINE done == IF \/ \E r \in all : refused[r] = "malformed"
                        \/ versioned /\ \E r \in all : refused[r] # "no"
                     THEN {} ELSE {r \in all : refused[r] = "no"}
             answered == Saves!Answered(m, refused)
  <2>2. answered => done = all
    BY DEF Saves!Answered
  <2>3. done \in SUBSET all
    OBVIOUS
  <2>4. /\ stored' = [r \in Record |-> IF r \in done THEN m.data[r] - 1
                                       ELSE stored[r]]
        /\ \E arrives \in BOOLEAN :
             wire' = {[to |-> "browser", main |-> m.main, data |-> m.data,
                       ok |-> answered /\ arrives]}
    BY <2>1
  <2> HIDE DEF done, answered
  <2>5. PICK arrives \in BOOLEAN :
          wire' = {[to |-> "browser", main |-> m.main, data |-> m.data,
                    ok |-> answered /\ arrives]}
    BY <2>4
  <2>6. PICK n : n = [to |-> "browser", main |-> m.main, data |-> m.data,
                      ok |-> answered /\ arrives]
    OBVIOUS
  <2>7. n.data = m.data /\ (n.ok => answered)
    BY <2>6
  <2>8. wire' = {n}
    BY <2>5, <2>6
  <2>9. QED
    BY <2>2, <2>3, <2>4, <2>7, <2>8
<1>3. \A r \in all : /\ r \in Record /\ m.data[r] - 1 \in Nat
                     /\ known[r] <= m.data[r] - 1 /\ m.data[r] - 1 <= value[r]
                     /\ known[r] \in Nat /\ value[r] \in Nat
  BY <1>1 DEF InFlight, SavesInv, SavesTyped
<1>4. SavesTyped'
  BY <1>1, <1>2, <1>3 DEF SavesInv, SavesTyped
<1>5. KnownIsStored'
  BY <1>1, <1>2, <1>3 DEF SavesInv, SavesTyped, KnownIsStored
<1>6. InFlight(n)'
  BY <1>1, <1>2 DEF InFlight
<1>7. QED
  BY <1>2, <1>4, <1>5, <1>6 DEF SavesInv, OneRequest

\* The first save in the queue that is still to be made is one of the queue's.
LEMMA QueuedSaveRuns ==
  ASSUME SavesInv, Saves!RunActions
  PROVE  SavesInv'
<1> DEFINE ready == {i \in DOMAIN queue :
                       Saves!Waits(queue[i]) \/ Saves!IsSaving(queue[i])}
           first == IF ready = {} THEN Len(queue)
                    ELSE CHOOSE i \in ready : \A j \in ready : i <= j
           r == queue[first]
<1>1. UNCHANGED <<value, known, stored>>
  BY DEF Saves!RunActions
<1>2. CASE current # None /\ Saves!IsSaving(current)
  <2>1. UNCHANGED <<sent, pending, current, queue, wire>>
    BY <1>2 DEF Saves!RunActions
  <2>2. QED
    BY <1>1, <2>1 DEF SavesInv, SavesTyped, OneRequest, InFlight, KnownIsStored
<1>3. CASE ~(current # None /\ Saves!IsSaving(current))
  <2>1. /\ queue' = SubSeq(queue, first + 1, Len(queue))
        /\ IF ready = {} \/ Saves!IsSaving(r)
           THEN current' = None /\ UNCHANGED <<sent, pending, wire>>
           ELSE /\ Saves!Send(r, pending[r])
                /\ pending' = Saves!Restrict(pending, DOMAIN pending \ {r})
    BY <1>3 DEF Saves!RunActions
  <2>2. ready \subseteq DOMAIN queue /\ DOMAIN queue \in SUBSET Nat
    BY DEF SavesInv, SavesTyped
  <2>3. ready # {} => first \in ready
    <3>1. ready # {} => \E i \in ready : \A j \in ready : i <= j
      BY <2>2, LeastNumber
    <3>2. QED
      BY <3>1
  <2>4. first \in Nat /\ first <= Len(queue)
    <3>1. Len(queue) \in Nat /\ \A i \in DOMAIN queue : i <= Len(queue)
      BY DEF SavesInv, SavesTyped
    <3> HIDE DEF ready
    <3>2. ready = {} => first = Len(queue)
      OBVIOUS
    <3> HIDE DEF first
    <3>3. QED
      BY <2>2, <2>3, <3>1, <3>2
  <2>5. queue' \in Seq(Record)
    <3>1. queue' = SubSeq(queue, first + 1, Len(queue))
      BY <2>1
    <3> HIDE DEF first
    <3>2. /\ first + 1 \in Int /\ Len(queue) \in Int
          /\ \A i \in (first + 1)..Len(queue) : queue[i] \in Record
      BY <2>4 DEF SavesInv, SavesTyped
    <3>3. SubSeq(queue, first + 1, Len(queue)) \in Seq(Record)
      BY <3>2, SubSeqProperties
    <3>4. QED
      BY <3>1, <3>3
  <2>6. CASE ready = {} \/ Saves!IsSaving(r)
    <3>1. wire = {}
      BY <1>3, RecordAssumption
      DEF SavesInv, SavesTyped, OneRequest, InFlight, Saves!IsSaving
    <3>2. current' = None /\ UNCHANGED <<sent, pending, wire>>
      BY <2>1, <2>6
    <3>3. SavesTyped' /\ OneRequest' /\ KnownIsStored'
      BY <1>1, <2>5, <3>1, <3>2 DEF SavesInv, SavesTyped, OneRequest, KnownIsStored
    <3>4. QED
      BY <3>3 DEF SavesInv
  <2>7. CASE ~(ready = {} \/ Saves!IsSaving(r))
    <3>1. /\ Saves!Send(r, pending[r])
          /\ pending' = [q \in DOMAIN pending \ {r} |-> pending[q]]
      BY <2>1, <2>7 DEF Saves!Restrict
    <3>2. r \in Record /\ r \in DOMAIN pending
      <4>1. \A i \in ready : /\ i \in DOMAIN queue
                             /\ Saves!Waits(queue[i]) \/ Saves!IsSaving(queue[i])
        OBVIOUS
      <4> HIDE DEF ready, first
      <4>2. first \in ready
        BY <2>3, <2>7
      <4>3. first \in DOMAIN queue /\ Saves!Waits(r)
        BY <2>7, <4>1, <4>2
      <4>4. QED
        BY <4>3 DEF SavesInv, SavesTyped, Saves!Waits
    <3> HIDE DEF r, first, ready
    <3>3. /\ pending[r] \in SUBSET Record
          /\ pending' \in [DOMAIN pending' -> SUBSET Record]
      BY <3>1, <3>2 DEF SavesInv, SavesTyped
    <3>4. QED
      BY <1>1, <1>3, <2>5, <3>1, <3>2, <3>3, SaveSent
  <2>8. QED
    BY <2>6, <2>7
<1>4. QED
  BY <1>2, <1>3

LEMMA SavesStep ==
  ASSUME SavesInv, Saves!Next
  PROVE  SavesInv'
<1>1. ASSUME NEW r \in Record, Saves!Edit(r) PROVE SavesInv'
  <2>1. /\ value' = [value EXCEPT ![r] = @ + 1]
        /\ UNCHANGED <<known, sent, pending, current, queue, wire, stored>>
    BY <1>1 DEF Saves!Edit
  <2>2. SavesTyped' /\ KnownIsStored'
    BY <2>1 DEF SavesInv, SavesTyped, KnownIsStored
  <2>3. \A m : InFlight(m) => InFlight(m)'
    BY <2>1 DEF InFlight, SavesInv, SavesTyped
  <2>4. QED
    BY <2>1, <2>2, <2>3 DEF SavesInv, OneRequest
<1>2. ASSUME NEW r \in Record, NEW others \in SUBSET Record,
             Saves!SaveNow(r, others)
      PROVE  SavesInv'
  BY <1>2, SaveSent
  DEF Saves!SaveNow, Saves!Busy, SavesInv, SavesTyped
<1>3. ASSUME NEW r \in Record, NEW others \in SUBSET Record,
             Saves!SaveLater(r, others)
      PROVE  SavesInv'
  <2>1. UNCHANGED <<value, known, sent, current, wire, stored>>
    BY <1>3 DEF Saves!SaveLater
  <2>2. CASE Saves!Waits(r)
    <3>1. pending' = [pending EXCEPT ![r] = @ \cup others] /\ queue' = queue
      BY <1>3, <2>2 DEF Saves!SaveLater
    <3>2. QED
      BY <2>1, <2>2, <3>1
      DEF SavesInv, SavesTyped, OneRequest, InFlight, KnownIsStored
  <2>3. CASE ~Saves!Waits(r)
    <3>1. /\ queue' = Append(queue, r)
          /\ pending' = [q \in DOMAIN pending \cup {r} |->
                           IF q = r THEN others ELSE pending[q]]
      BY <1>3, <2>3 DEF Saves!SaveLater
    <3>2. SavesTyped'
      BY <2>1, <3>1 DEF SavesInv, SavesTyped
    <3>3. QED
      BY <2>1, <3>2 DEF SavesInv, OneRequest, InFlight, KnownIsStored
  <2>4. QED
    BY <2>2, <2>3
<1>4. QED
  BY <1>1, <1>2, <1>3, Acknowledged, Refused, Served, QueuedSaveRuns
  DEF Saves!Next, Saves!Exchange, Saves!Save

-----------------------------------------------------------------------------
(* The theorems.  A behaviour is about one part, and leaves the others as  *)
(* they are.                                                               *)

BrowsingInv == SavesInv /\ SocketInv /\ PageIsRecorded

allVars == <<part, savesVars, socketVars, browserVars, spiderVars>>

LEMMA BrowsingInvariant == Spec => []BrowsingInv
<1>1. Init => BrowsingInv
  <2> SUFFICES ASSUME Init PROVE BrowsingInv
    OBVIOUS
  <2>1. SavesInv
    BY DEF Init, Saves!Init, Saves!Zero, SavesInv, SavesTyped,
           OneRequest, KnownIsStored
  <2>2. SocketInv
    BY DEF Init, Socket!Init, SocketInv, SocketTyped, ConnectsOnce, Socket!Alive
  <2>3. PageIsRecorded
    BY DEF Init, Browser!Init, PageIsRecorded
  <2>4. QED
    BY <2>1, <2>2, <2>3 DEF BrowsingInv
<1>2. ASSUME BrowsingInv, [Next]_allVars PROVE BrowsingInv'
  <2>1. ASSUME UNCHANGED savesVars PROVE SavesInv'
    BY <1>2, <2>1 DEF savesVars, BrowsingInv, SavesInv, SavesTyped, OneRequest,
                      InFlight, KnownIsStored
  <2>2. ASSUME UNCHANGED socketVars PROVE SocketInv'
    BY <1>2, <2>2 DEF socketVars, BrowsingInv, SocketInv, SocketTyped,
                      ConnectsOnce, Socket!Alive
  <2>3. ASSUME UNCHANGED browserVars PROVE PageIsRecorded'
    BY <1>2, <2>3 DEF browserVars, BrowsingInv, PageIsRecorded
  <2>4. Saves!Next => SavesInv'
    BY <1>2, SavesStep DEF BrowsingInv
  <2>5. Socket!Next => SocketInv'
    BY <1>2, SocketStep DEF BrowsingInv
  <2>6. Browser!Next => PageIsRecorded'
    BY <1>2, PageStep DEF BrowsingInv
  <2>7. /\ Saves!Next \/ UNCHANGED savesVars
        /\ Socket!Next \/ UNCHANGED socketVars
        /\ Browser!Next \/ UNCHANGED browserVars
    BY <1>2 DEF Next, allVars
  <2>8. QED
    BY <2>1, <2>2, <2>3, <2>4, <2>5, <2>6, <2>7 DEF BrowsingInv
<1>3. QED
  BY <1>1, <1>2, PTL DEF Spec, allVars

\* However saves and edits of records follow each other, and whatever requests
\* are refused or lost: a record that the browser shows as saved is stored as
\* it is shown (one request at a time, and an answer that tells the truth).
THEOREM ShownAsSavedIsStored == Spec => []SavedIsStored
<1>1. BrowsingInv => SavedIsStored
  BY DEF BrowsingInv, SavesInv, KnownIsStored, SavedIsStored, Saves!SavedIsStored
<1>2. QED
  BY <1>1, BrowsingInvariant, PTL

\* Whatever timers and impatient users do, there is at most one connection and
\* it is the one messages are sent to, as long as the view was entered once.
THEOREM ConnectionIsUnique == Spec => []OneConnection
<1>1. BrowsingInv => OneConnection
  BY DEF BrowsingInv, SocketInv, ConnectsOnce, OneConnection, Socket!OneConnection
<1>2. QED
  BY <1>1, BrowsingInvariant, PTL

\* When nothing is loading, the raw html that samples are annotated on is that
\* of the page that is shown, whichever response came too early to be seen.
THEOREM RawFollowsThePage == Spec => []RawIsOfShownPage
<1>1. BrowsingInv => RawIsOfShownPage
  BY DEF BrowsingInv, PageIsRecorded, RawIsOfShownPage, Browser!RawIsOfShownPage
<1>2. QED
  BY <1>1, BrowsingInvariant, PTL
============================================================================
