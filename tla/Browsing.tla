------------------------------ MODULE Browsing ------------------------------
(***************************************************************************)
(* What goes on between a user, the server and the sites: the saves of the *)
(* user interface (Saving), its connection to the server (WebSocket), the  *)
(* page the server's browser shows (Ferry) and a crawl (Crawl).  A         *)
(* behaviour is about one of them, part; the variables of the others stay  *)
(* at a value in which nothing is to be done.                              *)
(***************************************************************************)
EXTENDS Naturals, Sequences

CONSTANTS Parts,                               \* those to be looked at
          Record, MaxEdits, Faults, None,      \* Saving
          Request, MaxSockets, MaxEntries,     \* WebSocket
          Project, Spider, Page, Blank,        \* Ferry
          MaxVersion,
          Url, StartUrls, Links, Nofollow,     \* Crawl
          Matching, Items, PeriodItems, MaxChecks

\* In the browser the current model is null when there is none.
ASSUME RecordAssumption == None \notin Record
ASSUME SocketsAssumption == MaxSockets \in Nat
ASSUME PageAssumption == Blank \notin Page /\ None \notin Page /\ None # Blank

VARIABLES part,
          \* Saving
          value, known, sent, pending, current, queue, next, wire, stored, lost,
          \* WebSocket
          sockets, ws, closed, connecting, timers, reconnectTid, message,
          entries, ended, request,
          \* Ferry
          tab, spec, call, late, extracted, bodies, version, news, raised,
          \* Crawl
          login, follow, forms, nextStart, readers, flight, seen, requested,
          scraped, items, stopped, checks, failed, since

Saves == INSTANCE Saving
Socket == INSTANCE WebSocket
Browser == INSTANCE Ferry
Crawls == INSTANCE Crawl WITH next <- nextStart, closed <- stopped

savesVars == <<value, known, sent, pending, current, queue, next, wire, stored, lost>>
socketVars == <<sockets, ws, closed, connecting, timers, reconnectTid, message,
                entries, ended, request>>
browserVars == <<tab, spec, call, late, extracted, bodies, version, news, raised>>
spiderVars == <<login, follow, forms, nextStart, readers, flight, seen, requested,
                scraped, items, stopped, checks, failed, since>>

Init ==
  /\ part \in Parts
  /\ Saves!Init /\ Socket!Init /\ Browser!Init
  /\ IF part = "crawl" THEN Crawls!Init
     ELSE /\ login = FALSE /\ follow = None /\ forms = 0 /\ nextStart = 1
          /\ readers = 0 /\ flight = {} /\ seen = {} /\ requested = <<>>
          /\ scraped = {} /\ items = 0 /\ stopped = TRUE /\ checks = 0
          /\ failed = FALSE /\ since = 0

Next ==
  \/ /\ part = "saves" /\ Saves!Next
     /\ UNCHANGED <<part, socketVars, browserVars, spiderVars>>
  \/ /\ part = "socket" /\ Socket!Next
     /\ UNCHANGED <<part, savesVars, browserVars, spiderVars>>
  \/ /\ part = "browser" /\ Browser!Next
     /\ UNCHANGED <<part, savesVars, socketVars, spiderVars>>
  \/ /\ part = "crawl" /\ Crawls!Next
     /\ UNCHANGED <<part, savesVars, socketVars, browserVars>>

Spec == /\ Init /\ [][Next]_<<part, savesVars, socketVars, browserVars, spiderVars>>
        /\ Saves!Fairness /\ Socket!Fairness /\ Browser!Fairness /\ Crawls!Fairness

-----------------------------------------------------------------------------
\* A record the browser shows as saved is on the server as it is shown,
\* whatever was refused or lost (Saving: save of models/base.js and the bulk
\* requests of the json api).
SavedIsStored == Saves!SavedIsStored

\* A save that waits behind another one is made, or given up when one of its
\* record fails (Saving: runActions).
QueuedSavesAreMade == Saves!QueuedSavesAreMade

\* There is at most one connection to the server and the service sends to it,
\* whatever timers and impatient users do, unless the view is entered again
\* while one is being made (WebSocket).
OneConnection == Socket!OneConnection

\* A lost connection is tried again unless the browser is offline, and a
\* request gets its answer as long as its connection is there (WebSocket).
ServerIsReached == Socket!LostConnectionsAreTriedAgain /\ Socket!RequestsAreAnswered

\* The source the server keeps of a page is that of the page it shows, unless
\* it is being loaded (Ferry: _on_load_finished).
RawIsOfShownPage == Browser!RawIsOfShownPage

\* When a loaded page changes its items are sent, however many mutations share
\* an extraction and whenever they come, until one of the tab's extractions
\* raises (Ferry: PortiaJSApi.sendMessage, extract, Commands.metadata).
ChangesAreFollowedUp == Browser!ChangesAreFollowedUp

\* Every start url is requested, once and in the order of the spider, unless a
\* request that comes before them failed or the crawl was closed; and it is
\* closed exactly if it scraped too little since it was last looked at
\* (Crawl: _start_requests, parse_form_page, SlybotCloseSpider).
CrawlsToTheEnd == /\ []Crawls!StartUrlsInOrder
                  /\ Crawls!StartUrlsAreRequested
                  /\ Crawls!ClosedForFewItems
=============================================================================
