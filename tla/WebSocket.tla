----------------------------- MODULE WebSocket -----------------------------
(***************************************************************************)
(* The connection between the user interface and the browser behind it:    *)
(* the service web-socket.js of portiaui, which connects, notices that a   *)
(* connection is gone, connects again after a while and hands answers to   *)
(* those who asked, and the messages of FerryServerProtocol                *)
(* (slyd/splash/ferry.py), which answers some requests at once, some when a*)
(* page is loaded and some never.                                          *)
(*                                                                         *)
(* Sockets are numbered in the order they are made.  A timer is named for  *)
(* the socket whose end set it; how long it waits is left out, as are the  *)
(* heartbeats, which nobody answers.                                       *)
(***************************************************************************)
EXTENDS Naturals

CONSTANTS Request,
          MaxSockets,    \* bounds the attempts to connect
          MaxEntries     \* bounds how often the browser view is entered

Socket == 1..MaxSockets

\* What becomes of a message at the server, sent under a known project or not.
Kind == {"answered", "fails", "later", "silent", "unknown command", "unknown project"}

VARIABLES sockets,       \* "none", "connecting", "open" or "closed"
          ws,            \* the socket the service sends to
          closed, connecting,
          timers,        \* those that will call connect
          reconnectTid,  \* the one that can be cancelled, or 0
          message,       \* whether the banner says that the user is offline
          entries,       \* of the browser view
          ended,         \* how the last connection ended, if there was none since
          request        \* where each request is
vars == <<sockets, ws, closed, connecting, timers, reconnectTid, message, entries, ended, request>>
connection == <<sockets, ws, closed, connecting, timers, reconnectTid, message, ended>>

Init == /\ sockets = [s \in Socket |-> "none"]
        /\ ws = 0
        /\ closed = TRUE
        /\ connecting = FALSE
        /\ timers = {}
        /\ reconnectTid = 0
        /\ message = FALSE
        /\ entries = 0
        /\ ended = "no"
        /\ request = [r \in Request |-> [stage |-> "new", via |-> 0, kind |-> "silent"]]

Unused == {s \in Socket : sockets[s] = "none"}

-----------------------------------------------------------------------------
\* Mutant: the timer goes on.
NotCancelled(pending) == pending

Cancelled(pending) == pending \ {reconnectTid}

\* _createWebsocket
Create(pending) ==
  LET s == CHOOSE u \in Unused : \A v \in Unused : u <= v IN
  /\ Unused # {}
  /\ timers' = Cancelled(pending)
  /\ reconnectTid' = 0
  /\ connecting' = TRUE
  /\ sockets' = [sockets EXCEPT ![s] = "connecting"]
  /\ ws' = s
  /\ ended' = "no"
  /\ UNCHANGED <<closed, message>>

\* The view of the browser is inserted in the page.
Enter == /\ entries < MaxEntries
         /\ entries' = entries + 1
         /\ IF closed THEN Create(timers) ELSE UNCHANGED connection
         /\ UNCHANGED request

\* The link in the banner: it is there while nobody is connecting, as long as
\* there are seconds to wait or a message.
TryAgain == /\ closed /\ ~connecting
            /\ reconnectTid # 0 \/ message
            /\ Create(timers)
            /\ UNCHANGED <<entries, request>>

TimerFires(t) ==
  /\ t \in timers
  /\ IF closed THEN Create(timers \ {t})
     ELSE /\ timers' = timers \ {t}
          /\ UNCHANGED <<sockets, ws, closed, connecting, reconnectTid, message, ended>>
  /\ UNCHANGED <<entries, request>>

\* _onopen
Opens(s) == /\ sockets[s] = "connecting"
            /\ sockets' = [sockets EXCEPT ![s] = "open"]
            /\ closed' = FALSE
            /\ connecting' = FALSE
            /\ message' = FALSE
            /\ ended' = "no"
            /\ UNCHANGED <<ws, timers, reconnectTid, entries, request>>

\* Mutant: only a connection that was there is made again.
WasOpen(s, how) == how = "lost" /\ sockets[s] = "open"

\* Not when the server refuses the connection or the user leaves the page.
Reconnects(s, how) == how = "lost"

\* _onclose.  Offline, the service asks to be told when that changes, but the
\* function it gives for it fails when it is called.
Closes(s, how, online) ==
  /\ sockets[s] \in {"connecting", "open"}
  /\ how = "finished" => sockets[s] = "open"
  /\ sockets' = [sockets EXCEPT ![s] = "closed"]
  /\ closed' = TRUE
  /\ connecting' = FALSE
  /\ message' = (message \/ (Reconnects(s, how) /\ ~online))
  /\ IF Reconnects(s, how) /\ online
     THEN timers' = timers \cup {s} /\ reconnectTid' = s
     ELSE UNCHANGED <<timers, reconnectTid>>
  /\ ended' = IF how = "lost" /\ online THEN "lost" ELSE "finished"
  /\ UNCHANGED <<ws, entries, request>>

-----------------------------------------------------------------------------
\* _sendPromise: a promise is rejected if the service is closed.  A socket that
\* is not open takes nothing, and nobody tells.
SendPromise(r, kind) ==
  /\ request[r].stage = "new"
  /\ request' = [request EXCEPT ![r] =
       [kind |-> kind, via |-> ws,
        stage |-> IF closed THEN "rejected"
                  ELSE IF sockets[ws] = "open" THEN "sent" ELSE "lost"]]
  /\ UNCHANGED <<connection, entries>>

\* Mutant: an error is sent without the id of the request.
HandledUnlessFailed(kind) == CASE kind = "answered" -> "replied"
                               [] kind = "later" -> "loading"
                               [] OTHER -> "dropped"

\* onMessage, _on_message, send_error: errors are answers.  The answer that
\* there is no such project has no command, so sendMessage keeps it.
Handled(kind) == CASE kind \in {"answered", "fails"} -> "replied"
                   [] kind = "later" -> "loading"
                   [] OTHER -> "dropped"

Moves(r, from, to) ==
  /\ request[r].stage = from
  /\ sockets[request[r].via] = "open"
  /\ request' = [request EXCEPT ![r].stage = to]
  /\ UNCHANGED <<connection, entries>>

HandleMessage(r) == Moves(r, "sent", Handled(request[r].kind))

\* load_page: on_complete
PageLoaded(r) == Moves(r, "loading", "replied")

\* _onmessage: the deferred with the id of the answer, if it is still there.
Receive(r) == Moves(r, "replied", "settled")

Next == \/ Enter \/ TryAgain
        \/ \E t \in timers : TimerFires(t)
        \/ \E s \in Socket : \/ Opens(s)
                             \/ \E how \in {"finished", "lost"}, online \in BOOLEAN :
                                  Closes(s, how, online)
        \/ \E r \in Request, kind \in Kind : SendPromise(r, kind)
        \/ \E r \in Request : HandleMessage(r) \/ PageLoaded(r) \/ Receive(r)

\* Timers fire; the server handles what it gets and the browser loads a page or
\* fails to; an answer arrives.
Fairness == /\ \A t \in Socket : WF_vars(TimerFires(t))
            /\ \A r \in Request : WF_vars(HandleMessage(r) \/ PageLoaded(r) \/ Receive(r))

Spec == Init /\ [][Next]_vars /\ Fairness

-----------------------------------------------------------------------------
Alive == {s \in Socket : sockets[s] \in {"connecting", "open"}}

\* As long as the view is not entered again while a connection is being made
\* there is one, whatever timers and impatient users do, and it is the one the
\* service sends to.
OneConnection ==
  entries <= 1 => /\ \A s, t \in Alive : s = t
                  /\ ~closed => sockets[ws] = "open"

\* A connection that was lost is tried again, unless the browser says that it
\* is offline.
LostConnectionsAreTriedAgain == (ended = "lost") ~> (ended # "lost" \/ Unused = {})

\* A promise is settled, by an answer or an error, as long as its connection is
\* there, if its project and its command exist and the command answers.
RequestsAreAnswered ==
  \A r \in Request :
    (request[r].stage = "sent" /\ request[r].kind \in {"answered", "fails", "later"})
      ~> (request[r].stage = "settled" \/ request[r].via \notin Alive)
=============================================================================
