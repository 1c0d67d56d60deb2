------------------------------- MODULE Ferry -------------------------------
(***************************************************************************)
(* One websocket of the user interface and the browser tab behind it       *)
(* (slyd/splash/ferry.py and commands.py): pages are loaded and followed,  *)
(* samples get the html of the page that is shown, items are extracted by  *)
(* a spider that is opened once and kept.  The reactor runs one handler or *)
(* callback at a time; spiders are edited meanwhile by the json api.       *)
(*                                                                         *)
(* A spider is <<project, name>> and has one sample.  A page is what one   *)
(* address returns.  Of the browser the following is assumed: the response *)
(* of a reload is seen under the address that is shown already, so that    *)
(* _set_tab_html keeps it; for a new address it may come too early.        *)
(***************************************************************************)
EXTENDS Naturals

CONSTANTS Project, Spider, Page, Blank, None,
          MaxVersion          \* bound on edits of a spider

Key == Project \X Spider

VARIABLES tab,        \* the open tab, or None
          spec,       \* the spider this socket has opened, or None
          call,       \* the extraction the tab has put off: "none", "pending"
                      \* or "fired", one that is over and not forgotten
          late,       \* one that a tab has put off that is closed since
          extracted,  \* what the last extraction was for, and from
          bodies,     \* the html stored for the sample of each spider
          version,    \* of each spider, in storage
          news,       \* history: the page has changed and the user interface
                      \* has not been sent its items since
          raised      \* history: a put off extraction of this tab has raised
vars == <<tab, spec, call, late, extracted, bodies, version, news, raised>>

Init == /\ tab = None
        /\ spec = None
        /\ call = "none"
        /\ late = FALSE
        /\ extracted = None
        /\ bodies = [k \in Key |-> [original |-> None, rendered |-> None]]
        /\ version = [k \in Key |-> 0]
        /\ news = FALSE
        /\ raised = FALSE

-----------------------------------------------------------------------------
NewTab == [shown |-> Blank, raw |-> None, raw_url |-> None, loaded |-> FALSE,
           loading |-> None, asked |-> FALSE]

\* Commands._open_tab
Opened(t) == IF t = None THEN NewTab ELSE t

\* load_page
LoadPage(p) ==
  /\ tab' = [Opened(tab) EXCEPT !.loaded = FALSE, !.loading = p, !.asked = TRUE]
  /\ UNCHANGED <<spec, call, late, extracted, bodies, version, news, raised>>

\* A link or a script of the page leads to another one (interact_page).
Follow(p) == /\ tab # None
             /\ tab.shown # Blank
             /\ tab' = [tab EXCEPT !.loading = p]
             /\ UNCHANGED <<spec, call, late, extracted, bodies, version, news,
                            raised>>

\* Mutant: the page is not loaded again.
NoReload(t) == [t EXCEPT !.loading = None, !.raw_url = t.shown]

\* _on_load_finished: without the raw html of the page it is loaded again.
OnLoadFinished(t) ==
  [t EXCEPT !.loading = IF t.raw_url = t.shown THEN None ELSE t.shown,
            !.raw_url = t.shown]

\* _set_tab_html, when the response came at the right time.
Recorded(t, seen) ==
  IF seen THEN [t EXCEPT !.raw = t.shown, !.raw_url = t.shown] ELSE t

\* Commands.extract with the spider the socket has opened, as it was then
Extraction(t) ==
  extracted' = IF t = None \/ spec = None THEN extracted
               ELSE IF ~t.loaded THEN extracted
               ELSE [asked |-> <<spec.project, spec.opened[2]>>,
                     used |-> spec.opened, version |-> spec.version,
                     latest |-> version[spec.opened], sample |-> FALSE]

\* Commands.metadata: of a page that has been loaded its items are sent.
\* Nothing is sent when an extraction raises.
SendMetadata(t, changed, fails) ==
  /\ IF fails THEN UNCHANGED extracted ELSE Extraction(t)
  /\ news' = (changed /\ (fails \/ t = None \/ ~t.loaded))

\* sendMessage("mutation"): one extraction is put off for many mutations.
PutOff == IF call = "none" THEN "pending" ELSE call

\* The page arrives: its script sends a first mutation, then what load_page
\* asked for completes.
Arrive(seen, fails) ==
  LET t == [tab EXCEPT !.shown = tab.loading] IN
  /\ tab # None
  /\ tab.loading # None
  /\ tab.loading = tab.shown => seen
  /\ tab' = [OnLoadFinished(Recorded(t, seen)) EXCEPT
               !.loaded = tab.loaded \/ tab.asked, !.asked = FALSE]
  /\ call' = PutOff
  /\ IF tab.asked THEN SendMetadata(tab', TRUE, fails)
     ELSE UNCHANGED extracted /\ news' = TRUE
  /\ UNCHANGED <<spec, late, bodies, version, raised>>

\* on_complete(True): nothing is shown; _on_load_finished finds no address.
LoadFails == /\ tab # None
             /\ tab.loading # None
             /\ tab' = [tab EXCEPT !.loading = None, !.asked = FALSE,
                                   !.shown = Blank, !.raw_url = Blank]
             /\ news' = FALSE
             /\ UNCHANGED <<spec, call, late, extracted, bodies, version, raised>>

\* What was put off belongs to the tab (js_api) and is not cancelled with it.
CloseTab == /\ tab # None
            /\ tab' = None
            /\ call' = "none"
            /\ late' = (late \/ call = "pending")
            /\ news' = FALSE
            /\ raised' = FALSE
            /\ UNCHANGED <<spec, extracted, bodies, version>>

-----------------------------------------------------------------------------
\* PortiaJSApi.sendMessage("mutation"), of the page that is shown
Mutate == /\ tab # None
          /\ tab.shown # Blank
          /\ call' = PutOff
          /\ news' = TRUE
          /\ UNCHANGED <<tab, spec, late, extracted, bodies, version, raised>>

\* Mutant: the call is not forgotten when it is done.
NotForgotten(fails) == "fired"

\* An extraction that raises leaves its fired deferred behind.
AfterExtract(fails) == IF fails THEN "fired" ELSE "none"

\* PortiaJSApi.extract, a second later
ExtractLater(fails) ==
  /\ call = "pending"
  /\ call' = AfterExtract(fails)
  /\ raised' = (raised \/ fails)
  /\ SendMetadata(tab, news, fails)
  /\ UNCHANGED <<tab, spec, late, bodies, version>>

\* The same for a tab that is closed: metadata of the tab that is open now
LateExtract(fails) ==
  /\ late
  /\ late' \in BOOLEAN
  /\ SendMetadata(tab, news, fails)
  /\ UNCHANGED <<tab, spec, call, bodies, version, raised>>

-----------------------------------------------------------------------------
\* ItemChecker.__init__: a spider is opened if none is or its name differs.
Open(k) == IF spec # None /\ spec.opened[2] = k[2] THEN spec
           ELSE [project |-> k[1], opened |-> k, version |-> version[k]]

Stored(old, html) == IF old = None THEN html ELSE old

\* Commands._update_sample, for a tab that is open
UpdateSample(k, t) ==
  bodies' = [bodies EXCEPT ![k] =
    [original |-> Stored(@.original, IF t.raw # None THEN t.raw ELSE t.shown),
     rendered |-> Stored(@.rendered, t.shown)]]

\* save_html fails without a tab unless there is nothing to store.
SaveHtml(k) ==
  /\ spec' = [Open(k) EXCEPT !.project = k[1]]
  /\ IF tab = None THEN UNCHANGED bodies ELSE UpdateSample(k, tab)
  /\ UNCHANGED <<tab, call, late, extracted, version, news, raised>>

\* extract_items, of one sample as it is in storage or with the whole spider
ExtractItems(k, sample) ==
  /\ tab' = Opened(tab)
  /\ spec' = Open(k)
  /\ IF sample THEN UpdateSample(k, tab') ELSE UNCHANGED bodies
  /\ extracted' = [asked |-> k, used |-> spec'.opened, sample |-> sample,
                   version |-> IF sample THEN version[k] ELSE spec'.version,
                   latest |-> version[k]]
  /\ UNCHANGED <<call, late, version, news, raised>>

\* The json api changes a spider or its annotations.
Edit(k) == /\ version[k] < MaxVersion
           /\ version' = [version EXCEPT ![k] = @ + 1]
           /\ UNCHANGED <<tab, spec, call, late, extracted, bodies, news, raised>>

Next == \/ \E p \in Page : LoadPage(p) \/ Follow(p)
        \/ \E seen, fails \in BOOLEAN : Arrive(seen, fails)
        \/ LoadFails \/ CloseTab \/ Mutate
        \/ \E fails \in BOOLEAN : ExtractLater(fails) \/ LateExtract(fails)
        \/ \E k \in Key : SaveHtml(k) \/ Edit(k)
        \/ \E k \in Key, sample \in BOOLEAN : ExtractItems(k, sample)

\* The reactor calls what was deferred.
Fairness == WF_vars(\E fails \in BOOLEAN : ExtractLater(fails))

Spec == Init /\ [][Next]_vars /\ Fairness

-----------------------------------------------------------------------------
\* Once nothing is being loaded the raw html, which samples are annotated on
\* and items extracted from, is that of the page that is shown.
RawIsOfShownPage ==
  (tab # None /\ tab.loading = None /\ tab.shown # Blank) => tab.raw = tab.shown

\* When a page that is loaded has changed, its items are sent, whatever
\* mutations shared one extraction, came while the page was not yet loaded, or
\* belonged to a tab since closed; unless an extraction the tab had put off has
\* raised, after which no mutation of this tab puts off another one.
ChangesAreFollowedUp ==
  (news /\ tab # None /\ tab.loaded /\ ~raised)
    ~> (~news \/ raised \/ tab = None \/ ~tab.loaded)

\* "Use latest annotations to extract items from current page": of the spider
\* that was asked for and as it is in storage (Commands.extract_items).
LatestAnnotationsAreUsed ==
  extracted # None =>
    /\ extracted.used = extracted.asked
    /\ extracted.version = extracted.latest
=============================================================================
