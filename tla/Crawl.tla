------------------------------- MODULE Crawl -------------------------------
(***************************************************************************)
(* A crawl of one spider: IblSpider (slybot/spider.py), the links its      *)
(* annotations plugin follows, and the extension and pipeline around it.   *)
(*                                                                         *)
(* A spider with a login page starts there, one with forms at the forms,   *)
(* and only then come the start urls, from one generator that every        *)
(* callback shares.  Scrapy advances the generators that callbacks return  *)
(* one request at a time and calls back for requests in any order, or not  *)
(* at all when one fails.  It drops a request it has seen unless           *)
(* dont_filter is set.                                                     *)
(***************************************************************************)
EXTENDS Naturals, Sequences, FiniteSets

CONSTANTS Url,         \* pages; those of the site and start urls
          StartUrls,   \* the start urls, in order: Url or "feed"
          Links,       \* Links[u]: what page u links to
          Nofollow,    \* the links that are rel="nofollow"
          Matching,    \* the links the follow and exclude patterns let through
          Items,       \* Items[u]: the versions of the items on page u
          PeriodItems, \* SLYCLOSE_SPIDER_PERIOD_ITEMS
          MaxChecks    \* bound on checks of the throughput

VARIABLES login,      \* whether the spider logs in first
          follow,     \* links_to_follow, and whether it respects nofollow
          forms,      \* form requests of the spider
          next,       \* where the generator of start requests stands
          readers,    \* how many callbacks are reading it
          flight,     \* requests under way: [kind, url]
          seen,       \* pages requested without dont_filter
          requested,  \* the start urls in the order of their requests
          scraped,    \* versions of items that passed the duplicate filter
          items,      \* in this period, as the extension counts them
          closed, checks,
          failed,     \* history: a request before the start urls failed
          since       \* history: items that were scraped since the last check
vars == <<login, follow, forms, next, readers, flight, seen, requested, scraped,
          items, closed, checks, failed, since>>
spider == <<login, follow, forms>>

Req(kind, u) == [kind |-> kind, url |-> u]

\* start_requests: forms are for spiders without a login.
Init == /\ login \in BOOLEAN
        /\ forms \in 0..2
        /\ follow \in [rule : {"none", "all", "patterns"}, nofollow : BOOLEAN]
        /\ next = 1
        /\ readers = IF login \/ forms > 0 THEN 0 ELSE 1
        /\ flight = IF login THEN {Req("login", 0)}
                    ELSE {Req("form", f) : f \in 1..forms}
        /\ seen = {} /\ requested = <<>> /\ scraped = {}
        /\ items = 0 /\ closed = FALSE /\ checks = 0
        /\ failed = FALSE /\ since = 0

-----------------------------------------------------------------------------
\* Mutant: every callback makes the start requests anew.
NextOfOwn == IF next < Len(StartUrls) THEN next + 1 ELSE 1

\* _start_requests is one generator.
NextStart == next + 1

\* One of the callbacks that read the start requests sends the next one.
StartRequest ==
  /\ ~closed /\ readers > 0 /\ next <= Len(StartUrls)
  /\ flight' = flight \cup {Req("start", StartUrls[next])}
  /\ requested' = Append(requested, StartUrls[next])
  /\ next' = NextStart
  /\ UNCHANGED <<spider, readers, seen, scraped, items, closed, checks, failed, since>>

\* parse_login_page: the filled form goes where after_login waits.
LoginPage == /\ ~closed
             /\ Req("login", 0) \in flight
             /\ flight' = (flight \ {Req("login", 0)}) \cup {Req("loggedIn", 0)}
             /\ UNCHANGED <<spider, next, readers, seen, requested, scraped,
                            items, closed, checks, failed, since>>

\* build_url_filter; with "all" only nofollow links are followed, if those
\* are to be respected.
Followed(u) ==
  {v \in Links[u] : CASE follow.rule = "none" -> FALSE
                      [] follow.rule = "all"  -> follow.nofollow => v \in Nofollow
                      [] OTHER -> /\ follow.nofollow => v \notin Nofollow
                                  /\ v \in Matching}

\* handle_html: items, less duplicates, and requests for links, less those
\* that were made.
Parse(u, rest) ==
  /\ flight' = rest \cup {Req("page", v) : v \in Followed(u) \ seen}
  /\ seen' = seen \cup Followed(u)
  /\ scraped' = scraped \cup Items[u]
  /\ items' = items + Cardinality(Items[u] \ scraped)
  /\ since' = since + Cardinality(Items[u] \ scraped)

\* after_login: the page after the login, and then the start urls.
AfterLogin(u) ==
  /\ ~closed
  /\ Req("loggedIn", 0) \in flight
  /\ Parse(u, flight \ {Req("loggedIn", 0)})
  /\ readers' = readers + 1
  /\ UNCHANGED <<spider, next, requested, closed, checks, failed>>

\* get_generic_form_start_request: values of a field may have to be fetched.
FormValues(f) ==
  /\ ~closed
  /\ Req("form", f) \in flight
  /\ flight' = (flight \ {Req("form", f)}) \cup {Req("values", f)}
  /\ UNCHANGED <<spider, next, readers, seen, requested, scraped, items,
                 closed, checks, failed, since>>

\* Mutant: without the form nothing follows.
OnlyAfterTheForm(found) == IF found THEN readers + 1 ELSE readers

\* parse_form_page: without the form a warning, and in any case start urls.
AfterFormPage(found) == readers + 1

FormPage(f, kind, found) ==
  /\ ~closed
  /\ Req(kind, f) \in flight
  /\ flight' = (flight \ {Req(kind, f)}) \cup
                 (IF found THEN {Req("posted", f)} ELSE {})
  /\ readers' = AfterFormPage(found)
  /\ UNCHANGED <<spider, next, seen, requested, scraped, items, closed, checks, failed, since>>

\* after_form_page
AfterForm(f, u) == /\ ~closed
                   /\ Req("posted", f) \in flight
                   /\ Parse(u, flight \ {Req("posted", f)})
                   /\ UNCHANGED <<spider, next, readers, requested, closed, checks, failed>>

\* parse of a start url or a followed link
PageArrives(r) ==
  /\ ~closed
  /\ r \in flight /\ r.kind \in {"start", "page"} /\ r.url \in Url
  /\ Parse(r.url, flight \ {r})
  /\ UNCHANGED <<spider, next, readers, requested, closed, checks, failed>>

\* FeedGenerator.parse_urls: the lines of the feed.
Feed(urls) ==
  /\ ~closed
  /\ Req("start", "feed") \in flight
  /\ flight' = (flight \ {Req("start", "feed")}) \cup
                 {Req("page", u) : u \in urls \ seen}
  /\ seen' = seen \cup urls
  /\ UNCHANGED <<spider, next, readers, requested, scraped, items, closed, checks, failed, since>>

\* A request fails: no callback, and no errback.
Fail(r) == /\ ~closed
           /\ r \in flight
           /\ flight' = flight \ {r}
           /\ failed' = (failed \/ r.kind \notin {"start", "page"})
           /\ UNCHANGED <<spider, next, readers, seen, requested, scraped, items,
                          closed, checks, since>>

\* Mutant: the count goes on over periods.
CountGoesOn == items

CountReset == 0

\* SlybotCloseSpider._check_crawled_items
Check == /\ ~closed /\ checks < MaxChecks
         /\ checks' = checks + 1
         /\ closed' = (items < PeriodItems)
         /\ items' = IF items < PeriodItems THEN items ELSE CountReset
         /\ since' = 0
         /\ UNCHANGED <<spider, next, readers, flight, seen, requested, scraped, failed>>

Next == \/ StartRequest \/ LoginPage \/ Check
        \/ \E u \in Url : AfterLogin(u)
        \/ \E f \in 1..2 : FormValues(f)
        \/ \E f \in 1..2, kind \in {"form", "values"}, found \in BOOLEAN :
             FormPage(f, kind, found)
        \/ \E f \in 1..2, u \in Url : AfterForm(f, u)
        \/ \E r \in flight : PageArrives(r) \/ Fail(r)
        \/ \E urls \in SUBSET Url : Feed(urls)

\* Scrapy goes on with every generator, and every request ends some way.
Fairness == /\ WF_vars(StartRequest)
            /\ \A f \in 1..2, kind \in {"form", "values"} :
                 WF_vars(FormValues(f) \/ Fail(Req(kind, f))
                           \/ \E found \in BOOLEAN : FormPage(f, kind, found))
            /\ WF_vars(LoginPage \/ Fail(Req("login", 0)))
            /\ WF_vars(Fail(Req("loggedIn", 0)) \/ \E u \in Url : AfterLogin(u))

Spec == Init /\ [][Next]_vars /\ Fairness

-----------------------------------------------------------------------------
\* However many callbacks send start requests, each start url is requested
\* once, in the order of the spider.
StartUrlsInOrder ==
  /\ Len(requested) <= Len(StartUrls)
  /\ \A i \in DOMAIN requested : requested[i] = StartUrls[i]

\* The extension closes a spider exactly if it scraped too few items since the
\* check before.
ClosedForFewItems ==
  [][checks' > checks => (closed' <=> since < PeriodItems)]_vars

\* Every start url is requested, unless one of the requests that come first
\* failed or the spider was closed: whatever the forms look like.
StartUrlsAreRequested == <>(closed \/ failed \/ next > Len(StartUrls))
=============================================================================
