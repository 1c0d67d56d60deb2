SPECIFICATION Spec
CONSTANTS
  Parts = {"saves", "socket", "browser", "crawl"}
  r1 = r1
  r2 = r2
  a = a
  b = b
  Record = {r1, r2}
  MaxEdits <- TwiceAndOnce
  Faults = TRUE
  Request = {q1}
  MaxSockets = 3
  MaxEntries = 2
  Project = {p1}
  Spider = {s1}
  Page = {a, b}
  Blank = Blank
  None = None
  MaxVersion = 1
  Url = {a, b}
  StartUrls <- FeedAndPage
  Links <- LinksOfPages
  Nofollow = {b}
  Matching = {b}
  Items <- ItemsOfPages
  PeriodItems = 1
  MaxChecks = 2
INVARIANTS
  SavedIsStored
  OneConnection
  RawIsOfShownPage
PROPERTIES
  QueuedSavesAreMade
  ServerIsReached
  ChangesAreFollowedUp
  CrawlsToTheEnd
CHECK_DEADLOCK FALSE
