----------------------------- MODULE MCBrowsing -----------------------------
(***************************************************************************)
(* Browsing on a small instance.                                           *)
(***************************************************************************)
EXTENDS Browsing, TLC

CONSTANTS r1, r2, a, b

\* A record is edited twice, and another one that is saved along with it once.
TwiceAndOnce == r1 :> 2 @@ r2 :> 1

\* A feed that gives urls, and a page.
FeedAndPage == <<"feed", a>>

\* One page links to the other, and that one to both.
LinksOfPages == a :> {b} @@ b :> {a, b}

\* Each page has an item of its own.
ItemsOfPages == a :> {a} @@ b :> {b}
=============================================================================
