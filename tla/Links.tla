------------------------------- MODULE Links -------------------------------
(***************************************************************************)
(* How links are found on a page and brought to one form: iterlinks in     *)
(* slybot/linkextractor/html.py and normalize_link in                      *)
(* slybot/linkextractor/base.py.                                           *)
(*                                                                         *)
(* A page is the sequence of its tags, each [tag, close, href, nofollow]:  *)
(* href is what the tag points at, by href, src, content or a script as    *)
(* its name asks for, None, or Anchor for "#...".  A link is               *)
(* [href, base, text, nofollow], text the tags around it, or None.        *)
(***************************************************************************)
EXTENDS Naturals, Sequences, SequencesExt

CONSTANTS None, Anchor

\* What the scan knows: the links so far, the <a> that is open (0: none), the
\* nofollow that goes with it, whether it is in a head, the base in force.
Start == [links |-> <<>>, open |-> 0, nofollow |-> FALSE, head |-> FALSE, base |-> None]

Link(href, base, text, nofollow) ==
  [href |-> href, base |-> base, text |-> text, nofollow |-> nofollow]

Found(s, link) == [s EXCEPT !.links = Append(@, link)]

\* Mutant: a link that is still open is forgotten when the next one starts.
CloseOnlyAtEnd(s, page, i) ==
  IF s.open = 0 \/ ~page[i].close THEN s
  ELSE [Found(s, Link(page[s.open].href, s.base, <<s.open, i>>, s.nofollow))
          EXCEPT !.open = 0, !.nofollow = FALSE]

\* The <a> that was open ends where the next one starts.
Close(s, page, i) ==
  IF s.open = 0 THEN s
  ELSE [Found(s, Link(page[s.open].href, s.base, <<s.open, i>>, s.nofollow))
          EXCEPT !.open = 0, !.nofollow = FALSE]

\* Mutant: the nofollow of the link before is kept.
OpenWithOld(s, page, i) ==
  IF page[i].href = None THEN s
  ELSE [s EXCEPT !.open = i, !.nofollow = @ \/ page[i].nofollow]

Open(s, page, i) ==
  IF page[i].href = None THEN s
  ELSE [s EXCEPT !.open = i, !.nofollow = page[i].nofollow]

\* Everything up to </head> or <body> belongs to the head.
InHead(s, page, i) ==
  LET t == page[i] IN
  CASE t.tag = "body" \/ (t.tag = "head" /\ t.close) -> [s EXCEPT !.head = FALSE]
    [] t.tag = "base" /\ t.href # None -> [s EXCEPT !.base = t.href]
    [] t.tag \in {"meta", "link"} /\ t.href # None ->
         Found(s, Link(t.href, s.base, None, FALSE))
    [] OTHER -> s

\* One turn of the loop over the tags; the last case are scripts.
Tag(s, page, i) ==
  LET t == page[i] IN
  IF s.head THEN InHead(s, page, i)
  ELSE CASE t.tag = "a" /\ (t.close \/ t.href \notin {None, Anchor}) ->
              Open(Close(s, page, i), page, i)
         [] t.tag = "head" -> [s EXCEPT !.head = TRUE]
         [] t.tag = "area" /\ t.href # None ->
              Found([s EXCEPT !.nofollow = t.nofollow],
                    Link(t.href, s.base, None, t.nofollow))
         [] t.tag = "frame" /\ t.href # None -> Found(s, Link(t.href, s.base, None, FALSE))
         [] t.tag = "script" /\ t.href # None ->
              Found([s EXCEPT !.nofollow = t.nofollow],
                    Link(t.href, s.base, None, t.nofollow))
         [] OTHER -> s

\* A link that is never closed reaches to the end.
IterLinks(page) ==
  LET s == FoldLeft(LAMBDA known, i : Tag(known, page, i), Start, [i \in DOMAIN page |-> i])
  IN  IF s.open = 0 THEN s.links
      ELSE Append(s.links, Link(page[s.open].href, s.base, <<s.open, Len(page) + 1>>, FALSE))

-----------------------------------------------------------------------------
(* An address is [path, slash, query, fragment, allowed]: the segments of   *)
(* its path, whether it ends with a slash, the parameters, the fragment,    *)
(* <<"!", x>> for one that crawlers shall ask the server for, whether its   *)
(* scheme and length are.                                                   *)

\* posixpath.normpath of an absolute path
NormPath(path) ==
  FoldLeft(LAMBDA done, s : CASE s = "." -> done
                              [] s = ".." -> SubSeq(done, 1, Len(done) - 1)
                              [] OTHER -> Append(done, s),
           <<>>, path)

\* os.path.splitext gives nothing for "." and "..".
Ignored(url) == ~url.slash /\ url.path # <<>> /\ Last(url.path) = "img"

Ajax(fragment) == fragment # None /\ Len(fragment) = 2

\* Mutant: the fragment stays if the path was in order.
KeepsFragment(url) ==
  [url EXCEPT !.path = NormPath(@), !.slash = @ \/ NormPath(url.path) = <<>>,
              !.query = IF Ajax(url.fragment) THEN Append(@, url.fragment[2]) ELSE @,
              !.fragment = IF NormPath(url.path) # url.path THEN None ELSE @]

Normal(url) ==
  [url EXCEPT !.path = NormPath(@), !.slash = @ \/ NormPath(url.path) = <<>>,
              !.query = IF Ajax(url.fragment) THEN Append(@, url.fragment[2]) ELSE @,
              !.fragment = None]

\* normalize_link: the normal form, or None for what is not to be followed.
NormalizeLink(url) == IF ~url.allowed \/ Ignored(url) THEN None ELSE Normal(url)
=============================================================================
