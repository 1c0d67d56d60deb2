------------------------------ MODULE StartUrls ------------------------------
(***************************************************************************)
(* The two formats of generated start urls: the old one (a template with   *)
(* holes, and parameters), which UrlGenerator expands, and the list of     *)
(* fragments that replaces it each time a spider is loaded                 *)
(* (GeneratedUrl.normalized), which FragmentGenerator expands.             *)
(*                                                                         *)
(* A text is a sequence of words; a template is a sequence of texts and    *)
(* Holes.  A generator is [type, values] with type "default", "options" or *)
(* "range": first, limit and maybe a step.  Quoting is left out.           *)
(***************************************************************************)
EXTENDS Integers, Sequences, SequencesExt

CONSTANT Hole

\* The members of a product, each the concatenation of one choice per factor.
Products(factors) ==
  FoldLeft(LAMBDA done, f : {x \o y : x \in done, y \in f}, {<<>>}, factors)

Positions(s, Test(_)) == SelectSeq([i \in DOMAIN s |-> i], LAMBDA i : Test(s[i]))

-----------------------------------------------------------------------------
(* The old format, as UrlGenerator expands it.                             *)

Step(g) == IF Len(g.values) = 3 THEN g.values[3] ELSE 1

Counted(low, limit, step) ==
  {<<ToString(n)>> : n \in {k \in low..limit - 1 : (k - low) % step = 0}}

Expand(g) == CASE g.type = "default" -> {g.values[1]}
               [] g.type = "options" -> Range(g.values)
               [] g.type = "range"   -> Counted(g.values[1], g.values[2], Step(g))

\* The query: the parameters of the template in its order, overridden or
\* not, and then the others.
QueryNames(spec) ==
  LET names == [i \in DOMAIN spec.params |-> spec.params[i].name]
  IN  spec.params_template \o
        SelectSeq(names, LAMBDA n : n \notin Range(spec.params_template))

Prefix(i, name) == <<IF i = 1 THEN "?" ELSE "&", name>>

QueryValues(spec, name) ==
  LET given == {p \in Range(spec.params) : p.name = name}
  IN  IF given = {} THEN {<<"x">>} ELSE UNION {Expand(p.gen) : p \in given}

LegacyUrls(spec) ==
  LET holes == Positions(spec.template, LAMBDA t : t = Hole)
      query == QueryNames(spec)
      part(i) == IF spec.template[i] # Hole THEN {spec.template[i]}
                 ELSE Expand(spec.paths[CHOOSE k \in DOMAIN holes : holes[k] = i])
  IN  Products([i \in DOMAIN spec.template |-> part(i)] \o
               [i \in DOMAIN query |-> {Prefix(i, query[i]) \o v :
                                          v \in QueryValues(spec, query[i])}])

-----------------------------------------------------------------------------
(* The fragments, and how FragmentGenerator expands them.                  *)

NormalizeRange(g) == [type |-> "range", low |-> g.values[1],
                      high |-> g.values[2] - 1]

Fixed(text) == [type |-> "fixed", value |-> text]

NormalizePath(g) ==
  CASE g.type = "default" -> Fixed(g.values[1])
    [] g.type = "options" -> [type |-> "list", value |-> FlattenSeq(g.values)]
    [] g.type = "range"   -> NormalizeRange(g)

\* Mutant: the text after the last hole is missed, as it is by zip.
ZippedOnly(fixed, path) ==
  FlattenSeq([i \in 1..Len(fixed) |->
    IF i <= Len(path) THEN <<fixed[i], path[i]>> ELSE <<>>])

\* zip, with the last fixed fragment it misses when there is one more.
Zipped(fixed, path) ==
  FlattenSeq([i \in 1..Len(fixed) |->
    IF i <= Len(path) THEN <<fixed[i], path[i]>>
    ELSE IF i = Len(path) + 1 /\ i = Len(fixed) THEN <<fixed[i]>> ELSE <<>>])

QueryParams(spec) ==
  LET named == {p.name : p \in Range(spec.params)}
      kept == SelectSeq(spec.params_template, LAMBDA n : n \notin named)
  IN  [i \in DOMAIN kept |-> [name |-> kept[i],
                              gen |-> [type |-> "default", values |-> <<<<"x">>>>]]]
        \o spec.params

Normalized(spec) ==
  LET texts == SelectSeq(spec.template, LAMBDA t : t # Hole)
      query == QueryParams(spec)
  IN  Zipped([i \in DOMAIN texts |-> Fixed(texts[i])],
             [i \in DOMAIN spec.paths |-> NormalizePath(spec.paths[i])])
        \o FlattenSeq([i \in DOMAIN query |->
             <<Fixed(Prefix(i, query[i].name)), NormalizePath(query[i].gen)>>])

ProcessFragment(f) ==
  CASE f.type = "fixed" -> {f.value}
    [] f.type = "list"  -> {<<w>> : w \in Range(f.value)}
    [] f.type = "range" -> Counted(f.low, f.high + 1, 1)

ProcessFragments(fragments) ==
  [i \in DOMAIN fragments |-> ProcessFragment(fragments[i])]

FragmentUrls(fragments) == Products(ProcessFragments(fragments))

-----------------------------------------------------------------------------
(* The domains a crawl that starts at these urls is kept in.               *)

\* _has_domain: what urlparse takes for a path or a query.
HasDomain(text) == Range(text) \cap {"/", "?"} # {}

\* Mutant: the fragments are looked at one by one.
NotJoined(lists, k) == lists[k]

Joined(lists, k) == Products(SubSeq(lists, 1, k))

\* _find_fragment_domains: fragments are joined until all the beginnings of the
\* urls are longer than their hosts.
FragmentDomains(fragments) ==
  LET lists == ProcessFragments(fragments)
      enough == {k \in DOMAIN lists : \A f \in Joined(lists, k) : HasDomain(f)}
  IN  IF enough = {} THEN {} ELSE Joined(lists, CHOOSE k \in enough : \A j \in enough : k <= j)

\* iter_unique_scheme_hostname
Host(url) ==
  LET ends == {i \in DOMAIN url : url[i] \in {"/", "?"}}
  IN  IF ends = {} THEN url ELSE SubSeq(url, 1, (CHOOSE i \in ends : \A j \in ends : i <= j) - 1)

AllowedDomains(fragments) == {Host(url) : url \in FragmentDomains(fragments)}
=============================================================================
