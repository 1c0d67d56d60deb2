---------------------------- MODULE MCAlgorithms ----------------------------
(***************************************************************************)
(* The pure algorithms on growing inputs: two copies of an object edited   *)
(* away from it (JsonMerge), three lists (MergeLists), the description of  *)
(* a start url (StartUrls), the tree of a sample (SampleFormat), the       *)
(* extractors it is turned into (Containers), what samples find on a page  *)
(* (Items), what their selectors add (Selectors), the links of a page      *)
(* (Links) and the samples of a spider (Templates).  A behaviour is about  *)
(* one of them, part, and its input.                                       *)
(***************************************************************************)
EXTENDS JsonMerge, Naturals, Sequences, FiniteSets, SequencesExt

CONSTANTS Parts,                  \* those a run is about
          String, Object, MaxLen,   \* members of the lists to merge
          Hole, MaxTemplate,      \* start urls
          Item, Annotation,       \* the nodes of a sample
          NoItem,
          MaxTags, MaxPath,       \* links
          MaxElements             \* selectors

Lists == INSTANCE MergeLists
Urls == INSTANCE StartUrls
Sample == INSTANCE Containers WITH None <- Absent
Page == INSTANCE Links WITH None <- Absent, Anchor <- "anchor"
Samples == INSTANCE Templates WITH Unset <- Absent
Select == INSTANCE Selectors

\* Pages are about 1 and 2, what is inside them has 2.
Types == {"page", "inside"}
RequiredFields == [type \in Types |-> IF type = "page" THEN {1} ELSE {2}]
Export == INSTANCE Items WITH GoodValue <- {"good"}, Schema <- Types,
                              Required <- RequiredFields

VARIABLES part, input

base == input.base
mine == input.mine
other == input.other

Json == [Field -> Value \cup {Absent}]
Generator == {[type |-> "default", values |-> <<<<"p">>>>],
              [type |-> "options", values |-> <<<<"p">>, <<"q">>>>],
              [type |-> "options", values |-> <<<<"p", "q">>, <<"r">>>>],
              [type |-> "range",   values |-> <<1, 3>>],
              [type |-> "range",   values |-> <<1, 4, 2>>]}

\* What a page gives for the annotations of a container.
Gives(field) ==
  {[of |-> field, required |-> r, values |-> v] : r \in BOOLEAN, v \in {{}, {"bad"}, {"good"}}}
Holding(first, second) ==
  {<<>>} \cup {1 :> f : f \in first} \cup {2 :> s : s \in second}
         \cup {1 :> f @@ 2 :> s : f \in first, s \in second}
Container(name, type, annotations, nested) ==
  [name |-> name, schema |-> type, annotations |-> annotations, nested |-> nested]
Inside(name, deeper) ==
  {Container(name, "inside", a, n) : a \in {4 :> g : g \in Gives(2)} \cup {<<>>}, n \in deeper}
Innermost == Container(5, "inside", 5 :> [of |-> 2, required |-> FALSE, values |-> {"good"}], <<>>)
Nestings ==
  LET some == Inside(3, {<<>>, <<Innermost>>})
              \cup Inside(4, {<<>>}) \cup Inside(2, {<<>>})
  IN  {<<>>} \cup {<<n>> : n \in some} \cup {<<n, m>> : n \in Inside(4, {<<>>}), m \in some}
SamplesOfPage ==
  {<<<<Container(0, "page", a, n)>>, <<Container(0, "page", b, <<>>)>>>> :
     a \in Holding(Gives(1), {[of |-> o, required |-> FALSE, values |-> {"good"}] : o \in {0, 2}}),
     b \in {<<>>, 3 :> [of |-> 1, required |-> FALSE, values |-> {"good"}]},
     n \in Nestings}

Tags ==
  LET Of(name, close, href, nofollow) ==
        [tag |-> name, close |-> close, href |-> href, nofollow |-> nofollow]
  IN  {Of("a", FALSE, h, n) : h \in {"there"}, n \in BOOLEAN}
      \cup {Of("a", FALSE, "anchor", FALSE), Of("a", TRUE, Absent, FALSE)}
      \cup {Of("head", c, Absent, FALSE) : c \in BOOLEAN}
      \cup {Of("body", FALSE, Absent, FALSE), Of("base", FALSE, "elsewhere", FALSE)}
      \cup {Of(t, FALSE, "there", FALSE) : t \in {"link", "frame"}}
      \cup {Of(t, FALSE, "there", TRUE) : t \in {"area", "script"}}

Address(fragment) ==
  [path |-> <<>>, slash |-> FALSE, query |-> <<>>, fragment |-> fragment, allowed |-> TRUE]

\* Items of a sample: what is required and annotated, and items inside.
SampleItem(inside) ==
  {[required |-> r, annotated |-> a, nested |-> n] :
     r \in {{}, {1}}, a \in {{}, {1}},
     n \in {<<>>} \cup {<<i>> : i \in inside} \cup {<<i, i>> : i \in inside}}

Template(new, type, scrapes) ==
  [new |-> new, type |-> type, scrapes |-> scrapes,
   body |-> Absent, built |-> Absent,
   gives |-> [page \in {"live", "raw"} |-> [items |-> <<>>, links |-> <<>>]]]

Finding == [Template(TRUE, "item", 1) EXCEPT !.gives["raw"].items = <<1 :> "v">>]
FoundBy(t) == Len(t.gives["live"].items) + Len(t.gives["raw"].items)

Inputs ==
  [json   |-> {[base |-> j, mine |-> j, other |-> j] : j \in Json},
   lists  |-> {[base |-> <<>>, mine |-> <<>>, other |-> <<>>]},
   url    |-> {[template |-> <<>>, paths |-> <<>>, params |-> <<>>, params_template |-> <<>>]},
   sample |-> {[roots |-> <<>>, repeated |-> {}, children |-> [i \in Item |-> <<>>]]},
   items  |-> SamplesOfPage,
   select |-> {[page |-> <<>>, list |-> 0, items |-> <<>>, matched |-> {}]},
   links  |-> {[tags |-> <<>>, url |-> Address(Absent)]},
   check  |-> {[templates |-> <<>>, using_js |-> js, sample |-> s] :
                 js \in BOOLEAN, s \in SampleItem({})}
              \cup {[templates |-> <<Finding>>, using_js |-> FALSE, sample |-> s] :
                      s \in SampleItem(SampleItem({}))}]

Init == part \in Parts \cap DOMAIN Inputs /\ input \in Inputs[part]

EditMine == /\ part = "json"
            /\ \E k \in Field, v \in Value \cup {Absent} :
                 input' = [input EXCEPT !.mine[k] = v]
            /\ UNCHANGED part

EditOther == /\ part = "json"
             /\ \E k \in Field, v \in Value \cup {Absent} :
                  input' = [input EXCEPT !.other[k] = v]
             /\ UNCHANGED part

\* Lists hold strings or objects, and nothing twice.
Lengthen == /\ part = "lists"
            /\ \E side \in DOMAIN input, x \in String \cup Object :
                 LET kind == IF x \in String THEN String ELSE Object IN
                 /\ Len(input[side]) < MaxLen
                 /\ x \notin Range(input[side])
                 /\ \A s \in DOMAIN input : Range(input[s]) \subseteq kind
                 /\ input' = [input EXCEPT ![side] = Append(@, x)]
            /\ UNCHANGED part

DescribeUrl ==
  /\ part = "url"
  /\ \/ /\ Len(input.template) < MaxTemplate
        /\ Last(<<Hole>> \o input.template) = Hole
        /\ input' = [input EXCEPT !.template = Append(@, <<"/">>)]
     \/ /\ Len(input.template) < MaxTemplate /\ Len(input.paths) < 2
        /\ \E g \in Generator :
             input' = [input EXCEPT !.template = Append(@, Hole),
                                    !.paths = Append(@, g)]
     \/ /\ input.params = <<>>
        /\ \E n \in {"a", "b"}, g \in Generator :
             input' = [input EXCEPT !.params = <<[name |-> n, gen |-> g]>>]
     \/ \E n \in {"a", "b"} \ Range(input.params_template) :
          input' = [input EXCEPT !.params_template = Append(@, n)]
  /\ UNCHANGED part

Nodes == Range(input.roots) \cup UNION {Range(input.children[i]) : i \in Item}

\* A node is put at the front or the end of what holds it.
Placed(s, n) == {<<n>> \o s, Append(s, n)}

Annotate ==
  /\ part = "sample"
  /\ \E n \in (Item \cup Annotation) \ Nodes :
       \/ /\ n \in Item
          /\ \E s \in Placed(input.roots, n) : input' = [input EXCEPT !.roots = s]
       \/ \E i \in Item \cap Nodes : \E s \in Placed(input.children[i], n) :
            input' = [input EXCEPT !.children[i] = s]
  /\ UNCHANGED part

Repeat == /\ part = "sample"
          /\ \E i \in (Item \cap Nodes) \ input.repeated :
               input' = [input EXCEPT !.repeated = @ \cup {i}]
          /\ UNCHANGED part

AddTag == /\ part = "links" /\ Len(input.tags) < MaxTags /\ input.url = Address(Absent)
          /\ \E t \in Tags : input' = [input EXCEPT !.tags = Append(@, t)]
          /\ UNCHANGED part

Point == /\ part = "links" /\ input.tags = <<>> /\ Len(input.url.path) < MaxPath
         /\ \/ \E s \in {"a", "img", ".", ".."} :
                 input' = [input EXCEPT !.url.path = Append(@, s)]
            \/ \E f \in {<<"x">>, <<"!", "x">>} : input' = [input EXCEPT !.url.fragment = f]
            \/ input' = [input EXCEPT !.url.slash = ~@]
            \/ input' = [input EXCEPT !.url.allowed = FALSE]
         /\ UNCHANGED part

AddTemplate ==
  /\ part = "check" /\ Len(input.templates) < 2
  /\ input.sample.required \cup input.sample.annotated = {}
  /\ input.sample.nested = <<>>
  /\ \E new \in BOOLEAN, type \in {"item", "links"}, scrapes \in 1..2 :
       /\ input.templates # <<>> => type = "item" /\ scrapes = 1
       /\ input' = [input EXCEPT !.templates = Append(@, Template(new, type, scrapes))]
  /\ UNCHANGED part

Beneath(e, f) == e \in Range(Select!Ancestors(input.page)[f])

AddElement ==
  /\ part = "select" /\ Len(input.page) < MaxElements /\ input.list = 0
  /\ \E p \in IF input.page = <<>> THEN {0} ELSE DOMAIN input.page :
       input' = [input EXCEPT !.page = Append(@, p)]
  /\ UNCHANGED part

\* The items of a list, in elements none of which is in another, in any order.
AddListItem ==
  /\ part = "select" /\ input.matched = {}
  /\ \E e \in DOMAIN input.page, list \in DOMAIN input.page :
       /\ input.list \in {0, list} /\ Beneath(list, e)
       /\ \A i \in Range(input.items) : e # i /\ ~Beneath(i, e) /\ ~Beneath(e, i)
       /\ input' = [input EXCEPT !.list = list, !.items = Append(@, e)]
  /\ UNCHANGED part

Match ==
  /\ part = "select" /\ Len(input.items) = 2
  /\ \E e \in DOMAIN input.page \ {input.list} :
       /\ \A m \in input.matched : e > m
       /\ input' = [input EXCEPT !.matched = @ \cup {e}]
  /\ UNCHANGED part

\* What a template finds on a page.
Find ==
  /\ part = "check"
  /\ \E i \in DOMAIN input.templates, page \in {"live", "raw"} :
       LET gives == input.templates[i].gives[page] IN
       /\ input.templates[i].body = Absent
       /\ \/ /\ FoundBy(input.templates[i]) < (IF i = 1 THEN 3 ELSE 1)
             /\ \E x \in IF i = 1 THEN {1 :> "v", 1 :> "w", 2 :> "v"} ELSE {1 :> "v"} :
                  input' = [input EXCEPT !.templates[i].gives[page].items = Append(@, x)]
          \/ /\ gives.links = <<>> /\ page = "live"
             /\ input' = [input EXCEPT !.templates[i].gives[page].links = <<<<i>>>>]
  /\ UNCHANGED part

\* The spider is opened with javascript for some addresses.
SetupBot ==
  /\ part = "check"
  /\ \A t \in Range(input.templates) : t.gives = Template(TRUE, "item", 1).gives
  /\ \E js \in [DOMAIN input.templates -> BOOLEAN] :
       input' = [input EXCEPT !.templates =
                   [i \in DOMAIN @ |-> Samples!Annotated(@[i], js[i])]]
  /\ UNCHANGED part

Next == \/ EditMine \/ EditOther \/ Lengthen \/ DescribeUrl \/ Annotate \/ Repeat
        \/ AddTag \/ Point \/ AddTemplate \/ Find \/ SetupBot
        \/ AddElement \/ AddListItem \/ Match

Spec == Init /\ [][Next]_<<part, input>>

-----------------------------------------------------------------------------
\* The textbook merge of one value: the side that moved away from base wins,
\* agreement is no conflict.
ThreeWay(b, m, o) == CASE m = o -> [conflict |-> FALSE, val |-> m]
                       [] m = b -> [conflict |-> FALSE, val |-> o]
                       [] o = b -> [conflict |-> FALSE, val |-> m]
                       [] OTHER -> [conflict |-> TRUE,  val |-> b]

\* One side stored null where the other removed the key: get() answers None
\* for both and the code takes them for equal.
NullMeetsRemoval(k) ==
  /\ base[k] # Absent
  /\ mine[k] = Null /\ other[k] = Absent

\* merge_jsons is the textbook merge, key by key, but where a null meets a
\* removed key: it decides conflicts as the textbook does, and a key without
\* one gets the textbook's value.
MergeIsThreeWay ==
  part = "json" =>
  \A k \in Field : ~NullMeetsRemoval(k) =>
    LET ref == ThreeWay(base[k], mine[k], other[k])
    IN /\ FieldConflict(base, mine, other, k) <=> ref.conflict
       /\ ~ref.conflict => MergeField(base, mine, other, k) = ref.val

\* Swapping the sides does not change which keys conflict, nor the merged
\* value of a key that does not: whoever publishes second, the project is the
\* same, again but where a null meets a removed key.
MergeIsSymmetric ==
  part = "json" =>
  \A k \in Field :
    (~NullMeetsRemoval(k) /\ ~(other[k] = Null /\ mine[k] = Absent)) =>
      /\ FieldConflict(base, mine, other, k) <=> FieldConflict(base, other, mine, k)
      /\ ~FieldConflict(base, mine, other, k) =>
           MergeField(base, mine, other, k) = MergeField(base, other, mine, k)

\* Where a null meets a removed key, who publishes second decides whether that
\* is a conflict; but the null is in the result, not the value both gave up
\* and not silently nothing.
NullIsNotForgotten ==
  part = "json" =>
  \A k \in Field :
    ({mine[k], other[k]} = {Null, Absent} /\ base[k] \notin {Null, Absent}) =>
      FieldConflict(base, mine, other, k) \/ MergeField(base, mine, other, k) = Null

\* A conflict-free merge merged again against either side changes nothing.
MergeIsStable ==
  (part = "json" /\ ~HadConflict(base, mine, other)) =>
    LET merged == Merged(base, mine, other)
    IN /\ Merged(mine, merged, mine) = merged
       /\ Merged(other, other, merged) = merged

-----------------------------------------------------------------------------
MergedLists == Lists!Merge(base, mine, other)

Holds(x) == IF x \in String \cup Object THEN {x}
            ELSE Range(x.mine) \cup Range(x.other) \cup Range(x.base)

InConflict(merged) == \E i \in DOMAIN merged : merged[i] \notin String \cup Object

\* A string both sides have is in the merged list, or in a conflict in it; in
\* a list without conflicts it is there once, wherever the sides moved it.
MergedListsKeepTheCommon ==
  part = "lists" =>
  \A x \in Range(mine) \cap Range(other) \cap String :
    LET places == {i \in DOMAIN MergedLists : x \in Holds(MergedLists[i])}
    IN  places # {} /\ (~InConflict(MergedLists) => Cardinality(places) = 1)

\* What one side added is in the merged list, or in a conflict in it, if what
\* both sides have has not been shifted against each other.  Where it has,
\* merge_lists may leave additions out.
MergedListsKeepAdditions ==
  LET at(s, x) == {i \in DOMAIN s : s[i] = x} IN
  (part = "lists" /\ \A x \in Range(mine) \cap Range(other) : at(mine, x) = at(other, x))
    => \A x \in ((Range(mine) \cup Range(other)) \ Range(base)) \cap String :
         \E i \in DOMAIN MergedLists : x \in Holds(MergedLists[i])

\* Whether two lists conflict does not depend on who publishes first.
ListConflictIsSymmetric ==
  part = "lists" =>
    (InConflict(MergedLists) <=> InConflict(Lists!Merge(base, other, mine)))

-----------------------------------------------------------------------------
SameUrls == Urls!LegacyUrls(input) = Urls!FragmentUrls(Urls!Normalized(input))

\* What the fragments can express: text before every hole, ranges without a
\* step, options without blanks, parameters that replace none of the template.
Expressible ==
  LET generators == Range(input.paths) \cup {p.gen : p \in Range(input.params)}
  IN  /\ \A i \in DOMAIN input.template : input.template[i] = Hole =>
           i > 1 /\ input.template[i - 1] # Hole
      /\ \A g \in generators :
           /\ g.type = "range" => Len(g.values) = 2
           /\ g.type = "options" => \A v \in Range(g.values) : Len(v) = 1
      /\ \A p \in Range(input.params) : p.name \notin Range(input.params_template)

\* A spider whose start urls were put in the new format by being loaded
\* starts at the same urls as before.
NormalizedUrlsAreTheSame == (part = "url" /\ Expressible) => SameUrls

\* A crawl is allowed in the domains it starts in, each of them and no others, if
\* what is generated are addresses of pages and not of hosts alone.
StartUrlsAreInTheirDomains ==
  part = "url" =>
    LET fragments == <<Urls!Fixed(<<"http:">>)>> \o Urls!Normalized(input)
        urls == Urls!FragmentUrls(fragments)
    IN  (\A url \in urls : Urls!HasDomain(url)) =>
          Urls!AllowedDomains(fragments) = {Urls!Host(url) : url \in urls}

-----------------------------------------------------------------------------
\* A sample is read back as the tree that was written: the same nesting, order
\* and selectors, repeated items in repeated items included.
SampleIsReadBack ==
  part = "sample" => Sample!GetItems(Sample!AddFields(input)) = Sample!Items(input)

Extracts == Sample!AddFields(input)
Annotated == {<<i, x>> \in Item \X Annotation : x \in Range(input.children[i])}

\* An annotation is read by one extractor, that of the item it was made in,
\* however deep that is; those in repeated items inside other items are not
\* read, or those in items in there.
AnnotationsStayInTheirItem ==
  part = "sample" => \A a \in Annotated :
    LET readers == Sample!Readers(Extracts, Sample!Name(a[2])) IN
    /\ Cardinality(readers) <= 1
    /\ \A x \in readers : x.of = Sample!Name(a[1]) /\ x.at = x.of
    /\ input.repeated \subseteq Range(input.roots) => readers # {}

-----------------------------------------------------------------------------
Values(container, field) ==
  UNION {g.values \cap {"good"} : g \in {h \in Range(container.annotations) : h.of = field}}
Given(container) == {field \in 1..2 : Values(container, field) # {}}

\* What a container should be exported as.
RECURSIVE Wanted(_)
Wanted(container) ==
  [type |-> container.schema,
   fields |-> [field \in Given(container) |-> Values(container, field)],
   nested |-> [name \in {n.name : n \in Range(container.nested)} |->
                 Wanted(CHOOSE n \in Range(container.nested) : n.name = name)]]

\* Items inside one another have names of their own and something to say, none
\* lacks a value an annotation requires, and there are two levels of them.
RECURSIVE Regular(_, _)
Regular(container, level) ==
  LET inside == Range(container.nested) IN
  /\ level <= 2
  /\ container.annotations # <<>> /\ Export!Found(container) # {}
  /\ \A g \in Range(container.annotations) : g.required => "good" \in g.values
  /\ \A n \in inside : n.name \notin 1..2 /\ Regular(n, level + 1)
  /\ \A i, j \in DOMAIN container.nested :
       i # j => container.nested[i].name # container.nested[j].name

HasRequired(item) == RequiredFields[item.type] \subseteq DOMAIN item.fields

\* What is exported of a page are the items of one sample, each with the values
\* and the items found inside it and no others; it is the first sample with an
\* item that has all its required fields, or one before it.
PageIsExportedWhole ==
  (part = "items" /\ \A s \in DOMAIN input : \A c \in Range(input[s]) : Regular(c, 1)) =>
    LET items(s) == {Wanted(c) : c \in Range(input[s])}
        exported == Range(Export!FirstOf(input))
        complete == {s \in DOMAIN input : \E item \in items(s) : HasRequired(item)}
    IN  /\ exported = {} => complete = {}
        /\ exported # {} =>
             \E s \in DOMAIN input : /\ exported \subseteq items(s)
                                     /\ \A first \in complete : s <= first

\* A repeated item takes from what a selector matches in the list just what is
\* in the item itself, each element once, whichever item comes first; and
\* nothing outside the list if there is any.
ListItemsTakeTheirOwn ==
  part = "select" =>
    LET repeated == [i \in DOMAIN input.items |->
                       [regions |-> {input.items[i]}, containers |-> {input.list}, repeated |-> TRUE]]
        given == Select!ProcessCssAndXpath(input.page, input.matched, repeated)
        own(i) == {e \in input.matched : Beneath(input.items[i], e)}
    IN  \A i \in DOMAIN given :
          /\ IsInjective(given[i])
          /\ {e \in Range(given[i]) : Beneath(input.list, e)} = own(i)
          /\ own(i) # {} => Range(given[i]) = own(i)

RECURSIVE AllItems(_)
AllItems(item) == {item} \cup UNION {AllItems(n) : n \in Range(item.nested)}

\* An item of which a required field is missing is discarded, wherever it is.
IncompleteItemsAreDiscarded ==
  part = "items" =>
    \A exported \in Range(Export!FirstOf(input)) : \A item \in AllItems(exported) : HasRequired(item)

-----------------------------------------------------------------------------
tags == input.tags
IsOpen(i) == tags[i].tag = "head" /\ ~tags[i].close
IsEnd(i) == tags[i].tag = "body" \/ (tags[i].tag = "head" /\ tags[i].close)
InHead(i) == \E h \in 1..i - 1 : IsOpen(h) /\ ~\E k \in h + 1..i - 1 : IsEnd(k)

\* A head is closed where one is open.
Tidy == \A i \in DOMAIN tags : (tags[i].tag = "head" /\ tags[i].close) => InHead(i)

Anchors == {i \in DOMAIN tags : tags[i].tag = "a" /\ tags[i].href = "there" /\ ~InHead(i)}
Ends(i) == {k \in Anchors \cup {x \in DOMAIN tags : tags[x].tag = "a" /\ tags[x].close /\ ~InHead(x)}
              \cup {Len(tags) + 1} : k > i}
End(i) == CHOOSE k \in Ends(i) : \A j \in Ends(i) : k <= j

\* Each <a> with an address is one link, in the order of the page, with the
\* text up to its end; if it is closed, and no image map or script is in it, it
\* is followed or not as its own rel says, whatever other links say.
AnchorsAreFound ==
  (part = "links" /\ Tidy) =>
    LET links == SelectSeq(Page!IterLinks(tags), LAMBDA l : l.text # Absent)
        alone(i) == /\ End(i) <= Len(tags)
                    /\ \A k \in i + 1..End(i) - 1 : tags[k].tag \notin {"area", "script"}
    IN  /\ Len(links) = Cardinality(Anchors)
        /\ {l.text : l \in Range(links)} = {<<i, End(i)>> : i \in Anchors}
        /\ \A k, j \in DOMAIN links : k < j => links[k].text[1] < links[j].text[1]
        /\ \A l \in Range(links) : alone(l.text[1]) => l.nofollow = tags[l.text[1]].nofollow

\* The form a link is brought to is its own form, and the same for all places
\* within one page: a page is not crawled twice for how it is linked to.
LinksHaveOneForm ==
  part = "links" =>
    LET normal == Page!NormalizeLink(input.url)
    IN  normal # Absent =>
          /\ Page!NormalizeLink(normal) \in {normal, Absent}
          /\ ~Page!Ajax(input.url.fragment) =>
               \A f \in {Absent, <<"y">>} :
                 Page!NormalizeLink([input.url EXCEPT !.fragment = f]) = normal

-----------------------------------------------------------------------------
\* The items of a page are what one sample finds on it, and links are looked
\* for in the regions of that sample only; there are items if any sample of an
\* item page finds some, whatever its version.
PageUsesOneSample ==
  part = "check" => \A page \in {"live", "raw"} :
    LET found == Samples!ExtractItems(input.templates, page)
        followed == Samples!LinksToFollow(found.links, <<0>>)
        finding == {t \in Range(input.templates) :
                      t.type = "item" /\ t.gives[page].items # <<>>}
    IN  IF finding = {} THEN found = Samples!Nothing
        ELSE \E t \in finding :
               /\ found = t.gives[page]
               /\ followed = <<0>> \/ Range(followed) \subseteq UNION {Range(r) : r \in Range(found.links)}

\* A sample of the new format is annotated on the body the crawler gets from
\* its address, also when the spider is opened again with other options.
SamplesAreBuiltOnTheirBody ==
  part = "check" => \A t \in Range(input.templates) :
    (t.new /\ t.body # Absent) => t.built = t.body

Check == Samples!CheckSample(input.sample, input.templates, input.using_js)

\* With javascript: if the user is told of no difference, the page has the same
\* items without it, as far as there are any, and some if it has some with it.
DifferencesAreReported ==
  (part = "check" /\ input.using_js /\ Check.changes = {} /\ Check.differ = {}) =>
    LET raw == Samples!ExtractItems(input.templates, "raw").items
    IN  /\ IsPrefix(raw, Check.items)
        /\ raw = <<>> => Check.items = <<>>

RECURSIVE Complete(_)
Complete(item) == /\ item.required \subseteq item.annotated
                  /\ \A i \in DOMAIN item.nested : Complete(item.nested[i])

\* Items of a sample being edited are shown only if every item in it, those in
\* other items too, has its required fields annotated.
OnlyCompleteSamplesExtract ==
  part = "check" => (Check.items # <<>> => Complete(input.sample))
=============================================================================
