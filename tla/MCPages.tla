------------------------------ MODULE MCPages ------------------------------
(***************************************************************************)
(* Pages of growing size with the annotations of a sample on them: notes   *)
(* on the tags and words of an old sample (notes), annotations with the    *)
(* elements their selectors find (sample), annotations to be migrated      *)
(* (migration).  First the page is written from its start to its end, then *)
(* it is annotated.                                                        *)
(***************************************************************************)
EXTENDS Migration

CONSTANTS Uses,              \* notes, sample, migration
          MaxElements,       \* of a page, by use
          MaxTexts, MaxAnnotations,   \* annotations by use too
          Marked             \* the ids and classes of elements

VARIABLES use, doc, page, open, annotations

vars == <<use, doc, page, open, annotations>>

Elems == DOMAIN doc.parent
Token(kind, e) == [kind |-> kind, of |-> e, words |-> <<>>, notes |-> {}]

Init == /\ use \in Uses
        /\ doc = [parent |-> <<0, 1>>, tag |-> <<"html", "body">>, id |-> <<None, None>>,
                  class |-> <<None, None>>]
        /\ page = <<Token("open", 1), Token("open", 2)>>
        /\ open = <<1, 2>> /\ annotations = <<>>

\* What can be in what.
Tags(parent) ==
  IF use # "migration" THEN {"div"}
  ELSE CASE parent = "table" -> {"thead", "tbody", "tr"}
         [] parent \in {"thead", "tbody"} -> {"tr"}
         [] parent = "tr" -> {"td"}
         [] OTHER -> {"div", "table"}

\* At most two elements have an id or a class.
Marks ==
  IF use = "migration" /\ Cardinality({e \in Elems : doc.id[e] # None \/ doc.class[e] # None}) < 2
  THEN {None} \cup Marked ELSE {None}

OpenElement ==
  /\ open # <<>> /\ Last(open) # 1 /\ Len(doc.parent) < MaxElements[use]
  /\ \E tag \in Tags(doc.tag[Last(open)]), id, class \in Marks :
       LET e == Len(doc.parent) + 1 IN
       /\ id = None \/ class = None
       /\ doc' = [parent |-> Append(doc.parent, Last(open)), tag |-> Append(doc.tag, tag),
                  id |-> Append(doc.id, id), class |-> Append(doc.class, class)]
       /\ page' = Append(page, Token("open", e))
       /\ open' = Append(open, e)
  /\ UNCHANGED <<use, annotations>>

\* Two words that are nowhere else on the page.
Texts == {i \in DOMAIN page : page[i].kind = "text"}
AddText ==
  /\ use = "notes" /\ open # <<>> /\ Last(open) # 1
  /\ Last(page).kind # "text" /\ Cardinality(Texts) < MaxTexts
  /\ LET n == 2 * Cardinality(Texts)
     IN  page' = Append(page, Text(<<n + 1, n + 2>>))
  /\ UNCHANGED <<use, doc, open, annotations>>

CloseElement ==
  /\ open # <<>>
  /\ page' = Append(page, Token("close", Last(open)))
  /\ open' = Front(open)
  /\ UNCHANGED <<use, doc, annotations>>

Annotate(Some) ==
  /\ open = <<>> /\ Len(annotations) < MaxAnnotations[use]
  /\ \E a \in Some : annotations' = Append(annotations, a)
  /\ UNCHANGED <<use, doc, page, open>>

N == Len(annotations) + 1

\* One generated annotation, or some on elements in their order.
AnnotateWords ==
  /\ use = "notes"
  /\ \A n \in Range(annotations) : ~n.generated
  /\ \E e \in Elems \ {1}, g, a \in BOOLEAN, from \in 0..4, len \in 0..2 :
       /\ g \/ (~a /\ from = 0 /\ len = 0)
       /\ g => annotations = <<>>
       /\ a => e # 2
       /\ annotations # <<>> => e >= Last(annotations).tag
       /\ Annotate({[id |-> N, tag |-> e, container |-> NoContainer, holds |-> FALSE,
                     generated |-> g, after |-> a, slice |-> <<from, from + len>>]})

\* A container first, then what is in it.  Selectors find one element or two.
AnnotateElements ==
  /\ use = "sample"
  /\ \/ /\ annotations = <<>>
        /\ Annotate({[id |-> <<1>>, elems |-> s, container |-> NoContainer, holds |-> TRUE,
                      auto |-> FALSE] : s \in {{}} \cup {{e} : e \in Elems \ {1}}})
     \/ /\ annotations # <<>>
        /\ Annotate({[id |-> <<N>>, elems |-> {e, f}, container |-> <<1>>, holds |-> FALSE,
                      auto |-> r] : e, f \in Elems \ {1, 2}, r \in BOOLEAN})

OldData == {<<<<"content", 1>>>>, <<<<"content", 1>>, <<"href", 2>>>>}

\* In the order of their elements.
AnnotateOld ==
  /\ use = "migration"
  /\ \E e \in Elems \ {1}, kind \in {"standard", "generated"}, data \in OldData :
       /\ annotations # <<>> => e >= Last(annotations).tag /\ Len(data) = 1
       /\ kind = "generated" => e # 2 /\ Len(data) = 1
       /\ Annotate({[id |-> N, tag |-> e, kind |-> kind, after |-> kind = "generated",
                     data |-> data]})

Next == OpenElement \/ AddText \/ CloseElement \/ AnnotateWords \/ AnnotateElements \/ AnnotateOld

Spec == Init /\ [][Next]_vars

-----------------------------------------------------------------------------
Notes == Range(annotations)

\* Annotations of elements leave the page as it is, each in the tag of its
\* element and once, however they are nested and how many are in one tag; only
\* the last tag is there twice.
NotesAreWritten ==
  (use = "notes" /\ open = <<>> /\ \A n \in Notes : ~n.generated) =>
    LET Noted(t) == IF t.kind = "open" THEN [t EXCEPT !.notes = {n.id : n \in {m \in Notes : m.tag = t.of}}]
                    ELSE t
    IN  Apply(page, Notes) = Append([i \in DOMAIN page |-> Noted(page[i])], Last(page))

InElement(tokens, e, i) ==
  /\ \E j \in 1..i : tokens[j].kind = "open" /\ tokens[j].of = e
  /\ \E j \in i..Len(tokens) : tokens[j].kind = "close" /\ tokens[j].of = e

MarkedOnce(tokens, n, words) ==
  \E i \in DOMAIN tokens :
    /\ {j \in DOMAIN tokens : tokens[j].kind = "ins"} = {i}
    /\ tokens[i].words = words /\ tokens[i].notes = {n.id}
    /\ InElement(tokens, n.tag, i)

\* The words of an element that its only generated annotation is for are marked
\* once, in the element, after whichever child they come.
GeneratedMarksItsWords ==
  (use = "notes" /\ open = <<>> /\ Len(annotations) = 1) =>
    \A n \in Notes : n.generated /\ ~n.after =>
      LET words == Slice(TextContent(Nodes(page, n.tag, FALSE)), n.slice).selected
          whole == \E i \in Texts : PartOf(words, page[i].words)
      IN  (words # <<>> /\ whole) => MarkedOnce(Apply(page, Notes), n, words)

-----------------------------------------------------------------------------
SampleNotes == Verified(doc.parent, annotations)

\* The container is found around what is in it, with at most one repeated
\* field, which is not on its element or in itself; or it is not found and has
\* none.
Sound ==
  LET fields == {a \in Range(annotations) : ~a.holds}
      repeated == {a \in fields : a.auto}
      c == Min(annotations[1].elems)
  IN  IF annotations[1].elems = {} THEN repeated = {}
      ELSE /\ \A a \in fields, e \in Elems : e \in a.elems =>
                c \in Around(doc.parent, e) /\ (a.auto => c # e)
           /\ Cardinality(repeated) <= 1
           /\ \A a \in repeated : CommonParent(doc.parent, a.elems) \notin a.elems
                                 \/ Cardinality(a.elems) = 1

\* Every annotation is in its container: one that has been lost is found again
\* around its fields, one where a field repeats moves out of the way of the
\* container of that field.
AnnotationsAreInTheirContainers ==
  (use = "sample" /\ annotations # <<>> /\ Sound /\ CanBeSorted(doc.parent, annotations)) =>
    \A n \in SampleNotes : n.container # NoContainer =>
      /\ \E c \in SampleNotes : c.id = n.container
      /\ \A c \in SampleNotes : c.id = n.container =>
           /\ c.tag \in Around(doc.parent, n.tag)
           /\ n.holds => c.tag # n.tag

-----------------------------------------------------------------------------
Migrated == PortSample(doc, annotations)
MigratedNotes == Verified(doc.parent, Migrated)
InSection(e) == \E x \in Around(doc.parent, e) : doc.tag[x] \in {"thead", "tbody"}
Ready == use = "migration" /\ annotations # <<>> /\ \A e \in Elems : ~InSection(e)

\* Where no table has sections, an annotation is found on the element it was
\* on, or on the parent of that if it is for the text after it.
MigratedAnnotationsStayPut ==
  Ready => \A a \in Range(Migrated) : ~a.holds =>
    \E n \in MigratedNotes : /\ n.id = a.id
                             /\ n.tag = IF a.after THEN doc.parent[a.of] ELSE a.of

\* All that was migrated is in one container, which is above every element
\* that was annotated.
MigratedIntoOneContainer ==
  Ready => \E c \in MigratedNotes : \A a \in Range(Migrated) : ~a.holds =>
    /\ a.container = c.id
    /\ c.tag \in Ancestors(doc.parent, a.of)
=============================================================================
