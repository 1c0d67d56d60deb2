----------------------------- MODULE Migration -----------------------------
(***************************************************************************)
(* How samples made before slybot 0.13 are brought to the new format       *)
(* (port_sample in scrapely_annotations/migration.py): annotations that    *)
(* name an element by its number get a selector, one annotation is made of *)
(* every attribute, and all of them get one container.  What this needs of *)
(* a page is                                                               *)
(*   doc: [parent, tag, id, class], each by element; 1 is html, 2 body.    *)
(*   annotation: [id, tag (its element, 0 if there is none), kind, after,  *)
(*                data: the <<attribute, field>> of it in their order]     *)
(* Selectors are sequences of steps; a step that asks for nothing is *.    *)
(* (children_index needs filter to give a list, as in Python 2.)           *)
(***************************************************************************)
EXTENDS AnnotatedPage

CONSTANT None

Star == [tag |-> None, id |-> None, class |-> None, nth |-> 0, child |-> TRUE]
First == [Star EXCEPT !.child = FALSE]

\* children_index
Index(doc, e) == Cardinality({x \in 1..e : doc.parent[x] = doc.parent[e]})

Fits(doc, x, step) == /\ step.tag \in {None, doc.tag[x]}
                      /\ step.id \in {None, doc.id[x]}
                      /\ step.class \in {None, doc.class[x]}
                      /\ step.nth \in {0, Index(doc, x)}

\* sel.css
Matches(doc, steps) ==
  LET Next(found, step) ==
        {x \in DOMAIN doc.parent :
           /\ Fits(doc, x, step)
           /\ IF step.child THEN doc.parent[x] \in found
              ELSE ({0} \cup Ancestors(doc.parent, x)) \cap found # {}}
  IN  FoldLeft(Next, {0}, steps)

Unique(doc, steps) == Cardinality(Matches(doc, steps)) = 1

\* Mutant: a class is taken for unique.
ByClassOfMany(doc, e) ==
  <<<<[First EXCEPT !.class = doc.class[e]]>>>>

\* With the class of an element: alone, with its tag, with its place.
ByClass(doc, e) ==
  LET class == [First EXCEPT !.class = doc.class[e]]
      tagged == [class EXCEPT !.tag = doc.tag[e]]
      placed == [tagged EXCEPT !.nth = Index(doc, e)]
      candidates == IF doc.tag[e] = "table" THEN <<<<tagged>>>>
                    ELSE <<<<class>>, <<tagged>>, <<placed>>>>
  IN  IF doc.class[e] = None THEN <<>>
      ELSE SelectSeq(candidates, LAMBDA c : Unique(doc, c))

\* find_css_selector, with build_table_selector: from a thead or tbody one goes
\* on to its table.
RECURSIVE Find(_, _, _, _)
Find(doc, e, depth, from_tbody) ==
  LET tag == doc.tag[e]
      byId == <<[First EXCEPT !.id = doc.id[e]]>>
      Step(child) == Append(Find(doc, doc.parent[e], depth + 1, FALSE),
                            [Star EXCEPT !.tag = tag, !.nth = Index(doc, e), !.child = child])
      direct == Step(~from_tbody)
  IN  CASE doc.id[e] # None /\ depth <= 1 /\ Unique(doc, byId) -> byId
        [] ~(doc.id[e] # None /\ depth <= 1 /\ Unique(doc, byId)) ->
           IF tag \in {"html", "head", "body"} THEN <<[First EXCEPT !.tag = tag]>>
           ELSE IF ByClass(doc, e) # <<>> THEN Head(ByClass(doc, e))
           ELSE IF tag \in {"thead", "tbody"} THEN Find(doc, doc.parent[e], depth + 1, TRUE)
           ELSE IF Matches(doc, direct) # {} THEN direct
           ELSE Step(~from_tbody /\ tag # "tr")

\* find_generalized_css_selector, handle_tables: browsers put a tbody into
\* tables, so any element may be between a table and what is in it.
Generalized(steps) ==
  LET tables == {i \in 1..Len(steps) - 1 : steps[i].tag = "table"}
      Widened(some) == FlattenSeq([i \in DOMAIN steps |-> IF i \in some THEN <<steps[i], Star>>
                                                          ELSE <<steps[i]>>])
  IN  {Widened(some) : some \in SUBSET tables}

\* The elements that the selector made for an element finds.
Elements(doc, e) ==
  UNION {Matches(doc, steps) : steps \in Generalized(Find(doc, e, 0, FALSE))}

-----------------------------------------------------------------------------
\* port_standard: one annotation of each attribute; those without an element,
\* and the containers, which have no data, are dropped.
Standard(doc, annotations) ==
  LET Ported(a) ==
        [i \in DOMAIN a.data |->
           [id |-> <<a.id, a.data[i][1]>>, of |-> a.tag, kind |-> a.kind, after |-> a.after,
            elems |-> Elements(doc, a.tag), container |-> NoContainer, holds |-> FALSE,
            auto |-> FALSE, field |-> a.data[i][2]]]
  IN  FlattenSeq([i \in DOMAIN annotations |->
                    IF annotations[i].tag = 0 THEN <<>> ELSE Ported(annotations[i])])

\* port_generated: text after an element is found in its parent.
PortGenerated(doc, a) ==
  IF a.after THEN [a EXCEPT !.elems = Elements(doc, doc.parent[a.of])] ELSE a

Container(elems) == [id |-> <<0>>, of |-> 0, kind |-> "container", after |-> FALSE,
                     elems |-> elems, container |-> NoContainer, holds |-> TRUE, auto |-> FALSE,
                     field |-> None]

\* Mutant: the common parent of all, which may be one of them.
AroundAllOrOne(doc, elems) == CommonParent(doc.parent, elems)

\* The parent of the common parent.
AroundAll(doc, elems) ==
  LET common == CommonParent(doc.parent, elems)
  IN  IF doc.parent[common] = 0 THEN common ELSE doc.parent[common]

\* Variants are put at the end as they are (port_variants).
PortSample(doc, annotations) ==
  LET ported == Standard(doc, annotations)
      Of(kind) == SelectSeq(ported, LAMBDA a : a.kind = kind)
      generated == [i \in DOMAIN Of("generated") |-> PortGenerated(doc, Of("generated")[i])]
      all == Of("standard") \o generated \o Of("variant")
      around == AroundAll(doc, {a.of : a \in Range(ported)})
  IN  IF ported = <<>> THEN <<Container({2})>>
      ELSE <<Container(Elements(doc, around))>>
           \o [i \in DOMAIN all |-> [all[i] EXCEPT !.container = <<0>>]]
=============================================================================
