--------------------------- MODULE AnnotatedPage ---------------------------
(***************************************************************************)
(* How the annotations of a sample are written into its page (Annotations  *)
(* in scrapely_annotations/builder.py), which is what the extraction is    *)
(* trained with.                                                           *)
(*                                                                         *)
(* Elements are numbered in the order of their start tags, as add_tagids   *)
(* does; parent[e] is 0 for the root.  A page is a sequence of tokens      *)
(*   [kind: open, close, text or ins, of: element or note, words, notes]   *)
(* An annotation says which elements its selector finds; it is for a       *)
(* container (holds) or for a field of one, and a repeated field that was  *)
(* selected automatically gets a container of its own (auto).              *)
(*   annotation: [id, elems, container, holds, auto]                       *)
(* A note is an annotation with the element whose tag it is written to.    *)
(* Generated notes, of old samples, are for words in the text of their     *)
(* element or after it.                                                    *)
(*   note: [id, tag, container, holds, generated, after, slice]            *)
(***************************************************************************)
EXTENDS Integers, SequencesExt

NoContainer == <<>>

-----------------------------------------------------------------------------
(* The tree of elements                                                    *)

RECURSIVE Ancestors(_, _)
Ancestors(parent, e) ==
  IF parent[e] = 0 THEN {} ELSE {parent[e]} \cup Ancestors(parent, parent[e])

Around(parent, e) == {e} \cup Ancestors(parent, e)

\* find_common_parent, of any number of elements
CommonParent(parent, elems) ==
  CHOOSE a \in DOMAIN parent :
    LET shared == {x \in DOMAIN parent : \A e \in elems : x \in Around(parent, e)}
    IN  a \in shared /\ \A x \in shared : x <= a

\* _get_parent
ParentOf(parent, elems) ==
  IF Cardinality(elems) = 1 THEN parent[Min(elems)] ELSE CommonParent(parent, elems)

-----------------------------------------------------------------------------
(* The element of every annotation                                         *)

Found(annotations) == SelectSeq(annotations, LAMBDA a : a.elems # {})

Note(a, tag) == [id |-> a.id, tag |-> tag, container |-> a.container, holds |-> a.holds,
                 generated |-> FALSE, after |-> FALSE, slice |-> <<0, 0>>]

\* add_repeated_field
IsRepeatedField(a) == a.auto /\ ~a.holds
FieldContainer(parent, a) ==
  Note([a EXCEPT !.id = Append(@, "#parent"), !.holds = TRUE], ParentOf(parent, a.elems))
FieldNote(a) ==
  Note([a EXCEPT !.holds = TRUE, !.container = Append(a.id, "#parent")], Min(a.elems))

\* Only the last repeated field of a container counts.
LastRepeated(annotations, c) ==
  LET fields == SelectSeq(Found(annotations),
                          LAMBDA a : IsRepeatedField(a) /\ a.container = c.id)
  IN  IF fields = <<>> THEN {} ELSE {Last(fields)}

\* Mutant: a container keeps its element when a field repeats there.
TagWithoutMove(parent, annotations, a) == Min(a.elems)

\* A container on the element where its field repeats moves up.
Tag(parent, annotations, a) ==
  LET tag == Min(a.elems)
  IN  IF a.holds /\ \E f \in LastRepeated(annotations, a) :
                      FieldContainer(parent, f).tag = tag
      THEN parent[tag] ELSE tag

\* apply_selector
Applied(parent, annotations) ==
  UNION {IF IsRepeatedField(a) THEN {FieldNote(a), FieldContainer(parent, a)}
         ELSE {Note(a, Tag(parent, annotations, a))} : a \in Range(Found(annotations))}

\* Mutant: a container that is not found is left out.
VerifiedNot(parent, annotations) == Applied(parent, annotations)

\* verify: a container that is not found is put around what it holds.
Verified(parent, annotations) ==
  LET applied == Applied(parent, annotations)
      Held(c) == {n \in applied : ~n.holds /\ n.container = c.id}
      Elems(c) == UNION {a.elems : a \in {x \in Range(annotations) :
                                            \E n \in Held(c) : n.id = x.id}}
      missing == {c \in Range(annotations) : c.holds /\ Held(c) # {}
                                             /\ \A n \in applied : n.id # c.id}
  IN  applied \cup {Note(c, ParentOf(parent, Elems(c))) : c \in missing}

\* The numbers of the elements that verify chooses are strings: they cannot be
\* sorted together with an equal number of another annotation.
CanBeSorted(parent, annotations) ==
  LET applied == Applied(parent, annotations)
  IN  \A n \in Verified(parent, annotations) \ applied : \A m \in applied : m.tag # n.tag

-----------------------------------------------------------------------------
(* Generated notes                                                         *)

Text(words) == [kind |-> "text", of |-> 0, words |-> words, notes |-> {}]
Generated(n, words) == [kind |-> "ins", of |-> 0, words |-> words, notes |-> {n.id}]

Places(selected, words) ==
  {i \in 1..Len(words) : /\ selected # <<>> /\ i + Len(selected) - 1 <= Len(words)
                         /\ SubSeq(words, i, i + Len(selected) - 1) = selected}
PartOf(some, words) == some = <<>> \/ Places(some, words) # {}

Close(page, e) == CHOOSE i \in DOMAIN page : page[i].kind = "close" /\ page[i].of = e

\* _get_inner_nodes: the tokens of an element, or those after it up to the
\* next tag.
Nodes(page, e, after) ==
  LET open == CHOOSE i \in DOMAIN page : page[i].kind = "open" /\ page[i].of = e
      close == Close(page, e)
      tags == {i \in close + 1..Len(page) : page[i].kind \in {"open", "close"}}
  IN  IF after THEN SubSeq(page, close + 1, Min(tags) - 1) ELSE SubSeq(page, open + 1, close)

Depth(nodes, i) ==
  Cardinality({j \in 1..i : nodes[j].kind = "open"})
  - Cardinality({j \in 1..i : nodes[j].kind = "close"})

\* Mutant: the text of the children is counted as well.
TextContentOfAll(nodes) == FlattenSeq([i \in DOMAIN nodes |-> nodes[i].words])

\* _get_text_nodes
TextContent(nodes) ==
  FlattenSeq([i \in DOMAIN nodes |-> IF nodes[i].kind = "text" /\ Depth(nodes, i) = 0
                                     THEN nodes[i].words ELSE <<>>])

Slice(words, s) ==
  LET start == Min({s[1], Len(words)}) end == Min({s[2], Len(words)})
  IN  [before |-> SubSeq(words, 1, start), selected |-> SubSeq(words, start + 1, end)]

\* One text node: the notes that are in it are cut out of it, in their order.
RECURSIVE CutOut(_, _, _)
CutOut(words, pending, content) ==
  IF pending = <<>> THEN [tokens |-> <<>>, rest |-> words, pending |-> <<>>]
  ELSE LET n == Head(pending)
           slice == Slice(content, n.slice)
           places == Places(slice.selected, words)
           previous == SubSeq(words, 1, Min(places) - 1)
           post == SubSeq(words, Min(places) + Len(slice.selected), Len(words))
           cut == CutOut(post, Tail(pending), content)
           left == CutOut(words, Tail(pending), content)
       IN  IF places # {} /\ PartOf(previous, slice.before)
           THEN [cut EXCEPT !.tokens = <<Text(previous), Generated(n, slice.selected)>> \o @]
           ELSE [left EXCEPT !.pending = <<n>> \o @]

\* _get_generated: what comes instead of the next text, and what is inserted
\* after which element.
RECURSIVE GetGenerated(_, _, _, _)
GetGenerated(nodes, content, g, i) ==
  IF i > Len(nodes) THEN g
  ELSE LET node == nodes[i]
           cut == CutOut(node.words, g.pending, content)
           tokens == Append(cut.tokens, Text(cut.rest))
           next == g.where = g.of /\ ~g.after /\ cut.tokens # <<>>
           found == IF next THEN [g EXCEPT !.next = @ \o tokens]
                    ELSE [g EXCEPT !.inserts[g.where] = @ \o tokens]
       IN  CASE node.kind = "close" /\ (Depth(nodes, i) >= 0) ->
                  GetGenerated(nodes, content, [g EXCEPT !.where = node.of], i + 1)
             [] node.kind = "text" /\ Depth(nodes, i) = 0 ->
                  GetGenerated(nodes, content, [found EXCEPT !.pending = cut.pending], i + 1)
             [] OTHER -> GetGenerated(nodes, content, g, i + 1)

BySlice(notes) == SetToSortSeq(notes, LAMBDA n, m : n.slice[1] + n.slice[2] < m.slice[1] + m.slice[2])

\* The notes on the text of an element, or on that after it.
GeneratedIn(page, e, notes, after, g) ==
  LET nodes == Nodes(page, e, after)
      pending == {n \in notes : n.generated /\ n.after = after}
  IN  IF pending = {} THEN g
      ELSE GetGenerated(nodes, TextContent(nodes),
                        [of |-> e, where |-> e, after |-> after, next |-> <<>>,
                         inserts |-> g.inserts, pending |-> BySlice(pending)], 1)

-----------------------------------------------------------------------------
(* Writing the notes (apply): the tokens are read once, up to the tag of   *)
(* every note and on to the end.                                           *)
(*   s: [at, out, stack, last, written, inserts, todo]                     *)

IsTag(t) == t.kind \in {"open", "close"}
NextTag(page, i) == Min({j \in i + 1..Len(page) : IsTag(page[j])} \cup {Len(page) + 1})

\* Mutant: a tag that has been written is written again when it is passed.
WriteAgain(page, s) == [s EXCEPT !.out = Append(@, page[s.at]), !.written = @ \cup {s.at}]

\* Unless it is __added already.
Write(page, s) ==
  IF s.at \in s.written THEN s
  ELSE [s EXCEPT !.out = Append(@, page[s.at]), !.written = @ \cup {s.at}]

\* The notes of a tag, and what they are for: its start tag is still read
\* when the next note is looked for.
WriteNotes(page, notes, s) ==
  LET e == Head(s.todo)
      here == {n \in notes : n.tag = e}
      regular == {n.id : n \in {m \in here : ~m.generated}}
      inside == GeneratedIn(page, e, here, FALSE, [next |-> <<>>, inserts |-> s.inserts])
      generated == GeneratedIn(page, e, here, TRUE, inside)
      tag == [page[s.at] EXCEPT !.notes = regular]
      written == [s EXCEPT !.out = IF s.at \in s.written THEN @ ELSE Append(@, tag),
                           !.written = @ \cup {s.at}, !.inserts = generated.inserts, !.todo = Tail(@)]
  IN  IF generated.next = <<>> THEN written
      ELSE [written EXCEPT !.out = @ \o generated.next, !.at = @ + 1]

\* The number of the tag to reach; after the last one, none is.
Ahead(page, s) == IF s.todo = <<>> THEN Len(page) + 1 ELSE Head(s.todo)

\* An end tag takes the element read last off the stack, which an element with
\* notes is on twice, and what is to be inserted after that one comes here:
\* instead of the text that follows.
EndTag(page, s) ==
  LET passed == IF s.last < Ahead(page, s) THEN Write(page, s) ELSE s
      e == Last(s.stack)
      popped == [passed EXCEPT !.stack = Front(@)]
  IN  IF s.inserts[e] = <<>> THEN popped
      ELSE [popped EXCEPT !.out = @ \o s.inserts[e], !.inserts[e] = <<>>,
                          !.at = NextTag(page, s.at)]

\* The token read last is written once more at the end.
RECURSIVE Read(_, _, _)
Read(page, notes, s) ==
  LET t == page[s.at]
      tag == CASE t.kind = "open" -> [s EXCEPT !.last = t.of, !.stack = Append(@, t.of)]
               [] t.kind = "close" /\ s.stack # <<>> -> EndTag(page, s)
               [] OTHER -> s
  IN  IF s.at > Len(page) THEN Append(s.out, Last(page))
      ELSE CASE ~IsTag(t) -> Read(page, notes, [s EXCEPT !.out = Append(@, t), !.at = @ + 1])
             [] IsTag(t) /\ tag.at # s.at -> Read(page, notes, tag)
             [] IsTag(t) /\ tag.at = s.at /\ tag.last < Ahead(page, tag) ->
                  Read(page, notes, [Write(page, tag) EXCEPT !.at = @ + 1])
             [] OTHER -> Read(page, notes, WriteNotes(page, notes, tag))

Apply(page, notes) ==
  Read(page, notes,
       [at |-> 1, out |-> <<>>, stack |-> <<>>, last |-> 0, written |-> {},
        inserts |-> [e \in 1..Len(page) |-> <<>>],
        todo |-> SetToSortSeq({n.tag : n \in notes}, <)])
=============================================================================
