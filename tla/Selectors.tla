----------------------------- MODULE Selectors -----------------------------
(***************************************************************************)
(* What annotations with a css or xpath selector add to the items of a     *)
(* page (ItemProcessor in scrapely_annotations/processors.py), after the   *)
(* items were found by their annotated regions.                            *)
(*                                                                         *)
(* A page is the parent of each of its elements, 0 for the first; elements *)
(* are numbered in document order.  An item is [regions, containers,       *)
(* repeated]: the elements it was found in and those that hold it.  What   *)
(* an annotation matches is a set of elements.  An element is known as a   *)
(* region by a tag, which it loses when it is picked.                      *)
(***************************************************************************)
EXTENDS Naturals, SequencesExt, FiniteSetsExt, Functions

Ancestors(page) ==
  LET up[e \in 0..Len(page)] == IF e = 0 \/ page[e] = 0 THEN <<>>
                                ELSE <<page[e]>> \o up[page[e]]
  IN  [e \in DOMAIN page |-> up[e]]

Times(x, n) == [i \in 1..n |-> x]

\* Mutant: what is inside the container but not the item is as good as what is
\* outside both.
InAnyItem(above, parents, containers) == FALSE

\* A container is met before any region of the item.
InOtherItem(above, parents, containers) ==
  \E i \in DOMAIN above : /\ above[i] \in containers
                          /\ \A j \in 1..i : above[j] \notin parents

\* Those in the item, once for each of its regions that they are in; if there
\* are none, those that are in no other item; or else, for an item that is not
\* repeated, all of them.
PickElems(page, matched, parents, containers, repeated) ==
  LET above == Ancestors(page)
      elements == SetToSortSeq(matched, <)
      closest == FlattenSeq([i \in DOMAIN elements |->
                   LET a == above[elements[i]] IN
                   IF InOtherItem(a, parents, containers) THEN <<>>
                   ELSE Times(elements[i], Cardinality(Range(a) \cap parents))])
      others == SelectSeq(elements, LAMBDA e : ~InOtherItem(above[e], parents, containers))
  IN  IF closest # <<>> THEN closest
      ELSE IF (repeated /\ containers # {}) \/ others # <<>> THEN others
      ELSE elements

\* Each item takes what it picks and unmarks it before the next one looks.
ProcessItem(page, matched, state, item) ==
  LET picked == PickElems(page, matched, item.regions \cap state.tagged,
                          item.containers \cap state.tagged, item.repeated)
  IN  [tagged |-> state.tagged \ Range(picked), values |-> Append(state.values, picked)]

ProcessCssAndXpath(page, matched, items) ==
  FoldLeft(LAMBDA state, item : ProcessItem(page, matched, state, item),
           [tagged |-> DOMAIN page, values |-> <<>>], items).values
=============================================================================
