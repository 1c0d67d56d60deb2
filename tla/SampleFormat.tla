---------------------------- MODULE SampleFormat ----------------------------
(***************************************************************************)
(* The file of a sample: the tree of its items and annotations is written  *)
(* as a flat list of extracts that name their containers, a repeated item  *)
(* as two of them (Sample.add_fields), and read back as a tree             *)
(* (Sample.get_items), in portia_orm/models.py.                            *)
(*                                                                         *)
(* A tree is [roots, children, repeated]: the items of the sample in       *)
(* order, what each item holds in order, the items with a repeated         *)
(* selector.  A selector is <<node, which>>.                               *)
(***************************************************************************)
EXTENDS Naturals, Sequences, SequencesExt

CONSTANTS Item, None

Parent(i) == <<i, "#parent">>
Name(i) == <<i, "">>

Extract(id, container, repeated, selector) ==
  [id |-> id, container |-> container, repeated |-> repeated, selector |-> selector]

\* What one node is written as.
Extracts(tree, i, container) ==
  IF i \in tree.repeated
  THEN <<Extract(Parent(i), container, FALSE, <<i, "selector">>),
         Extract(Name(i), Parent(i), TRUE, <<i, "repeated">>)>>
  ELSE <<Extract(Name(i), container, FALSE, <<i, "selector">>)>>

Children(tree, i) == IF i \in Item THEN tree.children[i] ELSE <<>>

\* Mutant: the children are put in front of the queue one by one.
QueueReversed(children, container, queue) ==
  [k \in DOMAIN children |-> <<Reverse(children)[k], container>>] \o queue

\* extendleft(reversed(children))
Queue(children, container, queue) ==
  [k \in DOMAIN children |-> <<children[k], container>>] \o queue

RECURSIVE Output(_, _)
Output(tree, queue) ==
  IF queue = <<>> THEN <<>>
  ELSE LET i == Head(queue)[1] IN
       Extracts(tree, i, Head(queue)[2])
         \o Output(tree, Queue(Children(tree, i), Name(i), Tail(queue)))

AddFields(tree) == Output(tree, Queue(tree.roots, None, <<>>))

-----------------------------------------------------------------------------
IsContainer(e) == e.id[1] \in Item

Without(children, e) == SelectSeq(children, LAMBDA id : id # e.container)

\* One turn of the second loop; read maps a container to what is known of it.
GetItem(read, e) ==
  LET merged == IsContainer(e) /\ e.repeated
      container == IF merged THEN read[e.container].container ELSE e.container
      known == IF ~merged THEN read
               ELSE [id \in DOMAIN read \ {e.container} |->
                       IF id = e.id
                       THEN [read[id] EXCEPT
                               !.container = container,
                               !.repeated_selector = e.selector,
                               !.selector = read[e.container].selector]
                       ELSE IF id = container
                       THEN [read[id] EXCEPT !.children = Without(@, e)]
                       ELSE read[id]]
  IN  IF container = None THEN known
      ELSE [known EXCEPT ![container].children = Append(@, e.id)]

GetItems(extracts) ==
  LET containers == SelectSeq(extracts, IsContainer)
      read == FoldLeft(GetItem,
        [id \in {e.id : e \in Range(containers)} |->
           LET e == CHOOSE x \in Range(containers) : x.id = id
           IN  [container |-> e.container, selector |-> e.selector,
                repeated_selector |-> None, children |-> <<>>]],
        extracts)
      ids == SelectSeq([k \in DOMAIN containers |-> containers[k].id],
               LAMBDA id : id \in DOMAIN read /\ read[id].container = None)
  IN  [items |-> read, roots |-> ids]

\* The items as they were before they were written.
Items(tree) ==
  LET nodes == {i \in Item : \/ i \in Range(tree.roots)
                             \/ \E p \in Item : i \in Range(tree.children[p])}
      parent(i) == IF i \in Range(tree.roots) THEN None
                   ELSE Name(CHOOSE p \in Item : i \in Range(tree.children[p]))
      named(s) == [k \in DOMAIN s |-> Name(s[k])]
  IN  [items |-> [id \in {Name(i) : i \in nodes} |->
         [container |-> parent(id[1]), selector |-> <<id[1], "selector">>,
          repeated_selector |-> IF id[1] \in tree.repeated
                                THEN <<id[1], "repeated">> ELSE None,
          children |-> named(tree.children[id[1]])]],
       roots |-> named(tree.roots)]
=============================================================================
