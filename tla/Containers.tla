----------------------------- MODULE Containers -----------------------------
(***************************************************************************)
(* How the extracts of a sample become extractors that are nested like its *)
(* items (container_extractors.py).  The extracts come in the order of the *)
(* document, which is the one Sample.add_fields writes them in: what holds *)
(* an extract comes before it.  Items in items have a name, which their    *)
(* extracts carry as a field; items on the page itself have none.          *)
(*                                                                         *)
(* An extractor is [of, at, schemas, reads, nested]: the container it is   *)
(* for, the extract whose tags bound what it extracts from, the items one  *)
(* of whose schemas it uses (the order of a dictionary decides), the       *)
(* annotations it reads, and the extractors inside it.                     *)
(***************************************************************************)
EXTENDS SampleFormat

\* _get_container_data
InContainer(extracts, c) == SelectSeq(extracts, LAMBDA e : e.container = c)
Containers(extracts, c) == SelectSeq(InContainer(extracts, c), IsContainer)

\* The field of an item that is in another item.
HasField(extracts, c) ==
  \E e \in Range(extracts) : /\ e.id[1] = c[1] /\ e.container # None
                             /\ e.container[1] # c[1]

\* Mutant: a container with others in it has no annotations of its own.
RecordOfLeaf(extracts, c) ==
  IF Containers(extracts, c) # <<>> THEN <<>> ELSE InContainer(extracts, c)

\* The annotations a container holds directly.
Record(extracts, c) ==
  SelectSeq(InContainer(extracts, c), LAMBDA e : ~IsContainer(e))

Ids(extracts) == {e.id : e \in Range(extracts)}

\* _find_siblings looks into the outermost container.
Child(extracts, top) == Head(InContainer(extracts, top)).id

\* _build_extractors leaves the annotation of a container inside in place of
\* that of a repeated one.
RepeatedSchemas(extracts, c, top) ==
  IF Containers(extracts, c) = <<>> THEN {Child(extracts, top)[1]}
  ELSE {id[1] : id \in Ids(Containers(extracts, c))}

RECURSIVE Extractor(_, _, _)
Extractor(extracts, c, top) ==
  LET repeated == (CHOOSE e \in Range(extracts) : e.id = c).repeated
      reads == Ids(Record(extracts, c))
      nested == {Extractor(extracts, id, top) : id \in Ids(Containers(extracts, c))}
  IN CASE ~repeated ->                              \* ContainerExtractor
            [of |-> c, at |-> c, schemas |-> {c[1]}, reads |-> reads,
             nested |-> nested]
       [] repeated /\ HasField(extracts, c) ->      \* RepeatedFieldsExtractor
            [of |-> c, at |-> c, schemas |-> {c[1]}, reads |-> {c}, nested |-> {}]
       [] OTHER ->                                  \* RepeatedContainerExtractor
            [of |-> c, at |-> Child(extracts, top), reads |-> reads,
             schemas |-> RepeatedSchemas(extracts, c, top), nested |-> nested]

\* _build_containerized_extractors: outermost containers that hold something.
Extractors(extracts) ==
  {Extractor(extracts, e.id, e.id) :
     e \in {x \in Range(Containers(extracts, None)) :
              InContainer(extracts, x.id) # <<>>}}

RECURSIVE AllExtractors(_)
AllExtractors(extractors) ==
  extractors \cup UNION {AllExtractors(x.nested) : x \in extractors}

Readers(extracts, id) ==
  {x \in AllExtractors(Extractors(extracts)) : id \in x.reads}
=============================================================================
