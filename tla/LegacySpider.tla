---------------------------- MODULE LegacySpider ----------------------------
(***************************************************************************)
(* A spider of an old project is brought to the new layout when somebody   *)
(* looks at it: its templates are written to files of their own            *)
(* (Spider.dump_templates), and the page and the annotations of a sample   *)
(* are taken out of its file (Sample.chain_load), in portia_orm/models.py. *)
(* Each write goes to disk at once; the server may stop between two.       *)
(*                                                                         *)
(* A sample is [version, notes, page, schema, edits]: version "old" is     *)
(* before 0.13.0, "beta" a 0.13.0 that is not final; notes tells where its *)
(* annotations are ("body" of the page, "items", "none"), page whether the *)
(* page is in the file; edits counts what users changed.  Old samples with *)
(* annotations outside the page are left out: theirs are dropped.          *)
(***************************************************************************)
EXTENDS Naturals, Sequences, SequencesExt

CONSTANTS Sample,    \* names of samples
          Schema,    \* those the old project may name
          None,
          MaxEdits   \* bound on the edits of a sample

VARIABLES templates,  \* in the file of the spider: its templates, by name
          file,       \* the files of the samples, None where there is none
          pages,      \* samples whose page is a file of its own
          items,      \* schemas in items.json
          opened,     \* whether a request has read the spider
          read,       \* the samples as the request has read them
          writes,     \* what it has still to write
          given,      \* history: the templates of the old spider
          saved       \* history: somebody saved the spider
vars == <<templates, file, pages, items, opened, read, writes, given, saved>>

SampleOf(version, notes, page, schema, edits) ==
  [version |-> version, notes |-> notes, page |-> page, schema |-> schema, edits |-> edits]

Sample0 == SampleOf("new", "items", FALSE, None, 0)

Samples == [version : {"old", "beta", "new"}, notes : {"body", "items", "none"},
            page : BOOLEAN, schema : Schema \cup {"default", None}, edits : Nat]

\* A sample as an old project has it.
Old(notes, schema) == SampleOf("old", notes, TRUE, schema, 0)
Beta == SampleOf("beta", "items", TRUE, None, 0)

Init ==
  /\ items \in SUBSET (Schema \cup {"default"})
  /\ \E some \in SUBSET Sample :
       given \in [some -> {Old(n, s) : n \in {"body", "none"}, s \in Schema} \cup {Beta}]
  /\ templates = given
  /\ file = [s \in Sample |-> None] /\ read = file
  /\ pages = {} /\ opened = FALSE /\ writes = <<>> /\ saved = FALSE

-----------------------------------------------------------------------------
WriteSample(s, sample) == [what |-> "sample", of |-> s, to |-> sample]
WritePage(s) == [what |-> "page", of |-> s, to |-> None]
WriteSpider(left, saves) == [what |-> "spider", of |-> saves, to |-> left]

\* Mutant: the templates leave the spider before they are in their files.
DumpAndDrop(names) ==
  IF names = <<>> THEN <<>>
  ELSE <<WriteSpider(<<>>, FALSE)>>
         \o [i \in DOMAIN names |-> WriteSample(names[i], templates[names[i]])]

\* dump_templates: a file for each template, in whatever order the spider has
\* them, and each time it is opened, for it keeps its templates; one without any has the samples in its directory.
DumpTemplates(names) ==
  IF names = <<>> THEN <<>>
  ELSE [i \in DOMAIN names |-> WriteSample(names[i], templates[names[i]])]
         \o <<WriteSpider(templates, FALSE)>>

OpenSpider == /\ ~opened
              /\ opened' = TRUE
              /\ \E names \in SetToSeqs(DOMAIN templates) : writes' = DumpTemplates(names)
              /\ UNCHANGED <<templates, file, pages, items, read, given, saved>>

-----------------------------------------------------------------------------
\* Mutant: the sample has the schema it names, wherever it is.
GuessNamed(sample) ==
  IF items = {} THEN {"default"} ELSE {sample.schema}

\* guess_schema: the schema the sample names if there is one, else the default,
\* else one with the most fields.
GuessSchema(sample) ==
  IF items = {} THEN {"default"}
  ELSE IF sample.schema \in items THEN {sample.schema}
  ELSE IF "default" \in items THEN {"default"} ELSE items

\* port_sample: a sample that has no annotations gets the container all the
\* same, and stays as old as it is.
PortSample(sample, schema) ==
  SampleOf(IF sample.notes = "body" THEN "new" ELSE sample.version, "items", FALSE, schema,
           sample.edits)

\* Mutant: a beta has no page in its file.
MigratedUnlessBeta(sample) == sample.version = "old"

\* migrate_sample: which samples may have their page in their file.
HasPageInside(sample) == sample.version # "new"

\* What a sample is read as; one that has items already is not ported, but they
\* were taken out of it to look.
ReadAs(sample, schema) ==
  CASE sample.version # "old"                              -> sample
    [] sample.version = "old" /\ sample.notes = "items" -> [sample EXCEPT !.notes = "none"]
    [] sample.version = "old" /\ sample.notes # "items" -> PortSample(sample, schema)

\* The page is written if it is not there yet, then the sample.  Schemas that
\* port_sample makes are known to the request only.
MigrateSample(s, sample) ==
  (IF HasPageInside(file[s]) /\ file[s].page /\ s \notin pages THEN <<WritePage(s)>> ELSE <<>>)
  \o (IF file[s].version = "old" /\ file[s].notes # "items" THEN <<WriteSample(s, sample)>>
      ELSE <<>>)

OpenSample(s) == /\ opened /\ read[s] = None /\ writes = <<>>
                 /\ file[s] # None
                 /\ \E schema \in GuessSchema(file[s]) :
                      LET sample == ReadAs(file[s], schema) IN
                      /\ read' = [read EXCEPT ![s] = sample]
                      /\ writes' = MigrateSample(s, sample)
                 /\ UNCHANGED <<templates, file, pages, items, opened, given, saved>>

\* A sample is saved as it was read, with the change: without its page.
Edited(sample) == SampleOf("new", sample.notes, FALSE, sample.schema, sample.edits + 1)

EditSample(s) == /\ read[s] # None /\ writes = <<>>
                 /\ read[s].edits < MaxEdits
                 /\ read' = [read EXCEPT ![s] = Edited(@)]
                 /\ writes' = <<WriteSample(s, read'[s])>>
                 /\ UNCHANGED <<templates, file, pages, items, opened, given, saved>>

AddSample(s) == /\ opened /\ writes = <<>>
                /\ file[s] = None
                /\ read' = [read EXCEPT ![s] = Sample0]
                /\ writes' = <<WriteSample(s, Sample0), WritePage(s)>>
                /\ UNCHANGED <<templates, file, pages, items, opened, given, saved>>

\* Mutant: what is no field of a spider stays in its file.
AllOfIt == templates

\* What is no field of a spider is not saved.
FieldsOfSpider == <<>>

SaveSpider == /\ opened /\ writes = <<>>
              /\ writes' = <<WriteSpider(FieldsOfSpider, TRUE)>>
              /\ UNCHANGED <<templates, file, pages, items, opened, read, given, saved>>

\* FsStorage._save
Write ==
  /\ writes # <<>>
  /\ LET w == Head(writes) IN
     /\ templates' = IF w.what = "spider" THEN w.to ELSE templates
     /\ saved' = (saved \/ (w.what = "spider" /\ w.of))
     /\ file' = IF w.what = "sample" THEN [file EXCEPT ![w.of] = w.to] ELSE file
     /\ pages' = IF w.what = "page" THEN pages \cup {w.of} ELSE pages
  /\ writes' = Tail(writes)
  /\ UNCHANGED <<items, opened, read, given>>

\* The request is over, or the server stops.
End == /\ opened
       /\ opened' = FALSE /\ writes' = <<>>
       /\ read' = [s \in Sample |-> None]
       /\ UNCHANGED <<templates, file, pages, items, given, saved>>

Next == \/ OpenSpider \/ SaveSpider \/ Write \/ End
        \/ \E s \in Sample : OpenSample(s) \/ EditSample(s) \/ AddSample(s)

Spec == Init /\ [][Next]_vars

-----------------------------------------------------------------------------
HasAnnotations(sample) ==
  sample.notes = "body" \/ (sample.notes = "items" /\ sample.version # "old")

\* What the spider and the file of the sample have of it.
Kept(s) == {templates[t] : t \in {s} \cap DOMAIN templates} \cup ({file[s]} \ {None})

\* The annotations of an old sample are in the spider or in the file of the
\* sample, whenever the server stops and however often samples are opened.
AnnotationsAreKept ==
  \A s \in DOMAIN given : HasAnnotations(given[s]) => \E x \in Kept(s) : HasAnnotations(x)

\* So is its page, or it has a file of its own.
PagesAreKept ==
  \A s \in DOMAIN given : s \in pages \/ \E x \in Kept(s) : x.page

\* The schema of a sample that was brought to the new layout is a schema of the
\* project, if it has any.
MigratedSamplesHaveASchema ==
  \A s \in DOMAIN given : (file[s] # None /\ items # {}) =>
    (given[s].version = "old" /\ file[s].version = "new" => file[s].schema \in items)

\* Once the spider was saved, nothing but another edit changes what users made
\* of its samples; until then, they are what they were each time it is opened.
EditsSurvive ==
  [][saved => \A s \in Sample : file[s] # None =>
       file'[s].edits >= file[s].edits]_vars
=============================================================================
