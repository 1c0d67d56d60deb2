---------------------------- MODULE MCExtraction ----------------------------
(***************************************************************************)
(* What is computed from projects and pages, on small instances: the pure  *)
(* algorithms on growing inputs (MCAlgorithms), the annotations of samples *)
(* on pages of growing size (MCPages) and the records of a list (Records). *)
(* A behaviour is about one of them; the variables of the others keep      *)
(* their first value.                                                      *)
(***************************************************************************)
EXTENDS MCAlgorithms

CONSTANT NoValue

VARIABLES \* MCPages
          use, doc, page, open, annotations,
          \* Records
          annotated, bounds, records, noise, incomplete, index, regions

Pages ==
  INSTANCE MCPages
  WITH None <- NoValue, Uses <- {"notes", "sample", "migration"},
       MaxElements <- [notes |-> 5, sample |-> 5, migration |-> 5],
       MaxAnnotations <- [notes |-> 3, sample |-> 3, migration |-> 2],
       MaxTexts <- 2, Marked <- {"m"}

\* Records: one element with one or two in it, or two elements side by side.
Around(tag, inner) == <<<<"open", tag>>>> \o inner \o <<<<"close", tag>>>>
Shapes ==
  LET empty(tag) == Around(tag, <<>>) IN
  {<<Around("li", empty("a"))>>,
   <<Around("li", empty("a") \o empty("b"))>>,
   <<Around("li", Around("a", empty("b")) \o empty("a"))>>,
   <<Around("li", empty("a")), empty("b")>>}

List == INSTANCE Records WITH Shape <- Shapes, MaxRecords <- 3, MaxRegions <- 4

pagesVars == <<use, doc, page, open, annotations>>
recordsVars == <<annotated, bounds, records, noise, incomplete, index, regions>>

NoPage == use = "none" /\ doc = <<>> /\ page = <<>> /\ open = <<>> /\ annotations = <<>>
NoList == /\ annotated = <<>> /\ bounds = <<>> /\ records = <<>> /\ noise = <<>>
          /\ incomplete = {} /\ index = 0 /\ regions = <<>>

AnyInit == \/ Init /\ NoPage /\ NoList
           \/ "page" \in Parts /\ part = "page" /\ input = <<>> /\ Pages!Init /\ NoList
           \/ "records" \in Parts /\ part = "records" /\ input = <<>> /\ NoPage /\ List!Init

AnyNext == \/ Next /\ UNCHANGED <<pagesVars, recordsVars>>
           \/ part = "page" /\ Pages!Next /\ UNCHANGED <<part, input, recordsVars>>
           \/ part = "records" /\ List!Next /\ UNCHANGED <<part, input, pagesVars>>

AnySpec == AnyInit /\ [][AnyNext]_<<part, input, pagesVars, recordsVars>>

-----------------------------------------------------------------------------
\* Merging two versions of an object is the textbook's three-way merge and does
\* not depend on who publishes first, but for a null against a removed key,
\* where the null is not forgotten; a merged version is not changed by merging
\* again.  Merging two lists of names loses none that both have, nor what one
\* of them added where they are not shifted against each other, and conflicts
\* whoever comes first (jsondiff.py).
MergesKeepBothSides ==
  /\ MergeIsThreeWay /\ MergeIsSymmetric /\ MergeIsStable /\ NullIsNotForgotten
  /\ MergedListsKeepTheCommon /\ MergedListsKeepAdditions /\ ListConflictIsSymmetric

\* A spider whose start urls were put in the new format by being loaded starts
\* at the same urls, which are in the domains it may crawl (StartUrls).
StartUrlsAreKept == NormalizedUrlsAreTheSame /\ StartUrlsAreInTheirDomains

\* The items and annotations of a sample are nested as they were in the
\* interface when it is read back and when it extracts (SampleFormat,
\* Containers).
SamplesKeepTheirNesting == SampleIsReadBack /\ AnnotationsStayInTheirItem

\* The items of a page are exported with the values and the items found in
\* them, those that selectors add to items of a list included (Items,
\* Selectors).
ItemsAreExportedWhole == PageIsExportedWhole /\ ListItemsTakeTheirOwn

\* Each link of a page is found once with its own text and rel, in a form that
\* is the same for all links to that page (Links).
LinksAreFoundOnce == AnchorsAreFound /\ LinksHaveOneForm

\* The samples of a spider are used as the editor says when it shows what they
\* extract (Templates).
SamplesExtractAsShown ==
  /\ PageUsesOneSample /\ SamplesAreBuiltOnTheirBody
  /\ DifferencesAreReported /\ OnlyCompleteSamplesExtract

\* Annotations of elements and of words are written into the page of a sample,
\* each once and where it belongs (AnnotatedPage: apply_annotations).
NotesAreInThePage == Pages!NotesAreWritten /\ Pages!GeneratedMarksItsWords

\* Every annotation that is on the page is inside its container
\* (AnnotatedPage: apply_selector_annotations).
AnnotationsAreInTheirContainers == Pages!AnnotationsAreInTheirContainers

\* Migrated annotations are found where they were, all in one container around
\* them (Migration).
MigratedSamplesAreSound ==
  Pages!MigratedAnnotationsStayPut /\ Pages!MigratedIntoOneContainer

\* Records of a list are found in their order and none of them twice; if all
\* are like the annotated one, those that are complete and nothing else
\* (Records).
RecordsAreFoundOnce ==
  part = "records" => List!RoomyRegionsInOrder /\ List!EachRecordIsFound
=============================================================================
