------------------------------ MODULE Storage ------------------------------
(***************************************************************************)
(* What is kept on disk and in the models of a request: the files of       *)
(* spiders (SpiderFiles), the working tree and the versions of a project   *)
(* under git (WorkingTree), the collection of models (Collection), copies  *)
(* between projects (Copier), unsaved models (Orm) and spiders of older    *)
(* versions (LegacySpider).  The components share no state here: a         *)
(* behaviour is about one of them, part, and the variables of the others   *)
(* keep their first value.                                                 *)
(***************************************************************************)
EXTENDS Naturals, Sequences, FiniteSets

CONSTANTS Parts,                                \* those to be looked at
          Spider, SampleId, FileData, Cut,      \* SpiderFiles
          Member, Slices,                       \* Collection
          Base, MaxNumber, Schema,              \* Copier
          Project, Field, Value, New, None,     \* Orm; Schema
          OldSample, OldSchema, MaxEdits,       \* LegacySpider; None
          TreeId, TreeData, Closed,             \* WorkingTree; Spider, None
          Template, MaxTreeEdits

VARIABLES part,
          \* SpiderFiles
          disk, fileTodo, before, request, fileFailed,
          \* Collection
          list, cache,
          \* Copier
          from, to, asked, copyTodo, into, ids, copied, made,
          \* Orm
          snap, live, itemsFile, failed,
          \* LegacySpider
          templates, file, pages, items, opened, read, writes, given, saved,
          \* WorkingTree
          store, refs, req, treeTodo, start, edits

Files == INSTANCE SpiderFiles
  WITH todo <- fileTodo, failed <- fileFailed, Name <- Spider, Id <- SampleId,
       Content <- FileData
Models == INSTANCE Collection WITH Model <- Member
Copies == INSTANCE Copier WITH todo <- copyTodo
Unsaved == INSTANCE Orm WITH file <- itemsFile
Legacy == INSTANCE LegacySpider WITH Sample <- OldSample, Schema <- OldSchema
Git == INSTANCE WorkingTree
  WITH todo <- treeTodo, MaxEdits <- MaxTreeEdits, Name <- Spider, Id <- TreeId,
       Content <- TreeData

\* There are finitely many samples; schemas, fields, the project and no model are
\* different things, and so are no list and any list of models; files have
\* contents, and a storage that is closed is none.
ASSUME SampleIdAssumption == IsFiniteSet(SampleId)
ASSUME ModelAssumption ==
  /\ Schema \cap Field = {} /\ {Project, None} \cap (Schema \cup Field) = {}
  /\ None # Project /\ \A S \in SUBSET (Schema \cup Field) : S # None
ASSUME ContentAssumption == None \notin TreeData \cup {Template}
ASSUME SampleAssumption == None \notin Legacy!Samples /\ IsFiniteSet(OldSample)
ASSUME NumberAssumption == MaxNumber \in Nat
ASSUME ClosedAssumption == Closed \notin Git!Trees \cup Git!Storages

filesVars == <<disk, fileTodo, before, request, fileFailed>>
modelsVars == <<list, cache>>
copiesVars == <<from, to, asked, copyTodo, into, ids, copied, made>>
unsavedVars == <<snap, live, itemsFile, failed>>
legacyVars == <<templates, file, pages, items, opened, read, writes, given, saved>>
gitVars == <<store, refs, req, treeTodo, start, edits>>

vars == <<part, filesVars, modelsVars, copiesVars, unsavedVars, legacyVars, gitVars>>

Init ==
  /\ part \in Parts
  /\ Files!Init /\ Models!Init /\ Unsaved!Init /\ Git!Init
  /\ IF part = "copies" THEN Copies!Init
     ELSE /\ from = <<>> /\ to = <<>> /\ asked = <<>> /\ copyTodo = <<>> /\ into = <<>>
          /\ ids = {} /\ copied = <<>> /\ made = 0
  /\ IF part = "legacy" THEN Legacy!Init
     ELSE /\ templates = <<>> /\ file = [s \in OldSample |-> None] /\ pages = {}
          /\ items = {} /\ opened = FALSE /\ read = file /\ writes = <<>>
          /\ given = <<>> /\ saved = FALSE

Next ==
  \/ /\ part = "files" /\ Files!Next
     /\ UNCHANGED <<part, modelsVars, copiesVars, unsavedVars, legacyVars, gitVars>>
  \/ /\ part = "models" /\ Models!Next
     /\ UNCHANGED <<part, filesVars, copiesVars, unsavedVars, legacyVars, gitVars>>
  \/ /\ part = "copies" /\ Copies!Next
     /\ UNCHANGED <<part, filesVars, modelsVars, unsavedVars, legacyVars, gitVars>>
  \/ /\ part = "unsaved" /\ Unsaved!Next
     /\ UNCHANGED <<part, filesVars, modelsVars, copiesVars, legacyVars, gitVars>>
  \/ /\ part = "legacy" /\ Legacy!Next
     /\ UNCHANGED <<part, filesVars, modelsVars, copiesVars, unsavedVars, gitVars>>
  \/ /\ part = "git" /\ Git!Next
     /\ UNCHANGED <<part, filesVars, modelsVars, copiesVars, unsavedVars, legacyVars>>

Spec == Init /\ [][Next]_vars

-----------------------------------------------------------------------------
\* Requests about spiders and samples take effect as a whole when their last
\* file is written, until one fails half-way; whatever fails, no spider is
\* harmed but those the request is about (SpiderFiles).
RequestsActAtOnce == Files!ActsAtOnce /\ Files!OthersUntouched

\* Every model of a collection is found under its key where it is in the list,
\* however the list was changed and the dictionary lags behind (Collection).
IndexedByKey == Models!IndexedByKey

\* Samples that shared a schema in the project they are copied from share its
\* copy, and others do not (Copier).
CopiesShareSchemas == part = "copies" => Copies!CopiesShareSchemas

\* No spider that the project had is touched when others are copied to it
\* (Copier).
OwnSpidersKept == Copies!OwnSpidersKept

\* Models with unsaved changes in three snapshots behave as a store of values:
\* a save writes what was set and nothing else, or fails and changes nothing
\* (Orm implements Store).
ActsAsStore == Unsaved!ActsAsStore

\* The annotations and the page of an old sample are somewhere in the spider's
\* files whenever the server stops, and a sample that was brought to the new
\* layout has a schema of its project (LegacySpider).
OldSpidersAreKept ==
  /\ Legacy!AnnotationsAreKept
  /\ Legacy!PagesAreKept
  /\ Legacy!MigratedSamplesHaveASchema

\* Once an old spider was saved, opening it again undoes no edit of its samples
\* (LegacySpider).
EditsSurvive == Legacy!EditsSurvive

\* Every version of a project can be read, whenever the server stops: a commit
\* is there, with its tree and all of its files, before a branch shows it, and
\* a request that fails leaves the versions as they were (WorkingTree
\* implements Versions).
ActsAsVersions == Git!ActsAsVersions
=============================================================================
