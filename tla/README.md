# A verification of Portia's core in TLA+

Portia is a visual scraping tool. A user opens pages in a browser that runs on
the server, marks what to extract, and gets a *spider*: a project of json files
(spiders, samples, schemas) that a crawler runs. Several users work on one
project; with the git storage each has a branch and publishes it to `master`.

This directory holds TLA+ modules that model that program, the TLC
configurations that check them on small instances, and proofs that TLAPS
checks. `PROJECT.json` lists components, runs, mutants (small bugs put into a
definition, which the named run must notice), the source lines of every
definition, hazards and theorems.

## Inventory

| Component | State | Operations | Hard about it |
|---|---|---|---|
| `portia_server/storage/jsondiff.py` | none | `merge_jsons`, `merge_lists` | agreement, removals, nulls; lists |
| `portia_server/storage/repoman.py` | commits, references | `create_branch`, `save_files`, `publish_branch`, `delete_branch`, tags | the merge base is guessed; a failed publish changes the branch; retries |
| `portia_server/storage/backends.py` | working tree of a request, or files | `checkout`, `commit`, `save`, `delete`, `move` | what was checked out may be stale when committed; crash between two writes |
| `portia_server/db_repo` | rows of objects and references | `read_loose_ref`, `_update_ref`, `add_objects` | locks in http requests, none in the websocket server |
| `portia_server/portia_api` | a request | edits of records, renames, copies, publish, deploy, reset, rollback | many reads and writes in one request; it protects only what it has loaded |
| `portia_server/portia_orm` | working, staged, committed values of models; collections; old spiders | `save`, `rollback`, `delete`, relationships, migration on load | saves of chosen fields across related models; indices that lag; writes while reading |
| `slyd/slyd/splash` (Ferry) | connections, tabs, timers, an open spider | `load`, `interact`, `save_html`, extraction | page events against commands and closes; what is kept goes stale |
| `slybot/slybot` | crawl state: login, start urls, item counts | callbacks of scrapy; building of samples; extraction | order of callbacks; nesting of items; positions in pages |
| `portiaui/app` | socket, promises, records being saved | user actions, answers | answers out of order, lost sockets, saves while saving |
| `splash_utils` | contexts and timeouts of page scripts | `waitAsync`, `perform_actions` | not modelled |

How they interact: the user interface sends json api requests to `portia_api`
and messages over a websocket to Ferry. Both open the project through a storage
(`create_project_storage`), which checks the user's branch out into a working
tree, or is a directory; models of the ORM read and write that; at the end of
an edit the storage commits it and moves the branch. `publish` merges the
branch into `master` with `repoman`, which merges json files with `jsondiff`,
deploys, and deletes the branch. References live in MySQL (`db_repo`) or in
files. A deployed project is run by `slybot`; Ferry runs the same extraction on
the page it shows.

What makes each correct: the merge loses neither side's work; no publish makes
master forget another; overlapping requests act as if one came after the other
and all end; a crash or a failure harms nothing but what the request was about;
a save writes the fields it should and no others; what the interface shows as
saved is stored; a lost connection comes back; a crawl visits what it should
once; what is extracted is what was annotated. `PROJECT.json` names, under
`hazards`, the lines where this can go wrong and the properties that show it.

## What is modelled

    repository     JsonMerge <- Repoman <- MCRepoman, RepomanProofs
    requests       Project <- Sessions <- MCSessions
                   Project, Sessions <- SessionsProofs
    storage        SpiderFiles -> Spiders, WorkingTree -> Versions, Orm -> Store,
                   Collection, Copier, LegacySpider          <- Storage
                   Storage <- SpiderFilesProofs, WorkingTreeProofs, OrmProofs,
                   StorageProofs
    json api       Resources <- MCPortia, ResourcesProofs
    between user,  Saving, WebSocket, Ferry, Crawl           <- Browsing
    server, sites  Browsing <- MCBrowsing, BrowsingProofs
    algorithms     JsonMerge, MergeLists, StartUrls, SampleFormat, Containers,
                   Items, Selectors, Links, Templates        <- MCAlgorithms
                   AnnotatedPage <- Migration                <- MCPages
                   Records; all of these                     <- MCExtraction

(`A -> B`: A implements the abstract specification B. `Sessions` implements
`Project` too.) Storage, Browsing and MCExtraction put several components that
share no state into one specification, for one run and for the proofs: a
behaviour is about one of them, `part`, and the variables of the others keep
their first value. Where components do interact
they are composed: Sessions is Project with the locks of `db_repo`; WorkingTree
holds the tree, the object store and the references; WebSocket holds both ends
of the connection; Saving the queue of the browser and the server's answers;
Ferry the tab and the edits of the json api; Crawl the spider, its annotations
plugin and its extension; Repoman calls JsonMerge.

### Repository and requests

**JsonMerge** is `merge_jsons`: an object is a function from keys to values,
`Absent` for a missing key; `FieldConflict` and `MergeField` are the branches
of `resolve_json`, `Get` is `dict.get`, which confuses a missing key with null.
Left out: the `TypeError` of `JsonDiff` when two dictionaries meet a base value
that is null or a number. **MergeLists** is `merge_lists` and `Conflict`: runs
of positions that differ, resolved with the help of difflib (external).

**Repoman** is one repository: `commits`, `master`, `branch`, `tags`. One action
is one method. `Merge` is `_merge_branches`: the differences of the two sides to
the base by path (external: dulwich), then the cases of its loop, among them
files deleted or moved on one side, files that are not json, forced publishes.
`fork` and `merged` are auxiliary. Of the rename detector only exact renames
are modelled. A commit's id is its place in the sequence; in git it is a hash,
so two equal commits of one second are one, with the same tree.

**Project** is the project as its users see it, each request at once. A version
is the *set of edits* that led to it; a merge keeps what both have and what
either added. That is what Repoman's merge does with keys of json objects
(`PublishMergesJson`), but of edits of raw files, lists and nulls, and of files
moved or deleted, it may drop one side's, or bring older contents back. Those
edits are in `loose`, and a merge may drop any of them (`MergeResults`). Whether
a merge conflicts depends on files the module does not have, so `PublishOn` and
`ConflictOn` are both possible. `givenUp` is auxiliary: edits somebody
discarded by a reset, a rollback or a forced publish.

**Sessions** lets requests overlap: `Start`, `Read` (one action per reference,
in the order the code reads them), `Write` (which may wait), `Finish` (the
transaction commits; the effect is an action of Project on the heads *read
earlier*) or `Answer`. `Abort` is a rolled back transaction. An http request
holds each reference it has read (`select_for_update`); a message of the
websocket runs in autocommit and holds none. The locks are InnoDB's at
REPEATABLE READ: nobody waits to read a missing row but writers wait for the
others in the gap. At READ COMMITTED, which newer versions of Django ask for,
there is no gap lock and two first edits of a user can race; and the storage
dulwich provides on files has no locks at all. The modules are about the
versions the repository pins.

### Storage

**SpiderFiles** is the files of spiders on disk: a request (create, rename,
edit or delete a spider or a sample) is the list of storage calls it makes,
`todo`, executed one at a time; it may fail half-way, and a crash may leave a
file truncated (`Cut`). It implements **Spiders**, in which requests happen at
once, until something fails; whatever fails, other spiders are untouched.

**WorkingTree** is GitStorage over the objects and references of `db_repo`:
checkout (branch, else master, or a version, which is read-only), edits of the
tree, `delete` of `X.json` with the directory `X`, `move`, whose loop changes
the dictionary it iterates over and so moves some of the files, and `commit` as
the statements it is made of. A request over http is a transaction, one of the
websocket is not; either may crash before any statement. It implements
**Versions**: whole versions, each visible only when all of it is there.
GitStorage works under Python 2 only.

**Orm** is snapshots, save and deletion for schemas and fields, which are kept
in one file: `working`, `staged` and `committed` data per model, staging of the
fields named, the dump of the whole tree from what is staged and committed,
rollback, both sides of relationships. It implements **Store**, in which a
request sees its own edits and a save writes the named fields of the named
models and nothing else. Left out: the order of members, models with files of
their own, a field that moves between schemas.

**Collection** is ModelCollection: the list, and the dictionary from keys to
indices that is filled late and trusted while it is as long as the list.
Deletion of a part of the list by slice, which nobody calls, is switched off.
**Copier** is ModelCopier, saved model by saved model. **LegacySpider** is what
looking at a spider of an older version writes to disk at once
(`dump_templates`, `chain_load` with `_migrate_html` and `port_sample`), with
crashes between writes. Old samples whose annotations are outside the page are
left out: the code drops those annotations.

**Resources** is what one json api request does to schemas, fields, samples,
items and annotations: auto-created records that go with their user, the
default schema, the change of an item's schema, deletion with cascades and with
protection that looks only at records the request has loaded. `BelongsTo` sides
are variables, `HasMany` sides follow. With `Commits` (GitStorage) a request
that fails changes nothing. Without it (FsStorage, the default) what it has
saved stays: `UpdateSchemaInvalid` has reset the old default schema, and
`UpdateItemSchemaFails` has moved an item that holds another one, and some of
its annotations, to the new schema before the nested item, which has no field,
ends the request. The project is then `half` changed, and what later requests
make of that is not modelled. Deletions are refused before anything is written.

### Between user, server and sites

**Saving**: the queue of saves in `models/base.js`, the bulk requests of the
adapter, which carry updates of other records, and the server, which applies
them one by one and refuses some; answers may be lost. **WebSocket**: the
service that connects, notices closes, reconnects by timer or by the online
event, and hands answers to promises, with the server's end of it. How long a
timer waits and heartbeats (nobody answers them) are left out. **Ferry**: a tab
(`shown`, `loading`, `raw`), loads and links, pages that arrive or fail, a close
at any time, mutations that put off an extraction, which may run when its tab
is closed (`LateExtract`), before the page is loaded, or raise (`fails`),
`save_html`, and the spider that is opened once and kept while the json api
edits it. `news` says that the page has changed since its items were sent. It is
assumed of the
browser that the response of a reload is seen under the address shown already.
**Crawl**: login, forms and start urls from one generator that all callbacks
share, links followed or not, requests that fail or are dropped as seen, and
the extension that closes a crawl with too few items.

### Algorithms

**StartUrls**: both formats of generated urls and the conversion of one to the
other on every load. **SampleFormat**: a sample's tree of items written as a
flat list and read back. **Containers**: the extractors such a list becomes.
**Records**: the records of a list (`RepeatedContainerExtractor`: prefix,
suffix, look-ahead), one action per step of its loop. **Items**: regions merged
into items, validated and exported. **Selectors**: what css and xpath selectors
add to the items of a list. **Links**: the links of a page and their one form.
**Templates**: which samples are built on which body, and which decides on a
page. **AnnotatedPage**: annotations written into the tags of a page
(`Annotations` in `builder.py`). **Migration**: annotations of old samples
brought to selectors. The definitions of AnnotatedPage and Migration were also
compared with the Python code on a few hundred random pages.

MCAlgorithms and MCPages grow the inputs step by step, so every input within
the bounds is a state. The alignment of a page with a sample, in the library
scrapely, enters as whatever it may find.

## Runs

| Run | Asks | Instance |
|---|---|---|
| `storage` | do requests on files, versions and unsaved models act as their abstract specifications say, through failures and crashes; do copies and old spiders lose nothing | 2 spiders with 2 samples; 2 edits of a tree; 4 models in a collection; 2 schemas with a field, the name new ones have and another; 2 old samples |
| `browsing` | is what is shown as saved stored; do queued saves, lost connections, changed pages and start urls get their turn; one connection; the right source of a page | 2 records with 2 and 1 edits; 3 sockets; 2 pages; a feed and a url |
| `extraction` | is what the algorithms compute what was annotated, merged or asked for | 2 keys; lists of 3; 4 parts of a template; pages of 4 to 6 elements; 3 records |
| `resources` | do references hold and auto-created records go with their only user, through requests that fail with a part saved | FsStorage; 3 schemas, 2 fields, 2 samples, 3 items, 2 annotations |
| `repoman_merge` | is the merge base the fork point; does a publish merge key by key, a failed one keep both values; no marker on master | 2 users, 2 keys, 6 commits from a published project |
| `repoman_all` | is the repository well formed and does master only grow, with tags, moves, raw files, force and unresolved conflicts together | 2 users, 3 files, 5 commits |
| `sessions` | do overlapping requests act one after the other; is no saved edit of json keys lost | 3 sessions, 2 of one user; 4 commits; edit, publish, reset, rollback |
| `sessions_ferry` | what is lost when the websocket does not lock; does every request end | one of the three sessions is the websocket's; 3 commits |

Each of these passes, and exploration is complete within the bounds. What their
properties say, where it is not plain from the table:

- `RequestsActAtOnce`: SpiderFiles implements Spiders, until a request fails
  half-way; no request, whole or failed, harms another spider. `ActsAsVersions`
  and `ActsAsStore` are the other two refinements of `storage`.
- `OldSpidersAreKept`: annotations and page of an old sample are in some file
  whenever the server stops. `EditsSurvive`: once saved, an old spider is not
  migrated over a user's edits again.
- `ServerIsReached` and `OneConnection` hold for a view that is not entered
  again while a connection is being made, and promise an answer only while the
  connection is there: promises of a lost one are never settled.
- `ChangesAreFollowedUp`: when the page has changed, its items are sent, though
  many mutations share one extraction and those of closed tabs run late. It
  holds until an extraction a tab has put off raises (`raised`): `call` is then
  never reset, and no later change of that tab is followed up.
- `SamplesKeepTheirNesting` is about items that are not repeated inside other
  items; those inside repeated ones are not extracted.
- `ItemsAreExportedWhole`, for items that selectors match inside, not for a
  selector that matches the list itself: a picked element loses its tag, and
  later items of the list are then not found.
- `MergesKeepBothSides`: of a null against a removed key a conflict or the null
  remains; which of the two depends on the side. Of lists, what both sides have
  stays, and what either added stays if the sides have not shifted against each
  other what they share. If they have, `merge_lists` may leave additions out.
- `ReferencesHold`: schemas of items exist, fields of annotations exist and are
  fields of the schema of their item. `AutoCreatedHasOneUser`: what is deleted
  with its user has no other. Both hold until a change of schema is left
  half-made: then annotations are on fields of the schema their item has left.
  `OneDefaultSchema` and `SchemaChangeKeepsNames` hold also then.
- `NoLostEdits` and `OnlyStaleFerryLosesWork` are about edits of keys of json
  objects, not `loose` ones. By the second they are lost only by a message of
  the websocket, and only if its branch has moved since it was read. That
  overlapping requests treat the others no worse than requests one after the
  other do is `ActsAtomically`.

Conjunctions are used where parts are about one mechanism. The mutants that are
listed break each property at one place; further mutant operators stand beside
the definitions they change and break the other parts (for example
`KeepsFragment` and `OpenWithOld` in Links, `StageEveryField` in Orm,
`DeletedWithSiblings` in SpiderFiles, `ItemsNotNested` and `NothingInside` in
Resources, `InAnyItem` in Selectors, `BlobsOfOldFiles` and `CrashedAnyhow` in
WorkingTree, `MissingOutside` in Templates, `NextOfOwn` and `CountGoesOn` in Crawl).

**Bounds.** Two users who each save, the first publishing, the second
publishing in vain, resolving and publishing again, make the six commits of
`repoman_merge`, which starts from a published project so that keys are changed
and removed on both sides. A merge has two sides, a branch and master, so two
users are enough. Three sessions of two users give both the race of two tabs
and that of two users, and a request that overlaps two others meets each state
of the locks (held row, held gap, inserted row). In `sessions`, rollbacks run
only while the history is short (`RollbacksComeEarly`), and of the edits only the
first is such that merges may drop it, after which no more than two requests
overlap (`LooseComeEarly`): state constraints, used with safety properties only.
In `sessions_ferry`, which checks liveness, nothing is constrained. Two spiders with two samples have a neighbour to harm and a
directory to share; two edits of a tree make a version that keeps a file of the
one before. Three schemas let an item move while another holds the default.
Three sockets are one lost, one being opened and one too many. Pages of five
elements have a container, a field in it, one beside it and one around both.
Lists of three records have a middle one. `MaxCommits`, `MaxEdits`,
`MaxTreeEdits`, `MaxSockets`, `MaxEntries`, `MaxVersion`, `MaxChecks`,
`MaxNumber`, `MaxElements` and the like are in the guards of the actions that
count; a bound that is reached stops new work, never work in progress. Paths of
Repoman are not symmetric, as `Renames` chooses among them; users, tabs, values
and records are, hence the symmetry sets, which no run with liveness uses. Runs
of components that stop when their input is used up have deadlock checking off.

**Fairness.** `sessions_ferry`: strong fairness of each session's step, because
InnoDB grants locks in the order of its queue and a worker runs its request to
the end, and weak fairness of `BreakDeadlock`, because InnoDB looks for
deadlocks at each wait; requests are started without fairness. `browsing`: a
timer that is set fires (WebSocket's reconnection, Ferry's deferred extraction
on the reactor); a message that has arrived is handled and its answer received
while the connection is there; a bulk request ends, answered or not, and the
browser runs the actions of a record that no longer saves (strong, because
saves of other records come between); Scrapy advances every generator a
callback returned, and a request it has taken ends in a callback or in an
error. Users, pages and the network owe nothing.

Four runs end in a violation. Each asks what a comment, a docstring or a
document says, and the counterexample shows what the code does:

| Run | Said | Done |
|---|---|---|
| `repoman_resolved` | resolve, then publish (`repoman.py:45`) | the retry merges against the old fork point; any resolution but master's value conflicts again |
| `repoman_raw` | "a three way merge is performed" (`repoman.py:191`) | of files that are not json `mine` is always taken: publishing puts back the old contents of one that only others changed |
| `required_fields` | items with missing required fields are discarded (`docs/items.rst:9`) | items in items are not checked, and an item that holds one is not either |
| `latest_annotations` | "Use latest annotations to extract items" (`commands.py:68`) | the spider that was opened first is used as long as the name is the same |

More disagreements met while modelling have no run. A file that is not json and
that only others have added is published as `{}` (`repoman.py:393`). A file
moved on one side is published without its contents: what is merged was read
under the old path, while the comment at `repoman.py:373` says contents are
under the new one; the other runs of Repoman whose properties are about contents
have nothing move.
`jsondiff.py:176` says that the merge recurses into dictionaries, but the
recursion's result is overwritten (line 194). `repoman.py:187` says a forced
publish squashes the branch, but `force` matters only inside the merge.
`repoman.py:198` says that True means no conflicts are pending, but a branch
whose markers nobody resolved is published once master holds the base value
again; `MasterHasNoMarkers` is therefore stated for users who resolve first
(`ResolveFirst`).

## Proofs

What follows is proved for every value of the constants that satisfies the
assumptions named in the modules, without the bounds of the runs. Hypotheses on
constants are stated with each theorem; each is one the listed runs satisfy.

**RepomanProofs** (Repoman, with JsonMerge):

- `TypeCorrect`: `TypeOK` always. `HistoryGrows`: no publish makes master forget
  an earlier one.
- `MergeBaseCorrect`, for `Tag = {}`: the merge base is the fork point. The
  inductive invariant `BaseInv` says that the publishes a branch has in its
  history are those of the master it was forked from, that `fork[u]` is the
  newest of them or the root, and that commits between it and the branch's head
  are saves and failed merges. Checking out a tag moves master back, after which
  the property is false; hence the hypothesis.
- `MasterStaysClean`, for json files only, no tags, and users who resolve
  before they publish: no marker on master. It rests on the lemma that a merge
  of trees without markers puts a marker only where it reports a conflict.
- `PublishKeepsBothSides`, for `Tag = {}` and `RawIsNotJson` (a file that is not
  json has no json object in it): `PublishMergesJson`. `RefusedPublishKeepsBoth`,
  for json files only: `FailedPublishKeepsBoth`. Both need `FilesInv`, that
  every tree of the history has json where its path says so, and the lemma
  `MergeKeepsBothSides`: what `_merge_branches` makes of a path nobody moved is
  the three-way merge of its contents, whichever case of the loop it falls in.

**SessionsProofs** (Project and Sessions). Of Project:

- `ProjectTypeCorrect`: `TypeOK` always.
- `EditsAreKept`: `NoLostEdits` always, whatever merges drop of `loose` edits.
  It is not inductive. `Grows` adds that a version holds what its ancestors hold
  but for what is `Excused`, given up or loose, and `Rooted`
  that every history starts at the first commit, so the merge base is an
  ancestor of both sides (`MergeBaseIsCommon`); then what a merge drops is
  excused already (`PublishKeepsBoth`). `CommitLosesNothing` and
  `MoveLosesNothing` are the two shapes of a step.

Of Sessions, with the lemmas about Project:

- `SessionsTypeCorrect`: `TypeOK` always, deadlocks and aborts included.
- `RequestsActAtomically` and `RequestsKeepEdits`, for `Ferry = {}`: requests of
  the http api implement Project, hence lose no edit that is not `loose`. `SessionInv` says that
  what a session has read and holds is what the reference is now, that who
  writes has read all it writes about and may write it, and that two sessions
  hold one reference only as long as it is a gap none has filled. The step that
  commits is then an action of Project; all others stutter.
- `RequestsLoseNoWork`, with the websocket: a step that loses work is one of a
  websocket's message whose branch moved since it was read. That is false of
  the stronger statement without the exception, as `sessions_ferry` shows.

**ResourcesProofs** (Resources): `NoReferenceDangles`, `AutoCreatedServesOne`,
`DefaultIsUnique`, `NamesSurvive`, for both storages; the first says too that
with GitStorage references hold without exception (`Commits => ~half`). The
inductive invariant is typing, one default schema and, until a change of schema
is left half-made, `Sound`, which gives each
reference its target and each auto-created record its one user; it is why a
request need not load the samples it does not touch: what is deleted with its
user is used by nobody else, and an annotation on a field of an auto-created
schema belongs to the one item that uses the schema.

**BrowsingProofs** (Saving, WebSocket and Ferry, in Browsing):

- `ShownAsSavedIsStored`: `SavesInv` says that at most one bulk request is on
  its way or answered, that what it carries lies between what the browser knew
  and what it shows, and that an answer is true (`OneRequest`); then what was
  not edited since it was loaded or saved is stored.
- `ConnectionIsUnique`: `SocketInv` ties `closed`, `connecting`, the timers and
  the sockets together; the uniqueness alone survives no reconnection.
- `RawFollowsThePage`: `PageIsRecorded` adds that the address of the recorded
  source is that of the page shown, also where a response was missed.

**SpiderFilesProofs** (SpiderFiles, in Storage): `RequestsAreWhole`, that
SpiderFiles implements Spiders until a request fails, and that a request, failed
or crashed, leaves other spiders alone.

- The second part needs only `PathsInv`, that paths begin with a name and that
  each call is about names; `KeepsOthers` says of every call, whole, refused or
  cut short, that what is under another name stays.
- The first needs `OnceInv`. While nothing failed, every file is under its
  spider and every page under its sample (`Tidy`), as a spider that is created
  would otherwise show what an earlier one left behind. And for a request under
  way, the calls it has left and the disk are what is left and what was done of
  it: of a renaming, for instance, `RenamingAt` says for call `i` which pages
  are under the new name, whether the spider is, whether the old files are
  gone, and which samples were saved again. That invariant is proved call by
  call. Before its last call a request does not show, as `before` is kept; then
  the disk is tidy again and shows the one step of Spiders.
- The order matters in the proof where it does in the code: the old file is
  deleted with its directory only when all pages have been moved out, and the
  new directory holds nothing that a page could collide with.

**WorkingTreeProofs** (WorkingTree, in Storage): `GitIsSound`, that `GitInv`
holds always, and `VersionsAreWhole`, that WorkingTree implements Versions.
`GitInv` says that every version a reference shows has its commit, tree and
files, all the way to the first; that an open storage works on files it can
read; and what the statements that are still to be executed will add, before
they move a reference, so that a crash between any two leaves a whole version.

**OrmProofs** (Orm, in Storage): `SavesAreExact`, that Orm implements Store.

- The invariant `OrmInv` says that, until an exception ends the request, the
  snapshots mirror the file (`Mirrors`): nothing is staged, what is committed is
  what the file says, on both sides of each relationship, and what a request has
  only set is a name or a mark. A model that is not in the file has nothing
  staged or committed. The list of schemas is the exception (`Listed`): no file
  is written for the project, so once a schema was deleted its list stays staged
  and the committed one still has what is gone.
- It is proved action by action, in two halves. `StageFieldsIs` and `CommitIs`
  say what `_stage_changes` and `_commit_changes` do to every field of every
  snapshot. Between them nothing mirrors the file, and what holds is `Ready`:
  what is staged or else committed is what the new file will say, and what is
  neither written nor committed is as it was. `DumpIs` gives the file.
- The committed list that still has a deleted schema is why a later save of a
  schema may fail: staging takes that list again, and the deleted schema has no
  name to be written (`DumpedIsCommitted`). The save then changes nothing, which
  Store allows; the proof shows that it never writes the deleted schema instead.

**StorageProofs** (Copier, LegacySpider and Collection, in Storage):

- `SharedSchemasStayShared`: `CopiesInv`, the dictionary of copies is injective
  and the samples copied so far have the copies of their schemas.
- `OwnSpidersAreSafe`: `CopierInv`, what is to be copied and the spider that is
  copied into are not among those the project had. `UniqueIdIsNew` needs the
  least number that is free, which exists as numbers are well-founded.
- `OldSpidersStay` and `SavedEditsSurvive`: `LegacyInv` says what an open
  request may still write. It dumps the templates of a spider nobody saved; or
  writes samples as it has read them, each after its page; or the spider
  without templates, when all of them have files. Each of the three keeps what
  is in the files sound at every write.
- `ModelsAreIndexed`, for `Slices = FALSE`: `ModelsInv`, the list has no
  duplicates and the dictionary is empty or a permutation of the list's indices.
  That fails once a part of a list is deleted by a slice, which nothing calls.
  The lemmas `RemoveAtIs` and `InsertAtIs` say what removal and insertion do to
  a sequence.

**Only model-checked.** Liveness under fairness (`browsing`, `sessions_ferry`)
and ENABLED are out of the prover's reach. So are facts by induction over data
and modules that declare RECURSIVE operators: MergeLists, SampleFormat,
Containers, Items, Templates, AnnotatedPage and Migration. The run `extraction`
puts these and the other algorithms together, so none of its properties is
proved.

The assumptions on constants are `AbsentAssumption` (JsonMerge),
`PathAssumption`, `ForcesAssumption`, `MaxCommitsAssumption` (Repoman),
`MasterAssumption`, `BoundAssumption` (Project), `OwnerAssumption`,
`KindsAssumption`, `NoneAssumption` (Sessions), `OrdersAssumption`,
`CommitsAssumption` (Resources),
`RecordAssumption`, `SocketsAssumption`, `PageAssumption` (Browsing),
`ContentAssumption`, `ModelAssumption`, `SampleAssumption`, `NumberAssumption`,
`ClosedAssumption`, `SampleIdAssumption` (Storage). They say that bounds are
numbers, that sets of names are disjoint or finite, and that a value that
stands for "none" is no other value; TLC evaluates them in the runs.

## Not modelled

- Generated code, downloads, deployment to the external service, project
  templates, settings, views, field types, style sheets, cookies: conversions,
  constants and plain input and output, with no order of steps to get wrong.
- Scripts put into pages (`waitAsync.js`, `perform_actions.js`), and the views
  that show what Ferry sends (`browser-iframe.js`, `extracted-items.js`): they
  depend on the event loop and the timers of a browser.
- `slyd/gitstorage` and `portia_api/resources/models.py`, which nothing uses.
- Extraction over http (`portia_api/utils/extract.py`): it passes urls as bytes,
  which raises under the Python 3 the server runs on.
- `delete_repo`, which no route reaches; `data_store_context`, which does not
  clean up after an exception, as the next request installs its own store.

## Plan

What is left, in this order:

1. Proofs: Crawl's order of callbacks; the parts of `extraction` that need no
   recursion (Links, StartUrls, Records), in a specification of their own.
2. Several connections of Ferry on one project; what later requests make of a
   change of schema that was left half-made.
3. Deletion and new records in Saving; models with files of their own in Orm.
