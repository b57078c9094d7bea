# A verification development of Aracne2

Aracne2 is a publishing platform for TEI editions: a FastAPI back end over
PostgreSQL (metadata, workflow, versions) and eXist-db (the XML documents), with
a Vue front end and plugins that deposit, mirror and announce what is published.
This directory holds TLA+ models of its back end, the TLC runs that check them on
small instances, and TLAPS proofs of the theorems that matter most. All paths
below are under `src/backend/app/` unless they start with `docs/` or name a
document of the repository's root.

## 1. The system

| Component | State it keeps | Operations | Depends on |
|---|---|---|---|
| Workflow (`services/xmldb.py`) | a row of `collections`: status, editor, three timestamps, fingerprint, document count | assign, submit, reject, publish, direct publish, unpublish | sessions, eXist-db, version history, hooks |
| Documents (`services/xmldb.py`) | the working tree in eXist-db | upload, update, delete, ZIP, zones, manual save, rollback | document lock, version history |
| Version history (`services/document_versions.py`) | `document_versions` | `create_version`, `manual_save`, `rollback_to`, `delete_manual_version`, `acquire_doc_lock` | the caller's transaction |
| Fixity (`services/fixity.py`) | `fixity_records` | `record_publication`, `recheck_all` (scheduler, "Recheck now") | version history |
| Public snapshot (`db/existdb.py`, `xqueries/system/copy_to_published.xq`) | the published tree | copy | working tree |
| Validation runs (`services/collection_validation.py`) | `collection_validation_runs` | start, cancel, background task; badge in `services/websites.py` | working tree |
| Accounts (`services/auth.py`, `password_reset.py`, `users.py`, `roles.py`, `gdpr.py`) | `users`, `user_roles`, `sessions`, reset links | login, refresh, logout, password change and reset, roles, deactivation, deletion, anonymisation | |
| Websites (`services/websites.py`) | a row per site, the files of its directory, caches of pages and stylesheets in each worker process | create, update, delete, build (background task), render on request, invalidate | public snapshot |
| Search engines (`services/search_engines.py`) | a row with its linked collections, answers kept in PostgreSQL, two built pages | create, update, delete, search, clear, purge, build | working tree in eXist-db |
| Forge integrations (`plugins/github_integration`, `gitlab_integration`, `codeberg_integration`, `_lib/git_forge`) | a link of a collection to a branch, the last commit pushed or imported | link, unlink, push, initialize | working tree, the forge |
| Deposits (`plugins/zenodo_deposit`, `dataverse_integration`, `internet_archive`) | an entry of the collection's `plugin_data` | deposit or capture (hook or endpoint), refresh | public snapshot, the archive |
| Natural-language search (`plugins/nl_search`) | cost of each day, answers kept, a semaphore in the process | query | a paid model |
| OAI-PMH (`plugins/_native/oai_pmh`) | nothing: a resumption token carries the place | list identifiers, list records | collection rows, working tree |
| Hooks, scheduler (`core/hooks.py`, `core/scheduler.py`) | registered handlers, jobs | emit, run | everything |

Every HTTP request has one PostgreSQL session (`db/postgres.py`): READ COMMITTED,
committed when the handler returns, rolled back when it raises. eXist-db, forges
and archives are written with plain HTTP requests that take effect at once and
are never undone. That asymmetry, and the awaits between the two, are where the
hard behaviour is:

- two handlers interleave at every await; only some document writers take the
  per-document advisory lock, and no transition locks the collection row before
  it reads it;
- a handler that fails after an external write leaves the write behind, and one
  whose answer is lost repeats a request that may have been carried out;
- the version number is a `MAX` and an insert, the manual cap a `COUNT` and an
  insert, the status check a read and an update, the day's cost a read and an
  update much later;
- a sweep of the fixity rows is one long transaction over rows it loaded chunk by
  chunk, while publications rewrite the same rows, in another order;
- a background task, the requests that cancel or repeat it and the process that
  may die share one row and nothing else; two builds of one site run at once;
- a render, a search or a harvest is a chain of reads with no lock: what it read
  first is old by the time it stores or answers, and caches live in each worker;
- a session may be opened while the account it is for is being changed.

`PROJECT.json` lists the hazards one by one at their lines, with the properties
that would catch each.

## 2. Modules

| Module | What it is |
|---|---|
| `Versions` | the rows of `document_versions` and the queries over them; no state |
| `VersionHistory` | abstract specification: rows are recorded whole under keys of their own, only manual rows are discarded, the certified body is the last publication's |
| `Editorial` | one collection: row, working tree, snapshot, versions, fixity; one process per HTTP request |
| `ValidationRun` | validation runs, their tasks, cancellations, and the public badge |
| `Fixity` | the sweeps over the fixity rows, against publications and damages |
| `SiteBuild` | the builds of a static or hybrid website |
| `SitePages` | the pages of a website rendered on request, and their caches |
| `SearchEngine` | the searches of a public search engine and the answers it keeps |
| `SearchPages` | the builds of the two pages of a search engine |
| `ForgeSync` | pushes to and imports from GitHub, GitLab and Codeberg |
| `Deposits` | the deposit of a collection on Zenodo or Dataverse |
| `WebArchive` | the capture of a public page by the Internet Archive |
| `NlSearch` | natural-language queries: budget, cache, slots |
| `Accounts` | accounts, roles and sessions |
| `Harvest` | a harvest over OAI-PMH |
| `MCEditorial`, `MCFixity` | instances for TLC |
| `MCOutputs` | `SiteBuild`, `SearchPages`, `ForgeSync`, `Deposits`, `NlSearch`, `Accounts` and `Harvest`, one in focus |
| `MCRechecks` | `Fixity` and `WebArchive`, one in focus |
| `MCInTheEnd` | `Fixity`, `SitePages` and `SearchEngine` under fairness, one in focus |
| `EditorialProofs`, `PublicationProofs`, `ValidationRunProofs`, `FixityProofs` (of `Fixity` and `WebArchive`), `PagesProofs` (of `SearchEngine` and `SitePages`), `ReadersProofs` (of `SearchPages`, `SiteBuild` and `Harvest`), `ForgeSyncProofs`, `OutputsProofs` (of `Deposits`, `NlSearch` and `Accounts`) | theorems and proofs; `FixityProofs`, `PagesProofs` and `OutputsProofs` extend `MCRechecks`, `MCInTheEnd` and `MCOutputs` and also prove what these put together |

The components that `MCOutputs`, `MCRechecks` and `MCInTheEnd` put together meet only in the
collection they are about, and what another component may do to it is a
nondeterministic action of each module (`Republish`, `EditTree`, `TouchCollection`).
No part writes what another part reads. A behaviour therefore follows one of
them, chosen by `focus` in the initial state, while the rest stays in an initial
state: interleaving the parts would show nothing more, and the states to visit
add up instead of multiplying.

Several properties are promised only when something did not happen meanwhile: no
other build met this one, nobody changed the account while a session was opened,
no record of the list was withdrawn. The modules keep such facts in history
variables (`alone`, `sole`, `touched`, `disturbed`, `crossed`, `overlapped`, `orphans`, `strays`, `lost`,
and fields named as history where they are declared), so that the condition is
part of the statement and not of the choice of instance.

### Editorial

A request slot is `idle` or at a place `pc` of its handler; `job` is what it was
asked and its local variables; `tx` is its session: the ORM instance `col`, the
columns `dirty` that its UPDATE will write (SQLAlchemy writes only changed
columns), the version rows staged and dropped, the fixity rows staged. Opening a
request reads the collection row; `Commit` overlays the dirty columns on the row
as it is *then*, which is how a transition overwrites one that it never saw.

| Code | Actions |
|---|---|
| the head of each handler: load the row, check access and status, set columns | `Begin...` |
| `acquire_doc_lock` and the eXist-db write under it | `Busy`, `NotThere`, `PutUpload`, `PutUpdate`, `Delete`, `ReadHead`, `ReadTarget` |
| `rollback_to` and `update_surface_zones` writing back | `Put` |
| the loop of `upload_zip_batch`, which takes no lock | `PutMember`, `CountMembers`, `RefuseZip` |
| `_sync_doc_count` | `Counted` (list and assignment), `FlushCount` (the UPDATE and its row lock) |
| `_compute_collection_tree_hash`, `copy_collection_to_published`, `db.flush()` | `HashTree`, `Copy`, `FlushRow` |
| `_snapshot_collection_documents` and `create_version` | `FetchDoc`, `SkipDoc`, `SkipUnchanged`, `RefuseManual`, `Decide`, `TakeNumber`, `Insert`, `Collide` |
| return, or an exception | `Commit`, `Fail`, `CopyFails` |

PostgreSQL is modelled by what it does to these statements: the UPDATE of a row
waits for the transaction that has updated it (`rowLock`); an INSERT waits for an
uncommitted row with the same key (`MustWait`) and then fails if the row was
committed (`Collide`); a statement sees committed rows and its own (`Seen`).

Abstractions, all named in the module: a body is a pair of a text and its zones
and equality of bodies is equality of digests; the fingerprint of a tree is the
tree; timestamps are set or not set; the archive of a ZIP upload carries one body
for all its members; the listing and reading of a tree for the fingerprint is one
step; the put, the listing and the assignment of the count are one step under the
document lock; the UPDATE of assign and unpublish is one step with their commit;
validation of names and XML refuses a request before it has changed anything, and
is left out, as are notifications, audit rows and hooks (whose exceptions are
swallowed by `core/hooks.py`).

### ValidationRun

`run` holds the rows, `task` the place of each background task, `cancel` the cancel
requests that have read the row and not yet written it. Each statement that reads
or writes the row is a step, except that the rescue's read and write are one.
`since` is a history variable in the row: how much of the editing the listing saw.

### Fixity

`Editorial` has the fixity row as the certificate of a publication; `Fixity` has what
happens to it afterwards. Its processes are transactions: any number of sweeps and
one `Publisher`, because the passes of the publications of one collection exclude
each other (`PublicationProofs` shows it: they hold the collection row). A session
keeps the rows as it `loaded` them, the values `new` it gave them and the columns
`dirty` that differ; `Commit` overlays those on the row as it is then.

| Code | Actions |
|---|---|
| `recheck_all`: the keyset query, the loop, the commit | `StartSweep`, `LoadChunk`, `Commit` |
| `recheck_one`: the SELECT of the version, the digest | `Hash` |
| `_transition` and its flush | `Mark` |
| the publication pass: `create_version` or `get_last_publication` | `StartPass`, `PickNew`, `PickLast`, `PickNone` |
| `record_publication`: the read | in `PickNew`, `PickLast` |
| `record_publication`: the INSERT or UPDATE | `WriteRecord` |
| an exception; a deadlock broken by PostgreSQL | `Fail`, `Abort` |
| a body damaged or restored outside the program | `Damage`, `Repair` |

Abstractions: the digest expected goes with the version number, as only the pass
writes either; a stored body is intact, altered, unreadable or gone; a publication
pass is given the documents whose record it refreshes, which `Editorial` derives;
`last_checked_at` always changes, so every flush is an UPDATE and takes the row
lock; `drifted_at` is set or not set.

### SiteBuild and SitePages

The two halves of `services/websites.py`. In `SiteBuild`, `site` is the row under a
slug, `files` the directory of that slug, `build` the background tasks, each with
the row as its session loaded it and what it has fetched. A page is the set of
documents it lists, a document page the publication its body comes from.

| Code | Actions |
|---|---|
| `trigger_build`: status pending, task queued | `TriggerBuild` |
| `run_build`: load, status building, directory and listing | `LoadSite`, `MarkBuilding`, `ListDocs` |
| its steps for a static or hybrid site, file by file | `WritePage`, `FetchDoc`, `WriteDoc`, `DocsWritten`, `WriteIndex`, `PlanDone` |
| status done; an exception, its second session; the process stops | `Finish`, `LoseDirectory`, `FailSiteBuild`, `RescueBuild`, `KillBuild` |
| create, update and delete a site; a publication of its collection | `CreateSite`, `UpdateSite`, `DeleteSite`, `Republish` |

In `SitePages` a page is the versions of its inputs (`row`, `parts`, `snapshot`);
every worker has a cache of pages, whose entries expire, and a compiled stylesheet,
which does not.

| Code | Actions |
|---|---|
| a public page: load the site, maintenance banner, cache | `Arrive`, `CheckMaintenance`, `LookUpPage` |
| render: eXist-db, stylesheet, store and answer | `Fetch`, `UseTransform`, `Compile`, `StoreTransform`, `Store`; `Give` when it fails or the visitor leaves |
| handlers that invalidate their own worker's caches after a change | `UpdateRow`, `RebuildIndex`, `ClearCache`, then `Invalidate` |
| a publication: the copy to the snapshot when the content has changed, the caches of its worker (`_invalidate_linked_website_caches`), the commit | `Publish`, `Invalidate`, `Switch`; `PublishFails` after a copy that is not invalidated |
| changes that invalidate nothing | `EditParts`, and `Switch` for an unpublication |
| time to live | `Expire` |

### SearchEngine and SearchPages

One query text is asked, so an answer's key is the set of collections searched, and
an answer is the version of each collection it was found in.

| Code | Actions |
|---|---|
| create, update, delete the engine, clear its answers | `CreateEngine`, `UpdateEngine`, `DeleteEngine`, `ClearAnswers` |
| `run_search`: load, look up, query eXist-db, store | `BeginSearch`, `LookUpAnswer`, `Query`, `StoreAnswer` |
| expiry and the hourly purge | `Outlive`, `Purge` |
| the collections, meanwhile | `EditCollection`, `Unpublish` |

`SearchPages` has the row with a revision for the columns its pages show:
`CreateOwner`, `UpdateOwner`, `DeleteOwner`; `RequestBuild` is `trigger_build`, and the
task is `StartBuild`, `WriteMain`, `WriteAdvanced`, `FinishBuild`, with `BuildError` and
`RecordFailedBuild`, and `CrashBuild` when the process stops. A build has its row as it was loaded at the
start (`LoadedRow`); what is changed meanwhile, and a second build that was asked for
before the first had begun, are in the model.

### ForgeSync

`branch` holds the commits of each repository, `link` the row, `sync` the requests. The
three forges differ in what they refuse, which is `Accepts`: a GitHub ref moves only
forward from the head that was read, a Codeberg update names the blob it replaces, a
GitLab action names a file that must or must not exist.

| Code | Actions |
|---|---|
| link and unlink | `UpsertLink`, `DeleteLink` |
| `push_collection`: manifest, head, commit | `BeginPush`, `ListTree`, `ReadTree`, `ReadHead`, `PushCommit` |
| the head or its tree is not found, or the listing is cut short, and the push goes on | `ReadLess` |
| the forge does not name the commit: the head is read again, or not found, and the empty string kept | `AnswerWithoutSha`, `RefetchHead` |
| the end of a push | `RecordPush` |
| `initialize_collection`: refused if not empty, fetched, parsed, put one by one | `BeginImport`, `CheckEmpty`, `FetchBundle`, `PutFile`, `PutFails`, `RecordImport` |
| a crash, a lost or late answer | `LoseSync` |
| others | `EditTree`, `CommitOfOthers` |

The tree of a commit is its content: there is no history inside a file, and no
branch but the linked one. `FetchBundle` gives any part of the head's files, since all three
adapters skip a file that was listed and is not found, or cannot be read, and GitLab's
listing ends at a page cap or a 404; `brought` in the link is history, and says which were given.

### Deposits and WebArchive

`deposits` and `captures` are the archives' side, `receipt` and `stamp` the collection's
entry in `plugin_data`.

| Code | Actions |
|---|---|
| the publication hook or the endpoint; the documents of the snapshot | `BeginDeposit`, `LoadFiles` |
| POST of the draft, and again when its answer does not come | `CreateDraft`, `CreateUnanswered` |
| upload of each file; a request refused or out of tries | `UploadFile`, `EndUpload`, `RequestRefused` |
| publication, and again | `PublishDraft`, `PublishUnanswered` |
| the record, in a transaction at the end; the process stops | `RecordDeposit`, `RecordFailedDeposit`, `KillAttempt` |
| the setting `auto_publish` | `SetAutoPublish` |
| Internet Archive: submit, record pending, poll, record | `BeginArchive`, `Submit`, `SubmitUnanswered`, `RecordPending`, `Poll`, `RecordOutcome` |
| refresh of a pending capture; a request killed; the archive works | `BeginRefresh`, `KillVisit`, `EndCapture` |

### NlSearch

A query is one transaction, from its gates to the commit of its cost.

| Code | Actions |
|---|---|
| the endpoint: budget, kept answer, configuration | `AskQuery`, `CheckBudget`, `LookUpKept`, `Misconfigured` |
| `acquire_slot` and the semaphore behind it | `ResolveSemaphore`, `AcquireSlot`, `OverCapacity` |
| the rounds with the model, as one step | `Orchestrate` |
| `record_usage`, the cache, the commit | `ReadDay`, `WriteDay`, `ReadKept`, `WriteKept`, `CommitQuery` |
| failure, or the visitor leaves | `DropQuery` |
| settings, midnight, expiry | `ChangeLimit`, `Midnight`, `ExpireKept` |

An INSERT of a day or of an answer that another query has inserted meanwhile fails
its transaction, as the unique keys make it. `had` is what a query read of the day's row, an
await before it writes; the code's UPDATE does not use it and adds to the row as it is, and the
mutant `AddedToRead`, which does, loses a cost.

### Accounts

A request is named by its number, and so is what it creates: a session, a password,
a grant. `call` holds its place and what it has read. A login or a refresh is
`BeginLogin` or `BeginRotation`, `LoadUser`, `LoadRole`, `OpenSession`, each a statement. A
change is its first statement (`ChangePassword`, `ConfirmReset`, `AssignRole`,
`RevokeRole`, `SetActive`, `SoftDelete`, `Anonymise`), the list of the live sessions it will
revoke (`ListSessions`) and its commit (`CommitChange`); `FailCall` rolls a request back;
`Logout`, `RequestReset` and `ExpireLink` are one step. Access tokens, which live for
minutes whatever happens to their session, are left out.

### Harvest

`shelf` is the list of published, public collections as `published_at` orders them,
`texts` their documents, `late` those whose `updated_at` is past the date a harvester
asks from (or until), `harvest` the harvester and the request under way.

| Code | Actions |
|---|---|
| `dispatch`: the first request, or one with a token | `BeginHarvest`, `LosePage` (the same token again) |
| `_published_collections` | `QueryCollections` |
| `_collect_docs`: one listing of eXist-db per collection | `ListDocuments`, `ListingFails` |
| `_list_identifiers`, `_list_records`: the slice and the next token | `GivePage` |
| the archive, meanwhile | `ShowCollection`, `HideCollection`, `TouchCollection`, `AddDocument`, `RemoveDocument` |

`updated_at` is set by a trigger to the time the transaction *began*, so the date of a
collection may move either way with respect to the one asked for: `Dated`.

## 3. Runs

| Run | Instance | What it shows |
|---|---|---|
| `editorial_all_ops` | 1 document, 2 bodies (symmetric zonings), 1 editor, 1 Admin, versions up to 3, one request at a time; every operation but the archive | `TypeOK`, `StampsAgree`, `SnapshotMatchesHash`, `ReviewFreeze` |
| `editorial_serial` | 2 documents, 2 bodies (symmetric zonings), 1 editor, 1 Admin, versions up to 2, one request at a time; every transition but the direct publication, and archives | `PublishedIsOnRecord`: the passes over several documents |
| `history_concurrent` | 1 document, 2 bodies, 2 requests in any interleaving, versions up to 3; uploads, zones, manual saves, deletions of checkpoints, direct publications and unpublications | `ManualCapRespected`, and that `Editorial` implements `VersionHistory` |
| `requests_terminate` | 1 document, 2 requests, one failure anywhere, versions up to 2; uploads, updates, deletions, rollbacks, direct publications | `FixityTracksLatestPublication` under failure, `RequestsTerminate` |
| `validation_runs` | 2 runs, 2 documents, any initial tree, one edit, errors and crashes anywhere | `DoneIsComplete`, `BadgeIsEarned`, `ErrorsTakeTheBadge`, `EveryRunEnds` |
| `rechecks`, fixity | 2 documents, chunks of 1 row, 1 sweep at a time, versions up to 2, 1 damage of any kind, repairs, failures anywhere | `TypeOK`, `SweepIsComplete`, `NoFalseAlarm` |
| `rechecks`, captures | 4 requests, the second of them by hand (an archive or a refresh), 1 lost answer or crash | `ShownCaptureExists`, `NoNeedlessCapture` |
| `outputs` | see below | what is on record as handed out is there |
| `in_the_end` | see below, with fairness | what is wrong for a while is right in the end |
| `fixity_signals` (violated) | 1 document, 2 sweeps | two audit rows for one drift |
| `public_sees_last_publication` (violated) | one request at a time | the public sees a body that is not a publication row |
| `only_unpublish` (violated) | 2 requests | a collection leaves `published` with no unpublication |
| `cancelled_never_runs` (violated) | 1 run, 1 document | a cancelled run becomes running |

`outputs`, by focus:

| Focus | Instance | Properties |
|---|---|---|
| site | 1 document, 2 builds, one change (publication, update, deletion or creation), one build failed or killed, every mode | `DoneSiteIsCurrent`, `SearchMatchesPages`, `NoFilesInherited`, `BuildsEnd` |
| search pages | 1 collection, 2 builds, 2 changes of the row, 1 crash | `EnginePagesAgree` |
| forge | 2 files, 1 repository, 2 pushes or imports, 1 change by others, 1 loss, each forge | `RecordedPushIsOnBranch`, `ImportsAreWhole`, `PushesOverwriteWhatTheySaw` |
| deposit | 1 document, 2 attempts, 2 tries, 2 lost answers or crashes, 1 change of the setting | `RecordedDepositExists`, `DuplicatesHaveACause` |
| question | 1 question, 2 queries, limits 1 and 2, a budget of 1, 2 days, 1 query dropped | `SpendAddsUp`, `SlotsComeBack` |
| account | 1 user, 3 requests, 1 role to give, 1 reset link | `LiveSessionsAreCurrent` |
| harvest | 2 collections, 2 documents, pages of 1 record, 2 events during the harvest | `HarvestIsWhole` |

`in_the_end`, by focus: `fixity` (as in `rechecks`, versions up to 1: `DamageIsReported`,
`TransactionsEnd`), `pages` (2 workers, 1 request slot used again and again, document
pages, which have the stylesheet too, 1 change of any input, 1 switch of publication:
`BannerBeforeCache`, `PagesSettle`), `answers` (2 collections, 1 search slot, 2 changes:
`AnswersAreLinked`, `AnswersSettle`). `OutputsTypeOK` and `AllTypeOK`
are the type invariants of the parts.

Bounds. `MaxVersion` bounds version numbers: a request that may write rows starts
only while there is room for it and one for each other request (`Room`, `Slack`).
Two numbers are enough for a row and one that supersedes it; the concurrent run has three, so that a
row can be numbered while another is in flight. `MaxFaults` counts failures,
`MaxEdits` changes of the tree between the steps of a validation. Two requests
are enough for every pairwise race of the handlers, and the theorems hold for any
number. `ManualMax` is 1: the cap is reached with one save. `Users` in the
concurrent run is one Admin, as the properties there do not depend on who acts.

In the `Fixity` runs a chunk is one row, so that a sweep of two rows paginates and
every chunk is full; the identifiers are in the opposite order of the names, so
that a sweep and a publication can deadlock. Two sweeps over two documents have
more states than the runs can visit, so the passing runs have one sweep; the
theorems have any number and cover the safety properties, while the liveness ones
are checked for one sweep against the publications only. The liveness run certifies
version 1 again and again, which is enough for a publication to reset a record.

In `outputs` the bounds on changes and losses (`MaxChanges`, `MaxDeaths`, `MaxRowRevs`,
`MaxCrashes`, `MaxEdits`, `MaxLosses`, `MaxOutages`, `MaxSettings`, `MaxMisses`, `MaxDrops`,
`MaxDay`, `MaxMoves`) count what the environment does while two requests are under way:
one such event can fall between any two of their steps, which is what each hazard
takes. Two builds are a build and the one it leaves its files to; two tries are a request and its repetition; two
outages let a draft's answer and a publication's be lost. The queries share a question, as two
different ones meet only in the day's row. Two sessions and one change, or one session
and two changes, are the shortest races of an account. A harvest of four records in pages
of one crosses from one collection to the other between two pages; it starts with
a collection on the shelf, some document in each, and none late, since the collections
are alike and a start with all late is the other date filter.

`SnapshotMatchesHash`, `ReviewFreeze` and `PublishedIsOnRecord` are checked for one
request at a time and with no failure, and that is all the code promises: with
two requests a write may land between the fingerprint, the copy and the version
pass; a write whose access was decided before a submission may land after it; a
failure after the copy leaves a snapshot whose fingerprint was rolled back.
No property says that `doc_count` is the number of documents: a rollback
of a deleted document does not refresh it. `DoneSiteIsCurrent` is about builds that no
other build met, and `EnginePagesAgree` about builds not asked for while another was under way, whatever else
happens to the engine: overlapping builds may leave files of both. `LiveSessionsAreCurrent` leaves out the sessions opened while
their account was being changed, and `ImportsAreWhole` the files that the forge did not give: there the code
does not do what its comments say (section 5).

Four requests are what it takes for a late refresh to write the failure of an old job over
the record of a newer capture and for the hook to ask for one more (`strays`); with three the
inequality of `NoNeedlessCapture` held without that term. `SearchMatchesPages` has
its condition on the row for the sake of a site built as hybrid and made static again by an
update: it takes two changes, was found with two, and is in the theorem; the run has one
change, because with two the liveness of the builds is out of its reach.

Fairness. `RequestsTerminate` assumes `SF_vars(Step(r))` for every request: the
event loop resumes every handler, every eXist-db and PostgreSQL call returns (they
have timeouts), and PostgreSQL serves the waiters of a row lock in order, so a
request that is again and again enabled moves. `EveryRunEnds` and `BuildsEnd` assume
only weak fairness of each task: nothing ever disables its next step. None assumes that
a request or a task fails, or that anyone begins one. `in_the_end` assumes
`SF` of the steps of each sweep and of the pass, `Abort` among them: statements
return, row locks are granted in order and PostgreSQL detects deadlocks. That
sweeps go on to commit is not assumed: `DamageIsReported` has it as an antecedent.
For the caches it assumes that renders and searches under way go on, that a
handler that has committed returns, and that time passes (`Expire`, `Outlive`): entries
have a time to live, and nothing refreshes it. Nobody has to ask for a page, to
change anything or to clear a cache. `Fail` and the other faults are never fair.

`CHECK_DEADLOCK FALSE` is set where an instance really stops: in `validation_runs`,
`rechecks`, `outputs` and `in_the_end`, when all requests have been made and the changes are used up.

Every property has a mutant: a definition of the model replaced by the form a
plausible bug would give it (`Mutant:` comments, next to the definition), under
which the run must fail. They are not part of the specification.

## 4. Theorems

All are proved for every value of the constants that satisfies the named
assumptions (sets of any size, any number of requests and runs).

`EditorialProofs`. `TypeOK` is not inductive: a handler builds a version row from
a file, a body and a number it noted earlier, and only its place says that it has.
`JobsFit` says what is noted where; `Inv == TypeOK /\ JobsFit` is inductive, with
one lemma for each group of actions.

Its second half is about requests that come one at a time (`Alone`: there is one slot, taken
by one request after another; nothing is assumed of their order, users, documents or number).
`StampsOfOneRequest` and `FreezeOfOneRequest` hold whatever fails. A handler computes on the row
it has loaded and commits only the columns it changed, so the invariant has to say that the
others are still those of the row (`Carried`), that what the session has would agree
(`Agree`), and that a request let into the tree may still be there (`MayWrite`).
`HashOfOneRequest` and `RecordOfOneRequest` need `Unfailing` as well, and are false without it
(section 3). The fingerprint to be committed is that of the tree being copied, later of the
snapshot, and until then the committed one is (`SnapKnown`); the pass has a row, for
each document the public reads, that says what it reads, or has still to come to it
(`PassKnown`). The second survives deduplication because `SameAsLatest` is about the rows seen
by the transaction, and a number taken is beyond all of them (`NextIsLatest`). The two are
one invariant (`OneByOne`), as the pass relies on the snapshot being the tree.

`PublicationProofs`. `FixityTracks`: the fixity row of a document is that of its
last publication. The argument is about a lock taken for another reason: a
publication stages rows only after its UPDATE of the collection row, and holds that
row until it commits (`HoldsRow`), so no two requests have publication rows
staged (`NothingPublic` for the others), the committed publications do not move under
it (`CommitIsAlone`), the number it took stays beyond them (`NumberIsNew`), and
what it staged is current when it commits (`Refreshed`). Only manual rows are ever
dropped (`Discards`), which gives `AppendOnly` too. The advisory document lock
plays no part in this, and the argument would fail if the pass ran before the flush.
It is what `ManualCapHolds` needs: a save counts the manual rows of its document under
that lock and prunes before it commits (`Saves`), and nobody else commits a manual row of that
document meanwhile. `HistoryImplemented` is the refinement of `VersionHistory`: an INSERT
waits for another with its key (`Apart`), staged rows stand under keys of their own
(`Stages`), and a request that discards writes no row (`Drops`); with `FixityTracks`, every
commit is a `Record`, a `Discard` or a stutter of the abstract history.

`ValidationRunProofs`. `DoneIsCompleteThm` and `BadgeIsEarnedThm` follow from an
invariant that ties the row to the place of its task (`RowFollowsTask`) and every
verdict to the tree (`VerdictsStand`). `ErrorsTakeTheBadgeThm` adds that a row with errors and
a time of completion is done or was cancelled (`RowFits`): the badge query orders by that time, not by the run's number.

`FixityProofs`. Types need `Fits`: a row in hand was loaded, a
row written has its values. `SweepsComplete` follows from `Covered`: a row due to a
sweep is written, in hand, or still ahead of the cursor, and the last only if the
chunk was full; no transaction removes a row. `NoFalseAlarms` follows from `Sound`,
on each document that was never damaged: what is committed, loaded or about to be
written is ok and names an intact body, or one the same transaction adds. That a
sweep compares a body with the digest it loaded *with its number*, and not with that
of the row by now, is what makes a stale sweep harmless (the mutant `FoundInHead`).

Then of `WebArchive`, `ShownCapturesExist`: whichever request writes the record last, what
it writes was true of its own job when it polled it, and a capture stays (`VisitsKnow`).
A refresh takes its job from the record and writes an outcome back, so the
invariant says that a record names a job the archive knows (`StampKnows`).
`CapturesAreNeeded`: each capture of the hook is a failed job, one that was lost (`orphans`), one whose
record a late refresh overwrote (`strays`), or the one that the record or the request under
way stands for (`NeededByRecord`, `NeededBy`). The proof is what showed that the
property lacked `strays`.

`PagesProofs`, first `SearchEngine`. Answers go from one search to another through the table. An answer
kept has hits in exactly the collections of its key (`AnswersMatchKeys`), which is why
unlinking needs no clearing (`AnswersStayLinked`) and why an outage, whose answer has none,
is never kept (`NoOutageKept`). Then `SitePages`: a request past the banner has met the collection live
(`RequestKnows`), whatever the caches of the workers hold, which is `BannersComeFirst`.

`ReadersProofs`, first `SearchPages`. `EnginePagesStay`: as long as no build was asked for while another
was under way, at most one is (`Alone`), it has a row the engine once had (`Tracks`) and has put the pages
of that row that its place says (`Wrote`), whatever row there is by now (`RowsTrack`); and a row shown as
done has the pages of the row last built (`Shown`).

Then `SiteBuild`. Every task has fetched what it puts and has written as many steps of
its plan as it says (`TaskKnows`). As long as builds are alone, the one under way has the row
(`RowHeld`) and the listing (`SnapshotHeld`) that are current unless they were touched, and
the directory has what its place says (`PagesWritten`, `DocsPut`): hence
`BuildsLeaveCurrentSites` and `SearchFollowsPages`, and `NewSitesStartEmpty` with `EmptyAtFirst`. What an
earlier build left in the directory, whole or not, plays no part: every step writes
its file anew.

And `Harvest`. `HarvestsAreWhole` is about an offset into a list that is made again for every page, so
the invariant cannot speak of a list that is yet to be made. It counts instead: a record that the
harvest waits for has, with those in front of it, more records than the offset (`PastOffset`), among those
the archive would list now (`QueryKnows`) or, while a page is being made, among those listed already
and those of the collections still to be listed (`ListKnows`, `Promised`). As long as
nothing is `lost`, the archive only adds to what the harvest matches and moves nothing it had, so a record's place
never becomes an earlier one (`Grows`); a page gives what stands between two offsets, and
what it does not give is past the second (`GiveKeeps`). The proof needs no induction over lists, as the model
has a listing as the one function that puts a finite set of numbers in ascending order (`AscendingOf`)
and not as a list filtered. In the mutant `FoundByDate` the order is that of the update dates, and
an update brings others to an earlier place.

`ForgeSyncProofs`. A branch only grows (`Extends`), so what a push or an import once knew of it
(`PushKnows`, `ImportKnows`) stays true while other requests move it: hence `RecordedPushStays`
and `PushesKeepOverwritingWhatTheySaw`. What a push has seen of the branch was there (`WasThere`), all of it or not;
a file it did not see is one it asks to create, which the forge refuses when there is one. A push may record no
commit, and `RecordedPushStays` says of which forges and after which answers. `ImportsStayWhole` needs `Imports`: an import that nothing
disturbed is the only one of its collection, and the tree is what it has put so far of what it was given.
`ForgeTypeCorrect` has the bounds as well: after the first commit there is at most one for each commit of
others and one for each request, and no branch, link or request names one beyond those made (`Within`).

`OutputsProofs`. `RecordedDepositsExist`: at each place an attempt knows the state of its
own draft and what it holds (`AttemptKnows`), and no other attempt touches that draft, nor
this one after it has recorded it, so the record stays true (`ReceiptKnows`).
`DuplicatesAreCaused`: a hook attempt in hand may add one deposit only if nothing it could have
found was recorded, and one that publishes over a draft published already has had its outage
(`Allowed`, `OverPublished`); with no attempt in hand the record covers one (`Recorded`).

Of `NlSearch` (`NlSearchInvariant`), `SlotsAreNeverLost`: a query that waits or runs has noted one of the semaphores
made (`Slotted`), takes its slot there and gives it back there, and a changed setting adds a
semaphore under which nobody runs yet.
`SpendIsCounted`: a query pays once, at its commit, and is charged to the
day whose row it wrote (`PaidAtTheEnd`, `DayCounted`), and whoever else wants that row waits.
A sum over a set is a fold, which the prover cannot reason about, so the cost of
a day is compared with the number of queries charged to it.

Of `Accounts`, `SessionsStayCurrent` rests on two facts: a login or a refresh that has
met no change knows the account as it is (`Knows`), and a change about to commit has
listed every live session of its account but the crossed ones (`Lists`). The second
holds because, by the first, no uncrossed session is opened while a change is under way.

*What is put together.* TLC checks several components in one behaviour, and a theorem about one says
nothing of such a behaviour until each of its steps is known to be a step or a stutter of that one.
`OutputsFollowEach`, `RechecksFollowEach` and `AllFollowEach` prove this: a behaviour of `MCOutputs`,
`MCRechecks` or `MCInTheEnd` is one of each of its components, so that all their theorems
hold of it. `OutputsTypeCorrect` and `AllTypeCorrect` follow.

Each theorem that states a property of a run was proved after TLC had checked it on the instances above,
and so was each inductive invariant that needed more than one attempt.

Every safety property of a passing run is stated by a theorem, for every value of the constants.
Only model-checked: the liveness properties (`RequestsTerminate`, `EveryRunEnds`, `BuildsEnd`,
`DamageIsReported`, `TransactionsEnd`, `PagesSettle`, `AnswersSettle`), as the prover has no
ENABLED. The other way round, proved and in no run: `WebArchiveTypeOK` (`ArchiveTypeCorrect`) and
`OutagesAreNotKept` (`NoOutageKept`).

## 5. Where the code and its documents disagree

With a run:

- `docs/reference/DOCUMENT_VERSIONING.md:17` says that the public sees the last
  publication row of each document. Deduplication looks at the latest row of any
  origin, so a document published as it was submitted gets no publication row, and
  no fixity row or permalink (`public_sees_last_publication`). What does hold is
  `PublishedIsOnRecord`: the head of its history is the public body.
- `docs/reference/COLLECTIONS.md:186` has one way out of `published`. A transition
  that read the row before a publication committed takes another (`only_unpublish`).
- `services/collection_validation.py:113` promises that a cancellation is immediate
  and that the task stops; one that lands before the documents are listed is overwritten
  by `running`, and the task goes on (`cancelled_never_runs`).
- `docs/reference/FIXITY.md:110` promises one audit row for each drift. A sweep decides
  on the status it loaded with the chunk; of two sweeps in flight (the schedulers of
  the four workers of `docker-compose.prod.yml`, or "Recheck now") each announces it
  (`fixity_signals`).

Seen while reading, without a run.

*Fixity and workflow.* `services/fixity.py:72` says that a
republication resets the record to ok; one that read the row as ok while a sweep
was marking it drifted writes no status column, and the new version is certified
with the old status until the next sweep. `docs/reference/FIXITY.md:56` has
`drifted_at` at the first drift; a drift found after an `error` is not stamped.
`core/scheduler.py:162` gives the sweep to APScheduler as a plain function that calls
`asyncio.ensure_future`; whether that runs on the event loop is the library's matter,
and `Fixity` only assumes that sweeps may run, as "Recheck now" makes them. `docs/reference/COLLECTIONS.md:216-222`
still describes a freeze of published collections that `_assert_write_access` no
longer has; `docs/reference/DOCUMENT_VERSIONING.md:95` says that unpublishing
removes the published tree, which the code keeps.

*Writes during a review.* `services/xmldb.py:162` has a collection locked while under review. Access is decided on the
row as the request loaded it: an upload let in before the submission writes after
it. With one request at a time the lock holds (`ReviewFreeze`); with two, TLC finds that race.

*Validation runs.* A cancellation that lands after the last document's refresh is overwritten by `done`
(`services/collection_validation.py:252`), and one before the schema is found gone by `failed` (`:184`): in both the
run is over, and only its status is not the one asked for. One that has read the run before it ended and commits after it marks
a completed run as cancelled, so that a badge it had taken away is back (the exception in `ErrorsTakeTheBadge`).

*Websites and search engines.* `docs/reference/SEARCH_ENGINES.md:202` has a deletion remove
the built pages; the files stay. `db/existdb.py:157` says that public renderers must not
read the working tree, and `run_search`, `serve_site_doc_source` and the OAI-PMH provider do.
`docs/USER_MANUAL.md:955-957` has clearing the cache take effect at once; a search or a render
under way stores its answer after it, on its own worker, until it expires (`AnswersSettle`,
`PagesSettle`), and a compiled stylesheet stays on the other workers. The number of hits
asked for is not in the key of an answer. A search engine whose build was killed stays
`building`, and `trigger_build` refuses every later one; of two that are asked for before either has begun,
both still `pending`, it refuses none (`services/search_engines.py:1362`), and both write the pages. A site built as hybrid and made static by an update is
still done, with the search index of its last static build if it had one, until it is
built again. A publication clears the caches of its own worker only, and before it has committed; an unpublication
clears none. Hidden pages of a site and the advanced
page of an engine stay on disk after a rebuild; two builds of a site may overlap; a listing
of eXist-db that fails builds an empty site that is reported done; the rescue of a failed
build finds the site by its slug and may mark one created since.

*Forges.* `plugins/_lib/git_forge/adapter.py:74` has an import given every file of the branch, and
`plugins/codeberg_integration/service.py:442` says that no partially populated collection
results. Files that the forge lists and does not give are skipped (`codeberg.py:212`, `gitlab.py:199`, `github.py:272`),
and the collection is initialized for good with the others (`FetchBundle`; what does hold is `ImportsAreWhole`).
`plugins/_lib/git_forge/github.py:17` keeps the files of others by inheritance from the base
tree; if the commit of the head answers 404 or has no tree, the push goes on without one (`:131`),
and its commit has no other files. `docs/USER_MANUAL.md:1070-1080` and `README.md:594-598` say that Initialize cannot
overwrite live work. The check that the collection is empty comes before the files are
fetched and put: a document uploaded in between is overwritten; and a new link of an emptied collection
enables it again. An import that fails leaves the files it has put. The manifest of a push is read
file by file and may be torn. `last_push_sha` survives a change of repository, and where the
forge does not name the commit it is the head read afterwards, which may be someone
else's, or the empty string when that is not found either (`codeberg.py:130`, `gitlab.py:145`;
`RecordedPushIsOnBranch` says what remains true).

*Deposits.* `docs/reference/NON_NATIVE_PLUGINS.md:115` calls a repeated deposit idempotent. A forced
attempt that fails replaces the record of a good deposit, and the hook deposits again; a
publication whose answer is lost is refused when repeated, and recorded as failed although the
DOI exists; a creation repeated leaves a draft that nothing names; two attempts at once both
find no record. The hooks run before the publication commits (`services/xmldb.py:943`), so
a deposit may outlive a publication that was rolled back. The refresh of a capture
(`plugins/internet_archive/archive.py:261`) does not look at the record again when it has polled: it may
overwrite that of a newer capture, with an outcome that is true (`ShownCaptureExists`) but of another
job, and a failure so written makes the hook capture the page once more (`strays` in `NoNeedlessCapture`).

*Natural-language search.* `docs/reference/NL_SEARCH.md:150` has a hard daily cap: it is checked
before the query and charged after it, so queries in flight overrun it. Of two first queries of a day
(or two alike) the second to insert fails after its answer was streamed, and its cost is
not recorded, nor is that of a query whose visitor left. The limit of concurrent queries is
per worker process, and the queries that run when it is changed are not counted
under the new one (`SlotsComeBack` says that none is lost).

*Accounts.* `docs/USER_MANUAL.md:1509` and `docs/reference/CAPABILITY_ROLES.md:66` have at most one
holder of a capability role; `get_capability_holder` (`services/roles.py:43`) ignores inactive
holders, and nothing but a check keeps two transfers apart. "At most one pending" GDPR
request is a check and an insert as well. `routers/users.py:381` has a change of role end all active sessions; one that was being
opened when the change listed them stays, with the role there was, and so with every change of an account; two refreshes of one token both succeed; a profile edit loaded before an anonymisation writes
personal data back after it.

*OAI-PMH.* `docs/reference/OAI_PMH_PROVIDER.md:360-368` admits slight inconsistencies between pages. Exactly:
additions and updates repeat records and skip none (`HarvestIsWhole`), a withdrawal skips
others, an update takes a collection out of an `until` harvest, and a listing that fails ends
the list as if it were complete. Over several harvests, a publication that began before one and
committed after it carries a date earlier than that harvest, and an incremental `from` harvest
never sees it; nor a document overwritten without a change of the count, which updates no row.

## 6. Done, not modelled, next

Modelled: the modules of section 2. Of their components, these operations are left out:
the creation, deletion and metadata of collections; the transfer of capability roles and the queue
of GDPR requests (check and insert, as above); personal access and impersonation tokens;
deposits and pushes of a website's directory (the same calls over files on disk); the text
of pages, feeds, media and sitemaps; GetRecord, ListSets and Identify of OAI-PMH.

Not modelled, with the reason: webhooks and e-mail (each event is a task of its own, tried up to three
times; it may be delivered twice or out of order, and nothing in the archive depends on it);
notifications and the audit log (rows appended in the transaction they record); TEI
schemas, corpora, licenses, media, settings, embeds, policy pages (independent rows and text
rendering); the MCP server, Zotero, EVT and authority lookups (adapters of
external services); the front end; migrations and the command line.

Next: an action property for writes of the working tree that overwrite what their request has
not read.
