------------------------------ MODULE SiteBuild ------------------------------
(***************************************************************************)
(* The builds of a public website (services/websites.py): a request marks  *)
(* the site pending and queues a background task; the task renders the     *)
(* published snapshot into the site's directory, file by file, in its own  *)
(* session.  Nothing excludes two builds of one site, a publication in the *)
(* middle of a build, or the deletion of the site under one; and no build  *)
(* removes a file of an earlier one.                                       *)
(***************************************************************************)
EXTENDS Integers, Sequences, FiniteSets

CONSTANTS
  Docs,        \* documents of the linked collection
  Builds,      \* build requests, in the order they arrive
  Hideable,    \* the pages an update hides or shows
  MaxChanges,  \* bound: publications, updates, deletions, creations
  MaxDeaths,   \* bound: builds that fail or are killed
  NoSite,
  NoFile

ASSUME SiteBuildAssumption ==
  /\ Builds \subseteq Nat
  /\ Hideable \subseteq {"browse", "about", "search"}
  /\ MaxChanges \in Nat /\ MaxDeaths \in Nat

VARIABLES
  site,        \* the row of websites under the slug, or NoSite
  published,   \* the snapshot: the publication each document comes from
  files,       \* the site's directory
  build,       \* the background tasks
  alone,       \* history: no build has met another, or a deletion
  touched,     \* history: what changed since a build began, row or snapshot
  changes,     \* changes so far, which also number rows and bodies
  deaths       \* builds failed or killed so far

siteWorld == <<published, changes, deaths>>
siteVars == <<site, published, files, build, alone, touched, changes, deaths>>

-----------------------------------------------------------------------------
Modes == {"STATIC", "HYBRID", "DYNAMIC"}
BuildStatus == {"idle", "pending", "building", "done", "failed"}

\* What a page listed: browse.html and search.html may be hidden, and so may
\* a free page (about); index.html never is.
HtmlPages == {"index", "browse", "about", "search"}
Optional == HtmlPages \ {"index"}
Choices == {s \in SUBSET Optional : Optional \ Hideable \subseteq s}

\* id is the primary key: a site re-created under its slug has another.
Row == [id : 0..MaxChanges, mode : Modes, shown : SUBSET Optional,
        status : BuildStatus]

\* A body is the number of the publication it comes from; 0 is no document.
Body == 1..(MaxChanges + 1)
Snapshot == [Docs -> 0..(MaxChanges + 1)]
Published == {d \in Docs : published[d] # 0}

\* A page that could not be rendered says so; its text is indexed as empty.
ErrorPage == 0

NoFiles == [dir |-> FALSE, page |-> [p \in HtmlPages |-> NoFile],
            doc |-> [d \in Docs |-> NoFile], index |-> NoFile]

Files == [dir : BOOLEAN, page : [HtmlPages -> (SUBSET Docs) \cup {NoFile}],
          doc : [Docs -> Body \cup {ErrorPage, NoFile}],
          index : [Docs -> Body \cup {ErrorPage}] \cup {NoFile}]

BuildPlaces == {"none", "load", "mark", "list", "write", "finish", "rescue", "end",
           "dead"}

\* row is the instance of the task's session, listed and text what it fetched,
\* put the documents written, wrote the number of steps of its plan done.
Task == [at : BuildPlaces, row : Row \cup {NoSite}, listed : SUBSET Docs,
         text : [Docs -> Body \cup {ErrorPage, NoFile}], put : SUBSET Docs,
         wrote : 0..6]

NoTask == [at |-> "none", row |-> NoSite, listed |-> {},
           text |-> [d \in Docs |-> NoFile], put |-> {}, wrote |-> 0]

ASSUME NoSiteAssumption == NoSite \notin Row

SiteBuildTypeOK ==
  /\ site \in Row \cup {NoSite}
  /\ published \in Snapshot
  /\ files \in Files
  /\ build \in [Builds -> Task]
  /\ alone \in BOOLEAN /\ touched \subseteq {"row", "snapshot"}
  /\ changes \in 0..MaxChanges /\ deaths \in 0..MaxDeaths

-----------------------------------------------------------------------------
Live(b) == build[b].at \notin {"none", "end", "dead"}
Idle == \A b \in Builds : ~Live(b)

Move(b, at) == build' = [build EXCEPT ![b].at = at]

\* The task is left, with all it knows.
Leave(b, at) == build' = [build EXCEPT ![b] = [NoTask EXCEPT !.at = at]]

(* Requests *)

\* Mutant: a status the enum does not have.
Queued(s) == [s EXCEPT !.status = "queued"]

Requested(s) == [s EXCEPT !.status = "pending"]

\* trigger_build does not look at the status: a build in progress does not
\* refuse another.
TriggerBuild(b) ==
  /\ site # NoSite
  /\ build[b].at = "none" /\ \A c \in Builds : c < b => build[c].at # "none"
  /\ site' = Requested(site)
  /\ Move(b, "load")
  /\ alone' = (alone /\ Idle)
  /\ UNCHANGED <<files, touched, siteWorld>>

\* A publication replaces the snapshot: each document may come, go, change or
\* stay as it was.
Republish ==
  /\ changes < MaxChanges
  /\ changes' = changes + 1
  /\ \E s \in Snapshot :
       /\ \A d \in Docs : s[d] \in {0, published[d], changes + 2}
       /\ published' = s /\ s # published
  /\ touched' = touched \cup {"snapshot"}
  /\ UNCHANGED <<site, files, build, alone, deaths>>

\* PUT /websites/{slug}, and the requests on its pages.
UpdateSite ==
  /\ site # NoSite /\ changes < MaxChanges
  /\ \E m \in Modes, s \in Choices :
       site' = [site EXCEPT !.mode = m, !.shown = s]
  /\ changes' = changes + 1
  /\ touched' = touched \cup {"row"}
  /\ UNCHANGED <<published, files, build, alone, deaths>>

\* Mutant: the directory is left behind.
KeepFiles(f) == f

CleanUp(f) == NoFiles

DeleteSite ==
  /\ site # NoSite /\ changes < MaxChanges
  /\ files' = CleanUp(files)
  /\ site' = NoSite
  /\ alone' = (alone /\ Idle)
  /\ changes' = changes + 1
  /\ UNCHANGED <<published, build, touched, deaths>>

CreateSite ==
  /\ site = NoSite /\ changes < MaxChanges
  /\ changes' = changes + 1
  /\ \E m \in Modes, s \in Choices :
       site' = [id |-> changes + 1, mode |-> m, shown |-> s, status |-> "idle"]
  /\ touched' = touched \cup {"row"}
  /\ UNCHANGED <<published, files, build, alone, deaths>>

(* The task: run_build *)

\* The row, its pages and its indices are loaded once.
LoadSite(b) ==
  /\ build[b].at = "load"
  /\ IF site = NoSite THEN Leave(b, "rescue") /\ UNCHANGED touched
     ELSE /\ build' = [build EXCEPT ![b].row = site, ![b].at =
                         IF site.mode = "DYNAMIC" THEN "finish" ELSE "mark"]
          /\ touched' = {}
  /\ UNCHANGED <<site, files, alone, siteWorld>>

\* The session's UPDATE: by primary key, and of the status only if it differs
\* from the one the session last saw.
Stale(b) == site = NoSite \/ site.id # build[b].row.id

PutStatus(b, s) ==
  IF build[b].row.status = s THEN site ELSE [site EXCEPT !.status = s]

MarkBuilding(b) ==
  /\ build[b].at = "mark"
  /\ IF Stale(b) THEN Leave(b, "rescue") /\ UNCHANGED site
     ELSE /\ site' = PutStatus(b, "building")
          /\ build' = [build EXCEPT ![b].row.status = "building",
                                    ![b].at = "list"]
  /\ UNCHANGED <<files, alone, touched, siteWorld>>

\* The directory, and the query with titles, else a plain listing, else none.
ListDocs(b) ==
  /\ build[b].at = "list"
  /\ files' = [files EXCEPT !.dir = TRUE]
  /\ \E l \in {Published, {}} :
       build' = [build EXCEPT ![b].listed = l, ![b].at = "write"]
  /\ UNCHANGED <<site, alone, touched, siteWorld>>

\* The steps of a build, in order.
StaticPlan == <<"index", "browse", "docs", "about", "search", "search.json">>
HybridPlan == <<"index", "browse", "about">>

Plan(b) == IF build[b].row.mode = "STATIC" THEN StaticPlan ELSE HybridPlan

Doing(b, what) ==
  /\ build[b].at = "write" /\ files.dir /\ build[b].wrote < Len(Plan(b))
  /\ Plan(b)[build[b].wrote + 1] = what

Done(b) == build' = [build EXCEPT ![b].wrote = @ + 1]

\* A hidden page is skipped, and what an earlier build wrote of it stays.
WritePage(b) == \E p \in HtmlPages :
  /\ Doing(b, p)
  /\ files' = IF p = "index" \/ p \in build[b].row.shown
                THEN [files EXCEPT !.page[p] = build[b].listed] ELSE files
  /\ Done(b)
  /\ UNCHANGED <<site, alone, touched, siteWorld>>

Fetched(b) == {d \in Docs : build[b].text[d] # NoFile}

\* A document that is gone, or that eXist-db does not give, has an error page.
FetchDoc(b) == \E d \in build[b].listed \ Fetched(b), ok \in BOOLEAN :
  /\ Doing(b, "docs") /\ Fetched(b) = build[b].put
  /\ ok => d \in Published
  /\ build' = [build EXCEPT ![b].text[d] = IF ok THEN published[d] ELSE ErrorPage]
  /\ UNCHANGED <<site, files, alone, touched, siteWorld>>

\* Mutant: a document that could not be fetched is skipped.
SkipErrors(b, f) == [f EXCEPT !.doc = [d \in Docs |->
  IF d \in Fetched(b) \ build[b].put /\ build[b].text[d] # ErrorPage
    THEN build[b].text[d] ELSE @[d]]]

PutDocs(b, f) == [f EXCEPT !.doc = [d \in Docs |->
  IF d \in Fetched(b) \ build[b].put THEN build[b].text[d] ELSE @[d]]]

WriteDoc(b) ==
  /\ Doing(b, "docs") /\ Fetched(b) # build[b].put
  /\ files' = PutDocs(b, files)
  /\ build' = [build EXCEPT ![b].put = Fetched(b)]
  /\ UNCHANGED <<site, alone, touched, siteWorld>>

DocsWritten(b) ==
  /\ Doing(b, "docs") /\ build[b].put = build[b].listed
  /\ Done(b)
  /\ UNCHANGED <<site, files, alone, touched, siteWorld>>

\* Mutant: the bodies are fetched again for the index.
FetchedAgain(b) == [d \in Docs |-> published[d]]

\* The client-side index has the text of the pages, fetched with them.
Indexed(b) == [d \in Docs |-> IF d \in Fetched(b) THEN build[b].text[d]
                              ELSE ErrorPage]

WriteIndex(b) ==
  /\ Doing(b, "search.json")
  /\ files' = [files EXCEPT !.index = Indexed(b)]
  /\ Done(b)
  /\ UNCHANGED <<site, alone, touched, siteWorld>>

PlanDone(b) ==
  /\ build[b].at = "write" /\ build[b].wrote = Len(Plan(b))
  /\ Move(b, "finish")
  /\ UNCHANGED <<site, files, alone, touched, siteWorld>>

Finish(b) ==
  /\ build[b].at = "finish"
  /\ IF Stale(b) THEN Leave(b, "rescue") /\ UNCHANGED site
     ELSE site' = PutStatus(b, "done") /\ Leave(b, "end")
  /\ UNCHANGED <<files, alone, touched, siteWorld>>

\* The directory was deleted under the build: its next write fails.
LoseDirectory(b) ==
  /\ build[b].at = "write" /\ ~files.dir /\ build[b].wrote < Len(Plan(b))
  /\ Leave(b, "rescue")
  /\ UNCHANGED <<site, files, alone, touched, siteWorld>>

\* An error of the disk, of the database or of a transform.
FailSiteBuild(b) ==
  /\ deaths < MaxDeaths /\ deaths' = deaths + 1
  /\ build[b].at \in {"mark", "list", "write", "finish"}
  /\ Leave(b, "rescue")
  /\ UNCHANGED <<site, published, files, alone, touched, changes>>

\* Mutant: a build that failed before it was marked is not reported.
FailBuilding(s) == IF s.status = "building" THEN [s EXCEPT !.status = "failed"]
                   ELSE s

Failed(s) == [s EXCEPT !.status = "failed"]

\* A second session marks failed whatever site has the slug by now.
RescueBuild(b) ==
  /\ build[b].at = "rescue"
  /\ site' = IF site = NoSite THEN site ELSE Failed(site)
  /\ Leave(b, "end")
  /\ UNCHANGED <<files, alone, touched, siteWorld>>

\* The process stops, or the second session fails too.
KillBuild(b) ==
  /\ deaths < MaxDeaths /\ deaths' = deaths + 1
  /\ Live(b)
  /\ Leave(b, "dead")
  /\ UNCHANGED <<site, published, files, alone, touched, changes>>

BuildStep(b) ==
  \/ LoadSite(b) \/ MarkBuilding(b) \/ ListDocs(b) \/ WritePage(b)
  \/ FetchDoc(b) \/ WriteDoc(b) \/ DocsWritten(b) \/ WriteIndex(b)
  \/ PlanDone(b) \/ LoseDirectory(b) \/ Finish(b) \/ RescueBuild(b)

SiteBuildInit ==
  /\ site \in [id : {0}, mode : Modes, shown : {Optional}, status : {"idle"}]
  /\ published = [d \in Docs |-> 1]
  /\ files = NoFiles
  /\ build = [b \in Builds |-> NoTask]
  /\ alone = TRUE /\ touched = {}
  /\ changes = 0 /\ deaths = 0

SiteBuildNext ==
  \/ \E b \in Builds : TriggerBuild(b) \/ BuildStep(b) \/ FailSiteBuild(b)
                         \/ KillBuild(b)
  \/ Republish \/ UpdateSite \/ DeleteSite \/ CreateSite

SiteBuildSpec == SiteBuildInit /\ [][SiteBuildNext]_siteVars

SiteBuildFairSpec ==
  SiteBuildSpec /\ \A b \in Builds : WF_siteVars(BuildStep(b))

-----------------------------------------------------------------------------
(* Properties *)

\* The site is reported built and no build is at work on it.
Settled == site # NoSite /\ site.status = "done" /\ Idle

\* A build that ended well, alone, leaves what the snapshot and the row say,
\* whatever earlier builds, failed or killed ones among them, had left in the
\* directory: each page shown lists the snapshot (or nothing, when no listing
\* could be had), and each document listed has its body or an error page.
DoneSiteIsCurrent ==
  Settled /\ alone /\ touched = {} =>
    /\ site.mode # "DYNAMIC" =>
         /\ files.page["index"] \in {Published, {}}
         /\ "browse" \in site.shown => files.page["browse"] = files.page["index"]
    /\ site.mode = "STATIC" =>
         \A d \in files.page["index"] : files.doc[d] \in {published[d], ErrorPage}

\* What the client-side search finds is on the page it links to, even when a
\* publication changed the document in the middle of the build.  (A site made
\* static again by an update has the index of its last static build.)
SearchMatchesPages ==
  Settled /\ alone /\ "row" \notin touched /\ site.mode = "STATIC" =>
    \A d \in files.page["index"] : files.index[d] = files.doc[d]

\* The directory of a slug without a site is empty, and so is that of a new
\* site: what was built for a deleted one is never served as another's.
NoFilesInherited ==
  alone /\ Idle /\ (site = NoSite \/ site.status = "idle") => files = NoFiles

\* Every build requested comes to an end unless the process dies or the site
\* is deleted.
BuildsEnd ==
  (site # NoSite /\ site.status \in {"pending", "building"})
    ~> (site = NoSite \/ site.status \in {"done", "failed"}
          \/ \E b \in Builds : build[b].at = "dead")
=============================================================================
