---------------------------- MODULE SearchPages ----------------------------
(***************************************************************************)
(* The pages of a public search engine (services/search_engines.py): a     *)
(* request marks the engine pending and queues a background task, which    *)
(* writes the search page, and the advanced one if there is to be one,     *)
(* from the row as it loaded it.  Deleting the engine leaves its files.    *)
(***************************************************************************)
EXTENDS Integers, FiniteSets

CONSTANTS
  Linkable,
  EngineBuilds,   \* build requests
  MaxRowRevs,   \* bound: changes of the engine
  MaxCrashes,     \* bound: builds whose process stops
  NoOwner,
  NoPage

VARIABLES
  owner,       \* the row, with its links, or NoOwner
  pages,       \* the files of the engine's directory
  job,        \* the background builds
  built,       \* history: the row that the last build to end well had loaded
  sole,        \* history: no build was requested while another was under way
  rowRevs,
  crashes

counts == <<rowRevs, crashes>>
searchPageVars == <<owner, pages, job, built, sole, rowRevs, crashes>>

-----------------------------------------------------------------------------
EngineStatuses == {"idle", "pending", "building", "done", "failed"}

\* rev stands for the columns the pages show; advanced, for
\* advanced_search_enabled.
Owner == [id : 0..MaxRowRevs, rev : 0..MaxRowRevs, links : SUBSET Linkable,
          advanced : BOOLEAN, status : EngineStatuses]

Page == [rev : 0..MaxRowRevs, links : SUBSET Linkable]

BuildTask == [at : {"none", "start", "main", "advanced", "finish", "fail",
                    "end", "dead"},
              row : Owner \cup {NoOwner}]

ASSUME SearchPagesAssumption ==
  /\ MaxRowRevs \in Nat /\ MaxCrashes \in Nat
  /\ NoOwner \notin Owner /\ NoPage \notin Page

SearchPagesTypeOK ==
  /\ owner \in Owner \cup {NoOwner}
  /\ pages \in [main : Page \cup {NoPage}, advanced : Page \cup {NoPage}]
  /\ job \in [EngineBuilds -> BuildTask]
  /\ built \in Owner \cup {NoOwner} /\ sole \in BOOLEAN
  /\ rowRevs \in 0..MaxRowRevs /\ crashes \in 0..MaxCrashes

-----------------------------------------------------------------------------
Quiet == \A b \in EngineBuilds : job[b].at \in {"none", "end", "dead"}

ReviseRow == rowRevs < MaxRowRevs /\ rowRevs' = rowRevs + 1

(* The row *)

CreateOwner == \E l \in SUBSET Linkable, a \in BOOLEAN :
  /\ owner = NoOwner /\ ReviseRow
  /\ owner' = [id |-> rowRevs + 1, rev |-> rowRevs + 1, links |-> l,
               advanced |-> a, status |-> "idle"]
  /\ UNCHANGED <<pages, job, built, sole, crashes>>

\* A build under way does not keep the row from being changed, or deleted.
UpdateOwner == \E l \in SUBSET Linkable, a \in BOOLEAN :
  /\ owner # NoOwner /\ ReviseRow
  /\ owner' = [owner EXCEPT !.rev = rowRevs + 1, !.links = l, !.advanced = a]
  /\ UNCHANGED <<pages, job, built, sole, crashes>>

\* The files stay.
DeleteOwner ==
  /\ owner # NoOwner /\ ReviseRow
  /\ owner' = NoOwner
  /\ UNCHANGED <<pages, job, built, sole, crashes>>

(* Builds *)

To(b, at) == job' = [job EXCEPT ![b].at = at]
Quit(b, at) == job' = [job EXCEPT ![b] = [at |-> at, row |-> NoOwner]]

\* Refused while a build is marked as building, and not while one is pending.
RequestBuild(b) ==
  /\ job[b].at = "none"
  /\ owner # NoOwner /\ owner.status # "building"
  /\ owner' = [owner EXCEPT !.status = "pending"]
  /\ To(b, "start")
  /\ sole' = (sole /\ Quiet)
  /\ UNCHANGED <<pages, built, counts>>

Gone(b) == owner = NoOwner \/ owner.id # job[b].row.id

\* The row with its links is loaded once; the status is written and committed.
StartBuild(b) ==
  /\ job[b].at = "start"
  /\ IF owner = NoOwner THEN Quit(b, "end") /\ UNCHANGED owner
     ELSE /\ owner' = [owner EXCEPT !.status = "building"]
          /\ job' = [job EXCEPT ![b] = [at |-> "main", row |-> owner']]
  /\ UNCHANGED <<pages, built, sole, counts>>

MainPage(r) == [rev |-> r.rev, links |-> {}]

WriteMain(b) ==
  /\ job[b].at = "main"
  /\ pages' = [pages EXCEPT !.main = MainPage(job[b].row)]
  /\ To(b, IF job[b].row.advanced THEN "advanced" ELSE "finish")
  /\ UNCHANGED <<owner, built, sole, counts>>

\* The advanced page offers the linked collections by name.
AdvancedPage(r) == [rev |-> r.rev, links |-> r.links]

\* Mutant: the row is read again for the second page.
ReadAgain(b) == IF Gone(b) THEN job[b].row ELSE owner

LoadedRow(b) == job[b].row

WriteAdvanced(b) ==
  /\ job[b].at = "advanced"
  /\ pages' = [pages EXCEPT !.advanced = AdvancedPage(LoadedRow(b))]
  /\ To(b, "finish")
  /\ UNCHANGED <<owner, built, sole, counts>>

FinishBuild(b) ==
  /\ job[b].at = "finish"
  /\ Quit(b, "end")
  /\ owner' = IF Gone(b) THEN owner ELSE [owner EXCEPT !.status = "done"]
  /\ built' = job[b].row
  /\ UNCHANGED <<pages, sole, counts>>

\* A page cannot be written.
BuildError(b) ==
  /\ job[b].at \in {"main", "advanced"}
  /\ To(b, "fail")
  /\ UNCHANGED <<owner, pages, built, sole, counts>>

\* The failure is recorded in the same session.
RecordFailedBuild(b) ==
  /\ job[b].at = "fail"
  /\ Quit(b, "end")
  /\ owner' = IF Gone(b) THEN owner ELSE [owner EXCEPT !.status = "failed"]
  /\ UNCHANGED <<pages, built, sole, counts>>

\* The process stops, or the session is past recording anything.
CrashBuild(b) ==
  /\ crashes < MaxCrashes /\ crashes' = crashes + 1
  /\ job[b].at \notin {"none", "end", "dead"}
  /\ Quit(b, "dead")
  /\ UNCHANGED <<owner, pages, built, sole, rowRevs>>

EngineBuildStep(b) == StartBuild(b) \/ WriteMain(b) \/ WriteAdvanced(b)
                        \/ FinishBuild(b) \/ RecordFailedBuild(b)

SearchPagesInit ==
  /\ owner = [id |-> 0, rev |-> 0, links |-> Linkable, advanced |-> TRUE,
              status |-> "idle"]
  /\ pages = [main |-> NoPage, advanced |-> NoPage]
  /\ job = [b \in EngineBuilds |-> [at |-> "none", row |-> NoOwner]]
  /\ built = NoOwner /\ sole = TRUE
  /\ rowRevs = 0 /\ crashes = 0

SearchPagesNext ==
  \/ CreateOwner \/ UpdateOwner \/ DeleteOwner
  \/ \E b \in EngineBuilds : RequestBuild(b) \/ EngineBuildStep(b)
                               \/ BuildError(b) \/ CrashBuild(b)

SearchPagesSpec == SearchPagesInit /\ [][SearchPagesNext]_searchPageVars

-----------------------------------------------------------------------------
(* Properties *)

\* Of an engine that is shown as done, the pages are all of one row, the one its
\* last build had loaded, though it was updated, or deleted and created again,
\* while they were written and whatever failed builds have left: the advanced
\* page offers the collections linked then, and if nothing was changed since,
\* those of the row as it is.  (Builds that were not requested while another was
\* under way.)
EnginePagesAgree ==
  owner # NoOwner /\ owner.status = "done" /\ sole =>
    /\ built # NoOwner /\ built.id = owner.id /\ built.rev <= owner.rev
    /\ pages.main = [rev |-> built.rev, links |-> {}]
    /\ built.advanced => pages.advanced = [rev |-> built.rev, links |-> built.links]
    /\ built.rev = owner.rev =>
         built.links = owner.links /\ built.advanced = owner.advanced
=============================================================================
