---------------------------- MODULE ReadersProofs -----------------------------
(***************************************************************************)
(* Theorems about what is prepared for readers and harvesters:             *)
(* SearchPages, SiteBuild and Harvest, in this order.                      *)
(*                                                                         *)
(* Builds: as long as they are alone, the directory has what the place of  *)
(* the one under way says it has written of the row that it has loaded; a  *)
(* build that was left unfinished is followed by one that writes every     *)
(* file again.                                                             *)
(*                                                                         *)
(* Harvests: as long as nothing is lost, the records that match only grow, *)
(* in one order, so that the place of a record in the list never becomes   *)
(* an earlier one, and a record still to be given is always past the       *)
(* offset of the token (HarvestKnows).                                     *)
(***************************************************************************)
EXTENDS SearchPages, SiteBuild, Harvest, FiniteSetTheorems, SequenceTheorems,
        TLAPS

-----------------------------------------------------------------------------
(* The pages of an engine (SearchPages).  Every row that was loaded is what the *)
(* engine was, and what it still is if nothing was changed (RowsTrack), whoever *)
(* builds; while no build was requested during another, the one build there is  *)
(* has written what its place says of the row it has (Wrote), no build in       *)
(* progress sees a row that is done (Alone), and what is done shows the row     *)
(* that the last build had (Shown).                                             *)

Working == {"start", "main", "advanced", "finish", "fail"}

\* r was loaded of an engine that is now o, when no more than n changes were made.
Tracks(r, o, n) == r # NoOwner =>
  /\ r.id <= n /\ r.rev <= n
  /\ o # NoOwner /\ r.id = o.id =>
       /\ r.rev <= o.rev
       /\ r.rev = o.rev => r.links = o.links /\ r.advanced = o.advanced

RowsTrack ==
  /\ Tracks(owner, owner, rowRevs) /\ Tracks(built, owner, rowRevs)
  /\ \A b \in EngineBuilds : Tracks(job[b].row, owner, rowRevs)

Wrote(b) ==
  /\ job[b].at \in {"advanced", "finish"} => pages.main = MainPage(job[b].row)
  /\ job[b].at = "finish" /\ job[b].row.advanced =>
       pages.advanced = AdvancedPage(job[b].row)

Alone(b) == job[b].at \in Working =>
  /\ \A c \in EngineBuilds : job[c].at \in Working => c = b
  /\ owner # NoOwner => owner.status # "done"

\* What a done engine shows.
Shown ==
  owner # NoOwner /\ owner.status = "done" =>
    /\ built # NoOwner /\ built.id = owner.id
    /\ pages.main = MainPage(built)
    /\ built.advanced => pages.advanced = AdvancedPage(built)

\* A build that writes has loaded a row.
RowsLoaded == \A b \in EngineBuilds :
  job[b].at \in {"main", "advanced", "finish", "fail"} => job[b].row # NoOwner

BuildsKnow == sole => /\ \A b \in EngineBuilds : Wrote(b) /\ Alone(b)
                      /\ Shown

SearchPagesInv == SearchPagesTypeOK /\ RowsLoaded /\ RowsTrack /\ BuildsKnow

-----------------------------------------------------------------------------
LEMMA PagesStart == SearchPagesInit => SearchPagesInv
<1> SUFFICES ASSUME SearchPagesInit PROVE SearchPagesInv
  OBVIOUS
<1>1. 0 \in 0..MaxRowRevs /\ rowRevs \in 0..MaxRowRevs /\ crashes \in 0..MaxCrashes
  BY SearchPagesAssumption DEF SearchPagesInit
<1>2. /\ owner \in Owner /\ owner.rev <= rowRevs /\ owner.id <= rowRevs
      /\ owner.status = "idle"
  BY <1>1 DEF SearchPagesInit, Owner, EngineStatuses
<1>3. /\ job \in [EngineBuilds -> BuildTask]
      /\ \A b \in EngineBuilds : job[b].at = "none" /\ job[b].row = NoOwner
  BY DEF SearchPagesInit, BuildTask
<1>4. SearchPagesTypeOK
  BY <1>1, <1>2, <1>3 DEF SearchPagesInit, SearchPagesTypeOK
<1>5. RowsTrack
  BY <1>2, <1>3 DEF RowsTrack, Tracks, SearchPagesInit, Owner
<1>. QED
  BY <1>2, <1>3, <1>4, <1>5 DEF SearchPagesInv, RowsLoaded, BuildsKnow, Wrote, Alone,
     Working, Shown

\* A change of the row is later than any row that was loaded, and does not make
\* it done.
LEMMA RowChanges ==
  ASSUME SearchPagesInv, UNCHANGED <<pages, job, built, sole, crashes>>, ReviseRow,
         owner' \in Owner \cup {NoOwner},
         owner' # NoOwner =>
           /\ owner'.rev = rowRevs + 1
           /\ \/ owner'.id = rowRevs + 1 /\ owner'.status # "done"
              \/ owner # NoOwner /\ owner'.id = owner.id /\ owner'.status = owner.status
  PROVE  SearchPagesInv'
<1>1. rowRevs' = rowRevs + 1 /\ rowRevs' \in 0..MaxRowRevs /\ rowRevs \in Nat
  BY SearchPagesAssumption DEF ReviseRow, SearchPagesInv, SearchPagesTypeOK
<1>2. SearchPagesTypeOK'
  BY <1>1 DEF SearchPagesInv, SearchPagesTypeOK
<1>3. ASSUME NEW r \in Owner \cup {NoOwner}, Tracks(r, owner, rowRevs)
      PROVE  Tracks(r, owner', rowRevs')
  <2> SUFFICES ASSUME r # NoOwner PROVE Tracks(r, owner', rowRevs')
    BY DEF Tracks
  <2>1. r.id \in Nat /\ r.rev \in Nat /\ r.id <= rowRevs /\ r.rev <= rowRevs
    BY <1>3 DEF Owner, Tracks
  <2>. QED
    BY <1>1, <2>1 DEF Tracks
<1>4. Tracks(owner', owner', rowRevs')
  <2> SUFFICES ASSUME owner' # NoOwner PROVE Tracks(owner', owner', rowRevs')
    BY DEF Tracks
  <2>1. owner'.id <= rowRevs' /\ owner'.rev <= rowRevs' /\ owner'.rev <= owner'.rev
    <3>1. owner # NoOwner => owner.id \in Nat /\ owner.id <= rowRevs
      BY DEF SearchPagesInv, SearchPagesTypeOK, Owner, RowsTrack, Tracks
    <3>. QED
      BY <1>1, <3>1
  <2>. QED
    BY <2>1 DEF Tracks
<1>5. RowsTrack'
  BY <1>3, <1>4 DEF RowsTrack, SearchPagesInv, SearchPagesTypeOK, BuildTask
<1>6. RowsLoaded'
  BY DEF RowsLoaded, SearchPagesInv
<1>7. ASSUME sole PROVE (\A b \in EngineBuilds : Wrote(b) /\ Alone(b))' /\ Shown'
  <2>1. owner' # NoOwner /\ owner'.status = "done" =>
          owner # NoOwner /\ owner'.id = owner.id /\ owner.status = "done"
    OBVIOUS
  <2>2. Shown /\ \A b \in EngineBuilds : Wrote(b) /\ Alone(b)
    BY <1>7 DEF SearchPagesInv, BuildsKnow
  <2>3. (\A b \in EngineBuilds : Wrote(b))'
    BY <2>2 DEF Wrote
  <2>4. (\A b \in EngineBuilds : Alone(b))'
    BY <2>1, <2>2 DEF Alone
  <2>5. Shown'
    BY <2>1, <2>2 DEF Shown
  <2>. QED
    BY <2>3, <2>4, <2>5
<1>. QED
  BY <1>2, <1>5, <1>6, <1>7 DEF SearchPagesInv, BuildsKnow

LEMMA CreateKeeps == SearchPagesInv /\ CreateOwner => SearchPagesInv'
<1> SUFFICES ASSUME SearchPagesInv, CreateOwner PROVE SearchPagesInv'
  OBVIOUS
<1>1. PICK l \in SUBSET Linkable, a \in BOOLEAN :
        owner' = [id |-> rowRevs + 1, rev |-> rowRevs + 1, links |-> l,
                  advanced |-> a, status |-> "idle"]
  BY DEF CreateOwner
<1>2. rowRevs + 1 \in 0..MaxRowRevs
  BY SearchPagesAssumption DEF CreateOwner, ReviseRow, SearchPagesInv, SearchPagesTypeOK
<1>3. /\ owner' \in Owner /\ owner'.rev = rowRevs + 1 /\ owner'.id = rowRevs + 1
      /\ owner'.status = "idle"
  BY <1>1, <1>2 DEF Owner, EngineStatuses
<1>. QED
  BY <1>3, RowChanges DEF CreateOwner

LEMMA UpdateKeeps == SearchPagesInv /\ UpdateOwner => SearchPagesInv'
<1> SUFFICES ASSUME SearchPagesInv, UpdateOwner PROVE SearchPagesInv'
  OBVIOUS
<1>1. PICK l \in SUBSET Linkable, a \in BOOLEAN :
        owner' = [owner EXCEPT !.rev = rowRevs + 1, !.links = l, !.advanced = a]
  BY DEF UpdateOwner
<1>2. rowRevs + 1 \in 0..MaxRowRevs
  BY SearchPagesAssumption DEF UpdateOwner, ReviseRow, SearchPagesInv, SearchPagesTypeOK
<1>3. owner \in Owner /\ owner # NoOwner
  BY DEF UpdateOwner, SearchPagesInv, SearchPagesTypeOK
<1>4. /\ owner' \in Owner /\ owner'.rev = rowRevs + 1 /\ owner'.id = owner.id
      /\ owner'.status = owner.status
  BY <1>1, <1>2, <1>3 DEF Owner
<1>. QED
  BY <1>3, <1>4, RowChanges DEF UpdateOwner

LEMMA DeleteOwnerKeeps == SearchPagesInv /\ DeleteOwner => SearchPagesInv'
BY RowChanges DEF DeleteOwner

-----------------------------------------------------------------------------
\* A step of a build writes no more of the row than its status.
SameColumns(o, p) ==
  /\ o = NoOwner <=> p = NoOwner
  /\ o # NoOwner => /\ p.id = o.id /\ p.rev = o.rev
                    /\ p.links = o.links /\ p.advanced = o.advanced

LEMMA StillTracks ==
  ASSUME NEW o, NEW p, SameColumns(o, p)
  PROVE  /\ \A r, n : Tracks(r, o, n) => Tracks(r, p, n)
         /\ \A n : Tracks(o, o, n) => Tracks(p, p, n)
BY DEF SameColumns, Tracks

LEMMA StatusOnly ==
  ASSUME NEW o \in Owner, NEW st \in EngineStatuses
  PROVE  LET p == [o EXCEPT !.status = st] IN
         p \in Owner /\ p.status = st /\ p # NoOwner /\ SameColumns(o, p)
<1>1. [o EXCEPT !.status = st] \in Owner
  BY DEF Owner
<1>. QED
  BY <1>1, SearchPagesAssumption DEF SameColumns, Owner

LEMMA RequestKeeps ==
  ASSUME SearchPagesInv, NEW b \in EngineBuilds, RequestBuild(b)
  PROVE  SearchPagesInv'
<1>1. owner \in Owner /\ owner' = [owner EXCEPT !.status = "pending"]
  BY DEF RequestBuild, SearchPagesInv, SearchPagesTypeOK
<1>2. owner' \in Owner /\ owner'.status = "pending" /\ SameColumns(owner, owner')
  BY <1>1, StatusOnly DEF EngineStatuses
<1>3. /\ job' \in [EngineBuilds -> BuildTask] /\ job'[b].at = "start"
      /\ job'[b].row = job[b].row /\ \A c \in EngineBuilds \ {b} : job'[c] = job[c]
  BY DEF RequestBuild, To, SearchPagesInv, SearchPagesTypeOK, BuildTask
<1>4. SearchPagesTypeOK' /\ RowsLoaded'
  BY <1>2, <1>3 DEF RequestBuild, counts, SearchPagesInv, SearchPagesTypeOK, RowsLoaded
<1>5. RowsTrack'
  <2>1. \A c \in EngineBuilds : job'[c].row = job[c].row
    BY <1>3
  <2>. QED
    BY <1>2, <2>1, StillTracks DEF RequestBuild, counts, SearchPagesInv, RowsTrack
<1>6. ASSUME sole' PROVE (\A c \in EngineBuilds : Wrote(c) /\ Alone(c))' /\ Shown'
  <2>1. \A c \in EngineBuilds \ {b} : job'[c].at \in {"none", "end", "dead"}
    BY <1>3, <1>6 DEF RequestBuild, Quiet
  <2>2. (\A c \in EngineBuilds : Wrote(c) /\ Alone(c))'
    BY <1>2, <1>3, <2>1 DEF Wrote, Alone, Working
  <2>. QED
    BY <1>2, <2>2 DEF Shown
<1>. QED
  BY <1>4, <1>5, <1>6 DEF SearchPagesInv, BuildsKnow

\* A step of a build: the other builds do not move, and if it goes on, it has
\* what its new place says.
LEMMA BuildMoves ==
  ASSUME SearchPagesInv, NEW b \in EngineBuilds, job[b].at \in Working,
         UNCHANGED <<sole, rowRevs>>, crashes' \in 0..MaxCrashes,
         owner' \in Owner \cup {NoOwner}, SameColumns(owner, owner'),
         pages' \in [main : Page \cup {NoPage}, advanced : Page \cup {NoPage}],
         built' = built \/ built' = job[b].row,
         NEW t \in BuildTask, t.at \in Working => t.row # NoOwner,
         t.row \in {NoOwner, job[b].row, owner'}, job' = [job EXCEPT ![b] = t],
         sole => /\ Wrote(b)' /\ Shown'
                 /\ t.at \in Working /\ owner' # NoOwner => owner'.status # "done"
  PROVE  SearchPagesInv'
<1>1. job' \in [EngineBuilds -> BuildTask] /\ job'[b] = t
        /\ \A c \in EngineBuilds \ {b} : job'[c] = job[c]
  BY DEF SearchPagesInv, SearchPagesTypeOK
<1>2. SearchPagesTypeOK' /\ RowsLoaded'
  BY <1>1, SearchPagesAssumption DEF SearchPagesInv, SearchPagesTypeOK, RowsLoaded,
     Working, BuildTask
<1>3. RowsTrack'
  <2>1. /\ Tracks(owner', owner', rowRevs) /\ Tracks(built, owner', rowRevs)
        /\ \A c \in EngineBuilds : Tracks(job[c].row, owner', rowRevs)
    BY StillTracks DEF SearchPagesInv, RowsTrack
  <2>2. Tracks(t.row, owner', rowRevs)
    BY <2>1 DEF Tracks
  <2>. QED
    BY <1>1, <2>1, <2>2 DEF RowsTrack
<1>4. ASSUME sole PROVE (\A c \in EngineBuilds : Wrote(c) /\ Alone(c))'
  <2>1. \A c \in EngineBuilds : job[c].at \in Working => c = b
    BY <1>4 DEF SearchPagesInv, BuildsKnow, Alone
  <2>2. \A c \in EngineBuilds \ {b} : job'[c].at \notin Working
    BY <1>1, <2>1
  <2>3. \A c \in EngineBuilds \ {b} : (Wrote(c) /\ Alone(c))'
    BY <2>2 DEF Wrote, Alone, Working
  <2>4. Alone(b)'
    BY <1>1, <1>4, <2>2 DEF Alone
  <2>. QED
    BY <1>4, <2>3, <2>4
<1>. QED
  BY <1>2, <1>3, <1>4 DEF SearchPagesInv, BuildsKnow

\* What a build at work knows.
LEMMA BuildKnows ==
  ASSUME SearchPagesInv, NEW b \in EngineBuilds, job[b].at \in Working
  PROVE  /\ owner \in Owner \cup {NoOwner} /\ job[b] \in BuildTask
         /\ pages \in [main : Page \cup {NoPage}, advanced : Page \cup {NoPage}]
         /\ crashes \in 0..MaxCrashes
         /\ job[b].at # "start" => job[b].row \in Owner /\ job[b].row # NoOwner
         /\ sole => Wrote(b) /\ (owner # NoOwner => owner.status # "done")
BY DEF SearchPagesInv, SearchPagesTypeOK, BuildsKnow, Alone, RowsLoaded, Working, BuildTask

LEMMA Unwritten == SameColumns(owner, owner)
BY DEF SameColumns

LEMMA StartKeeps ==
  ASSUME SearchPagesInv, NEW b \in EngineBuilds, StartBuild(b)
  PROVE  SearchPagesInv'
<1>1. job[b].at = "start" /\ job[b].at \in Working
  BY DEF StartBuild, Working
<1>2. CASE owner = NoOwner
  <2> DEFINE t == [at |-> "end", row |-> NoOwner]
  <2>1. /\ t \in BuildTask /\ job' = [job EXCEPT ![b] = t] /\ job'[b] = t
        /\ t.at = "end" /\ t.row = NoOwner /\ owner' = owner
    BY <1>2 DEF StartBuild, Quit, BuildTask, SearchPagesInv, SearchPagesTypeOK
  <2>2. Wrote(b)' /\ Shown'
    BY <1>2, <2>1 DEF Wrote, Shown
  <2>. HIDE DEF t
  <2>. QED
    BY <1>1, <1>2, <2>1, <2>2, BuildKnows, BuildMoves, Unwritten
    DEF StartBuild, counts, Working
<1>3. CASE owner # NoOwner
  <2> DEFINE t == [at |-> "main", row |-> owner']
  <2>1. owner \in Owner /\ owner' = [owner EXCEPT !.status = "building"]
    BY <1>1, <1>3, BuildKnows DEF StartBuild
  <2>2. /\ owner' \in Owner /\ owner'.status = "building" /\ owner' # NoOwner
        /\ SameColumns(owner, owner')
    BY <2>1, StatusOnly DEF EngineStatuses
  <2>3. /\ t \in BuildTask /\ job' = [job EXCEPT ![b] = t] /\ job'[b] = t
        /\ t.at = "main" /\ t.row = owner'
    BY <1>3, <2>2 DEF StartBuild, BuildTask, SearchPagesInv, SearchPagesTypeOK
  <2>4. Wrote(b)' /\ Shown'
    BY <2>2, <2>3 DEF Wrote, Shown
  <2>. HIDE DEF t
  <2>. QED
    BY <1>1, <2>2, <2>3, <2>4, BuildKnows, BuildMoves DEF StartBuild, counts
<1>. QED
  BY <1>2, <1>3

LEMMA WriteMainKeeps ==
  ASSUME SearchPagesInv, NEW b \in EngineBuilds, WriteMain(b)
  PROVE  SearchPagesInv'
<1> DEFINE t == [job[b] EXCEPT !.at = IF job[b].row.advanced THEN "advanced" ELSE "finish"]
<1>1. job[b].at = "main" /\ job[b].at \in Working
  BY DEF WriteMain, Working
<1>2. /\ t \in BuildTask /\ job' = [job EXCEPT ![b] = t] /\ job'[b] = t
      /\ t.at \in {"advanced", "finish"} /\ t.row = job[b].row
      /\ t.at = "finish" => ~job[b].row.advanced
  BY DEF WriteMain, To, BuildTask, SearchPagesInv, SearchPagesTypeOK
<1>3. pages' \in [main : Page \cup {NoPage}, advanced : Page \cup {NoPage}]
        /\ pages'.main = MainPage(job[b].row)
  <2>1. MainPage(job[b].row) \in Page
    BY <1>1, BuildKnows DEF MainPage, Owner, Page
  <2>. QED
    BY <1>1, <2>1, BuildKnows DEF WriteMain
<1>4. sole => Wrote(b)' /\ Shown'
  BY <1>1, <1>2, <1>3, BuildKnows DEF Wrote, Shown, WriteMain
<1>. HIDE DEF t
<1>. QED
  BY <1>1, <1>2, <1>3, <1>4, BuildKnows, BuildMoves, Unwritten DEF WriteMain, counts

LEMMA WriteAdvancedKeeps ==
  ASSUME SearchPagesInv, NEW b \in EngineBuilds, WriteAdvanced(b)
  PROVE  SearchPagesInv'
<1> DEFINE t == [job[b] EXCEPT !.at = "finish"]
<1>1. job[b].at = "advanced" /\ job[b].at \in Working
  BY DEF WriteAdvanced, Working
<1>2. /\ t \in BuildTask /\ job' = [job EXCEPT ![b] = t] /\ job'[b] = t
      /\ t.at = "finish" /\ t.row = job[b].row
  BY DEF WriteAdvanced, To, BuildTask, SearchPagesInv, SearchPagesTypeOK
<1>3. /\ pages' \in [main : Page \cup {NoPage}, advanced : Page \cup {NoPage}]
      /\ pages'.main = pages.main /\ pages'.advanced = AdvancedPage(job[b].row)
  <2>1. AdvancedPage(job[b].row) \in Page
    BY <1>1, BuildKnows DEF AdvancedPage, Owner, Page
  <2>. QED
    BY <1>1, <2>1, BuildKnows DEF WriteAdvanced, LoadedRow
<1>4. sole => Wrote(b)' /\ Shown'
  BY <1>1, <1>2, <1>3, BuildKnows DEF Wrote, Shown, WriteAdvanced
<1>. HIDE DEF t
<1>. QED
  BY <1>1, <1>2, <1>3, <1>4, BuildKnows, BuildMoves, Unwritten DEF WriteAdvanced, counts

\* The task returns: what it marks as done shows its row.
LEMMA FinishKeeps ==
  ASSUME SearchPagesInv, NEW b \in EngineBuilds, FinishBuild(b)
  PROVE  SearchPagesInv'
<1> DEFINE t == [at |-> "end", row |-> NoOwner]
<1>1. job[b].at = "finish" /\ job[b].at \in Working
  BY DEF FinishBuild, Working
<1>2. /\ t \in BuildTask /\ job' = [job EXCEPT ![b] = t] /\ job'[b] = t
      /\ t.at = "end" /\ t.row = NoOwner
  BY DEF FinishBuild, Quit, BuildTask, SearchPagesInv, SearchPagesTypeOK
<1>3. CASE Gone(b)
  <2>1. owner' = owner
    BY <1>3 DEF FinishBuild
  <2>2. sole => Wrote(b)' /\ Shown'
    BY <1>1, <1>2, <2>1, BuildKnows DEF Wrote, Shown
  <2>. HIDE DEF t
  <2>. QED
    BY <1>1, <1>2, <2>1, <2>2, BuildKnows, BuildMoves, Unwritten
    DEF FinishBuild, counts, Working
<1>4. CASE ~Gone(b)
  <2>1. /\ owner \in Owner /\ owner' = [owner EXCEPT !.status = "done"]
        /\ owner.id = job[b].row.id
    BY <1>1, <1>4, BuildKnows DEF FinishBuild, Gone
  <2>2. owner' \in Owner /\ SameColumns(owner, owner')
    BY <2>1, StatusOnly DEF EngineStatuses
  <2>3. owner'.id = job[b].row.id
    BY <1>4, <2>1, <2>2 DEF SameColumns, Gone
  <2>4. sole => Wrote(b)' /\ Shown'
    BY <1>1, <1>2, <2>3, BuildKnows DEF FinishBuild, Wrote, Shown
  <2>. HIDE DEF t
  <2>. QED
    BY <1>1, <1>2, <2>2, <2>4, BuildKnows, BuildMoves DEF FinishBuild, counts, Working
<1>. QED
  BY <1>3, <1>4

LEMMA FailureKeeps ==
  ASSUME SearchPagesInv, NEW b \in EngineBuilds, BuildError(b) \/ RecordFailedBuild(b)
  PROVE  SearchPagesInv'
<1>1. CASE BuildError(b)
  <2> DEFINE t == [job[b] EXCEPT !.at = "fail"]
  <2>1. job[b].at \in {"main", "advanced"} /\ job[b].at \in Working
    BY <1>1 DEF BuildError, Working
  <2>2. /\ t \in BuildTask /\ job' = [job EXCEPT ![b] = t] /\ job'[b] = t
        /\ t.at = "fail" /\ t.row = job[b].row
    BY <1>1 DEF BuildError, To, BuildTask, SearchPagesInv, SearchPagesTypeOK
  <2>3. sole => Wrote(b)' /\ Shown'
    BY <1>1, <2>1, <2>2, BuildKnows DEF BuildError, Wrote, Shown
  <2>. HIDE DEF t
  <2>. QED
    BY <1>1, <2>1, <2>2, <2>3, BuildKnows, BuildMoves, Unwritten DEF BuildError, counts
<1>2. CASE RecordFailedBuild(b)
  <2> DEFINE t == [at |-> "end", row |-> NoOwner]
  <2>1. job[b].at = "fail" /\ job[b].at \in Working
    BY <1>2 DEF RecordFailedBuild, Working
  <2>2. /\ t \in BuildTask /\ job' = [job EXCEPT ![b] = t] /\ job'[b] = t
        /\ t.at = "end" /\ t.row = NoOwner
    BY <1>2 DEF RecordFailedBuild, Quit, BuildTask, SearchPagesInv, SearchPagesTypeOK
  <2>3. /\ owner' \in Owner \cup {NoOwner} /\ SameColumns(owner, owner')
        /\ owner' = owner \/ owner'.status = "failed"
    <3>1. CASE Gone(b)
      BY <1>2, <2>1, <3>1, BuildKnows, Unwritten DEF RecordFailedBuild
    <3>2. CASE ~Gone(b)
      <4>1. owner \in Owner /\ owner' = [owner EXCEPT !.status = "failed"]
        BY <1>2, <2>1, <3>2, BuildKnows DEF RecordFailedBuild, Gone
      <4>. QED
        BY <4>1, StatusOnly DEF EngineStatuses
    <3>. QED
      BY <3>1, <3>2
  <2>4. sole => Wrote(b)' /\ Shown'
    BY <2>1, <2>2, <2>3, BuildKnows DEF Wrote, Shown
  <2>. HIDE DEF t
  <2>. QED
    BY <1>2, <2>1, <2>2, <2>3, <2>4, BuildKnows, BuildMoves
    DEF RecordFailedBuild, counts, Working
<1>. QED
  BY <1>1, <1>2

LEMMA CrashKeeps ==
  ASSUME SearchPagesInv, NEW b \in EngineBuilds, CrashBuild(b)
  PROVE  SearchPagesInv'
<1> DEFINE t == [at |-> "dead", row |-> NoOwner]
<1>1. job[b].at \in Working
  BY DEF CrashBuild, Working, BuildTask, SearchPagesInv, SearchPagesTypeOK
<1>2. /\ t \in BuildTask /\ job' = [job EXCEPT ![b] = t] /\ job'[b] = t
      /\ t.at = "dead" /\ t.row = NoOwner
  BY DEF CrashBuild, Quit, BuildTask, SearchPagesInv, SearchPagesTypeOK
<1>3. crashes' \in 0..MaxCrashes
  BY SearchPagesAssumption DEF CrashBuild, SearchPagesInv, SearchPagesTypeOK
<1>4. sole => Wrote(b)' /\ Shown'
  BY <1>1, <1>2, BuildKnows DEF CrashBuild, Wrote, Shown
<1>. HIDE DEF t
<1>. QED
  BY <1>1, <1>2, <1>3, <1>4, BuildKnows, BuildMoves, Unwritten DEF CrashBuild, Working

LEMMA PagesStutter ==
  SearchPagesInv /\ UNCHANGED searchPageVars => SearchPagesInv'
BY DEF SearchPagesInv, SearchPagesTypeOK, RowsLoaded, RowsTrack, BuildsKnow, Wrote,
       Alone, Shown, searchPageVars, counts

LEMMA PagesStep == SearchPagesInv /\ [SearchPagesNext]_searchPageVars => SearchPagesInv'
<1> SUFFICES ASSUME SearchPagesInv, [SearchPagesNext]_searchPageVars PROVE SearchPagesInv'
  OBVIOUS
<1>1. CASE CreateOwner \/ UpdateOwner \/ DeleteOwner
  BY <1>1, CreateKeeps, UpdateKeeps, DeleteOwnerKeeps
<1>2. ASSUME NEW b \in EngineBuilds,
             RequestBuild(b) \/ EngineBuildStep(b) \/ BuildError(b) \/ CrashBuild(b)
      PROVE  SearchPagesInv'
  BY <1>2, RequestKeeps, StartKeeps, WriteMainKeeps, WriteAdvancedKeeps, FinishKeeps,
     FailureKeeps, CrashKeeps DEF EngineBuildStep
<1>. QED
  BY <1>1, <1>2, PagesStutter DEF SearchPagesNext

THEOREM SearchPagesInvariant == SearchPagesSpec => []SearchPagesInv
BY PagesStart, PagesStep, PTL DEF SearchPagesSpec

\* The engine's row, its pages and its builds keep their types (trigger_build,
\* _do_build).
THEOREM SearchPagesTypeCorrect == SearchPagesSpec => []SearchPagesTypeOK
<1>1. SearchPagesInv => SearchPagesTypeOK
  BY DEF SearchPagesInv
<1>. QED
  BY <1>1, SearchPagesInvariant, PTL

\* EnginePagesAgree for any collections, builds and changes of the engine: the
\* pages of an engine that is done are all of the row that its last build had
\* loaded, which was the engine's and is what it still is if it was not changed,
\* whatever was changed during the build and whatever failed or was killed before.
THEOREM EnginePagesStay == SearchPagesSpec => []EnginePagesAgree
<1>1. SearchPagesInv => EnginePagesAgree
  BY DEF SearchPagesInv, BuildsKnow, Shown, RowsTrack, Tracks, MainPage, AdvancedPage,
         EnginePagesAgree
<1>. QED
  BY <1>1, SearchPagesInvariant, PTL

-----------------------------------------------------------------------------
\* SiteBuild: what a build has loaded, fetched and written.

\* What a task has before its build writes anything.
Unstarted(b) ==
  build[b].listed = {} /\ build[b].put = {} /\ build[b].wrote = 0
    /\ Fetched(b) = {}

TaskKnows(b) ==
  /\ build[b].at \in {"none", "load", "mark", "list"} => Unstarted(b)
  /\ build[b].at \in {"mark", "list", "write", "finish"} => build[b].row \in Row
  /\ build[b].at \in {"mark", "list", "write"} => build[b].row.mode # "DYNAMIC"
  /\ build[b].at = "write" => build[b].wrote <= Len(Plan(b))
  /\ build[b].at = "finish" /\ build[b].row.mode # "DYNAMIC" =>
       build[b].wrote = Len(Plan(b))
  /\ build[b].put \subseteq Fetched(b) /\ Fetched(b) \subseteq build[b].listed
TasksKnow == \A b \in Builds : TaskKnows(b)

\* The next four hold as long as builds are alone.
OneBuild == \A b, c \in Builds : Live(b) /\ Live(c) => b = c
BuildIsAwaited ==
  ~Idle => site # NoSite /\ site.status \in {"pending", "building"}
EmptyAtFirst == site = NoSite \/ site.status = "idle" => files = NoFiles

RowHeld(b) == "row" \notin touched =>
  build[b].row.mode = site.mode /\ build[b].row.shown = site.shown
SnapshotHeld(b) == "snapshot" \notin touched =>
  /\ build[b].listed \in {Published, {}}
  /\ \A d \in Docs : build[b].text[d] \in {NoFile, ErrorPage, published[d]}
PagesWritten(b) ==
  /\ build[b].wrote >= 1 => files.page["index"] = build[b].listed
  /\ build[b].wrote >= 2 /\ "browse" \in build[b].row.shown =>
       files.page["browse"] = build[b].listed
DocsPut(b) ==
  /\ \A d \in build[b].put : files.doc[d] = build[b].text[d]
  /\ build[b].row.mode = "STATIC" /\ build[b].wrote >= 3 =>
       build[b].put = build[b].listed
  /\ build[b].row.mode = "STATIC" /\ build[b].wrote >= 6 =>
       \A d \in build[b].listed : files.index[d] = build[b].text[d]
WorkShows(b) ==
  /\ build[b].at \in {"mark", "list", "write", "finish"} => RowHeld(b)
  /\ build[b].at \in {"write", "finish"} /\ build[b].row.mode # "DYNAMIC" =>
       SnapshotHeld(b) /\ PagesWritten(b) /\ DocsPut(b)

AloneKnows ==
  OneBuild /\ BuildIsAwaited /\ EmptyAtFirst /\ \A b \in Builds : WorkShows(b)

SiteBuildInv ==
  /\ SiteBuildTypeOK /\ TasksKnow
  /\ alone => AloneKnows /\ DoneSiteIsCurrent /\ SearchMatchesPages

-----------------------------------------------------------------------------
LEMMA NoTaskType == \A at \in BuildPlaces : [NoTask EXCEPT !.at = at] \in Task
BY DEF NoTask, Task, BuildPlaces

LEMMA SiteStart == SiteBuildInit => SiteBuildInv
<1> SUFFICES ASSUME SiteBuildInit PROVE SiteBuildInv
  OBVIOUS
<1>1. \A b \in Builds : build[b] = NoTask
  BY DEF SiteBuildInit
<1>2. site \in Row /\ site # NoSite
  BY SiteBuildAssumption, NoSiteAssumption DEF SiteBuildInit, Row, Optional, HtmlPages, BuildStatus
<1>3. NoTask \in Task
  BY DEF NoTask, Task, BuildPlaces
<1>4. files \in Files
  BY DEF SiteBuildInit, NoFiles, Files
<1>5. published \in Snapshot
  BY SiteBuildAssumption DEF SiteBuildInit, Snapshot
<1>6. SiteBuildTypeOK
  BY <1>2, <1>3, <1>4, <1>5, SiteBuildAssumption DEF SiteBuildInit, SiteBuildTypeOK
<1>7. TasksKnow
  BY <1>1 DEF TasksKnow, TaskKnows, Unstarted, Fetched, NoTask
<1>8. Idle
  BY <1>1 DEF Idle, Live, NoTask
<1>9. AloneKnows
  <2>1. OneBuild /\ BuildIsAwaited
    BY <1>8 DEF OneBuild, BuildIsAwaited, Idle
  <2>2. EmptyAtFirst
    BY DEF SiteBuildInit, EmptyAtFirst
  <2>3. \A b \in Builds : WorkShows(b)
    BY <1>1 DEF WorkShows, NoTask
  <2>. QED
    BY <2>1, <2>2, <2>3 DEF AloneKnows
<1>10. ~Settled
  BY <1>2 DEF SiteBuildInit, Settled
<1>. QED
  BY <1>6, <1>7, <1>9, <1>10 DEF SiteBuildInv, DoneSiteIsCurrent, SearchMatchesPages

LEMMA TaskKept ==
  ASSUME NEW c \in Builds, build'[c] = build[c], TaskKnows(c)
  PROVE  TaskKnows(c)'
BY DEF TaskKnows, Unstarted, Fetched, Plan

LEMMA WorkKept ==
  ASSUME NEW c \in Builds, build'[c] = build[c], WorkShows(c),
         UNCHANGED <<site, published, files, touched>>
  PROVE  WorkShows(c)'
BY DEF WorkShows, RowHeld, SnapshotHeld, Published, PagesWritten, DocsPut

\* A task that is left knows nothing.
LEMMA TaskLeft ==
  ASSUME SiteBuildTypeOK, TasksKnow, NEW b \in Builds,
         NEW at \in {"end", "rescue", "dead"}, Leave(b, at)
  PROVE  build' \in [Builds -> Task] /\ TasksKnow' /\ build'[b].at = at
         /\ \A c \in Builds \ {b} : build'[c] = build[c]
<1> DEFINE left == [NoTask EXCEPT !.at = at]
<1>1. left \in Task /\ left.at = at /\ left.put = {} /\ left.listed = {}
      /\ left.text = [d \in Docs |-> NoFile]
  BY DEF NoTask, Task, BuildPlaces
<1>2. build' = [build EXCEPT ![b] = left] /\ build \in [Builds -> Task]
  BY DEF Leave, SiteBuildTypeOK
<1> HIDE DEF left
<1>3. build' \in [Builds -> Task] /\ build'[b] = left
      /\ \A c \in Builds \ {b} : build'[c] = build[c]
  BY <1>1, <1>2
<1>4. TaskKnows(b)'
  BY <1>1, <1>3 DEF TaskKnows, Fetched
<1>5. TasksKnow'
  BY <1>3, <1>4, TaskKept DEF TasksKnow
<1>. QED
  BY <1>1, <1>3, <1>5

\* When a build that is alone goes on, the other tasks rest.
LEMMA OthersRest ==
  ASSUME OneBuild, NEW b \in Builds, Live(b),
         \A c \in Builds \ {b} : build'[c] = build[c]
  PROVE  /\ OneBuild' /\ \A c \in Builds \ {b} : ~Live(c) /\ ~Live(c)'
         /\ \A c \in Builds \ {b} : WorkShows(c)'
BY DEF OneBuild, Live, WorkShows

LEMMA RowStatus ==
  ASSUME NEW r \in Row, NEW s \in BuildStatus
  PROVE  /\ [r EXCEPT !.status = s] \in Row /\ [r EXCEPT !.status = s] # NoSite
         /\ [r EXCEPT !.status = s].status = s
         /\ [r EXCEPT !.status = s].mode = r.mode
         /\ [r EXCEPT !.status = s].shown = r.shown
<1>1. [r EXCEPT !.status = s] \in Row
  BY DEF Row
<1>. QED
  BY <1>1, NoSiteAssumption DEF Row

\* Nothing is said of a site that is not reported built.
LEMMA NotSettled ==
  ASSUME ~Settled' PROVE DoneSiteIsCurrent' /\ SearchMatchesPages'
BY DEF DoneSiteIsCurrent, SearchMatchesPages

LEMMA TriggerKeeps ==
  ASSUME SiteBuildInv, NEW b \in Builds, TriggerBuild(b)
  PROVE  SiteBuildInv'
<1>. USE DEF SiteBuildInv
<1>1. site \in Row /\ build \in [Builds -> Task] /\ TaskKnows(b)
  BY DEF SiteBuildTypeOK, TriggerBuild, TasksKnow
<1>2. site' \in Row /\ site' # NoSite /\ site'.status = "pending"
  <2>1. "pending" \in BuildStatus
    BY DEF BuildStatus
  <2>. QED
    BY <1>1, <2>1, RowStatus DEF TriggerBuild, Requested
<1>3. /\ build' \in [Builds -> Task]
      /\ build'[b] = [build[b] EXCEPT !.at = "load"]
      /\ \A c \in Builds \ {b} : build'[c] = build[c]
  BY <1>1 DEF TriggerBuild, Move, Task, BuildPlaces
<1>4. SiteBuildTypeOK'
  BY <1>2, <1>3 DEF SiteBuildTypeOK, TriggerBuild, siteWorld
<1>5. TasksKnow'
  <2>1. TaskKnows(b)'
    BY <1>1, <1>3 DEF TriggerBuild, TaskKnows, Unstarted, Fetched, Task
  <2>. QED
    BY <1>3, <2>1, TaskKept DEF TasksKnow
<1>6. build'[b].at = "load" /\ Live(b)'
  BY <1>1, <1>3 DEF Live, Task
<1>7. ASSUME alone' PROVE AloneKnows'
  <2>1. alone /\ Idle
    BY <1>7 DEF TriggerBuild
  <2>2. \A c \in Builds \ {b} : ~Live(c)'
    BY <1>3, <2>1 DEF Idle, Live
  <2>3. OneBuild'
    BY <2>2 DEF OneBuild
  <2>4. BuildIsAwaited' /\ EmptyAtFirst'
    BY <1>2 DEF BuildIsAwaited, EmptyAtFirst
  <2>5. \A c \in Builds : WorkShows(c)'
    BY <1>6, <2>2 DEF WorkShows, Live
  <2>. QED
    BY <2>3, <2>4, <2>5 DEF AloneKnows
<1>8. ~Settled'
  BY <1>2 DEF Settled
<1>. QED
  BY <1>4, <1>5, <1>7, <1>8, NotSettled

LEMMA ChangeCounts ==
  ASSUME SiteBuildTypeOK, changes < MaxChanges, changes' = changes + 1
  PROVE  changes' \in 0..MaxChanges
BY SiteBuildAssumption DEF SiteBuildTypeOK

LEMMA RepublishKeeps ==
  ASSUME SiteBuildInv, Republish PROVE SiteBuildInv'
<1>. USE DEF SiteBuildInv
<1>1. published' \in Snapshot
  BY DEF Republish
<1>2. SiteBuildTypeOK'
  BY <1>1, ChangeCounts DEF SiteBuildTypeOK, Republish
<1>3. TasksKnow'
  BY TaskKept DEF Republish, TasksKnow
<1>4. "snapshot" \in touched'
  BY DEF Republish
<1>5. ASSUME alone PROVE AloneKnows'
  <2>1. OneBuild' /\ BuildIsAwaited' /\ EmptyAtFirst'
    BY <1>5 DEF AloneKnows, Republish, OneBuild, Live, BuildIsAwaited, Idle,
                EmptyAtFirst
  <2>2. ASSUME NEW c \in Builds PROVE WorkShows(c)'
    <3>1. WorkShows(c)
      BY <1>5 DEF AloneKnows
    <3>2. SnapshotHeld(c)'
      BY <1>4 DEF SnapshotHeld
    <3>. QED
      BY <3>1, <3>2 DEF WorkShows, RowHeld, PagesWritten, DocsPut, Republish
  <2>. QED
    BY <2>1, <2>2 DEF AloneKnows
<1>6. DoneSiteIsCurrent'
  BY <1>4 DEF DoneSiteIsCurrent
<1>7. ASSUME alone PROVE SearchMatchesPages'
  BY <1>7 DEF SearchMatchesPages, Settled, Idle, Live, Republish
<1>. QED
  BY <1>2, <1>3, <1>5, <1>6, <1>7 DEF Republish

LEMMA UpdateSiteKeeps ==
  ASSUME SiteBuildInv, UpdateSite PROVE SiteBuildInv'
<1>. USE DEF SiteBuildInv
<1>1. PICK m \in Modes, s \in Choices :
        site' = [site EXCEPT !.mode = m, !.shown = s]
  BY DEF UpdateSite
<1>2. site \in Row /\ site' \in Row /\ site'.status = site.status
  BY <1>1 DEF SiteBuildTypeOK, UpdateSite, Row, Choices
<1>3. SiteBuildTypeOK'
  BY <1>2, ChangeCounts DEF SiteBuildTypeOK, UpdateSite
<1>4. TasksKnow'
  BY TaskKept DEF UpdateSite, TasksKnow
<1>5. "row" \in touched' /\ touched' # {}
  BY DEF UpdateSite
<1>6. ASSUME alone PROVE AloneKnows'
  <2>1. OneBuild' /\ BuildIsAwaited' /\ EmptyAtFirst'
    BY <1>2, <1>6, NoSiteAssumption
       DEF AloneKnows, UpdateSite, OneBuild, Live, BuildIsAwaited, Idle,
           EmptyAtFirst
  <2>2. ASSUME NEW c \in Builds PROVE WorkShows(c)'
    <3>1. WorkShows(c)
      BY <1>6 DEF AloneKnows
    <3>2. RowHeld(c)'
      BY <1>5 DEF RowHeld
    <3>3. SnapshotHeld(c)' <=> SnapshotHeld(c)
      BY DEF SnapshotHeld, Published, UpdateSite
    <3>. QED
      BY <3>1, <3>2, <3>3 DEF WorkShows, PagesWritten, DocsPut, UpdateSite
  <2>. QED
    BY <2>1, <2>2 DEF AloneKnows
<1>7. DoneSiteIsCurrent' /\ SearchMatchesPages'
  BY <1>5 DEF DoneSiteIsCurrent, SearchMatchesPages
<1>. QED
  BY <1>3, <1>4, <1>6, <1>7 DEF UpdateSite

LEMMA DeleteSiteKeeps ==
  ASSUME SiteBuildInv, DeleteSite PROVE SiteBuildInv'
<1>. USE DEF SiteBuildInv
<1>1. files' = NoFiles /\ NoFiles \in Files
  BY DEF DeleteSite, CleanUp, NoFiles, Files
<1>2. SiteBuildTypeOK'
  BY <1>1, ChangeCounts DEF SiteBuildTypeOK, DeleteSite
<1>3. TasksKnow'
  BY TaskKept DEF DeleteSite, TasksKnow
<1>4. ASSUME alone' PROVE AloneKnows'
  <2>1. alone /\ Idle /\ Idle'
    BY <1>4 DEF DeleteSite, Idle, Live
  <2>2. OneBuild' /\ BuildIsAwaited' /\ EmptyAtFirst'
    BY <1>1, <2>1 DEF OneBuild, Idle, BuildIsAwaited, EmptyAtFirst
  <2>3. \A c \in Builds : WorkShows(c)'
    BY <2>1 DEF Idle, Live, WorkShows
  <2>. QED
    BY <2>2, <2>3 DEF AloneKnows
<1>5. ~Settled'
  BY DEF Settled, DeleteSite
<1>. QED
  BY <1>2, <1>3, <1>4, <1>5, NotSettled

LEMMA CreateSiteKeeps ==
  ASSUME SiteBuildInv, CreateSite PROVE SiteBuildInv'
<1>. USE DEF SiteBuildInv
<1>1. changes' \in 0..MaxChanges
  BY ChangeCounts DEF CreateSite
<1>2. site' \in Row /\ site'.status = "idle"
  BY <1>1 DEF CreateSite, Row, Choices, BuildStatus
<1>3. SiteBuildTypeOK'
  BY <1>1, <1>2 DEF SiteBuildTypeOK, CreateSite
<1>4. TasksKnow'
  BY TaskKept DEF CreateSite, TasksKnow
<1>5. ASSUME alone PROVE AloneKnows'
  <2>1. Idle /\ Idle'
    BY <1>5 DEF AloneKnows, BuildIsAwaited, CreateSite, Idle, Live
  <2>2. OneBuild' /\ BuildIsAwaited' /\ EmptyAtFirst'
    BY <1>5, <2>1 DEF AloneKnows, OneBuild, Idle, BuildIsAwaited, EmptyAtFirst,
                     CreateSite
  <2>3. \A c \in Builds : WorkShows(c)'
    BY <2>1 DEF Idle, Live, WorkShows
  <2>. QED
    BY <2>2, <2>3 DEF AloneKnows
<1>6. ~Settled'
  BY <1>2 DEF Settled
<1>. QED
  BY <1>3, <1>4, <1>5, <1>6, NotSettled DEF CreateSite

\* A build that is alone goes on, or ends and leaves the site reported.
LEMMA BuildGoesOn ==
  ASSUME SiteBuildInv, alone, NEW b \in Builds, Live(b),
         \A c \in Builds \ {b} : build'[c] = build[c],
         site' # NoSite, site'.status # "idle",
         Live(b)' => site'.status \in {"pending", "building"},
         WorkShows(b)'
  PROVE  AloneKnows'
<1>1. OneBuild
  BY DEF SiteBuildInv, AloneKnows
<1>2. OneBuild' /\ \A c \in Builds \ {b} : ~Live(c)' /\ WorkShows(c)'
  BY <1>1, OthersRest
<1>3. BuildIsAwaited'
  BY <1>2 DEF BuildIsAwaited, Idle
<1>4. EmptyAtFirst'
  BY DEF EmptyAtFirst
<1>. QED
  BY <1>2, <1>3, <1>4 DEF AloneKnows

LEMMA Awaited ==
  ASSUME SiteBuildInv, alone, NEW b \in Builds, Live(b)
  PROVE  /\ site \in Row /\ site # NoSite /\ site.status \in {"pending", "building"}
         /\ ~Settled
BY DEF SiteBuildInv, AloneKnows, BuildIsAwaited, Idle, SiteBuildTypeOK, Settled

\* A build that fails, or whose process stops, leaves no trace but its files.
LEMMA LeavingKeeps ==
  ASSUME SiteBuildInv, NEW b \in Builds, Live(b), NEW at \in {"rescue", "dead"},
         Leave(b, at), UNCHANGED <<site, published, files, alone, touched, changes>>,
         deaths' \in 0..MaxDeaths
  PROVE  SiteBuildInv'
<1>. USE DEF SiteBuildInv
<1>1. /\ build' \in [Builds -> Task] /\ TasksKnow' /\ build'[b].at = at
      /\ \A c \in Builds \ {b} : build'[c] = build[c]
  BY TaskLeft
<1>2. SiteBuildTypeOK'
  BY <1>1 DEF SiteBuildTypeOK
<1>3. ASSUME alone PROVE AloneKnows' /\ ~Settled'
  <2>1. site # NoSite /\ site.status \in {"pending", "building"}
    BY <1>3, Awaited
  <2>2. WorkShows(b)'
    BY <1>1 DEF WorkShows
  <2>. QED
    BY <1>1, <1>3, <2>1, <2>2, BuildGoesOn DEF Settled
<1>. QED
  BY <1>1, <1>2, <1>3, NotSettled

LEMMA FailSiteBuildKeeps ==
  ASSUME SiteBuildInv, NEW b \in Builds, FailSiteBuild(b) \/ KillBuild(b)
         \/ LoseDirectory(b)
  PROVE  SiteBuildInv'
<1>1. Live(b)
  BY DEF FailSiteBuild, KillBuild, LoseDirectory, Live
<1>2. deaths' \in 0..MaxDeaths
  BY SiteBuildAssumption DEF FailSiteBuild, KillBuild, LoseDirectory, siteWorld,
     SiteBuildInv, SiteBuildTypeOK
<1>3. PICK at \in {"rescue", "dead"} : Leave(b, at)
  BY DEF FailSiteBuild, KillBuild, LoseDirectory
<1>4. UNCHANGED <<site, published, files, alone, touched, changes>>
  BY DEF FailSiteBuild, KillBuild, LoseDirectory, siteWorld
<1>. QED
  BY <1>1, <1>2, <1>3, <1>4, LeavingKeeps

LEMMA LoadSiteKeeps ==
  ASSUME SiteBuildInv, NEW b \in Builds, LoadSite(b)
  PROVE  SiteBuildInv'
<1>. USE DEF SiteBuildInv
<1>1. Live(b) /\ build[b] \in Task /\ TaskKnows(b) /\ Unstarted(b)
  BY DEF LoadSite, Live, SiteBuildTypeOK, TasksKnow, TaskKnows
<1>2. CASE site = NoSite
  BY <1>1, <1>2, LeavingKeeps DEF LoadSite, siteWorld, SiteBuildTypeOK
<1>3. CASE site # NoSite
  <2>1. site \in Row
    BY <1>3 DEF SiteBuildTypeOK
  <2> DEFINE place == IF site.mode = "DYNAMIC" THEN "finish" ELSE "mark"
             loaded == [build[b] EXCEPT !.row = site, !.at = place]
  <2>2. build' = [build EXCEPT ![b] = loaded] /\ touched' = {}
    BY <1>3 DEF LoadSite
  <2>3. /\ loaded \in Task /\ loaded.row = site /\ loaded.at = place
        /\ loaded.listed = build[b].listed /\ loaded.put = build[b].put
        /\ loaded.text = build[b].text /\ loaded.wrote = build[b].wrote
    BY <1>1, <2>1 DEF Task, BuildPlaces
  <2> HIDE DEF loaded
  <2>4. /\ build' \in [Builds -> Task] /\ build'[b] = loaded
        /\ \A c \in Builds \ {b} : build'[c] = build[c]
    BY <2>2, <2>3 DEF SiteBuildTypeOK
  <2>5. SiteBuildTypeOK'
    BY <2>2, <2>4 DEF SiteBuildTypeOK, LoadSite, siteWorld
  <2>6. TaskKnows(b)'
    BY <1>1, <2>1, <2>3, <2>4 DEF TaskKnows, Unstarted, Fetched
  <2>7. TasksKnow'
    BY <2>4, <2>6, TaskKept DEF TasksKnow
  <2>8. ASSUME alone PROVE AloneKnows' /\ ~Settled'
    <3>1. site' = site /\ site.status \in {"pending", "building"}
      BY <1>1, <2>8, Awaited DEF LoadSite
    <3>2. WorkShows(b)'
      BY <2>3, <2>4, <3>1 DEF WorkShows, RowHeld
    <3>. QED
      BY <1>1, <1>3, <2>4, <2>8, <3>1, <3>2, BuildGoesOn DEF Settled
  <2>. QED
    BY <2>5, <2>7, <2>8, NotSettled DEF LoadSite
<1>. QED
  BY <1>2, <1>3

LEMMA PutStatusType ==
  ASSUME site \in Row, NEW b \in Builds, NEW s \in BuildStatus
  PROVE  /\ PutStatus(b, s) \in Row /\ PutStatus(b, s) # NoSite
         /\ PutStatus(b, s) = site \/ PutStatus(b, s).status = s
         /\ PutStatus(b, s).mode = site.mode /\ PutStatus(b, s).shown = site.shown
BY RowStatus, NoSiteAssumption DEF PutStatus

LEMMA MarkBuildingKeeps ==
  ASSUME SiteBuildInv, NEW b \in Builds, MarkBuilding(b)
  PROVE  SiteBuildInv'
<1>. USE DEF SiteBuildInv
<1>1. /\ Live(b) /\ build[b] \in Task /\ TaskKnows(b) /\ Unstarted(b)
      /\ build[b].row \in Row /\ build[b].row.mode # "DYNAMIC"
  BY DEF MarkBuilding, Live, SiteBuildTypeOK, TasksKnow, TaskKnows
<1>2. CASE Stale(b)
  BY <1>1, <1>2, LeavingKeeps DEF MarkBuilding, siteWorld, SiteBuildTypeOK
<1>3. CASE ~Stale(b)
  <2>1. site \in Row
    BY <1>3 DEF SiteBuildTypeOK, Stale
  <2>2. "building" \in BuildStatus
    BY DEF BuildStatus
  <2>3. /\ site' \in Row /\ site' # NoSite
        /\ site' = site \/ site'.status = "building"
        /\ site'.mode = site.mode /\ site'.shown = site.shown
    BY <1>3, <2>1, <2>2, PutStatusType DEF MarkBuilding
  <2> DEFINE row == [build[b].row EXCEPT !.status = "building"]
             marked == [build[b] EXCEPT !.row = row, !.at = "list"]
  <2>4. build' = [build EXCEPT ![b] = marked]
    BY <1>3 DEF MarkBuilding
  <2>5. row \in Row /\ row.mode = build[b].row.mode /\ row.shown = build[b].row.shown
    BY <1>1, <2>2, RowStatus
  <2> HIDE DEF row
  <2>6. /\ marked \in Task /\ marked.row = row /\ marked.at = "list"
        /\ marked.listed = build[b].listed /\ marked.put = build[b].put
        /\ marked.text = build[b].text /\ marked.wrote = build[b].wrote
    BY <1>1, <2>5 DEF Task, BuildPlaces
  <2> HIDE DEF marked
  <2>7. /\ build' \in [Builds -> Task] /\ build'[b] = marked
        /\ \A c \in Builds \ {b} : build'[c] = build[c]
    BY <2>4, <2>6 DEF SiteBuildTypeOK
  <2>8. SiteBuildTypeOK'
    BY <2>3, <2>7 DEF SiteBuildTypeOK, MarkBuilding, siteWorld
  <2>9. TaskKnows(b)'
    BY <1>1, <2>5, <2>6, <2>7 DEF TaskKnows, Unstarted, Fetched
  <2>10. TasksKnow'
    BY <2>7, <2>9, TaskKept DEF TasksKnow
  <2>11. ASSUME alone PROVE AloneKnows' /\ ~Settled'
    <3>1. site'.status \in {"pending", "building"}
      BY <1>1, <2>3, <2>11, Awaited
    <3>2. WorkShows(b)
      BY <2>11 DEF AloneKnows
    <3>3. WorkShows(b)'
      BY <2>3, <2>5, <2>6, <2>7, <3>2 DEF WorkShows, RowHeld, MarkBuilding
    <3>. QED
      BY <1>1, <2>3, <2>7, <2>11, <3>1, <3>3, BuildGoesOn DEF Settled
  <2>. QED
    BY <2>8, <2>10, <2>11, NotSettled DEF MarkBuilding
<1>. QED
  BY <1>2, <1>3

LEMMA ListDocsKeeps ==
  ASSUME SiteBuildInv, NEW b \in Builds, ListDocs(b)
  PROVE  SiteBuildInv'
<1>. USE DEF SiteBuildInv
<1>1. /\ Live(b) /\ build[b] \in Task /\ TaskKnows(b) /\ Unstarted(b)
      /\ build[b].row \in Row /\ build[b].row.mode # "DYNAMIC"
  BY DEF ListDocs, Live, SiteBuildTypeOK, TasksKnow, TaskKnows
<1>2. PICK l \in {Published, {}} :
        build' = [build EXCEPT ![b].listed = l, ![b].at = "write"]
  BY DEF ListDocs
<1> DEFINE listing == [build[b] EXCEPT !.listed = l, !.at = "write"]
<1>3. /\ listing \in Task /\ listing.row = build[b].row /\ listing.at = "write"
      /\ listing.listed = l /\ listing.put = build[b].put
      /\ listing.text = build[b].text /\ listing.wrote = build[b].wrote
  BY <1>1 DEF Task, BuildPlaces, Published
<1>4. build' = [build EXCEPT ![b] = listing]
  BY <1>2
<1> HIDE DEF listing
<1>5. /\ build' \in [Builds -> Task] /\ build'[b] = listing
      /\ \A c \in Builds \ {b} : build'[c] = build[c]
  BY <1>3, <1>4 DEF SiteBuildTypeOK
<1>6. files' \in Files /\ files'.page = files.page /\ files'.doc = files.doc
      /\ files'.index = files.index
  BY DEF SiteBuildTypeOK, Files, ListDocs
<1>7. SiteBuildTypeOK'
  BY <1>5, <1>6 DEF SiteBuildTypeOK, ListDocs, siteWorld
<1>8. TaskKnows(b)'
  <2>1. Len(Plan(b)') >= 0
    BY DEF Plan, StaticPlan, HybridPlan
  <2>. QED
    BY <1>1, <1>3, <1>5, <2>1 DEF TaskKnows, Unstarted, Fetched
<1>9. TasksKnow'
  BY <1>5, <1>8, TaskKept DEF TasksKnow
<1>10. ASSUME alone PROVE AloneKnows' /\ ~Settled'
  <2>1. site' = site /\ site \in Row /\ site # NoSite
        /\ site.status \in {"pending", "building"}
    BY <1>1, <1>10, Awaited DEF ListDocs
  <2>2. RowHeld(b)'
    BY <1>3, <1>5, <1>10 DEF AloneKnows, WorkShows, RowHeld, ListDocs
  <2>3. SnapshotHeld(b)'
    BY <1>1, <1>2, <1>3, <1>5 DEF SnapshotHeld, Unstarted, Fetched, Published, ListDocs, siteWorld
  <2>4. PagesWritten(b)' /\ DocsPut(b)'
    BY <1>1, <1>3, <1>5 DEF PagesWritten, DocsPut, Unstarted
  <2>5. WorkShows(b)'
    BY <2>2, <2>3, <2>4 DEF WorkShows
  <2>. QED
    BY <1>1, <1>5, <1>10, <2>1, <2>5, BuildGoesOn DEF Settled
<1>. QED
  BY <1>7, <1>9, <1>10, NotSettled DEF ListDocs

\* Where a build is in its plan.
LEMMA PlanSteps ==
  ASSUME NEW b \in Builds, build[b] \in Task, build[b].row \in Row,
         build[b].row.mode # "DYNAMIC", NEW what, Doing(b, what)
  PROVE  /\ build[b].at = "write" /\ build[b].wrote \in 0..5
         /\ build[b].wrote + 1 <= Len(Plan(b))
         /\ what = "index" <=> build[b].wrote = 0
         /\ what = "browse" <=> build[b].wrote = 1
         /\ what = "docs" <=> build[b].row.mode = "STATIC" /\ build[b].wrote = 2
         /\ what = "search.json" <=>
              build[b].row.mode = "STATIC" /\ build[b].wrote = 5
<1>1. build[b].row.mode = "STATIC" \/ build[b].row.mode = "HYBRID"
  BY DEF Row, Modes
<1>2. build[b].wrote \in 0..6 /\ build[b].at = "write"
  BY DEF Task, Doing
<1>3. CASE build[b].row.mode = "STATIC"
  <2>1. Plan(b) = <<"index", "browse", "docs", "about", "search", "search.json">>
    BY <1>3 DEF Plan, StaticPlan
  <2>2. Len(Plan(b)) = 6
    BY <2>1
  <2>3. build[b].wrote \in 0..5
    BY <1>2, <2>2 DEF Doing
  <2>4. what = <<"index", "browse", "docs", "about", "search", "search.json">>
                 [build[b].wrote + 1]
    BY <2>1 DEF Doing
  <2>. QED
    BY <1>2, <1>3, <2>2, <2>3, <2>4
<1>4. CASE build[b].row.mode = "HYBRID"
  <2>1. Plan(b) = <<"index", "browse", "about">>
    BY <1>4 DEF Plan, HybridPlan
  <2>2. Len(Plan(b)) = 3
    BY <2>1
  <2>3. build[b].wrote \in 0..2
    BY <1>2, <2>2 DEF Doing
  <2>4. what = <<"index", "browse", "about">>[build[b].wrote + 1]
    BY <2>1 DEF Doing
  <2>. QED
    BY <1>2, <1>4, <2>2, <2>3, <2>4
<1>. QED
  BY <1>1, <1>3, <1>4

\* A step of the plan of a build that writes: its task as it becomes, and what
\* the files then show.
LEMMA WritingKeeps ==
  ASSUME SiteBuildInv, NEW b \in Builds, build[b].at = "write",
         NEW task \in Task, build' = [build EXCEPT ![b] = task],
         task.at \in {"write", "finish"}, task.row = build[b].row,
         task.wrote <= Len(Plan(b)),
         task.at = "finish" => task.wrote = Len(Plan(b)),
         task.put \subseteq {d \in Docs : task.text[d] # NoFile},
         {d \in Docs : task.text[d] # NoFile} \subseteq task.listed,
         files' \in Files, UNCHANGED <<site, alone, touched, siteWorld>>,
         alone => SnapshotHeld(b)' /\ PagesWritten(b)' /\ DocsPut(b)'
  PROVE  SiteBuildInv'
<1>. USE DEF SiteBuildInv
<1>1. /\ Live(b) /\ build[b] \in Task /\ TaskKnows(b)
      /\ build[b].row \in Row /\ build[b].row.mode # "DYNAMIC"
  BY DEF Live, SiteBuildTypeOK, TasksKnow, TaskKnows
<1>2. /\ build' \in [Builds -> Task] /\ build'[b] = task
      /\ \A c \in Builds \ {b} : build'[c] = build[c]
  BY DEF SiteBuildTypeOK
<1>3. SiteBuildTypeOK'
  BY <1>2 DEF SiteBuildTypeOK, siteWorld
<1>4. TaskKnows(b)'
  BY <1>1, <1>2 DEF TaskKnows, Fetched, Plan
<1>5. TasksKnow'
  BY <1>2, <1>4, TaskKept DEF TasksKnow
<1>6. ASSUME alone PROVE AloneKnows' /\ ~Settled'
  <2>1. site # NoSite /\ site.status \in {"pending", "building"}
    BY <1>1, <1>6, Awaited
  <2>2. RowHeld(b)'
    BY <1>2, <1>6 DEF AloneKnows, WorkShows, RowHeld
  <2>3. WorkShows(b)'
    BY <1>6, <2>2 DEF WorkShows
  <2>. QED
    BY <1>1, <1>2, <1>6, <2>1, <2>3, BuildGoesOn DEF Settled
<1>. QED
  BY <1>3, <1>5, <1>6, NotSettled

\* What is known of a build that writes.
LEMMA Writing ==
  ASSUME SiteBuildInv, NEW b \in Builds, build[b].at = "write"
  PROVE  /\ build[b] \in Task /\ TaskKnows(b)
         /\ build[b].row \in Row /\ build[b].row.mode # "DYNAMIC"
         /\ files \in Files
         /\ alone => SnapshotHeld(b) /\ PagesWritten(b) /\ DocsPut(b)
BY DEF SiteBuildInv, SiteBuildTypeOK, TasksKnow, TaskKnows, AloneKnows, WorkShows

\* The task after a step of its plan.
LEMMA Further ==
  ASSUME NEW t \in Task, t.wrote \in 0..5
  PROVE  LET further == [t EXCEPT !.wrote = @ + 1] IN
         /\ further \in Task /\ further.at = t.at /\ further.row = t.row
         /\ further.listed = t.listed /\ further.text = t.text
         /\ further.put = t.put /\ further.wrote = t.wrote + 1
BY DEF Task

LEMMA WritePageKeeps ==
  ASSUME SiteBuildInv, NEW b \in Builds, WritePage(b)
  PROVE  SiteBuildInv'
<1>1. PICK p \in HtmlPages :
        /\ Doing(b, p) /\ Done(b)
        /\ files' = IF p = "index" \/ p \in build[b].row.shown
                      THEN [files EXCEPT !.page[p] = build[b].listed] ELSE files
  BY DEF WritePage
<1>2. build[b].at = "write" /\ p # "docs" /\ p # "search.json"
  BY <1>1 DEF Doing, HtmlPages
<1>3. /\ build[b] \in Task /\ TaskKnows(b) /\ files \in Files
      /\ build[b].row \in Row /\ build[b].row.mode # "DYNAMIC"
      /\ alone => SnapshotHeld(b) /\ PagesWritten(b) /\ DocsPut(b)
  BY <1>2, Writing
<1>4. /\ build[b].wrote \in 0..5 /\ build[b].wrote + 1 <= Len(Plan(b))
      /\ p = "index" <=> build[b].wrote = 0
      /\ p = "browse" <=> build[b].wrote = 1
      /\ ~(build[b].row.mode = "STATIC" /\ build[b].wrote = 2)
      /\ ~(build[b].row.mode = "STATIC" /\ build[b].wrote = 5)
  BY <1>1, <1>2, <1>3, PlanSteps
<1> DEFINE task == [build[b] EXCEPT !.wrote = @ + 1]
<1>5. /\ task \in Task /\ task.at = "write" /\ task.row = build[b].row
      /\ task.listed = build[b].listed /\ task.text = build[b].text
      /\ task.put = build[b].put /\ task.wrote = build[b].wrote + 1
  BY <1>2, <1>3, <1>4, Further
<1>6. build' = [build EXCEPT ![b] = task]
  BY <1>1 DEF Done
<1> HIDE DEF task
<1>7. build'[b] = task
  BY <1>6 DEF SiteBuildInv, SiteBuildTypeOK
<1>8. /\ files' \in Files /\ files'.doc = files.doc /\ files'.index = files.index
      /\ \A q \in HtmlPages \ {p} : files'.page[q] = files.page[q]
      /\ p = "index" \/ p \in build[b].row.shown =>
           files'.page[p] = build[b].listed
  <2>1. build[b].listed \in SUBSET Docs
    BY <1>3 DEF Task
  <2>. QED
    BY <1>1, <1>3, <2>1 DEF Files
<1>9. UNCHANGED <<site, alone, touched, siteWorld>>
  BY DEF WritePage
<1>10. ASSUME alone PROVE SnapshotHeld(b)' /\ PagesWritten(b)' /\ DocsPut(b)'
  <2>1. SnapshotHeld(b)'
    BY <1>3, <1>5, <1>7, <1>9, <1>10 DEF SnapshotHeld, Published, siteWorld
  <2>2. PagesWritten(b)'
    <3>1. files'.page["index"] = build[b].listed
      BY <1>3, <1>4, <1>8, <1>10 DEF PagesWritten, HtmlPages
    <3>2. ASSUME build[b].wrote + 1 >= 2, "browse" \in build[b].row.shown
          PROVE  files'.page["browse"] = build[b].listed
      BY <1>3, <1>4, <1>8, <1>10, <3>2 DEF PagesWritten, HtmlPages
    <3>. QED
      BY <1>5, <1>7, <3>1, <3>2 DEF PagesWritten
  <2>3. DocsPut(b)'
    BY <1>3, <1>4, <1>5, <1>7, <1>8, <1>10 DEF DocsPut
  <2>. QED
    BY <2>1, <2>2, <2>3
<1>. QED
  BY <1>2, <1>3, <1>4, <1>5, <1>6, <1>8, <1>9, <1>10, WritingKeeps
     DEF TaskKnows, Fetched

LEMMA FetchDocKeeps ==
  ASSUME SiteBuildInv, NEW b \in Builds, FetchDoc(b)
  PROVE  SiteBuildInv'
<1>1. PICK d \in build[b].listed \ Fetched(b), ok \in BOOLEAN :
        /\ Doing(b, "docs") /\ Fetched(b) = build[b].put
        /\ ok => d \in Published
        /\ build' = [build EXCEPT ![b].text[d] = IF ok THEN published[d]
                                                 ELSE ErrorPage]
  BY DEF FetchDoc
<1>2. build[b].at = "write"
  BY <1>1 DEF Doing
<1>3. /\ build[b] \in Task /\ TaskKnows(b) /\ files \in Files
      /\ build[b].row \in Row /\ build[b].row.mode # "DYNAMIC"
      /\ alone => SnapshotHeld(b) /\ PagesWritten(b) /\ DocsPut(b)
  BY <1>2, Writing
<1>4. build[b].wrote = 2 /\ d \in Docs
  BY <1>1, <1>3, PlanSteps DEF Task
<1> DEFINE got == IF ok THEN published[d] ELSE ErrorPage
<1>5. /\ got \in Body \cup {ErrorPage} /\ got \in {ErrorPage, published[d]}
      /\ build' = [build EXCEPT ![b].text[d] = got]
  <2>1. ok => published[d] \in Body
    BY <1>1, <1>4, SiteBuildAssumption
       DEF SiteBuildInv, SiteBuildTypeOK, Snapshot, Published, Body
  <2>. QED
    BY <1>1, <2>1
<1> HIDE DEF got
<1> DEFINE task == [build[b] EXCEPT !.text[d] = got]
<1>6. /\ task \in Task /\ task.at = "write" /\ task.row = build[b].row
      /\ task.listed = build[b].listed /\ task.put = build[b].put
      /\ task.wrote = build[b].wrote
      /\ task.text = [build[b].text EXCEPT ![d] = got]
  BY <1>2, <1>3, <1>4, <1>5 DEF Task
<1>7. build' = [build EXCEPT ![b] = task]
  BY <1>5
<1> HIDE DEF task
<1>8. build'[b] = task
  BY <1>7 DEF SiteBuildInv, SiteBuildTypeOK
<1>9. /\ task.text[d] = got /\ d \notin build[b].put /\ d \in build[b].listed
      /\ \A e \in Docs \ {d} : task.text[e] = build[b].text[e]
  BY <1>1, <1>3, <1>4, <1>6 DEF Task
<1>10. UNCHANGED <<site, files, alone, touched, siteWorld>>
  BY DEF FetchDoc
<1>11. ASSUME alone PROVE SnapshotHeld(b)' /\ PagesWritten(b)' /\ DocsPut(b)'
  <2>1. SnapshotHeld(b)'
    <3> SUFFICES ASSUME "snapshot" \notin touched PROVE SnapshotHeld(b)'
      BY <1>10 DEF SnapshotHeld
    <3>1. /\ build[b].listed \in {Published, {}}
          /\ \A e \in Docs : build[b].text[e] \in {NoFile, ErrorPage, published[e]}
      BY <1>3, <1>11 DEF SnapshotHeld
    <3>2. \A e \in Docs : task.text[e] \in {NoFile, ErrorPage, published[e]}
      BY <1>5, <1>9, <3>1
    <3>. QED
      BY <1>6, <1>8, <1>10, <3>1, <3>2 DEF SnapshotHeld, Published, siteWorld
  <2>2. PagesWritten(b)'
    BY <1>3, <1>6, <1>8, <1>10, <1>11 DEF PagesWritten
  <2>3. DocsPut(b)'
    <3>1. \A e \in build[b].put : task.text[e] = build[b].text[e]
      BY <1>3, <1>9 DEF Task
    <3>2. /\ task.row = build[b].row /\ task.put = build[b].put /\ task.wrote = 2
          /\ build'[b] = task /\ files' = files
      BY <1>4, <1>6, <1>8, <1>10
    <3>3. \A e \in build[b].put : files.doc[e] = build[b].text[e]
      BY <1>3, <1>11 DEF DocsPut
    <3>. QED
      BY <3>1, <3>2, <3>3 DEF DocsPut
  <2>. QED
    BY <2>1, <2>2, <2>3
<1>12. {e \in Docs : task.text[e] # NoFile} \subseteq task.listed
  BY <1>3, <1>6, <1>9 DEF TaskKnows, Fetched
<1>13. task.put \subseteq {e \in Docs : task.text[e] # NoFile}
  BY <1>3, <1>6, <1>9 DEF TaskKnows, Fetched
<1>14. task.wrote <= Len(Plan(b)) /\ files' \in Files
  BY <1>2, <1>3, <1>6, <1>10 DEF TaskKnows
<1>. QED
  BY <1>2, <1>6, <1>7, <1>10, <1>11, <1>12, <1>13, <1>14, WritingKeeps

LEMMA WriteDocKeeps ==
  ASSUME SiteBuildInv, NEW b \in Builds, WriteDoc(b)
  PROVE  SiteBuildInv'
<1>1. /\ Doing(b, "docs") /\ files' = PutDocs(b, files)
      /\ build' = [build EXCEPT ![b].put = Fetched(b)]
      /\ UNCHANGED <<site, alone, touched, siteWorld>>
  BY DEF WriteDoc
<1>2. build[b].at = "write"
  BY <1>1 DEF Doing
<1>3. /\ build[b] \in Task /\ TaskKnows(b) /\ files \in Files
      /\ build[b].row \in Row /\ build[b].row.mode # "DYNAMIC"
      /\ alone => SnapshotHeld(b) /\ PagesWritten(b) /\ DocsPut(b)
  BY <1>2, Writing
<1>4. build[b].wrote = 2
  BY <1>1, <1>3, PlanSteps
<1> DEFINE task == [build[b] EXCEPT !.put = Fetched(b)]
<1>5. /\ task \in Task /\ task.at = "write" /\ task.row = build[b].row
      /\ task.listed = build[b].listed /\ task.text = build[b].text
      /\ task.put = Fetched(b) /\ task.wrote = build[b].wrote
  BY <1>2, <1>3 DEF Task, Fetched
<1>6. build' = [build EXCEPT ![b] = task]
  BY <1>1
<1> HIDE DEF task
<1>7. build'[b] = task
  BY <1>6 DEF SiteBuildInv, SiteBuildTypeOK
<1>8. /\ files' \in Files /\ files'.page = files.page /\ files'.index = files.index
      /\ \A d \in Docs : files'.doc[d] =
           IF d \in Fetched(b) \ build[b].put THEN build[b].text[d] ELSE files.doc[d]
  BY <1>1, <1>3 DEF PutDocs, Files, Task
<1>9. ASSUME alone PROVE SnapshotHeld(b)' /\ PagesWritten(b)' /\ DocsPut(b)'
  <2>1. SnapshotHeld(b)'
    BY <1>1, <1>3, <1>5, <1>7, <1>9 DEF SnapshotHeld, Published, siteWorld
  <2>2. PagesWritten(b)'
    BY <1>3, <1>5, <1>7, <1>8, <1>9 DEF PagesWritten
  <2>3. \A d \in Fetched(b) : files'.doc[d] = build[b].text[d]
    BY <1>3, <1>8, <1>9 DEF DocsPut, Fetched
  <2>4. DocsPut(b)'
    BY <1>4, <1>5, <1>7, <2>3 DEF DocsPut
  <2>. QED
    BY <2>1, <2>2, <2>4
<1>. QED
  BY <1>1, <1>2, <1>3, <1>5, <1>6, <1>8, <1>9, WritingKeeps DEF TaskKnows, Fetched

LEMMA DocsWrittenKeeps ==
  ASSUME SiteBuildInv, NEW b \in Builds, DocsWritten(b)
  PROVE  SiteBuildInv'
<1>1. /\ Doing(b, "docs") /\ build[b].put = build[b].listed /\ Done(b)
      /\ UNCHANGED <<site, files, alone, touched, siteWorld>>
  BY DEF DocsWritten
<1>2. build[b].at = "write"
  BY <1>1 DEF Doing
<1>3. /\ build[b] \in Task /\ TaskKnows(b) /\ files \in Files
      /\ build[b].row \in Row /\ build[b].row.mode # "DYNAMIC"
      /\ alone => SnapshotHeld(b) /\ PagesWritten(b) /\ DocsPut(b)
  BY <1>2, Writing
<1>4. build[b].wrote = 2 /\ build[b].wrote + 1 <= Len(Plan(b))
  BY <1>1, <1>3, PlanSteps
<1> DEFINE task == [build[b] EXCEPT !.wrote = @ + 1]
<1>5. /\ task \in Task /\ task.at = "write" /\ task.row = build[b].row
      /\ task.listed = build[b].listed /\ task.text = build[b].text
      /\ task.put = build[b].put /\ task.wrote = 3
  BY <1>2, <1>3, <1>4, Further
<1>6. build' = [build EXCEPT ![b] = task]
  BY <1>1 DEF Done
<1> HIDE DEF task
<1>7. build'[b] = task
  BY <1>6 DEF SiteBuildInv, SiteBuildTypeOK
<1>8. ASSUME alone PROVE SnapshotHeld(b)' /\ PagesWritten(b)' /\ DocsPut(b)'
  <2>1. SnapshotHeld(b)'
    BY <1>1, <1>3, <1>5, <1>7, <1>8 DEF SnapshotHeld, Published, siteWorld
  <2>2. PagesWritten(b)'
    BY <1>1, <1>3, <1>4, <1>5, <1>7, <1>8 DEF PagesWritten
  <2>3. DocsPut(b)'
    BY <1>1, <1>3, <1>5, <1>7, <1>8 DEF DocsPut
  <2>. QED
    BY <2>1, <2>2, <2>3
<1>9. /\ task.put \subseteq {d \in Docs : task.text[d] # NoFile}
      /\ {d \in Docs : task.text[d] # NoFile} \subseteq task.listed
  BY <1>3, <1>5 DEF TaskKnows, Fetched
<1>10. task.wrote <= Len(Plan(b)) /\ files' \in Files
  BY <1>1, <1>3, <1>4, <1>5
<1>. QED
  BY <1>1, <1>2, <1>5, <1>6, <1>8, <1>9, <1>10, WritingKeeps

LEMMA WriteIndexKeeps ==
  ASSUME SiteBuildInv, NEW b \in Builds, WriteIndex(b)
  PROVE  SiteBuildInv'
<1>1. /\ Doing(b, "search.json") /\ files' = [files EXCEPT !.index = Indexed(b)]
      /\ Done(b) /\ UNCHANGED <<site, alone, touched, siteWorld>>
  BY DEF WriteIndex
<1>2. build[b].at = "write"
  BY <1>1 DEF Doing
<1>3. /\ build[b] \in Task /\ TaskKnows(b) /\ files \in Files
      /\ build[b].row \in Row /\ build[b].row.mode # "DYNAMIC"
      /\ alone => SnapshotHeld(b) /\ PagesWritten(b) /\ DocsPut(b)
  BY <1>2, Writing
<1>4. /\ build[b].wrote = 5 /\ build[b].wrote + 1 <= Len(Plan(b))
      /\ build[b].row.mode = "STATIC"
  BY <1>1, <1>3, PlanSteps
<1> DEFINE task == [build[b] EXCEPT !.wrote = @ + 1]
<1>5. /\ task \in Task /\ task.at = "write" /\ task.row = build[b].row
      /\ task.listed = build[b].listed /\ task.text = build[b].text
      /\ task.put = build[b].put /\ task.wrote = 6
  BY <1>2, <1>3, <1>4, Further
<1>6. build' = [build EXCEPT ![b] = task]
  BY <1>1 DEF Done
<1> HIDE DEF task
<1>7. build'[b] = task
  BY <1>6 DEF SiteBuildInv, SiteBuildTypeOK
<1>8. /\ Indexed(b) \in [Docs -> Body \cup {ErrorPage}]
      /\ \A d \in Fetched(b) : Indexed(b)[d] = build[b].text[d]
  BY <1>3 DEF Indexed, Fetched, Task
<1>9. /\ files' \in Files /\ files'.page = files.page /\ files'.doc = files.doc
      /\ files'.index = Indexed(b)
  BY <1>1, <1>3, <1>8 DEF Files
<1>10. ASSUME alone PROVE SnapshotHeld(b)' /\ PagesWritten(b)' /\ DocsPut(b)'
  <2>1. SnapshotHeld(b)'
    BY <1>1, <1>3, <1>5, <1>7, <1>10 DEF SnapshotHeld, Published, siteWorld
  <2>2. PagesWritten(b)'
    BY <1>3, <1>4, <1>5, <1>7, <1>9, <1>10 DEF PagesWritten
  <2>3. /\ build[b].put = build[b].listed
        /\ \A d \in build[b].put : files.doc[d] = build[b].text[d]
    BY <1>3, <1>4, <1>10 DEF DocsPut
  <2>4. \A d \in build[b].listed : Indexed(b)[d] = build[b].text[d]
    BY <1>3, <1>8, <2>3 DEF TaskKnows
  <2>5. DocsPut(b)'
    BY <1>5, <1>7, <1>9, <2>3, <2>4 DEF DocsPut
  <2>. QED
    BY <2>1, <2>2, <2>5
<1>11. /\ task.put \subseteq {d \in Docs : task.text[d] # NoFile}
       /\ {d \in Docs : task.text[d] # NoFile} \subseteq task.listed
  BY <1>3, <1>5 DEF TaskKnows, Fetched
<1>12. task.wrote <= Len(Plan(b))
  BY <1>4, <1>5
<1>. QED
  BY <1>1, <1>2, <1>5, <1>6, <1>9, <1>10, <1>11, <1>12, WritingKeeps

LEMMA PlanDoneKeeps ==
  ASSUME SiteBuildInv, NEW b \in Builds, PlanDone(b)
  PROVE  SiteBuildInv'
<1>1. /\ build[b].at = "write" /\ build[b].wrote = Len(Plan(b))
      /\ Move(b, "finish") /\ UNCHANGED <<site, files, alone, touched, siteWorld>>
  BY DEF PlanDone
<1>2. /\ build[b] \in Task /\ TaskKnows(b) /\ files \in Files
      /\ build[b].row \in Row /\ build[b].row.mode # "DYNAMIC"
      /\ alone => SnapshotHeld(b) /\ PagesWritten(b) /\ DocsPut(b)
  BY <1>1, Writing
<1> DEFINE task == [build[b] EXCEPT !.at = "finish"]
<1>3. /\ task \in Task /\ task.at = "finish" /\ task.row = build[b].row
      /\ task.listed = build[b].listed /\ task.text = build[b].text
      /\ task.put = build[b].put /\ task.wrote = build[b].wrote
  BY <1>2 DEF Task, BuildPlaces
<1>4. build' = [build EXCEPT ![b] = task]
  BY <1>1 DEF Move
<1> HIDE DEF task
<1>5. build'[b] = task
  BY <1>4 DEF SiteBuildInv, SiteBuildTypeOK
<1>6. ASSUME alone PROVE SnapshotHeld(b)' /\ PagesWritten(b)' /\ DocsPut(b)'
  BY <1>1, <1>2, <1>3, <1>5, <1>6
     DEF SnapshotHeld, PagesWritten, DocsPut, Published, siteWorld
<1>7. /\ task.put \subseteq {d \in Docs : task.text[d] # NoFile}
      /\ {d \in Docs : task.text[d] # NoFile} \subseteq task.listed
  BY <1>2, <1>3 DEF TaskKnows, Fetched
<1>8. task.wrote <= Len(Plan(b)) /\ task.wrote = Len(Plan(b))
  BY <1>1, <1>3 DEF Plan, StaticPlan, HybridPlan
<1>. QED
  BY <1>1, <1>2, <1>3, <1>4, <1>6, <1>7, <1>8, WritingKeeps

\* What a build has written when its plan is done is what the properties say.
LEMMA PlanIsEnough ==
  ASSUME SiteBuildInv, alone, NEW b \in Builds, build[b].at = "finish"
  PROVE  /\ "row" \notin touched =>
              build[b].row.mode = site.mode /\ build[b].row.shown = site.shown
         /\ build[b].row.mode # "DYNAMIC" =>
              /\ files.page["index"] = build[b].listed
              /\ "browse" \in build[b].row.shown =>
                   files.page["browse"] = build[b].listed
              /\ "snapshot" \notin touched => build[b].listed \in {Published, {}}
         /\ build[b].row.mode = "STATIC" =>
              \A d \in build[b].listed :
                /\ files.doc[d] = build[b].text[d]
                /\ files.index[d] = build[b].text[d]
                /\ "snapshot" \notin touched =>
                     build[b].text[d] \in {published[d], ErrorPage}
<1>1. /\ build[b] \in Task /\ TaskKnows(b) /\ build[b].row \in Row
      /\ RowHeld(b)
      /\ build[b].row.mode # "DYNAMIC" =>
           SnapshotHeld(b) /\ PagesWritten(b) /\ DocsPut(b)
  BY DEF SiteBuildInv, SiteBuildTypeOK, TasksKnow, TaskKnows, AloneKnows, WorkShows
<1>2. "row" \notin touched =>
        build[b].row.mode = site.mode /\ build[b].row.shown = site.shown
  BY <1>1 DEF RowHeld
<1>3. CASE build[b].row.mode = "DYNAMIC"
  BY <1>2, <1>3
<1>4. CASE build[b].row.mode = "HYBRID"
  <2>1. build[b].wrote = 3
    BY <1>1, <1>4 DEF TaskKnows, Plan, HybridPlan
  <2>. QED
    BY <1>1, <1>2, <1>4, <2>1 DEF PagesWritten, SnapshotHeld
<1>5. CASE build[b].row.mode = "STATIC"
  <2>1. build[b].wrote = 6
    BY <1>1, <1>5 DEF TaskKnows, Plan, StaticPlan
  <2>2. /\ files.page["index"] = build[b].listed
        /\ "browse" \in build[b].row.shown =>
             files.page["browse"] = build[b].listed
    BY <1>1, <1>5, <2>1 DEF PagesWritten
  <2>3. /\ build[b].put = build[b].listed
        /\ \A d \in build[b].put : files.doc[d] = build[b].text[d]
        /\ \A d \in build[b].listed : files.index[d] = build[b].text[d]
    BY <1>1, <1>5, <2>1 DEF DocsPut
  <2>4. \A d \in build[b].listed : d \in Docs /\ build[b].text[d] # NoFile
    BY <1>1, <2>3 DEF TaskKnows, Fetched
  <2>5. "snapshot" \notin touched =>
          /\ build[b].listed \in {Published, {}}
          /\ \A d \in build[b].listed : build[b].text[d] \in {published[d], ErrorPage}
    BY <1>1, <1>5, <2>4 DEF SnapshotHeld
  <2>. QED
    BY <1>2, <1>5, <2>2, <2>3, <2>5
<1>. QED
  BY <1>1, <1>3, <1>4, <1>5 DEF Row, Modes

LEMMA FinishBuildKeeps ==
  ASSUME SiteBuildInv, NEW b \in Builds, Finish(b)
  PROVE  SiteBuildInv'
<1>. USE DEF SiteBuildInv
<1>1. Live(b) /\ build[b].at = "finish"
  BY DEF Finish, Live
<1>2. CASE Stale(b)
  BY <1>1, <1>2, LeavingKeeps DEF Finish, siteWorld, SiteBuildTypeOK
<1>3. CASE ~Stale(b)
  <2>1. /\ site' = PutStatus(b, "done") /\ Leave(b, "end")
        /\ UNCHANGED <<files, alone, touched, siteWorld>>
    BY <1>3 DEF Finish
  <2>2. "done" \in BuildStatus /\ site \in Row
    BY <1>3 DEF BuildStatus, SiteBuildTypeOK, Stale
  <2>3. /\ site' \in Row /\ site' # NoSite
        /\ site' = site \/ site'.status = "done"
        /\ site'.mode = site.mode /\ site'.shown = site.shown
    BY <2>1, <2>2, PutStatusType
  <2>4. /\ build' \in [Builds -> Task] /\ TasksKnow' /\ build'[b].at = "end"
        /\ \A c \in Builds \ {b} : build'[c] = build[c]
    BY <2>1, TaskLeft
  <2>5. SiteBuildTypeOK'
    BY <2>1, <2>3, <2>4 DEF SiteBuildTypeOK, siteWorld
  <2>6. ASSUME alone
        PROVE  AloneKnows' /\ DoneSiteIsCurrent' /\ SearchMatchesPages'
    <3>1. site'.status # "idle"
      BY <1>1, <2>3, <2>6, Awaited
    <3>2. WorkShows(b)' /\ ~Live(b)'
      BY <2>4 DEF WorkShows, Live
    <3>3. AloneKnows'
      BY <1>1, <2>3, <2>4, <2>6, <3>1, <3>2, BuildGoesOn
    <3>4. DoneSiteIsCurrent'
      BY <1>1, <2>1, <2>3, <2>6, PlanIsEnough
         DEF DoneSiteIsCurrent, Published, siteWorld, Row, Modes
    <3>5. SearchMatchesPages'
      BY <1>1, <2>1, <2>3, <2>6, PlanIsEnough DEF SearchMatchesPages
    <3>. QED
      BY <3>3, <3>4, <3>5
  <2>. QED
    BY <2>1, <2>4, <2>5, <2>6
<1>. QED
  BY <1>2, <1>3

LEMMA RescueBuildKeeps ==
  ASSUME SiteBuildInv, NEW b \in Builds, RescueBuild(b)
  PROVE  SiteBuildInv'
<1>. USE DEF SiteBuildInv
<1>1. Live(b) /\ Leave(b, "end") /\ UNCHANGED <<files, alone, touched, siteWorld>>
  BY DEF RescueBuild, Live
<1>2. /\ site' \in Row \cup {NoSite}
      /\ site # NoSite => site' # NoSite /\ site'.status = "failed"
      /\ site = NoSite => site' = NoSite
  <2>1. "failed" \in BuildStatus
    BY DEF BuildStatus
  <2>. QED
    BY <2>1, RowStatus DEF RescueBuild, Failed, SiteBuildTypeOK
<1>3. /\ build' \in [Builds -> Task] /\ TasksKnow' /\ build'[b].at = "end"
      /\ \A c \in Builds \ {b} : build'[c] = build[c]
  BY <1>1, TaskLeft
<1>4. SiteBuildTypeOK'
  BY <1>1, <1>2, <1>3 DEF SiteBuildTypeOK, siteWorld
<1>5. ~Settled'
  BY <1>2 DEF Settled
<1>6. ASSUME alone PROVE AloneKnows'
  <2>1. site' # NoSite /\ site'.status = "failed"
    BY <1>1, <1>2, <1>6, Awaited
  <2>2. WorkShows(b)' /\ ~Live(b)'
    BY <1>3 DEF WorkShows, Live
  <2>. QED
    BY <1>1, <1>3, <1>6, <2>1, <2>2, BuildGoesOn
<1>. QED
  BY <1>1, <1>3, <1>4, <1>5, <1>6, NotSettled

\* A build's step, of whatever build, keeps the invariant.
LEMMA BuildStepKeeps ==
  ASSUME SiteBuildInv, NEW b \in Builds, BuildStep(b)
  PROVE  SiteBuildInv'
BY LoadSiteKeeps, MarkBuildingKeeps, ListDocsKeeps, WritePageKeeps, FetchDocKeeps,
   WriteDocKeeps, DocsWrittenKeeps, WriteIndexKeeps, PlanDoneKeeps,
   FailSiteBuildKeeps, FinishBuildKeeps,
  RescueBuildKeeps DEF BuildStep

LEMMA SiteBuildStutters ==
  ASSUME SiteBuildInv, UNCHANGED siteVars
  PROVE  SiteBuildInv'
<1>. USE DEF siteVars, SiteBuildInv
<1>1. SiteBuildTypeOK' /\ TasksKnow'
  BY TaskKept DEF SiteBuildTypeOK, TasksKnow
<1>2. ASSUME alone PROVE AloneKnows'
  BY <1>2, WorkKept DEF AloneKnows, OneBuild, Live, BuildIsAwaited, Idle, EmptyAtFirst
<1>3. ASSUME alone PROVE DoneSiteIsCurrent' /\ SearchMatchesPages'
  BY <1>3 DEF DoneSiteIsCurrent, SearchMatchesPages, Settled, Idle, Live, Published
<1>. QED
  BY <1>1, <1>2, <1>3

\* Everything known of a website and its builds.
THEOREM SiteBuildInvariant == SiteBuildSpec => []SiteBuildInv
<1>1. ASSUME SiteBuildInv, [SiteBuildNext]_siteVars PROVE SiteBuildInv'
  <2>1. CASE SiteBuildNext
    BY <1>1, <2>1, TriggerKeeps, BuildStepKeeps, FailSiteBuildKeeps, RepublishKeeps,
       UpdateSiteKeeps, DeleteSiteKeeps, CreateSiteKeeps DEF SiteBuildNext
  <2>2. CASE UNCHANGED siteVars
    BY <1>1, <2>2, SiteBuildStutters
  <2>. QED
    BY <1>1, <2>1, <2>2
<1>. QED
  BY <1>1, SiteStart, PTL DEF SiteBuildSpec

\* A website, its files and its builds keep their types.
THEOREM SiteBuildTypeCorrect == SiteBuildSpec => []SiteBuildTypeOK
<1>1. SiteBuildInv => SiteBuildTypeOK
  BY DEF SiteBuildInv
<1>. QED
  BY <1>1, SiteBuildInvariant, PTL

\* A website whose builds met no other, shown as done and built from a row and
\* a snapshot that have not changed since, shows the documents published now
\* (run_build).
THEOREM BuildsLeaveCurrentSites == SiteBuildSpec => []DoneSiteIsCurrent
<1>1. SiteBuildInv => DoneSiteIsCurrent
  BY DEF SiteBuildInv, AloneKnows, DoneSiteIsCurrent
<1>. QED
  BY <1>1, SiteBuildInvariant, PTL

\* The search index of a static site so built finds what its pages list
\* (_build_static_site).
THEOREM SearchFollowsPages == SiteBuildSpec => []SearchMatchesPages
<1>1. SiteBuildInv => SearchMatchesPages
  BY DEF SiteBuildInv, AloneKnows, SearchMatchesPages
<1>. QED
  BY <1>1, SiteBuildInvariant, PTL

\* As long as builds are alone, a site created under the slug of a deleted one
\* finds an empty directory (create_website, delete_website).
THEOREM NewSitesStartEmpty == SiteBuildSpec => []NoFilesInherited
<1>1. SiteBuildInv => NoFilesInherited
  BY DEF SiteBuildInv, AloneKnows, EmptyAtFirst, NoFilesInherited
<1>. QED
  BY <1>1, SiteBuildInvariant, PTL

-----------------------------------------------------------------------------
(* Harvest *)

\* The collection c comes before d; the record q comes before r, or is r.
Precedes(s, c, d) == \E i, j \in DOMAIN s : i < j /\ s[i] = c /\ s[j] = d
NotAfter(s, q, r) == Precedes(s, q[1], r[1]) \/ (q[1] = r[1] /\ q[2] <= r[2])
Distinct(s) == \A i, j \in DOMAIN s : i # j => s[i] # s[j]

\* What a list made at once would have; what the one under way has already or
\* will have, if nothing else happens; and that every record still to be given
\* is past the offset there.
ListedNow ==
  {r \in Records : r[1] \in Shelved \cap Matching(harvest) /\ r[2] \in texts[r[1]]}
Promised ==
  {harvest.docs[i] : i \in DOMAIN harvest.docs} \cup
  {r \in Records : /\ \E i \in DOMAIN harvest.cols : harvest.cols[i] = r[1]
                   /\ r[2] \in texts[r[1]]}
UpTo(s, S, r) == {q \in S : NotAfter(s, q, r)}
PastOffset(S) == \A r \in harvest.there \ harvest.got :
  harvest.offset < Cardinality(UpTo(shelf, S, r))

ColsFit ==
  /\ \A i \in DOMAIN harvest.cols : harvest.cols[i] \in Shelved \cap Matching(harvest)
  /\ \A i, j \in DOMAIN harvest.cols :
       i < j => Precedes(shelf, harvest.cols[i], harvest.cols[j])
DocsFit ==
  /\ \A i \in DOMAIN harvest.docs : harvest.docs[i] \in ListedNow
  /\ \A i, j \in DOMAIN harvest.docs : i < j =>
       /\ NotAfter(shelf, harvest.docs[i], harvest.docs[j])
       /\ harvest.docs[i] # harvest.docs[j]
  /\ \A i \in DOMAIN harvest.docs, j \in DOMAIN harvest.cols :
       Precedes(shelf, harvest.docs[i][1], harvest.cols[j])

QueryKnows == PastOffset(ListedNow)
ListKnows ==
  ColsFit /\ DocsFit /\ harvest.there \subseteq Promised /\ PastOffset(Promised)
HarvestKnows ==
  /\ Distinct(shelf)
  /\ harvest.at = "none" => harvest.offset = 0 /\ harvest.got = {}
  /\ harvest.at \in {"query", "list"} /\ ~harvest.lost =>
       harvest.there \subseteq ListedNow
  /\ harvest.at = "query" /\ ~harvest.lost => QueryKnows
  /\ harvest.at = "list" /\ ~harvest.lost => ListKnows

-----------------------------------------------------------------------------
(* Sequences: ascending numbers, the order of the shelf *)

\* A set counts at most as many as a set it is in.
LEMMA NoMore ==
  ASSUME NEW S, IsFiniteSet(S), NEW T, T \subseteq S
  PROVE  /\ IsFiniteSet(T) /\ Cardinality(T) \in Nat /\ Cardinality(S) \in Nat
         /\ Cardinality(T) <= Cardinality(S)
BY FS_Subset, FS_CardinalityType

\* And at most one more than a set that lacks at most one of its elements.
LEMMA OneMore ==
  ASSUME NEW S, IsFiniteSet(S), NEW x, NEW T, T \subseteq S \cup {x}
  PROVE  /\ IsFiniteSet(T) /\ Cardinality(T) \in Nat /\ Cardinality(S) \in Nat
         /\ Cardinality(T) <= Cardinality(S) + 1
<1> DEFINE U == S \cup {x}
<1>1. IsFiniteSet(U) /\ Cardinality(S) \in Nat
  BY FS_AddElement, FS_CardinalityType
<1>2. Cardinality(U) = IF x \in S THEN Cardinality(S) ELSE Cardinality(S) + 1
  BY FS_AddElement
<1>3. Cardinality(U) <= Cardinality(S) + 1
  BY <1>1, <1>2
<1> HIDE DEF U
<1>4. T \subseteq U
  BY DEF U
<1>5. IsFiniteSet(T) /\ Cardinality(T) \in Nat /\ Cardinality(U) \in Nat
      /\ Cardinality(T) <= Cardinality(U)
  BY <1>1, <1>4, NoMore
<1>. QED
  BY <1>1, <1>3, <1>5

\* Finite sets of numbers have an ascending sequence of their own: the number of
\* those up to each gives its place.
LEMMA AscendingExists ==
  ASSUME NEW S \in SUBSET Nat, IsFiniteSet(S)
  PROVE  \E s \in [1..Cardinality(S) -> S] :
           \A i, j \in DOMAIN s : i < j => s[i] < s[j]
<1> DEFINE n == Cardinality(S)
           Least(x) == {y \in S : y <= x}
           place == [x \in S |-> Cardinality(Least(x))]
<1>1. n \in Nat
  BY FS_CardinalityType
<1>2. \A x \in S : /\ IsFiniteSet(Least(x)) /\ Cardinality(Least(x)) \in 1..n
  <2> SUFFICES ASSUME NEW x \in S
               PROVE  IsFiniteSet(Least(x)) /\ Cardinality(Least(x)) \in 1..n
    OBVIOUS
  <2>1. /\ IsFiniteSet(Least(x)) /\ Cardinality(Least(x)) \in Nat
        /\ Cardinality(Least(x)) <= n
    <3>1. Least(x) \subseteq S
      OBVIOUS
    <3> QED BY <3>1, NoMore
  <2>2. x \in Least(x)
    OBVIOUS
  <2>3. Cardinality(Least(x)) # 0
    BY <2>1, <2>2, FS_EmptySet
  <2> QED BY <2>1, <2>3, <1>1
<1>3. \A x, y \in S : x < y => Cardinality(Least(x)) < Cardinality(Least(y))
  <2> SUFFICES ASSUME NEW x \in S, NEW y \in S, x < y
               PROVE  Cardinality(Least(x)) < Cardinality(Least(y))
    OBVIOUS
  <2>0. x \in Nat /\ y \in Nat /\ \A z \in S : z \in Nat
    OBVIOUS
  <2>4. \A z \in Least(x) : z \in S /\ z <= y
    <3> SUFFICES ASSUME NEW z \in S, z <= x  PROVE  z <= y
      OBVIOUS
    <3> QED BY <2>0
  <2>1. Least(x) \subseteq Least(y) /\ y \in Least(y) /\ y \notin Least(x)
    <3>1. y <= y /\ ~(y <= x)
      BY <2>0
    <3> QED BY <2>4, <3>1
  <2>2. Least(x) # Least(y)
    BY <2>1
  <2>3. /\ Cardinality(Least(x)) <= Cardinality(Least(y))
        /\ Cardinality(Least(x)) # Cardinality(Least(y))
    BY <1>2, <2>1, <2>2, FS_Subset
  <2> HIDE DEF Least, n
  <2>5. Cardinality(Least(x)) \in Nat /\ Cardinality(Least(y)) \in Nat
    BY <1>1, <1>2
  <2> QED BY <2>3, <2>5
<1>4. place \in Injection(S, 1..n)
  <2>1. place \in [S -> 1..n]
    BY <1>2
  <2>2. \A x, y \in S : place[x] = place[y] => x = y
    <3> SUFFICES ASSUME NEW x \in S, NEW y \in S, place[x] = place[y], x # y
                 PROVE  FALSE
      OBVIOUS
    <3>1. x < y \/ y < x
      OBVIOUS
    <3> HIDE DEF Least
    <3>2. Cardinality(Least(x)) \in Nat /\ Cardinality(Least(y)) \in Nat
      BY <1>1, <1>2
    <3> QED BY <1>3, <3>1, <3>2
  <2> HIDE DEF place
  <2> QED BY <2>1, <2>2 DEF Injection, IsInjective
<1>5. place \in Surjection(S, 1..n)
  <2>1. IsFiniteSet(1..n) /\ Cardinality(1..n) = n
    BY <1>1, FS_Interval
  <2> HIDE DEF place, n
  <2> QED BY <1>4, <2>1, FS_Injection DEF n
<1>6. \A i \in 1..n : \E x \in S : place[x] = i
  <2> HIDE DEF place, n
  <2> QED BY <1>5 DEF Surjection
<1> DEFINE s == [i \in 1..n |-> CHOOSE x \in S : place[x] = i]
<1>7. \A i \in 1..n : s[i] \in S /\ place[s[i]] = i
  <2> HIDE DEF place, n
  <2> QED BY <1>6
<1>8. s \in [1..n -> S]
  BY <1>7
<1>9. \A i, j \in 1..n : i < j => s[i] < s[j]
  <2> SUFFICES ASSUME NEW i \in 1..n, NEW j \in 1..n, i < j, ~(s[i] < s[j])
               PROVE  FALSE
    OBVIOUS
  <2>1. s[i] \in S /\ s[j] \in S /\ place[s[i]] = i /\ place[s[j]] = j
    BY <1>7
  <2> HIDE DEF s, place, n
  <2>2. s[i] # s[j]
    BY <1>1, <2>1
  <2>0. s[i] \in Nat /\ s[j] \in Nat
    BY <2>1
  <2>3. s[j] < s[i]
    BY <2>0, <2>2
  <2>4. Cardinality(Least(s[j])) < Cardinality(Least(s[i]))
    BY <1>3, <2>1, <2>3
  <2>5. j < i
    <3> HIDE DEF Least
    <3> QED BY <2>1, <2>4 DEF place
  <2> QED BY <2>5, <1>1
<1> HIDE DEF s
<1> QED BY <1>8, <1>9

LEMMA AscendingOf ==
  ASSUME NEW S \in SUBSET Nat, IsFiniteSet(S)
  PROVE  /\ Cardinality(S) \in Nat
         /\ Ascending(S) \in [1..Cardinality(S) -> S]
         /\ \A i, j \in 1..Cardinality(S) : i < j => Ascending(S)[i] < Ascending(S)[j]
         /\ \A x \in S : \E i \in 1..Cardinality(S) : Ascending(S)[i] = x
<1>1. Cardinality(S) \in Nat
  BY FS_CardinalityType
<1>2. /\ Ascending(S) \in [1..Cardinality(S) -> S]
      /\ \A i, j \in DOMAIN Ascending(S) : i < j => Ascending(S)[i] < Ascending(S)[j]
  BY AscendingExists DEF Ascending
<1>3. \A i, j \in 1..Cardinality(S) : i < j => Ascending(S)[i] < Ascending(S)[j]
  BY <1>2
<1>4. Ascending(S) \in Injection(1..Cardinality(S), S)
  <2>1. \A i, j \in 1..Cardinality(S) : Ascending(S)[i] = Ascending(S)[j] => i = j
    <3> SUFFICES ASSUME NEW i \in 1..Cardinality(S), NEW j \in 1..Cardinality(S),
                        Ascending(S)[i] = Ascending(S)[j], i # j
                 PROVE  FALSE
      OBVIOUS
    <3>1. i < j \/ j < i
      BY <1>1
    <3>2. Ascending(S)[i] \in Nat /\ Ascending(S)[j] \in Nat
      BY <1>2
    <3> QED BY <1>3, <3>1, <3>2
  <2> QED BY <1>2, <2>1 DEF Injection, IsInjective
<1>5. Ascending(S) \in Surjection(1..Cardinality(S), S)
  <2>1. IsFiniteSet(1..Cardinality(S)) /\ Cardinality(1..Cardinality(S)) = Cardinality(S)
    BY <1>1, FS_Interval
  <2> QED BY <1>4, <2>1, FS_Injection
<1> QED BY <1>1, <1>2, <1>3, <1>5 DEF Surjection

\* Those of some on the shelf, in the order of the shelf.
LEMMA OnShelfKeeps ==
  ASSUME shelf \in Seq(Slugs), NEW some
  PROVE  /\ OnShelf(some) \in Seq(Slugs)
         /\ \A i \in DOMAIN OnShelf(some) : OnShelf(some)[i] \in Shelved \cap some
         /\ \A c \in Shelved \cap some :
              \E i \in DOMAIN OnShelf(some) : OnShelf(some)[i] = c
         /\ \A i, j \in DOMAIN OnShelf(some) :
              i < j => Precedes(shelf, OnShelf(some)[i], OnShelf(some)[j])
         /\ \A c, d \in some : Precedes(shelf, c, d) => Precedes(OnShelf(some), c, d)
         /\ Distinct(shelf) => Distinct(OnShelf(some))
<1> DEFINE places == {i \in DOMAIN shelf : shelf[i] \in some}
           at == Ascending(places)
           n == Cardinality(places)
           o == [j \in DOMAIN at |-> shelf[at[j]]]
<1>1. DOMAIN shelf = 1..Len(shelf) /\ Len(shelf) \in Nat
  BY LenProperties
<1>2. places \in SUBSET Nat /\ IsFiniteSet(places)
  <2>1. IsFiniteSet(1..Len(shelf))
    BY <1>1, FS_Interval
  <2>2. places \subseteq 1..Len(shelf)
    BY <1>1
  <2> QED BY <1>1, <2>1, <2>2, FS_Subset
<1> HIDE DEF places
<1>3. /\ n \in Nat
      /\ at \in [1..n -> places]
      /\ \A i, j \in 1..n : i < j => at[i] < at[j]
      /\ \A x \in places : \E i \in 1..n : at[i] = x
  BY <1>2, AscendingOf
<1> HIDE DEF at, n
<1>4. /\ o = [j \in 1..n |-> shelf[at[j]]]
      /\ DOMAIN o = 1..n
  BY <1>3
<1>5. \A i \in 1..n : /\ at[i] \in DOMAIN shelf /\ shelf[at[i]] \in some
                      /\ o[i] = shelf[at[i]] /\ at[i] \in Nat
  BY <1>1, <1>3, <1>4 DEF places
<1>6. OnShelf(some) = o
  BY DEF OnShelf, o, at, places
<1> HIDE DEF o
<1>7. o \in Seq(Slugs)
  <2>1. o \in [1..n -> Slugs]
    <3>1. \A i \in 1..n : o[i] \in Slugs
      BY <1>1, <1>5, ElementOfSeq
    <3> QED BY <1>4, <3>1
  <2> QED BY <1>3, <2>1, SeqDef
<1>8. \A i \in DOMAIN o : o[i] \in Shelved \cap some
  BY <1>4, <1>5 DEF Shelved
<1>9. \A c \in Shelved \cap some : \E i \in DOMAIN o : o[i] = c
  <2> SUFFICES ASSUME NEW c \in Shelved \cap some
               PROVE  \E i \in DOMAIN o : o[i] = c
    OBVIOUS
  <2>1. PICK k \in DOMAIN shelf : shelf[k] = c
    BY DEF Shelved
  <2>2. k \in places
    BY <2>1 DEF places
  <2>3. PICK i \in 1..n : at[i] = k
    BY <1>3, <2>2
  <2> QED BY <1>4, <1>5, <2>1, <2>3
<1>10. \A i, j \in DOMAIN o : i < j => Precedes(shelf, o[i], o[j])
  BY <1>3, <1>4, <1>5 DEF Precedes
<1>11. \A c, d \in some : Precedes(shelf, c, d) => Precedes(o, c, d)
  <2> SUFFICES ASSUME NEW c \in some, NEW d \in some, Precedes(shelf, c, d)
               PROVE  Precedes(o, c, d)
    OBVIOUS
  <2>1. PICK k, l \in DOMAIN shelf : k < l /\ shelf[k] = c /\ shelf[l] = d
    BY DEF Precedes
  <2>2. k \in places /\ l \in places
    BY <2>1 DEF places
  <2>3. PICK i \in 1..n : at[i] = k
    BY <1>3, <2>2
  <2>4. PICK j \in 1..n : at[j] = l
    BY <1>3, <2>2
  <2>5. i < j
    <3> SUFFICES ASSUME ~(i < j)  PROVE FALSE
      OBVIOUS
    <3>1. j < i \/ i = j
      BY <1>3
    <3>2. at[i] \in Nat /\ at[j] \in Nat
      BY <1>5
    <3> QED BY <1>3, <2>1, <2>3, <2>4, <3>1, <3>2
  <2> QED BY <1>4, <1>5, <2>1, <2>3, <2>4, <2>5 DEF Precedes
<1>12. Distinct(shelf) => Distinct(o)
  <2> SUFFICES ASSUME Distinct(shelf), NEW i \in 1..n, NEW j \in 1..n, i # j
               PROVE  o[i] # o[j]
    BY <1>4 DEF Distinct
  <2>1. i < j \/ j < i
    BY <1>3
  <2>2. at[i] # at[j]
    BY <1>3, <1>5, <2>1
  <2> QED BY <1>5, <2>2 DEF Distinct
<1> QED BY <1>6, <1>7, <1>8, <1>9, <1>10, <1>11, <1>12

\* The documents of a collection, in the order of their names.
LEMMA ListedKeeps ==
  ASSUME NEW c \in Slugs, texts \in [Slugs -> SUBSET FileNames]
  PROVE  /\ Listed(c) \in Seq(Records)
         /\ \A i \in DOMAIN Listed(c) :
              Listed(c)[i][1] = c /\ Listed(c)[i][2] \in texts[c]
         /\ \A n \in texts[c] : \E i \in DOMAIN Listed(c) : Listed(c)[i] = <<c, n>>
         /\ \A i, j \in DOMAIN Listed(c) : i < j => Listed(c)[i][2] < Listed(c)[j][2]
<1> DEFINE names == Ascending(texts[c])
           m == Cardinality(texts[c])
           o == [i \in DOMAIN names |-> <<c, names[i]>>]
<1>1. texts[c] \in SUBSET Nat /\ IsFiniteSet(texts[c]) /\ texts[c] \subseteq FileNames
  BY HarvestAssumption, FS_Subset
<1>2. /\ m \in Nat
      /\ names \in [1..m -> texts[c]]
      /\ \A i, j \in 1..m : i < j => names[i] < names[j]
      /\ \A x \in texts[c] : \E i \in 1..m : names[i] = x
  BY <1>1, AscendingOf
<1>3. Listed(c) = o
  BY DEF Listed
<1> HIDE DEF names, m
<1>4. /\ DOMAIN o = 1..m
      /\ \A i \in 1..m : o[i] = <<c, names[i]>> /\ names[i] \in texts[c]
  BY <1>2
<1> HIDE DEF o
<1>5. o \in Seq(Records)
  <2>1. o \in [1..m -> Records]
    <3>1. \A i \in 1..m : o[i] \in Records
      <4> SUFFICES ASSUME NEW i \in 1..m  PROVE o[i] \in Records
        OBVIOUS
      <4>1. o[i] = <<c, names[i]>> /\ names[i] \in FileNames
        BY <1>1, <1>4
      <4> QED BY <4>1 DEF Records
    <3>2. o = [i \in 1..m |-> o[i]]
      BY <1>3, <1>4 DEF o
    <3> QED BY <3>1, <3>2
  <2> QED BY <1>2, <2>1, SeqDef
<1> QED BY <1>2, <1>3, <1>4, <1>5
-----------------------------------------------------------------------------
(* Types *)

LEMMA HarvestInitTyped == HarvestInit => HarvestTypeOK
<1> SUFFICES ASSUME HarvestInit  PROVE HarvestTypeOK
  OBVIOUS
<1> USE DEF HarvestInit
<1>1. shelf \in Seq(Slugs)
  <2>1. PICK n \in 0..Cardinality(Slugs) : shelf \in [1..n -> Slugs]
    OBVIOUS
  <2>2. Cardinality(Slugs) \in Nat
    BY HarvestAssumption, FS_CardinalityType
  <2> QED BY <2>1, <2>2, SeqDef
<1>2. harvest \in Harvester
  BY EmptySeq DEF Harvester, DateFilters
<1>3. moves \in 0..MaxMoves
  BY HarvestAssumption
<1> QED BY <1>1, <1>2, <1>3 DEF HarvestTypeOK

\* The archive changes, and the harvest knows of it at most that it lost.
ArchiveStep(c) ==
  \/ ShowCollection(c) \/ HideCollection(c) \/ TouchCollection(c)
  \/ AddDocument(c) \/ RemoveDocument(c)

LEMMA LosesTyped ==
  ASSUME HarvestTypeOK, NEW c, Loses(c)
  PROVE  /\ harvest' \in Harvester
         /\ harvest' = [harvest EXCEPT !.lost = harvest'.lost]
         /\ harvest.lost => harvest'.lost
         /\ ~harvest'.lost => ~(c \in Shelved /\ Matches(c, harvest, late))
BY DEF HarvestTypeOK, Harvester, Loses

LEMMA MovesTyped ==
  ASSUME HarvestTypeOK, Happens
  PROVE  moves' \in 0..MaxMoves
BY HarvestAssumption DEF HarvestTypeOK, Happens

LEMMA ArchiveStepTyped ==
  ASSUME HarvestTypeOK, NEW c \in Slugs, ArchiveStep(c)
  PROVE  HarvestTypeOK'
<1> USE DEF HarvestTypeOK
<1>0. moves' \in 0..MaxMoves
  BY MovesTyped DEF ArchiveStep, ShowCollection, HideCollection, TouchCollection,
                    AddDocument, RemoveDocument
<1>1. CASE ShowCollection(c)
  <2>1. PICK i \in 1..Len(shelf) + 1 :
          /\ shelf' = [j \in 1..Len(shelf) + 1 |->
                        IF j = i THEN c ELSE shelf[IF j < i THEN j ELSE j - 1]]
          /\ Dated(c) /\ UNCHANGED <<texts, harvest>>
    BY <1>1 DEF ShowCollection
  <2>2. Len(shelf) \in Nat /\ DOMAIN shelf = 1..Len(shelf)
    BY LenProperties
  <2>3. \A j \in 1..Len(shelf) + 1 : shelf'[j] \in Slugs
    <3> SUFFICES ASSUME NEW j \in 1..Len(shelf) + 1  PROVE shelf'[j] \in Slugs
      OBVIOUS
    <3>1. j # i => (IF j < i THEN j ELSE j - 1) \in 1..Len(shelf)
      BY <2>2
    <3>2. j # i => shelf[IF j < i THEN j ELSE j - 1] \in Slugs
      BY <3>1, ElementOfSeq
    <3> QED BY <2>1, <3>2
  <2>4. shelf' \in [1..Len(shelf) + 1 -> Slugs]
    BY <2>1, <2>3
  <2>5. shelf' \in Seq(Slugs)
    BY <2>2, <2>4, SeqDef
  <2>6. late' \in SUBSET Slugs
    BY <2>1 DEF Dated
  <2> QED BY <1>0, <2>1, <2>5, <2>6
<1>2. CASE HideCollection(c)
  <2>1. shelf' \in Seq(Slugs)
    BY <1>2, OnShelfKeeps DEF HideCollection
  <2>2. harvest' \in Harvester
    BY <1>2, LosesTyped DEF HideCollection
  <2> QED BY <1>0, <1>2, <2>1, <2>2 DEF HideCollection, Dated
<1>3. CASE TouchCollection(c)
  <2>1. harvest' \in Harvester
    BY <1>3, LosesTyped DEF TouchCollection
  <2> QED BY <1>0, <1>3, <2>1 DEF TouchCollection, Dated
<1>4. CASE AddDocument(c)
  <2>1. PICK n \in FileNames \ texts[c] :
          /\ texts' = [texts EXCEPT ![c] = @ \cup {n}]
          /\ UNCHANGED <<shelf, late, harvest>>
    BY <1>4 DEF AddDocument
  <2>2. texts' \in [Slugs -> SUBSET FileNames]
    BY <2>1
  <2> QED BY <1>0, <2>1, <2>2
<1>5. CASE RemoveDocument(c)
  <2>1. PICK n \in texts[c] :
          /\ texts' = [texts EXCEPT ![c] = @ \ {n}]
          /\ Loses(c) /\ UNCHANGED <<shelf, late>>
    BY <1>5 DEF RemoveDocument
  <2>2. texts' \in [Slugs -> SUBSET FileNames]
    BY <2>1
  <2>3. harvest' \in Harvester
    BY <2>1, LosesTyped
  <2> QED BY <1>0, <2>1, <2>2, <2>3
<1> QED BY <1>1, <1>2, <1>3, <1>4, <1>5 DEF ArchiveStep

LEMMA HarvestStepTyped ==
  ASSUME HarvestTypeOK, [HarvestNext]_harvestVars
  PROVE  HarvestTypeOK'
<1> USE DEF HarvestTypeOK
<1>0. shelf \in Seq(Slugs) /\ texts \in [Slugs -> SUBSET FileNames] /\ harvest \in Harvester
  OBVIOUS
<1>1. CASE BeginHarvest
  <2>1. PICK date \in DateFilters, within \in {Slugs} \cup {{c} : c \in Slugs},
             there \in SUBSET Records :
          harvest' = [[harvest EXCEPT !.at = "query", !.date = date, !.within = within]
                        EXCEPT !.there = there]
    <3>1. PICK date \in DateFilters, within \in {Slugs} \cup {{c} : c \in Slugs} :
            \E there \in SUBSET Records :
              harvest' = [[harvest EXCEPT !.at = "query", !.date = date, !.within = within]
                            EXCEPT !.there = there]
      BY <1>1 DEF BeginHarvest
    <3> QED BY <3>1
  <2>2. within \in SUBSET Slugs
    OBVIOUS
  <2>3. harvest' \in Harvester
    BY <1>0, <2>1, <2>2 DEF Harvester
  <2> QED BY <1>1, <2>3 DEF BeginHarvest
<1>2. CASE QueryCollections
  <2>1. Found(harvest) \in Seq(Slugs) /\ <<>> \in Seq(Records)
    BY <1>0, OnShelfKeeps, EmptySeq DEF Found
  <2>2. harvest' \in Harvester
    BY <1>0, <1>2, <2>1 DEF QueryCollections, Harvester
  <2> QED BY <1>2, <2>2 DEF QueryCollections
<1>3. CASE ListDocuments
  <2>1. /\ harvest.cols \in Seq(Slugs) /\ harvest.cols # <<>>
        /\ harvest.docs \in Seq(Records)
    BY <1>0, <1>3 DEF ListDocuments, Harvester
  <2>2. Head(harvest.cols) \in Slugs /\ Tail(harvest.cols) \in Seq(Slugs)
    BY <2>1, HeadTailProperties
  <2>3. Listed(Head(harvest.cols)) \in Seq(Records)
    BY <1>0, <2>2, ListedKeeps
  <2>4. harvest.docs \o Listed(Head(harvest.cols)) \in Seq(Records)
    BY <2>1, <2>3, ConcatProperties
  <2>5. harvest' \in Harvester
    BY <1>0, <1>3, <2>2, <2>4 DEF ListDocuments, Harvester
  <2> QED BY <1>3, <2>5 DEF ListDocuments
<1>4. CASE ListingFails
  <2>1. harvest.cols \in Seq(Slugs) /\ harvest.cols # <<>>
    BY <1>0, <1>4 DEF ListingFails, Harvester
  <2>2. Tail(harvest.cols) \in Seq(Slugs)
    BY <2>1, HeadTailProperties
  <2>3. harvest' \in Harvester
    BY <1>0, <1>4, <2>2 DEF ListingFails, Harvester
  <2> QED BY <1>4, <2>3, MovesTyped DEF ListingFails
<1>5. CASE GivePage
  <2> DEFINE got == harvest.got \cup {harvest.docs[i] : i \in
                      DOMAIN harvest.docs \cap (harvest.offset + 1)..NextOffset}
             at == IF NextOffset < Len(harvest.docs) THEN "query" ELSE "over"
             offset == IF NextOffset < Len(harvest.docs) THEN NextOffset
                       ELSE harvest.offset
  <2>1. harvest' = [harvest EXCEPT !.got = got, !.at = at, !.offset = offset]
    BY <1>5 DEF GivePage
  <2>0. at \in {"query", "over"} /\ offset \in Nat
    BY <1>0, HarvestAssumption DEF NextOffset, Harvester
  <2>2. \A i \in DOMAIN harvest.docs : harvest.docs[i] \in Records
    BY <1>0, ElementOfSeq, LenProperties DEF Harvester
  <2>3. got \in SUBSET Records
    BY <1>0, <2>2 DEF Harvester
  <2> HIDE DEF got, at, offset
  <2>4. harvest' \in Harvester
    BY <1>0, <2>0, <2>1, <2>3 DEF Harvester
  <2> QED BY <1>5, <2>4 DEF GivePage
<1>6. CASE LosePage
  <2>1. harvest' \in Harvester
    BY <1>0, <1>6 DEF LosePage, Harvester
  <2> QED BY <1>6, <2>1, MovesTyped DEF LosePage
<1>7. CASE \E c \in Slugs : ArchiveStep(c)
  BY <1>7, ArchiveStepTyped
<1>8. CASE UNCHANGED harvestVars
  BY <1>8 DEF harvestVars
<1> QED BY <1>1, <1>2, <1>3, <1>4, <1>5, <1>6, <1>7, <1>8 DEF HarvestNext, ArchiveStep

\* Every part of the harvest and of the archive keeps its type.
THEOREM HarvestTypeCorrect == HarvestSpec => []HarvestTypeOK
<1>1. HarvestInit => HarvestTypeOK
  BY HarvestInitTyped
<1>2. HarvestTypeOK /\ [HarvestNext]_harvestVars => HarvestTypeOK'
  BY HarvestStepTyped
<1> QED BY <1>1, <1>2, PTL DEF HarvestSpec

-----------------------------------------------------------------------------
(* Places in the list *)

LEMMA FiniteRecords ==
  ASSUME NEW S, S \subseteq Records
  PROVE  IsFiniteSet(S)
<1>1. IsFiniteSet(Records)
  BY HarvestAssumption, FS_Product DEF Records
<1> QED BY <1>1, FS_Subset

\* If the order stays among the records of S, none is nearer the start in T.
LEMMA PlaceGrows ==
  ASSUME NEW S, NEW T, S \subseteq T, T \subseteq Records, NEW s, NEW t, NEW r,
         \A q \in S : NotAfter(s, q, r) => NotAfter(t, q, r)
  PROVE  /\ Cardinality(UpTo(s, S, r)) \in Nat /\ Cardinality(UpTo(t, T, r)) \in Nat
         /\ Cardinality(UpTo(s, S, r)) <= Cardinality(UpTo(t, T, r))
<1>1. UpTo(s, S, r) \subseteq UpTo(t, T, r)
  BY DEF UpTo
<1>2. IsFiniteSet(UpTo(t, T, r))
  <2>1. UpTo(t, T, r) \subseteq Records
    BY DEF UpTo
  <2> QED BY <2>1, FiniteRecords
<1> QED BY <1>1, <1>2, NoMore

\* The first elements of a sequence without duplicates.
LEMMA FirstElements ==
  ASSUME NEW S, NEW s \in Seq(S), Distinct(s), NEW n \in 1..Len(s)
  PROVE  /\ IsFiniteSet({s[k] : k \in 1..n})
         /\ Cardinality({s[k] : k \in 1..n}) = n
<1> DEFINE F == {s[k] : k \in 1..n}
           f == [k \in 1..n |-> s[k]]
<1>1. n \in Nat /\ 1..n \subseteq DOMAIN s
  BY LenProperties
<1>2. f \in [1..n -> F]
  OBVIOUS
<1>3. \A k, l \in 1..n : f[k] = f[l] => k = l
  BY <1>1 DEF Distinct
<1>4. \A x \in F : \E k \in 1..n : f[k] = x
  OBVIOUS
<1>5. f \in Bijection(1..n, F)
  <2> HIDE DEF f, F
  <2> QED BY <1>2, <1>3, <1>4 DEF Bijection, Injection, Surjection, IsInjective
<1>6. ExistsBijection(1..n, F)
  BY <1>5 DEF ExistsBijection
<1> HIDE DEF F, f
<1>7. Cardinality(F) = n
  BY <1>1, <1>6, FS_CountingElements
<1>8. IsFiniteSet(F)
  BY <1>1, <1>6, FS_NatBijection
<1> QED BY <1>7, <1>8 DEF F

\* The order of the shelf is strict.
LEMMA Strict ==
  ASSUME NEW s \in Seq(Slugs), Distinct(s), NEW c, NEW d, Precedes(s, c, d)
  PROVE  c # d /\ ~Precedes(s, d, c)
<1>1. DOMAIN s \subseteq Nat
  BY LenProperties
<1>2. PICK i, j \in DOMAIN s : i < j /\ s[i] = c /\ s[j] = d
  BY DEF Precedes
<1>3. c # d
  BY <1>1, <1>2 DEF Distinct
<1>4. ASSUME NEW k \in DOMAIN s, NEW l \in DOMAIN s, k < l, s[k] = d, s[l] = c
      PROVE  FALSE
  <2>1. k = j /\ l = i
    BY <1>2, <1>4 DEF Distinct
  <2> QED BY <1>1, <1>2, <1>4, <2>1
<1> QED BY <1>3, <1>4 DEF Precedes

LEMMA Antisymmetric ==
  ASSUME NEW s \in Seq(Slugs), Distinct(s), NEW q \in Records, NEW r \in Records,
         NotAfter(s, q, r), q # r
  PROVE  ~NotAfter(s, r, q)
<1>1. q[2] \in Nat /\ r[2] \in Nat
  BY HarvestAssumption DEF Records
<1>2. CASE Precedes(s, q[1], r[1])
  BY <1>2, Strict DEF NotAfter
<1>3. CASE q[1] = r[1] /\ q[2] <= r[2]
  <2>1. q[2] # r[2]
    BY <1>3 DEF Records
  <2>2. ~(r[2] <= q[2])
    BY <1>1, <1>3, <2>1
  <2>3. ~Precedes(s, r[1], q[1])
    BY <1>3, Strict
  <2> QED BY <2>2, <2>3 DEF NotAfter
<1> QED BY <1>2, <1>3 DEF NotAfter

LEMMA PromisedIsCurrent ==
  ASSUME HarvestTypeOK, ColsFit, DocsFit
  PROVE  Promised \subseteq ListedNow
BY DEF ColsFit, DocsFit, Promised, ListedNow

\* While the archive only adds to what the harvest matches, the records it waits
\* for stay where they were or move away from the start.
LEMMA Grows ==
  ASSUME HarvestTypeOK, HarvestTypeOK', HarvestKnows, Distinct(shelf)',
         harvest' = [harvest EXCEPT !.lost = harvest'.lost],
         harvest.lost => harvest'.lost,
         ~harvest'.lost =>
           /\ \A d \in Shelved \cap Matching(harvest) :
                /\ d \in Shelved' /\ Matches(d, harvest, late')
                /\ texts[d] \subseteq texts'[d]
           /\ \A c, d \in Shelved \cap Matching(harvest) :
                Precedes(shelf, c, d) => Precedes(shelf', c, d)
  PROVE  HarvestKnows'
<1>0. /\ harvest \in Harvester /\ harvest' \in Harvester
      /\ harvest'.at = harvest.at /\ harvest'.date = harvest.date
      /\ harvest'.within = harvest.within /\ harvest'.offset = harvest.offset
      /\ harvest'.cols = harvest.cols /\ harvest'.docs = harvest.docs
      /\ harvest'.got = harvest.got /\ harvest'.there = harvest.there
  BY DEF HarvestTypeOK, Harvester
<1>1. SUFFICES ASSUME ~harvest'.lost, harvest.at \in {"query", "list"}
      PROVE  /\ harvest'.there \subseteq ListedNow'
             /\ harvest.at = "query" => QueryKnows'
             /\ harvest.at = "list" => ListKnows'
  BY <1>0 DEF HarvestKnows
<1>2. /\ harvest.there \subseteq ListedNow
      /\ harvest.at = "query" => QueryKnows
      /\ harvest.at = "list" => ListKnows
  BY <1>1 DEF HarvestKnows
<1>3. \A d \in Shelved \cap Matching(harvest) :
        d \in (Shelved \cap Matching(harvest))' /\ texts[d] \subseteq texts'[d]
  BY <1>0, <1>1 DEF Matching, Matches
<1>4. ListedNow \subseteq ListedNow'
  BY <1>3 DEF ListedNow
<1>5. \A q, r \in ListedNow : NotAfter(shelf, q, r) => NotAfter(shelf', q, r)
  BY <1>1 DEF ListedNow, NotAfter
<1>6. ListedNow' \subseteq Records
  BY DEF ListedNow
<1>7. CASE harvest.at = "query"
  <2> SUFFICES ASSUME NEW r \in harvest.there \ harvest.got
               PROVE  harvest.offset < Cardinality(UpTo(shelf', ListedNow', r))
    BY <1>0, <1>2, <1>4, <1>7 DEF QueryKnows, PastOffset
  <2>1. harvest.offset < Cardinality(UpTo(shelf, ListedNow, r))
    BY <1>2, <1>7 DEF QueryKnows, PastOffset
  <2>2. \A q \in ListedNow : NotAfter(shelf, q, r) => NotAfter(shelf', q, r)
    BY <1>2, <1>5
  <2>3. harvest.offset \in Nat
    BY <1>0 DEF Harvester
  <2>4. /\ Cardinality(UpTo(shelf, ListedNow, r)) \in Nat
        /\ Cardinality(UpTo(shelf', ListedNow', r)) \in Nat
        /\ Cardinality(UpTo(shelf, ListedNow, r)) <= Cardinality(UpTo(shelf', ListedNow', r))
    BY <1>4, <1>6, <2>2, PlaceGrows
  <2> QED BY <2>1, <2>3, <2>4
<1>8. CASE harvest.at = "list"
  <2>1. ColsFit /\ DocsFit /\ harvest.there \subseteq Promised /\ PastOffset(Promised)
    BY <1>2, <1>8 DEF ListKnows
  <2>2. ColsFit'
    BY <1>0, <1>1, <1>3, <2>1 DEF ColsFit
  <2>3. DocsFit'
    <3>1. \A i \in DOMAIN harvest.docs : harvest.docs[i] \in ListedNow'
      BY <1>4, <2>1 DEF DocsFit
    <3>2. \A i, j \in DOMAIN harvest.docs : i < j =>
            /\ NotAfter(shelf', harvest.docs[i], harvest.docs[j])
            /\ harvest.docs[i] # harvest.docs[j]
      BY <1>5, <2>1 DEF DocsFit
    <3>3. \A i \in DOMAIN harvest.docs, j \in DOMAIN harvest.cols :
            Precedes(shelf', harvest.docs[i][1], harvest.cols[j])
      BY <1>1, <2>1 DEF DocsFit, ColsFit, ListedNow
    <3> QED BY <1>0, <3>1, <3>2, <3>3 DEF DocsFit
  <2>4. Promised \subseteq Promised' /\ Promised \subseteq ListedNow
    <3>1. Promised \subseteq ListedNow
      BY <2>1, PromisedIsCurrent
    <3>2. Promised \subseteq Promised'
      BY <1>0, <1>3, <2>1 DEF Promised, ColsFit
    <3> QED BY <3>1, <3>2
  <2>5. Promised' \subseteq Records
    BY <2>2, <2>3, PromisedIsCurrent, <1>6 DEF Promised, DocsFit
  <2>6. PastOffset(Promised)'
    <3> SUFFICES ASSUME NEW r \in harvest.there \ harvest.got
                 PROVE  harvest.offset < Cardinality(UpTo(shelf', Promised', r))
      BY <1>0 DEF PastOffset
    <3>1. harvest.offset < Cardinality(UpTo(shelf, Promised, r))
      BY <2>1 DEF PastOffset
    <3>2. \A q \in Promised : NotAfter(shelf, q, r) => NotAfter(shelf', q, r)
      BY <1>2, <1>5, <2>4
    <3>3. harvest.offset \in Nat
      BY <1>0 DEF Harvester
    <3>4. /\ Cardinality(UpTo(shelf, Promised, r)) \in Nat
          /\ Cardinality(UpTo(shelf', Promised', r)) \in Nat
          /\ Cardinality(UpTo(shelf, Promised, r)) <= Cardinality(UpTo(shelf', Promised', r))
      BY <2>4, <2>5, <3>2, PlaceGrows
    <3> QED BY <3>1, <3>3, <3>4
  <2> QED BY <1>0, <1>2, <1>4, <1>8, <2>1, <2>2, <2>3, <2>4, <2>6 DEF ListKnows
<1> QED BY <1>1, <1>7, <1>8

-----------------------------------------------------------------------------
(* Steps of the archive *)

LEMMA ShowKeeps ==
  ASSUME HarvestTypeOK, HarvestTypeOK', HarvestKnows, NEW c \in Slugs, ShowCollection(c)
  PROVE  HarvestKnows'
<1>1. PICK i \in 1..Len(shelf) + 1 :
        /\ c \notin Shelved
        /\ shelf' = [j \in 1..Len(shelf) + 1 |->
                      IF j = i THEN c ELSE shelf[IF j < i THEN j ELSE j - 1]]
        /\ Dated(c) /\ UNCHANGED <<texts, harvest>>
  BY DEF ShowCollection
<1>2. Len(shelf) \in Nat /\ DOMAIN shelf = 1..Len(shelf)
  BY LenProperties DEF HarvestTypeOK
<1> DEFINE after(k) == IF k < i THEN k ELSE k + 1
<1>3. \A k \in DOMAIN shelf : after(k) \in DOMAIN shelf' /\ shelf'[after(k)] = shelf[k]
  BY <1>1, <1>2
<1>4. \A k, l \in DOMAIN shelf : k < l => after(k) < after(l)
  BY <1>1, <1>2
<1>5. \A j \in DOMAIN shelf' : j # i => \E k \in DOMAIN shelf : j = after(k)
  <2> SUFFICES ASSUME NEW j \in 1..Len(shelf) + 1, j # i
               PROVE  \E k \in DOMAIN shelf : j = after(k)
    BY <1>1
  <2>1. CASE j < i
    BY <1>1, <1>2, <2>1
  <2>2. CASE j > i
    <3>1. j - 1 \in DOMAIN shelf /\ after(j - 1) = j
      BY <1>1, <1>2, <2>2
    <3> QED BY <3>1
  <2> QED BY <1>1, <1>2, <2>1, <2>2
<1>6. i \in DOMAIN shelf' /\ shelf'[i] = c
  BY <1>1
<1> HIDE DEF after
<1>7. Distinct(shelf)'
  <2> SUFFICES ASSUME NEW j \in DOMAIN shelf', NEW k \in DOMAIN shelf', j # k,
                      shelf'[j] = shelf'[k]
               PROVE  FALSE
    BY DEF Distinct
  <2>1. CASE j = i
    BY <1>1, <1>3, <1>5, <1>6, <2>1 DEF Shelved
  <2>2. CASE k = i
    BY <1>1, <1>3, <1>5, <1>6, <2>2 DEF Shelved
  <2>3. CASE j # i /\ k # i
    <3>1. PICK m \in DOMAIN shelf : j = after(m)
      BY <1>5, <2>3
    <3>2. PICK n \in DOMAIN shelf : k = after(n)
      BY <1>5, <2>3
    <3>3. m # n /\ shelf[m] = shelf[n]
      BY <1>3, <3>1, <3>2
    <3> QED BY <3>3 DEF HarvestKnows, Distinct
  <2> QED BY <2>1, <2>2, <2>3
<1>8. \A d, e : Precedes(shelf, d, e) => Precedes(shelf', d, e)
  BY <1>3, <1>4 DEF Precedes
<1>9. \A d \in Shelved \cap Matching(harvest) :
        d \in Shelved' /\ Matches(d, harvest, late') /\ texts[d] \subseteq texts'[d]
  <2> SUFFICES ASSUME NEW d \in Shelved, d \in Matching(harvest)
               PROVE  d \in Shelved' /\ Matches(d, harvest, late')
    BY <1>1
  <2>1. d # c
    BY <1>1
  <2>2. d \in Shelved'
    BY <1>3 DEF Shelved
  <2> QED BY <1>1, <2>1, <2>2 DEF Dated, Matching, Matches
<1>10. harvest' = [harvest EXCEPT !.lost = harvest'.lost] /\ harvest' = harvest
  BY <1>1 DEF HarvestTypeOK, Harvester
<1> QED BY <1>7, <1>8, <1>9, <1>10, Grows

LEMMA HideKeeps ==
  ASSUME HarvestTypeOK, HarvestTypeOK', HarvestKnows, NEW c \in Slugs, HideCollection(c)
  PROVE  HarvestKnows'
<1>1. /\ c \in Shelved /\ shelf' = OnShelf(Slugs \ {c}) /\ Dated(c)
      /\ Loses(c) /\ texts' = texts
  BY DEF HideCollection
<1>2. /\ harvest' = [harvest EXCEPT !.lost = harvest'.lost]
      /\ harvest.lost => harvest'.lost
      /\ ~harvest'.lost => ~Matches(c, harvest, late)
  BY <1>1, LosesTyped
<1>3. /\ \A d \in Shelved \cap (Slugs \ {c}) : d \in Shelved'
      /\ \A d, e \in Slugs \ {c} : Precedes(shelf, d, e) => Precedes(shelf', d, e)
      /\ Distinct(shelf)'
  <2>1. /\ \A d \in Shelved \cap (Slugs \ {c}) :
             \E i \in DOMAIN OnShelf(Slugs \ {c}) : OnShelf(Slugs \ {c})[i] = d
        /\ \A d, e \in Slugs \ {c} :
             Precedes(shelf, d, e) => Precedes(OnShelf(Slugs \ {c}), d, e)
        /\ Distinct(shelf) => Distinct(OnShelf(Slugs \ {c}))
    BY OnShelfKeeps DEF HarvestTypeOK
  <2>2. Distinct(shelf')
    BY <1>1, <2>1 DEF HarvestKnows
  <2>3. \A d \in Shelved \cap (Slugs \ {c}) : d \in Shelved'
    BY <1>1, <2>1 DEF Shelved
  <2>4. Distinct(shelf)'
    BY <2>2 DEF Distinct
  <2> QED BY <1>1, <2>1, <2>3, <2>4
<1>4. ASSUME ~harvest'.lost
      PROVE  /\ \A d \in Shelved \cap Matching(harvest) :
                  /\ d \in Shelved' /\ Matches(d, harvest, late')
                  /\ texts[d] \subseteq texts'[d]
             /\ \A d, e \in Shelved \cap Matching(harvest) :
                  Precedes(shelf, d, e) => Precedes(shelf', d, e)
  <2>1. \A d \in Matching(harvest) : d \in Slugs \ {c}
    BY <1>2, <1>4 DEF Matching
  <2>2. \A d \in Matching(harvest) : Matches(d, harvest, late')
    BY <1>1, <2>1 DEF Dated, Matching, Matches
  <2> QED BY <1>1, <1>3, <2>1, <2>2
<1> QED BY <1>2, <1>3, <1>4, Grows

LEMMA TouchKeeps ==
  ASSUME HarvestTypeOK, HarvestTypeOK', HarvestKnows, NEW c \in Slugs, TouchCollection(c)
  PROVE  HarvestKnows'
<1>1. /\ Dated(c) /\ UNCHANGED <<shelf, texts>>
      /\ IF Matches(c, harvest, late) /\ ~Matches(c, harvest, late') THEN Loses(c)
         ELSE UNCHANGED harvest
  BY DEF TouchCollection
<1>2. /\ harvest' = [harvest EXCEPT !.lost = harvest'.lost]
      /\ harvest.lost => harvest'.lost
      /\ ~harvest'.lost =>
           (c \in Shelved /\ Matches(c, harvest, late) => Matches(c, harvest, late'))
  <2>1. CASE Matches(c, harvest, late) /\ ~Matches(c, harvest, late')
    BY <1>1, <2>1, LosesTyped
  <2>2. CASE ~(Matches(c, harvest, late) /\ ~Matches(c, harvest, late'))
    BY <1>1, <2>2 DEF HarvestTypeOK, Harvester
  <2> QED BY <2>1, <2>2
<1>3. Distinct(shelf)' /\ Shelved' = Shelved
  BY <1>1 DEF HarvestKnows, Distinct, Shelved
<1>4. \A d \in Slugs : d # c => (Matches(d, harvest, late) => Matches(d, harvest, late'))
  BY <1>1 DEF Dated, Matches
<1>5. ~harvest'.lost => \A d \in Shelved \cap Matching(harvest) :
        d \in Shelved' /\ Matches(d, harvest, late') /\ texts[d] \subseteq texts'[d]
  BY <1>1, <1>2, <1>3, <1>4 DEF Matching
<1> QED BY <1>1, <1>2, <1>3, <1>5, Grows

LEMMA DocumentsKeep ==
  ASSUME HarvestTypeOK, HarvestTypeOK', HarvestKnows, NEW c \in Slugs,
         AddDocument(c) \/ RemoveDocument(c)
  PROVE  HarvestKnows'
<1>1. /\ UNCHANGED <<shelf, late>>
      /\ \A d \in Slugs : d # c => texts'[d] = texts[d]
      /\ harvest' = [harvest EXCEPT !.lost = harvest'.lost]
      /\ harvest.lost => harvest'.lost
      /\ ~harvest'.lost =>
           (c \in Shelved /\ Matches(c, harvest, late) => texts[c] \subseteq texts'[c])
  <2>1. CASE AddDocument(c)
    BY <2>1 DEF AddDocument, HarvestTypeOK, Harvester
  <2>2. CASE RemoveDocument(c)
    BY <2>2, LosesTyped DEF RemoveDocument, HarvestTypeOK
  <2> QED BY <2>1, <2>2
<1>2. Distinct(shelf)' /\ Shelved' = Shelved
  BY <1>1 DEF HarvestKnows, Distinct, Shelved
<1>3. ~harvest'.lost => \A d \in Shelved \cap Matching(harvest) :
        d \in Shelved' /\ Matches(d, harvest, late') /\ texts[d] \subseteq texts'[d]
  <2> SUFFICES ASSUME ~harvest'.lost, NEW d \in Shelved, d \in Matching(harvest)
               PROVE  texts[d] \subseteq texts'[d] /\ Matches(d, harvest, late')
    BY <1>2
  <2>1. d \in Slugs /\ Matches(d, harvest, late)
    BY DEF Matching
  <2> QED BY <1>1, <2>1
<1> QED BY <1>1, <1>2, <1>3, Grows

-----------------------------------------------------------------------------
(* Steps of the harvest *)

\* A record is at or before its own place.
LEMMA OwnPlace ==
  ASSUME NEW S, S \subseteq Records, NEW s, NEW r \in S
  PROVE  0 < Cardinality(UpTo(s, S, r))
<1>1. r[2] \in Nat
  BY HarvestAssumption DEF Records
<1>2. r \in UpTo(s, S, r)
  BY <1>1 DEF UpTo, NotAfter
<1>3. IsFiniteSet(UpTo(s, S, r))
  BY FiniteRecords DEF UpTo
<1>4. Cardinality(UpTo(s, S, r)) \in Nat /\ Cardinality(UpTo(s, S, r)) # 0
  BY <1>2, <1>3, FS_CardinalityType, FS_EmptySet
<1> QED BY <1>4

LEMMA BeginKeeps ==
  ASSUME HarvestTypeOK, HarvestKnows, BeginHarvest
  PROVE  HarvestKnows'
<1>1. PICK date \in DateFilters, within \in {Slugs} \cup {{c} : c \in Slugs} :
        LET h == [harvest EXCEPT !.at = "query", !.date = date, !.within = within] IN
        harvest' = [h EXCEPT !.there =
          {r \in Records : r[1] \in Shelved \cap Matching(h) /\ r[2] \in texts[r[1]]}]
  BY DEF BeginHarvest
<1> DEFINE h == [harvest EXCEPT !.at = "query", !.date = date, !.within = within]
<1>2. /\ h \in Harvester /\ h.date = date /\ h.within = within /\ h.at = "query"
      /\ h.offset = harvest.offset /\ h.got = harvest.got /\ h.lost = harvest.lost
  BY DEF HarvestTypeOK, Harvester
<1>3. /\ harvest'.at = "query" /\ harvest'.date = date /\ harvest'.within = within
      /\ harvest'.offset = 0 /\ harvest'.got = {}
      /\ harvest'.there =
           {r \in Records : r[1] \in Shelved \cap Matching(h) /\ r[2] \in texts[r[1]]}
  <2>1. harvest.offset = 0 /\ harvest.got = {}
    BY DEF BeginHarvest, HarvestKnows
  <2> HIDE DEF h
  <2>2. harvest' = [h EXCEPT !.there =
          {r \in Records : r[1] \in Shelved \cap Matching(h) /\ r[2] \in texts[r[1]]}]
    BY <1>1 DEF h
  <2> QED BY <1>2, <2>1, <2>2 DEF Harvester
<1>4. UNCHANGED <<shelf, texts, late>>
  BY DEF BeginHarvest
<1> HIDE DEF h
<1>5. Shelved' = Shelved /\ Matching(harvest)' = Matching(h)
  BY <1>2, <1>3, <1>4 DEF Shelved, Matching, Matches
<1>6. harvest'.there = ListedNow'
  BY <1>3, <1>4, <1>5 DEF ListedNow
<1>7. QueryKnows'
  <2> SUFFICES ASSUME NEW r \in ListedNow'
               PROVE  0 < Cardinality(UpTo(shelf', ListedNow', r))
    BY <1>3, <1>6 DEF QueryKnows, PastOffset
  <2>1. ListedNow' \subseteq Records
    BY DEF ListedNow
  <2> QED BY <2>1, OwnPlace
<1> QED BY <1>3, <1>4, <1>6, <1>7 DEF HarvestKnows, Distinct

LEMMA QueryPageKeeps ==
  ASSUME HarvestTypeOK, HarvestKnows, QueryCollections
  PROVE  HarvestKnows'
<1> DEFINE o == Found(harvest)
<1>1. /\ UNCHANGED <<shelf, texts, late>>
      /\ harvest'.at = "list" /\ harvest.at = "query"
      /\ harvest'.cols = o /\ harvest'.docs = <<>>
      /\ harvest'.date = harvest.date /\ harvest'.within = harvest.within
      /\ harvest'.offset = harvest.offset /\ harvest'.got = harvest.got
      /\ harvest'.there = harvest.there /\ harvest'.lost = harvest.lost
  BY DEF QueryCollections, HarvestTypeOK, Harvester
<1>2. /\ \A i \in DOMAIN o : o[i] \in Shelved \cap Matching(harvest)
      /\ \A c \in Shelved \cap Matching(harvest) : \E i \in DOMAIN o : o[i] = c
      /\ \A i, j \in DOMAIN o : i < j => Precedes(shelf, o[i], o[j])
  BY OnShelfKeeps DEF HarvestTypeOK, Found
<1> HIDE DEF o
<1>3. Shelved' = Shelved /\ Matching(harvest)' = Matching(harvest)
  BY <1>1 DEF Shelved, Matching, Matches
<1>4. ListedNow' = ListedNow
  BY <1>1, <1>3 DEF ListedNow
<1>5. SUFFICES ASSUME ~harvest.lost
      PROVE  harvest.there \subseteq ListedNow /\ ListKnows'
  BY <1>1, <1>4 DEF HarvestKnows, Distinct
<1>6. harvest.there \subseteq ListedNow /\ PastOffset(ListedNow)
  BY <1>1, <1>5 DEF HarvestKnows, QueryKnows
<1>7. DOMAIN harvest'.docs = {}
  BY <1>1
<1>8. Promised' = ListedNow
  BY <1>1, <1>2, <1>7 DEF Promised, ListedNow
<1>9. ColsFit'
  BY <1>1, <1>2, <1>3 DEF ColsFit
<1>10. DocsFit'
  BY <1>7 DEF DocsFit
<1>11. PastOffset(Promised)'
  BY <1>1, <1>6, <1>8 DEF PastOffset
<1> QED BY <1>1, <1>6, <1>8, <1>9, <1>10, <1>11 DEF ListKnows

LEMMA ListDocumentsKeeps ==
  ASSUME HarvestTypeOK, HarvestKnows, ListDocuments
  PROVE  HarvestKnows'
<1> DEFINE c == Head(harvest.cols)
           new == Listed(c)
           docs == harvest.docs
           cols == harvest.cols
           n == Len(docs)
<1>1. /\ UNCHANGED <<shelf, texts, late>>
      /\ harvest.at = "list" /\ harvest'.at = "list" /\ cols # <<>>
      /\ harvest'.cols = Tail(cols) /\ harvest'.docs = docs \o new
      /\ harvest'.date = harvest.date /\ harvest'.within = harvest.within
      /\ harvest'.offset = harvest.offset /\ harvest'.got = harvest.got
      /\ harvest'.there = harvest.there /\ harvest'.lost = harvest.lost
  BY DEF ListDocuments, HarvestTypeOK, Harvester
<1>2. /\ cols \in Seq(Slugs) /\ docs \in Seq(Records)
      /\ texts \in [Slugs -> SUBSET FileNames] /\ shelf \in Seq(Slugs)
  BY DEF HarvestTypeOK, Harvester
<1>3. /\ c \in Slugs /\ Tail(cols) \in Seq(Slugs)
      /\ DOMAIN cols = 1..Len(cols) /\ Len(cols) \in Nat \ {0} /\ c = cols[1]
      /\ DOMAIN Tail(cols) = 1..Len(cols) - 1
      /\ \A i \in DOMAIN Tail(cols) : Tail(cols)[i] = cols[i + 1]
  BY <1>1, <1>2, HeadTailProperties, LenProperties, EmptySeq
<1>4. /\ new \in Seq(Records)
      /\ \A i \in DOMAIN new : new[i][1] = c /\ new[i][2] \in texts[c]
      /\ \A x \in texts[c] : \E i \in DOMAIN new : new[i] = <<c, x>>
      /\ \A i, j \in DOMAIN new : i < j => new[i][2] < new[j][2]
  <2>1. c \in Slugs
    BY <1>3
  <2> HIDE DEF c
  <2> QED BY <1>2, <2>1, ListedKeeps
<1> HIDE DEF c, new, docs, cols
<1>5. /\ DOMAIN docs = 1..n /\ n \in Nat
      /\ DOMAIN new = 1..Len(new) /\ Len(new) \in Nat
      /\ DOMAIN (docs \o new) = 1..(n + Len(new))
      /\ \A i \in 1..n : (docs \o new)[i] = docs[i]
      /\ \A i \in 1..Len(new) : (docs \o new)[n + i] = new[i]
  <2>1. /\ docs \o new \in Seq(Records) /\ Len(docs \o new) = n + Len(new)
        /\ \A i \in 1..(n + Len(new)) :
             (docs \o new)[i] = IF i <= n THEN docs[i] ELSE new[i - n]
    BY <1>2, <1>4, ConcatProperties
  <2>2. /\ DOMAIN docs = 1..n /\ n \in Nat
        /\ DOMAIN new = 1..Len(new) /\ Len(new) \in Nat
    BY <1>2, <1>4, LenProperties
  <2>3. DOMAIN (docs \o new) = 1..(n + Len(new))
    BY <2>1, LenProperties
  <2> QED BY <2>1, <2>2, <2>3
<1>6. \A i \in DOMAIN (docs \o new) :
        \/ i \in DOMAIN docs /\ (docs \o new)[i] = docs[i] /\ i <= n
        \/ /\ i - n \in DOMAIN new /\ (docs \o new)[i] = new[i - n] /\ i > n
  <2> SUFFICES ASSUME NEW i \in 1..(n + Len(new))
               PROVE  \/ i \in 1..n /\ (docs \o new)[i] = docs[i] /\ i <= n
                      \/ /\ i - n \in 1..Len(new) /\ (docs \o new)[i] = new[i - n]
                         /\ i > n
    BY <1>5
  <2>1. i > n => i - n \in 1..Len(new) /\ n + (i - n) = i
    BY <1>5
  <2> QED BY <1>5, <2>1
<1>7. Shelved' = Shelved /\ Matching(harvest)' = Matching(harvest)
  BY <1>1 DEF Shelved, Matching, Matches
<1>8. ListedNow' = ListedNow
  BY <1>1, <1>7 DEF ListedNow
<1>9. SUFFICES ASSUME ~harvest.lost
      PROVE  harvest.there \subseteq ListedNow /\ ListKnows'
  BY <1>1, <1>8 DEF HarvestKnows, Distinct
<1>10. /\ harvest.there \subseteq ListedNow /\ harvest.there \subseteq Promised
       /\ ColsFit /\ DocsFit /\ PastOffset(Promised)
  BY <1>1, <1>9 DEF HarvestKnows, ListKnows
<1>11. Promised' = Promised
  <2>1. Promised = {docs[i] : i \in DOMAIN docs} \cup
          {r \in Records : (\E i \in DOMAIN cols : cols[i] = r[1]) /\ r[2] \in texts[r[1]]}
    BY DEF Promised, docs, cols
  <2>2. Promised' = {(docs \o new)[i] : i \in DOMAIN (docs \o new)} \cup
          {r \in Records : /\ \E i \in DOMAIN Tail(cols) : Tail(cols)[i] = r[1]
                           /\ r[2] \in texts[r[1]]}
    BY <1>1 DEF Promised
  <2>3. {(docs \o new)[i] : i \in DOMAIN (docs \o new)} =
          {docs[i] : i \in DOMAIN docs} \cup {new[i] : i \in DOMAIN new}
    <3>1. \A i \in DOMAIN docs : i \in DOMAIN (docs \o new) /\ docs[i] = (docs \o new)[i]
      BY <1>5
    <3>2. \A i \in DOMAIN new :
            n + i \in DOMAIN (docs \o new) /\ new[i] = (docs \o new)[n + i]
      BY <1>5
    <3> QED BY <1>6, <3>1, <3>2
  <2>4. {new[i] : i \in DOMAIN new} = {r \in Records : r[1] = c /\ r[2] \in texts[r[1]]}
    <3>1. \A i \in DOMAIN new : new[i] \in Records
      BY <1>4, <1>5, ElementOfSeq
    <3>2. \A r \in Records : r[1] = c => r = <<c, r[2]>>
      BY DEF Records
    <3> QED BY <1>4, <3>1, <3>2
  <2>5. \A d : (\E i \in DOMAIN cols : cols[i] = d)
               <=> d = c \/ \E i \in DOMAIN Tail(cols) : Tail(cols)[i] = d
    <3>1. \A i \in DOMAIN cols : i = 1 \/ (i - 1 \in DOMAIN Tail(cols) /\ (i - 1) + 1 = i)
      BY <1>3
    <3>2. \A i \in DOMAIN Tail(cols) : i + 1 \in DOMAIN cols
      BY <1>3
    <3>3. 1 \in DOMAIN cols
      BY <1>3
    <3> QED BY <1>3, <3>1, <3>2, <3>3
  <2> QED BY <2>1, <2>2, <2>3, <2>4, <2>5
<1>12. ColsFit'
  <2>1. \A i \in DOMAIN Tail(cols) : i + 1 \in DOMAIN cols
    BY <1>3
  <2>2. \A i \in DOMAIN Tail(cols) : Tail(cols)[i] \in Shelved \cap Matching(harvest)
    BY <1>3, <1>10, <2>1 DEF ColsFit, cols
  <2>3. \A i, j \in DOMAIN Tail(cols) :
          i < j => Precedes(shelf, Tail(cols)[i], Tail(cols)[j])
    <3> SUFFICES ASSUME NEW i \in DOMAIN Tail(cols), NEW j \in DOMAIN Tail(cols), i < j
                 PROVE  Precedes(shelf, Tail(cols)[i], Tail(cols)[j])
      OBVIOUS
    <3>1. i + 1 < j + 1
      BY <1>3
    <3> QED BY <1>3, <1>10, <2>1, <3>1 DEF ColsFit, cols
  <2> QED BY <1>1, <1>7, <2>2, <2>3 DEF ColsFit
<1>13. c \in Shelved \cap Matching(harvest)
  BY <1>3, <1>10 DEF ColsFit, cols
<1>14. \A i \in DOMAIN (docs \o new) : (docs \o new)[i] \in ListedNow
  <2>1. \A i \in DOMAIN docs : docs[i] \in ListedNow
    BY <1>10 DEF DocsFit, docs
  <2>2. \A i \in DOMAIN new : new[i] \in ListedNow
    BY <1>4, <1>5, <1>13, ElementOfSeq DEF ListedNow
  <2> QED BY <1>6, <2>1, <2>2
<1>15. \A i, j \in DOMAIN (docs \o new) : i < j =>
         /\ NotAfter(shelf, (docs \o new)[i], (docs \o new)[j])
         /\ (docs \o new)[i] # (docs \o new)[j]
  <2> SUFFICES ASSUME NEW i \in DOMAIN (docs \o new), NEW j \in DOMAIN (docs \o new),
                      i < j
               PROVE  /\ NotAfter(shelf, (docs \o new)[i], (docs \o new)[j])
                      /\ (docs \o new)[i] # (docs \o new)[j]
    OBVIOUS
  <2>0. i \in Nat /\ j \in Nat
    BY <1>5
  <2>1. CASE j <= n
    <3>1. /\ i \in DOMAIN docs /\ (docs \o new)[i] = docs[i]
          /\ j \in DOMAIN docs /\ (docs \o new)[j] = docs[j]
      BY <1>5, <1>6, <2>0, <2>1
    <3>2. NotAfter(shelf, docs[i], docs[j]) /\ docs[i] # docs[j]
      BY <1>10, <3>1 DEF DocsFit, docs
    <3> QED BY <3>1, <3>2
  <2>2. CASE i <= n /\ j > n
    <3>1. /\ i \in DOMAIN docs /\ (docs \o new)[i] = docs[i]
          /\ j - n \in DOMAIN new /\ (docs \o new)[j] = new[j - n]
      BY <1>5, <1>6, <2>0, <2>2
    <3>0. 1 \in DOMAIN cols /\ cols[1] = c
      BY <1>3
    <3>2. Precedes(shelf, docs[i][1], c)
      BY <1>10, <3>0, <3>1 DEF DocsFit, docs, cols
    <3>3. new[j - n][1] = c
      BY <1>4, <3>1
    <3>4. docs[i][1] # c
      BY <1>2, <3>2, Strict DEF HarvestKnows
    <3> QED BY <3>1, <3>2, <3>3, <3>4 DEF NotAfter
  <2>3. CASE i > n
    <3>1. /\ i - n \in DOMAIN new /\ (docs \o new)[i] = new[i - n]
          /\ j - n \in DOMAIN new /\ (docs \o new)[j] = new[j - n]
          /\ i - n < j - n
      BY <1>5, <1>6, <2>0, <2>3
    <3>2. /\ new[i - n][1] = c /\ new[j - n][1] = c
          /\ new[i - n][2] < new[j - n][2]
      BY <1>4, <3>1
    <3>3. new[i - n][2] \in Nat /\ new[j - n][2] \in Nat
      <4>1. texts[c] \subseteq Nat
        BY <1>2, <1>3, HarvestAssumption
      <4> QED BY <1>4, <3>1, <4>1
    <3> QED BY <3>1, <3>2, <3>3 DEF NotAfter
  <2> QED BY <1>5, <2>0, <2>1, <2>2, <2>3
<1>16. \A i \in DOMAIN (docs \o new), j \in DOMAIN Tail(cols) :
         Precedes(shelf, (docs \o new)[i][1], Tail(cols)[j])
  <2> SUFFICES ASSUME NEW i \in DOMAIN (docs \o new), NEW j \in DOMAIN Tail(cols)
               PROVE  Precedes(shelf, (docs \o new)[i][1], Tail(cols)[j])
    OBVIOUS
  <2>1. j + 1 \in DOMAIN cols /\ 1 \in DOMAIN cols /\ 1 < j + 1 /\ Tail(cols)[j] = cols[j + 1]
    BY <1>3
  <2>2. CASE i \in DOMAIN docs /\ (docs \o new)[i] = docs[i]
    BY <1>10, <2>1, <2>2 DEF DocsFit, docs, cols
  <2>3. CASE i - n \in DOMAIN new /\ (docs \o new)[i] = new[i - n]
    <3>1. (docs \o new)[i][1] = cols[1]
      BY <1>3, <1>4, <2>3
    <3> QED BY <1>10, <2>1, <3>1 DEF ColsFit, cols
  <2> QED BY <1>6, <2>2, <2>3
<1>17. DocsFit'
  BY <1>1, <1>8, <1>14, <1>15, <1>16 DEF DocsFit
<1>18. PastOffset(Promised)'
  BY <1>1, <1>10, <1>11 DEF PastOffset
<1> QED BY <1>1, <1>10, <1>11, <1>12, <1>17, <1>18 DEF ListKnows

LEMMA FailKeeps ==
  ASSUME HarvestTypeOK, HarvestKnows, ListingFails
  PROVE  HarvestKnows'
<1>1. /\ harvest'.lost /\ harvest'.at = "list" /\ shelf' = shelf
  BY DEF ListingFails, HarvestTypeOK, Harvester
<1> QED BY <1>1 DEF HarvestKnows, Distinct

LEMMA LosePageKeeps ==
  ASSUME HarvestTypeOK, HarvestKnows, LosePage
  PROVE  HarvestKnows'
<1>1. /\ UNCHANGED <<shelf, texts, late>>
      /\ harvest.at = "list" /\ harvest'.at = "query"
      /\ harvest'.date = harvest.date /\ harvest'.within = harvest.within
      /\ harvest'.offset = harvest.offset /\ harvest'.got = harvest.got
      /\ harvest'.there = harvest.there /\ harvest'.lost = harvest.lost
  BY DEF LosePage, HarvestTypeOK, Harvester
<1>2. ListedNow' = ListedNow
  BY <1>1 DEF ListedNow, Shelved, Matching, Matches
<1>3. SUFFICES ASSUME ~harvest.lost
      PROVE  harvest.there \subseteq ListedNow /\ QueryKnows'
  BY <1>1, <1>2 DEF HarvestKnows, Distinct
<1>4. /\ harvest.there \subseteq ListedNow /\ ColsFit /\ DocsFit /\ PastOffset(Promised)
  BY <1>1, <1>3 DEF HarvestKnows, ListKnows
<1>5. QueryKnows'
  <2> SUFFICES ASSUME NEW r \in harvest.there \ harvest.got
               PROVE  harvest.offset < Cardinality(UpTo(shelf, ListedNow, r))
    BY <1>1, <1>2 DEF QueryKnows, PastOffset
  <2>1. harvest.offset < Cardinality(UpTo(shelf, Promised, r))
    BY <1>4 DEF PastOffset
  <2>2. Promised \subseteq ListedNow /\ ListedNow \subseteq Records
    BY <1>4, PromisedIsCurrent DEF ListedNow
  <2>3. /\ Cardinality(UpTo(shelf, Promised, r)) \in Nat
        /\ Cardinality(UpTo(shelf, ListedNow, r)) \in Nat
        /\ Cardinality(UpTo(shelf, Promised, r)) <= Cardinality(UpTo(shelf, ListedNow, r))
    BY <2>2, PlaceGrows
  <2>4. harvest.offset \in Nat
    BY DEF HarvestTypeOK, Harvester
  <2> QED BY <2>1, <2>3, <2>4
<1> QED BY <1>4, <1>5

\* With all of the list read, the place of a record in it is the number of those
\* up to it: the page has each that is not past the next offset.
LEMMA GiveKeeps ==
  ASSUME HarvestTypeOK, HarvestKnows, GivePage
  PROVE  HarvestKnows' /\ HarvestIsWhole'
<1> DEFINE docs == harvest.docs
           page == {docs[i] : i \in DOMAIN docs \cap (harvest.offset + 1)..NextOffset}
<1>1. /\ UNCHANGED <<shelf, texts, late>>
      /\ harvest.at = "list" /\ harvest.cols = <<>>
      /\ harvest'.at = IF NextOffset < Len(docs) THEN "query" ELSE "over"
      /\ NextOffset < Len(docs) => harvest'.offset = NextOffset
      /\ harvest'.got = harvest.got \cup page
      /\ harvest'.date = harvest.date /\ harvest'.within = harvest.within
      /\ harvest'.there = harvest.there /\ harvest'.lost = harvest.lost
  BY DEF GivePage, HarvestTypeOK, Harvester
<1>2. /\ docs \in Seq(Records) /\ shelf \in Seq(Slugs)
      /\ harvest.offset \in Nat /\ NextOffset \in Nat
      /\ DOMAIN docs = 1..Len(docs) /\ Len(docs) \in Nat
  <2>1. /\ docs \in Seq(Records) /\ shelf \in Seq(Slugs) /\ harvest.offset \in Nat
    BY DEF HarvestTypeOK, Harvester
  <2> QED BY <2>1, HarvestAssumption, LenProperties DEF NextOffset
<1>3. ListedNow' = ListedNow
  BY <1>1 DEF ListedNow, Shelved, Matching, Matches
<1>4. SUFFICES ASSUME ~harvest.lost
      PROVE  /\ harvest.there \subseteq ListedNow
             /\ harvest'.at = "query" => QueryKnows'
             /\ harvest'.at = "over" => harvest'.there \subseteq harvest'.got
  BY <1>1, <1>3 DEF HarvestKnows, HarvestIsWhole, Distinct
<1>5. /\ harvest.there \subseteq ListedNow /\ harvest.there \subseteq Promised
      /\ DocsFit /\ PastOffset(Promised) /\ Distinct(shelf)
  BY <1>1, <1>4 DEF HarvestKnows, ListKnows
<1>6. Promised = {docs[i] : i \in DOMAIN docs}
  <2>1. DOMAIN harvest.cols = {}
    BY <1>1
  <2> QED BY <2>1 DEF Promised
<1>7. Distinct(docs)
  <2> SUFFICES ASSUME NEW i \in DOMAIN docs, NEW j \in DOMAIN docs, i # j
               PROVE  docs[i] # docs[j]
    BY DEF Distinct
  <2>1. i < j \/ j < i
    BY <1>2
  <2> QED BY <1>5, <2>1 DEF DocsFit
<1>8. \A i \in DOMAIN docs : /\ docs[i] \in Records
                            /\ IsFiniteSet({docs[k] : k \in 1..i})
                            /\ Cardinality({docs[k] : k \in 1..i}) = i
  BY <1>2, <1>7, ElementOfSeq, FirstElements
<1>9. \A r \in harvest.there \ harvest'.got :
        \E i \in DOMAIN docs : docs[i] = r /\ NextOffset < i
  <2> SUFFICES ASSUME NEW r \in harvest.there, r \notin harvest.got, r \notin page
               PROVE  \E i \in DOMAIN docs : docs[i] = r /\ NextOffset < i
    BY <1>1
  <2>1. PICK i \in DOMAIN docs : docs[i] = r
    BY <1>5, <1>6
  <2>2. UpTo(shelf, Promised, r) \subseteq {docs[k] : k \in 1..i}
    <3> SUFFICES ASSUME NEW j \in DOMAIN docs, NotAfter(shelf, docs[j], docs[i])
                 PROVE  j \in 1..i
      BY <1>6, <2>1 DEF UpTo
    <3> SUFFICES ASSUME i < j  PROVE FALSE
      BY <1>2
    <3>1. NotAfter(shelf, docs[i], docs[j]) /\ docs[i] # docs[j]
      BY <1>5 DEF DocsFit
    <3> QED BY <1>2, <1>5, <1>8, <3>1, Antisymmetric
  <2>3. /\ Cardinality(UpTo(shelf, Promised, r)) \in Nat
        /\ Cardinality(UpTo(shelf, Promised, r)) <= i
    <3> DEFINE first == {docs[k] : k \in 1..i}
    <3>1. IsFiniteSet(first) /\ Cardinality(first) = i /\ UpTo(shelf, Promised, r) \subseteq first
      BY <1>8, <2>2
    <3> HIDE DEF first
    <3> QED BY <3>1, NoMore
  <2>4. harvest.offset < Cardinality(UpTo(shelf, Promised, r))
    BY <1>5 DEF PastOffset
  <2>5. i \notin (harvest.offset + 1)..NextOffset
    BY <2>1
  <2> HIDE DEF docs, page
  <2>6. NextOffset < i
    BY <1>2, <2>3, <2>4, <2>5
  <2> QED BY <2>1, <2>6
<1>10. CASE NextOffset < Len(docs)
  <2>1. QueryKnows'
    <3> SUFFICES ASSUME NEW r \in harvest.there \ harvest'.got
                 PROVE  NextOffset < Cardinality(UpTo(shelf, ListedNow, r))
      BY <1>1, <1>3, <1>10 DEF QueryKnows, PastOffset
    <3>1. PICK i \in DOMAIN docs : docs[i] = r /\ NextOffset < i
      BY <1>9
    <3>2. {docs[k] : k \in 1..i} \subseteq UpTo(shelf, ListedNow, r)
      <4> SUFFICES ASSUME NEW k \in 1..i
                   PROVE  docs[k] \in UpTo(shelf, ListedNow, r)
        OBVIOUS
      <4>1. k \in DOMAIN docs /\ docs[k] \in ListedNow
        BY <1>2, <1>5 DEF DocsFit
      <4>2. NotAfter(shelf, docs[k], r)
        <5>1. CASE k = i
          <6>1. r[2] \in Nat
            BY <1>8, <3>1, HarvestAssumption DEF Records
          <6> QED BY <3>1, <5>1, <6>1 DEF NotAfter
        <5>2. CASE k < i
          BY <1>5, <3>1, <4>1, <5>2 DEF DocsFit
        <5> QED BY <1>2, <5>1, <5>2
      <4> QED BY <4>1, <4>2 DEF UpTo
    <3>3. IsFiniteSet(UpTo(shelf, ListedNow, r))
      BY FiniteRecords DEF UpTo, ListedNow
    <3>4. /\ Cardinality(UpTo(shelf, ListedNow, r)) \in Nat
          /\ i <= Cardinality(UpTo(shelf, ListedNow, r))
      <4> DEFINE first == {docs[k] : k \in 1..i}
      <4>1. Cardinality(first) = i /\ first \subseteq UpTo(shelf, ListedNow, r)
        BY <1>8, <3>2
      <4> HIDE DEF first
      <4> QED BY <3>3, <4>1, NoMore
    <3> QED BY <1>2, <3>1, <3>4
  <2> QED BY <1>1, <1>5, <1>10, <2>1
<1>11. CASE ~(NextOffset < Len(docs))
  <2>1. harvest'.there \subseteq harvest'.got
    <3> SUFFICES ASSUME NEW r \in harvest.there \ harvest'.got  PROVE FALSE
      BY <1>1
    <3>1. PICK i \in DOMAIN docs : docs[i] = r /\ NextOffset < i
      BY <1>9
    <3> QED BY <1>2, <1>11, <3>1
  <2> QED BY <1>1, <1>5, <1>11, <2>1
<1> QED BY <1>10, <1>11

LEMMA OverStays ==
  ASSUME HarvestTypeOK, HarvestIsWhole, HarvestNext, ~GivePage
  PROVE  HarvestIsWhole'
<1>1. harvest'.at # "over"
  BY DEF HarvestTypeOK, Harvester, HarvestNext, BeginHarvest, QueryCollections,
         ListDocuments, ListingFails, LosePage, Happens, ShowCollection,
         HideCollection, TouchCollection, AddDocument, RemoveDocument, Loses
<1> QED BY <1>1 DEF HarvestIsWhole

HarvestInv == HarvestTypeOK /\ HarvestKnows /\ HarvestIsWhole

LEMMA HarvestInitInv == HarvestInit => HarvestInv
<1> SUFFICES ASSUME HarvestInit  PROVE HarvestKnows /\ HarvestIsWhole
  BY HarvestInitTyped DEF HarvestInv
<1> QED BY DEF HarvestInit, HarvestKnows, HarvestIsWhole, Distinct

LEMMA HarvestStepInv ==
  ASSUME HarvestInv, [HarvestNext]_harvestVars
  PROVE  HarvestInv'
<1>0. HarvestTypeOK /\ HarvestKnows /\ HarvestIsWhole /\ HarvestTypeOK'
  BY HarvestStepTyped DEF HarvestInv
<1>1. CASE GivePage
  BY <1>0, <1>1, GiveKeeps DEF HarvestInv
<1>2. CASE HarvestNext /\ ~GivePage
  <2>1. HarvestIsWhole'
    BY <1>0, <1>2, OverStays
  <2>2. HarvestKnows'
    BY <1>0, <1>2, BeginKeeps, QueryPageKeeps, ListDocumentsKeeps, FailKeeps, LosePageKeeps,
       ShowKeeps, HideKeeps, TouchKeeps, DocumentsKeep DEF HarvestNext
  <2> QED BY <1>0, <2>1, <2>2 DEF HarvestInv
<1>3. CASE UNCHANGED harvestVars
  <2>1. UNCHANGED <<shelf, texts, late, harvest>>
    BY <1>3 DEF harvestVars
  <2>2. HarvestIsWhole'
    BY <1>0, <2>1 DEF HarvestIsWhole
  <2>3. HarvestKnows'
    <3>1. harvest' = [harvest EXCEPT !.lost = harvest'.lost]
      BY <1>0, <2>1 DEF HarvestTypeOK, Harvester
    <3>2. Distinct(shelf)' /\ Shelved' = Shelved
      BY <1>0, <2>1 DEF HarvestKnows, Distinct, Shelved
    <3>3. \A d \in Shelved \cap Matching(harvest) :
            d \in Shelved' /\ Matches(d, harvest, late') /\ texts[d] \subseteq texts'[d]
      BY <2>1, <3>2 DEF Matching
    <3> QED BY <1>0, <2>1, <3>1, <3>2, <3>3, Grows
  <2> QED BY <1>0, <2>2, <2>3 DEF HarvestInv
<1> QED BY <1>1, <1>2, <1>3

\* A harvest that was told it is over has every record there was when it began,
\* unless one was withdrawn or not listed meanwhile.
THEOREM HarvestsAreWhole == HarvestSpec => []HarvestIsWhole
<1>1. HarvestInit => HarvestInv
  BY HarvestInitInv
<1>2. HarvestInv /\ [HarvestNext]_harvestVars => HarvestInv'
  BY HarvestStepInv
<1>3. HarvestInv => HarvestIsWhole
  BY DEF HarvestInv
<1> QED BY <1>1, <1>2, <1>3, PTL DEF HarvestSpec
=============================================================================
