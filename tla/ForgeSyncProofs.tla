-------------------------- MODULE ForgeSyncProofs --------------------------
(***************************************************************************)
(* Theorems about ForgeSync.  Branches only grow (Extends), so what a push *)
(* or an import has found on one stays there (PushKnows, ImportKnows): a   *)
(* push knows where its own commit is, and the head it reads again is not  *)
(* before it; an import that nothing else disturbs is the only one, and    *)
(* has made of the working tree what it has put of the commit it fetched   *)
(* (Imports).  That every number is one that was given (Within) counts on  *)
(* a push committing once.                                                 *)
(***************************************************************************)
EXTENDS ForgeSync, FiniteSetTheorems, TLAPS

\* Commits, links and requests, whatever their number.
Commit == [sha : Nat, files : Listing]
AnyLink == [id : Nat, repo : Repos, pushed : Nat, made : Nat,
            initialized : BOOLEAN, from : Nat, brought : SUBSET TeiFiles]
AnySync == [at : SyncPlaces, on : AnyLink \cup {NoLink}, names : SUBSET TeiFiles,
            read : Listing, got : SUBSET TeiFiles, head : Nat, seen : Listing,
            sha : Nat, made : Nat]

Open(s) == sync[s].at \notin {"none", "end"}

Typed ==
  /\ forge \in Forges /\ tree \in Listing
  /\ branch \in [Repos -> Seq(Commit)]
  /\ link \in AnyLink \cup {NoLink}
  /\ sync \in [Syncs -> AnySync]
  /\ \A s \in Syncs : Open(s) => sync[s].on \in AnyLink
  /\ commits \in Nat /\ edits \in 0..MaxEdits
  /\ disturbed \in BOOLEAN

\* The commits of b named n; m is on b, and p is m or a later one; l is the part
\* named by w of what the commit named n has; what l has is what b had when n was
\* its length; c has the commits of b.
Named(n, b) == {i \in DOMAIN b : b[i].sha = n}
Follows(p, m, b) == \E i \in Named(p, b), j \in Named(m, b) : j <= i
IsPart(l, w, n, b) == \E i \in Named(n, b) : l = Part(b[i].files, w)
WasThere(l, n, b) ==
  /\ n # 0 => n \in DOMAIN b
  /\ \A d \in TeiFiles : l[d] # Absent => n # 0 /\ l[d] = b[n].files[d]
Extends(b, c) == \A i \in DOMAIN b : i \in DOMAIN c /\ c[i] = b[i]

PushKnows(s) ==
  /\ sync[s].at = "commit" =>
       WasThere(sync[s].seen, sync[s].head, branch[sync[s].on.repo])
  /\ sync[s].at \in {"refetch", "record"} =>
       Named(sync[s].made, branch[sync[s].on.repo]) # {}
  /\ sync[s].at = "refetch" => forge # "github"
  /\ sync[s].at = "record" =>
       \/ sync[s].sha = 0 /\ forge # "github"
       \/ Follows(sync[s].sha, sync[s].made, branch[sync[s].on.repo])

ImportKnows(s) ==
  /\ sync[s].at \in {"none", "check", "fetch"} => sync[s].got = {}
  /\ sync[s].at \in {"put", "import"} =>
       /\ sync[s].names = Names(sync[s].read)
       /\ IsPart(sync[s].read, sync[s].names, sync[s].sha, branch[sync[s].on.repo])

PutSoFar(s) == [d \in TeiFiles |-> IF d \in sync[s].got THEN sync[s].read[d] ELSE Absent]

Imports ==
  /\ \A s, t \in Syncs : Importing(s) /\ Importing(t) => s = t
  /\ \A s \in Syncs :
       /\ sync[s].at = "fetch" => tree = EmptyListing
       /\ sync[s].at = "put" => tree = PutSoFar(s)
       /\ sync[s].at = "import" => tree = sync[s].read
  /\ link # NoLink /\ link.initialized =>
       /\ \A s \in Syncs : ~Importing(s)
       /\ \E r \in Repos : IsPart(tree, link.brought, link.from, branch[r])

ForgeInv ==
  /\ Typed
  /\ RecordedPushIsOnBranch
  /\ \A s \in Syncs : PushKnows(s) /\ ImportKnows(s)
  /\ ~disturbed => Imports
-----------------------------------------------------------------------------
LEMMA Lasting ==
  ASSUME NEW b, NEW c, Extends(b, c)
  PROVE  /\ \A n : Named(n, b) \subseteq Named(n, c)
         /\ \A p, m : Follows(p, m, b) => Follows(p, m, c)
         /\ \A l, w, n : IsPart(l, w, n, b) => IsPart(l, w, n, c)
         /\ \A l, n : WasThere(l, n, b) => WasThere(l, n, c)
<1>1. \A n : Named(n, b) \subseteq Named(n, c)
  BY DEF Named, Extends
<1>2. \A l, w, n : IsPart(l, w, n, b) => IsPart(l, w, n, c)
  <2> SUFFICES ASSUME NEW l, NEW w, NEW n, IsPart(l, w, n, b)
               PROVE  IsPart(l, w, n, c)
    OBVIOUS
  <2>1. PICK i \in Named(n, b) : l = Part(b[i].files, w)
    BY DEF IsPart
  <2>2. i \in Named(n, c) /\ c[i] = b[i]
    BY <1>1 DEF Named, Extends
  <2>. QED
    BY <2>1, <2>2 DEF IsPart
<1>3. \A l, n : WasThere(l, n, b) => WasThere(l, n, c)
  BY DEF WasThere, Extends
<1>. QED
  BY <1>1, <1>2, <1>3 DEF Follows

LEMMA Itself == \A b : Extends(b, b)
BY DEF Extends

LEMMA RecordedAs ==
  RecordedPushIsOnBranch <=>
    (link # NoLink /\ link.made # 0 =>
       \/ link.pushed = 0 /\ forge # "github"
       \/ \E r \in Repos : Follows(link.pushed, link.made, branch[r]))
BY DEF RecordedPushIsOnBranch, Position, Follows, Named

\* One commit on top of a branch.
LEMMA Grown ==
  ASSUME Typed, NEW r \in Repos, NEW x \in Commit,
         branch' = [branch EXCEPT ![r] = Append(branch[r], x)]
  PROVE  /\ branch' \in [Repos -> Seq(Commit)]
         /\ \A q \in Repos : Extends(branch[q], branch'[q])
         /\ branch'[r] = Append(branch[r], x) /\ Len(branch'[r]) = Len(branch[r]) + 1
         /\ branch'[r][Len(branch[r]) + 1] = x
         /\ Len(branch[r]) + 1 \in DOMAIN branch'[r]
<1>1. branch[r] \in Seq(Commit) /\ \A q \in Repos : branch[q] \in Seq(Commit)
  BY DEF Typed
<1>2. /\ branch'[r] = Append(branch[r], x) /\ \A q \in Repos \ {r} : branch'[q] = branch[q]
  BY DEF Typed
<1>3. Append(branch[r], x) \in Seq(Commit)
  BY <1>1
<1>4. branch' \in [Repos -> Seq(Commit)]
  BY <1>1, <1>2, <1>3 DEF Typed
<1>5. Extends(branch[r], Append(branch[r], x))
  BY <1>1 DEF Extends
<1>6. /\ Len(Append(branch[r], x)) = Len(branch[r]) + 1
      /\ Append(branch[r], x)[Len(branch[r]) + 1] = x
      /\ Len(branch[r]) + 1 \in DOMAIN Append(branch[r], x)
  BY <1>1
<1>. QED
  BY <1>2, <1>4, <1>5, <1>6, Itself

LEMMA FilesAtType ==
  ASSUME Typed, NEW r \in Repos
  PROVE  HeadFiles(r) \in Listing
<1>1. EmptyListing \in Listing
  BY ForgeSyncAssumption DEF EmptyListing, Listing, Content, Malformed, Absent
<1>2. branch[r] \in Seq(Commit) /\ Len(branch[r]) \in Nat
  BY DEF Typed
<1>3. CASE Len(branch[r]) # 0
  <2>1. branch[r][Len(branch[r])] \in Commit
    BY <1>2, <1>3
  <2>. QED
    BY <1>3, <2>1 DEF HeadFiles, FilesAt, Commit
<1>. QED
  BY <1>1, <1>3 DEF HeadFiles, FilesAt

\* A step that keeps the types, lets branches grow, and leaves each request as
\* it was or with what its place says.
LEMMA StepKeeps ==
  ASSUME ForgeInv, Typed', RecordedPushIsOnBranch', forge' = forge,
         \A r \in Repos : Extends(branch[r], branch'[r]),
         \A t \in Syncs : sync'[t] = sync[t] \/ (PushKnows(t)' /\ ImportKnows(t)'),
         ~disturbed' => Imports'
  PROVE  ForgeInv'
<1>1. ASSUME NEW t \in Syncs, sync'[t] = sync[t] PROVE PushKnows(t)' /\ ImportKnows(t)'
  <2>1. PushKnows(t) /\ ImportKnows(t)
    BY DEF ForgeInv
  <2>2. CASE ~Open(t)
    <3>1. PushKnows(t)'
      BY <1>1, <2>2 DEF Open, PushKnows
    <3>2. sync[t].at \notin {"put", "import"}
      BY <2>2 DEF Open
    <3>. QED
      BY <1>1, <2>1, <3>1, <3>2 DEF ImportKnows
  <2>3. CASE Open(t)
    <3>1. sync[t].on.repo \in Repos
      BY <2>3 DEF ForgeInv, Typed, AnyLink
    <3>2. Extends(branch[sync[t].on.repo], branch'[sync[t].on.repo])
      BY <3>1
    <3>3. /\ Named(sync[t].made, branch[sync[t].on.repo])
               \subseteq Named(sync[t].made, branch'[sync[t].on.repo])
          /\ Follows(sync[t].sha, sync[t].made, branch[sync[t].on.repo])
               => Follows(sync[t].sha, sync[t].made, branch'[sync[t].on.repo])
          /\ IsPart(sync[t].read, sync[t].names, sync[t].sha, branch[sync[t].on.repo])
               => IsPart(sync[t].read, sync[t].names, sync[t].sha, branch'[sync[t].on.repo])
          /\ WasThere(sync[t].seen, sync[t].head, branch[sync[t].on.repo])
               => WasThere(sync[t].seen, sync[t].head, branch'[sync[t].on.repo])
      BY <3>2, Lasting
    <3>. QED
      BY <1>1, <2>1, <3>3 DEF PushKnows, ImportKnows
  <2>. QED
    BY <2>2, <2>3
<1>. QED
  BY <1>1 DEF ForgeInv

\* What was recorded of a push stays true.
LEMMA RecordStays ==
  ASSUME ForgeInv, \A r \in Repos : Extends(branch[r], branch'[r]), forge' = forge,
         link' # NoLink /\ link'.made # 0 =>
           link # NoLink /\ link'.pushed = link.pushed /\ link'.made = link.made
  PROVE  RecordedPushIsOnBranch'
<1> SUFFICES ASSUME link' # NoLink, link'.made # 0,
                    ~(link'.pushed = 0 /\ forge' # "github")
             PROVE  \E r \in Repos : Follows(link'.pushed, link'.made, branch'[r])
  BY DEF RecordedPushIsOnBranch, Position, Follows, Named
<1>1. PICK r \in Repos : Follows(link.pushed, link.made, branch[r])
  BY RecordedAs DEF ForgeInv
<1>2. Follows(link.pushed, link.made, branch'[r])
  BY <1>1, Lasting
<1>. QED
  BY <1>2

\* Imports is about nothing but the tree, the link, the branches and the
\* requests that import.
LEMMA ImportsStay ==
  ASSUME Imports, UNCHANGED tree, \A r \in Repos : Extends(branch[r], branch'[r]),
         \A t \in Syncs : sync'[t] = sync[t] \/ ~Importing(t)',
         link' # NoLink /\ link'.initialized =>
           link # NoLink /\ link.initialized /\ link'.from = link.from
             /\ link'.brought = link.brought
  PROVE  Imports'
<1>1. \A t \in Syncs : Importing(t)' => Importing(t) /\ sync'[t] = sync[t]
  BY DEF Importing
<1>2. (\A s, t \in Syncs : Importing(s) /\ Importing(t) => s = t)'
  BY <1>1 DEF Imports
<1>3. ASSUME NEW t \in Syncs
      PROVE  /\ sync'[t].at = "fetch" => tree' = EmptyListing
             /\ sync'[t].at = "put" => tree' = PutSoFar(t)'
             /\ sync'[t].at = "import" => tree' = sync'[t].read
  BY <1>1 DEF Imports, Importing, PutSoFar
<1>4. ASSUME link' # NoLink, link'.initialized
      PROVE  (\A s \in Syncs : ~Importing(s))' 
             /\ \E r \in Repos : IsPart(tree', link'.brought, link'.from, branch'[r])
  <2>1. PICK r \in Repos : IsPart(tree, link.brought, link.from, branch[r])
    BY <1>4 DEF Imports
  <2>2. IsPart(tree, link.brought, link.from, branch'[r])
    BY <2>1, Lasting
  <2>. QED
    BY <1>1, <1>4, <2>2 DEF Imports
<1>. QED
  BY <1>2, <1>3, <1>4 DEF Imports

-----------------------------------------------------------------------------
LEMMA EmptyListingType == EmptyListing \in Listing
BY ForgeSyncAssumption DEF EmptyListing, Listing, Content, Malformed, Absent

LEMMA NoSyncType == \A at \in SyncPlaces : [NoSync EXCEPT !.at = at] \in AnySync
BY EmptyListingType DEF NoSync, AnySync

LEMMA ForgeStart == ForgeSyncInit => ForgeInv
<1> SUFFICES ASSUME ForgeSyncInit PROVE ForgeInv
  OBVIOUS
<1>1. OldListing \in Listing
  BY ForgeSyncAssumption DEF OldListing, Listing, Content, Malformed
<1>2. branch \in [Repos -> Seq(Commit)]
  <2>1. <<>> \in Seq(Commit)
    OBVIOUS
  <2>2. [sha |-> 1, files |-> OldListing] \in Commit
    BY <1>1 DEF Commit
  <2>3. <<[sha |-> 1, files |-> OldListing]>> \in Seq(Commit)
    BY <2>2
  <2>. QED
    BY <2>1, <2>3 DEF ForgeSyncInit
<1>3. link \in AnyLink /\ link.made = 0 /\ ~link.initialized
  <2>1. PICK r \in Repos : link = NewLink(1, r)
    BY DEF ForgeSyncInit
  <2>2. NewLink(1, r) \in AnyLink
    BY DEF NewLink, AnyLink
  <2>3. NewLink(1, r).made = 0 /\ ~NewLink(1, r).initialized
    BY DEF NewLink
  <2>. QED
    BY <2>1, <2>2, <2>3
<1>4. \A s \in Syncs : sync[s] = NoSync /\ sync[s].at = "none" /\ sync[s].got = {}
  BY DEF ForgeSyncInit, NoSync
<1>5. NoSync \in AnySync
  BY EmptyListingType DEF NoSync, AnySync, SyncPlaces
<1>6. Typed
  <2>1. sync \in [Syncs -> AnySync]
    BY <1>5 DEF ForgeSyncInit
  <2>2. \A s \in Syncs : ~Open(s)
    BY <1>4 DEF Open
  <2>3. edits \in 0..MaxEdits /\ commits \in Nat
    BY ForgeSyncAssumption DEF ForgeSyncInit
  <2>4. forge \in Forges /\ tree \in Listing
    BY <1>1, EmptyListingType DEF ForgeSyncInit
  <2>5. disturbed \in BOOLEAN
    BY DEF ForgeSyncInit
  <2>. QED
    BY <1>2, <1>3, <2>1, <2>2, <2>3, <2>4, <2>5 DEF Typed
<1>7. \A s \in Syncs : PushKnows(s) /\ ImportKnows(s)
  BY <1>4 DEF PushKnows, ImportKnows
<1>8. Imports
  BY <1>3, <1>4 DEF Imports, Importing
<1>. QED
  BY <1>3, <1>6, <1>7, <1>8 DEF ForgeInv, RecordedPushIsOnBranch

\* A step of one request that changes nothing else.
LEMMA OnlySync ==
  ASSUME ForgeInv, NEW s \in Syncs, NEW x \in AnySync, sync' = [sync EXCEPT ![s] = x],
         UNCHANGED <<forge, tree, link, branch, commits, edits>>,
         x.at \notin {"none", "end"} => x.on \in AnyLink,
         disturbed' \in BOOLEAN, PushKnows(s)', ImportKnows(s)', ~disturbed' => Imports'
  PROVE  ForgeInv'
<1>1. /\ sync' \in [Syncs -> AnySync] /\ sync'[s] = x
      /\ \A t \in Syncs \ {s} : sync'[t] = sync[t]
  BY DEF ForgeInv, Typed
<1>2. Typed'
  BY <1>1 DEF ForgeInv, Typed, Open
<1>3. \A r \in Repos : Extends(branch[r], branch'[r])
  BY Itself
<1>4. RecordedPushIsOnBranch'
  BY <1>3, RecordStays
<1>. QED
  BY <1>1, <1>2, <1>3, <1>4, StepKeeps

\* The same, by a request that is not, or no longer, an import.
LEMMA OnlyPush ==
  ASSUME ForgeInv, NEW s \in Syncs, NEW x \in AnySync, sync' = [sync EXCEPT ![s] = x],
         UNCHANGED <<forge, tree, link, branch, commits, edits, disturbed>>,
         x.at \notin {"none", "check", "fetch", "put", "import"},
         x.at # "end" => x.on \in AnyLink, PushKnows(s)'
  PROVE  ForgeInv'
<1>1. sync'[s] = x /\ \A t \in Syncs \ {s} : sync'[t] = sync[t]
  BY DEF ForgeInv, Typed
<1>2. ImportKnows(s)'
  BY <1>1 DEF ImportKnows
<1>3. ~disturbed' => Imports'
  <2>1. \A r \in Repos : Extends(branch[r], branch'[r])
    BY Itself
  <2>2. ~Importing(s)'
    BY <1>1 DEF Importing
  <2>3. disturbed' = disturbed
    OBVIOUS
  <2>4. Imports => Imports'
    BY <1>1, <2>1, <2>2, ImportsStay
  <2>. QED
    BY <2>3, <2>4 DEF ForgeInv
<1>4. disturbed' \in BOOLEAN
  BY DEF ForgeInv, Typed
<1>. QED
  BY <1>2, <1>3, <1>4, OnlySync

LEMMA OverKeeps ==
  ASSUME ForgeInv, NEW s \in Syncs, Over(s),
         UNCHANGED <<forge, tree, link, branch, commits, edits, disturbed>>
  PROVE  ForgeInv'
<1>1. DEFINE x == [NoSync EXCEPT !.at = "end"]
<1>2. x \in AnySync /\ x.at = "end" /\ sync' = [sync EXCEPT ![s] = x] /\ sync'[s] = x
  BY NoSyncType DEF Over, SyncPlaces, NoSync, ForgeInv, Typed
<1>3. PushKnows(s)'
  BY <1>2 DEF PushKnows
<1>. QED
  BY <1>2, <1>3, OnlyPush

LEMMA LoseKeeps ==
  ASSUME ForgeInv, NEW s \in Syncs, LoseSync(s) \/ PutFails(s)
  PROVE  ForgeInv'
BY OverKeeps DEF LoseSync, PutFails, AbortImport

-----------------------------------------------------------------------------
(* Links and documents *)

\* A step of none of the requests.
LEMMA NoSyncMoves ==
  ASSUME ForgeInv, UNCHANGED <<forge, sync>>, tree' \in Listing,
         branch' \in [Repos -> Seq(Commit)], link' \in AnyLink \cup {NoLink},
         commits' \in Nat, edits' \in 0..MaxEdits, disturbed' \in BOOLEAN,
         \A r \in Repos : Extends(branch[r], branch'[r]),
         link' # NoLink /\ link'.made # 0 =>
           link # NoLink /\ link'.pushed = link.pushed /\ link'.made = link.made,
         ~disturbed' => Imports'
  PROVE  ForgeInv'
<1>1. Typed'
  BY DEF ForgeInv, Typed, Open
<1>2. RecordedPushIsOnBranch'
  BY RecordStays
<1>. QED
  BY <1>1, <1>2, StepKeeps

LEMMA UpsertKeeps == ForgeInv /\ UpsertLink => ForgeInv'
<1> SUFFICES ASSUME ForgeInv, UpsertLink PROVE ForgeInv'
  OBVIOUS
<1>1. PICK r \in Repos : link' = IF link = NoLink THEN NewLink(edits + 2, r)
                                 ELSE [link EXCEPT !.repo = r]
  BY DEF UpsertLink
<1>2. edits' \in 0..MaxEdits /\ edits \in Nat
  BY ForgeSyncAssumption DEF UpsertLink, ForgeInv, Typed
<1>3. CASE link = NoLink
  <2>1. link' = NewLink(edits + 2, r) /\ NewLink(edits + 2, r) \in AnyLink
    BY <1>1, <1>2, <1>3 DEF NewLink, AnyLink
  <2>2. link'.made = 0 /\ ~link'.initialized
    BY <2>1 DEF NewLink
  <2>3. ~disturbed' => Imports'
    BY <2>2, ImportsStay, Itself DEF ForgeInv, UpsertLink
  <2>. QED
    BY <1>2, <2>1, <2>2, <2>3, NoSyncMoves, Itself DEF UpsertLink, ForgeInv, Typed
<1>4. CASE link # NoLink
  <2>1. link \in AnyLink /\ link' = [link EXCEPT !.repo = r]
    BY <1>1, <1>4 DEF ForgeInv, Typed
  <2>2. /\ link' \in AnyLink /\ link'.pushed = link.pushed /\ link'.made = link.made
        /\ link'.initialized = link.initialized /\ link'.from = link.from
        /\ link'.brought = link.brought
    BY <2>1 DEF AnyLink
  <2>3. ~disturbed' => Imports'
    BY <1>4, <2>2, ImportsStay, Itself DEF ForgeInv, UpsertLink
  <2>. QED
    BY <1>2, <1>4, <2>2, <2>3, NoSyncMoves, Itself DEF UpsertLink, ForgeInv, Typed
<1>. QED
  BY <1>3, <1>4

LEMMA DeleteKeeps == ForgeInv /\ DeleteLink => ForgeInv'
<1> SUFFICES ASSUME ForgeInv, DeleteLink PROVE ForgeInv'
  OBVIOUS
<1>1. edits' \in 0..MaxEdits
  BY ForgeSyncAssumption DEF DeleteLink, ForgeInv, Typed
<1>2. ~disturbed' => Imports'
  BY ImportsStay, Itself DEF ForgeInv, DeleteLink
<1>. QED
  BY <1>1, <1>2, NoSyncMoves, Itself DEF DeleteLink, ForgeInv, Typed

LEMMA EditKeeps == ForgeInv /\ EditTree => ForgeInv'
<1> SUFFICES ASSUME ForgeInv, EditTree PROVE ForgeInv'
  OBVIOUS
<1>1. PICK d \in TeiFiles, c \in {Absent, edits + 2} : tree' = [tree EXCEPT ![d] = c]
  BY DEF EditTree
<1>2. edits' \in 0..MaxEdits /\ edits + 2 \in Content /\ Absent \in Content
  BY ForgeSyncAssumption DEF EditTree, ForgeInv, Typed, Content, Malformed, Absent
<1>3. tree' \in Listing
  BY <1>1, <1>2 DEF ForgeInv, Typed, Listing
<1>4. disturbed' /\ disturbed' \in BOOLEAN
  BY DEF EditTree
<1>. QED
  BY <1>2, <1>3, <1>4, NoSyncMoves, Itself DEF EditTree, ForgeInv, Typed

LEMMA OthersKeep == ForgeInv /\ CommitOfOthers => ForgeInv'
<1> SUFFICES ASSUME ForgeInv, CommitOfOthers PROVE ForgeInv'
  OBVIOUS
<1>1. PICK r \in Repos, d \in TeiFiles, c \in {Absent, edits + 2, Malformed} :
        branch' = [branch EXCEPT ![r] = Append(@, [sha |-> commits + 1,
                                  files |-> [HeadFiles(r) EXCEPT ![d] = c]])]
  BY DEF CommitOfOthers
<1>2. /\ edits' \in 0..MaxEdits /\ commits' \in Nat /\ commits + 1 \in Nat
      /\ c \in Content
  BY ForgeSyncAssumption
  DEF CommitOfOthers, ForgeInv, Typed, Content, Malformed, Absent
<1>3. [HeadFiles(r) EXCEPT ![d] = c] \in Listing
  BY <1>2, FilesAtType DEF ForgeInv, Listing
<1>4. DEFINE x == [sha |-> commits + 1, files |-> [HeadFiles(r) EXCEPT ![d] = c]]
<1>5. x \in Commit /\ branch' = [branch EXCEPT ![r] = Append(branch[r], x)]
  BY <1>1, <1>2, <1>3 DEF Commit, ForgeInv, Typed
<1>6. branch' \in [Repos -> Seq(Commit)] /\ \A q \in Repos : Extends(branch[q], branch'[q])
  BY <1>5, Grown DEF ForgeInv
<1>7. ~disturbed' => Imports'
  BY <1>6, ImportsStay DEF ForgeInv, CommitOfOthers
<1>. QED
  BY <1>2, <1>6, <1>7, NoSyncMoves DEF CommitOfOthers, ForgeInv, Typed

-----------------------------------------------------------------------------
(* Pushes *)

LEMMA Here ==
  ASSUME ForgeInv, NEW s \in Syncs
  PROVE  /\ sync[s] \in AnySync /\ forge \in Forges /\ disturbed \in BOOLEAN
         /\ Open(s) => sync[s].on \in AnyLink /\ sync[s].on.repo \in Repos
         /\ Open(s) => branch[sync[s].on.repo] \in Seq(Commit)
         /\ PushKnows(s) /\ ImportKnows(s)
BY DEF ForgeInv, Typed, AnyLink

LEMMA BeginPushKeeps ==
  ASSUME ForgeInv, NEW s \in Syncs, BeginPush(s)
  PROVE  ForgeInv'
<1>1. DEFINE x == [sync[s] EXCEPT !.at = "list", !.on = link]
<1>2. link \in AnyLink
  BY DEF BeginPush, Comes, ForgeInv, Typed
<1>3. x \in AnySync /\ x.at = "list" /\ x.on = link
  BY <1>2, Here DEF AnySync, SyncPlaces
<1>4. sync' = [sync EXCEPT ![s] = x] /\ sync'[s] = x
  BY DEF BeginPush, ForgeInv, Typed
<1>5. PushKnows(s)'
  BY <1>3, <1>4 DEF PushKnows
<1>. QED
  BY <1>2, <1>3, <1>4, <1>5, OnlyPush DEF BeginPush, forgeCounts

LEMMA ListKeeps ==
  ASSUME ForgeInv, NEW s \in Syncs, ListTree(s)
  PROVE  ForgeInv'
<1>1. CASE Names(tree) = {}
  BY <1>1, OverKeeps DEF ListTree, forgeCounts
<1>2. CASE Names(tree) # {}
  <2>1. DEFINE x == [sync[s] EXCEPT !.at = "read", !.names = Names(tree)]
  <2>2. x \in AnySync /\ x.at = "read" /\ x.on = sync[s].on /\ sync[s].on \in AnyLink
    BY Here DEF ListTree, Open, AnySync, SyncPlaces, Names
  <2>3. sync' = [sync EXCEPT ![s] = x] /\ sync'[s] = x
    BY <1>2 DEF ListTree, ForgeInv, Typed
  <2>4. PushKnows(s)'
    BY <2>2, <2>3 DEF PushKnows
  <2>. QED
    BY <2>2, <2>3, <2>4, OnlyPush DEF ListTree, forgeCounts
<1>. QED
  BY <1>1, <1>2

LEMMA ReadTreeKeeps ==
  ASSUME ForgeInv, NEW s \in Syncs, ReadTree(s)
  PROVE  ForgeInv'
<1>1. PICK d \in sync[s].names \ sync[s].got :
        IF tree[d] = Absent THEN Over(s)
        ELSE sync' = [sync EXCEPT ![s].read[d] = tree[d], ![s].got = @ \cup {d},
               ![s].at = IF sync[s].got \cup {d} = sync[s].names THEN "head" ELSE "read"]
  BY DEF ReadTree
<1>2. CASE tree[d] = Absent
  BY <1>1, <1>2, OverKeeps DEF ReadTree, forgeCounts
<1>3. CASE tree[d] # Absent
  <2>1. d \in TeiFiles /\ tree[d] \in Content
    BY Here DEF AnySync, ForgeInv, Typed, Listing
  <2>2. DEFINE at == IF sync[s].got \cup {d} = sync[s].names THEN "head" ELSE "read"
               x == [sync[s] EXCEPT !.read[d] = tree[d], !.got = @ \cup {d}, !.at = at]
  <2>3. at \in {"head", "read"}
    OBVIOUS
  <2>4. x \in AnySync /\ x.at = at /\ x.on = sync[s].on /\ sync[s].on \in AnyLink
    <3>1. sync[s].on \in AnyLink
      BY Here DEF ReadTree, Open
    <3>2. [sync[s].read EXCEPT ![d] = tree[d]] \in Listing
      BY <2>1, Here DEF AnySync, Listing
    <3>. QED
      BY <2>1, <2>3, <3>1, <3>2, Here DEF AnySync, SyncPlaces
  <2>5. sync' = [sync EXCEPT ![s] = x] /\ sync'[s] = x
    BY <1>1, <1>3 DEF ForgeInv, Typed
  <2>6. PushKnows(s)'
    BY <2>3, <2>4, <2>5 DEF PushKnows
  <2>. QED
    BY <2>3, <2>4, <2>5, <2>6, OnlyPush DEF ReadTree, forgeCounts
<1>. QED
  BY <1>2, <1>3

LEMMA PartType ==
  ASSUME NEW l \in Listing, NEW w
  PROVE  Part(l, w) \in Listing
BY EmptyListingType DEF Part, Listing, EmptyListing, Absent

\* What the forge lists of the head is part of what the branch has then.
LEMMA SeesPart ==
  ASSUME ForgeInv, NEW s \in Syncs, sync[s].at = "head",
         NEW n \in {0, Len(branch[sync[s].on.repo])}, NEW w, n = 0 => w = {},
         sync' = [sync EXCEPT ![s].at = "commit", ![s].head = n,
                    ![s].seen = Part(HeadFiles(sync[s].on.repo), w)],
         UNCHANGED <<forge, tree, link, branch, commits, edits, disturbed>>
  PROVE  ForgeInv'
<1> DEFINE l == Part(HeadFiles(sync[s].on.repo), w)
           x == [sync[s] EXCEPT !.at = "commit", !.head = n, !.seen = l]
<1>1. /\ sync[s].on \in AnyLink /\ sync[s].on.repo \in Repos
      /\ branch[sync[s].on.repo] \in Seq(Commit)
      /\ Len(branch[sync[s].on.repo]) \in Nat
  BY Here DEF Open
<1>2. l \in Listing
  BY <1>1, FilesAtType, PartType DEF ForgeInv
<1>3. /\ x \in AnySync /\ x.at = "commit" /\ x.on = sync[s].on
      /\ x.head = n /\ x.seen = l
  <2>1. n \in Nat /\ sync[s] \in AnySync
    BY <1>1, Here
  <2>. HIDE DEF l
  <2>. QED
    BY <1>2, <2>1 DEF AnySync, SyncPlaces
<1>4. sync' = [sync EXCEPT ![s] = x] /\ sync'[s] = x
  BY DEF ForgeInv, Typed
<1>5. WasThere(l, n, branch[sync[s].on.repo])
  <2>1. n # 0 => n \in DOMAIN branch[sync[s].on.repo]
    BY <1>1
  <2>2. ASSUME NEW d \in TeiFiles, l[d] # Absent
        PROVE  n # 0 /\ l[d] = branch[sync[s].on.repo][n].files[d]
    <3>1. d \in w /\ l[d] = HeadFiles(sync[s].on.repo)[d]
      BY <2>2 DEF Part
    <3>2. n # 0 /\ n = Len(branch[sync[s].on.repo])
      BY <3>1
    <3>. QED
      BY <3>1, <3>2 DEF HeadFiles, FilesAt
  <2>. QED
    BY <2>1, <2>2 DEF WasThere
<1>6. PushKnows(s)'
  BY <1>3, <1>4, <1>5 DEF PushKnows
<1>. QED
  BY <1>1, <1>3, <1>4, <1>6, OnlyPush

LEMMA ReadHeadKeeps ==
  ASSUME ForgeInv, NEW s \in Syncs, ReadHead(s) \/ ReadLess(s)
  PROVE  ForgeInv'
<1> DEFINE r == sync[s].on.repo
<1>1. CASE ReadHead(s)
  <2>1. r \in Repos /\ HeadFiles(r) \in Listing
    BY <1>1, Here, FilesAtType DEF ReadHead, Open, ForgeInv
  <2>2. HeadFiles(r) = Part(HeadFiles(r), TeiFiles)
    BY <2>1 DEF Part, Listing
  <2>3. CASE Len(branch[r]) = 0
    <3>1. HeadFiles(r) = Part(HeadFiles(r), {})
      BY <2>3 DEF HeadFiles, FilesAt, EmptyListing, Part
    <3>. QED
      BY <1>1, <2>3, <3>1, SeesPart DEF ReadHead, forgeCounts
  <2>4. CASE Len(branch[r]) # 0
    BY <1>1, <2>2, <2>4, SeesPart DEF ReadHead, forgeCounts
  <2>. QED
    BY <2>3, <2>4
<1>2. CASE ReadLess(s)
  <2>1. PICK n \in {0, Len(branch[r])}, w \in SUBSET TeiFiles :
          /\ n = 0 \/ forge = "github" => w = {}
          /\ sync' = [sync EXCEPT ![s].at = "commit", ![s].head = n,
                       ![s].seen = Part(HeadFiles(r), w)]
    BY <1>2 DEF ReadLess
  <2>. QED
    BY <1>2, <2>1, SeesPart DEF ReadLess
<1>. QED
  BY <1>1, <1>2

\* A commit that the forge accepts is on top of the branch, with its files.
LEMMA Pushes ==
  ASSUME ForgeInv, NEW s \in Syncs, PushCommit(s), Accepts(s)
  PROVE  LET r == sync[s].on.repo
             x == [sha |-> commits + 1, files |-> Pushed(s)] IN
         /\ sync[s].on \in AnyLink /\ r \in Repos /\ x \in Commit
         /\ branch' = [branch EXCEPT ![r] = Append(branch[r], x)]
<1>1. sync[s].on \in AnyLink /\ sync[s].on.repo \in Repos
  BY Here DEF PushCommit, Open
<1>2. Pushed(s) \in Listing
  <2>1. /\ HeadFiles(sync[s].on.repo) \in Listing
        /\ sync[s].read \in Listing /\ sync[s].seen \in Listing
    BY <1>1, FilesAtType, Here DEF ForgeInv, AnySync
  <2>. QED
    BY <2>1 DEF Pushed, Listing
<1>3. [sha |-> commits + 1, files |-> Pushed(s)] \in Commit
  BY <1>2 DEF Commit, ForgeInv, Typed
<1>. QED
  BY <1>1, <1>3 DEF PushCommit, Kept, ForgeInv, Typed

LEMMA PushKeeps ==
  ASSUME ForgeInv, NEW s \in Syncs, PushCommit(s)
  PROVE  ForgeInv'
<1>1. CASE ~Accepts(s)
  BY <1>1, OverKeeps DEF PushCommit, forgeCounts
<1>2. CASE Accepts(s)
  <2> DEFINE r == sync[s].on.repo
             x == [sha |-> commits + 1, files |-> Pushed(s)]
             y == [sync[s] EXCEPT !.at = "record", !.made = commits + 1, !.sha = commits + 1]
  <2>1. /\ sync[s].on \in AnyLink /\ r \in Repos /\ x \in Commit
        /\ branch' = [branch EXCEPT ![r] = Append(branch[r], x)]
    BY <1>2, Pushes
  <2>2. commits' = commits + 1 /\ commits + 1 \in Nat
    BY <1>2 DEF PushCommit, ForgeInv, Typed
  <2>3. /\ y \in AnySync /\ y.at = "record" /\ y.on = sync[s].on
        /\ y.made = commits + 1 /\ y.sha = commits + 1
    BY <2>2, Here DEF AnySync, SyncPlaces
  <2>4. /\ sync' \in [Syncs -> AnySync] /\ sync'[s] = y
        /\ \A t \in Syncs \ {s} : sync'[t] = sync[t]
    BY <1>2, <2>3 DEF PushCommit, ForgeInv, Typed
  <2>5. /\ branch' \in [Repos -> Seq(Commit)]
        /\ \A q \in Repos : Extends(branch[q], branch'[q])
        /\ Len(branch[r]) + 1 \in Named(commits + 1, branch'[r])
    <3>1. /\ branch' \in [Repos -> Seq(Commit)]
          /\ \A q \in Repos : Extends(branch[q], branch'[q])
          /\ branch'[r][Len(branch[r]) + 1] = x
          /\ Len(branch[r]) + 1 \in DOMAIN branch'[r]
      BY <2>1, Grown DEF ForgeInv
    <3>2. x.sha = commits + 1
      OBVIOUS
    <3>3. branch'[r][Len(branch[r]) + 1].sha = commits + 1
      BY <3>1, <3>2
    <3>. QED
      BY <3>1, <3>3 DEF Named
  <2>6. Typed'
    BY <1>2, <2>1, <2>2, <2>3, <2>4, <2>5
    DEF PushCommit, forgeCounts, ForgeInv, Typed, Open
  <2>7. RecordedPushIsOnBranch'
    BY <2>5, RecordStays DEF PushCommit
  <2>8. PushKnows(s)' /\ ImportKnows(s)'
    <3>1. Len(branch[r]) + 1 \in Nat
      BY <2>1 DEF ForgeInv, Typed
    <3>2. Follows(commits + 1, commits + 1, branch'[r])
      BY <2>5, <3>1 DEF Follows
    <3>. QED
      BY <2>3, <2>4, <2>5, <3>2 DEF PushKnows, ImportKnows
  <2>9. ~disturbed' => Imports'
    <3>1. ~Importing(s)'
      BY <2>3, <2>4 DEF Importing
    <3>. QED
      BY <2>4, <2>5, <3>1, ImportsStay DEF ForgeInv, PushCommit
  <2>. QED
    BY <2>4, <2>5, <2>6, <2>7, <2>8, <2>9, StepKeeps DEF PushCommit
<1>. QED
  BY <1>1, <1>2

LEMMA AnswerKeeps ==
  ASSUME ForgeInv, NEW s \in Syncs, AnswerWithoutSha(s)
  PROVE  ForgeInv'
<1>1. DEFINE x == [sync[s] EXCEPT !.at = "refetch", !.sha = 0]
<1>2. sync[s].on \in AnyLink
  BY Here DEF AnswerWithoutSha, Open
<1>3. /\ x \in AnySync /\ x.at = "refetch" /\ x.on = sync[s].on
      /\ x.made = sync[s].made
  BY <1>2, Here DEF AnySync, SyncPlaces
<1>4. sync' = [sync EXCEPT ![s] = x] /\ sync'[s] = x
  BY DEF AnswerWithoutSha, ForgeInv, Typed
<1>5. Named(sync[s].made, branch[sync[s].on.repo]) # {}
  BY Here DEF AnswerWithoutSha, PushKnows
<1>6. PushKnows(s)'
  BY <1>3, <1>4, <1>5 DEF AnswerWithoutSha, PushKnows
<1>. QED
  BY <1>2, <1>3, <1>4, <1>6, OnlyPush DEF AnswerWithoutSha, forgeCounts

\* The head read again, if the forge names one, is not before the commit that
\* was made.
LEMMA RefetchKeeps ==
  ASSUME ForgeInv, NEW s \in Syncs, RefetchHead(s)
  PROVE  ForgeInv'
<1> DEFINE b == branch[sync[s].on.repo]
<1>1. sync[s].on \in AnyLink /\ b \in Seq(Commit)
  BY Here DEF RefetchHead, Open
<1>2. PICK j \in Named(sync[s].made, b) : TRUE
  BY Here DEF RefetchHead, PushKnows
<1>3. j \in 1..Len(b) /\ Len(b) \in Nat /\ Len(b) # 0
  BY <1>1, <1>2 DEF Named
<1>4. HeadNow(s) = b[Len(b)].sha /\ HeadNow(s) \in Nat /\ Len(b) \in DOMAIN b
  <2>1. Len(b) \in DOMAIN b /\ b[Len(b)] \in Commit
    BY <1>1, <1>3
  <2>. QED
    BY <1>3, <2>1 DEF HeadNow, HeadSha, Commit
<1>5. Follows(HeadNow(s), sync[s].made, b)
  BY SMTT(30), <1>2, <1>3, <1>4 DEF Follows, Named
<1>6. PICK n \in {HeadNow(s), 0} :
        sync' = [sync EXCEPT ![s].at = "record", ![s].sha = n]
  BY DEF RefetchHead
<1> DEFINE x == [sync[s] EXCEPT !.at = "record", !.sha = n]
<1>7. /\ x \in AnySync /\ x.at = "record" /\ x.on = sync[s].on
      /\ x.made = sync[s].made /\ x.sha = n
  <2>1. n \in Nat /\ sync[s] \in AnySync
    BY <1>4, Here
  <2>. QED
    BY <2>1 DEF AnySync, SyncPlaces
<1>8. sync' = [sync EXCEPT ![s] = x] /\ sync'[s] = x
  BY <1>6 DEF ForgeInv, Typed
<1>9. forge # "github" /\ UNCHANGED <<forge, branch>>
  BY Here DEF RefetchHead, PushKnows
<1>10. PushKnows(s)'
  BY <1>2, <1>5, <1>7, <1>8, <1>9 DEF PushKnows
<1>. QED
  BY <1>1, <1>7, <1>8, <1>10, OnlyPush DEF RefetchHead, forgeCounts

\* A request that ends and writes the link.
LEMMA RecordKeeps ==
  ASSUME ForgeInv, NEW s \in Syncs, Over(s), link' \in AnyLink \cup {NoLink},
         UNCHANGED <<forge, tree, branch, commits, edits, disturbed>>,
         RecordedPushIsOnBranch', ~disturbed => Imports'
  PROVE  ForgeInv'
<1>1. DEFINE x == [NoSync EXCEPT !.at = "end"]
<1>2. x \in AnySync /\ x.at = "end"
  BY NoSyncType DEF SyncPlaces, NoSync
<1>3. /\ sync' \in [Syncs -> AnySync] /\ sync'[s] = x
      /\ \A t \in Syncs \ {s} : sync'[t] = sync[t]
  BY <1>2 DEF Over, ForgeInv, Typed
<1>4. Typed'
  BY <1>2, <1>3 DEF ForgeInv, Typed, Open
<1>5. PushKnows(s)' /\ ImportKnows(s)'
  BY <1>2, <1>3 DEF PushKnows, ImportKnows
<1>. QED
  BY <1>3, <1>4, <1>5, StepKeeps, Itself

LEMMA RecordPushKeeps ==
  ASSUME ForgeInv, NEW s \in Syncs, RecordPush(s)
  PROVE  ForgeInv'
<1>1. CASE ~SameRow(s)
  BY <1>1, OverKeeps DEF RecordPush, forgeCounts
<1>2. CASE SameRow(s)
  <2>1. link \in AnyLink
    BY <1>2 DEF SameRow, ForgeInv, Typed
  <2>2. /\ link' \in AnyLink /\ link'.pushed = sync[s].sha /\ link'.made = sync[s].made
        /\ link'.initialized = link.initialized /\ link'.from = link.from
        /\ link'.brought = link.brought
    BY <1>2, <2>1, Here DEF RecordPush, AnyLink, AnySync
  <2>3. RecordedPushIsOnBranch'
    <3>1. /\ sync[s].on.repo \in Repos
          /\ \/ sync[s].sha = 0 /\ forge # "github"
             \/ Follows(sync[s].sha, sync[s].made, branch[sync[s].on.repo])
      BY Here DEF RecordPush, Open, PushKnows
    <3>2. \/ link'.pushed = 0 /\ forge' # "github"
          \/ \E r \in Repos : Follows(link'.pushed, link'.made, branch'[r])
      BY <2>2, <3>1 DEF RecordPush
    <3>. QED
      BY <3>2 DEF RecordedPushIsOnBranch, Position, Follows, Named
  <2>4. ~disturbed => Imports'
    <3>1. \A t \in Syncs : sync'[t] = sync[t] \/ ~Importing(t)'
      BY DEF RecordPush, Over, NoSync, Importing, ForgeInv, Typed
    <3>. QED
      BY <1>2, <2>2, <3>1, ImportsStay, Itself DEF RecordPush, SameRow, ForgeInv
  <2>. QED
    BY <2>2, <2>3, <2>4, RecordKeeps DEF RecordPush, forgeCounts
<1>. QED
  BY <1>1, <1>2

-----------------------------------------------------------------------------
(* Imports *)

\* An import that begins undisturbed is the only one.
LEMMA BeginImportKeeps ==
  ASSUME ForgeInv, NEW s \in Syncs, BeginImport(s)
  PROVE  ForgeInv'
<1> DEFINE x == [sync[s] EXCEPT !.at = "check", !.on = link]
<1>1. link \in AnyLink /\ link # NoLink /\ ~link.initialized
  BY DEF BeginImport, Comes, ForgeInv, Typed
<1>2. x \in AnySync /\ x.at = "check" /\ x.on = link /\ x.got = {}
  BY <1>1, Here DEF AnySync, SyncPlaces, BeginImport, Comes, ImportKnows
<1>3. /\ sync' = [sync EXCEPT ![s] = x] /\ sync'[s] = x
      /\ \A t \in Syncs \ {s} : sync'[t] = sync[t]
  BY DEF BeginImport, ForgeInv, Typed
<1>4. PushKnows(s)' /\ ImportKnows(s)'
  BY <1>2, <1>3 DEF PushKnows, ImportKnows
<1>5. disturbed' \in BOOLEAN
  BY DEF BeginImport
<1>6. ASSUME ~disturbed' PROVE Imports'
  <2>1. \A t \in Syncs : ~Importing(t)
    BY <1>6 DEF BeginImport
  <2>2. \A t \in Syncs : sync'[t].at \in {"check", "fetch", "put", "import"}
                       => t = s /\ sync'[t].at = "check"
    BY <1>2, <1>3, <2>1 DEF Importing
  <2>3. ~link'.initialized
    BY <1>1 DEF BeginImport
  <2>. QED
    BY <2>2, <2>3 DEF Imports, Importing
<1>. QED
  BY <1>1, <1>2, <1>3, <1>4, <1>5, <1>6, OnlySync DEF BeginImport, forgeCounts

\* An import that goes on, the working tree being what its next place says.
LEMMA ImportGoesOn ==
  ASSUME Imports, NEW s \in Syncs, Importing(s), sync' \in [Syncs -> AnySync],
         UNCHANGED <<link, branch>>,
         \A t \in Syncs \ {s} : sync'[t] = sync[t],
         sync'[s].at = "fetch" => tree' = EmptyListing,
         sync'[s].at = "put" => tree' = PutSoFar(s)',
         sync'[s].at = "import" => tree' = sync'[s].read
  PROVE  Imports'
<1>1. \A t \in Syncs \ {s} : ~Importing(t) /\ ~Importing(t)'
  BY DEF Imports, Importing
<1>2. \A t \in Syncs \ {s} : sync'[t].at \notin {"fetch", "put", "import"}
  BY <1>1 DEF Importing
<1>3. ~(link # NoLink /\ link.initialized)
  BY DEF Imports
<1>. QED
  BY <1>1, <1>2, <1>3 DEF Imports

LEMMA CheckKeeps ==
  ASSUME ForgeInv, NEW s \in Syncs, CheckEmpty(s)
  PROVE  ForgeInv'
<1>1. CASE Names(tree) # {}
  BY <1>1, OverKeeps DEF CheckEmpty, forgeCounts
<1>2. CASE Names(tree) = {}
  <2> DEFINE x == [sync[s] EXCEPT !.at = "fetch"]
  <2>1. tree = EmptyListing
    <3>1. \A d \in TeiFiles : tree[d] = Absent
      BY <1>2 DEF Names
    <3>2. tree \in [TeiFiles -> Content]
      BY DEF ForgeInv, Typed, Listing
    <3>. QED
      BY <3>1, <3>2 DEF EmptyListing
  <2>2. /\ x \in AnySync /\ x.at = "fetch" /\ x.on = sync[s].on
        /\ sync[s].on \in AnyLink /\ x.got = {}
    BY Here DEF CheckEmpty, Open, AnySync, SyncPlaces, ImportKnows
  <2>3. /\ sync' = [sync EXCEPT ![s] = x] /\ sync' \in [Syncs -> AnySync]
        /\ sync'[s] = x /\ \A t \in Syncs \ {s} : sync'[t] = sync[t]
    BY <1>2, <2>2 DEF CheckEmpty, ForgeInv, Typed
  <2>4. PushKnows(s)' /\ ImportKnows(s)'
    BY <2>2, <2>3 DEF PushKnows, ImportKnows
  <2>5. ~disturbed' => Imports'
    <3>1. Importing(s)
      BY DEF CheckEmpty, Importing
    <3>2. tree' = EmptyListing
      BY <2>1 DEF CheckEmpty
    <3>. QED
      BY <2>2, <2>3, <3>1, <3>2, ImportGoesOn DEF CheckEmpty, ForgeInv
  <2>. QED
    BY <2>2, <2>3, <2>4, <2>5, OnlySync, Here DEF CheckEmpty, forgeCounts
<1>. QED
  BY <1>1, <1>2

\* The bundle is part of what the commit fetched has.
LEMMA FetchKeeps ==
  ASSUME ForgeInv, NEW s \in Syncs, FetchBundle(s)
  PROVE  ForgeInv'
<1> DEFINE r == sync[s].on.repo
           n == HeadNow(s)
<1>1. sync[s].on \in AnyLink /\ r \in Repos /\ branch[r] \in Seq(Commit)
  BY Here DEF FetchBundle, Open
<1>2. PICK w \in SUBSET Names(HeadFiles(r)) :
        IF ~Importable(Part(HeadFiles(r), w)) THEN Over(s)
        ELSE sync' = [sync EXCEPT ![s].at = "put", ![s].read = Part(HeadFiles(r), w),
               ![s].names = w, ![s].sha = n]
  BY DEF FetchBundle
<1> DEFINE l == Part(HeadFiles(r), w)
<1>3. CASE ~Importable(l)
  BY <1>2, <1>3, OverKeeps DEF FetchBundle, forgeCounts
<1>4. CASE Importable(l)
  <2> DEFINE x == [sync[s] EXCEPT !.at = "put", !.read = l, !.names = w, !.sha = n]
  <2>1. l \in Listing /\ w \in SUBSET TeiFiles
    BY <1>1, FilesAtType, PartType DEF ForgeInv, Names
  <2>2. w = Names(l)
    BY DEF Names, Part
  <2>3. Len(branch[r]) \in Nat /\ Len(branch[r]) # 0
    <3>1. Names(EmptyListing) = {}
      BY DEF Names, EmptyListing
    <3>2. HeadFiles(r) # EmptyListing
      BY <1>4, <2>2, <3>1 DEF Importable
    <3>. QED
      BY <1>1, <3>2 DEF HeadFiles, FilesAt
  <2>4. Len(branch[r]) \in DOMAIN branch[r] /\ branch[r][Len(branch[r])] \in Commit
    BY <1>1, <2>3
  <2>5. /\ n = branch[r][Len(branch[r])].sha /\ n \in Nat
        /\ HeadFiles(r) = branch[r][Len(branch[r])].files
    BY <2>3, <2>4 DEF HeadFiles, FilesAt, HeadNow, HeadSha, Commit
  <2>6. IsPart(l, w, n, branch[r])
    BY <2>4, <2>5 DEF IsPart, Named
  <2>7. /\ x \in AnySync /\ x.at = "put" /\ x.on = sync[s].on /\ x.got = {}
        /\ x.read = l /\ x.names = w /\ x.sha = n
    BY <2>1, <2>5, Here DEF AnySync, SyncPlaces, FetchBundle, ImportKnows
  <2>8. /\ sync' = [sync EXCEPT ![s] = x] /\ sync' \in [Syncs -> AnySync]
        /\ sync'[s] = x /\ \A t \in Syncs \ {s} : sync'[t] = sync[t]
    BY <1>2, <1>4, <2>7 DEF ForgeInv, Typed
  <2>9. PushKnows(s)' /\ ImportKnows(s)'
    <3>. HIDE DEF x, l, n
    <3>. QED
      BY <2>2, <2>6, <2>7, <2>8 DEF PushKnows, ImportKnows, FetchBundle
  <2>10. ~disturbed' => Imports'
    <3>1. Importing(s) /\ (~disturbed => tree = EmptyListing)
      BY DEF FetchBundle, Importing, ForgeInv, Imports
    <3>2. EmptyListing = PutSoFar(s)'
      BY <2>7, <2>8 DEF EmptyListing, PutSoFar
    <3>. HIDE DEF x
    <3>. QED
      BY <2>7, <2>8, <3>1, <3>2, ImportGoesOn DEF FetchBundle, ForgeInv
  <2>. HIDE DEF x
  <2>. QED
    BY <1>1, <2>7, <2>8, <2>9, <2>10, OnlySync, Here DEF FetchBundle, forgeCounts
<1>. QED
  BY <1>3, <1>4

\* When the last file is put, the working tree is the bundle.
LEMMA PutKeeps ==
  ASSUME ForgeInv, NEW s \in Syncs, PutFile(s)
  PROVE  ForgeInv'
<1>1. PICK d \in sync[s].names \ sync[s].got :
        /\ tree' = [tree EXCEPT ![d] = sync[s].read[d]]
        /\ sync' = [sync EXCEPT ![s].got = @ \cup {d}, ![s].at =
             IF sync[s].got \cup {d} = sync[s].names THEN "import" ELSE "put"]
  BY DEF PutFile
<1> DEFINE at == IF sync[s].got \cup {d} = sync[s].names THEN "import" ELSE "put"
           x == [sync[s] EXCEPT !.got = @ \cup {d}, !.at = at]
<1>2. d \in TeiFiles /\ sync[s].read \in Listing /\ sync[s].read[d] \in Content
  BY Here DEF AnySync, Listing
<1>3. at \in {"put", "import"}
  OBVIOUS
<1>4. /\ x \in AnySync /\ x.at = at /\ x.on = sync[s].on /\ x.names = sync[s].names
      /\ x.got = sync[s].got \cup {d} /\ x.read = sync[s].read /\ x.sha = sync[s].sha
      /\ sync[s].on \in AnyLink
  BY <1>2, <1>3, Here DEF AnySync, SyncPlaces, PutFile, Open
<1>5. /\ sync' \in [Syncs -> AnySync] /\ sync'[s] = x
      /\ \A t \in Syncs \ {s} : sync'[t] = sync[t]
  BY <1>1, <1>4 DEF ForgeInv, Typed
<1>6. tree' \in Listing
  BY <1>1, <1>2 DEF ForgeInv, Typed, Listing
<1>7. Typed'
  BY <1>3, <1>4, <1>5, <1>6 DEF PutFile, forgeCounts, ForgeInv, Typed, Open
<1>8. PushKnows(s)' /\ ImportKnows(s)'
  BY <1>3, <1>4, <1>5, Here DEF PushKnows, ImportKnows, PutFile
<1>9. ASSUME ~disturbed' PROVE Imports'
  <2>1. Imports /\ tree = PutSoFar(s) /\ Importing(s)
    BY <1>9 DEF PutFile, ForgeInv, Imports, Importing
  <2>2. tree' = PutSoFar(s)'
    BY <1>1, <1>2, <1>4, <1>5, <2>1 DEF PutSoFar
  <2>3. ASSUME at = "import" PROVE PutSoFar(s)' = sync'[s].read
    <3>1. x.got = Names(sync[s].read)
      BY <1>4, <2>3, Here DEF ImportKnows, PutFile
    <3>2. sync[s].read \in [TeiFiles -> Content]
      BY <1>2 DEF Listing
    <3>. QED
      BY <1>4, <1>5, <3>1, <3>2 DEF PutSoFar, Names
  <2>4. /\ sync'[s].at = "import" => tree' = sync'[s].read
        /\ sync'[s].at # "fetch"
    BY <1>3, <1>4, <1>5, <2>2, <2>3
  <2>. QED
    BY <1>5, <2>1, <2>2, <2>4, ImportGoesOn DEF PutFile
<1>10. RecordedPushIsOnBranch'
  BY RecordStays, Itself DEF PutFile
<1>. QED
  BY <1>5, <1>7, <1>8, <1>9, <1>10, StepKeeps, Itself DEF PutFile

LEMMA RecordImportKeeps ==
  ASSUME ForgeInv, NEW s \in Syncs, RecordImport(s)
  PROVE  ForgeInv'
<1>1. CASE ~SameRow(s)
  BY <1>1, OverKeeps DEF RecordImport, forgeCounts
<1>2. CASE SameRow(s)
  <2>1. link \in AnyLink /\ link # NoLink
    BY <1>2 DEF SameRow, ForgeInv, Typed
  <2>2. /\ link' \in AnyLink /\ link'.from = sync[s].sha
        /\ link'.brought = sync[s].names
        /\ link'.pushed = link.pushed /\ link'.made = link.made
    BY <1>2, <2>1, Here DEF RecordImport, AnyLink, AnySync
  <2>3. RecordedPushIsOnBranch'
    BY <2>1, <2>2, RecordStays, Itself DEF RecordImport
  <2>4. ASSUME ~disturbed PROVE Imports'
    <3>1. Imports /\ Importing(s) /\ tree = sync[s].read
      BY <2>4 DEF RecordImport, ForgeInv, Imports, Importing
    <3>2. /\ sync'[s].at = "end" /\ \A t \in Syncs \ {s} : sync'[t] = sync[t]
      BY DEF RecordImport, Over, NoSync, ForgeInv, Typed
    <3>3. \A t \in Syncs : sync'[t].at \notin {"check", "fetch", "put", "import"}
      BY <3>1, <3>2 DEF Imports, Importing
    <3>4. /\ sync[s].on.repo \in Repos
          /\ IsPart(tree, sync[s].names, sync[s].sha, branch[sync[s].on.repo])
      BY <3>1, Here DEF RecordImport, Open, ImportKnows
    <3>5. \E r \in Repos : IsPart(tree', link'.brought, link'.from, branch'[r])
      BY <2>2, <3>4 DEF RecordImport
    <3>. QED
      BY <3>3, <3>5 DEF Imports, Importing
  <2>. QED
    BY <2>2, <2>3, <2>4, RecordKeeps DEF RecordImport, forgeCounts
<1>. QED
  BY <1>1, <1>2

-----------------------------------------------------------------------------
LEMMA ForgeStep == ForgeInv /\ [ForgeSyncNext]_forgeVars => ForgeInv'
<1> SUFFICES ASSUME ForgeInv, [ForgeSyncNext]_forgeVars PROVE ForgeInv'
  OBVIOUS
<1>1. CASE UNCHANGED forgeVars
  <2>1. UNCHANGED <<forge, tree, link, branch, sync, commits, edits, disturbed>>
    BY <1>1 DEF forgeVars
  <2>2. Typed' /\ (Imports => Imports')
    BY <2>1, ImportsStay, Itself DEF ForgeInv, Typed, Open
  <2>3. RecordedPushIsOnBranch'
    BY <2>1, RecordStays, Itself
  <2>. QED
    BY <2>1, <2>2, <2>3, StepKeeps, Itself DEF ForgeInv
<1>2. CASE UpsertLink \/ DeleteLink \/ EditTree \/ CommitOfOthers
  BY <1>2, UpsertKeeps, DeleteKeeps, EditKeeps, OthersKeep
<1>3. ASSUME NEW s \in Syncs,
             \/ BeginPush(s) \/ ListTree(s) \/ ReadTree(s)
             \/ ReadHead(s) \/ ReadLess(s) \/ PushCommit(s)
             \/ AnswerWithoutSha(s) \/ RefetchHead(s) \/ RecordPush(s)
      PROVE  ForgeInv'
  BY <1>3, BeginPushKeeps, ListKeeps, ReadTreeKeeps, ReadHeadKeeps, PushKeeps,
     AnswerKeeps, RefetchKeeps, RecordPushKeeps
<1>4. ASSUME NEW s \in Syncs,
             \/ BeginImport(s) \/ CheckEmpty(s) \/ FetchBundle(s) \/ PutFile(s)
             \/ PutFails(s) \/ RecordImport(s) \/ LoseSync(s)
      PROVE  ForgeInv'
  BY <1>4, BeginImportKeeps, CheckKeeps, FetchKeeps, PutKeeps, RecordImportKeeps,
     LoseKeeps
<1>. QED
  BY <1>1, <1>2, <1>3, <1>4 DEF ForgeSyncNext

\* In every behaviour, for any number of repositories, documents and requests,
\* each request knows of the branches what its place says.
THEOREM ForgeSyncInvariant == ForgeSyncSpec => []ForgeInv
BY ForgeStart, ForgeStep, PTL DEF ForgeSyncSpec

\* The commit recorded as the last push is on a branch, not before the commit the
\* push made, or none is recorded because a forge other than GitHub named neither
\* the commit nor the head (push_collection, fetch_head_sha and `refreshed or ""`
\* after a commit without a sha).
THEOREM RecordedPushStays == ForgeSyncSpec => []RecordedPushIsOnBranch
<1>1. ForgeInv => RecordedPushIsOnBranch
  BY DEF ForgeInv
<1>. QED
  BY <1>1, ForgeSyncInvariant, PTL

\* A collection marked initialized has exactly the files that the forge gave of
\* the commit it names, as they are there, when nobody else wrote during the
\* import (initialize_collection, fetch_bundle).
THEOREM ImportsStayWhole == ForgeSyncSpec => []ImportsAreWhole
<1>1. ForgeInv => ImportsAreWhole
  <2> SUFFICES ASSUME ForgeInv, link # NoLink, link.initialized, ~disturbed
               PROVE  \E r \in Repos : \E i \in Position(link.from, r) :
                        tree = Part(branch[r][i].files, link.brought)
    BY DEF ImportsAreWhole
  <2>1. PICK r \in Repos : IsPart(tree, link.brought, link.from, branch[r])
    BY DEF ForgeInv, Imports
  <2>. QED
    BY <2>1 DEF IsPart, Named, Position
<1>. QED
  BY <1>1, ForgeSyncInvariant, PTL

OverwritesSeen ==
  \A r \in Repos : branch'[r] # branch[r] =>
    /\ \A i \in DOMAIN branch[r] :
         i \in DOMAIN branch'[r] /\ branch'[r][i] = branch[r][i]
    /\ forge # "gitlab" => \A s \in Syncs :
         sync[s].at = "commit" /\ sync'[s].at # "commit" =>
           \A d \in TeiFiles :
             HeadFiles(r)[d] \notin {Absent, branch'[r][Len(branch'[r])].files[d]}
               => HeadFiles(r)[d] = Seen(s)[d]

\* A push changes the branch of its repository, its request alone moves, and what
\* it changes there it has seen.
LEMMA PushOverwritesSeen ==
  ASSUME ForgeInv, NEW s \in Syncs, PushCommit(s)
  PROVE  OverwritesSeen
<1>1. CASE ~Accepts(s)
  BY <1>1 DEF PushCommit, OverwritesSeen
<1>2. CASE Accepts(s)
  <2> DEFINE r == sync[s].on.repo
             x == [sha |-> commits + 1, files |-> Pushed(s)]
  <2>1. /\ r \in Repos /\ x \in Commit
        /\ branch' = [branch EXCEPT ![r] = Append(branch[r], x)]
    BY <1>2, Pushes
  <2>2. /\ \A q \in Repos : Extends(branch[q], branch'[q])
        /\ Len(branch'[r]) = Len(branch[r]) + 1
        /\ branch'[r][Len(branch[r]) + 1] = x
    BY <2>1, Grown DEF ForgeInv
  <2>3. \A q \in Repos : q # r => branch'[q] = branch[q]
    BY <2>1 DEF ForgeInv, Typed
  <2>4. \A t \in Syncs : t # s => sync'[t] = sync[t]
    BY <1>2 DEF PushCommit, ForgeInv, Typed
  <2>5. branch'[r][Len(branch'[r])].files = Pushed(s)
    BY <2>2
  <2>6. ASSUME forge # "gitlab", NEW d \in TeiFiles,
               HeadFiles(r)[d] \notin {Absent, Pushed(s)[d]}
        PROVE  HeadFiles(r)[d] = Seen(s)[d]
    <3>1. CASE SameHead(s)
      BY <3>1 DEF SameHead, HeadFiles, Seen
    <3>2. CASE ~SameHead(s)
      <4>1. forge # "github" /\ SameBlobs(s)
        BY <1>2, <2>6, <3>2 DEF Accepts
      <4>2. d \in sync[s].names
        BY <2>6, <4>1 DEF Pushed
      <4>3. sync[s].seen[d] = HeadFiles(r)[d] /\ sync[s].seen[d] # Absent
        BY <2>6, <4>1, <4>2 DEF SameBlobs
      <4>4. WasThere(sync[s].seen, sync[s].head, branch[r])
        BY <1>2, Here DEF PushCommit, PushKnows
      <4>5. sync[s].head # 0 /\ sync[s].seen[d] = branch[r][sync[s].head].files[d]
        BY <4>3, <4>4 DEF WasThere
      <4>. QED
        BY <4>3, <4>5 DEF Seen, FilesAt
    <3>. QED
      BY <3>1, <3>2
  <2>. QED
    BY SMTT(30), <2>2, <2>3, <2>4, <2>5, <2>6 DEF OverwritesSeen, Extends
<1>. QED
  BY <1>1, <1>2

LEMMA OthersOverwriteNothing ==
  ASSUME ForgeInv, CommitOfOthers
  PROVE  OverwritesSeen
<1>1. PICK r \in Repos, d \in TeiFiles, c \in {Absent, edits + 2, Malformed} :
        branch' = [branch EXCEPT ![r] = Append(@, [sha |-> commits + 1,
                                  files |-> [HeadFiles(r) EXCEPT ![d] = c]])]
  BY DEF CommitOfOthers
<1>2. \A q \in Repos : branch[q] \in Seq(Commit)
  BY DEF ForgeInv, Typed
<1>3. \A q \in Repos : \/ branch'[q] = branch[q]
                       \/ \E x : branch'[q] = Append(branch[q], x)
  BY <1>1 DEF ForgeInv, Typed
<1>4. \A q \in Repos : \A i \in DOMAIN branch[q] :
        i \in DOMAIN branch'[q] /\ branch'[q][i] = branch[q][i]
  BY <1>2, <1>3
<1>5. \A s \in Syncs : sync'[s] = sync[s]
  BY DEF CommitOfOthers
<1>. QED
  BY <1>4, <1>5 DEF OverwritesSeen

\* Whoever commits between the requests of a push, it takes no commit off a branch
\* and on GitHub and Codeberg replaces no content committed to a file after it read
\* the head (the parent of the commit and the ref update, the blob of each file).
THEOREM PushesKeepOverwritingWhatTheySaw == ForgeSyncSpec => PushesOverwriteWhatTheySaw
<1>1. ASSUME ForgeInv, [ForgeSyncNext]_forgeVars PROVE [OverwritesSeen]_forgeVars
  <2>1. CASE UNCHANGED branch
    BY <2>1 DEF OverwritesSeen
  <2>2. CASE CommitOfOthers
    BY <1>1, <2>2, OthersOverwriteNothing
  <2>3. CASE \E s \in Syncs : PushCommit(s)
    BY <1>1, <2>3, PushOverwritesSeen
  <2>. QED
    BY <1>1, <2>1, <2>2, <2>3
    DEF ForgeSyncNext, forgeVars, UpsertLink, DeleteLink, EditTree, BeginPush,
        ListTree, ReadTree, ReadHead, ReadLess, AnswerWithoutSha, RefetchHead,
        RecordPush, BeginImport, CheckEmpty, FetchBundle, PutFile, PutFails,
        RecordImport, LoseSync
<1>. QED
  BY <1>1, ForgeSyncInvariant, PTL
  DEF ForgeSyncSpec, PushesOverwriteWhatTheySaw, OverwritesSeen

-----------------------------------------------------------------------------
(* How many there are.  A commit is an edit of someone else, or the one commit *)
(* of a push, which does not commit again; every sha on a branch, in a link or *)
(* in a request is that of a commit made, and every link was made by an edit.  *)

Committed == {s \in Syncs : sync[s].at \in {"refetch", "record", "end"}}

LinkWithin(l, e, c) ==
  l.id \in 1..(e + 1) /\ l.pushed <= c /\ l.made <= c /\ l.from <= c

SyncWithin(s) ==
  /\ sync[s].head <= commits /\ sync[s].sha <= commits /\ sync[s].made <= commits
  /\ sync[s].on # NoLink => LinkWithin(sync[s].on, edits, commits)

BranchWithin(r) ==
  /\ Len(branch[r]) <= commits
  /\ \A i \in DOMAIN branch[r] : branch[r][i].sha \in 1..commits

Within ==
  /\ losses \in 0..MaxLosses
  /\ commits <= 1 + edits + Cardinality(Committed)
  /\ link # NoLink => LinkWithin(link, edits, commits)
  /\ \A r \in Repos : BranchWithin(r)
  /\ \A s \in Syncs : SyncWithin(s)

LEMMA CommittedGrow ==
  ASSUME Committed \subseteq Committed'
  PROVE  /\ Cardinality(Committed) \in Nat /\ Cardinality(Committed') \in Nat
         /\ Cardinality(Committed) <= Cardinality(Committed')
         /\ \A s \in Committed' \ Committed :
              Cardinality(Committed) + 1 <= Cardinality(Committed')
<1>1. IsFiniteSet(Committed) /\ IsFiniteSet(Committed')
  <2>1. Committed \subseteq Syncs /\ Committed' \subseteq Syncs
    BY DEF Committed
  <2>. QED
    BY <2>1, ForgeSyncAssumption, FS_Subset
<1>2. /\ Cardinality(Committed) \in Nat /\ Cardinality(Committed') \in Nat
      /\ Cardinality(Committed) <= Cardinality(Committed')
  BY <1>1, FS_CardinalityType, FS_Subset
<1>3. ASSUME NEW s \in Committed' \ Committed
      PROVE  Cardinality(Committed) + 1 <= Cardinality(Committed')
  <2>1. Committed # Committed'
    BY <1>3
  <2>2. Cardinality(Committed) # Cardinality(Committed')
    BY <1>1, <2>1, FS_Subset
  <2>. QED
    BY <1>2, <2>2
<1>. QED
  BY <1>2, <1>3

\* A step changes one part and leaves the rest, and nothing gets less.
LEMMA WithinStays ==
  ASSUME Typed, Typed', Within, losses' \in 0..MaxLosses,
         commits <= commits', edits <= edits',
         commits' <= 1 + edits' + Cardinality(Committed'),
         link' = link \/ (link' # NoLink => LinkWithin(link', edits', commits')),
         \A r \in Repos : branch'[r] = branch[r] \/ BranchWithin(r)',
         \A s \in Syncs : sync'[s] = sync[s] \/ SyncWithin(s)'
  PROVE  Within'
<1>1. /\ commits \in Nat /\ commits' \in Nat /\ edits \in Nat /\ edits' \in Nat
  BY ForgeSyncAssumption DEF Typed
<1>2. ASSUME NEW l \in AnyLink, LinkWithin(l, edits, commits)
      PROVE  LinkWithin(l, edits', commits')
  BY <1>1, <1>2 DEF LinkWithin, AnyLink
<1>3. link' # NoLink => LinkWithin(link', edits', commits')
  <2>1. CASE link' = link
    BY <1>2, <2>1 DEF Typed, Within
  <2>. QED
    BY <2>1
<1>4. ASSUME NEW r \in Repos PROVE BranchWithin(r)'
  <2>1. BranchWithin(r) /\ branch[r] \in Seq(Commit) /\ Len(branch[r]) \in Nat
    BY DEF Within, Typed
  <2>2. CASE branch'[r] = branch[r]
    BY <1>1, <2>1, <2>2 DEF BranchWithin
  <2>. QED
    BY <2>2
<1>5. ASSUME NEW s \in Syncs PROVE SyncWithin(s)'
  <2>1. SyncWithin(s) /\ sync[s] \in AnySync
    BY DEF Within, Typed
  <2>2. CASE sync'[s] = sync[s]
    <3>1. sync[s].on # NoLink => LinkWithin(sync[s].on, edits', commits')
      BY <1>2, <2>1 DEF SyncWithin, AnySync
    <3>2. sync[s].head \in Nat /\ sync[s].sha \in Nat /\ sync[s].made \in Nat
      BY <2>1 DEF AnySync
    <3>. QED
      BY <1>1, <2>1, <2>2, <3>1, <3>2 DEF SyncWithin
  <2>. QED
    BY <2>2
<1>. QED
  BY <1>3, <1>4, <1>5 DEF Within

\* A request moves on, or ends, and writes no more than the link.
LEMMA WithinSync ==
  ASSUME Typed, Typed', Within, NEW s \in Syncs, losses' \in 0..MaxLosses,
         UNCHANGED <<branch, commits, edits>>,
         link' = link \/ LinkWithin(link', edits', commits'),
         \A t \in Syncs \ {s} : sync'[t] = sync[t],
         s \in Committed => s \in Committed', SyncWithin(s)'
  PROVE  Within'
<1>1. Committed \subseteq Committed'
  BY DEF Committed
<1>2. commits \in Nat /\ edits \in Nat
  BY ForgeSyncAssumption DEF Typed
<1>3. commits' <= 1 + edits' + Cardinality(Committed')
  BY <1>1, <1>2, CommittedGrow DEF Within
<1>. QED
  BY <1>2, <1>3, WithinStays

LEMMA WithinOver ==
  ASSUME Typed, Typed', Within, NEW s \in Syncs, Over(s), losses' \in 0..MaxLosses,
         UNCHANGED <<branch, commits, edits>>,
         link' = link \/ LinkWithin(link', edits', commits')
  PROVE  Within'
<1>1. sync'[s] = [NoSync EXCEPT !.at = "end"] /\ \A t \in Syncs \ {s} : sync'[t] = sync[t]
  BY DEF Typed, Over
<1>2. commits \in Nat
  BY DEF Typed
<1>3. s \in Committed' /\ SyncWithin(s)'
  BY <1>1, <1>2 DEF NoSync, Committed, SyncWithin
<1>. QED
  BY <1>1, <1>3, WithinSync

LEMMA ShaWithin ==
  ASSUME Typed, Within, NEW r \in Repos
  PROVE  /\ Len(branch[r]) \in Nat /\ Len(branch[r]) <= commits
         /\ HeadSha(r, Len(branch[r])) <= commits
<1>1. /\ branch[r] \in Seq(Commit) /\ Len(branch[r]) \in Nat /\ commits \in Nat
      /\ BranchWithin(r)
  BY DEF Typed, Within
<1>2. CASE Len(branch[r]) # 0
  <2>1. Len(branch[r]) \in DOMAIN branch[r]
    BY <1>1, <1>2
  <2>2. branch[r][Len(branch[r])].sha \in 1..commits
    BY <1>1, <2>1 DEF BranchWithin
  <2>. QED
    BY <1>1, <1>2, <2>2 DEF HeadSha, BranchWithin
<1>3. CASE Len(branch[r]) = 0
  BY <1>1, <1>3 DEF HeadSha, BranchWithin
<1>. QED
  BY <1>2, <1>3

LEMMA WithinEdits ==
  ASSUME Typed, Typed', Within, UpsertLink \/ DeleteLink \/ EditTree \/ CommitOfOthers
  PROVE  Within'
<1>1. /\ edits' = edits + 1 /\ losses' = losses /\ sync' = sync
      /\ commits \in Nat /\ edits \in Nat /\ Committed' = Committed
      /\ Cardinality(Committed) \in Nat
  <2>1. edits' = edits + 1 /\ losses' = losses /\ sync' = sync
    BY DEF UpsertLink, DeleteLink, EditTree, CommitOfOthers
  <2>2. Committed' = Committed
    BY <2>1 DEF Committed
  <2>. QED
    BY <2>1, <2>2, CommittedGrow, ForgeSyncAssumption DEF Typed
<1>2. /\ losses' \in 0..MaxLosses /\ edits <= edits'
      /\ commits <= 1 + edits + Cardinality(Committed')
  BY <1>1 DEF Within
<1>3. CASE UpsertLink
  <2>1. branch' = branch /\ commits' = commits
    BY <1>3 DEF UpsertLink
  <2>2. LinkWithin(link', edits', commits')
    <3>1. CASE link = NoLink
      BY <1>1, <1>3, <2>1, <3>1 DEF UpsertLink, NewLink, LinkWithin
    <3>2. CASE link # NoLink
      <4>1. link \in AnyLink /\ LinkWithin(link, edits, commits)
        BY <3>2 DEF Typed, Within
      <4>2. PICK r \in Repos : link' = [link EXCEPT !.repo = r]
        BY <1>3, <3>2 DEF UpsertLink
      <4>. QED
        BY <1>1, <2>1, <4>1, <4>2 DEF LinkWithin, AnyLink
    <3>. QED
      BY <3>1, <3>2
  <2>. QED
    BY <1>1, <1>2, <2>1, <2>2, WithinStays
<1>4. CASE DeleteLink
  BY <1>1, <1>2, <1>4, WithinStays DEF DeleteLink
<1>5. CASE EditTree
  BY <1>1, <1>2, <1>5, WithinStays DEF EditTree
<1>6. CASE CommitOfOthers
  <2>1. PICK r \in Repos, d \in TeiFiles, c \in {Absent, edits + 2, Malformed} :
          branch' = [branch EXCEPT ![r] = Append(@, [sha |-> commits + 1,
                                    files |-> [HeadFiles(r) EXCEPT ![d] = c]])]
    BY <1>6 DEF CommitOfOthers
  <2> DEFINE x == [sha |-> commits + 1, files |-> [HeadFiles(r) EXCEPT ![d] = c]]
  <2>2. link' = link /\ commits' = commits + 1
    BY <1>6 DEF CommitOfOthers
  <2>3. BranchWithin(r)'
    <3>1. /\ branch[r] \in Seq(Commit) /\ BranchWithin(r)
          /\ branch'[r] = Append(branch[r], x) /\ x.sha = commits + 1
      BY <2>1 DEF Typed, Within
    <3>. HIDE DEF x
    <3>2. /\ Len(branch'[r]) = Len(branch[r]) + 1 /\ Len(branch[r]) \in Nat
          /\ \A i \in DOMAIN branch'[r] :
               branch'[r][i] = x \/ (i \in DOMAIN branch[r] /\ branch'[r][i] = branch[r][i])
      BY <3>1
    <3>. QED
      BY <1>1, <2>2, <3>1, <3>2 DEF BranchWithin
  <2>4. \A q \in Repos \ {r} : branch'[q] = branch[q]
    BY <2>1 DEF Typed
  <2>. QED
    BY <1>1, <1>2, <2>2, <2>3, <2>4, WithinStays
<1>. QED
  BY <1>3, <1>4, <1>5, <1>6

LEMMA WithinPush ==
  ASSUME ForgeInv, Typed', Within, NEW s \in Syncs, PushCommit(s)
  PROVE  Within'
<1>1. losses' = losses /\ edits' = edits /\ link' = link /\ losses' \in 0..MaxLosses
  BY DEF PushCommit, forgeCounts, Within
<1>2. CASE ~Accepts(s)
  BY <1>1, <1>2, WithinOver DEF PushCommit, ForgeInv
<1>3. CASE Accepts(s)
  <2> DEFINE r == sync[s].on.repo
             x == [sha |-> commits + 1, files |-> Pushed(s)]
             y == [sync[s] EXCEPT !.at = "record", !.made = commits + 1, !.sha = commits + 1]
  <2>1. r \in Repos /\ branch' = [branch EXCEPT ![r] = Append(branch[r], x)]
    BY <1>3, Pushes
  <2>2. /\ commits' = commits + 1 /\ commits \in Nat /\ edits \in Nat
        /\ sync[s].at = "commit" /\ SyncWithin(s)
    BY <1>3, ForgeSyncAssumption DEF PushCommit, ForgeInv, Typed, Within
  <2>3. /\ sync'[s] = y /\ \A t \in Syncs \ {s} : sync'[t] = sync[t]
        /\ y.at = "record" /\ y.on = sync[s].on /\ y.head = sync[s].head
        /\ y.sha = commits + 1 /\ y.made = commits + 1
    BY <1>3, Here DEF PushCommit, ForgeInv, Typed, AnySync
  <2>4. SyncWithin(s)'
    <3>2. ASSUME NEW l \in AnyLink, LinkWithin(l, edits, commits)
          PROVE  LinkWithin(l, edits', commits')
      BY <1>1, <2>2, <3>2 DEF LinkWithin, AnyLink
    <3>3. sync[s].on # NoLink => LinkWithin(sync[s].on, edits', commits')
      BY <2>2, <3>2, Here DEF SyncWithin, AnySync
    <3>4. sync[s].head \in Nat /\ sync[s].head <= commits
      BY <2>2, Here DEF SyncWithin, AnySync
    <3>. HIDE DEF y
    <3>. QED
      BY <2>2, <2>3, <3>3, <3>4 DEF SyncWithin
  <2>5. Committed \subseteq Committed' /\ s \in Committed' \ Committed
    <3>. HIDE DEF y
    <3>. QED
      BY <2>2, <2>3 DEF Committed
  <2>6. commits' <= 1 + edits' + Cardinality(Committed')
    BY <1>1, <2>2, <2>5, CommittedGrow DEF Within
  <2>7. ASSUME NEW q \in Repos PROVE branch'[q] = branch[q] \/ BranchWithin(q)'
    <3>1. CASE q = r
      <4>1. /\ branch[q] \in Seq(Commit) /\ BranchWithin(q)
            /\ branch'[q] = Append(branch[q], x) /\ x.sha = commits + 1
        BY <2>1, <3>1 DEF ForgeInv, Typed, Within
      <4>. HIDE DEF r, x, y
      <4>2. /\ Len(branch'[q]) = Len(branch[q]) + 1 /\ Len(branch[q]) \in Nat
            /\ \A i \in DOMAIN branch'[q] :
                 branch'[q][i] = x \/ (i \in DOMAIN branch[q] /\ branch'[q][i] = branch[q][i])
        BY <4>1
      <4>. QED
        BY <2>2, <4>1, <4>2 DEF BranchWithin
    <3>2. CASE q # r
      BY <2>1, <3>2 DEF ForgeInv, Typed
    <3>. QED
      BY <3>1, <3>2
  <2>8. commits <= commits' /\ edits <= edits'
    BY <1>1, <2>2
  <2>. QED
    BY <1>1, <2>3, <2>4, <2>6, <2>7, <2>8, WithinStays DEF ForgeInv
<1>. QED
  BY <1>2, <1>3

LEMMA WithinRequest ==
  ASSUME Typed, Typed', Within, NEW s \in Syncs,
         \/ BeginPush(s) \/ ListTree(s) \/ ReadTree(s) \/ ReadHead(s) \/ ReadLess(s)
         \/ AnswerWithoutSha(s) \/ RefetchHead(s) \/ RecordPush(s)
         \/ BeginImport(s) \/ CheckEmpty(s) \/ FetchBundle(s) \/ PutFile(s)
         \/ PutFails(s) \/ RecordImport(s) \/ LoseSync(s)
  PROVE  Within'
<1>1. /\ UNCHANGED <<branch, commits, edits>> /\ losses' \in 0..MaxLosses
  <2>1. CASE PutFails(s) \/ LoseSync(s) \/ ReadLess(s)
    BY <2>1, ForgeSyncAssumption DEF PutFails, LoseSync, ReadLess, Within
  <2>2. CASE \/ BeginPush(s) \/ ListTree(s) \/ ReadTree(s) \/ ReadHead(s)
             \/ AnswerWithoutSha(s) \/ RefetchHead(s) \/ RecordPush(s)
             \/ BeginImport(s) \/ CheckEmpty(s) \/ FetchBundle(s) \/ PutFile(s)
             \/ RecordImport(s)
    <3>1. UNCHANGED <<branch, commits, forgeCounts>>
      BY <2>2
      DEF BeginPush, ListTree, ReadTree, ReadHead, AnswerWithoutSha, RefetchHead,
          RecordPush, BeginImport, CheckEmpty, FetchBundle, PutFile, RecordImport
    <3>. QED
      BY <3>1 DEF forgeCounts, Within
  <2>. QED
    BY <2>1, <2>2
<1>2. sync[s] \in AnySync /\ SyncWithin(s) /\ commits \in Nat /\ link \in AnyLink \cup {NoLink}
  BY DEF Typed, Within
<1>3. CASE Over(s)
  <2>1. link' = link \/ LinkWithin(link', edits', commits')
    <3>1. CASE RecordPush(s) \/ RecordImport(s)
      <4>1. CASE SameRow(s)
        <5>1. link \in AnyLink /\ LinkWithin(link, edits, commits)
          BY <1>2, <4>1 DEF SameRow, Within
        <5>. QED
          BY <1>1, <1>2, <3>1, <4>1, <5>1
          DEF RecordPush, RecordImport, LinkWithin, AnyLink, SyncWithin
      <4>. QED
        BY <3>1, <4>1 DEF RecordPush, RecordImport
    <3>. QED
      BY <3>1
      DEF BeginPush, ListTree, ReadTree, ReadHead, ReadLess, AnswerWithoutSha,
          RefetchHead, BeginImport, CheckEmpty, FetchBundle, PutFile, PutFails,
          LoseSync
  <2>. QED
    BY <1>1, <1>3, <2>1, WithinOver
<1>4. CASE ~Over(s)
  <2>1. link' = link /\ \A t \in Syncs \ {s} : sync'[t] = sync[t]
    BY <1>4
    DEF BeginPush, ListTree, ReadTree, ReadHead, ReadLess, AnswerWithoutSha,
        RefetchHead, RecordPush, BeginImport, CheckEmpty, FetchBundle, PutFile,
        PutFails, RecordImport, LoseSync, AbortImport, Typed
  <2>2. CASE BeginPush(s) \/ BeginImport(s)
    <3>1. /\ s \notin Committed
          /\ sync'[s].on = link /\ sync'[s].head = sync[s].head
          /\ sync'[s].sha = sync[s].sha /\ sync'[s].made = sync[s].made
      <4>1. \E at \in SyncPlaces : sync' = [sync EXCEPT ![s].at = at, ![s].on = link]
        BY <2>2 DEF BeginPush, BeginImport, SyncPlaces
      <4>2. s \notin Committed
        BY <2>2 DEF BeginPush, BeginImport, Comes, Committed
      <4>. QED
        BY <1>2, <4>1, <4>2 DEF AnySync, Typed
    <3>2. SyncWithin(s)'
      BY <1>1, <1>2, <3>1 DEF SyncWithin, Within, LinkWithin
    <3>. QED
      BY <1>1, <2>1, <3>1, <3>2, WithinSync
  <2>3. CASE ListTree(s) \/ ReadTree(s) \/ CheckEmpty(s) \/ PutFile(s)
    <3>1. /\ s \notin Committed
          /\ sync'[s].on = sync[s].on /\ sync'[s].head = sync[s].head
          /\ sync'[s].sha = sync[s].sha /\ sync'[s].made = sync[s].made
      <4>1. s \notin Committed
        BY <2>3 DEF ListTree, ReadTree, CheckEmpty, PutFile, Committed
      <4>2. CASE ListTree(s) \/ CheckEmpty(s)
        <5>1. \/ sync' = [sync EXCEPT ![s].at = "read", ![s].names = Names(tree)]
              \/ sync' = [sync EXCEPT ![s].at = "fetch"]
          BY <1>4, <4>2 DEF ListTree, CheckEmpty
        <5>. QED
          BY <1>2, <4>1, <5>1 DEF AnySync, Typed
      <4>3. CASE ReadTree(s)
        <5>1. \E read, got, at :
                sync' = [sync EXCEPT ![s] = [sync[s] EXCEPT !.read = read, !.got = got, !.at = at]]
          <6>1. PICK d \in sync[s].names \ sync[s].got :
                  sync' = [sync EXCEPT ![s].read[d] = tree[d], ![s].got = @ \cup {d},
                    ![s].at = IF sync[s].got \cup {d} = sync[s].names THEN "head" ELSE "read"]
            BY <1>4, <4>3 DEF ReadTree
          <6>2. WITNESS [sync[s].read EXCEPT ![d] = tree[d]], sync[s].got \cup {d},
                        IF sync[s].got \cup {d} = sync[s].names THEN "head" ELSE "read"
          <6>. QED
            BY <1>2, <6>1 DEF AnySync, Typed
        <5>. QED
          BY <1>2, <4>1, <5>1 DEF AnySync, Typed
      <4>4. CASE PutFile(s)
        <5>1. \E got, at : sync' = [sync EXCEPT ![s].got = got, ![s].at = at]
          BY <4>4 DEF PutFile
        <5>. QED
          BY <1>2, <4>1, <5>1 DEF AnySync, Typed
      <4>. QED
        BY <2>3, <4>2, <4>3, <4>4
    <3>2. SyncWithin(s)'
      BY <1>1, <1>2, <3>1 DEF SyncWithin, LinkWithin
    <3>. QED
      BY <1>1, <2>1, <3>1, <3>2, WithinSync
  <2>4. CASE \/ ReadHead(s) \/ ReadLess(s) \/ AnswerWithoutSha(s)
             \/ RefetchHead(s) \/ FetchBundle(s)
    <3>1. sync[s].on \in AnyLink /\ sync[s].on.repo \in Repos
      BY <2>4 DEF ReadHead, ReadLess, AnswerWithoutSha, RefetchHead, FetchBundle,
                  Typed, Open, AnyLink
    <3>2. /\ Len(branch[sync[s].on.repo]) <= commits
          /\ HeadSha(sync[s].on.repo, Len(branch[sync[s].on.repo])) <= commits
      BY <3>1, ShaWithin
    <3>3. /\ sync'[s].on = sync[s].on /\ sync'[s].made = sync[s].made
          /\ sync'[s].head \in {0, sync[s].head, Len(branch[sync[s].on.repo])}
          /\ sync'[s].sha \in {0, sync[s].sha,
               HeadSha(sync[s].on.repo, Len(branch[sync[s].on.repo]))}
          /\ s \in Committed => s \in Committed'
      <4>1. CASE ReadHead(s) \/ AnswerWithoutSha(s)
        BY <1>2, <4>1 DEF ReadHead, AnswerWithoutSha, Committed, Typed, AnySync
      <4>2. CASE ReadLess(s)
        <5>1. PICK n \in {0, Len(branch[sync[s].on.repo])} :
                \E l : sync' = [sync EXCEPT ![s].at = "commit", ![s].head = n,
                                           ![s].seen = l]
          BY <4>2 DEF ReadLess
        <5>2. s \notin Committed
          BY <4>2 DEF ReadLess, Committed
        <5>. QED
          BY <1>2, <5>1, <5>2 DEF Typed, AnySync
      <4>3. CASE RefetchHead(s)
        <5>1. PICK n \in {HeadNow(s), 0} :
                sync' = [sync EXCEPT ![s].at = "record", ![s].sha = n]
          BY <4>3 DEF RefetchHead
        <5>. QED
          BY <1>2, <5>1 DEF HeadNow, Committed, Typed, AnySync
      <4>4. CASE FetchBundle(s)
        <5>1. \E w, l : sync' = [sync EXCEPT ![s].at = "put", ![s].read = l,
                           ![s].names = w, ![s].sha = HeadNow(s)]
          BY <1>4, <4>4 DEF FetchBundle
        <5>2. s \notin Committed
          BY <4>4 DEF FetchBundle, Committed
        <5>. QED
          BY <1>2, <5>1, <5>2 DEF HeadNow, Typed, AnySync
      <4>. QED
        BY <2>4, <4>1, <4>2, <4>3, <4>4
    <3>4. sync[s].head \in Nat /\ Len(branch[sync[s].on.repo]) \in Nat
      BY <1>2, <3>1, ShaWithin DEF AnySync
    <3>5. SyncWithin(s)'
      BY <1>1, <1>2, <3>2, <3>3, <3>4 DEF SyncWithin, LinkWithin
    <3>. QED
      BY <1>1, <2>1, <3>3, <3>5, WithinSync
  <2>. QED
    BY <1>4, <2>2, <2>3, <2>4
    DEF RecordPush, PutFails, AbortImport, RecordImport, LoseSync
<1>. QED
  BY <1>3, <1>4

LEMMA WithinStart == ForgeSyncInit => Within
<1> SUFFICES ASSUME ForgeSyncInit PROVE Within
  OBVIOUS
<1>1. commits = 1 /\ edits = 0 /\ losses \in 0..MaxLosses
  BY ForgeSyncAssumption DEF ForgeSyncInit
<1>2. Cardinality(Committed) \in Nat
  <2>1. IsFiniteSet(Committed)
    <3>1. Committed \subseteq Syncs
      BY DEF Committed
    <3>. QED
      BY <3>1, ForgeSyncAssumption, FS_Subset
  <2>. QED
    BY <2>1, FS_CardinalityType
<1>3. LinkWithin(link, edits, commits)
  BY <1>1 DEF ForgeSyncInit, NewLink, LinkWithin
<1>4. ASSUME NEW r \in Repos PROVE BranchWithin(r)
  <2>1. branch[r] = <<>> \/ branch[r] = <<[sha |-> 1, files |-> OldListing]>>
    BY DEF ForgeSyncInit
  <2>2. CASE branch[r] = <<>>
    BY <1>1, <2>2 DEF BranchWithin
  <2>3. CASE branch[r] = <<[sha |-> 1, files |-> OldListing]>>
    BY <1>1, <2>3 DEF BranchWithin
  <2>. QED
    BY <2>1, <2>2, <2>3
<1>5. ASSUME NEW s \in Syncs PROVE SyncWithin(s)
  BY <1>1 DEF ForgeSyncInit, NoSync, SyncWithin
<1>. QED
  BY <1>1, <1>2, <1>3, <1>4, <1>5 DEF Within

LEMMA WithinStep ==
  ASSUME ForgeInv, ForgeInv', Within, [ForgeSyncNext]_forgeVars
  PROVE  Within'
<1>1. Typed /\ Typed'
  BY DEF ForgeInv
<1>2. CASE UNCHANGED forgeVars
  BY <1>2 DEF forgeVars, Within, Committed, LinkWithin, BranchWithin, SyncWithin
<1>3. CASE UpsertLink \/ DeleteLink \/ EditTree \/ CommitOfOthers
  BY <1>1, <1>3, WithinEdits
<1>4. ASSUME NEW s \in Syncs, PushCommit(s) PROVE Within'
  BY <1>1, <1>4, WithinPush
<1>5. ASSUME NEW s \in Syncs,
             \/ BeginPush(s) \/ ListTree(s) \/ ReadTree(s)
             \/ ReadHead(s) \/ ReadLess(s) \/ AnswerWithoutSha(s) \/ RefetchHead(s) \/ RecordPush(s)
             \/ BeginImport(s) \/ CheckEmpty(s) \/ FetchBundle(s) \/ PutFile(s)
             \/ PutFails(s) \/ RecordImport(s) \/ LoseSync(s)
      PROVE  Within'
  BY <1>1, <1>5, WithinRequest
<1>. QED
  BY <1>2, <1>3, <1>4, <1>5 DEF ForgeSyncNext

LEMMA WithinTypes == ForgeInv /\ Within => ForgeTypeOK
<1> SUFFICES ASSUME ForgeInv, Within PROVE ForgeTypeOK
  OBVIOUS
<1>1. /\ Typed /\ MaxEdits \in Nat /\ edits \in 0..MaxEdits /\ commits \in Nat
      /\ Cardinality(Committed) \in Nat /\ Cardinality(Syncs) \in Nat
      /\ Cardinality(Committed) <= Cardinality(Syncs)
  <2>1. Committed \subseteq Syncs /\ IsFiniteSet(Syncs)
    BY ForgeSyncAssumption DEF Committed
  <2>. QED
    BY <2>1, ForgeSyncAssumption, FS_Subset, FS_CardinalityType DEF ForgeInv, Typed
<1>2. commits <= MaxCommits /\ MaxCommits \in Nat
  BY <1>1 DEF Within, MaxCommits
<1>3. ASSUME NEW l \in AnyLink, LinkWithin(l, edits, commits) PROVE l \in Link
  <2>1. /\ l.id \in 1..(MaxEdits + 1) /\ l.pushed \in 0..MaxCommits
        /\ l.made \in 0..MaxCommits /\ l.from \in 0..MaxCommits
    BY <1>1, <1>2, <1>3 DEF LinkWithin, AnyLink
  <2>2. l = [id |-> l.id, repo |-> l.repo, pushed |-> l.pushed, made |-> l.made,
             initialized |-> l.initialized, from |-> l.from, brought |-> l.brought]
    BY DEF AnyLink
  <2>3. l.repo \in Repos /\ l.initialized \in BOOLEAN /\ l.brought \in SUBSET TeiFiles
    BY DEF AnyLink
  <2>. QED
    BY <2>1, <2>2, <2>3 DEF Link
<1>4. link \in Link \cup {NoLink}
  BY <1>1, <1>3 DEF Typed, Within
<1>5. ASSUME NEW r \in Repos
      PROVE  /\ Len(branch[r]) <= MaxCommits
             /\ \A i \in DOMAIN branch[r] : branch[r][i] \in Revision
  <2>1. branch[r] \in Seq(Commit) /\ Len(branch[r]) \in Nat /\ BranchWithin(r)
    BY <1>1 DEF Typed, Within
  <2>2. ASSUME NEW i \in DOMAIN branch[r] PROVE branch[r][i] \in Revision
    <3>1. branch[r][i] \in Commit /\ branch[r][i].sha \in 1..MaxCommits
      BY <1>1, <1>2, <2>1 DEF BranchWithin
    <3>. QED
      BY <3>1 DEF Commit, Revision
  <2>. QED
    BY <1>1, <1>2, <2>1, <2>2 DEF BranchWithin
<1>6. ASSUME NEW s \in Syncs PROVE sync[s] \in Sync
  <2>1. sync[s] \in AnySync /\ SyncWithin(s)
    BY <1>1 DEF Typed, Within
  <2>2. /\ sync[s].head \in 0..MaxCommits /\ sync[s].sha \in 0..MaxCommits
        /\ sync[s].made \in 0..MaxCommits
    BY <1>1, <1>2, <2>1 DEF SyncWithin, AnySync
  <2>3. sync[s].on \in Link \cup {NoLink}
    BY <1>3, <2>1 DEF SyncWithin, AnySync
  <2>4. sync[s] = [at |-> sync[s].at, on |-> sync[s].on, names |-> sync[s].names,
                   read |-> sync[s].read, got |-> sync[s].got, head |-> sync[s].head,
                   seen |-> sync[s].seen, sha |-> sync[s].sha, made |-> sync[s].made]
    BY <2>1 DEF AnySync
  <2>5. /\ sync[s].at \in SyncPlaces /\ sync[s].names \in SUBSET TeiFiles
        /\ sync[s].read \in Listing /\ sync[s].got \in SUBSET TeiFiles
        /\ sync[s].seen \in Listing
    BY <2>1 DEF AnySync
  <2>. QED
    BY <2>2, <2>3, <2>4, <2>5 DEF Sync
<1>7. sync \in [Syncs -> Sync]
  BY <1>1, <1>6 DEF Typed
<1>8. commits \in 0..MaxCommits /\ losses \in 0..MaxLosses
  BY <1>1, <1>2 DEF Within
<1>. QED
  BY <1>1, <1>4, <1>5, <1>7, <1>8 DEF Typed, ForgeTypeOK

\* In every behaviour every number is one that was given: a push commits once
\* (push_collection), and what a link or a request names is a commit made.
THEOREM ForgeTypeCorrect == ForgeSyncSpec => []ForgeTypeOK
<1>1. ForgeSyncSpec => []Within
  <2>1. ForgeInv /\ ForgeInv' /\ Within /\ [ForgeSyncNext]_forgeVars => Within'
    BY WithinStep
  <2>. QED
    BY <2>1, WithinStart, ForgeSyncInvariant, PTL DEF ForgeSyncSpec
<1>. QED
  BY <1>1, ForgeSyncInvariant, WithinTypes, PTL
=============================================================================
