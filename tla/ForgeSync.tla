----------------------------- MODULE ForgeSync -----------------------------
(***************************************************************************)
(* A collection linked to a branch of a repository on a git forge          *)
(* (plugins/{github,gitlab,codeberg}_integration/service.py and the        *)
(* adapters of plugins/_lib/git_forge): Push copies the working tree into  *)
(* one commit, Initialize fills an empty collection from the branch.  Each *)
(* is a chain of requests to eXist-db and to the forge with no lock: the   *)
(* working tree, the link and the branch may change between any two.       *)
(***************************************************************************)
EXTENDS Integers, Sequences, FiniteSets

CONSTANTS
  TeiFiles,    \* names of documents
  Repos,       \* repositories a link may name
  Syncs,       \* requests to push or to initialize, as they arrive
  MaxEdits,    \* bound: documents, links and commits of others written
  MaxLosses,   \* bound: requests killed, answers lost
  NoLink

ASSUME ForgeSyncAssumption ==
  /\ Syncs \subseteq Nat /\ IsFiniteSet(Syncs)
  /\ MaxEdits \in Nat /\ MaxLosses \in Nat

VARIABLES
  forge,       \* the forge of the link
  tree,        \* the working tree in eXist-db
  link,        \* the row of the link, or NoLink
  branch,      \* the commits of the branch in each repository, oldest first
  sync,        \* the requests
  commits,     \* commits made so far, which number them
  edits,       \* edits so far, which number bodies and links
  losses,      \* requests killed and answers lost so far
  disturbed    \* history: something else wrote during an import

forgeCounts == <<edits, losses>>
forgeVars == <<forge, tree, link, branch, sync, commits, edits, losses, disturbed>>

-----------------------------------------------------------------------------
Forges == {"github", "gitlab", "codeberg"}

\* What a path holds: nothing, a document (its body numbered by the edit it
\* comes from, 1 the oldest), or a file that is not well-formed.
Absent == 0
Malformed == MaxEdits + 2
Content == 0..Malformed
Listing == [TeiFiles -> Content]

Names(l) == {d \in TeiFiles : l[d] # Absent}
EmptyListing == [d \in TeiFiles |-> Absent]
OldListing == [d \in TeiFiles |-> 1]

\* What is left of a listing when the forge gives no more than some of its files.
Part(l, some) == [d \in TeiFiles |-> IF d \in some THEN l[d] ELSE Absent]

MaxCommits == MaxEdits + Cardinality(Syncs) + 1

Revision == [sha : 1..MaxCommits, files : Listing]

\* pushed is last_push_sha, from is initialized_from_sha, 0 when null or empty;
\* (history) made is the commit of the push that wrote pushed, brought the files
\* that the import had been given.
Link == [id : 1..(MaxEdits + 1), repo : Repos, pushed : 0..MaxCommits,
         made : 0..MaxCommits, initialized : BOOLEAN, from : 0..MaxCommits,
         brought : SUBSET TeiFiles]

NewLink(id, r) == [id |-> id, repo |-> r, pushed |-> 0, made |-> 0,
                   initialized |-> FALSE, from |-> 0, brought |-> {}]

SyncPlaces == {"none", "list", "read", "head", "commit", "refetch", "record",
               "check", "fetch", "put", "import", "end"}

\* on is the link as the session loaded it; read the manifest or the bundle,
\* of which got are read or imported; head the length of the branch when its
\* head was read, seen the files the forge listed there, sha the commit to
\* record, made the commit made.
Sync == [at : SyncPlaces, on : Link \cup {NoLink}, names : SUBSET TeiFiles,
         read : Listing, got : SUBSET TeiFiles, head : 0..MaxCommits,
         seen : Listing, sha : 0..MaxCommits, made : 0..MaxCommits]

NoSync == [at |-> "none", on |-> NoLink, names |-> {}, read |-> EmptyListing,
           got |-> {}, head |-> 0, seen |-> EmptyListing, sha |-> 0, made |-> 0]

ForgeTypeOK ==
  /\ forge \in Forges
  /\ tree \in Listing
  /\ link \in Link \cup {NoLink}
  /\ \A r \in Repos : /\ Len(branch[r]) <= MaxCommits
                      /\ \A i \in DOMAIN branch[r] : branch[r][i] \in Revision
  /\ sync \in [Syncs -> Sync]
  /\ commits \in 0..MaxCommits /\ edits \in 0..MaxEdits
  /\ losses \in 0..MaxLosses /\ disturbed \in BOOLEAN

-----------------------------------------------------------------------------
FilesAt(r, n) == IF n = 0 THEN EmptyListing ELSE branch[r][n].files
HeadFiles(r) == FilesAt(r, Len(branch[r]))

Comes(s) == /\ sync[s].at = "none" /\ link # NoLink
            /\ \A t \in Syncs : t < s => sync[t].at # "none"

Importing(s) == sync[s].at \in {"check", "fetch", "put", "import"}

\* The request is over: refused, failed or answered.
Over(s) == sync' = [sync EXCEPT ![s] = [NoSync EXCEPT !.at = "end"]]

(* Links and documents *)

\* The repository and the branch may change; what was recorded stays.
UpsertLink == \E r \in Repos :
  /\ edits < MaxEdits /\ edits' = edits + 1
  /\ link' = IF link = NoLink THEN NewLink(edits + 2, r)
             ELSE [link EXCEPT !.repo = r]
  /\ UNCHANGED <<forge, tree, branch, sync, commits, losses, disturbed>>

DeleteLink ==
  /\ link # NoLink /\ edits < MaxEdits /\ edits' = edits + 1
  /\ link' = NoLink
  /\ UNCHANGED <<forge, tree, branch, sync, commits, losses, disturbed>>

\* A document is uploaded, changed or deleted.
EditTree == \E d \in TeiFiles, c \in {Absent, edits + 2} :
  /\ edits < MaxEdits /\ edits' = edits + 1
  /\ c # tree[d] /\ tree' = [tree EXCEPT ![d] = c]
  /\ disturbed' = TRUE
  /\ UNCHANGED <<forge, link, branch, sync, commits, losses>>

\* Someone commits to the repository, what they like.
CommitOfOthers == \E r \in Repos, d \in TeiFiles, c \in {Absent, edits + 2, Malformed} :
  /\ edits < MaxEdits /\ edits' = edits + 1
  /\ commits' = commits + 1
  /\ branch' = [branch EXCEPT ![r] = Append(@, [sha |-> commits + 1,
                                files |-> [HeadFiles(r) EXCEPT ![d] = c]])]
  /\ UNCHANGED <<forge, tree, link, sync, losses, disturbed>>

(* Push: push_collection, _collect_manifest *)

BeginPush(s) ==
  /\ Comes(s)
  /\ sync' = [sync EXCEPT ![s].at = "list", ![s].on = link]
  /\ UNCHANGED <<forge, tree, link, branch, commits, forgeCounts, disturbed>>

\* A collection without documents is refused.
ListTree(s) ==
  /\ sync[s].at = "list"
  /\ IF Names(tree) = {} THEN Over(s)
     ELSE sync' = [sync EXCEPT ![s].at = "read", ![s].names = Names(tree)]
  /\ UNCHANGED <<forge, tree, link, branch, commits, forgeCounts, disturbed>>

\* One document at a time; one that is gone by now fails the push.
ReadTree(s) ==
  /\ sync[s].at = "read"
  /\ \E d \in sync[s].names \ sync[s].got :
       IF tree[d] = Absent THEN Over(s)
       ELSE sync' = [sync EXCEPT ![s].read[d] = tree[d], ![s].got = @ \cup {d},
              ![s].at = IF sync[s].got \cup {d} = sync[s].names THEN "head" ELSE "read"]
  /\ UNCHANGED <<forge, tree, link, branch, commits, forgeCounts, disturbed>>

\* The head of the branch, with the tree there.
ReadHead(s) ==
  /\ sync[s].at = "head"
  /\ LET r == sync[s].on.repo IN
       sync' = [sync EXCEPT ![s].at = "commit", ![s].head = Len(branch[r]),
                            ![s].seen = HeadFiles(r)]
  /\ UNCHANGED <<forge, tree, link, branch, commits, forgeCounts, disturbed>>

\* The forge gives less, and the push goes on: it does not find the branch, or
\* not all files of it (a page that is missing, more pages than are asked for);
\* from GitHub no files are asked, and it may give no tree.
ReadLess(s) ==
  /\ sync[s].at = "head" /\ losses < MaxLosses /\ losses' = losses + 1
  /\ \E n \in {0, Len(branch[sync[s].on.repo])}, some \in SUBSET TeiFiles :
       /\ n = 0 \/ forge = "github" => some = {}
       /\ sync' = [sync EXCEPT ![s].at = "commit", ![s].head = n,
                    ![s].seen = Part(HeadFiles(sync[s].on.repo), some)]
  /\ UNCHANGED <<forge, tree, link, branch, commits, edits, disturbed>>

\* The files of the manifest: on GitHub over the tree that was read, elsewhere
\* over the files the branch has.
Pushed(s) == [d \in TeiFiles |->
                IF d \in sync[s].names THEN sync[s].read[d]
                ELSE IF forge = "github" THEN sync[s].seen[d]
                ELSE HeadFiles(sync[s].on.repo)[d]]

\* GitHub: the ref moves only forward from the head that was read.
\* Codeberg: an update names the blob it replaces, a creation must be one.
\* GitLab: an update must find the file, a creation must not.  What the listing
\* did not have is created.
SameHead(s) == Len(branch[sync[s].on.repo]) = sync[s].head
SameBlobs(s) == \A d \in sync[s].names : HeadFiles(sync[s].on.repo)[d] = sync[s].seen[d]
SameNames(s) == \A d \in sync[s].names :
                  (HeadFiles(sync[s].on.repo)[d] = Absent) <=> (sync[s].seen[d] = Absent)

\* Mutant: updates on Codeberg without the blob they replace.
AcceptsByName(s) == IF forge = "github" THEN SameHead(s) ELSE SameNames(s)

Accepts(s) == \/ forge = "github" /\ SameHead(s)
              \/ forge = "codeberg" /\ SameBlobs(s)
              \/ forge = "gitlab" /\ SameNames(s)

\* What remains of the branch under the new commit.
Kept(s) == branch[sync[s].on.repo]

\* One commit, or a conflict.
PushCommit(s) ==
  /\ sync[s].at = "commit"
  /\ IF ~Accepts(s) THEN Over(s) /\ UNCHANGED <<branch, commits>>
     ELSE /\ commits' = commits + 1
          /\ branch' = [branch EXCEPT ![sync[s].on.repo] = Append(Kept(s),
               [sha |-> commits + 1, files |-> Pushed(s)])]
          /\ sync' = [sync EXCEPT ![s].at = "record", ![s].made = commits + 1,
                                  ![s].sha = commits + 1]
  /\ UNCHANGED <<forge, tree, link, forgeCounts, disturbed>>

\* Some Forgejo versions do not say which commit they made, and GitLab need not.
AnswerWithoutSha(s) ==
  /\ forge # "github" /\ sync[s].at = "record"
  /\ sync' = [sync EXCEPT ![s].at = "refetch", ![s].sha = 0]
  /\ UNCHANGED <<forge, tree, link, branch, commits, forgeCounts, disturbed>>

HeadSha(r, n) == IF n = 0 THEN 0 ELSE branch[r][n].sha

\* Mutant: the head the push had read.
HeadBefore(s) == HeadSha(sync[s].on.repo, sync[s].head)

HeadNow(s) == HeadSha(sync[s].on.repo, Len(branch[sync[s].on.repo]))

\* When the forge names no head either, the empty string is recorded.
RefetchHead(s) ==
  /\ sync[s].at = "refetch"
  /\ \E sha \in {HeadNow(s), 0} :
       sync' = [sync EXCEPT ![s].at = "record", ![s].sha = sha]
  /\ UNCHANGED <<forge, tree, link, branch, commits, forgeCounts, disturbed>>

\* The UPDATE is by primary key, of the columns that changed; a link deleted
\* meanwhile fails it.
SameRow(s) == link # NoLink /\ link.id = sync[s].on.id

RecordPush(s) ==
  /\ sync[s].at = "record"
  /\ link' = IF SameRow(s) THEN [link EXCEPT !.pushed = sync[s].sha,
                                             !.made = sync[s].made] ELSE link
  /\ Over(s)
  /\ UNCHANGED <<forge, tree, branch, commits, forgeCounts, disturbed>>

(* Initialize: initialize_collection *)

BeginImport(s) ==
  /\ Comes(s) /\ ~link.initialized
  /\ sync' = [sync EXCEPT ![s].at = "check", ![s].on = link]
  /\ disturbed' = \E t \in Syncs : Importing(t)
  /\ UNCHANGED <<forge, tree, link, branch, commits, forgeCounts>>

CheckEmpty(s) ==
  /\ sync[s].at = "check"
  /\ IF Names(tree) # {} THEN Over(s)
     ELSE sync' = [sync EXCEPT ![s].at = "fetch"]
  /\ UNCHANGED <<forge, tree, link, branch, commits, forgeCounts, disturbed>>

\* Every file is parsed before the first is written.
Importable(l) == Names(l) # {} /\ \A d \in Names(l) : l[d] # Malformed

\* A file that is listed and then not found, or not readable, is skipped, as is
\* what the listing leaves out; a branch not found has none.
FetchBundle(s) ==
  /\ sync[s].at = "fetch"
  /\ \E given \in SUBSET Names(HeadFiles(sync[s].on.repo)) :
       LET bundle == Part(HeadFiles(sync[s].on.repo), given) IN
       IF ~Importable(bundle) THEN Over(s)
       ELSE sync' = [sync EXCEPT ![s].at = "put", ![s].read = bundle,
              ![s].names = given, ![s].sha = HeadNow(s)]
  /\ UNCHANGED <<forge, tree, link, branch, commits, forgeCounts, disturbed>>

\* What the working tree holds under the name by now is not looked at.
PutFile(s) ==
  /\ sync[s].at = "put"
  /\ \E d \in sync[s].names \ sync[s].got :
       /\ tree' = [tree EXCEPT ![d] = sync[s].read[d]]
       /\ sync' = [sync EXCEPT ![s].got = @ \cup {d}, ![s].at =
            IF sync[s].got \cup {d} = sync[s].names THEN "import" ELSE "put"]
  /\ UNCHANGED <<forge, link, branch, commits, forgeCounts, disturbed>>

\* Mutant: the request goes on to the next step.
GoOn(s) == sync' = [sync EXCEPT ![s].at = "import"]

\* A file that eXist-db does not take ends the import where it is.
AbortImport(s) == Over(s)

PutFails(s) ==
  /\ sync[s].at = "put" /\ losses < MaxLosses /\ losses' = losses + 1
  /\ AbortImport(s)
  /\ UNCHANGED <<forge, tree, link, branch, commits, edits, disturbed>>

RecordImport(s) ==
  /\ sync[s].at = "import"
  /\ link' = IF SameRow(s) THEN [link EXCEPT !.initialized = TRUE,
                                             !.from = sync[s].sha,
                                             !.brought = sync[s].names] ELSE link
  /\ Over(s)
  /\ UNCHANGED <<forge, tree, branch, commits, forgeCounts, disturbed>>

\* The process stops, the forge fails, its answer is lost or comes too late.
LoseSync(s) ==
  /\ sync[s].at \notin {"none", "end"}
  /\ losses < MaxLosses /\ losses' = losses + 1
  /\ Over(s)
  /\ UNCHANGED <<forge, tree, link, branch, commits, edits, disturbed>>

ForgeSyncInit ==
  /\ forge \in Forges
  /\ tree \in {EmptyListing, OldListing}
  /\ link \in {NewLink(1, r) : r \in Repos}
  /\ branch \in [Repos -> {<<>>, <<[sha |-> 1, files |-> OldListing]>>}]
  /\ sync = [s \in Syncs |-> NoSync]
  /\ commits = 1 /\ edits = 0 /\ losses = 0 /\ disturbed = FALSE

ForgeSyncNext ==
  \/ UpsertLink \/ DeleteLink \/ EditTree \/ CommitOfOthers
  \/ \E s \in Syncs :
       \/ BeginPush(s) \/ ListTree(s) \/ ReadTree(s)
       \/ ReadHead(s) \/ ReadLess(s)
       \/ PushCommit(s) \/ AnswerWithoutSha(s) \/ RefetchHead(s) \/ RecordPush(s)
       \/ BeginImport(s) \/ CheckEmpty(s) \/ FetchBundle(s) \/ PutFile(s)
       \/ PutFails(s) \/ RecordImport(s) \/ LoseSync(s)

ForgeSyncSpec == ForgeSyncInit /\ [][ForgeSyncNext]_forgeVars

-----------------------------------------------------------------------------
(* Properties *)

\* What the branch had when the push read its head, listed or not.
Seen(s) == FilesAt(sync[s].on.repo, sync[s].head)

\* Nothing pushed takes a commit of anyone off the branch, and on GitHub and
\* Codeberg a push replaces no content that was committed to a file since it
\* read the head, whoever commits between its requests and however little of
\* the branch the forge has listed.  (On GitLab the content committed in between
\* is replaced, and is found in the history.)
PushesOverwriteWhatTheySaw == [][
  \A r \in Repos : branch'[r] # branch[r] =>
    /\ \A i \in DOMAIN branch[r] :
         i \in DOMAIN branch'[r] /\ branch'[r][i] = branch[r][i]
    /\ forge # "gitlab" => \A s \in Syncs :
         sync[s].at = "commit" /\ sync'[s].at # "commit" =>
           \A d \in TeiFiles :
             HeadFiles(r)[d] \notin {Absent, branch'[r][Len(branch'[r])].files[d]}
               => HeadFiles(r)[d] = Seen(s)[d] ]_forgeVars

Position(sha, r) == {i \in DOMAIN branch[r] : branch[r][i].sha = sha}

\* The commit a link records as its last push is on a branch, and has the push
\* that recorded it in its past, even when the forge did not name it and others
\* committed meanwhile; no commit is recorded, after a push that was made, only
\* when the forge named neither it nor the head, which GitHub always does.
RecordedPushIsOnBranch ==
  link # NoLink /\ link.made # 0 =>
    \/ link.pushed = 0 /\ forge # "github"
    \/ \E r \in Repos : \E i \in Position(link.pushed, r), j \in Position(link.made, r) :
         j <= i

\* A collection marked initialized has, of the commit it names, exactly the files
\* the forge gave it, each with its content there, and an import that failed or
\* was killed has not marked it, when nobody else wrote meanwhile.
ImportsAreWhole ==
  link # NoLink /\ link.initialized /\ ~disturbed =>
    \E r \in Repos : \E i \in Position(link.from, r) :
      tree = Part(branch[r][i].files, link.brought)
=============================================================================
