------------------------------ MODULE Editorial ------------------------------
(***************************************************************************)
(* The editorial core: one collection, its row in PostgreSQL, its working  *)
(* tree and its published snapshot in eXist-db, the version history of     *)
(* its documents and their fixity records (services/xmldb.py,              *)
(* services/document_versions.py, services/fixity.py, db/existdb.py).      *)
(*                                                                         *)
(* Every HTTP request is a process of its own.  Its PostgreSQL work is one *)
(* READ COMMITTED transaction that commits when the handler returns and    *)
(* rolls back when anything raises; its eXist-db writes take effect at     *)
(* once and are never undone.  The steps of a request are the stretches of *)
(* its handler between the awaits whose order matters.                     *)
(***************************************************************************)
EXTENDS Versions

CONSTANTS
  Senior,      \* users with the role EditorInChief or Admin
  Admins,
  Requests,    \* request slots: how many requests may be in flight
  Nobody,      \* no request holds the lock
  NoFile,
  Absent,      \* the file is not in the tree
  NoHash,      \* last_published_tree_hash IS NULL
  NoRecord,    \* no fixity row
  Ops,         \* the operations a run exercises
  ManualMax,   \* document_manual_versions_max
  MaxFaults,   \* bound: failures in a behaviour
  Slack        \* bound: version numbers kept free for requests in flight

ASSUME EditorialAssumption ==
  /\ Senior \subseteq Users /\ Admins \subseteq Senior
  /\ Nobody \notin Requests
  /\ NoFile \notin Files
  /\ Absent \notin Body
  /\ NoHash \notin [Files -> Body \cup {Absent}]
  /\ NoRecord \notin [n : VersionNumbers, body : Body]
  /\ ManualMax \in Nat /\ MaxFaults \in Nat /\ Slack \in Nat
  /\ IsFiniteSet(Files)

VARIABLES
  row,         \* the committed row of the table collections
  work,        \* the working tree in eXist-db
  snap,        \* the published snapshot in eXist-db
  versions,    \* the committed rows of document_versions
  fixity,      \* the committed rows of fixity_records
  rowLock,     \* the transaction that has updated the collection row
  docLock,     \* the holder of each document's advisory lock
  pc,          \* where each request is in its handler
  job,         \* what each request was asked and its local variables
  tx,          \* what each request's session has changed and not committed
  faults       \* failures so far

stores == <<row, work, snap, versions, fixity>>
locks == <<rowLock, docLock>>
vars == <<stores, locks, pc, job, tx, faults>>

-----------------------------------------------------------------------------
Statuses == {"draft", "assigned", "review", "published"}
Tree == [Files -> Body \cup {Absent}]
EmptyTree == [f \in Files |-> Absent]
Docs(tree) == {f \in Files : tree[f] # Absent}

\* The fingerprint of a tree is injective: the tree stands for its hash.
TreeHash(tree) == tree

\* Timestamps are consulted only as set or not set.
Row == [status : Statuses, editor : Users \cup {NoUser}, assigned : BOOLEAN,
        submitted : BOOLEAN, published : BOOLEAN, hash : Tree \cup {NoHash},
        docCount : Nat]
Columns == {"status", "editor", "assigned", "submitted", "published", "hash",
            "docCount"}
NewRow == [status |-> "draft", editor |-> NoUser, assigned |-> FALSE,
           submitted |-> FALSE, published |-> FALSE, hash |-> NoHash,
           docCount |-> 0]

FixityRow == [n : VersionNumbers, body : Body]
FixityOf(v) == [n |-> v.n, body |-> v.body]
NoFixity == [f \in Files |-> NoRecord]

OpNames == {"upload", "update", "delete", "zones", "zip", "manual",
            "rollback", "delete_version", "assign", "submit", "reject",
            "publish", "direct_publish", "unpublish"}
OriginOf == [upload |-> "creation", manual |-> "manual",
             rollback |-> "rollback", submit |-> "submission",
             reject |-> "rejection", publish |-> "publication",
             direct_publish |-> "publication"]
Publishing == {"publish", "direct_publish"}
SkipDedup == {"manual", "rollback"}

PCs == {"idle", "lock", "put", "member", "count", "hash", "copy", "flush",
        "scan", "version", "number", "insert", "commit"}

Job == [op : OpNames \cup {"none"}, by : Users \cup {NoUser},
        file : Files \cup {NoFile}, body : Body \cup {Absent},
        num : 0..MaxVersion, todo : SUBSET Files]
NoJob == [op |-> "none", by |-> NoUser, file |-> NoFile, body |-> Absent,
          num |-> 0, todo |-> {}]
Request(o, u) == [NoJob EXCEPT !.op = o, !.by = u]

\* col is the ORM instance the handler loaded and mutates, dirty the columns
\* its UPDATE will write, the rest the rows it has added and deleted.
Tx == [col : Row, dirty : SUBSET Columns, staged : SUBSET Version,
       dropped : SUBSET Version, fixity : [Files -> FixityRow \cup {NoRecord}]]
Session(col, dirty) == [col |-> col, dirty |-> dirty, staged |-> {},
                        dropped |-> {}, fixity |-> NoFixity]
NoTx == Session(NewRow, {})

TypeOK ==
  /\ row \in Row
  /\ work \in Tree
  /\ snap \in Tree
  /\ versions \in SUBSET Version
  /\ fixity \in [Files -> FixityRow \cup {NoRecord}]
  /\ rowLock \in Requests \cup {Nobody}
  /\ docLock \in [Files -> Requests \cup {Nobody}]
  /\ pc \in [Requests -> PCs]
  /\ job \in [Requests -> Job]
  /\ tx \in [Requests -> Tx]
  /\ faults \in 0..MaxFaults

-----------------------------------------------------------------------------
(* Who may do what *)

\* Mutant: the assigned editor may write in every state.
CanWriteInReview(u) == u \in Senior \/ row.editor = u

\* _assert_write_access
CanWrite(u) ==
  \/ u \in Senior
  \/ row.editor = u /\ row.status \in {"assigned", "published"}

\* Bound: a request that may write version rows starts only while the numbers
\* in use leave one for it and one for each other request in flight.
Room == \A q \in Requests :
  /\ job[q].num + Slack <= MaxVersion
  /\ \A v \in versions \cup tx[q].staged : v.n + Slack <= MaxVersion

\* get_async_session opens the transaction; _get_or_404 loads the row.
Open(r, j, session, at) ==
  /\ pc[r] = "idle"
  /\ j.op \in Ops
  /\ pc' = [pc EXCEPT ![r] = at]
  /\ job' = [job EXCEPT ![r] = j]
  /\ tx' = [tx EXCEPT ![r] = session]
  /\ UNCHANGED <<stores, locks, faults>>

\* Mutant: the transaction ends and keeps its lock on the collection row.
CloseKeepingRow(r) ==
  /\ pc' = [pc EXCEPT ![r] = "idle"]
  /\ job' = [job EXCEPT ![r] = NoJob]
  /\ tx' = [tx EXCEPT ![r] = NoTx]
  /\ docLock' = [f \in Files |-> IF docLock[f] = r THEN Nobody ELSE docLock[f]]
  /\ UNCHANGED rowLock

\* COMMIT or ROLLBACK: the session ends and its locks are released.
Close(r) ==
  /\ pc' = [pc EXCEPT ![r] = "idle"]
  /\ job' = [job EXCEPT ![r] = NoJob]
  /\ tx' = [tx EXCEPT ![r] = NoTx]
  /\ rowLock' = IF rowLock = r THEN Nobody ELSE rowLock
  /\ docLock' = [f \in Files |-> IF docLock[f] = r THEN Nobody ELSE docLock[f]]

Goto(r, at) == pc' = [pc EXCEPT ![r] = at]

\* Mutant: the pass returns after its first document.
StopAfterDoc(r) == "commit"

\* The next stop of a handler that versions a list of documents.
AfterDoc(r) == IF job[r].todo = {} THEN "commit" ELSE "scan"

-----------------------------------------------------------------------------
(* Requests on one document.  The row is read, and the access decided,      *)
(* before the advisory lock is tried.                                       *)

BeginUpload(r) == \E u \in Users, f \in Files, b \in Body :
  /\ CanWrite(u) /\ Room
  /\ Open(r, [Request("upload", u) EXCEPT !.file = f, !.body = b],
          Session(row, {}), "lock")

\* The handler lists the tree before it tries the lock.
BeginUpdate(r) == \E u \in Users, f \in Docs(work), b \in Body :
  /\ CanWrite(u)
  /\ Open(r, [Request("update", u) EXCEPT !.file = f, !.body = b],
          Session(row, {}), "lock")

BeginDelete(r) == \E u \in Users, f \in Files :
  /\ CanWrite(u)
  /\ Open(r, [Request("delete", u) EXCEPT !.file = f], Session(row, {}), "lock")

BeginManualSave(r) == \E u \in Users, f \in Files :
  /\ CanWrite(u) /\ Room
  /\ Open(r, [Request("manual", u) EXCEPT !.file = f], Session(row, {}), "lock")

BeginRollback(r) == \E u \in Users, f \in Files, n \in VersionNumbers :
  /\ CanWrite(u) /\ Room
  /\ Open(r, [Request("rollback", u) EXCEPT !.file = f, !.num = n],
          Session(row, {}), "lock")

\* Reads the document, replaces its zones and keeps its text; no lock.
BeginZones(r) == \E u \in Users, f \in Docs(work), z \in Zonings :
  /\ CanWrite(u)
  /\ Open(r, [Request("zones", u) EXCEPT !.file = f,
                                         !.body = <<work[f][1], z>>],
          Session(row, {}), "put")

\* An archive of members that all carry the same body; no lock, no versions.
BeginZip(r) == \E u \in Users, members \in (SUBSET Files) \ {{}}, b \in Body :
  /\ CanWrite(u)
  /\ Open(r, [Request("zip", u) EXCEPT !.todo = members, !.body = b],
          Session(row, {}), "member")

\* No access check on the collection: the author of the row, or an Admin.
BeginDeleteVersion(r) == \E u \in Users, v \in versions :
  /\ v.by = u \/ u \in Admins
  /\ IsDeletable(v)
  /\ Open(r, [Request("delete_version", u) EXCEPT !.file = v.file],
          [Session(row, {}) EXCEPT !.dropped = {v}], "commit")

-----------------------------------------------------------------------------
(* Under the advisory lock *)

LockFree(r) == pc[r] = "lock" /\ docLock[job[r].file] = Nobody

\* Mutant: the lock of a backend without advisory locks.
NoLock(r) == UNCHANGED docLock

Lock(r) == docLock' = [docLock EXCEPT ![job[r].file] = r]

\* pg_try_advisory_xact_lock returned false: 409 DOCUMENT_BUSY.
Busy(r) ==
  /\ pc[r] = "lock" /\ docLock[job[r].file] # Nobody
  /\ Close(r)
  /\ UNCHANGED <<stores, faults>>

\* Mutant: the listing is taken to hold one entry more than the documents.
DocCountLessOne(tree) == Cardinality(Docs(tree)) - 1

\* _sync_doc_count: the list, and the assignment the flush will write.
DocCount(tree) == Cardinality(Docs(tree))
Counted(session, tree) ==
  IF DocCount(tree) = session.col.docCount THEN session
  ELSE [session EXCEPT !.col.docCount = DocCount(tree),
                       !.dirty = @ \cup {"docCount"}]

\* todo keeps the file when it is new: its creation row is still to write.
PutUpload(r) ==
  LET f == job[r].file
      tree == [work EXCEPT ![f] = job[r].body]
  IN  /\ LockFree(r) /\ job[r].op = "upload"
      /\ Lock(r)
      /\ work' = tree
      /\ job' = [job EXCEPT ![r].todo = {f} \ Docs(work)]
      /\ tx' = [tx EXCEPT ![r] = Counted(@, tree)]
      /\ Goto(r, "count")
      /\ UNCHANGED <<row, snap, versions, fixity, rowLock, faults>>

PutUpdate(r) ==
  /\ LockFree(r) /\ job[r].op = "update"
  /\ Lock(r)
  /\ work' = [work EXCEPT ![job[r].file] = job[r].body]
  /\ Goto(r, "commit")
  /\ UNCHANGED <<row, snap, versions, fixity, rowLock, job, tx, faults>>

Delete(r) ==
  LET f == job[r].file
      tree == [work EXCEPT ![f] = Absent]
  IN  /\ LockFree(r) /\ job[r].op = "delete"
      /\ f \in Docs(work)
      /\ Lock(r)
      /\ work' = tree
      /\ tx' = [tx EXCEPT ![r] = Counted(@, tree)]
      /\ Goto(r, "count")
      /\ UNCHANGED <<row, snap, versions, fixity, rowLock, job, faults>>

ReadHead(r) ==
  LET f == job[r].file
  IN  /\ LockFree(r) /\ job[r].op = "manual"
      /\ f \in Docs(work)
      /\ Lock(r)
      /\ job' = [job EXCEPT ![r].body = work[f]]
      /\ Goto(r, "version")
      /\ UNCHANGED <<stores, rowLock, tx, faults>>

ReadTarget(r) ==
  /\ LockFree(r) /\ job[r].op = "rollback"
  /\ \E v \in Of(versions, job[r].file) :
       /\ v.n = job[r].num
       /\ job' = [job EXCEPT ![r].body = v.body]
  /\ Lock(r)
  /\ Goto(r, "put")
  /\ UNCHANGED <<stores, rowLock, tx, faults>>

\* Nothing to delete, to save or to go back to: the request fails.
NotThere(r) ==
  /\ LockFree(r)
  /\ \/ job[r].op \in {"delete", "manual"} /\ job[r].file \notin Docs(work)
     \/ /\ job[r].op = "rollback"
        /\ \A v \in Of(versions, job[r].file) : v.n # job[r].num
  /\ Close(r)
  /\ UNCHANGED <<stores, faults>>

\* put_document of a rollback, which then appends its row, or of the zones.
Put(r) ==
  /\ pc[r] = "put"
  /\ work' = [work EXCEPT ![job[r].file] = job[r].body]
  /\ Goto(r, IF job[r].op = "rollback" THEN "version" ELSE "commit")
  /\ UNCHANGED <<row, snap, versions, fixity, locks, job, tx, faults>>

PutMember(r) == \E f \in job[r].todo :
  /\ pc[r] = "member"
  /\ work' = [work EXCEPT ![f] = job[r].body]
  /\ job' = [job EXCEPT ![r].todo = @ \ {f}]
  /\ UNCHANGED <<row, snap, versions, fixity, locks, pc, tx, faults>>

CountMembers(r) ==
  /\ pc[r] = "member" /\ job[r].todo = {}
  /\ tx' = [tx EXCEPT ![r] = Counted(@, work)]
  /\ Goto(r, "count")
  /\ UNCHANGED <<stores, locks, job, faults>>

\* ZIP_TOO_MANY_FILES or ZIP_EXTRACTED_TOO_LARGE, met on the way.
RefuseZip(r) ==
  /\ pc[r] = "member" /\ job[r].todo # {}
  /\ Close(r)
  /\ UNCHANGED <<stores, faults>>

\* The flush of doc_count: an UPDATE only when the count changed.
FlushCount(r) ==
  /\ pc[r] = "count"
  /\ \/ tx[r].dirty = {} /\ UNCHANGED rowLock
     \/ tx[r].dirty # {} /\ rowLock = Nobody /\ rowLock' = r
  /\ Goto(r, IF job[r].todo = {} THEN "commit" ELSE "version")
  /\ job' = [job EXCEPT ![r].todo = {}]
  /\ UNCHANGED <<stores, docLock, tx, faults>>

-----------------------------------------------------------------------------
(* Workflow transitions: checked on the row as it was read *)

BeginAssign(r) == \E u \in Senior, e \in Users :
  /\ row.status \in {"draft", "assigned"}
  /\ LET col == [row EXCEPT !.editor = e, !.status = "assigned",
                            !.assigned = TRUE]
         changed == {c \in {"editor", "status"} : col[c] # row[c]}
     IN  Open(r, Request("assign", u),
              Session(col, changed \cup {"assigned"}), "commit")

BeginSubmit(r) == \E u \in Users :
  /\ row.status = "assigned" /\ row.editor = u /\ Room
  /\ Open(r, Request("submit", u),
          Session([row EXCEPT !.status = "review", !.submitted = TRUE],
                  {"status", "submitted"}), "flush")

BeginReject(r) == \E u \in Senior :
  /\ row.status = "review" /\ Room
  /\ Open(r, Request("reject", u),
          Session([row EXCEPT !.status = "assigned", !.submitted = FALSE],
                  {"status", "submitted"}), "flush")

Published(col) == [col EXCEPT !.status = "published", !.published = TRUE]

BeginPublish(r) == \E u \in Senior :
  /\ row.status = "review" /\ Room
  /\ Open(r, Request("publish", u),
          Session(Published(row), {"status", "published"}), "hash")

BeginDirectPublish(r) == \E u \in Senior :
  /\ row.status # "published" /\ Room
  /\ Open(r, Request("direct_publish", u),
          Session(Published(row), {"status", "published"}), "hash")

\* Mutant: published_at survives the unpublication.
UnpublishedStamped(col) == [col EXCEPT !.status = "draft"]

Unpublished(col) == [col EXCEPT !.status = "draft", !.published = FALSE]

BeginUnpublish(r) == \E u \in Admins :
  /\ row.status = "published"
  /\ Open(r, Request("unpublish", u),
          Session(Unpublished(row), {"status", "published"}), "commit")

\* Mutant: last_published_tree_hash is written only by the first publication.
HashedOnce(session, hash) ==
  IF session.col.hash # NoHash THEN session
  ELSE [session EXCEPT !.col.hash = hash, !.dirty = @ \cup {"hash"}]

\* last_published_tree_hash = hash
Hashed(session, hash) ==
  [session EXCEPT !.col.hash = hash, !.dirty = @ \cup {"hash"}]

\* _compute_collection_tree_hash, and content_changed.
HashTree(r) ==
  /\ pc[r] = "hash"
  /\ \/ /\ TreeHash(work) = tx[r].col.hash
        /\ Goto(r, "flush")
        /\ UNCHANGED tx
     \/ /\ TreeHash(work) # tx[r].col.hash
        /\ Goto(r, "copy")
        /\ tx' = [tx EXCEPT ![r] = Hashed(@, TreeHash(work))]
  /\ UNCHANGED <<stores, locks, job, faults>>

\* copy_to_published.xq: remove the destination, copy the working tree.
Copy(r) ==
  /\ pc[r] = "copy"
  /\ snap' = work
  /\ Goto(r, "flush")
  /\ UNCHANGED <<row, work, versions, fixity, locks, job, tx, faults>>

\* The UPDATE of the collection row, which waits for any other transaction
\* that has updated it, and the list of the documents to version.
FlushRow(r) ==
  /\ pc[r] = "flush" /\ rowLock = Nobody
  /\ rowLock' = r
  /\ job' = [job EXCEPT ![r].todo = Docs(work)]
  /\ Goto(r, IF Docs(work) = {} THEN "commit" ELSE "scan")
  /\ UNCHANGED <<stores, docLock, tx, faults>>

-----------------------------------------------------------------------------
(* Version rows: _snapshot_collection_documents and create_version *)

NextFile(r, f) == f \in job[r].todo /\ \A g \in job[r].todo : f <= g

FetchDoc(r) == \E f \in Files :
  /\ pc[r] = "scan" /\ NextFile(r, f) /\ work[f] # Absent
  /\ job' = [job EXCEPT ![r].file = f, ![r].body = work[f],
                        ![r].todo = @ \ {f}]
  /\ Goto(r, "version")
  /\ UNCHANGED <<stores, locks, tx, faults>>

\* A document that cannot be fetched is skipped: it was deleted since the
\* list, or eXist-db failed (a fault).
SkipDoc(r) == \E f \in Files :
  /\ pc[r] = "scan" /\ NextFile(r, f)
  /\ \/ work[f] = Absent /\ UNCHANGED faults
     \/ work[f] # Absent /\ faults < MaxFaults /\ faults' = faults + 1
  /\ job' = [job EXCEPT ![r].todo = @ \ {f}]
  /\ Goto(r, IF job[r].todo = {f} THEN "commit" ELSE "scan")
  /\ UNCHANGED <<stores, locks, tx>>

\* What the transaction's queries see: committed rows and its own.
Seen(r) == versions \cup tx[r].staged

\* record_publication of row v.
WithFixity(session, v) == [session EXCEPT !.fixity[v.file] = FixityOf(v)]

\* create_version returned None.  A publication then refreshes the fixity row
\* from the last publication row, when there is one.
SkipUnchanged(r) ==
  LET f == job[r].file
  IN  /\ pc[r] = "version" /\ job[r].op \notin SkipDedup
      /\ SameAsLatest(Seen(r), f, job[r].body)
      /\ \/ /\ job[r].op \in Publishing
            /\ \E v \in Publications(Seen(r), f) :
                 /\ IsLastPublication(v, Seen(r))
                 /\ tx' = [tx EXCEPT ![r] = WithFixity(@, v)]
         \/ /\ job[r].op \notin Publishing \/ Publications(Seen(r), f) = {}
            /\ UNCHANGED tx
      /\ Goto(r, AfterDoc(r))
      /\ UNCHANGED <<stores, locks, job, faults>>

\* ManualVersionsLimitReached: 409.
RefuseManual(r) ==
  /\ pc[r] = "version" /\ job[r].op = "manual"
  /\ ManualCount(Seen(r), job[r].file) >= ManualMax
  /\ Close(r)
  /\ UNCHANGED <<stores, faults>>

\* The row is to be written; MAX is read by a statement of its own.
Decide(r) ==
  /\ pc[r] = "version"
  /\ job[r].op \notin SkipDedup
       => ~SameAsLatest(Seen(r), job[r].file, job[r].body)
  /\ job[r].op = "manual"
       => ManualCount(Seen(r), job[r].file) < ManualMax
  /\ Goto(r, "number")
  /\ UNCHANGED <<stores, locks, job, tx, faults>>

\* _next_version_number
TakeNumber(r) == \E n \in VersionNumbers :
  /\ pc[r] = "number"
  /\ IsNextNumber(n, Seen(r), job[r].file)
  /\ job' = [job EXCEPT ![r].num = n]
  /\ Goto(r, "insert")
  /\ UNCHANGED <<stores, locks, tx, faults>>

NewVersion(r) ==
  [file |-> job[r].file, n |-> job[r].num, body |-> job[r].body,
   origin |-> OriginOf[job[r].op],
   by |-> IF job[r].op = "manual" THEN job[r].by ELSE NoUser]

\* Mutant: the table has no unique constraint.
KeyNeverTaken(r) == FALSE

KeyTaken(r) == \E w \in Seen(r) : SameKey(w, NewVersion(r))

\* The INSERT waits for a transaction that has written the same key.
MustWait(r) == \E q \in Requests \ {r} :
  \E v \in tx[q].staged \cup tx[q].dropped : SameKey(v, NewVersion(r))

Insert(r) ==
  LET v == NewVersion(r)
      kept == [tx[r] EXCEPT !.staged = @ \cup {v}]
  IN  /\ pc[r] = "insert" /\ ~MustWait(r)
      /\ ~KeyTaken(r)
      /\ tx' = [tx EXCEPT ![r] = IF v.origin = "publication"
                                   THEN WithFixity(kept, v) ELSE kept]
      /\ Goto(r, AfterDoc(r))
      /\ UNCHANGED <<stores, locks, job, faults>>

\* The unique constraint fails: the request fails and rolls back.
Collide(r) ==
  /\ pc[r] = "insert" /\ ~MustWait(r)
  /\ KeyTaken(r)
  /\ Close(r)
  /\ UNCHANGED <<stores, faults>>

-----------------------------------------------------------------------------
(* The end of a request *)

Pick(old, new, dirty, c) == IF c \in dirty THEN new[c] ELSE old[c]
Overlay(old, new, dirty) ==
  [status |-> Pick(old, new, dirty, "status"),
   editor |-> Pick(old, new, dirty, "editor"),
   assigned |-> Pick(old, new, dirty, "assigned"),
   submitted |-> Pick(old, new, dirty, "submitted"),
   published |-> Pick(old, new, dirty, "published"),
   hash |-> Pick(old, new, dirty, "hash"),
   docCount |-> Pick(old, new, dirty, "docCount")]

Commit(r) ==
  /\ pc[r] = "commit"
  /\ tx[r].dirty = {} \/ rowLock \in {Nobody, r}
  /\ row' = Overlay(row, tx[r].col, tx[r].dirty)
  /\ versions' = (versions \ tx[r].dropped) \cup tx[r].staged
  /\ fixity' = [f \in Files |-> IF tx[r].fixity[f] = NoRecord
                                  THEN fixity[f] ELSE tx[r].fixity[f]]
  /\ Close(r)
  /\ UNCHANGED <<work, snap, faults>>

\* Mutant: create_version commits its row by itself.
FailKeepingRows(r) ==
  /\ pc[r] # "idle" /\ faults < MaxFaults
  /\ faults' = faults + 1
  /\ versions' = versions \cup tx[r].staged
  /\ Close(r)
  /\ UNCHANGED <<row, work, snap, fixity>>

\* eXist-db, PostgreSQL or the process fails: the transaction rolls back and
\* the eXist-db writes stay.
Fail(r) ==
  /\ pc[r] # "idle" /\ faults < MaxFaults
  /\ faults' = faults + 1
  /\ Close(r)
  /\ UNCHANGED stores

\* The XQuery fails after it has removed the old snapshot.
CopyFails(r) ==
  /\ pc[r] = "copy" /\ faults < MaxFaults
  /\ faults' = faults + 1
  /\ snap' = EmptyTree
  /\ Close(r)
  /\ UNCHANGED <<row, work, versions, fixity>>

-----------------------------------------------------------------------------
\* A collection just created, with no document.
Init ==
  /\ row = NewRow
  /\ work = EmptyTree
  /\ snap = EmptyTree
  /\ versions = {}
  /\ fixity = NoFixity
  /\ rowLock = Nobody
  /\ docLock = [f \in Files |-> Nobody]
  /\ pc = [r \in Requests |-> "idle"]
  /\ job = [r \in Requests |-> NoJob]
  /\ tx = [r \in Requests |-> NoTx]
  /\ faults = 0

Begin(r) ==
  \/ BeginUpload(r) \/ BeginUpdate(r) \/ BeginDelete(r) \/ BeginZones(r)
  \/ BeginZip(r) \/ BeginManualSave(r) \/ BeginRollback(r)
  \/ BeginDeleteVersion(r) \/ BeginAssign(r) \/ BeginSubmit(r)
  \/ BeginReject(r) \/ BeginPublish(r) \/ BeginDirectPublish(r)
  \/ BeginUnpublish(r)

WriteDoc(r) ==
  \/ Busy(r) \/ NotThere(r) \/ PutUpload(r) \/ PutUpdate(r) \/ Delete(r)
  \/ ReadHead(r) \/ ReadTarget(r) \/ Put(r) \/ PutMember(r)
  \/ CountMembers(r) \/ RefuseZip(r) \/ FlushCount(r)

Publish(r) == HashTree(r) \/ Copy(r) \/ FlushRow(r)

WriteVersion(r) ==
  \/ FetchDoc(r) \/ SkipDoc(r) \/ SkipUnchanged(r) \/ RefuseManual(r)
  \/ Decide(r) \/ TakeNumber(r) \/ Insert(r) \/ Collide(r)

Step(r) == WriteDoc(r) \/ Publish(r) \/ WriteVersion(r) \/ Commit(r)

Next == \E r \in Requests : Begin(r) \/ Step(r) \/ Fail(r) \/ CopyFails(r)

Spec == Init /\ [][Next]_vars

\* The event loop resumes every handler, and PostgreSQL serves the waiters of
\* a row lock in order.
FairSpec == Spec /\ \A r \in Requests : SF_vars(Step(r))
-----------------------------------------------------------------------------
(* Properties of one request at a time *)

Quiet == \A r \in Requests : pc[r] = "idle"

\* Handler r returns and its transaction commits.
Commits(r) == pc[r] = "commit" /\ pc'[r] = "idle" /\ faults' = faults

\* The stamps a transition writes (assigned_at, submitted_at, published_at)
\* never disagree with the status, whatever the order of the transitions: a
\* reader that tests one column instead of the other sees the same collection.
StampsAgree ==
  /\ row.published <=> row.status = "published"
  /\ row.status = "review" => row.submitted
  /\ row.status \in {"assigned", "review"} => row.assigned
  /\ row.assigned <=> row.editor # NoUser

\* Outside a publication, last_published_tree_hash is the fingerprint of what
\* the public reads, so the short-circuit of the next publication skips the
\* copy only when the snapshot is already right, and the "unpublished changes"
\* badge is honest.
SnapshotMatchesHash ==
  Quiet => \/ row.hash = NoHash /\ snap = EmptyTree
           \/ row.hash = TreeHash(snap)

\* While a collection is under review only a Senior's request changes its
\* working tree: the reviewer reads what was submitted.
ReviewFreeze ==
  [][row.status = "review" /\ work' # work
       => \E r \in Requests : job[r].by \in Senior]_vars

\* When a publication commits, the head of every document's history is the
\* body the public now reads, although rows are written only on a change.
PublishedIsOnRecord ==
  [][\A r \in Requests : Commits(r) /\ job[r].op \in Publishing =>
       \A f \in Docs(snap) : \E v \in Of(versions', f) :
         IsLatest(v, versions') /\ v.body = snap[f]]_vars

-----------------------------------------------------------------------------
(* Properties of concurrent requests *)

\* A document never has more manual versions than the cap, although the count
\* and the insert are two statements: the advisory lock keeps two saves of one
\* document apart, and a deletion only makes room.
ManualCapRespected == \A f \in Files : ManualCount(versions, f) <= ManualMax

\* Rows of the editorial record (every origin but manual) are never removed
\* or rewritten, whatever the requests in flight.
AutoRowsAppendOnly ==
  [][\A v \in versions : v \in versions' \/ v.origin = "manual"]_vars

\* A document has a fixity row exactly when it has a publication row, and the
\* fixity row is that of the last one, whatever the passes in flight: it is
\* never refreshed from a publication another pass has superseded.
FixityTracksLatestPublication == \A f \in Files :
  IF Publications(versions, f) = {}
    THEN fixity[f] = NoRecord
    ELSE \E v \in Publications(versions, f) :
           IsLastPublication(v, versions) /\ fixity[f] = FixityOf(v)

\* The committed rows are a version history: a transaction's rows appear whole,
\* under keys of their own, and only manual rows are discarded.
History == INSTANCE VersionHistory WITH rows <- versions, certified <- fixity
ImplementsVersionHistory == History!Spec

\* Every request ends: no two of them wait for each other, and none waits for
\* ever behind the collection row, a document or a version key.
RequestsTerminate == \A r \in Requests : pc[r] # "idle" ~> pc[r] = "idle"

-----------------------------------------------------------------------------
(* What the documents say and the code does not do *)

\* "the last `publication`-origin snapshot per document" is what the public
\* sees (docs/reference/DOCUMENT_VERSIONING.md:18).
PublicSeesLastPublication ==
  Quiet /\ row.status = "published" =>
    \A f \in Docs(snap) : \E v \in Publications(versions, f) :
      IsLastPublication(v, versions) /\ v.body = snap[f]

\* "published --unpublish--> draft (Admin only)" is the one way out of published
\* (docs/reference/COLLECTIONS.md:186).
OnlyUnpublishLeavesPublished ==
  [][row.status = "published" /\ row'.status # "published"
       => \E r \in Requests : Commits(r) /\ job[r].op = "unpublish"]_vars
=============================================================================
