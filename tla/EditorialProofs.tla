--------------------------- MODULE EditorialProofs ---------------------------
(***************************************************************************)
(* Theorems about Editorial.                                               *)
(*                                                                         *)
(* TypeOK is not inductive: a handler builds its version row from the file *)
(* and the body it has noted, and only its place in the handler says that  *)
(* it has noted them.  JobsFit is that knowledge, one line per place.      *)
(*                                                                         *)
(* The second half is about one request at a time: a session carries the   *)
(* columns of the row (AloneInv), the row's fingerprint is that of the     *)
(* snapshot unless a publication is between its copy and its commit        *)
(* (SnapKnown), and a pass knows which documents have their version        *)
(* (PassKnown).                                                            *)
(***************************************************************************)
EXTENDS Editorial, FiniteSetTheorems, TLAPS

Passes == {"submit", "reject", "publish", "direct_publish"}
Versioning == Passes \cup {"upload", "manual", "rollback"}
Locked == {"upload", "update", "delete", "manual", "rollback"}

\* What a request has noted when it is at a given place of its handler.
Fits(j, at) ==
  /\ at \in {"lock", "put", "version", "number", "insert"} => j.file \in Files
  /\ at \in {"put", "member", "version", "number", "insert"} => j.body \in Body
  /\ at = "lock" => j.op \in Locked /\ j.todo = {}
  /\ at = "lock" /\ j.op \in {"upload", "update"} => j.body \in Body
  /\ at = "put" => j.op \in {"zones", "rollback"} /\ j.todo = {}
  /\ at = "count" /\ j.todo # {} =>
       j.op = "upload" /\ j.file \in Files /\ j.body \in Body
  /\ at \in {"hash", "copy"} => j.op \in Publishing
  /\ at \in {"flush", "scan"} => j.op \in Passes
  /\ at \in {"version", "number", "insert"} =>
       j.op \in Versioning /\ (j.op \notin Passes => j.todo = {})
  /\ at = "insert" => j.num \in VersionNumbers

JobsFit == \A r \in Requests : Fits(job[r], pc[r])
Inv == TypeOK /\ JobsFit

-----------------------------------------------------------------------------
(* What the records are made of *)

LEMMA NewRowType == NewRow \in Row
BY DEF NewRow, Row, Statuses

LEMMA NoTxType == NoTx \in Tx
BY NewRowType DEF NoTx, Session, Tx, NoFixity

LEMMA SessionType ==
  ASSUME NEW col \in Row, NEW dirty \in SUBSET Columns
  PROVE  Session(col, dirty) \in Tx
BY DEF Session, Tx, NoFixity

LEMMA NoJobType == NoJob \in Job
BY VersionsAssumption DEF NoJob, Job

\* The job of a request just received, with what the client sent.
LEMMA RequestType ==
  ASSUME NEW o \in OpNames, NEW u \in Users
  PROVE  /\ Request(o, u) \in Job
         /\ Request(o, u).op = o /\ Request(o, u).by = u
         /\ Request(o, u).todo = {}
BY NoJobType DEF Request, NoJob, Job

LEMMA DocCountType == ASSUME NEW tree \in Tree PROVE DocCount(tree) \in Nat
<1>1. Docs(tree) \subseteq Files
  BY DEF Docs
<1>. QED
  BY <1>1, EditorialAssumption, FS_Subset, FS_CardinalityType DEF DocCount

LEMMA CountedType ==
  ASSUME NEW session \in Tx, NEW tree \in Tree
  PROVE  Counted(session, tree) \in Tx
<1>1. session.col \in Row
  BY DEF Tx
<1>2. [session.col EXCEPT !.docCount = DocCount(tree)] \in Row
  BY <1>1, DocCountType DEF Row
<1>3. "docCount" \in Columns
  BY DEF Columns
<1>. QED
  BY <1>2, <1>3 DEF Counted, Tx

LEMMA HashedType ==
  ASSUME NEW session \in Tx, NEW hash \in Tree
  PROVE  Hashed(session, hash) \in Tx
<1>1. session.col \in Row
  BY DEF Tx
<1>2. [session.col EXCEPT !.hash = hash] \in Row
  BY <1>1 DEF Row
<1>3. "hash" \in Columns
  BY DEF Columns
<1>. QED
  BY <1>2, <1>3 DEF Hashed, Tx

LEMMA FixityOfType == ASSUME NEW v \in Version PROVE FixityOf(v) \in FixityRow
BY DEF FixityOf, FixityRow, Version

LEMMA WithFixityType ==
  ASSUME NEW session \in Tx, NEW v \in Version
  PROVE  WithFixity(session, v) \in Tx
<1>1. session.fixity \in [Files -> FixityRow \cup {NoRecord}] /\ v.file \in Files
  BY DEF Tx, Version
<1>2. [session.fixity EXCEPT ![v.file] = FixityOf(v)]
        \in [Files -> FixityRow \cup {NoRecord}]
  BY <1>1, FixityOfType
<1>. QED
  BY <1>2 DEF WithFixity, Tx

LEMMA OverlayType ==
  ASSUME NEW old \in Row, NEW new \in Row, NEW dirty \in SUBSET Columns
  PROVE  Overlay(old, new, dirty) \in Row
BY DEF Overlay, Pick, Row

-----------------------------------------------------------------------------
(* Invariance of Inv *)

LEMMA InitInv == Init => Inv
<1> SUFFICES ASSUME Init PROVE Inv
  OBVIOUS
<1>1. TypeOK
  BY NewRowType, NoTxType, NoJobType, EditorialAssumption
  DEF Init, TypeOK, Tree, EmptyTree, NoFixity, PCs
<1>2. JobsFit
  BY DEF Init, JobsFit, Fits
<1>. QED
  BY <1>1, <1>2 DEF Inv

\* A request that is opened with a well-formed job and session.
LEMMA OpenInv ==
  ASSUME Inv, NEW r \in Requests, NEW j \in Job, NEW session \in Tx,
         NEW at \in PCs, Open(r, j, session, at), Fits(j, at)
  PROVE  Inv'
BY DEF Inv, TypeOK, JobsFit, Open, stores, locks

\* A session that ends leaves its variables typed and notes nothing.
LEMMA CloseInv ==
  ASSUME Inv, NEW r \in Requests, Close(r)
  PROVE  /\ pc' \in [Requests -> PCs]
         /\ job' \in [Requests -> Job]
         /\ tx' \in [Requests -> Tx]
         /\ rowLock' \in Requests \cup {Nobody}
         /\ docLock' \in [Files -> Requests \cup {Nobody}]
         /\ JobsFit'
<1>1. pc' \in [Requests -> PCs] /\ job' \in [Requests -> Job]
        /\ tx' \in [Requests -> Tx]
  BY NoJobType, NoTxType DEF Close, Inv, TypeOK, PCs
<1>2. rowLock' \in Requests \cup {Nobody}
        /\ docLock' \in [Files -> Requests \cup {Nobody}]
  BY DEF Close, Inv, TypeOK
<1>3. JobsFit'
  BY DEF Close, Inv, TypeOK, JobsFit, Fits
<1>. QED
  BY <1>1, <1>2, <1>3

\* A request that moves on with a job that fits the place.
LEMMA MoveFits ==
  ASSUME Inv, NEW r \in Requests, NEW j \in Job, NEW at \in PCs,
         job' = [job EXCEPT ![r] = j], Goto(r, at), Fits(j, at)
  PROVE  /\ job' \in [Requests -> Job]
         /\ pc' \in [Requests -> PCs]
         /\ JobsFit'
BY DEF Inv, TypeOK, JobsFit, Goto

\* A request that moves on and keeps its job.
LEMMA GotoFits ==
  ASSUME Inv, NEW r \in Requests, NEW at \in PCs, UNCHANGED job, Goto(r, at),
         Fits(job[r], at)
  PROVE  pc' \in [Requests -> PCs] /\ JobsFit'
BY DEF Inv, TypeOK, JobsFit, Goto

-----------------------------------------------------------------------------
(* Requests that begin *)

LEMMA RowNow == ASSUME Inv PROVE row \in Row /\ Session(row, {}) \in Tx
BY SessionType DEF Inv, TypeOK

LEMMA NotedType ==
  ASSUME NEW j \in Job, NEW f \in Files
  PROVE  /\ \A b \in Body : [j EXCEPT !.file = f, !.body = b] \in Job
         /\ \A n \in 0..MaxVersion : [j EXCEPT !.file = f, !.num = n] \in Job
BY DEF Job

LEMMA ArchiveType ==
  ASSUME NEW j \in Job, NEW members \in SUBSET Files, NEW b \in Body
  PROVE  [j EXCEPT !.todo = members, !.body = b] \in Job
BY DEF Job

\* The document requests that carry a file, a body or a version number.
LEMMA BeginDocumentInv ==
  ASSUME Inv, NEW r \in Requests,
         \/ BeginUpload(r) \/ BeginUpdate(r) \/ BeginDelete(r)
         \/ BeginManualSave(r) \/ BeginRollback(r) \/ BeginZones(r)
         \/ BeginZip(r) \/ BeginDeleteVersion(r)
  PROVE  Inv'
<1>a. /\ {"upload", "update", "delete", "manual", "rollback", "zones", "zip",
         "delete_version"} \subseteq OpNames
     /\ {"lock", "put", "member", "commit"} \subseteq PCs
  BY DEF OpNames, PCs
<1>b. \A u \in Users, o \in OpNames : Request(o, u) \in Job
  BY RequestType
<1> USE RowNow
<1>1. CASE BeginUpload(r)
  <2>1. PICK u \in Users, f \in Files, b \in Body :
          Open(r, [Request("upload", u) EXCEPT !.file = f, !.body = b],
               Session(row, {}), "lock")
    BY <1>1 DEF BeginUpload
  <2> DEFINE j == [Request("upload", u) EXCEPT !.file = f, !.body = b]
  <2>2. j \in Job
    BY <1>a, <1>b, NotedType
  <2>3. j.op = "upload" /\ j.file \in Files /\ j.body \in Body /\ j.todo = {}
    BY <1>a, RequestType DEF Job
  <2>4. Fits(j, "lock")
    BY <2>3 DEF Fits, Locked
  <2>. QED
    BY <1>a, <2>1, <2>2, <2>4, OpenInv
<1>2. CASE BeginUpdate(r)
  <2>1. PICK u \in Users, f \in Docs(work), b \in Body :
          Open(r, [Request("update", u) EXCEPT !.file = f, !.body = b],
               Session(row, {}), "lock")
    BY <1>2 DEF BeginUpdate
  <2> DEFINE j == [Request("update", u) EXCEPT !.file = f, !.body = b]
  <2>2. j \in Job
    BY <1>a, <1>b, NotedType DEF Docs
  <2>3. j.op = "update" /\ j.file \in Files /\ j.body \in Body /\ j.todo = {}
    BY <1>a, RequestType DEF Job, Docs
  <2>4. Fits(j, "lock")
    BY <2>3 DEF Fits, Locked
  <2>. QED
    BY <1>a, <2>1, <2>2, <2>4, OpenInv
<1>3. CASE BeginDelete(r)
  <2>1. PICK u \in Users, f \in Files :
          Open(r, [Request("delete", u) EXCEPT !.file = f],
               Session(row, {}), "lock")
    BY <1>3 DEF BeginDelete
  <2> DEFINE j == [Request("delete", u) EXCEPT !.file = f]
  <2>2. j \in Job /\ Fits(j, "lock")
    BY <1>a, RequestType DEF Job, Fits, Locked
  <2>. QED
    BY <1>a, <2>1, <2>2, OpenInv
<1>4. CASE BeginManualSave(r)
  <2>1. PICK u \in Users, f \in Files :
          Open(r, [Request("manual", u) EXCEPT !.file = f],
               Session(row, {}), "lock")
    BY <1>4 DEF BeginManualSave
  <2> DEFINE j == [Request("manual", u) EXCEPT !.file = f]
  <2>2. j \in Job /\ Fits(j, "lock")
    BY <1>a, RequestType DEF Job, Fits, Locked
  <2>. QED
    BY <1>a, <2>1, <2>2, OpenInv
<1>5. CASE BeginRollback(r)
  <2>1. PICK u \in Users, f \in Files, n \in VersionNumbers :
          Open(r, [Request("rollback", u) EXCEPT !.file = f, !.num = n],
               Session(row, {}), "lock")
    BY <1>5 DEF BeginRollback
  <2> DEFINE j == [Request("rollback", u) EXCEPT !.file = f, !.num = n]
  <2>2. n \in 0..MaxVersion
    BY VersionsAssumption DEF VersionNumbers
  <2>3. j \in Job
    BY <1>a, <1>b, <2>2, NotedType
  <2>4. j.op = "rollback" /\ j.file \in Files /\ j.todo = {}
    BY <1>a, RequestType DEF Job
  <2>5. Fits(j, "lock")
    BY <2>4 DEF Fits, Locked
  <2>. QED
    BY <1>a, <2>1, <2>3, <2>5, OpenInv
<1>6. CASE BeginZones(r)
  <2>1. PICK u \in Users, f \in Docs(work), z \in Zonings :
          Open(r, [Request("zones", u) EXCEPT !.file = f,
                                              !.body = <<work[f][1], z>>],
               Session(row, {}), "put")
    BY <1>6 DEF BeginZones
  <2>2. f \in Files /\ <<work[f][1], z>> \in Body
    BY DEF Docs, Inv, TypeOK, Tree, Body
  <2> DEFINE j == [Request("zones", u) EXCEPT !.file = f,
                                              !.body = <<work[f][1], z>>]
  <2>3. j \in Job
    BY <1>a, <1>b, <2>2, NotedType
  <2>4. j.op = "zones" /\ j.file \in Files /\ j.body \in Body /\ j.todo = {}
    BY <1>a, RequestType, <2>2 DEF Job
  <2>5. Fits(j, "put")
    BY <2>4 DEF Fits
  <2>. QED
    BY <1>a, <2>1, <2>3, <2>5, OpenInv
<1>7. CASE BeginZip(r)
  <2>1. PICK u \in Users, members \in (SUBSET Files) \ {{}}, b \in Body :
          Open(r, [Request("zip", u) EXCEPT !.todo = members, !.body = b],
               Session(row, {}), "member")
    BY <1>7 DEF BeginZip
  <2> DEFINE j == [Request("zip", u) EXCEPT !.todo = members, !.body = b]
  <2>2. j \in Job
    BY <1>a, <1>b, ArchiveType
  <2>3. j.op = "zip" /\ j.body \in Body
    BY <1>a, RequestType DEF Job
  <2>4. Fits(j, "member")
    BY <2>3 DEF Fits
  <2>. QED
    BY <1>a, <2>1, <2>2, <2>4, OpenInv
<1>8. CASE BeginDeleteVersion(r)
  <2>1. PICK u \in Users, v \in versions :
          Open(r, [Request("delete_version", u) EXCEPT !.file = v.file],
               [Session(row, {}) EXCEPT !.dropped = {v}], "commit")
    BY <1>8 DEF BeginDeleteVersion
  <2>2. v \in Version /\ v.file \in Files
    BY DEF Inv, TypeOK, Version
  <2> DEFINE j == [Request("delete_version", u) EXCEPT !.file = v.file]
  <2>3. j \in Job /\ Fits(j, "commit")
    BY <1>a, RequestType, <2>2 DEF Job, Fits
  <2>4. [Session(row, {}) EXCEPT !.dropped = {v}] \in Tx
    BY <2>2 DEF Tx
  <2>. QED
    BY <1>a, <2>1, <2>3, <2>4, OpenInv
<1>. QED
  BY <1>1, <1>2, <1>3, <1>4, <1>5, <1>6, <1>7, <1>8

\* The workflow transitions, which set columns of the row they have read.
LEMMA BeginTransitionInv ==
  ASSUME Inv, NEW r \in Requests,
         \/ BeginAssign(r) \/ BeginSubmit(r) \/ BeginReject(r)
         \/ BeginPublish(r) \/ BeginDirectPublish(r) \/ BeginUnpublish(r)
  PROVE  Inv'
<1>0. row \in Row
  BY RowNow
<1>1. ASSUME NEW o \in OpNames, NEW u \in Users
      PROVE  /\ Request(o, u) \in Job
             /\ Fits(Request(o, u), "commit")
             /\ o \in Passes => Fits(Request(o, u), "flush")
             /\ o \in Publishing => Fits(Request(o, u), "hash")
  BY <1>1, RequestType DEF Fits
<1>2. Senior \subseteq Users /\ Admins \subseteq Users
  BY EditorialAssumption
<1> USE DEF OpNames, PCs, Columns
<1>3. CASE BeginAssign(r)
  <2>1. PICK u \in Senior, e \in Users :
          LET col == [row EXCEPT !.editor = e, !.status = "assigned",
                                 !.assigned = TRUE]
              changed == {c \in {"editor", "status"} : col[c] # row[c]}
          IN  Open(r, Request("assign", u),
                   Session(col, changed \cup {"assigned"}), "commit")
    BY <1>3 DEF BeginAssign
  <2> DEFINE col == [row EXCEPT !.editor = e, !.status = "assigned",
                                !.assigned = TRUE]
             dirty == {c \in {"editor", "status"} : col[c] # row[c]}
                        \cup {"assigned"}
  <2>2. Open(r, Request("assign", u), Session(col, dirty), "commit")
    BY <2>1
  <2>3. col \in Row
    BY <1>0 DEF Row, Statuses
  <2>4. dirty \in SUBSET Columns
    OBVIOUS
  <2> HIDE DEF col, dirty
  <2>. QED
    BY <1>1, <1>2, <2>2, <2>3, <2>4, SessionType, OpenInv
<1>4. CASE BeginSubmit(r)
  <2>1. [row EXCEPT !.status = "review", !.submitted = TRUE] \in Row
    BY <1>0 DEF Row, Statuses
  <2>. QED
    BY <1>1, <1>4, <2>1, SessionType, OpenInv DEF BeginSubmit, Passes
<1>5. CASE BeginReject(r)
  <2>1. [row EXCEPT !.status = "assigned", !.submitted = FALSE] \in Row
    BY <1>0 DEF Row, Statuses
  <2>. QED
    BY <1>1, <1>2, <1>5, <2>1, SessionType, OpenInv DEF BeginReject, Passes
<1>6. CASE BeginPublish(r) \/ BeginDirectPublish(r)
  <2>1. Published(row) \in Row
    BY <1>0 DEF Published, Row, Statuses
  <2>. QED
    BY <1>1, <1>2, <1>6, <2>1, SessionType, OpenInv
    DEF BeginPublish, BeginDirectPublish, Publishing
<1>7. CASE BeginUnpublish(r)
  <2>1. Unpublished(row) \in Row
    BY <1>0 DEF Unpublished, Row, Statuses
  <2>. QED
    BY <1>1, <1>2, <1>7, <2>1, SessionType, OpenInv DEF BeginUnpublish
<1>. QED
  BY <1>3, <1>4, <1>5, <1>6, <1>7

-----------------------------------------------------------------------------
(* The steps of a request *)

\* A step that only ends its session: refused, busy or not found.
LEMMA EndInv ==
  ASSUME Inv, NEW r \in Requests, Close(r), UNCHANGED stores,
         faults' \in 0..MaxFaults
  PROVE  Inv'
BY CloseInv DEF Inv, TypeOK, stores

LEMMA WriteDocInv == ASSUME Inv, NEW r \in Requests, WriteDoc(r) PROVE Inv'
<1>a. TypeOK /\ Fits(job[r], pc[r]) /\ job[r] \in Job /\ tx[r] \in Tx
  BY DEF Inv, TypeOK, JobsFit
<1>b. {"put", "member", "count", "version", "commit"} \subseteq PCs
  BY DEF PCs
<1>c. ASSUME NEW t \in SUBSET Files PROVE [job[r] EXCEPT !.todo = t] \in Job
  BY <1>a DEF Job
<1>d. ASSUME NEW b \in Body PROVE [job[r] EXCEPT !.body = b] \in Job
  BY <1>a DEF Job
<1>1. CASE Busy(r) \/ NotThere(r) \/ RefuseZip(r)
  BY <1>a, <1>1, EndInv DEF Busy, NotThere, RefuseZip, TypeOK
<1>2. CASE PutUpload(r)
  <2> DEFINE f == job[r].file
             tree == [work EXCEPT ![f] = job[r].body]
             j == [job[r] EXCEPT !.todo = {f} \ Docs(work)]
  <2>1. f \in Files /\ job[r].body \in Body /\ job[r].op = "upload"
    BY <1>a, <1>2 DEF PutUpload, LockFree, Fits
  <2>2. tree \in Tree
    BY <1>a, <2>1 DEF TypeOK, Tree
  <2>3. j \in Job
    BY <1>c, <2>1
  <2>4. Fits(j, "count")
    BY <1>a, <2>1 DEF Fits, Job
  <2>5. job' = [job EXCEPT ![r] = j] /\ Goto(r, "count")
    BY <1>2 DEF PutUpload
  <2>6. /\ job' \in [Requests -> Job]
        /\ pc' \in [Requests -> PCs]
        /\ JobsFit'
    BY <1>b, <2>3, <2>4, <2>5, MoveFits
  <2>7. Counted(tx[r], tree) \in Tx
    BY <1>a, <2>2, CountedType
  <2>. QED
    BY <1>2, <1>a, <2>2, <2>6, <2>7 DEF Inv, TypeOK, PutUpload, Lock
<1>3. CASE PutUpdate(r)
  <2>1. job[r].file \in Files /\ job[r].body \in Body
    BY <1>a, <1>3 DEF PutUpdate, LockFree, Fits
  <2>2. work' \in Tree
    BY <1>a, <1>3, <2>1 DEF PutUpdate, TypeOK, Tree
  <2>3. pc' \in [Requests -> PCs] /\ JobsFit'
    BY <1>b, <1>3, GotoFits DEF PutUpdate, Fits
  <2>. QED
    BY <1>3, <1>a, <2>2, <2>3 DEF Inv, TypeOK, PutUpdate, Lock
<1>4. CASE Delete(r)
  <2> DEFINE tree == [work EXCEPT ![job[r].file] = Absent]
  <2>1. job[r].file \in Files /\ job[r].todo = {}
    BY <1>a, <1>4 DEF Delete, LockFree, Fits
  <2>2. tree \in Tree
    BY <1>a, <2>1 DEF TypeOK, Tree
  <2>3. pc' \in [Requests -> PCs] /\ JobsFit'
    BY <1>b, <1>4, <2>1, GotoFits DEF Delete, Fits
  <2>4. Counted(tx[r], tree) \in Tx
    BY <1>a, <2>2, CountedType
  <2>. QED
    BY <1>4, <1>a, <2>2, <2>3, <2>4 DEF Inv, TypeOK, Delete, Lock
<1>5. CASE ReadHead(r)
  <2> DEFINE j == [job[r] EXCEPT !.body = work[job[r].file]]
  <2>1. /\ job[r].file \in Files /\ job[r].todo = {} /\ job[r].op = "manual"
        /\ work[job[r].file] \in Body
    BY <1>a, <1>5 DEF ReadHead, LockFree, Fits, Docs, TypeOK, Tree
  <2>2. j \in Job
    BY <1>d, <2>1
  <2>3. Fits(j, "version")
    BY <1>a, <2>1 DEF Fits, Job, Versioning
  <2>4. job' = [job EXCEPT ![r] = j] /\ Goto(r, "version")
    BY <1>5 DEF ReadHead
  <2>5. /\ job' \in [Requests -> Job]
        /\ pc' \in [Requests -> PCs]
        /\ JobsFit'
    BY <1>b, <2>2, <2>3, <2>4, MoveFits
  <2>. QED
    BY <1>5, <1>a, <2>5 DEF Inv, TypeOK, ReadHead, Lock, stores
<1>6. CASE ReadTarget(r)
  <2>1. PICK v \in Of(versions, job[r].file) :
          job' = [job EXCEPT ![r].body = v.body]
    BY <1>6 DEF ReadTarget
  <2> DEFINE j == [job[r] EXCEPT !.body = v.body]
  <2>2. /\ job[r].file \in Files /\ job[r].todo = {} /\ job[r].op = "rollback"
        /\ v.body \in Body
    BY <1>a, <1>6 DEF ReadTarget, LockFree, Fits, Of, TypeOK, Version
  <2>3. j \in Job
    BY <1>d, <2>2
  <2>4. Fits(j, "put")
    BY <1>a, <2>2 DEF Fits, Job
  <2>5. job' = [job EXCEPT ![r] = j] /\ Goto(r, "put")
    BY <1>6, <2>1 DEF ReadTarget
  <2>6. /\ job' \in [Requests -> Job]
        /\ pc' \in [Requests -> PCs]
        /\ JobsFit'
    BY <1>b, <2>3, <2>4, <2>5, MoveFits
  <2>. QED
    BY <1>6, <1>a, <2>6 DEF Inv, TypeOK, ReadTarget, Lock, stores
<1>7. CASE Put(r)
  <2>1. /\ job[r].file \in Files /\ job[r].body \in Body /\ job[r].todo = {}
        /\ job[r].op \in {"zones", "rollback"}
    BY <1>a, <1>7 DEF Put, Fits
  <2>2. work' \in Tree
    BY <1>a, <1>7, <2>1 DEF Put, TypeOK, Tree
  <2> DEFINE at == IF job[r].op = "rollback" THEN "version" ELSE "commit"
  <2>3. at \in PCs /\ Fits(job[r], at)
    BY <1>b, <2>1 DEF Fits, Versioning
  <2>4. UNCHANGED job /\ Goto(r, at)
    BY <1>7 DEF Put
  <2>5. pc' \in [Requests -> PCs] /\ JobsFit'
    BY <2>3, <2>4, GotoFits
  <2>. QED
    BY <1>7, <1>a, <2>2, <2>5 DEF Inv, TypeOK, Put, locks
<1>8. CASE PutMember(r)
  <2>1. PICK f \in job[r].todo :
          /\ work' = [work EXCEPT ![f] = job[r].body]
          /\ job' = [job EXCEPT ![r].todo = @ \ {f}]
    BY <1>8 DEF PutMember
  <2>2. f \in Files /\ job[r].todo \ {f} \in SUBSET Files
    BY <1>a DEF Job
  <2>3. pc[r] = "member" /\ UNCHANGED pc /\ job[r].body \in Body
    BY <1>a, <1>8 DEF PutMember, Fits
  <2>4. work' \in Tree
    BY <1>a, <2>1, <2>2, <2>3 DEF TypeOK, Tree
  <2> DEFINE j == [job[r] EXCEPT !.todo = @ \ {f}]
  <2>5. j \in Job /\ job' = [job EXCEPT ![r] = j]
    BY <1>c, <2>1, <2>2
  <2>6. Fits(j, "member")
    BY <1>a, <2>3 DEF Fits, Job
  <2>7. job' \in [Requests -> Job] /\ JobsFit'
    BY <1>a, <2>3, <2>5, <2>6 DEF Inv, JobsFit, TypeOK
  <2>. QED
    BY <1>8, <1>a, <2>4, <2>7 DEF Inv, TypeOK, PutMember, locks
<1>9. CASE CountMembers(r)
  <2>1. Counted(tx[r], work) \in Tx
    BY <1>a, CountedType DEF TypeOK
  <2>2. pc' \in [Requests -> PCs] /\ JobsFit'
    BY <1>b, <1>9, GotoFits DEF CountMembers, Fits
  <2>. QED
    BY <1>9, <1>a, <2>1, <2>2 DEF Inv, TypeOK, CountMembers, stores, locks
<1>10. CASE FlushCount(r)
  <2> DEFINE at == IF job[r].todo = {} THEN "commit" ELSE "version"
             j == [job[r] EXCEPT !.todo = {}]
  <2>1. j \in Job /\ at \in PCs
    BY <1>b, <1>c
  <2>2. Fits(j, at)
    BY <1>a, <1>10 DEF FlushCount, Fits, Job, Versioning
  <2>3. job' = [job EXCEPT ![r] = j] /\ Goto(r, at)
    BY <1>10 DEF FlushCount
  <2>4. /\ job' \in [Requests -> Job]
        /\ pc' \in [Requests -> PCs]
        /\ JobsFit'
    BY <2>1, <2>2, <2>3, MoveFits
  <2>. QED
    BY <1>10, <1>a, <2>4 DEF Inv, TypeOK, FlushCount, stores
<1>. QED
  BY <1>1, <1>2, <1>3, <1>4, <1>5, <1>6, <1>7, <1>8, <1>9, <1>10 DEF WriteDoc

LEMMA PublishInv == ASSUME Inv, NEW r \in Requests, Publish(r) PROVE Inv'
<1>a. TypeOK /\ Fits(job[r], pc[r]) /\ job[r] \in Job /\ tx[r] \in Tx
  BY DEF Inv, TypeOK, JobsFit
<1>b. {"copy", "flush", "scan", "commit"} \subseteq PCs
  BY DEF PCs
<1>1. CASE HashTree(r)
  <2>1. job[r].op \in Publishing
    BY <1>a, <1>1 DEF HashTree, Fits
  <2>2. PICK at \in {"flush", "copy"} : Goto(r, at)
    BY <1>1 DEF HashTree
  <2>3. Fits(job[r], at)
    BY <2>1, <2>2 DEF Fits, Publishing, Passes
  <2>4. pc' \in [Requests -> PCs] /\ JobsFit'
    BY <1>b, <1>1, <2>2, <2>3, GotoFits DEF HashTree
  <2>5. Hashed(tx[r], TreeHash(work)) \in Tx
    BY <1>a, HashedType DEF TreeHash, TypeOK
  <2>6. tx' \in [Requests -> Tx]
    BY <1>a, <1>1, <2>5 DEF HashTree, TypeOK
  <2>. QED
    BY <1>1, <1>a, <2>4, <2>6 DEF Inv, TypeOK, HashTree, stores, locks
<1>2. CASE Copy(r)
  <2>1. job[r].op \in Publishing
    BY <1>a, <1>2 DEF Copy, Fits
  <2>2. pc' \in [Requests -> PCs] /\ JobsFit'
    BY <1>b, <1>2, <2>1, GotoFits DEF Copy, Fits, Publishing, Passes
  <2>. QED
    BY <1>2, <1>a, <2>2 DEF Inv, TypeOK, Copy, locks
<1>3. CASE FlushRow(r)
  <2> DEFINE j == [job[r] EXCEPT !.todo = Docs(work)]
             at == IF Docs(work) = {} THEN "commit" ELSE "scan"
  <2>1. j \in Job /\ at \in PCs
    BY <1>a, <1>b DEF Job, Docs
  <2>2. Fits(j, at)
    BY <1>a, <1>3 DEF FlushRow, Fits, Job
  <2>3. job' = [job EXCEPT ![r] = j] /\ Goto(r, at)
    BY <1>3 DEF FlushRow
  <2>4. /\ job' \in [Requests -> Job]
        /\ pc' \in [Requests -> PCs]
        /\ JobsFit'
    BY <2>1, <2>2, <2>3, MoveFits
  <2>. QED
    BY <1>3, <1>a, <2>4 DEF Inv, TypeOK, FlushRow, stores
<1>. QED
  BY <1>1, <1>2, <1>3 DEF Publish

\* The row a handler is about to write is a row of the table.
LEMMA NewVersionType ==
  ASSUME Inv, NEW r \in Requests, pc[r] \in {"insert"}
  PROVE  NewVersion(r) \in Version
<1>a. job[r] \in Job /\ Fits(job[r], pc[r])
  BY DEF Inv, TypeOK, JobsFit
<1>1. /\ job[r].file \in Files /\ job[r].num \in VersionNumbers
      /\ job[r].body \in Body /\ job[r].op \in Versioning
  BY <1>a DEF Fits
<1>2. OriginOf[job[r].op] \in Origins
  BY <1>1 DEF Versioning, Passes, OriginOf, Origins
<1>3. job[r].by \in Users \cup {NoUser}
  BY <1>a DEF Job
<1>. QED
  BY <1>1, <1>2, <1>3 DEF NewVersion, Version

\* After its row a pass takes the next document, any other handler returns.
LEMMA AfterDocFits ==
  ASSUME Inv, NEW r \in Requests, pc[r] \in {"version", "number", "insert"}
  PROVE  AfterDoc(r) \in PCs /\ Fits(job[r], AfterDoc(r))
<1>a. job[r] \in Job /\ Fits(job[r], pc[r])
  BY DEF Inv, TypeOK, JobsFit
<1>. QED
  BY <1>a DEF AfterDoc, PCs, Fits

LEMMA WriteVersionInv ==
  ASSUME Inv, NEW r \in Requests, WriteVersion(r) PROVE Inv'
<1>a. TypeOK /\ Fits(job[r], pc[r]) /\ job[r] \in Job /\ tx[r] \in Tx
  BY DEF Inv, TypeOK, JobsFit
<1>b. {"scan", "version", "number", "insert", "commit"} \subseteq PCs
  BY DEF PCs
<1>1. CASE FetchDoc(r)
  <2>1. PICK f \in Files :
          /\ pc[r] = "scan" /\ NextFile(r, f) /\ work[f] # Absent
          /\ job' = [job EXCEPT ![r].file = f, ![r].body = work[f],
                                ![r].todo = @ \ {f}]
    BY <1>1 DEF FetchDoc
  <2> DEFINE j == [job[r] EXCEPT !.file = f, !.body = work[f],
                                 !.todo = @ \ {f}]
  <2>2. work[f] \in Body /\ job[r].op \in Passes
    BY <1>a, <2>1 DEF TypeOK, Tree, Fits
  <2>3. j \in Job
    BY <1>a, <2>2 DEF Job
  <2>4. Fits(j, "version")
    BY <1>a, <2>2 DEF Fits, Job, Versioning
  <2>5. job' = [job EXCEPT ![r] = j] /\ Goto(r, "version")
    BY <1>1, <2>1 DEF FetchDoc
  <2>6. /\ job' \in [Requests -> Job]
        /\ pc' \in [Requests -> PCs]
        /\ JobsFit'
    BY <1>b, <2>3, <2>4, <2>5, MoveFits
  <2>. QED
    BY <1>1, <1>a, <2>6 DEF Inv, TypeOK, FetchDoc, stores, locks
<1>2. CASE SkipDoc(r)
  <2>1. PICK f \in Files :
          /\ pc[r] = "scan"
          /\ job' = [job EXCEPT ![r].todo = @ \ {f}]
          /\ Goto(r, IF job[r].todo = {f} THEN "commit" ELSE "scan")
    BY <1>2 DEF SkipDoc
  <2> DEFINE j == [job[r] EXCEPT !.todo = @ \ {f}]
             at == IF job[r].todo = {f} THEN "commit" ELSE "scan"
  <2>2. j \in Job /\ at \in PCs
    BY <1>a, <1>b DEF Job
  <2>3. Fits(j, at)
    BY <1>a, <2>1 DEF Fits, Job
  <2>4. job' = [job EXCEPT ![r] = j] /\ Goto(r, at)
    BY <2>1
  <2>5. /\ job' \in [Requests -> Job]
        /\ pc' \in [Requests -> PCs]
        /\ JobsFit'
    BY <2>2, <2>3, <2>4, MoveFits
  <2>6. faults' \in 0..MaxFaults
    BY <1>a, <1>2, EditorialAssumption DEF SkipDoc, TypeOK
  <2>. QED
    BY <1>2, <1>a, <2>5, <2>6 DEF Inv, TypeOK, SkipDoc, stores, locks
<1>3. CASE SkipUnchanged(r)
  <2>1. pc[r] = "version" /\ UNCHANGED job /\ Goto(r, AfterDoc(r))
    BY <1>3 DEF SkipUnchanged
  <2>2. pc' \in [Requests -> PCs] /\ JobsFit'
    BY <2>1, AfterDocFits, GotoFits
  <2>3. Publications(Seen(r), job[r].file) \subseteq Version
    BY <1>a DEF Publications, Of, Seen, TypeOK, Tx
  <2>4. \A v \in Version : WithFixity(tx[r], v) \in Tx
    BY <1>a, WithFixityType
  <2>5. tx' \in [Requests -> Tx]
    BY <1>a, <1>3, <2>3, <2>4 DEF SkipUnchanged, TypeOK
  <2>. QED
    BY <1>3, <1>a, <2>2, <2>5 DEF Inv, TypeOK, SkipUnchanged, stores, locks
<1>4. CASE RefuseManual(r) \/ Collide(r)
  BY <1>a, <1>4, EndInv DEF RefuseManual, Collide, TypeOK
<1>5. CASE Decide(r)
  <2>1. Fits(job[r], "number")
    BY <1>a, <1>5 DEF Decide, Fits
  <2>2. pc' \in [Requests -> PCs] /\ JobsFit'
    BY <1>b, <1>5, <2>1, GotoFits DEF Decide
  <2>. QED
    BY <1>5, <1>a, <2>2 DEF Inv, TypeOK, Decide, stores, locks
<1>6. CASE TakeNumber(r)
  <2>1. PICK n \in VersionNumbers :
          pc[r] = "number" /\ job' = [job EXCEPT ![r].num = n]
    BY <1>6 DEF TakeNumber
  <2> DEFINE j == [job[r] EXCEPT !.num = n]
  <2>2. n \in 0..MaxVersion
    BY VersionsAssumption DEF VersionNumbers
  <2>3. j \in Job
    BY <1>a, <2>2 DEF Job
  <2>4. Fits(j, "insert")
    BY <1>a, <2>1 DEF Fits, Job
  <2>5. job' = [job EXCEPT ![r] = j] /\ Goto(r, "insert")
    BY <1>6, <2>1 DEF TakeNumber
  <2>6. /\ job' \in [Requests -> Job]
        /\ pc' \in [Requests -> PCs]
        /\ JobsFit'
    BY <1>b, <2>3, <2>4, <2>5, MoveFits
  <2>. QED
    BY <1>6, <1>a, <2>6 DEF Inv, TypeOK, TakeNumber, stores, locks
<1>7. CASE Insert(r)
  <2> DEFINE v == NewVersion(r)
             kept == [tx[r] EXCEPT !.staged = @ \cup {v}]
  <2>1. pc[r] = "insert" /\ UNCHANGED job /\ Goto(r, AfterDoc(r))
    BY <1>7 DEF Insert
  <2>2. pc' \in [Requests -> PCs] /\ JobsFit'
    BY <2>1, AfterDocFits, GotoFits
  <2>3. v \in Version
    BY <2>1, NewVersionType
  <2>4. kept \in Tx
    BY <1>a, <2>3 DEF Tx
  <2>5. WithFixity(kept, v) \in Tx
    BY <2>3, <2>4, WithFixityType
  <2>6. tx' = [tx EXCEPT ![r] = IF v.origin = "publication"
                                  THEN WithFixity(kept, v) ELSE kept]
    BY <1>7 DEF Insert
  <2>7. tx' \in [Requests -> Tx]
    BY <1>a, <2>4, <2>5, <2>6 DEF TypeOK
  <2>. QED
    BY <1>7, <1>a, <2>2, <2>7 DEF Inv, TypeOK, Insert, stores, locks
<1>. QED
  BY <1>1, <1>2, <1>3, <1>4, <1>5, <1>6, <1>7 DEF WriteVersion

LEMMA CommitInv == ASSUME Inv, NEW r \in Requests, Commit(r) PROVE Inv'
<1>a. TypeOK /\ tx[r] \in Tx
  BY DEF Inv, TypeOK
<1>1. row' \in Row
  BY <1>a, OverlayType DEF Commit, TypeOK, Tx
<1>2. versions' \in SUBSET Version
  BY <1>a DEF Commit, TypeOK, Tx
<1>3. fixity' \in [Files -> FixityRow \cup {NoRecord}]
  BY <1>a DEF Commit, TypeOK, Tx
<1>4. Close(r)
  BY DEF Commit
<1>. QED
  BY <1>a, <1>1, <1>2, <1>3, <1>4, CloseInv DEF Commit, Inv, TypeOK

LEMMA FailInv ==
  ASSUME Inv, NEW r \in Requests, Fail(r) \/ CopyFails(r) PROVE Inv'
<1>1. faults' \in 0..MaxFaults
  BY EditorialAssumption DEF Fail, CopyFails, Inv, TypeOK
<1>2. CASE Fail(r)
  BY <1>1, <1>2, EndInv DEF Fail
<1>3. CASE CopyFails(r)
  <2>1. snap' \in Tree
    BY <1>3 DEF CopyFails, EmptyTree, Tree
  <2>2. Close(r)
    BY <1>3 DEF CopyFails
  <2>. QED
    BY <1>1, <1>3, <2>1, <2>2, CloseInv DEF CopyFails, Inv, TypeOK
<1>. QED
  BY <1>2, <1>3

LEMMA NextInv == Inv /\ [Next]_vars => Inv'
<1> SUFFICES ASSUME Inv, [Next]_vars PROVE Inv'
  OBVIOUS
<1>1. ASSUME NEW r \in Requests, Begin(r) PROVE Inv'
  BY <1>1, BeginDocumentInv, BeginTransitionInv DEF Begin
<1>2. ASSUME NEW r \in Requests, Step(r) PROVE Inv'
  BY <1>2, WriteDocInv, PublishInv, WriteVersionInv, CommitInv DEF Step
<1>3. ASSUME NEW r \in Requests, Fail(r) \/ CopyFails(r) PROVE Inv'
  BY <1>3, FailInv
<1>4. CASE UNCHANGED vars
  BY <1>4 DEF vars, stores, locks, Inv, TypeOK, JobsFit
<1>. QED
  BY <1>1, <1>2, <1>3, <1>4 DEF Next

\* Every reachable state is typed, and every handler has noted what the place
\* it has reached needs, whatever the requests in flight.
THEOREM Invariance == Spec => []Inv
<1>. QED
  BY InitInv, NextInv, PTL DEF Spec

\* The state of the editorial core is typed: a version row is always built
\* from a file and a body that exist.
THEOREM TypeCorrect == Spec => []TypeOK
<1>1. Inv => TypeOK
  BY DEF Inv
<1>. QED
  BY <1>1, Invariance, PTL

-----------------------------------------------------------------------------
\* One request at a time.  With a single request identifier, taken again by one
\* request after another, no handler meets another one's half-done work: Alone
\* says so, and what follows is what the handlers promise then.

Alone == \A q, r \in Requests : q = r

\* What StampsAgree says, of the columns of a session.
Agree(col) ==
  /\ col.published <=> col.status = "published"
  /\ col.status = "review" => col.submitted
  /\ col.status \in {"assigned", "review"} => col.assigned
  /\ col.assigned <=> col.editor # NoUser

Stamps == {"status", "editor", "assigned", "submitted", "published"}

\* The columns that a session will not write are the committed ones.
Carried(session) ==
  /\ "status" \notin session.dirty => session.col.status = row.status
  /\ "editor" \notin session.dirty => session.col.editor = row.editor
  /\ "assigned" \notin session.dirty => session.col.assigned = row.assigned
  /\ "submitted" \notin session.dirty => session.col.submitted = row.submitted
  /\ "published" \notin session.dirty => session.col.published = row.published

SessionStands(r) == pc[r] # "idle" => Agree(tx[r].col) /\ Carried(tx[r])

\* A request that may still write the tree was let in by the status that the
\* row has.
MayWrite(r) == pc[r] \in {"lock", "put", "member"} /\ row.status = "review" =>
  job[r].by \in Senior

AloneInv ==
  /\ Alone /\ Inv /\ Agree(row)
  /\ \A r \in Requests : SessionStands(r) /\ MayWrite(r)

-----------------------------------------------------------------------------
LEMMA AloneStart == Alone /\ Init => AloneInv
<1> SUFFICES ASSUME Alone, Init PROVE AloneInv
  OBVIOUS
<1>1. row = NewRow /\ \A r \in Requests : pc[r] = "idle"
  BY DEF Init
<1>2. Agree(row)
  BY <1>1 DEF Agree, NewRow
<1>. QED
  BY <1>1, <1>2, InitInv DEF AloneInv, SessionStands, MayWrite

\* The columns of a session, and those it will write, but for the hash and the
\* count.
SameStamps(s, t) ==
  /\ s.col.status = t.col.status /\ s.col.editor = t.col.editor
  /\ s.col.assigned = t.col.assigned /\ s.col.submitted = t.col.submitted
  /\ s.col.published = t.col.published
  /\ \A c \in Stamps : c \in s.dirty <=> c \in t.dirty

LEMMA StandsWithSame ==
  ASSUME NEW s, NEW t, SameStamps(s, t), Agree(t.col), Carried(t)
  PROVE  Agree(s.col) /\ Carried(s)
BY DEF SameStamps, Agree, Carried, Stamps

LEMMA CountedSame ==
  ASSUME NEW s \in Tx, NEW tree PROVE SameStamps(Counted(s, tree), s)
<1>1. s.col \in Row
  BY DEF Tx
<1>2. CASE Counted(s, tree) = s
  BY <1>2 DEF SameStamps
<1>3. CASE Counted(s, tree) = [s EXCEPT !.col.docCount = DocCount(tree),
                                        !.dirty = @ \cup {"docCount"}]
  <2>1. /\ Counted(s, tree).col = [s.col EXCEPT !.docCount = DocCount(tree)]
        /\ Counted(s, tree).dirty = s.dirty \cup {"docCount"}
    BY <1>3 DEF Tx
  <2>. QED
    BY <1>1, <2>1 DEF SameStamps, Stamps, Row
<1>. QED
  BY <1>2, <1>3 DEF Counted

LEMMA HashedSame ==
  ASSUME NEW s \in Tx, NEW hash PROVE SameStamps(Hashed(s, hash), s)
<1>1. s.col \in Row
  BY DEF Tx
<1>2. /\ Hashed(s, hash).col = [s.col EXCEPT !.hash = hash]
      /\ Hashed(s, hash).dirty = s.dirty \cup {"hash"}
  BY DEF Tx, Hashed
<1>. QED
  BY <1>1, <1>2 DEF SameStamps, Stamps, Row

LEMMA WithFixitySame ==
  ASSUME NEW s \in Tx, NEW v PROVE SameStamps(WithFixity(s, v), s)
<1>1. WithFixity(s, v).col = s.col /\ WithFixity(s, v).dirty = s.dirty
  BY DEF Tx, WithFixity
<1>. QED
  BY <1>1 DEF SameStamps

\* The transaction that is alone writes the columns that its session has.
LEMMA CommitWrites ==
  ASSUME Inv, NEW r \in Requests, Commit(r), Agree(tx[r].col), Carried(tx[r])
  PROVE  Agree(row')
<1>1. /\ row'.status = tx[r].col.status /\ row'.editor = tx[r].col.editor
      /\ row'.assigned = tx[r].col.assigned /\ row'.submitted = tx[r].col.submitted
      /\ row'.published = tx[r].col.published
  BY DEF Commit, Overlay, Pick, Carried
<1>. QED
  BY <1>1 DEF Agree

\* What a session is opened with.
LEMMA Opened ==
  ASSUME Inv, NEW r \in Requests, NEW j, NEW session, NEW at,
         Open(r, j, session, at)
  PROVE  /\ pc'[r] = at /\ job'[r] = j /\ tx'[r] = session
         /\ UNCHANGED <<stores, locks, faults>> /\ pc[r] = "idle"
BY DEF Inv, TypeOK, Open

LEMMA SessionFields ==
  ASSUME NEW col, NEW dirty
  PROVE  /\ Session(col, dirty).col = col /\ Session(col, dirty).dirty = dirty
         /\ Session(col, dirty).staged = {} /\ Session(col, dirty).dropped = {}
BY DEF Session

\* A request on documents writes no stamp, and may write if it still can.
LEMMA BeginDocumentAlone ==
  ASSUME AloneInv, NEW r \in Requests,
         \/ BeginUpload(r) \/ BeginUpdate(r) \/ BeginDelete(r)
         \/ BeginManualSave(r) \/ BeginRollback(r) \/ BeginZones(r)
         \/ BeginZip(r) \/ BeginDeleteVersion(r)
  PROVE  /\ tx'[r].col = row /\ tx'[r].dirty = {}
         /\ UNCHANGED <<stores, faults>> /\ MayWrite(r)'
<1>0. Inv
  BY DEF AloneInv
<1>1. ASSUME NEW j, NEW at, NEW u \in Users, CanWrite(u), j.by = u,
             Open(r, j, Session(row, {}), at)
      PROVE  /\ tx'[r].col = row /\ tx'[r].dirty = {}
             /\ UNCHANGED <<stores, faults>> /\ MayWrite(r)'
  <2>1. /\ job'[r] = j /\ tx'[r] = Session(row, {}) /\ UNCHANGED <<stores, faults>>
    BY <1>0, <1>1, Opened
  <2>. QED
    BY <1>1, <2>1, SessionFields DEF MayWrite, CanWrite, stores
<1>2. \A u \in Users, o \in OpNames : Request(o, u) \in Job /\ Request(o, u).by = u
  BY RequestType
<1> USE DEF OpNames
<1>4. CASE BeginUpload(r)
  <2>1. PICK u \in Users, f \in Files, b \in Body :
          CanWrite(u)
            /\ Open(r, [Request("upload", u) EXCEPT !.file = f, !.body = b], Session(row, {}), "lock")
    BY <1>4 DEF BeginUpload
  <2>2. [Request("upload", u) EXCEPT !.file = f, !.body = b].by = u
    BY <1>2 DEF Job
  <2>. QED
    BY <1>1, <2>1, <2>2
<1>5. CASE BeginUpdate(r)
  <2>1. PICK u \in Users, f \in Docs(work), b \in Body :
          CanWrite(u)
            /\ Open(r, [Request("update", u) EXCEPT !.file = f, !.body = b], Session(row, {}), "lock")
    BY <1>5 DEF BeginUpdate
  <2>2. [Request("update", u) EXCEPT !.file = f, !.body = b].by = u
    BY <1>2 DEF Job
  <2>. QED
    BY <1>1, <2>1, <2>2
<1>6. CASE BeginDelete(r)
  <2>1. PICK u \in Users, f \in Files :
          CanWrite(u)
            /\ Open(r, [Request("delete", u) EXCEPT !.file = f], Session(row, {}), "lock")
    BY <1>6 DEF BeginDelete
  <2>2. [Request("delete", u) EXCEPT !.file = f].by = u
    BY <1>2 DEF Job
  <2>. QED
    BY <1>1, <2>1, <2>2
<1>7. CASE BeginManualSave(r)
  <2>1. PICK u \in Users, f \in Files :
          CanWrite(u)
            /\ Open(r, [Request("manual", u) EXCEPT !.file = f], Session(row, {}), "lock")
    BY <1>7 DEF BeginManualSave
  <2>2. [Request("manual", u) EXCEPT !.file = f].by = u
    BY <1>2 DEF Job
  <2>. QED
    BY <1>1, <2>1, <2>2
<1>8. CASE BeginRollback(r)
  <2>1. PICK u \in Users, f \in Files, n \in VersionNumbers :
          CanWrite(u)
            /\ Open(r, [Request("rollback", u) EXCEPT !.file = f, !.num = n], Session(row, {}), "lock")
    BY <1>8 DEF BeginRollback
  <2>2. [Request("rollback", u) EXCEPT !.file = f, !.num = n].by = u
    BY <1>2 DEF Job
  <2>. QED
    BY <1>1, <2>1, <2>2
<1>9. CASE BeginZones(r)
  <2>1. PICK u \in Users, f \in Docs(work), z \in Zonings :
          CanWrite(u)
            /\ Open(r, [Request("zones", u) EXCEPT !.file = f, !.body = <<work[f][1], z>>], Session(row, {}), "put")
    BY <1>9 DEF BeginZones
  <2>2. [Request("zones", u) EXCEPT !.file = f, !.body = <<work[f][1], z>>].by = u
    BY <1>2 DEF Job
  <2>. QED
    BY <1>1, <2>1, <2>2
<1>10. CASE BeginZip(r)
  <2>1. PICK u \in Users, members \in (SUBSET Files) \ {{}}, b \in Body :
          CanWrite(u)
            /\ Open(r, [Request("zip", u) EXCEPT !.todo = members, !.body = b], Session(row, {}), "member")
    BY <1>10 DEF BeginZip
  <2>2. [Request("zip", u) EXCEPT !.todo = members, !.body = b].by = u
    BY <1>2 DEF Job
  <2>. QED
    BY <1>1, <2>1, <2>2
<1>11. CASE BeginDeleteVersion(r)
  <2>1. PICK u \in Users, v \in versions :
          Open(r, [Request("delete_version", u) EXCEPT !.file = v.file],
               [Session(row, {}) EXCEPT !.dropped = {v}], "commit")
    BY <1>11 DEF BeginDeleteVersion
  <2> DEFINE session == [Session(row, {}) EXCEPT !.dropped = {v}]
  <2>2. session.col = row /\ session.dirty = {}
    BY DEF Session
  <2> HIDE DEF session
  <2>3. /\ pc'[r] = "commit" /\ tx'[r] = session /\ UNCHANGED <<stores, faults>>
    BY <1>0, <2>1, Opened DEF session
  <2>. QED
    BY <2>2, <2>3 DEF MayWrite
<1>. QED
  BY <1>4, <1>5, <1>6, <1>7, <1>8, <1>9, <1>10, <1>11

\* A transition sets the columns that it changes so that they agree.
LEMMA BeginTransitionAlone ==
  ASSUME AloneInv, NEW r \in Requests,
         \/ BeginAssign(r) \/ BeginSubmit(r) \/ BeginReject(r)
         \/ BeginPublish(r) \/ BeginDirectPublish(r) \/ BeginUnpublish(r)
  PROVE  /\ Agree(tx'[r].col) /\ Carried(tx[r])' /\ MayWrite(r)'
         /\ UNCHANGED <<stores, faults>>
<1>0. Inv /\ Agree(row) /\ row \in Row
  BY DEF AloneInv, Inv, TypeOK
<1>1. ASSUME NEW j, NEW at \in {"commit", "flush", "hash"}, NEW col, NEW dirty,
             Open(r, j, Session(col, dirty), at), Agree(col),
             Carried(Session(col, dirty))
      PROVE  /\ Agree(tx'[r].col) /\ Carried(tx[r])' /\ MayWrite(r)'
             /\ UNCHANGED <<stores, faults>>
  <2>1. /\ pc'[r] = at /\ tx'[r] = Session(col, dirty) /\ row' = row
        /\ UNCHANGED <<stores, faults>>
    BY <1>0, <1>1, Opened DEF stores
  <2>2. Carried(tx[r])'
    BY <1>1, <2>1 DEF Carried
  <2>. QED
    BY <1>1, <2>1, <2>2, SessionFields DEF MayWrite
<1>2. CASE BeginAssign(r)
  <2>1. PICK u \in Senior, e \in Users :
          /\ row.status \in {"draft", "assigned"}
          /\ LET col == [row EXCEPT !.editor = e, !.status = "assigned",
                                    !.assigned = TRUE]
                 changed == {c \in {"editor", "status"} : col[c] # row[c]}
             IN  Open(r, Request("assign", u),
                      Session(col, changed \cup {"assigned"}), "commit")
    BY <1>2 DEF BeginAssign
  <2> DEFINE col == [row EXCEPT !.editor = e, !.status = "assigned", !.assigned = TRUE]
             dirty == {c \in {"editor", "status"} : col[c] # row[c]} \cup {"assigned"}
  <2>2. Open(r, Request("assign", u), Session(col, dirty), "commit")
    BY <2>1
  <2>3. /\ col.status = "assigned" /\ col.editor = e /\ col.assigned = TRUE
        /\ col.submitted = row.submitted /\ col.published = row.published
    BY <1>0 DEF Row
  <2>4. Agree(col)
    BY <1>0, <2>1, <2>3, VersionsAssumption DEF Agree
  <2>5. /\ "status" \in dirty \/ col.status = row.status
        /\ "editor" \in dirty \/ col.editor = row.editor
        /\ "assigned" \in dirty
    OBVIOUS
  <2> HIDE DEF col, dirty
  <2>6. Carried(Session(col, dirty))
    BY <2>3, <2>5, SessionFields DEF Carried
  <2>. QED
    BY <1>1, <2>2, <2>4, <2>6
<1>3. CASE BeginSubmit(r)
  <2>1. PICK u \in Users :
          /\ row.status = "assigned" /\ row.editor = u
          /\ Open(r, Request("submit", u),
                  Session([row EXCEPT !.status = "review", !.submitted = TRUE],
                          {"status", "submitted"}), "flush")
    BY <1>3 DEF BeginSubmit
  <2> DEFINE col == [row EXCEPT !.status = "review", !.submitted = TRUE]
  <2>2. /\ col.status = "review" /\ col.editor = row.editor /\ col.assigned = row.assigned
        /\ col.submitted = TRUE /\ col.published = row.published
    BY <1>0 DEF Row
  <2>3. Open(r, Request("submit", u), Session(col, {"status", "submitted"}), "flush")
    BY <2>1
  <2> HIDE DEF col
  <2>4. Agree(col) /\ Carried(Session(col, {"status", "submitted"}))
    BY <1>0, <2>1, <2>2, SessionFields DEF Agree, Carried
  <2>. QED
    BY <1>1, <2>3, <2>4
<1>4. CASE BeginReject(r)
  <2>1. PICK u \in Senior :
          /\ row.status = "review"
          /\ Open(r, Request("reject", u),
                  Session([row EXCEPT !.status = "assigned", !.submitted = FALSE],
                          {"status", "submitted"}), "flush")
    BY <1>4 DEF BeginReject
  <2> DEFINE col == [row EXCEPT !.status = "assigned", !.submitted = FALSE]
  <2>2. /\ col.status = "assigned" /\ col.editor = row.editor
        /\ col.assigned = row.assigned /\ col.published = row.published
    BY <1>0 DEF Row
  <2>3. Open(r, Request("reject", u), Session(col, {"status", "submitted"}), "flush")
    BY <2>1
  <2> HIDE DEF col
  <2>4. Agree(col) /\ Carried(Session(col, {"status", "submitted"}))
    BY <1>0, <2>1, <2>2, SessionFields DEF Agree, Carried
  <2>. QED
    BY <1>1, <2>3, <2>4
<1>5. CASE BeginPublish(r) \/ BeginDirectPublish(r)
  <2>1. PICK o \in OpNames, u \in Senior :
          Open(r, Request(o, u), Session(Published(row), {"status", "published"}), "hash")
    BY <1>5 DEF BeginPublish, BeginDirectPublish, OpNames
  <2>2. LET col == Published(row) IN
        /\ col.status = "published" /\ col.editor = row.editor
        /\ col.assigned = row.assigned /\ col.submitted = row.submitted
        /\ col.published = TRUE
    BY <1>0 DEF Row, Published
  <2>3. /\ Agree(Published(row))
        /\ Carried(Session(Published(row), {"status", "published"}))
    BY <1>0, <2>2, SessionFields DEF Agree, Carried
  <2>. QED
    BY <1>1, <2>1, <2>3
<1>6. CASE BeginUnpublish(r)
  <2>1. PICK u \in Admins :
          Open(r, Request("unpublish", u),
               Session(Unpublished(row), {"status", "published"}), "commit")
    BY <1>6 DEF BeginUnpublish
  <2>2. LET col == Unpublished(row) IN
        /\ col.status = "draft" /\ col.editor = row.editor
        /\ col.assigned = row.assigned /\ col.submitted = row.submitted
        /\ col.published = FALSE
    BY <1>0 DEF Row, Unpublished
  <2>3. /\ Agree(Unpublished(row))
        /\ Carried(Session(Unpublished(row), {"status", "published"}))
    BY <1>0, <2>2, SessionFields DEF Agree, Carried
  <2>. QED
    BY <1>1, <2>1, <2>3
<1>. QED
  BY <1>2, <1>3, <1>4, <1>5, <1>6

\* Every other step of a request ends it, or leaves its stamps, the row and who
\* asked.
LEMMA StepKeeps ==
  ASSUME Inv, NEW r \in Requests, WriteDoc(r) \/ Publish(r) \/ WriteVersion(r)
  PROVE  /\ row' = row /\ pc[r] # "idle"
         /\ \/ pc'[r] = "idle"
            \/ /\ SameStamps(tx'[r], tx[r]) /\ job'[r].by = job[r].by
               /\ pc'[r] \in {"lock", "put", "member"} =>
                    pc[r] \in {"lock", "put", "member"}
<1>0. /\ tx[r] \in Tx /\ tx \in [Requests -> Tx] /\ job[r] \in Job
      /\ job \in [Requests -> Job] /\ pc \in [Requests -> PCs]
  BY DEF Inv, TypeOK
<1>1. SameStamps(tx[r], tx[r])
  BY DEF SameStamps
<1>2. Close(r) => pc'[r] = "idle"
  BY <1>0 DEF Close
<1>3. ASSUME UNCHANGED job \/ (\E todo : job' = [job EXCEPT ![r].todo = todo])
               \/ (\E b : job' = [job EXCEPT ![r].body = b])
               \/ (\E n : job' = [job EXCEPT ![r].num = n])
      PROVE  job'[r].by = job[r].by
  BY <1>0, <1>3 DEF Job
<1>4. \A at : Goto(r, at) => pc'[r] = at
  BY <1>0 DEF Goto
<1>5. CASE Busy(r) \/ NotThere(r) \/ RefuseZip(r) \/ RefuseManual(r) \/ Collide(r)
  BY <1>2, <1>5 DEF Busy, NotThere, RefuseZip, RefuseManual, Collide, stores, LockFree
<1>6. CASE PutUpload(r) \/ Delete(r) \/ CountMembers(r)
  <2>1. \E tree : tx'[r] = Counted(tx[r], tree)
    BY <1>0, <1>6 DEF PutUpload, Delete, CountMembers
  <2>2. SameStamps(tx'[r], tx[r])
    BY <1>0, <2>1, CountedSame
  <2>3. /\ row' = row /\ pc[r] \in {"lock", "member"} /\ job'[r].by = job[r].by
    BY <1>3, <1>6 DEF PutUpload, Delete, CountMembers, LockFree, stores
  <2>. QED
    BY <2>2, <2>3
<1>7. CASE PutUpdate(r) \/ ReadHead(r) \/ ReadTarget(r) \/ Put(r) \/ PutMember(r)
  <2>1. /\ tx' = tx /\ row' = row /\ pc[r] \in {"lock", "put", "member"}
        /\ job'[r].by = job[r].by
    BY <1>3, <1>7 DEF PutUpdate, ReadHead, ReadTarget, Put, PutMember, LockFree, stores
  <2>. QED
    BY <1>1, <2>1
<1>8. CASE FlushCount(r) \/ Copy(r) \/ FlushRow(r)
  <2>1. /\ tx' = tx /\ row' = row /\ pc[r] # "idle" /\ job'[r].by = job[r].by
        /\ pc'[r] \in {"commit", "version", "flush", "scan"}
    BY <1>3, <1>4, <1>8 DEF FlushCount, Copy, FlushRow, stores
  <2>. QED
    BY <1>1, <2>1
<1>9. CASE HashTree(r)
  <2>1. tx'[r] = tx[r] \/ tx'[r] = Hashed(tx[r], TreeHash(work))
    BY <1>0, <1>9 DEF HashTree
  <2>2. SameStamps(tx'[r], tx[r])
    BY <1>0, <1>1, <2>1, HashedSame
  <2>3. row' = row /\ pc[r] # "idle" /\ job' = job /\ pc'[r] \in {"copy", "flush"}
    BY <1>4, <1>9 DEF HashTree, stores
  <2>. QED
    BY <2>2, <2>3
<1>10. CASE FetchDoc(r) \/ SkipDoc(r) \/ Decide(r) \/ TakeNumber(r)
  <2>1. CASE FetchDoc(r)
    <3>1. PICK f \in Files : job' = [job EXCEPT ![r].file = f, ![r].body = work[f],
                                               ![r].todo = @ \ {f}]
      BY <2>1 DEF FetchDoc
    <3>2. job'[r] = [job[r] EXCEPT !.file = f, !.body = work[f], !.todo = @ \ {f}]
      BY <1>0, <3>1
    <3>3. job'[r].by = job[r].by
      BY <1>0, <3>2 DEF Job
    <3>4. tx' = tx /\ row' = row /\ pc[r] # "idle" /\ pc'[r] = "version"
      BY <1>4, <2>1 DEF FetchDoc, stores
    <3>. QED
      BY <1>1, <3>3, <3>4
  <2>2. CASE SkipDoc(r)
    BY <1>1, <1>3, <1>4, <2>2 DEF SkipDoc, stores
  <2>3. CASE Decide(r) \/ TakeNumber(r)
    BY <1>1, <1>3, <1>4, <2>3 DEF Decide, TakeNumber, stores
  <2>. QED
    BY <1>10, <2>1, <2>2, <2>3
<1>11. CASE SkipUnchanged(r)
  <2>1. tx'[r] = tx[r] \/ \E v : tx'[r] = WithFixity(tx[r], v)
    BY <1>0, <1>11 DEF SkipUnchanged
  <2>2. SameStamps(tx'[r], tx[r])
    BY <1>0, <1>1, <2>1, WithFixitySame
  <2>3. row' = row /\ pc[r] # "idle" /\ job' = job /\ pc'[r] \in {"commit", "scan"}
    BY <1>4, <1>11 DEF SkipUnchanged, AfterDoc, stores
  <2>. QED
    BY <2>2, <2>3
<1>12. CASE Insert(r)
  <2>1. PICK v, kept : /\ kept = [tx[r] EXCEPT !.staged = @ \cup {v}]
                       /\ tx'[r] = WithFixity(kept, v) \/ tx'[r] = kept
    BY <1>0, <1>12 DEF Insert
  <2>2. kept.col = tx[r].col /\ kept.dirty = tx[r].dirty
    BY <1>0, <2>1 DEF Tx
  <2>3. tx'[r].col = tx[r].col /\ tx'[r].dirty = tx[r].dirty
    BY <1>0, <2>1, <2>2 DEF WithFixity, Tx
  <2>4. row' = row /\ pc[r] # "idle" /\ job' = job /\ pc'[r] \in {"commit", "scan"}
    BY <1>4, <1>12 DEF Insert, AfterDoc, stores
  <2>. QED
    BY <2>3, <2>4 DEF SameStamps
<1>. QED
  BY <1>5, <1>6, <1>7, <1>8, <1>9, <1>10, <1>11, <1>12
  DEF WriteDoc, Publish, WriteVersion

\* With one slot for requests, what the request in it knows is all there is to
\* know.
LEMMA AloneOnward ==
  ASSUME AloneInv, Inv', NEW r \in Requests, Agree(row)', SessionStands(r)', MayWrite(r)'
  PROVE  AloneInv'
BY DEF AloneInv, Alone

LEMMA BeginAlone == ASSUME AloneInv, Inv', NEW r \in Requests, Begin(r) PROVE AloneInv'
<1>0. Inv /\ Agree(row)
  BY DEF AloneInv
<1>1. CASE \/ BeginUpload(r) \/ BeginUpdate(r) \/ BeginDelete(r)
           \/ BeginManualSave(r) \/ BeginRollback(r) \/ BeginZones(r)
           \/ BeginZip(r) \/ BeginDeleteVersion(r)
  <2>1. /\ tx'[r].col = row /\ tx'[r].dirty = {} /\ row' = row /\ MayWrite(r)'
    BY <1>1, BeginDocumentAlone DEF stores
  <2>2. Agree(tx'[r].col) /\ Carried(tx[r])'
    BY <1>0, <2>1 DEF Carried
  <2>. QED
    BY <1>0, <2>1, <2>2, AloneOnward DEF SessionStands, Agree
<1>2. CASE \/ BeginAssign(r) \/ BeginSubmit(r) \/ BeginReject(r)
           \/ BeginPublish(r) \/ BeginDirectPublish(r) \/ BeginUnpublish(r)
  <2>1. /\ Agree(tx'[r].col) /\ Carried(tx[r])' /\ MayWrite(r)' /\ row' = row
    BY <1>2, BeginTransitionAlone DEF stores
  <2>. QED
    BY <1>0, <2>1, AloneOnward DEF SessionStands, Agree
<1>. QED
  BY <1>1, <1>2 DEF Begin

LEMMA StepAlone == ASSUME AloneInv, Inv', NEW r \in Requests, Step(r) PROVE AloneInv'
<1>0. Inv /\ Agree(row) /\ SessionStands(r) /\ MayWrite(r)
  BY DEF AloneInv
<1>1. CASE WriteDoc(r) \/ Publish(r) \/ WriteVersion(r)
  <2>1. /\ row' = row /\ pc[r] # "idle"
        /\ \/ pc'[r] = "idle"
           \/ /\ SameStamps(tx'[r], tx[r]) /\ job'[r].by = job[r].by
              /\ pc'[r] \in {"lock", "put", "member"} =>
                   pc[r] \in {"lock", "put", "member"}
    BY <1>0, <1>1, StepKeeps
  <2>2. Agree(row)' /\ MayWrite(r)'
    BY <1>0, <2>1 DEF MayWrite, Agree
  <2>3. SessionStands(r)'
    <3>1. ASSUME SameStamps(tx'[r], tx[r]) PROVE Agree(tx'[r].col) /\ Carried(tx[r])'
      <4>1. Agree(tx'[r].col) /\ Carried(tx'[r])
        BY <1>0, <2>1, <3>1, StandsWithSame DEF SessionStands
      <4>. QED
        BY <2>1, <4>1 DEF Carried
    <3>. QED
      BY <2>1, <3>1 DEF SessionStands, Agree
  <2>. QED
    BY <2>2, <2>3, AloneOnward
<1>2. CASE Commit(r)
  <2>1. pc[r] # "idle" /\ pc'[r] = "idle"
    BY <1>0, <1>2 DEF Commit, Close, Inv, TypeOK
  <2>2. Agree(row')
    BY <1>0, <1>2, <2>1, CommitWrites DEF SessionStands
  <2>. QED
    BY <2>1, <2>2, AloneOnward DEF SessionStands, MayWrite, Agree
<1>. QED
  BY <1>1, <1>2 DEF Step

LEMMA FailAlone ==
  ASSUME AloneInv, Inv', NEW r \in Requests, Fail(r) \/ CopyFails(r) PROVE AloneInv'
<1>1. row' = row /\ pc'[r] = "idle" /\ Agree(row)
  BY DEF Fail, CopyFails, Close, stores, AloneInv, Inv, TypeOK
<1>. QED
  BY <1>1, AloneOnward DEF SessionStands, MayWrite, Agree

LEMMA AloneStep == AloneInv /\ [Next]_vars => AloneInv'
<1> SUFFICES ASSUME AloneInv, [Next]_vars PROVE AloneInv'
  OBVIOUS
<1>1. Inv'
  BY NextInv DEF AloneInv
<1>2. CASE UNCHANGED vars
  BY <1>1, <1>2
  DEF vars, stores, AloneInv, Alone, SessionStands, MayWrite, Agree, Carried
<1>3. CASE Next
  BY <1>1, <1>3, BeginAlone, StepAlone, FailAlone DEF Next
<1>. QED
  BY <1>2, <1>3

LEMMA AloneInvariance == Alone /\ Spec => []AloneInv
BY AloneStart, AloneStep, PTL DEF Spec

\* When requests come one at a time the stamps of the row never disagree with
\* its status, in whatever order the transitions come and whatever fails on the
\* way (assign_collection, submit_collection, publish_collection and the other
\* transitions of services/xmldb.py).
THEOREM StampsOfOneRequest == Alone /\ Spec => []StampsAgree
<1>1. AloneInv => StampsAgree
  BY DEF AloneInv, Agree, StampsAgree
<1>. QED
  BY <1>1, AloneInvariance, PTL

\* When requests come one at a time only a Senior's changes the working tree of
\* a collection under review (_assert_write_access, read with the row).
THEOREM FreezeOfOneRequest == Alone /\ Spec => ReviewFreeze
<1>1. ASSUME AloneInv, [Next]_vars, row.status = "review", work' # work
      PROVE  \E r \in Requests : job[r].by \in Senior
  <2>1. PICK r \in Requests : Begin(r) \/ Step(r) \/ Fail(r) \/ CopyFails(r)
    BY <1>1 DEF Next, vars, stores
  <2>2. ~Begin(r)
    BY <1>1 DEF Begin, BeginUpload, BeginUpdate, BeginDelete, BeginZones,
       BeginZip, BeginManualSave, BeginRollback, BeginDeleteVersion, BeginAssign,
       BeginSubmit, BeginReject, BeginPublish, BeginDirectPublish, BeginUnpublish,
       Open, stores
  <2>3. ~Publish(r) /\ ~WriteVersion(r)
    BY <1>1 DEF Publish, HashTree, Copy, FlushRow, WriteVersion, FetchDoc, SkipDoc,
       SkipUnchanged, RefuseManual, Decide, TakeNumber, Insert, Collide, stores
  <2>4. ~Commit(r) /\ ~Fail(r) /\ ~CopyFails(r)
    BY <1>1 DEF Commit, Fail, CopyFails, stores
  <2>5. WriteDoc(r)
    BY <2>1, <2>2, <2>3, <2>4 DEF Step
  <2>6. pc[r] \in {"lock", "put", "member"}
    BY <1>1, <2>5 DEF WriteDoc, Busy, NotThere, PutUpload, PutUpdate, Delete, ReadHead,
       ReadTarget, Put, PutMember, CountMembers, RefuseZip, FlushCount, LockFree, stores
  <2>. QED
    BY <1>1, <2>6 DEF AloneInv, MayWrite
<1>2. AloneInv /\ [Next]_vars =>
        [row.status = "review" /\ work' # work =>
           \E r \in Requests : job[r].by \in Senior]_vars
  BY <1>1
<1>. QED
  BY <1>2, AloneInvariance, PTL DEF Spec, ReviewFreeze

-----------------------------------------------------------------------------
(* What a publication puts before the public is on record.                   *)

\* One request at a time, and nothing fails.
Unfailing == MaxFaults = 0

\* The hash is of what the public reads.
Honest(hash) == (hash = NoHash /\ snap = EmptyTree) \/ hash = TreeHash(snap)

Marked(r) == "hash" \in tx[r].dirty
AfterCopy == {"flush", "scan", "version", "number", "insert", "commit"}
Writing == {"version", "number", "insert"}

\* The hash that a publication will write is that of the tree it copies or has
\* copied; until then the committed one is that of the snapshot.
SnapKnown(r) ==
  /\ Marked(r) => job[r].op \in Publishing /\ pc[r] \in {"copy"} \cup AfterCopy
  /\ pc[r] = "copy" => Marked(r) /\ tx[r].col.hash = work
  /\ ~Marked(r) \/ pc[r] = "copy" => Honest(row.hash)
  /\ Marked(r) /\ pc[r] # "copy" => tx[r].col.hash = snap
  /\ ~Marked(r) /\ pc[r] # "idle" => tx[r].col.hash = row.hash

\* A publication has, of every document the public now reads, a row or the
\* document still to go through.
PassKnown(r) == job[r].op \in Publishing =>
  /\ pc[r] \in {"hash", "copy"} \cup AfterCopy /\ tx[r].dropped = {}
  /\ pc[r] \in AfterCopy => work = snap
  /\ pc[r] \in AfterCopy \ {"flush"} => \A f \in Docs(work) :
       \/ f \in job[r].todo
       \/ pc[r] \in Writing /\ f = job[r].file
       \/ SameAsLatest(Seen(r), f, work[f])
  /\ pc[r] \in Writing => job[r].body = work[job[r].file]
  /\ pc[r] = "insert" => IsNextNumber(job[r].num, Seen(r), job[r].file)
  /\ pc[r] = "commit" => job[r].todo = {}

OneByOne ==
  /\ AloneInv /\ Unfailing /\ SnapshotMatchesHash
  /\ \A r \in Requests : SnapKnown(r) /\ PassKnown(r)

-----------------------------------------------------------------------------
LEMMA OneByOneStart == Alone /\ Unfailing /\ Init => OneByOne
<1> SUFFICES ASSUME Alone, Unfailing, Init PROVE OneByOne
  OBVIOUS
<1>1. /\ row.hash = NoHash /\ snap = EmptyTree
      /\ \A r \in Requests : pc[r] = "idle" /\ job[r].op = "none" /\ tx[r].dirty = {}
  BY DEF Init, NewRow, NoJob, NoTx, Session
<1>2. \A r \in Requests : SnapKnown(r)
  BY <1>1 DEF SnapKnown, Marked, Honest, AfterCopy
<1>3. \A r \in Requests : PassKnown(r)
  BY <1>1 DEF PassKnown, Publishing
<1>4. SnapshotMatchesHash
  BY <1>1 DEF SnapshotMatchesHash
<1>. QED
  BY <1>2, <1>3, <1>4, AloneStart DEF OneByOne

\* With one slot, and a step of the request in it.
LEMMA OneByOneOnward ==
  ASSUME OneByOne, AloneInv', NEW r \in Requests, SnapKnown(r)', PassKnown(r)'
  PROVE  OneByOne'
<1>1. \A q \in Requests : q = r
  BY DEF OneByOne, AloneInv, Alone
<1>2. SnapshotMatchesHash'
  BY DEF SnapshotMatchesHash, Quiet, SnapKnown, Marked, Honest, AfterCopy
<1>. QED
  BY <1>1, <1>2 DEF OneByOne, Unfailing

\* A request that ends before it has marked the hash leaves it honest.
LEMMA EndsHonest ==
  ASSUME Inv, NEW r \in Requests, Close(r), Honest(row.hash)'
  PROVE  SnapKnown(r)' /\ PassKnown(r)'
<1>1. pc'[r] = "idle" /\ job'[r] = NoJob /\ tx'[r] = NoTx
  BY DEF Close, Inv, TypeOK
<1>2. tx'[r].dirty = {} /\ job'[r].op = "none"
  BY <1>1 DEF NoTx, Session, NoJob
<1>3. PassKnown(r)'
  BY <1>2 DEF PassKnown, Publishing
<1>. QED
  BY <1>1, <1>2, <1>3 DEF SnapKnown, Marked, Honest

\* What a request is when it has begun: it has noted the hash as it is.
LEMMA BeginKnown ==
  ASSUME OneByOne, NEW r \in Requests, Begin(r)
  PROVE  SnapKnown(r)' /\ PassKnown(r)'
<1>0. Inv /\ pc[r] = "idle" /\ UNCHANGED <<row, snap, faults>>
  BY DEF OneByOne, AloneInv, Begin, BeginUpload, BeginUpdate, BeginDelete, BeginZones,
     BeginZip, BeginManualSave, BeginRollback, BeginDeleteVersion, BeginAssign,
     BeginSubmit, BeginReject, BeginPublish, BeginDirectPublish, BeginUnpublish,
     Open, stores
<1>1. Honest(row.hash)
  BY <1>0 DEF OneByOne, SnapKnown, Marked, AfterCopy
<1>2. ASSUME "hash" \notin tx'[r].dirty, tx'[r].col.hash = row.hash, pc'[r] # "copy",
             job'[r].op \in Publishing => pc'[r] = "hash" /\ tx'[r].dropped = {}
      PROVE  SnapKnown(r)' /\ PassKnown(r)'
  BY <1>0, <1>1, <1>2 DEF SnapKnown, PassKnown, Marked, Honest, AfterCopy, Writing
<1>3. CASE \/ BeginUpload(r) \/ BeginUpdate(r) \/ BeginDelete(r)
           \/ BeginManualSave(r) \/ BeginRollback(r) \/ BeginZones(r)
           \/ BeginZip(r) \/ BeginDeleteVersion(r)
  <2>1. tx'[r].col = row /\ tx'[r].dirty = {}
    BY <1>3, BeginDocumentAlone DEF OneByOne
  <2>2. pc'[r] # "copy" /\ job'[r].op \notin Publishing
    <3>1. \A u \in Users, o \in OpNames : Request(o, u) \in Job /\ Request(o, u).op = o
      BY RequestType
    <3>2. ASSUME NEW u \in Users, NEW o \in OpNames \ Publishing,
                 NEW j \in {Request(o, u)}, NEW f, NEW b, NEW n, NEW k, NEW session,
                 NEW at \in {"lock", "put", "member", "commit"},
                 \/ k = [j EXCEPT !.file = f, !.body = b] \/ k = [j EXCEPT !.file = f]
                 \/ k = [j EXCEPT !.file = f, !.num = n]
                 \/ k = [j EXCEPT !.todo = f, !.body = b],
                 Open(r, k, session, at)
          PROVE  pc'[r] # "copy" /\ job'[r].op \notin Publishing
      <4>0. j \in Job /\ j.op = o
        BY <3>1
      <4>1. k.op = o
        <5>1. CASE k = [j EXCEPT !.file = f, !.body = b]
          BY <4>0, <5>1 DEF Job
        <5>2. CASE k = [j EXCEPT !.file = f]
          BY <4>0, <5>2 DEF Job
        <5>3. CASE k = [j EXCEPT !.file = f, !.num = n]
          BY <4>0, <5>3 DEF Job
        <5>4. CASE k = [j EXCEPT !.todo = f, !.body = b]
          BY <4>0, <5>4 DEF Job
        <5>. QED
          BY <3>2, <5>1, <5>2, <5>3, <5>4
      <4>2. pc'[r] = at /\ job'[r] = k
        BY <1>0, <3>2, Opened
      <4>. QED
        BY <4>1, <4>2
    <3>3. {"upload", "update", "delete", "manual", "rollback", "zones", "zip",
           "delete_version"} \subseteq OpNames \ Publishing
      BY DEF OpNames, Publishing
    <3>4. CASE BeginUpload(r)
      BY <3>2, <3>3, <3>4 DEF BeginUpload
    <3>5. CASE BeginUpdate(r)
      BY <3>2, <3>3, <3>5 DEF BeginUpdate
    <3>6. CASE BeginDelete(r)
      BY <3>2, <3>3, <3>6 DEF BeginDelete
    <3>7. CASE BeginManualSave(r)
      BY <3>2, <3>3, <3>7 DEF BeginManualSave
    <3>8. CASE BeginRollback(r)
      BY <3>2, <3>3, <3>8 DEF BeginRollback
    <3>9. CASE BeginZones(r)
      BY <3>2, <3>3, <3>9 DEF BeginZones
    <3>10. CASE BeginZip(r)
      BY <3>2, <3>3, <3>10 DEF BeginZip
    <3>11. CASE BeginDeleteVersion(r)
      BY <3>2, <3>3, <3>11 DEF BeginDeleteVersion
    <3>. QED
      BY <1>3, <3>4, <3>5, <3>6, <3>7, <3>8, <3>9, <3>10, <3>11
  <2>. QED
    BY <1>2, <2>1, <2>2
<1>4. CASE \/ BeginAssign(r) \/ BeginSubmit(r) \/ BeginReject(r)
           \/ BeginPublish(r) \/ BeginDirectPublish(r) \/ BeginUnpublish(r)
  <2>1. ASSUME NEW o \in OpNames, NEW u \in Users, NEW col, NEW dirty, NEW at,
               Open(r, Request(o, u), Session(col, dirty), at), "hash" \notin dirty,
               col.hash = row.hash, at # "copy", o \in Publishing => at = "hash"
        PROVE  SnapKnown(r)' /\ PassKnown(r)'
    <3>1. /\ pc'[r] = at /\ job'[r].op = o /\ tx'[r].col = col /\ tx'[r].dirty = dirty
          /\ tx'[r].dropped = {}
      BY <1>0, <2>1, Opened, RequestType, SessionFields
    <3>. QED
      BY <1>2, <2>1, <3>1
  <2>2. /\ Senior \subseteq Users /\ Admins \subseteq Users /\ row \in Row
    BY <1>0, EditorialAssumption DEF Inv, TypeOK
  <2>3. CASE BeginAssign(r)
    <3>1. PICK u \in Senior, e \in Users :
          LET col == [row EXCEPT !.editor = e, !.status = "assigned",
                                 !.assigned = TRUE]
              changed == {c \in {"editor", "status"} : col[c] # row[c]}
          IN  Open(r, Request("assign", u),
                   Session(col, changed \cup {"assigned"}), "commit")
      BY <2>3 DEF BeginAssign
    <3> DEFINE col == [row EXCEPT !.editor = e, !.status = "assigned", !.assigned = TRUE]
               dirty == {c \in {"editor", "status"} : col[c] # row[c]} \cup {"assigned"}
    <3>2. Open(r, Request("assign", u), Session(col, dirty), "commit")
      BY <3>1
    <3>3. col.hash = row.hash /\ "hash" \notin dirty
      BY <2>2 DEF Row
    <3> HIDE DEF col, dirty
    <3>. QED
      BY <2>1, <2>2, <3>2, <3>3 DEF OpNames, Publishing
  <2>4. CASE BeginSubmit(r) \/ BeginReject(r)
    <3>1. PICK u, o, col :
            /\ u \in Users /\ o \in {"submit", "reject"}
            /\ col.hash = row.hash
            /\ Open(r, Request(o, u), Session(col, {"status", "submitted"}), "flush")
      <4>1. /\ [row EXCEPT !.status = "review", !.submitted = TRUE].hash = row.hash
            /\ [row EXCEPT !.status = "assigned", !.submitted = FALSE].hash = row.hash
        BY <2>2 DEF Row
      <4>. QED
        BY <2>2, <2>4, <4>1 DEF BeginSubmit, BeginReject
    <3>. QED
      BY <2>1, <3>1 DEF OpNames, Publishing
  <2>5. CASE BeginPublish(r) \/ BeginDirectPublish(r) \/ BeginUnpublish(r)
    <3>1. Published(row).hash = row.hash /\ Unpublished(row).hash = row.hash
      BY <2>2 DEF Row, Published, Unpublished
    <3>2. PICK u, o, col, at :
            /\ u \in Users /\ o \in OpNames
            /\ col.hash = row.hash /\ at # "copy" /\ (o \in Publishing => at = "hash")
            /\ Open(r, Request(o, u), Session(col, {"status", "published"}), at)
      BY <2>2, <2>5, <3>1 DEF BeginPublish, BeginDirectPublish, BeginUnpublish, OpNames,
         Publishing
    <3>. QED
      BY <2>1, <3>2
  <2>. QED
    BY <1>4, <2>3, <2>4, <2>5
<1>. QED
  BY <1>3, <1>4 DEF Begin

\* A handler on documents marks no hash and publishes nothing.
LEMMA WriteDocKnown ==
  ASSUME OneByOne, NEW r \in Requests, WriteDoc(r)
  PROVE  SnapKnown(r)' /\ PassKnown(r)'
<1>0. /\ Inv /\ tx[r] \in Tx /\ tx \in [Requests -> Tx] /\ job[r] \in Job
      /\ job \in [Requests -> Job] /\ pc \in [Requests -> PCs]
  BY DEF OneByOne, AloneInv, Inv, TypeOK
<1>1. pc[r] \in {"lock", "put", "member", "count"} /\ UNCHANGED <<row, snap>>
  BY DEF WriteDoc, Busy, NotThere, PutUpload, PutUpdate, Delete, ReadHead,
     ReadTarget, Put, PutMember, CountMembers, RefuseZip, FlushCount, LockFree, stores
<1>2. /\ job[r].op \notin Publishing /\ ~Marked(r) /\ Honest(row.hash)
      /\ tx[r].col.hash = row.hash
  BY <1>1 DEF OneByOne, SnapKnown, PassKnown, AfterCopy
<1>3. CASE Busy(r) \/ NotThere(r) \/ RefuseZip(r)
  <2>1. Close(r) /\ Honest(row.hash)'
    BY <1>1, <1>2, <1>3 DEF Busy, NotThere, RefuseZip, Honest
  <2>. QED
    BY <1>0, <2>1, EndsHonest
<1>4. ASSUME job'[r].op = job[r].op, pc'[r] # "copy", tx'[r].col.hash = tx[r].col.hash,
             "hash" \in tx'[r].dirty => "hash" \in tx[r].dirty
      PROVE  SnapKnown(r)' /\ PassKnown(r)'
  BY <1>1, <1>2, <1>4 DEF SnapKnown, PassKnown, Marked, Honest
<1>5. CASE ~(Busy(r) \/ NotThere(r) \/ RefuseZip(r))
  <2>1. job'[r].op = job[r].op
    BY <1>0, <1>5 DEF WriteDoc, PutUpload, PutUpdate, Delete, ReadHead, ReadTarget, Put,
       PutMember, CountMembers, FlushCount, Job
  <2>2. pc'[r] # "copy"
    BY <1>0, <1>1, <1>5 DEF WriteDoc, PutUpload, PutUpdate, Delete, ReadHead, ReadTarget,
       Put, PutMember, CountMembers, FlushCount, Goto
  <2>3. tx'[r] = tx[r] \/ \E tree : tx'[r] = Counted(tx[r], tree)
    BY <1>0, <1>5 DEF WriteDoc, PutUpload, PutUpdate, Delete, ReadHead, ReadTarget, Put,
       PutMember, CountMembers, FlushCount
  <2>4. \A tree : /\ Counted(tx[r], tree).col.hash = tx[r].col.hash
                  /\ "hash" \in Counted(tx[r], tree).dirty => "hash" \in tx[r].dirty
    <3> SUFFICES ASSUME NEW tree
                 PROVE  /\ Counted(tx[r], tree).col.hash = tx[r].col.hash
                        /\ "hash" \in Counted(tx[r], tree).dirty => "hash" \in tx[r].dirty
      OBVIOUS
    <3>1. CASE Counted(tx[r], tree) = tx[r]
      BY <3>1
    <3>2. CASE Counted(tx[r], tree) =
                 [tx[r] EXCEPT !.col.docCount = DocCount(tree), !.dirty = @ \cup {"docCount"}]
      <4>1. /\ Counted(tx[r], tree).col = [tx[r].col EXCEPT !.docCount = DocCount(tree)]
            /\ Counted(tx[r], tree).dirty = tx[r].dirty \cup {"docCount"}
        BY <1>0, <3>2 DEF Tx
      <4>2. tx[r].col \in Row
        BY <1>0 DEF Tx
      <4>. QED
        BY <4>1, <4>2 DEF Row
    <3>. QED
      BY <3>1, <3>2 DEF Counted
  <2>. QED
    BY <1>4, <2>1, <2>2, <2>3, <2>4
<1>. QED
  BY <1>3, <1>5

\* The hash marked is that of the tree copied, and a publication whose tree is
\* that of the hash needs no copy.
LEMMA PublishKnown ==
  ASSUME OneByOne, NEW r \in Requests, Publish(r)
  PROVE  SnapKnown(r)' /\ PassKnown(r)'
<1>0. /\ Inv /\ tx[r] \in Tx /\ tx \in [Requests -> Tx] /\ job[r] \in Job
      /\ job \in [Requests -> Job] /\ pc \in [Requests -> PCs] /\ work \in Tree
      /\ SnapKnown(r) /\ PassKnown(r) /\ Fits(job[r], pc[r])
  BY DEF OneByOne, AloneInv, Inv, TypeOK, JobsFit
<1>1. CASE HashTree(r)
  <2>1. /\ pc[r] = "hash" /\ ~Marked(r) /\ Honest(row.hash) /\ tx[r].col.hash = row.hash
        /\ UNCHANGED <<row, work, snap, versions, job>> /\ job[r].op \in Publishing
    BY <1>0, <1>1 DEF HashTree, SnapKnown, AfterCopy, stores, Fits
  <2>2. CASE TreeHash(work) = tx[r].col.hash
    <3>1. pc'[r] = "flush" /\ tx' = tx
      BY <1>0, <1>1, <2>2 DEF HashTree, Goto
    <3>2. work = snap
      BY <1>0, <2>1, <2>2, EditorialAssumption DEF Honest, TreeHash, Tree
    <3>. QED
      BY <1>0, <2>1, <3>1, <3>2
      DEF SnapKnown, PassKnown, Marked, Honest, AfterCopy, Writing
  <2>3. CASE TreeHash(work) # tx[r].col.hash
    <3>1. pc'[r] = "copy" /\ tx'[r] = Hashed(tx[r], TreeHash(work))
      BY <1>0, <1>1, <2>3 DEF HashTree, Goto
    <3>2. tx[r].col \in Row
      BY <1>0 DEF Tx
    <3>3. /\ tx'[r].col.hash = work /\ tx'[r].dirty = tx[r].dirty \cup {"hash"}
          /\ tx'[r].dropped = tx[r].dropped
      BY <1>0, <3>1, <3>2 DEF Hashed, TreeHash, Tx, Row
    <3>. QED
      BY <1>0, <2>1, <3>1, <3>3
      DEF SnapKnown, PassKnown, Marked, Honest, AfterCopy, Writing
  <2>. QED
    BY <2>2, <2>3
<1>2. CASE Copy(r)
  <2>1. /\ pc[r] = "copy" /\ pc'[r] = "flush" /\ snap' = work
        /\ UNCHANGED <<row, work, versions, job, tx>>
    BY <1>0, <1>2 DEF Copy, Goto
  <2>. QED
    BY <1>0, <2>1 DEF SnapKnown, PassKnown, Marked, Honest, AfterCopy, Writing
<1>3. CASE FlushRow(r)
  <2>1. /\ pc[r] = "flush" /\ pc'[r] = IF Docs(work) = {} THEN "commit" ELSE "scan"
        /\ UNCHANGED <<row, work, snap, versions, tx>>
        /\ job'[r].op = job[r].op /\ job'[r].todo = Docs(work)
    BY <1>0, <1>3 DEF FlushRow, Goto, stores, Job
  <2>2. SnapKnown(r)'
    BY <1>0, <2>1 DEF SnapKnown, Marked, Honest, AfterCopy
  <2>3. PassKnown(r)'
    BY <1>0, <2>1 DEF PassKnown, AfterCopy, Writing
  <2>. QED
    BY <2>2, <2>3
<1>. QED
  BY <1>1, <1>2, <1>3 DEF Publish

\* The latest row of a document is the same among other rows with the same of
\* that document.
LEMMA SameHistory ==
  ASSUME NEW rows, NEW others, NEW f, NEW b, Of(rows, f) = Of(others, f),
         SameAsLatest(rows, f, b)
  PROVE  SameAsLatest(others, f, b)
<1>1. PICK v \in Of(rows, f) : IsLatest(v, rows) /\ v.body = b
  BY DEF SameAsLatest
<1>2. v.file = f /\ v \in others
  BY <1>1 DEF Of
<1>3. IsLatest(v, others)
  BY <1>1, <1>2 DEF IsLatest
<1>. QED
  BY <1>1, <1>3 DEF SameAsLatest

\* A row with the next number is the latest of its document.
LEMMA NextIsLatest ==
  ASSUME NEW rows \in SUBSET Version, NEW v, v.n \in Nat,
         IsNextNumber(v.n, rows, v.file)
  PROVE  SameAsLatest(rows \cup {v}, v.file, v.body)
<1>1. \A w \in Of(rows, v.file) : w.n < v.n /\ w.n \in Nat
  BY VersionsAssumption DEF IsNextNumber, Of, Version, VersionNumbers
<1>2. \A w \in Of(rows \cup {v}, v.file) : w.n <= v.n
  BY <1>1 DEF Of
<1>. QED
  BY <1>2 DEF SameAsLatest, IsLatest, Of

\* The step of a pass that leaves the session's rows, the tree and the snapshot,
\* and puts no document aside.
LEMMA PassGoesOn ==
  ASSUME OneByOne, NEW r \in Requests, pc[r] \in {"scan", "version", "number", "insert"},
         UNCHANGED <<row, work, snap, versions>>,
         job'[r].op = job[r].op, pc'[r] \in AfterCopy,
         "hash" \in tx'[r].dirty <=> "hash" \in tx[r].dirty,
         tx'[r].col.hash = tx[r].col.hash, tx'[r].dropped = tx[r].dropped,
         job[r].op \in Publishing =>
           /\ pc'[r] \in AfterCopy \ {"flush"} => \A f \in Docs(work) :
                \/ f \in job'[r].todo
                \/ pc'[r] \in Writing /\ f = job'[r].file
                \/ SameAsLatest(Seen(r)', f, work[f])
           /\ pc'[r] \in Writing => job'[r].body = work[job'[r].file]
           /\ pc'[r] = "insert" => IsNextNumber(job'[r].num, Seen(r)', job'[r].file)
           /\ pc'[r] = "commit" => job'[r].todo = {}
  PROVE  SnapKnown(r)' /\ PassKnown(r)'
<1>0. SnapKnown(r) /\ PassKnown(r)
  BY DEF OneByOne
<1>1. SnapKnown(r)'
  BY <1>0 DEF SnapKnown, Marked, Honest, AfterCopy
<1>2. work' = work /\ Docs(work)' = Docs(work)
  BY DEF Docs
<1>3. PassKnown(r)'
  BY <1>0, <1>2 DEF PassKnown, AfterCopy, SameAsLatest, IsNextNumber, IsLatest, Of
<1>. QED
  BY <1>1, <1>3

LEMMA WriteVersionKnown ==
  ASSUME OneByOne, NEW r \in Requests, WriteVersion(r)
  PROVE  SnapKnown(r)' /\ PassKnown(r)'
<1>0. /\ Inv /\ tx[r] \in Tx /\ tx \in [Requests -> Tx] /\ job[r] \in Job
      /\ job \in [Requests -> Job] /\ pc \in [Requests -> PCs] /\ work \in Tree
      /\ SnapKnown(r) /\ PassKnown(r) /\ Fits(job[r], pc[r])
      /\ Seen(r) \in SUBSET Version
  BY DEF OneByOne, AloneInv, Inv, TypeOK, JobsFit, Seen, Tx
<1>1. CASE FetchDoc(r)
  <2>1. PICK f \in Files : job' = [job EXCEPT ![r].file = f, ![r].body = work[f],
                                             ![r].todo = @ \ {f}]
    BY <1>1 DEF FetchDoc
  <2>2. job'[r] = [job[r] EXCEPT !.file = f, !.body = work[f], !.todo = @ \ {f}]
    BY <1>0, <2>1
  <2>3. /\ job'[r].op = job[r].op /\ job'[r].file = f /\ job'[r].body = work[f]
        /\ job'[r].todo = job[r].todo \ {f}
    BY <1>0, <2>2 DEF Job
  <2>4. /\ pc[r] = "scan" /\ pc'[r] = "version" /\ tx' = tx
        /\ UNCHANGED <<row, work, snap, versions>> /\ Seen(r)' = Seen(r)
    BY <1>0, <1>1 DEF FetchDoc, Goto, stores, Seen
  <2>. QED
    BY <1>0, <2>3, <2>4, PassGoesOn DEF PassKnown, AfterCopy, Writing
<1>2. CASE SkipDoc(r)
  <2>1. PICK f \in Files :
          /\ pc[r] = "scan" /\ work[f] = Absent
          /\ job' = [job EXCEPT ![r].todo = @ \ {f}]
          /\ Goto(r, IF job[r].todo = {f} THEN "commit" ELSE "scan")
          /\ UNCHANGED <<stores, locks, tx>>
    <3>1. ~ (faults < MaxFaults)
      <4>1. faults \in 0..MaxFaults
        BY <1>0 DEF Inv, TypeOK
      <4>2. MaxFaults = 0
        BY DEF OneByOne, Unfailing
      <4>. QED
        BY <4>1, <4>2
    <3>. QED
      BY <1>0, <1>2, <3>1 DEF SkipDoc, Job
  <2>2. job'[r].op = job[r].op /\ job'[r].todo = job[r].todo \ {f} /\ f \notin Docs(work)
    BY <1>0, <2>1 DEF Job, Docs
  <2>3. /\ pc'[r] = IF job[r].todo = {f} THEN "commit" ELSE "scan"
        /\ tx' = tx /\ UNCHANGED <<row, work, snap, versions>> /\ Seen(r)' = Seen(r)
    BY <1>0, <2>1 DEF Goto, stores, Seen
  <2>. QED
    BY <1>0, <2>1, <2>2, <2>3, PassGoesOn DEF PassKnown, AfterCopy, Writing
<1>3. CASE SkipUnchanged(r)
  <2>1. /\ pc[r] = "version" /\ SameAsLatest(Seen(r), job[r].file, job[r].body)
        /\ pc'[r] = AfterDoc(r) /\ job' = job /\ UNCHANGED <<row, work, snap, versions>>
    BY <1>0, <1>3 DEF SkipUnchanged, Goto, stores
  <2>2. tx'[r] = tx[r] \/ \E v : tx'[r] = WithFixity(tx[r], v)
    BY <1>0, <1>3 DEF SkipUnchanged
  <2>3. /\ tx'[r].col = tx[r].col /\ tx'[r].dirty = tx[r].dirty
        /\ tx'[r].dropped = tx[r].dropped /\ tx'[r].staged = tx[r].staged
    BY <1>0, <2>2 DEF WithFixity, Tx
  <2>4. Seen(r)' = Seen(r)
    BY <2>1, <2>3 DEF Seen
  <2>. QED
    BY <1>0, <2>1, <2>3, <2>4, PassGoesOn DEF PassKnown, AfterCopy, Writing, AfterDoc
<1>4. CASE RefuseManual(r)
  <2>1. job[r].op \notin Publishing /\ Close(r) /\ UNCHANGED <<row, snap>>
        /\ pc[r] = "version"
    BY <1>4 DEF RefuseManual, Publishing, stores
  <2>2. Honest(row.hash)'
    BY <1>0, <2>1 DEF SnapKnown, Honest
  <2>. QED
    BY <1>0, <2>1, <2>2, EndsHonest
<1>5. CASE Decide(r)
  <2>1. /\ pc[r] = "version" /\ pc'[r] = "number" /\ job' = job /\ tx' = tx
        /\ UNCHANGED <<row, work, snap, versions>> /\ Seen(r)' = Seen(r)
    BY <1>0, <1>5 DEF Decide, Goto, stores, Seen
  <2>. QED
    BY <1>0, <2>1, PassGoesOn DEF PassKnown, AfterCopy, Writing
<1>6. CASE TakeNumber(r)
  <2>1. PICK n \in VersionNumbers : /\ IsNextNumber(n, Seen(r), job[r].file)
                                    /\ job' = [job EXCEPT ![r].num = n]
    BY <1>6 DEF TakeNumber
  <2>2. /\ job'[r].op = job[r].op /\ job'[r].num = n /\ job'[r].file = job[r].file
        /\ job'[r].body = job[r].body /\ job'[r].todo = job[r].todo
    BY <1>0, <2>1 DEF Job
  <2>3. /\ pc[r] = "number" /\ pc'[r] = "insert" /\ tx' = tx
        /\ UNCHANGED <<row, work, snap, versions>> /\ Seen(r)' = Seen(r)
    BY <1>0, <1>6 DEF TakeNumber, Goto, stores, Seen
  <2>. QED
    BY <1>0, <2>1, <2>2, <2>3, PassGoesOn DEF PassKnown, AfterCopy, Writing
<1>7. CASE Insert(r)
  <2> DEFINE v == NewVersion(r)
  <2>1. /\ pc[r] = "insert" /\ pc'[r] = AfterDoc(r) /\ job' = job
        /\ UNCHANGED <<row, work, snap, versions>>
    BY <1>0, <1>7 DEF Insert, Goto, stores
  <2>2. PICK kept : /\ kept = [tx[r] EXCEPT !.staged = @ \cup {v}]
                    /\ tx'[r] = WithFixity(kept, v) \/ tx'[r] = kept
    BY <1>0, <1>7 DEF Insert
  <2>3. /\ tx'[r].col = tx[r].col /\ tx'[r].dirty = tx[r].dirty
        /\ tx'[r].dropped = tx[r].dropped /\ tx'[r].staged = tx[r].staged \cup {v}
    <3>1. /\ kept.col = tx[r].col /\ kept.dirty = tx[r].dirty
          /\ kept.dropped = tx[r].dropped /\ kept.staged = tx[r].staged \cup {v}
      BY <1>0, <2>2 DEF Tx
    <3>2. /\ WithFixity(kept, v).col = kept.col /\ WithFixity(kept, v).dirty = kept.dirty
          /\ WithFixity(kept, v).dropped = kept.dropped
          /\ WithFixity(kept, v).staged = kept.staged
      BY <1>0, <2>2 DEF WithFixity, Tx
    <3>. QED
      BY <2>2, <3>1, <3>2
  <2>4. v.file = job[r].file /\ v.n = job[r].num /\ v.body = job[r].body
    BY DEF NewVersion
  <2>5. job[r].num \in Nat
    BY <1>0, VersionsAssumption DEF Job
  <2> HIDE DEF v
  <2>6. Seen(r)' = Seen(r) \cup {v}
    BY <2>1, <2>3 DEF Seen
  <2>7. \A f : f # v.file => Of(Seen(r)', f) = Of(Seen(r), f)
    BY <2>6 DEF Of
  <2>8. job[r].op \in Publishing =>
          SameAsLatest(Seen(r)', job[r].file, work[job[r].file])
    BY <1>0, <2>1, <2>4, <2>5, <2>6, NextIsLatest DEF PassKnown, Writing
  <2>9. \A f : f # job[r].file /\ SameAsLatest(Seen(r), f, work[f]) =>
                 SameAsLatest(Seen(r)', f, work[f])
    BY <2>4, <2>7, SameHistory
  <2>. QED
    BY <1>0, <2>1, <2>3, <2>8, <2>9, PassGoesOn
    DEF PassKnown, AfterCopy, Writing, AfterDoc
<1>8. CASE Collide(r)
  <2>1. pc[r] = "insert" /\ KeyTaken(r) /\ Close(r) /\ UNCHANGED <<row, snap>>
    BY <1>8 DEF Collide, stores
  <2>2. job[r].op \notin Publishing
    <3> SUFFICES ASSUME job[r].op \in Publishing PROVE FALSE
      OBVIOUS
    <3>1. \A w \in Of(Seen(r), job[r].file) : w.n < job[r].num
      BY <1>0, <2>1 DEF PassKnown, IsNextNumber
    <3>2. PICK w \in Seen(r) : w.file = job[r].file /\ w.n = job[r].num
      BY <2>1 DEF KeyTaken, SameKey, NewVersion
    <3>3. w.n < job[r].num /\ w.n \in Nat
      BY <1>0, <3>1, <3>2, VersionsAssumption DEF Of, Version, VersionNumbers
    <3>. QED
      BY <3>2, <3>3
  <2>3. Honest(row.hash)'
    BY <1>0, <2>1, <2>2 DEF SnapKnown, Honest
  <2>. QED
    BY <1>0, <2>1, <2>3, EndsHonest
<1>. QED
  BY <1>1, <1>2, <1>3, <1>4, <1>5, <1>6, <1>7, <1>8 DEF WriteVersion

\* The commit of a publication writes the hash of what it has copied.
LEMMA CommitKnown ==
  ASSUME OneByOne, NEW r \in Requests, Commit(r)
  PROVE  SnapKnown(r)' /\ PassKnown(r)'
<1>0. Inv /\ SnapKnown(r) /\ tx[r] \in Tx /\ snap \in Tree
  BY DEF OneByOne, AloneInv, Inv, TypeOK
<1>1. /\ pc[r] = "commit" /\ Close(r) /\ snap' = snap
      /\ row'.hash = IF Marked(r) THEN tx[r].col.hash ELSE row.hash
  BY DEF Commit, Overlay, Pick, Marked
<1>2. Honest(row.hash)'
  BY <1>0, <1>1 DEF SnapKnown, Honest, TreeHash
<1>. QED
  BY <1>0, <1>1, <1>2, EndsHonest

LEMMA OneByOneStep == OneByOne /\ [Next]_vars => OneByOne'
<1> SUFFICES ASSUME OneByOne, [Next]_vars PROVE OneByOne'
  OBVIOUS
<1>1. AloneInv'
  BY AloneStep DEF OneByOne
<1>2. CASE UNCHANGED vars
  BY <1>1, <1>2
  DEF vars, stores, OneByOne, Unfailing, SnapshotMatchesHash, Quiet, SnapKnown,
      PassKnown, Marked, Honest, Seen, SameAsLatest, IsNextNumber, IsLatest, Of, Docs
<1>3. CASE Next
  <2>1. PICK r \in Requests : Begin(r) \/ Step(r) \/ Fail(r) \/ CopyFails(r)
    BY <1>3 DEF Next
  <2>2. ~Fail(r) /\ ~CopyFails(r)
    BY DEF Fail, CopyFails, OneByOne, Unfailing, AloneInv, Inv, TypeOK
  <2>3. SnapKnown(r)' /\ PassKnown(r)'
    BY <2>1, <2>2, BeginKnown, WriteDocKnown, PublishKnown, WriteVersionKnown, CommitKnown
    DEF Step
  <2>. QED
    BY <1>1, <2>3, OneByOneOnward
<1>. QED
  BY <1>2, <1>3

LEMMA OneByOneInvariance == Alone /\ Unfailing /\ Spec => []OneByOne
BY OneByOneStart, OneByOneStep, PTL DEF Spec

\* When requests come one at a time and nothing fails, the hash in the row is
\* that of the public snapshot whenever no request is in flight, whatever was
\* published, unpublished and edited before (publish_collection,
\* publish_and_snapshot).
THEOREM HashOfOneRequest == Alone /\ Unfailing /\ Spec => []SnapshotMatchesHash
<1>1. OneByOne => SnapshotMatchesHash
  BY DEF OneByOne
<1>. QED
  BY <1>1, OneByOneInvariance, PTL

\* When requests come one at a time and nothing fails, a publication commits
\* with every document it has made public at the head of that document's
\* history, although it writes a row only for a document that changed
\* (_snapshot_collection_documents, create_version).
THEOREM RecordOfOneRequest == Alone /\ Unfailing /\ Spec => PublishedIsOnRecord
<1>1. ASSUME OneByOne, [Next]_vars, NEW r \in Requests, Commits(r),
             job[r].op \in Publishing, NEW f \in Docs(snap)
      PROVE  \E v \in Of(versions', f) : IsLatest(v, versions') /\ v.body = snap[f]
  <2>0. Inv /\ PassKnown(r) /\ pc[r] = "commit" /\ pc'[r] = "idle"
    BY <1>1 DEF OneByOne, AloneInv, Commits
  <2>1. PICK q \in Requests : Begin(q) \/ Step(q) \/ Fail(q) \/ CopyFails(q)
    BY <1>1, <2>0 DEF Next, vars
  <2>2. q = r
    BY <1>1 DEF OneByOne, AloneInv, Alone
  <2>3. ~Begin(r)
    BY <2>0 DEF Begin, BeginUpload, BeginUpdate, BeginDelete, BeginZones,
       BeginZip, BeginManualSave, BeginRollback, BeginDeleteVersion, BeginAssign,
       BeginSubmit, BeginReject, BeginPublish, BeginDirectPublish, BeginUnpublish, Open
  <2>4. ~WriteDoc(r) /\ ~Publish(r) /\ ~WriteVersion(r)
    BY <2>0 DEF WriteDoc, Busy, NotThere, PutUpload, PutUpdate, Delete, ReadHead,
       ReadTarget, Put, PutMember, CountMembers, RefuseZip, FlushCount, LockFree,
       Publish, HashTree, Copy, FlushRow, WriteVersion, FetchDoc, SkipDoc,
       SkipUnchanged, RefuseManual, Decide, TakeNumber, Insert, Collide
  <2>5. ~Fail(r) /\ ~CopyFails(r)
    BY <1>1 DEF Fail, CopyFails, OneByOne, Unfailing, AloneInv, Inv, TypeOK
  <2>6. Commit(r)
    BY <2>1, <2>2, <2>3, <2>4, <2>5 DEF Step
  <2>7. versions' = Seen(r)
    BY <1>1, <2>0, <2>6 DEF Commit, PassKnown, Seen
  <2>8. SameAsLatest(Seen(r), f, snap[f])
    BY <1>1, <2>0 DEF PassKnown, AfterCopy, Writing, Docs
  <2>. QED
    BY <2>7, <2>8 DEF SameAsLatest
<1>2. OneByOne /\ [Next]_vars =>
        [\A r \in Requests : Commits(r) /\ job[r].op \in Publishing =>
           \A f \in Docs(snap) : \E v \in Of(versions', f) :
             IsLatest(v, versions') /\ v.body = snap[f]]_vars
  BY <1>1
<1>. QED
  BY <1>2, OneByOneInvariance, PTL DEF Spec, PublishedIsOnRecord
=============================================================================
