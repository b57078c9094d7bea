-------------------------- MODULE PublicationProofs --------------------------
(***************************************************************************)
(* Theorems about Editorial: the version history keeps what it must, the   *)
(* fixity rows certify the last publications, and manual rows keep within  *)
(* their cap.                                                              *)
(*                                                                         *)
(* The argument for the fixity rows: a publication stages its rows only    *)
(* after its UPDATE of the collection row, which it holds locked until it  *)
(* commits.  So at most one request stages publication rows, no other      *)
(* publication commits meanwhile, and what it has read of them stays true. *)
(***************************************************************************)
EXTENDS EditorialProofs

\* Before and after the UPDATE of the collection row.
Early == {"hash", "copy", "flush"}
Late == {"scan", "version", "number", "insert", "commit"}

\* Only manual rows are to be deleted.
Discards(r) == \A v \in tx[r].dropped : v.origin = "manual"

\* A publication that may have staged rows holds the collection row.
HoldsRow(r) == job[r].op \in Publishing =>
  pc[r] \in Early \/ (pc[r] \in Late /\ rowLock = r)

\* Any other request has staged nothing about publications.
NothingPublic(r) == job[r].op \notin Publishing \/ pc[r] \in Early =>
  /\ tx[r].fixity = NoFixity
  /\ \A v \in tx[r].staged : v.origin # "publication"

\* cert is the fixity row of the last publication of f among rows.
CertifiesLast(cert, rows, f) == \E v \in Publications(rows, f) :
  IsLastPublication(v, rows) /\ cert = FixityOf(v)

\* The staged fixity rows are those of the last publications the transaction
\* sees, and every document it has published has one.
Refreshed(r) == \A f \in Files :
  IF tx[r].fixity[f] = NoRecord
    THEN Publications(tx[r].staged, f) = {}
    ELSE CertifiesLast(tx[r].fixity[f], Seen(r), f)

\* The number a publication has taken is still beyond every publication.
NumberIsNew(r) == pc[r] = "insert" /\ job[r].op \in Publishing =>
  \A v \in Publications(Seen(r), job[r].file) : v.n < job[r].num

Sound(r) ==
  Discards(r) /\ HoldsRow(r) /\ NothingPublic(r) /\ Refreshed(r) /\ NumberIsNew(r)

PInv ==
  /\ Inv
  /\ \A r \in Requests : Sound(r)
  /\ FixityTracksLatestPublication

-----------------------------------------------------------------------------
(* About sets of rows *)

LEMMA PublicationsOf ==
  ASSUME NEW rows, NEW f
  PROVE  Publications(rows, f) =
           {v \in rows : v.file = f /\ v.origin = "publication"}
BY DEF Publications, Of

\* The last publication depends on the publications only.
LEMMA LastOfSame ==
  ASSUME NEW rows, NEW others, NEW f, NEW cert,
         Publications(rows, f) = Publications(others, f),
         CertifiesLast(cert, rows, f)
  PROVE  CertifiesLast(cert, others, f)
<1>1. PICK v \in Publications(rows, f) :
        IsLastPublication(v, rows) /\ cert = FixityOf(v)
  BY DEF CertifiesLast
<1>2. v.file = f
  BY PublicationsOf
<1>3. IsLastPublication(v, others)
  BY <1>1, <1>2 DEF IsLastPublication
<1>. QED
  BY <1>1, <1>3 DEF CertifiesLast

\* A fixity row is never the absence of one.
LEMMA FixityIsRecord ==
  ASSUME NEW v \in Version PROVE FixityOf(v) # NoRecord
BY FixityOfType, EditorialAssumption DEF FixityRow

-----------------------------------------------------------------------------
(* What a step leaves to the other requests *)

\* A request that stands still stays sound as long as its lock and, once it
\* has staged publications, the committed publications are left alone.
LEMMA StandsStill ==
  ASSUME NEW q \in Requests, Sound(q),
         job'[q] = job[q], pc'[q] = pc[q], tx'[q] = tx[q],
         rowLock = q => rowLock' = q,
         job[q].op \in Publishing /\ pc[q] \in Late =>
           \A f \in Files : Publications(versions', f) = Publications(versions, f),
         tx[q].fixity \in [Files -> FixityRow \cup {NoRecord}],
         pc[q] = "insert" => job[q].file \in Files
  PROVE  Sound(q)'
<1>1. Discards(q)' /\ NothingPublic(q)' /\ HoldsRow(q)'
  BY DEF Sound, Discards, NothingPublic, HoldsRow
<1>2. ASSUME NEW f \in Files, job[q].op \in Publishing, pc[q] \in Late
      PROVE  Publications(Seen(q)', f) = Publications(Seen(q), f)
  BY <1>2, PublicationsOf DEF Seen
<1>3. Refreshed(q)'
  <2> SUFFICES ASSUME NEW f \in Files
               PROVE  IF tx[q].fixity[f] = NoRecord
                        THEN Publications(tx[q].staged, f) = {}
                        ELSE CertifiesLast(tx[q].fixity[f], Seen(q)', f)
    BY DEF Refreshed, CertifiesLast, Seen
  <2>1. CASE job[q].op \in Publishing /\ pc[q] \in Late
    BY <1>2, <2>1, LastOfSame DEF Sound, Refreshed
  <2>2. CASE ~(job[q].op \in Publishing /\ pc[q] \in Late)
    <3>1. tx[q].fixity = NoFixity
      BY <2>2 DEF Sound, HoldsRow, NothingPublic
    <3>2. tx[q].fixity[f] = NoRecord
      BY <3>1 DEF NoFixity
    <3>. QED
      BY <3>2 DEF Sound, Refreshed
  <2>. QED
    BY <2>1, <2>2
<1>4. NumberIsNew(q)'
  <2> SUFFICES ASSUME pc[q] = "insert", job[q].op \in Publishing
               PROVE  \A v \in Publications(Seen(q)', job[q].file) :
                        v.n < job[q].num
    BY DEF NumberIsNew, Seen
  <2>. QED
    BY <1>2 DEF Sound, NumberIsNew, Late
<1>. QED
  BY <1>1, <1>3, <1>4 DEF Sound

\* A step of r leaves the other requests where they are, and their locks.
LEMMA OneMoves ==
  ASSUME Inv, NEW r \in Requests,
         Begin(r) \/ Step(r) \/ Fail(r) \/ CopyFails(r)
  PROVE  \A q \in Requests \ {r} :
           /\ job'[q] = job[q] /\ pc'[q] = pc[q] /\ tx'[q] = tx[q]
           /\ rowLock = q => rowLock' = q
<1> USE EditorialAssumption DEF Inv, TypeOK, Goto
<1>1. CASE Begin(r)
  BY <1>1 DEF Begin, BeginUpload, BeginUpdate, BeginDelete, BeginZones,
     BeginZip, BeginManualSave, BeginRollback, BeginDeleteVersion, BeginAssign,
     BeginSubmit, BeginReject, BeginPublish, BeginDirectPublish, BeginUnpublish,
     Open, locks
<1>2. CASE WriteDoc(r)
  BY <1>2 DEF WriteDoc, Busy, NotThere, PutUpload, PutUpdate, Delete, ReadHead,
     ReadTarget, Put, PutMember, CountMembers, RefuseZip, FlushCount, Close, locks
<1>3. CASE Publish(r)
  BY <1>3 DEF Publish, HashTree, Copy, FlushRow, locks
<1>4. CASE WriteVersion(r)
  BY <1>4 DEF WriteVersion, FetchDoc, SkipDoc, SkipUnchanged, RefuseManual,
     Decide, TakeNumber, Insert, Collide, Close, locks
<1>5. CASE Commit(r) \/ Fail(r) \/ CopyFails(r)
  BY <1>5 DEF Commit, Fail, CopyFails, Close
<1>. QED
  BY <1>1, <1>2, <1>3, <1>4, <1>5 DEF Step

\* Only a commit changes the version and fixity rows.
LEMMA RowsChangeAtCommit ==
  ASSUME NEW r \in Requests,
         Begin(r) \/ WriteDoc(r) \/ Publish(r) \/ WriteVersion(r) \/ Fail(r)
           \/ CopyFails(r)
  PROVE  UNCHANGED <<versions, fixity>>
<1>1. CASE Begin(r)
  BY <1>1 DEF Begin, BeginUpload, BeginUpdate, BeginDelete, BeginZones,
     BeginZip, BeginManualSave, BeginRollback, BeginDeleteVersion, BeginAssign,
     BeginSubmit, BeginReject, BeginPublish, BeginDirectPublish, BeginUnpublish,
     Open, stores
<1>2. CASE WriteDoc(r)
  BY <1>2 DEF WriteDoc, Busy, NotThere, PutUpload, PutUpdate, Delete, ReadHead,
     ReadTarget, Put, PutMember, CountMembers, RefuseZip, FlushCount, stores
<1>3. CASE Publish(r)
  BY <1>3 DEF Publish, HashTree, Copy, FlushRow, stores
<1>4. CASE WriteVersion(r)
  BY <1>4 DEF WriteVersion, FetchDoc, SkipDoc, SkipUnchanged, RefuseManual,
     Decide, TakeNumber, Insert, Collide, stores
<1>5. CASE Fail(r) \/ CopyFails(r)
  BY <1>5 DEF Fail, CopyFails, stores
<1>. QED
  BY <1>1, <1>2, <1>3, <1>4, <1>5

-----------------------------------------------------------------------------
(* What a step makes of its own request *)

\* A session that has staged nothing is sound.
LEMMA BlankSound ==
  ASSUME NEW r \in Requests,
         \A v \in tx'[r].dropped : v.origin = "manual",
         tx'[r].staged = {}, tx'[r].fixity = NoFixity,
         job'[r].op \in Publishing => pc'[r] \in Early
  PROVE  Sound(r)'
<1>1. \A f \in Files : NoFixity[f] = NoRecord
  BY DEF NoFixity
<1>3. Discards(r)' /\ HoldsRow(r)' /\ NothingPublic(r)'
  BY DEF Discards, HoldsRow, NothingPublic
<1>4. Refreshed(r)'
  BY <1>1, PublicationsOf DEF Refreshed
<1>5. NumberIsNew(r)'
  BY DEF NumberIsNew, Early
<1>. QED
  BY <1>3, <1>4, <1>5 DEF Sound

\* A session that is closed is sound.
LEMMA ClosedSound ==
  ASSUME Inv, NEW r \in Requests, Close(r) PROVE Sound(r)'
<1>1. tx'[r] = NoTx /\ job'[r] = NoJob
  BY DEF Close, Inv, TypeOK
<1>2. /\ NoTx.dropped = {} /\ NoTx.staged = {} /\ NoTx.fixity = NoFixity
      /\ NoJob.op \notin Publishing
  BY DEF NoTx, Session, NoJob, Publishing
<1>. QED
  BY <1>1, <1>2, BlankSound

\* A handler that moves on and keeps what it has staged is sound.
LEMMA KeepsSound ==
  ASSUME NEW r \in Requests, Sound(r),
         tx'[r].dropped = tx[r].dropped, tx'[r].staged = tx[r].staged,
         tx'[r].fixity = tx[r].fixity, job'[r].op = job[r].op,
         UNCHANGED versions, HoldsRow(r)', NumberIsNew(r)',
         pc'[r] \in Early => pc[r] \in Early
  PROVE  Sound(r)'
<1>1. Discards(r)' /\ NothingPublic(r)'
  BY DEF Sound, Discards, NothingPublic
<1>2. Refreshed(r)'
  BY DEF Sound, Refreshed, CertifiesLast, Seen
<1>. QED
  BY <1>1, <1>2 DEF Sound

LEMMA BeginSound ==
  ASSUME Inv, NEW r \in Requests, Begin(r) PROVE Sound(r)'
<1>a. \A col, dirty : /\ Session(col, dirty).dropped = {}
                      /\ Session(col, dirty).staged = {}
                      /\ Session(col, dirty).fixity = NoFixity
  BY DEF Session
<1>b. \A o, u : Request(o, u).op = o
  BY DEF Request, NoJob
<1>1. CASE \/ BeginUpload(r) \/ BeginUpdate(r) \/ BeginDelete(r)
           \/ BeginManualSave(r) \/ BeginRollback(r) \/ BeginZones(r)
           \/ BeginZip(r)
  <2>1. tx'[r] = Session(row, {})
    BY <1>1 DEF BeginUpload, BeginUpdate, BeginDelete, BeginManualSave,
       BeginRollback, BeginZones, BeginZip, Open, Inv, TypeOK
  <2> USE DEF Open, Request, NoJob, Inv, TypeOK, Publishing
  <2>2. BeginUpload(r) => job'[r].op \notin Publishing
    BY DEF BeginUpload
  <2>3. BeginUpdate(r) => job'[r].op \notin Publishing
    BY DEF BeginUpdate
  <2>4. BeginDelete(r) => job'[r].op \notin Publishing
    BY DEF BeginDelete
  <2>5. BeginManualSave(r) => job'[r].op \notin Publishing
    BY DEF BeginManualSave
  <2>6. BeginRollback(r) => job'[r].op \notin Publishing
    BY DEF BeginRollback
  <2>7. BeginZones(r) => job'[r].op \notin Publishing
    BY DEF BeginZones
  <2>8. BeginZip(r) => job'[r].op \notin Publishing
    BY DEF BeginZip
  <2> HIDE DEF Open, Request, NoJob, Inv, TypeOK, Publishing
  <2>. QED
    BY <1>1, <1>a, <2>1, <2>2, <2>3, <2>4, <2>5, <2>6, <2>7, <2>8, BlankSound
<1>2. CASE BeginDeleteVersion(r)
  <2>1. PICK u \in Users, v \in versions :
          /\ v.origin = "manual"
          /\ Open(r, [Request("delete_version", u) EXCEPT !.file = v.file],
                  [Session(row, {}) EXCEPT !.dropped = {v}], "commit")
    BY <1>2 DEF BeginDeleteVersion, IsDeletable
  <2>2. job'[r].op = "delete_version"
    BY <2>1 DEF Open, Request, NoJob, Inv, TypeOK
  <2>3. tx'[r] = [Session(row, {}) EXCEPT !.dropped = {v}]
    BY <2>1 DEF Open, Inv, TypeOK
  <2>4. tx'[r].dropped = {v} /\ tx'[r].staged = {} /\ tx'[r].fixity = NoFixity
    BY <2>3 DEF Session
  <2>. QED
    BY <2>1, <2>2, <2>4, BlankSound DEF Publishing
<1>3. CASE BeginAssign(r) \/ BeginUnpublish(r)
  <2>1. \E u, col, dirty : \E o \in {"assign", "unpublish"} :
          Open(r, Request(o, u), Session(col, dirty), "commit")
    BY <1>3 DEF BeginAssign, BeginUnpublish
  <2>. QED
    BY <1>a, <1>b, <2>1, BlankSound DEF Open, Inv, TypeOK, Publishing
<1>4. CASE \/ BeginSubmit(r) \/ BeginReject(r) \/ BeginPublish(r)
           \/ BeginDirectPublish(r)
  <2>1. \E u, col, dirty, o : \E at \in {"flush", "hash"} :
          Open(r, Request(o, u), Session(col, dirty), at)
    BY <1>4 DEF BeginSubmit, BeginReject, BeginPublish, BeginDirectPublish
  <2>. QED
    BY <1>a, <2>1, BlankSound DEF Open, Inv, TypeOK, Early
<1>. QED
  BY <1>1, <1>2, <1>3, <1>4 DEF Begin

\* The document handlers publish nothing: none of them is a publication.
LEMMA WriteDocSound ==
  ASSUME Inv, NEW r \in Requests, Sound(r), WriteDoc(r) PROVE Sound(r)'
<1>1. CASE Busy(r) \/ NotThere(r) \/ RefuseZip(r)
  BY <1>1, ClosedSound DEF Busy, NotThere, RefuseZip
<1>2. CASE ~(Busy(r) \/ NotThere(r) \/ RefuseZip(r))
  <2>1. pc[r] \in {"lock", "put", "member", "count"}
    BY <1>2 DEF WriteDoc, LockFree, PutUpload, PutUpdate, Delete, ReadHead,
       ReadTarget, Put, PutMember, CountMembers, FlushCount
  <2>2. job[r].op \notin Publishing
    BY <2>1 DEF Sound, HoldsRow, Early, Late
  <2>3. \A tree : /\ Counted(tx[r], tree).dropped = tx[r].dropped
                  /\ Counted(tx[r], tree).staged = tx[r].staged
                  /\ Counted(tx[r], tree).fixity = tx[r].fixity
    BY DEF Counted, Inv, TypeOK, Tx
  <2>4. /\ tx'[r].dropped = tx[r].dropped /\ tx'[r].staged = tx[r].staged
        /\ tx'[r].fixity = tx[r].fixity
    BY <1>2, <2>3 DEF WriteDoc, PutUpload, PutUpdate, Delete, ReadHead,
       ReadTarget, Put, PutMember, CountMembers, FlushCount, Inv, TypeOK
  <2>5. job'[r].op = job[r].op
    BY <1>2 DEF WriteDoc, PutUpload, PutUpdate, Delete, ReadHead, ReadTarget,
       Put, PutMember, CountMembers, FlushCount, Inv, TypeOK, Job
  <2>6. pc'[r] \notin Early
    BY <1>2, <2>1 DEF WriteDoc, PutUpload, PutUpdate, Delete, ReadHead,
       ReadTarget, Put, PutMember, CountMembers, FlushCount, Goto, Early, Inv,
       TypeOK
  <2>7. HoldsRow(r)' /\ NumberIsNew(r)'
    BY <2>2, <2>5 DEF HoldsRow, NumberIsNew
  <2>8. UNCHANGED versions
    BY RowsChangeAtCommit
  <2>. QED
    BY <2>4, <2>5, <2>6, <2>7, <2>8, KeepsSound
<1>. QED
  BY <1>1, <1>2

LEMMA PublishSound ==
  ASSUME Inv, NEW r \in Requests, Sound(r), Publish(r) PROVE Sound(r)'
<1>1. pc[r] \in Early
  BY DEF Publish, HashTree, Copy, FlushRow, Early
<1>2. \A hash : /\ Hashed(tx[r], hash).dropped = tx[r].dropped
                /\ Hashed(tx[r], hash).staged = tx[r].staged
                /\ Hashed(tx[r], hash).fixity = tx[r].fixity
  BY DEF Hashed, Inv, TypeOK, Tx
<1>3. /\ tx'[r].dropped = tx[r].dropped /\ tx'[r].staged = tx[r].staged
      /\ tx'[r].fixity = tx[r].fixity
  BY <1>2 DEF Publish, HashTree, Copy, FlushRow, Inv, TypeOK
<1>4. job'[r].op = job[r].op
  BY DEF Publish, HashTree, Copy, FlushRow, Inv, TypeOK, Job
<1>5. \/ pc'[r] \in Early
      \/ pc'[r] \in {"scan", "commit"} /\ rowLock' = r
  BY DEF Publish, HashTree, Copy, FlushRow, Goto, Early, Inv, TypeOK
<1>6. HoldsRow(r)' /\ NumberIsNew(r)'
  BY <1>5 DEF HoldsRow, NumberIsNew, Early, Late
<1>. QED
  BY <1>1, <1>3, <1>4, <1>6, RowsChangeAtCommit, KeepsSound

\* The fixity row of v, staged when v is the last publication among the rows
\* the transaction then sees.
LEMMA RefreshSound ==
  ASSUME Inv, NEW r \in Requests, Sound(r), NEW v \in Version,
         v.origin = "publication", pc[r] \in Late,
         UNCHANGED <<versions, rowLock>>, job'[r] = job[r],
         job[r].op \in Publishing, pc'[r] \in {"scan", "commit"},
         tx'[r].dropped = tx[r].dropped,
         tx'[r].staged \in {tx[r].staged, tx[r].staged \cup {v}},
         tx'[r].fixity = [tx[r].fixity EXCEPT ![v.file] = FixityOf(v)],
         v \in Seen(r)', IsLastPublication(v, Seen(r)')
  PROVE  Sound(r)'
<1>1. rowLock = r
  BY DEF Sound, HoldsRow, Early, Late
<1>2. /\ Discards(r)' /\ HoldsRow(r)' /\ NothingPublic(r)' /\ NumberIsNew(r)'
  BY <1>1 DEF Sound, Discards, HoldsRow, NothingPublic, NumberIsNew, Late, Early
<1>3. Refreshed(r)'
  <2>0. tx[r].fixity \in [Files -> FixityRow \cup {NoRecord}]
    BY DEF Inv, TypeOK, Tx
  <2> SUFFICES ASSUME NEW f \in Files
               PROVE  IF tx'[r].fixity[f] = NoRecord
                        THEN Publications(tx'[r].staged, f) = {}
                        ELSE CertifiesLast(tx'[r].fixity[f], Seen(r)', f)
    BY DEF Refreshed, CertifiesLast, Seen
  <2>1. CASE f = v.file
    <3>1. tx'[r].fixity[f] = FixityOf(v)
      BY <2>0, <2>1
    <3>2. v \in Publications(Seen(r)', f)
      BY <2>1, PublicationsOf
    <3>. QED
      BY <3>1, <3>2, FixityIsRecord DEF CertifiesLast
  <2>2. CASE f # v.file
    <3>1. tx'[r].fixity[f] = tx[r].fixity[f]
      BY <2>0, <2>2
    <3>2. Publications(tx'[r].staged, f) = Publications(tx[r].staged, f)
      BY <2>2, PublicationsOf
    <3>3. Publications(Seen(r)', f) = Publications(Seen(r), f)
      BY <2>2, PublicationsOf DEF Seen
    <3>. QED
      BY <3>1, <3>2, <3>3, LastOfSame DEF Sound, Refreshed
  <2>. QED
    BY <2>1, <2>2
<1>. QED
  BY <1>2, <1>3 DEF Sound

LEMMA WriteVersionSound ==
  ASSUME Inv, NEW r \in Requests, Sound(r), WriteVersion(r) PROVE Sound(r)'
<1>a. /\ UNCHANGED versions
      /\ tx[r] \in Tx /\ job[r] \in Job /\ versions \in SUBSET Version
  BY RowsChangeAtCommit DEF Inv, TypeOK
<1>b. AfterDoc(r) \in {"scan", "commit"}
  BY DEF AfterDoc
<1>1. CASE RefuseManual(r) \/ Collide(r)
  BY <1>1, ClosedSound DEF RefuseManual, Collide
<1>2. CASE FetchDoc(r) \/ SkipDoc(r) \/ Decide(r)
  <2>1. pc[r] \in Late /\ pc'[r] \in {"scan", "version", "number", "commit"}
    BY <1>2 DEF FetchDoc, SkipDoc, Decide, Goto, Late, Inv, TypeOK
  <2>2. UNCHANGED <<rowLock, tx>>
    BY <1>2 DEF FetchDoc, SkipDoc, Decide, locks
  <2>3. job'[r].op = job[r].op
    <3>1. CASE FetchDoc(r)
      BY <1>a, <3>1 DEF FetchDoc, Inv, TypeOK, Job
    <3>2. CASE SkipDoc(r) \/ Decide(r)
      BY <1>a, <3>2 DEF SkipDoc, Decide, Inv, TypeOK, Job
    <3>. QED
      BY <1>2, <3>1, <3>2
  <2>4. HoldsRow(r)' /\ NumberIsNew(r)'
    BY <2>1, <2>2, <2>3 DEF Sound, HoldsRow, NumberIsNew, Early, Late
  <2>. QED
    BY <1>a, <2>1, <2>2, <2>3, <2>4, KeepsSound DEF Early
<1>3. CASE TakeNumber(r)
  <2>1. PICK n \in VersionNumbers :
          /\ pc[r] = "number" /\ IsNextNumber(n, Seen(r), job[r].file)
          /\ job' = [job EXCEPT ![r].num = n]
    BY <1>3 DEF TakeNumber
  <2>2. /\ job'[r].num = n /\ job'[r].file = job[r].file
        /\ job'[r].op = job[r].op
    BY <1>a, <2>1 DEF Job, Inv, TypeOK
  <2>3. UNCHANGED <<rowLock, tx>> /\ pc'[r] = "insert"
    BY <1>3 DEF TakeNumber, Goto, locks, Inv, TypeOK
  <2>4. \A v \in Publications(Seen(r), job[r].file) : v.n < n
    BY <2>1 DEF IsNextNumber, Publications
  <2>5. HoldsRow(r)' /\ NumberIsNew(r)'
    BY <1>a, <2>1, <2>2, <2>3, <2>4
    DEF Sound, HoldsRow, NumberIsNew, Seen, Early, Late
  <2>. QED
    BY <1>a, <2>2, <2>3, <2>5, KeepsSound DEF Early
<1>4. CASE SkipUnchanged(r)
  <2>1. /\ pc[r] = "version" /\ UNCHANGED <<job, rowLock>>
        /\ pc'[r] \in {"scan", "commit"}
    BY <1>4, <1>b DEF SkipUnchanged, Goto, locks, Inv, TypeOK
  <2>2. CASE tx' = tx
    <3>1. HoldsRow(r)' /\ NumberIsNew(r)'
      BY <2>1, <2>2 DEF Sound, HoldsRow, NumberIsNew, Early, Late
    <3>. QED
      BY <1>a, <2>1, <2>2, <3>1, KeepsSound DEF Early
  <2>3. CASE tx' # tx
    <3>1. PICK v \in Publications(Seen(r), job[r].file) :
            /\ IsLastPublication(v, Seen(r))
            /\ tx' = [tx EXCEPT ![r] = WithFixity(@, v)]
      BY <1>4, <2>3 DEF SkipUnchanged
    <3>2. job[r].op \in Publishing
      BY <1>4, <2>3 DEF SkipUnchanged
    <3>3. v \in Seen(r) /\ v.origin = "publication"
      BY PublicationsOf
    <3>4. v \in Version
      BY <1>a, <3>3 DEF Seen, Tx
    <3>5. /\ tx'[r].dropped = tx[r].dropped /\ tx'[r].staged = tx[r].staged
          /\ tx'[r].fixity = [tx[r].fixity EXCEPT ![v.file] = FixityOf(v)]
      BY <1>a, <3>1 DEF WithFixity, Tx, Inv, TypeOK
    <3>6. Seen(r)' = Seen(r)
      BY <1>a, <3>5 DEF Seen
    <3>7. v \in Seen(r)' /\ IsLastPublication(v, Seen(r)')
      BY <3>1, <3>3, <3>6
    <3>. QED
      BY <1>a, <2>1, <3>2, <3>3, <3>4, <3>5, <3>7, RefreshSound DEF Late
  <2>. QED
    BY <2>2, <2>3
<1>5. CASE Insert(r)
  <2> DEFINE v == NewVersion(r)
             kept == [tx[r] EXCEPT !.staged = @ \cup {v}]
  <2>1. /\ pc[r] = "insert" /\ UNCHANGED <<job, rowLock>>
        /\ pc'[r] \in {"scan", "commit"}
    BY <1>5, <1>b DEF Insert, Goto, locks, Inv, TypeOK
  <2>2. v \in Version /\ v.file = job[r].file /\ v.n = job[r].num
    BY <2>1, NewVersionType DEF NewVersion
  <2>3. job[r].op \in Versioning
    BY <2>1 DEF Inv, JobsFit, Fits
  <2>4. v.origin = "publication" <=> job[r].op \in Publishing
    BY <2>3 DEF NewVersion, OriginOf, Versioning, Passes, Publishing
  <2>5. /\ kept \in Tx /\ kept.dropped = tx[r].dropped
        /\ kept.staged = tx[r].staged \cup {v} /\ kept.fixity = tx[r].fixity
    BY <1>a, <2>2 DEF Tx
  <2>6. tx'[r] = IF v.origin = "publication" THEN WithFixity(kept, v) ELSE kept
    BY <1>5 DEF Insert, Inv, TypeOK
  <2> HIDE DEF v, kept
  <2>7. CASE job[r].op \in Publishing
    <3>1. tx'[r] = WithFixity(kept, v)
      BY <2>4, <2>6, <2>7
    <3>2. /\ tx'[r].dropped = tx[r].dropped
          /\ tx'[r].staged = tx[r].staged \cup {v}
          /\ tx'[r].fixity = [tx[r].fixity EXCEPT ![v.file] = FixityOf(v)]
      BY <2>5, <3>1 DEF WithFixity, Tx
    <3>3. Seen(r)' = Seen(r) \cup {v}
      BY <1>a, <3>2 DEF Seen
    <3>4. \A w \in Publications(Seen(r), v.file) : w.n < v.n
      BY <2>1, <2>2, <2>7 DEF Sound, NumberIsNew
    <3>5. \A w \in Publications(Seen(r)', v.file) : w \in Seen(r)' /\ w.file = v.file
      BY PublicationsOf
    <3>6. \A w \in Publications(Seen(r)', v.file) :
            w = v \/ w \in Publications(Seen(r), v.file)
      BY <3>3, PublicationsOf
    <3>7. v.n \in Nat /\ \A w \in Seen(r) : w.n \in Nat
      BY <1>a, <2>2, VersionsAssumption DEF Seen, Tx, Version, VersionNumbers
    <3>8. \A w \in Publications(Seen(r)', v.file) : w.n <= v.n
      BY <3>4, <3>6, <3>7, PublicationsOf
    <3>9. v \in Seen(r)' /\ IsLastPublication(v, Seen(r)')
      BY <2>4, <2>7, <3>3, <3>8, PublicationsOf DEF IsLastPublication
    <3>. QED
      BY <1>a, <2>1, <2>2, <2>4, <2>7, <3>2, <3>9, RefreshSound DEF Late
  <2>8. CASE job[r].op \notin Publishing
    <3>1. tx'[r] = kept /\ v.origin # "publication"
      BY <2>4, <2>6, <2>8
    <3>2. Discards(r)' /\ HoldsRow(r)' /\ NothingPublic(r)' /\ NumberIsNew(r)'
      BY <2>1, <2>5, <2>8, <3>1
      DEF Sound, Discards, HoldsRow, NothingPublic, NumberIsNew
    <3>3. tx[r].fixity = NoFixity
      BY <2>8 DEF Sound, NothingPublic
    <3>4. \A f \in Files : tx[r].fixity[f] = NoRecord
      BY <3>3 DEF NoFixity
    <3>5. \A f \in Files : Publications(tx[r].staged, f) = {}
      BY <3>4 DEF Sound, Refreshed
    <3>6. \A f \in Files : Publications(tx'[r].staged, f) = {}
      BY <2>5, <3>1, <3>5, PublicationsOf
    <3>7. Refreshed(r)'
      BY <2>5, <3>1, <3>4, <3>6 DEF Refreshed
    <3>. QED
      BY <3>2, <3>7 DEF Sound
  <2>. QED
    BY <2>7, <2>8
<1>. QED
  BY <1>1, <1>2, <1>3, <1>4, <1>5 DEF WriteVersion

-----------------------------------------------------------------------------
(* The commit *)

\* What a commit makes of the publications of a document: those its session
\* saw, as the rows it deletes are manual.
LEMMA CommittedPublications ==
  ASSUME NEW r \in Requests, Sound(r), Commit(r), NEW f \in Files
  PROVE  /\ Publications(versions', f) = Publications(Seen(r), f)
         /\ Publications(tx[r].staged, f) = {} =>
              Publications(versions', f) = Publications(versions, f)
<1>1. versions' = (versions \ tx[r].dropped) \cup tx[r].staged
  BY DEF Commit
<1>2. \A v \in tx[r].dropped : v.origin # "publication"
  BY DEF Sound, Discards
<1>. QED
  BY <1>1, <1>2, PublicationsOf DEF Seen

LEMMA CommitFixity ==
  ASSUME PInv, NEW r \in Requests, Commit(r)
  PROVE  FixityTracksLatestPublication'
<1>1. fixity' = [f \in Files |-> IF tx[r].fixity[f] = NoRecord
                                   THEN fixity[f] ELSE tx[r].fixity[f]]
  BY DEF Commit
<1>2. Sound(r)
  BY DEF PInv
<1> SUFFICES ASSUME NEW f \in Files
             PROVE  IF Publications(versions', f) = {}
                      THEN fixity'[f] = NoRecord
                      ELSE CertifiesLast(fixity'[f], versions', f)
  BY DEF FixityTracksLatestPublication, CertifiesLast
<1>3. CASE tx[r].fixity[f] = NoRecord
  <2>1. Publications(versions', f) = Publications(versions, f)
    BY <1>2, <1>3, CommittedPublications DEF Sound, Refreshed
  <2>2. fixity'[f] = fixity[f]
    BY <1>1, <1>3
  <2>3. IF Publications(versions, f) = {}
          THEN fixity[f] = NoRecord
          ELSE CertifiesLast(fixity[f], versions, f)
    BY DEF PInv, FixityTracksLatestPublication, CertifiesLast
  <2>. QED
    BY <2>1, <2>2, <2>3, LastOfSame
<1>4. CASE tx[r].fixity[f] # NoRecord
  <2>1. fixity'[f] = tx[r].fixity[f]
    BY <1>1, <1>4
  <2>2. CertifiesLast(tx[r].fixity[f], Seen(r), f)
    BY <1>2, <1>4 DEF Sound, Refreshed
  <2>3. Publications(versions', f) = Publications(Seen(r), f)
    BY <1>2, CommittedPublications
  <2>4. Publications(Seen(r), f) # {}
    BY <2>2 DEF CertifiesLast
  <2>. QED
    BY <2>1, <2>2, <2>3, <2>4, LastOfSame
<1>. QED
  BY <1>3, <1>4

\* When a request commits publications, no other has staged any.
LEMMA CommitIsAlone ==
  ASSUME PInv, NEW r \in Requests, Commit(r), NEW q \in Requests \ {r},
         job[q].op \in Publishing, pc[q] \in Late, NEW f \in Files
  PROVE  Publications(versions', f) = Publications(versions, f)
<1>1. Sound(r) /\ Sound(q) /\ pc[r] = "commit"
  BY DEF PInv, Commit
<1>2. rowLock = q
  BY <1>1 DEF Sound, HoldsRow, Early, Late
<1>3. job[r].op \notin Publishing
  BY <1>1, <1>2 DEF Sound, HoldsRow, Early
<1>4. tx[r].fixity[f] = NoRecord
  BY <1>1, <1>3 DEF Sound, NothingPublic, NoFixity
<1>5. Publications(tx[r].staged, f) = {}
  BY <1>1, <1>4 DEF Sound, Refreshed
<1>. QED
  BY <1>1, <1>5, CommittedPublications

-----------------------------------------------------------------------------
LEMMA InitPInv == Init => PInv
<1> SUFFICES ASSUME Init PROVE PInv
  OBVIOUS
<1>1. Inv
  BY InitInv
<1>2. ASSUME NEW r \in Requests PROVE Sound(r)
  <2>1. /\ tx[r].dropped = {} /\ tx[r].staged = {} /\ tx[r].fixity = NoFixity
        /\ job[r].op = "none"
    BY <1>2 DEF Init, NoTx, Session, NoJob
  <2>. QED
    BY <2>1, PublicationsOf DEF Sound, Discards, HoldsRow, NothingPublic,
       Refreshed, NumberIsNew, NoFixity, Publishing
<1>3. FixityTracksLatestPublication
  BY PublicationsOf DEF Init, FixityTracksLatestPublication, NoFixity
<1>. QED
  BY <1>1, <1>2, <1>3 DEF PInv

LEMMA NextPInv == PInv /\ [Next]_vars => PInv'
<1> SUFFICES ASSUME PInv, [Next]_vars PROVE PInv'
  OBVIOUS
<1>1. Inv /\ Inv'
  BY NextInv DEF PInv
<1>2. ASSUME NEW r \in Requests,
             Begin(r) \/ Step(r) \/ Fail(r) \/ CopyFails(r)
      PROVE  PInv'
  <2>1. Sound(r)'
    <3>1. Sound(r)
      BY DEF PInv
    <3>2. CASE Commit(r) \/ Fail(r) \/ CopyFails(r)
      BY <1>1, <3>2, ClosedSound DEF Commit, Fail, CopyFails
    <3>. QED
      BY <1>1, <1>2, <3>1, <3>2, BeginSound, WriteDocSound, PublishSound,
         WriteVersionSound DEF Step
  <2>2. ASSUME NEW q \in Requests \ {r} PROVE Sound(q)'
    <3>1. /\ job'[q] = job[q] /\ pc'[q] = pc[q] /\ tx'[q] = tx[q]
          /\ rowLock = q => rowLock' = q
      BY <1>1, <1>2, OneMoves
    <3>2. job[q].op \in Publishing /\ pc[q] \in Late =>
            \A f \in Files : Publications(versions', f) = Publications(versions, f)
      <4>1. CASE Commit(r)
        BY <4>1, CommitIsAlone
      <4>2. CASE ~Commit(r)
        <5>1. UNCHANGED versions
          BY <1>2, <4>2, RowsChangeAtCommit DEF Step
        <5>. QED
          BY <5>1
      <4>. QED
        BY <4>1, <4>2
    <3>3. /\ tx[q].fixity \in [Files -> FixityRow \cup {NoRecord}]
          /\ pc[q] = "insert" => job[q].file \in Files
      BY <1>1 DEF Inv, TypeOK, Tx, JobsFit, Fits
    <3>4. Sound(q)
      BY DEF PInv
    <3>. QED
      BY <3>1, <3>2, <3>3, <3>4, StandsStill
  <2>3. FixityTracksLatestPublication'
    <3>1. CASE Commit(r)
      BY <3>1, CommitFixity
    <3>2. CASE ~Commit(r)
      <4>1. UNCHANGED <<versions, fixity>>
        BY <1>2, <3>2, RowsChangeAtCommit DEF Step
      <4>. QED
        BY <4>1 DEF PInv, FixityTracksLatestPublication
    <3>. QED
      BY <3>1, <3>2
  <2>. QED
    BY <1>1, <2>1, <2>2, <2>3 DEF PInv
<1>3. CASE UNCHANGED vars
  BY <1>1, <1>3 DEF vars, stores, locks, PInv, Sound, Discards, HoldsRow,
     NothingPublic, Refreshed, CertifiesLast, Seen, NumberIsNew,
     FixityTracksLatestPublication
<1>. QED
  BY <1>2, <1>3 DEF Next

LEMMA PublicationInvariance == Spec => []PInv
<1>. QED
  BY InitPInv, NextPInv, PTL DEF Spec

\* Whatever the number of requests, documents and versions, and wherever
\* requests fail: a document is certified exactly when it has a publication
\* row, and by the last one.
THEOREM FixityTracks == Spec => []FixityTracksLatestPublication
<1>1. PInv => FixityTracksLatestPublication
  BY DEF PInv
<1>. QED
  BY <1>1, PublicationInvariance, PTL

\* No request, in whatever order requests interleave, removes or rewrites a
\* row of the editorial record.
THEOREM AppendOnly == Spec => AutoRowsAppendOnly
<1> DEFINE Kept == \A v \in versions : v \in versions' \/ v.origin = "manual"
<1>1. PInv /\ [Next]_vars => [Kept]_vars
  <2> SUFFICES ASSUME PInv, Next PROVE Kept
    BY DEF vars, stores
  <2>1. PICK r \in Requests :
          Begin(r) \/ Step(r) \/ Fail(r) \/ CopyFails(r)
    BY DEF Next
  <2>2. CASE Commit(r)
    BY <2>2 DEF Commit, PInv, Sound, Discards
  <2>3. CASE ~Commit(r)
    BY <2>1, <2>3, RowsChangeAtCommit DEF Step
  <2>. QED
    BY <2>2, <2>3
<1>. QED
  BY <1>1, PublicationInvariance, PTL DEF Spec, AutoRowsAppendOnly

-----------------------------------------------------------------------------
(***************************************************************************)
(* The cap on manual versions, and the refinement of VersionHistory.       *)
(*                                                                         *)
(* A save counts the manual rows under the lock of its document, and no    *)
(* other save of that document can commit before it does (Saves).  An      *)
(* INSERT waits for a transaction that has written the same key, so rows   *)
(* staged at a time are under keys of their own (Apart), and stay so when  *)
(* some of them are committed (Stages).                                    *)
(***************************************************************************)

\* A request that discards a row writes none.
Drops(r) == tx[r].dropped # {} =>
  /\ job[r].op = "delete_version" /\ tx[r].staged = {}
  /\ \E v : tx[r].dropped = {v}

\* The rows staged are under keys of their own, and manual only in a save.
Stages(r) ==
  /\ IsFiniteSet(tx[r].staged)
  /\ \A v \in tx[r].staged :
       /\ v.origin = "manual" <=> job[r].op = "manual"
       /\ \A w \in versions : ~SameKey(v, w)
       /\ \A w \in tx[r].staged : SameKey(v, w) => v = w

\* A manual save holds its document from the moment it has read it, so that what
\* it has counted still holds when it commits its one row.
Saves(r) == job[r].op = "manual" =>
  /\ pc[r] \in {"lock", "version", "number", "insert", "commit"}
  /\ pc[r] # "commit" => tx[r].staged = {}
  /\ \A v \in tx[r].staged : tx[r].staged = {v} /\ v.file = job[r].file
  /\ pc[r] # "lock" => job[r].file \in Files /\ docLock[job[r].file] = r
  /\ pc[r] \in {"number", "insert", "commit"} =>
       ManualCount(versions, job[r].file) < ManualMax

Orderly(r) == Drops(r) /\ Stages(r) /\ Saves(r)

\* No two requests have staged rows under one key: the INSERT waits.
Apart(r, q) == \A v \in tx[r].staged, w \in tx[q].staged : ~SameKey(v, w)

OneRowPerKey == \A v, w \in versions : SameKey(v, w) => v = w

HInv ==
  /\ PInv
  /\ IsFiniteSet(versions) /\ OneRowPerKey /\ ManualCapRespected
  /\ \A r \in Requests : Orderly(r)
  /\ \A r, q \in Requests : r # q => Apart(r, q)

-----------------------------------------------------------------------------
LEMMA Manuals ==
  ASSUME NEW rows, IsFiniteSet(rows), NEW others, IsFiniteSet(others), NEW f
  PROVE  /\ ManualCount(rows, f) \in Nat
         /\ (\A v \in others : v.origin = "manual" /\ v.file = f => v \in rows)
              => ManualCount(others, f) <= ManualCount(rows, f)
         /\ \A x : (\A v \in others : v.origin = "manual" /\ v.file = f
                                        => v \in rows \/ v = x)
              => ManualCount(others, f) <= ManualCount(rows, f) + 1
<1> DEFINE M == {v \in rows : v.file = f /\ v.origin = "manual"}
           N == {v \in others : v.file = f /\ v.origin = "manual"}
<1>1. /\ ManualCount(rows, f) = Cardinality(M)
      /\ ManualCount(others, f) = Cardinality(N)
  <2>1. {v \in Of(rows, f) : v.origin = "manual"} = M
    BY DEF Of
  <2>2. {v \in Of(others, f) : v.origin = "manual"} = N
    BY DEF Of
  <2>. QED
    BY <2>1, <2>2 DEF ManualCount
<1>2. M \subseteq rows /\ N \subseteq others
  OBVIOUS
<1>3. IsFiniteSet(M) /\ Cardinality(M) \in Nat
  BY <1>2, FS_Subset, FS_CardinalityType
<1>4. ASSUME \A v \in others : v.origin = "manual" /\ v.file = f => v \in rows
      PROVE  Cardinality(N) <= Cardinality(M)
  <2>1. N \subseteq M
    BY <1>4
  <2>. QED
    BY <1>3, <2>1, FS_Subset
<1>5. ASSUME NEW x,
             \A v \in others : v.origin = "manual" /\ v.file = f => v \in rows \/ v = x
      PROVE  Cardinality(N) <= Cardinality(M) + 1
  <2>1. N \subseteq M \cup {x}
    BY <1>5
  <2>2. /\ IsFiniteSet(M \cup {x})
        /\ Cardinality(M \cup {x}) <= Cardinality(M) + 1
        /\ Cardinality(M \cup {x}) \in Nat
    <3>1. /\ IsFiniteSet(M \cup {x})
          /\ Cardinality(M \cup {x}) = IF x \in M THEN Cardinality(M) ELSE Cardinality(M) + 1
      BY <1>3, FS_AddElement
    <3>. QED
      BY <1>3, <3>1
  <2>3. Cardinality(N) <= Cardinality(M \cup {x}) /\ Cardinality(N) \in Nat
    BY <2>1, <2>2, FS_Subset, FS_CardinalityType
  <2>. QED
    BY <1>3, <2>2, <2>3
<1>. QED
  BY <1>1, <1>3, <1>4, <1>5

\* The document locks of the other requests stay.
LEMMA DocLocksStay ==
  ASSUME Inv, NEW r \in Requests, Begin(r) \/ Step(r) \/ Fail(r) \/ CopyFails(r),
         NEW q \in Requests \ {r}, NEW f \in Files, docLock[f] = q
  PROVE  docLock'[f] = q
<1> USE DEF Inv, TypeOK
<1>0. docLock \in [Files -> Requests \cup {Nobody}] /\ Nobody \notin Requests
  BY EditorialAssumption
<1>1. CASE Begin(r)
  BY <1>1 DEF Begin, BeginUpload, BeginUpdate, BeginDelete, BeginZones,
     BeginZip, BeginManualSave, BeginRollback, BeginDeleteVersion, BeginAssign,
     BeginSubmit, BeginReject, BeginPublish, BeginDirectPublish, BeginUnpublish,
     Open, locks
<1>2. CASE Close(r)
  BY <1>2 DEF Close
<1>3. CASE LockFree(r) /\ Lock(r)
  BY <1>0, <1>3 DEF LockFree, Lock
<1>4. CASE WriteDoc(r)
  BY <1>2, <1>3, <1>4 DEF WriteDoc, Busy, NotThere, PutUpload, PutUpdate, Delete,
     ReadHead, ReadTarget, Put, PutMember, CountMembers, RefuseZip, FlushCount, locks
<1>5. CASE Publish(r)
  BY <1>5 DEF Publish, HashTree, Copy, FlushRow, locks
<1>6. CASE WriteVersion(r)
  BY <1>2, <1>6 DEF WriteVersion, FetchDoc, SkipDoc, SkipUnchanged, RefuseManual,
     Decide, TakeNumber, Insert, Collide, locks
<1>7. CASE Commit(r) \/ Fail(r) \/ CopyFails(r)
  BY <1>2, <1>7 DEF Commit, Fail, CopyFails
<1>. QED
  BY <1>1, <1>4, <1>5, <1>6, <1>7 DEF Step

\* A request that has staged nothing, and saves nothing or waits for its document.
LEMMA BlankOrderly ==
  ASSUME NEW r \in Requests, tx'[r].staged = {},
         tx'[r].dropped = {} \/ (job'[r].op = "delete_version"
                                 /\ \E v : tx'[r].dropped = {v}),
         job'[r].op = "manual" => pc'[r] = "lock"
  PROVE  Orderly(r)'
<1>1. Drops(r)'
  BY DEF Drops
<1>2. Stages(r)'
  BY FS_EmptySet DEF Stages
<1>3. Saves(r)'
  BY DEF Saves
<1>. QED
  BY <1>1, <1>2, <1>3 DEF Orderly

LEMMA ClosedOrderly ==
  ASSUME Inv, NEW r \in Requests, Close(r) PROVE Orderly(r)' /\ tx'[r].staged = {}
<1>1. tx'[r] = NoTx /\ job'[r] = NoJob
  BY DEF Close, Inv, TypeOK
<1>2. NoTx.dropped = {} /\ NoTx.staged = {} /\ NoJob.op # "manual"
  BY DEF NoTx, Session, NoJob
<1>. QED
  BY <1>1, <1>2, BlankOrderly

LEMMA BeginOrderly ==
  ASSUME Inv, NEW r \in Requests, Begin(r) PROVE Orderly(r)' /\ tx'[r].staged = {}
<1>a. \A col, dirty : Session(col, dirty).dropped = {} /\ Session(col, dirty).staged = {}
  BY DEF Session
<1>b. \A o, u : Request(o, u).op = o
  BY DEF Request, NoJob
<1>1. CASE \/ BeginUpload(r) \/ BeginUpdate(r) \/ BeginDelete(r)
           \/ BeginRollback(r) \/ BeginZones(r) \/ BeginZip(r)
  <2>1. tx'[r] = Session(row, {})
    BY <1>1 DEF BeginUpload, BeginUpdate, BeginDelete,
       BeginRollback, BeginZones, BeginZip, Open, Inv, TypeOK
  <2> USE DEF Open, Request, NoJob, Inv, TypeOK
  <2>2. BeginUpload(r) => job'[r].op # "manual"
    BY DEF BeginUpload
  <2>3. BeginUpdate(r) => job'[r].op # "manual"
    BY DEF BeginUpdate
  <2>4. BeginDelete(r) => job'[r].op # "manual"
    BY DEF BeginDelete
  <2>6. BeginRollback(r) => job'[r].op # "manual"
    BY DEF BeginRollback
  <2>7. BeginZones(r) => job'[r].op # "manual"
    BY DEF BeginZones
  <2>8. BeginZip(r) => job'[r].op # "manual"
    BY DEF BeginZip
  <2> HIDE DEF Open, Request, NoJob, Inv, TypeOK
  <2>. QED
    BY <1>1, <1>a, <2>1, <2>2, <2>3, <2>4, <2>6, <2>7, <2>8, BlankOrderly
<1>2. CASE BeginManualSave(r)
  <2>1. tx'[r] = Session(row, {}) /\ pc'[r] = "lock"
    BY <1>2 DEF BeginManualSave, Open, Inv, TypeOK
  <2>. QED
    BY <1>a, <2>1, BlankOrderly
<1>3. CASE BeginDeleteVersion(r)
  <2>1. PICK u \in Users, v \in versions :
          Open(r, [Request("delete_version", u) EXCEPT !.file = v.file],
                  [Session(row, {}) EXCEPT !.dropped = {v}], "commit")
    BY <1>3 DEF BeginDeleteVersion
  <2>2. job'[r].op = "delete_version"
    BY <2>1 DEF Open, Request, NoJob, Inv, TypeOK
  <2>3. tx'[r] = [Session(row, {}) EXCEPT !.dropped = {v}]
    BY <2>1 DEF Open, Inv, TypeOK
  <2>4. tx'[r].dropped = {v} /\ tx'[r].staged = {}
    BY <2>3 DEF Session
  <2>. QED
    BY <2>2, <2>4, BlankOrderly
<1>4. CASE \/ BeginAssign(r) \/ BeginUnpublish(r) \/ BeginSubmit(r)
           \/ BeginReject(r) \/ BeginPublish(r) \/ BeginDirectPublish(r)
  <2>1. \E u, col, dirty, at :
          \E o \in {"assign", "unpublish", "submit", "reject", "publish", "direct_publish"} :
            Open(r, Request(o, u), Session(col, dirty), at)
    BY <1>4 DEF BeginAssign, BeginUnpublish, BeginSubmit, BeginReject, BeginPublish,
       BeginDirectPublish
  <2>2. /\ tx'[r].dropped = {} /\ tx'[r].staged = {} /\ job'[r].op # "manual"
    BY <1>a, <1>b, <2>1 DEF Open, Inv, TypeOK
  <2>. QED
    BY <2>2, BlankOrderly
<1>. QED
  BY <1>1, <1>2, <1>3, <1>4 DEF Begin

\* A handler that moves on and keeps what it has staged.
LEMMA KeepsOrderly ==
  ASSUME NEW r \in Requests, Orderly(r), tx'[r].staged = tx[r].staged,
         tx'[r].dropped = tx[r].dropped, job'[r].op = job[r].op,
         UNCHANGED versions, Saves(r)'
  PROVE  Orderly(r)' /\ tx'[r].staged = tx[r].staged
<1>1. Drops(r)'
  BY DEF Orderly, Drops
<1>2. Stages(r)'
  BY DEF Orderly, Stages
<1>. QED
  BY <1>1, <1>2 DEF Orderly

LEMMA WriteDocOrderly ==
  ASSUME Inv, NEW r \in Requests, Orderly(r), WriteDoc(r)
  PROVE  Orderly(r)' /\ tx'[r].staged \in {{}, tx[r].staged}
<1>1. CASE Busy(r) \/ NotThere(r) \/ RefuseZip(r)
  BY <1>1, ClosedOrderly DEF Busy, NotThere, RefuseZip
<1>2. CASE ~(Busy(r) \/ NotThere(r) \/ RefuseZip(r))
  <2>1. \A tree : /\ Counted(tx[r], tree).dropped = tx[r].dropped
                  /\ Counted(tx[r], tree).staged = tx[r].staged
    BY DEF Counted, Inv, TypeOK, Tx
  <2>2. tx'[r].dropped = tx[r].dropped /\ tx'[r].staged = tx[r].staged
    BY <1>2, <2>1 DEF WriteDoc, PutUpload, PutUpdate, Delete, ReadHead,
       ReadTarget, Put, PutMember, CountMembers, FlushCount, Inv, TypeOK
  <2>3. job'[r].op = job[r].op /\ job'[r].file = job[r].file
    BY <1>2 DEF WriteDoc, PutUpload, PutUpdate, Delete, ReadHead, ReadTarget,
       Put, PutMember, CountMembers, FlushCount, Inv, TypeOK, Job
  <2>4. UNCHANGED versions
    BY RowsChangeAtCommit
  <2>5. ASSUME job[r].op = "manual" PROVE ReadHead(r)
    <3>1. pc[r] \notin {"put", "member", "count"}
      BY <2>5 DEF Orderly, Saves
    <3>. QED
      BY <1>2, <2>5, <3>1 DEF WriteDoc, PutUpload, PutUpdate, Delete,
         ReadTarget, Put, PutMember, CountMembers, FlushCount
  <2>6. Saves(r)'
    <3> SUFFICES ASSUME job'[r].op = "manual" PROVE Saves(r)'
      BY DEF Saves
    <3>1. ReadHead(r) /\ pc[r] = "lock"
      BY <2>3, <2>5 DEF ReadHead, LockFree
    <3>2. job[r].file \in Files
      BY <3>1 DEF Inv, JobsFit, Fits
    <3>3. pc'[r] = "version" /\ docLock'[job[r].file] = r
      BY <3>1, <3>2 DEF ReadHead, Lock, Goto, Inv, TypeOK
    <3>4. tx[r].staged = {}
      BY <2>3, <3>1 DEF Orderly, Saves
    <3>. QED
      BY <2>2, <2>3, <3>2, <3>3, <3>4 DEF Saves
  <2>. QED
    BY <2>2, <2>3, <2>4, <2>6, KeepsOrderly
<1>. QED
  BY <1>1, <1>2

LEMMA PublishOrderly ==
  ASSUME Inv, NEW r \in Requests, Orderly(r), Publish(r)
  PROVE  Orderly(r)' /\ tx'[r].staged = tx[r].staged
<1>1. pc[r] \in {"hash", "copy", "flush"}
  BY DEF Publish, HashTree, Copy, FlushRow
<1>2. \A hash : /\ Hashed(tx[r], hash).dropped = tx[r].dropped
                /\ Hashed(tx[r], hash).staged = tx[r].staged
  BY DEF Hashed, Inv, TypeOK, Tx
<1>3. tx'[r].dropped = tx[r].dropped /\ tx'[r].staged = tx[r].staged
  BY <1>2 DEF Publish, HashTree, Copy, FlushRow, Inv, TypeOK
<1>4. job'[r].op = job[r].op
  BY DEF Publish, HashTree, Copy, FlushRow, Inv, TypeOK, Job
<1>5. job[r].op # "manual"
  BY <1>1 DEF Orderly, Saves
<1>6. Saves(r)'
  BY <1>4, <1>5 DEF Saves
<1>. QED
  BY <1>3, <1>4, <1>6, RowsChangeAtCommit, KeepsOrderly

LEMMA InsertOrderly ==
  ASSUME Inv, NEW r \in Requests, Orderly(r), Insert(r)
  PROVE  /\ Orderly(r)' /\ tx'[r].staged = tx[r].staged \cup {NewVersion(r)}
         /\ \A q \in Requests \ {r} : \A w \in tx[q].staged : ~SameKey(NewVersion(r), w)
<1> DEFINE v == NewVersion(r)
           kept == [tx[r] EXCEPT !.staged = @ \cup {v}]
<1>a. tx[r] \in Tx /\ pc[r] = "insert" /\ UNCHANGED <<job, versions, docLock>>
  BY DEF Insert, stores, locks, Inv, TypeOK
<1>b. Fits(job[r], "insert")
  BY <1>a DEF Inv, JobsFit
<1>1. v \in Version
  BY <1>a, NewVersionType
<1>2. /\ kept \in Tx /\ kept.dropped = tx[r].dropped
      /\ kept.staged = tx[r].staged \cup {v}
  BY <1>a, <1>1 DEF Tx
<1>3. tx'[r] \in {kept, WithFixity(kept, v)}
  BY DEF Insert, Inv, TypeOK
<1>4. tx'[r].staged = tx[r].staged \cup {v} /\ tx'[r].dropped = tx[r].dropped
  BY <1>2, <1>3 DEF WithFixity, Tx
<1>5. v.origin = "manual" <=> job[r].op = "manual"
  BY <1>b DEF Fits, NewVersion, OriginOf, Versioning, Passes
<1>6. v.file = job[r].file
  BY DEF NewVersion
<1>7. /\ \A w \in Seen(r) : ~SameKey(w, v) /\ ~SameKey(v, w)
      /\ \A q \in Requests \ {r} : \A w \in tx[q].staged : ~SameKey(v, w)
  BY DEF Insert, KeyTaken, MustWait, SameKey
<1>8. Drops(r)'
  <2>1. job[r].op # "delete_version"
    BY <1>b DEF Fits, Versioning, Passes
  <2>. QED
    BY <1>4, <2>1 DEF Orderly, Drops
<1> HIDE DEF v
<1>9. Stages(r)'
  <2>1. IsFiniteSet(tx'[r].staged)
    BY <1>4, FS_AddElement DEF Orderly, Stages
  <2>2. \A w \in versions : ~SameKey(v, w)
    BY <1>7 DEF Seen
  <2>3. \A w \in tx[r].staged : ~SameKey(v, w) /\ ~SameKey(w, v)
    BY <1>7 DEF Seen
  <2>. QED
    BY <1>a, <1>4, <1>5, <2>1, <2>2, <2>3 DEF Orderly, Stages
<1>10. Saves(r)'
  <2> SUFFICES ASSUME job[r].op = "manual" PROVE Saves(r)'
    BY <1>a DEF Saves
  <2>1. tx[r].staged = {} /\ tx'[r].staged = {v}
    BY <1>a, <1>4 DEF Orderly, Saves
  <2>2. pc'[r] = "commit"
    BY <1>b DEF Insert, Goto, AfterDoc, Fits, Passes, Inv, TypeOK
  <2>3. /\ docLock[job[r].file] = r /\ job[r].file \in Files
        /\ ManualCount(versions, job[r].file) < ManualMax
    BY <1>a DEF Orderly, Saves
  <2>. QED
    BY <1>a, <1>6, <2>1, <2>2, <2>3 DEF Saves
<1>. QED
  BY <1>4, <1>7, <1>8, <1>9, <1>10 DEF Orderly, v

LEMMA WriteVersionOrderly ==
  ASSUME Inv, NEW r \in Requests, Orderly(r), WriteVersion(r), ~Insert(r)
  PROVE  Orderly(r)' /\ tx'[r].staged \in {{}, tx[r].staged}
<1>a. tx[r] \in Tx /\ job[r] \in Job /\ UNCHANGED versions
  BY RowsChangeAtCommit DEF Inv, TypeOK
<1>1. CASE RefuseManual(r) \/ Collide(r)
  BY <1>1, ClosedOrderly DEF RefuseManual, Collide
<1>2. CASE FetchDoc(r) \/ SkipDoc(r) \/ SkipUnchanged(r)
  <2>1. job[r].op # "manual"
    BY <1>2 DEF FetchDoc, SkipDoc, SkipUnchanged, SkipDedup, Orderly, Saves
  <2>2. job'[r].op = job[r].op
    <3>1. CASE FetchDoc(r)
      BY <1>a, <3>1 DEF FetchDoc, Inv, TypeOK, Job
    <3>2. CASE SkipDoc(r)
      BY <1>a, <3>2 DEF SkipDoc, Inv, TypeOK, Job
    <3>3. CASE SkipUnchanged(r)
      BY <3>3 DEF SkipUnchanged
    <3>. QED
      BY <1>2, <3>1, <3>2, <3>3
  <2>3. \A v : /\ WithFixity(tx[r], v).staged = tx[r].staged
               /\ WithFixity(tx[r], v).dropped = tx[r].dropped
    BY <1>a DEF WithFixity, Tx
  <2>4. tx'[r].staged = tx[r].staged /\ tx'[r].dropped = tx[r].dropped
    BY <1>2, <2>3 DEF FetchDoc, SkipDoc, SkipUnchanged, Inv, TypeOK
  <2>5. Saves(r)'
    BY <2>1, <2>2 DEF Saves
  <2>. QED
    BY <1>a, <2>2, <2>4, <2>5, KeepsOrderly
<1>3. CASE Decide(r)
  <2>1. UNCHANGED <<job, tx, docLock>> /\ pc[r] = "version" /\ pc'[r] = "number"
    BY <1>3 DEF Decide, Goto, locks, Inv, TypeOK
  <2>2. Saves(r)'
    <3> SUFFICES ASSUME job[r].op = "manual" PROVE Saves(r)'
      BY <2>1 DEF Saves
    <3>1. tx[r].staged = {} /\ docLock[job[r].file] = r /\ job[r].file \in Files
      BY <2>1 DEF Orderly, Saves
    <3>2. Seen(r) = versions
      BY <3>1 DEF Seen
    <3>3. ManualCount(versions, job[r].file) < ManualMax
      BY <1>3, <3>2 DEF Decide
    <3>. QED
      BY <1>a, <2>1, <3>1, <3>3 DEF Saves
  <2>. QED
    BY <1>a, <2>1, <2>2, KeepsOrderly
<1>4. CASE TakeNumber(r)
  <2>1. UNCHANGED <<tx, docLock>> /\ pc[r] = "number" /\ pc'[r] = "insert"
    BY <1>4 DEF TakeNumber, Goto, locks, Inv, TypeOK
  <2>2. job'[r].op = job[r].op /\ job'[r].file = job[r].file
    BY <1>a, <1>4 DEF TakeNumber, Inv, TypeOK, Job
  <2>3. Saves(r)'
    BY <1>a, <2>1, <2>2 DEF Orderly, Saves
  <2>. QED
    BY <1>a, <2>1, <2>2, <2>3, KeepsOrderly
<1>. QED
  BY <1>1, <1>2, <1>3, <1>4 DEF WriteVersion

\* A request that stands still stays orderly when the rows committed meanwhile
\* are under other keys than its own, and no manual row of its document.
LEMMA OrderlyStill ==
  ASSUME NEW q \in Requests, Orderly(q),
         job'[q] = job[q], pc'[q] = pc[q], tx'[q] = tx[q],
         IsFiniteSet(versions), IsFiniteSet(versions'),
         \A v \in tx[q].staged, w \in versions' : ~SameKey(v, w),
         job[q].op = "manual" /\ pc[q] # "lock" =>
           /\ docLock'[job[q].file] = docLock[job[q].file]
           /\ \A w \in versions' : w.origin = "manual" /\ w.file = job[q].file
                                     => w \in versions
  PROVE  Orderly(q)'
<1>1. Drops(q)' /\ Stages(q)'
  BY DEF Orderly, Drops, Stages
<1>2. Saves(q)'
  <2> SUFFICES ASSUME job[q].op = "manual" PROVE Saves(q)'
    BY DEF Saves
  <2>1. /\ pc[q] \in {"lock", "version", "number", "insert", "commit"}
        /\ pc[q] # "commit" => tx[q].staged = {}
        /\ \A v \in tx[q].staged : tx[q].staged = {v} /\ v.file = job[q].file
        /\ pc[q] # "lock" => job[q].file \in Files /\ docLock'[job[q].file] = q
    BY DEF Orderly, Saves
  <2>2. ASSUME pc[q] \in {"number", "insert", "commit"}
        PROVE  ManualCount(versions', job[q].file) < ManualMax
    <3>1. ManualCount(versions, job[q].file) < ManualMax
      BY <2>2 DEF Orderly, Saves
    <3>2. /\ ManualCount(versions, job[q].file) \in Nat
          /\ ManualCount(versions', job[q].file) \in Nat
          /\ ManualCount(versions', job[q].file) <= ManualCount(versions, job[q].file)
      BY <2>2, Manuals
    <3>. QED
      BY <3>1, <3>2, EditorialAssumption
  <2>. QED
    BY <2>1, <2>2 DEF Saves
<1>. QED
  BY <1>1, <1>2 DEF Orderly

-----------------------------------------------------------------------------
LEMMA CommitRows ==
  ASSUME HInv, NEW r \in Requests, Commit(r)
  PROVE  /\ IsFiniteSet(versions') /\ OneRowPerKey' /\ ManualCapRespected'
         /\ \A q \in Requests \ {r} : Orderly(q)'
<1>1. /\ versions' = (versions \ tx[r].dropped) \cup tx[r].staged
      /\ pc[r] = "commit"
  BY DEF Commit
<1>2. Orderly(r) /\ IsFiniteSet(versions)
  BY DEF HInv
<1>3. IsFiniteSet(versions')
  <2>1. IsFiniteSet(tx[r].staged)
    BY <1>2 DEF Orderly, Stages
  <2>2. IsFiniteSet(versions \ tx[r].dropped)
    BY <1>2, FS_Subset
  <2>. QED
    BY <1>1, <2>1, <2>2, FS_Union
<1>4. OneRowPerKey'
  <2> SUFFICES ASSUME NEW v \in versions', NEW w \in versions', SameKey(v, w)
               PROVE  v = w
    BY DEF OneRowPerKey
  <2>1. SameKey(w, v)
    BY DEF SameKey
  <2>. QED
    BY <1>1, <1>2, <2>1 DEF HInv, OneRowPerKey, Orderly, Stages
<1>5. ASSUME NEW f \in Files, job[r].op # "manual" \/ job[r].file # f
      PROVE  \A w \in versions' : w.origin = "manual" /\ w.file = f => w \in versions
  BY <1>1, <1>2, <1>5 DEF Orderly, Stages, Saves
<1>6. ManualCapRespected'
  <2> SUFFICES ASSUME NEW f \in Files PROVE ManualCount(versions', f) <= ManualMax
    BY DEF ManualCapRespected
  <2>1. /\ ManualCount(versions, f) \in Nat /\ ManualCount(versions, f) <= ManualMax
        /\ ManualCount(versions', f) \in Nat /\ ManualMax \in Nat
    BY <1>2, <1>3, Manuals, EditorialAssumption DEF HInv, ManualCapRespected
  <2>2. CASE job[r].op # "manual" \/ job[r].file # f
    <3>1. ManualCount(versions', f) <= ManualCount(versions, f)
      BY <1>2, <1>3, <1>5, <2>2, Manuals
    <3>. QED
      BY <2>1, <3>1
  <2>3. CASE job[r].op = "manual" /\ job[r].file = f
    <3>1. ManualCount(versions, f) < ManualMax
      BY <1>1, <1>2, <2>3 DEF Orderly, Saves
    <3>2. \E x : \A w \in versions' : w.origin = "manual" /\ w.file = f
                                        => w \in versions \/ w = x
      BY <1>1, <1>2, <2>3 DEF Orderly, Saves
    <3>3. ManualCount(versions', f) <= ManualCount(versions, f) + 1
      BY <1>2, <1>3, <3>2, Manuals
    <3>. QED
      BY <2>1, <3>1, <3>3
  <2>. QED
    BY <2>2, <2>3
<1>7. ASSUME NEW q \in Requests \ {r} PROVE Orderly(q)'
  <2>1. Orderly(q) /\ Inv
    BY DEF HInv, PInv
  <2>2. job'[q] = job[q] /\ pc'[q] = pc[q] /\ tx'[q] = tx[q]
    BY <2>1, OneMoves DEF Step
  <2>3. \A v \in tx[q].staged, w \in versions' : ~SameKey(v, w)
    BY <1>1, <2>1 DEF HInv, Apart, Orderly, Stages
  <2>4. ASSUME job[q].op = "manual", pc[q] # "lock"
        PROVE  /\ docLock'[job[q].file] = docLock[job[q].file]
               /\ \A w \in versions' : w.origin = "manual" /\ w.file = job[q].file
                                         => w \in versions
    <3>1. docLock[job[q].file] = q /\ job[q].file \in Files
      BY <2>1, <2>4 DEF Orderly, Saves
    <3>2. docLock'[job[q].file] = q
      BY <2>1, <3>1, DocLocksStay DEF Step
    <3>3. job[r].op # "manual" \/ job[r].file # job[q].file
      BY <1>1, <1>2, <3>1 DEF Orderly, Saves
    <3>. QED
      BY <1>5, <3>1, <3>2, <3>3
  <2>. QED
    BY <1>2, <1>3, <2>1, <2>2, <2>3, <2>4, OrderlyStill
<1>. QED
  BY <1>3, <1>4, <1>6, <1>7

LEMMA InitHInv == Init => HInv
<1> SUFFICES ASSUME Init PROVE HInv
  OBVIOUS
<1>1. PInv
  BY InitPInv
<1>2. \A r \in Requests : tx[r].dropped = {} /\ tx[r].staged = {} /\ job[r].op = "none"
  BY DEF Init, NoTx, Session, NoJob
<1>3. \A r \in Requests : Orderly(r)
  BY <1>2, FS_EmptySet DEF Orderly, Drops, Stages, Saves
<1>4. \A r, q \in Requests : Apart(r, q)
  BY <1>2 DEF Apart
<1>5. versions = {} /\ IsFiniteSet(versions) /\ OneRowPerKey
  BY FS_EmptySet DEF Init, OneRowPerKey
<1>6. ManualCapRespected
  <2> SUFFICES ASSUME NEW f \in Files PROVE ManualCount(versions, f) <= ManualMax
    BY DEF ManualCapRespected
  <2>1. {v \in Of(versions, f) : v.origin = "manual"} = {}
    BY <1>5 DEF Of
  <2>2. ManualCount(versions, f) = 0
    BY <2>1, FS_EmptySet DEF ManualCount
  <2>. QED
    BY <2>2, EditorialAssumption
<1>. QED
  BY <1>1, <1>3, <1>4, <1>5, <1>6 DEF HInv

LEMMA RequestHInv ==
  ASSUME HInv, PInv', NEW r \in Requests,
         Begin(r) \/ Step(r) \/ Fail(r) \/ CopyFails(r)
  PROVE  HInv'
<1>1. Inv /\ Orderly(r) /\ IsFiniteSet(versions)
  BY DEF HInv, PInv
<1>2. Orderly(r)' /\ (Insert(r) \/ tx'[r].staged \in {{}, tx[r].staged})
  BY <1>1, BeginOrderly, WriteDocOrderly, PublishOrderly, InsertOrderly,
     WriteVersionOrderly, ClosedOrderly DEF Step, Commit, Fail, CopyFails
<1>3. \A q \in Requests \ {r} : job'[q] = job[q] /\ pc'[q] = pc[q] /\ tx'[q] = tx[q]
  BY <1>1, OneMoves
<1>4. ASSUME NEW q \in Requests \ {r} PROVE Apart(r, q)' /\ Apart(q, r)'
  <2>1. Apart(r, q) /\ tx'[q] = tx[q]
    BY <1>3 DEF HInv
  <2>2. \A v \in tx'[r].staged : \A w \in tx[q].staged : ~SameKey(v, w)
    <3>1. CASE Insert(r)
      <4>1. /\ tx'[r].staged = tx[r].staged \cup {NewVersion(r)}
            /\ \A w \in tx[q].staged : ~SameKey(NewVersion(r), w)
        BY <1>1, <3>1, InsertOrderly
      <4>. QED
        BY <2>1, <4>1 DEF Apart
    <3>2. CASE tx'[r].staged \in {{}, tx[r].staged}
      BY <2>1, <3>2 DEF Apart
    <3>. QED
      BY <1>2, <3>1, <3>2
  <2>. QED
    BY <2>1, <2>2 DEF Apart, SameKey
<1>5. \A p, q \in Requests : p # q => Apart(p, q)'
  <2>1. \A p, q \in Requests \ {r} : p # q => Apart(p, q)'
    BY <1>3 DEF HInv, Apart
  <2>. QED
    BY <1>4, <2>1
<1>6. CASE Commit(r)
  BY <1>2, <1>5, <1>6, CommitRows DEF HInv
<1>7. CASE ~Commit(r)
  <2>1. UNCHANGED versions
    BY <1>7, RowsChangeAtCommit DEF Step
  <2>2. IsFiniteSet(versions') /\ OneRowPerKey' /\ ManualCapRespected'
    BY <2>1 DEF HInv, OneRowPerKey, ManualCapRespected
  <2>3. ASSUME NEW q \in Requests \ {r} PROVE Orderly(q)'
    <3>1. Orderly(q) /\ \A v \in tx[q].staged, w \in versions' : ~SameKey(v, w)
      BY <2>1 DEF HInv, Orderly, Stages
    <3>2. job[q].op = "manual" /\ pc[q] # "lock" =>
            docLock'[job[q].file] = docLock[job[q].file]
      BY <1>1, <3>1, DocLocksStay DEF Orderly, Saves
    <3>. QED
      BY <1>1, <1>3, <2>1, <2>2, <3>1, <3>2, OrderlyStill
  <2>. QED
    BY <1>2, <1>5, <2>2, <2>3 DEF HInv
<1>. QED
  BY <1>6, <1>7

LEMMA NextHInv == HInv /\ [Next]_vars => HInv'
<1> SUFFICES ASSUME HInv, [Next]_vars PROVE HInv'
  OBVIOUS
<1>1. PInv'
  BY NextPInv DEF HInv
<1>2. CASE UNCHANGED vars
  <2>1. UNCHANGED <<versions, docLock, pc, job, tx>>
    BY <1>2 DEF vars, stores, locks
  <2>2. IsFiniteSet(versions') /\ OneRowPerKey' /\ ManualCapRespected'
    BY <2>1 DEF HInv, OneRowPerKey, ManualCapRespected
  <2>3. ASSUME NEW r \in Requests PROVE Orderly(r)'
    <3>1. Drops(r) /\ Stages(r) /\ Saves(r)
      BY DEF HInv, Orderly
    <3>2. Drops(r)' /\ Stages(r)'
      BY <2>1, <3>1 DEF Drops, Stages
    <3>3. Saves(r)'
      BY <2>1, <3>1 DEF Saves
    <3>. QED
      BY <3>2, <3>3 DEF Orderly
  <2>4. \A r, q \in Requests : r # q => Apart(r, q)'
    BY <2>1 DEF HInv, Apart
  <2>. QED
    BY <1>1, <2>2, <2>3, <2>4 DEF HInv
<1>. QED
  BY <1>1, <1>2, RequestHInv DEF Next

LEMMA HistoryInvariance == Spec => []HInv
BY InitHInv, NextHInv, PTL DEF Spec

\* However many saves race, whatever they are interleaved with, no document has
\* more manual versions than the cap: the advisory lock keeps the count that a save
\* has made true until its row is committed.
THEOREM ManualCapHolds == Spec => []ManualCapRespected
<1>1. HInv => ManualCapRespected
  BY DEF HInv
<1>. QED
  BY <1>1, HistoryInvariance, PTL

-----------------------------------------------------------------------------
(* The refinement *)

\* A commit records the rows it has staged, or discards one.
LEMMA CommitRecords ==
  ASSUME HInv, HInv', NEW r \in Requests, Commit(r)
  PROVE  History!Next \/ UNCHANGED <<versions, fixity>>
<1>1. /\ versions' = (versions \ tx[r].dropped) \cup tx[r].staged
      /\ fixity' = [f \in Files |-> IF tx[r].fixity[f] = NoRecord
                                      THEN fixity[f] ELSE tx[r].fixity[f]]
  BY DEF Commit
<1>2. Drops(r) /\ Stages(r) /\ Saves(r) /\ Sound(r)
  BY DEF HInv, Orderly, PInv
<1>3. CASE tx[r].dropped = {}
  <2>1. versions' = versions \cup tx[r].staged
    BY <1>1, <1>3
  <2>2. versions' \subseteq Version
    BY DEF HInv, PInv, Inv, TypeOK
  <2>3. \A v, w \in versions' : SameKey(v, w) => v = w
    BY DEF HInv, OneRowPerKey
  <2>4. History!Certifies(fixity', versions')
    BY DEF HInv, PInv, FixityTracksLatestPublication, History!Certifies,
       History!Certificate, FixityOf, Publications, IsLastPublication, Of,
       History!Publications, History!IsLastPublication, History!Of
  <2>5. ASSUME NEW v \in versions' \ versions, v.origin = "manual"
        PROVE  versions' \ versions = {v}
    <3>1. v \in tx[r].staged /\ job[r].op = "manual"
      BY <1>2, <2>1, <2>5 DEF Stages
    <3>2. tx[r].staged = {v}
      BY <1>2, <3>1 DEF Saves
    <3>. QED
      BY <2>1, <2>5, <3>2
  <2>6. History!Version = Version
    BY DEF History!Version, Version, History!VersionNumbers, VersionNumbers,
       History!Body, Body, History!Origins, Origins
  <2>7. History!UniqueKeys(versions')
    BY <2>3 DEF History!UniqueKeys, History!SameKey, SameKey
  <2>. QED
    BY <2>1, <2>2, <2>4, <2>5, <2>6, <2>7 DEF History!Next, History!Record
<1>4. CASE tx[r].dropped # {}
  <2>1. PICK v : tx[r].dropped = {v}
    BY <1>2, <1>4 DEF Drops
  <2>2. v.origin = "manual" /\ versions' = versions \ {v}
    BY <1>1, <1>2, <1>4, <2>1 DEF Drops, Sound, Discards
  <2>3. UNCHANGED fixity
    <3>1. job[r].op \notin Publishing
      BY <1>2, <1>4 DEF Drops, Publishing
    <3>2. \A f \in Files : tx[r].fixity[f] = NoRecord
      BY <1>2, <3>1 DEF Sound, NothingPublic, NoFixity
    <3>3. fixity' = [f \in Files |-> fixity[f]]
      BY <1>1, <3>2
    <3>. QED
      BY <3>3 DEF HInv, PInv, Inv, TypeOK
  <2>. QED
    BY <2>2, <2>3 DEF History!Next, History!Discard
<1>. QED
  BY <1>3, <1>4

\* The version and fixity rows of the collection behave as VersionHistory
\* promises, for any number of requests and documents: what requests stage appears
\* whole when they commit, under keys of its own.
THEOREM HistoryImplemented == Spec => ImplementsVersionHistory
<1>1. Init => History!Init
  BY DEF Init, History!Init, NoFixity
<1>2. HInv /\ HInv' /\ [Next]_vars => [History!Next]_<<versions, fixity>>
  <2> SUFFICES ASSUME HInv, HInv', [Next]_vars
               PROVE  History!Next \/ UNCHANGED <<versions, fixity>>
    OBVIOUS
  <2>1. CASE UNCHANGED vars
    BY <2>1 DEF vars, stores
  <2>2. ASSUME NEW r \in Requests,
               Begin(r) \/ Step(r) \/ Fail(r) \/ CopyFails(r)
        PROVE  History!Next \/ UNCHANGED <<versions, fixity>>
    BY <2>2, CommitRecords, RowsChangeAtCommit DEF Step
  <2>. QED
    BY <2>1, <2>2 DEF Next
<1>. QED
  BY <1>1, <1>2, HistoryInvariance, PTL
  DEF Spec, ImplementsVersionHistory, History!Spec, History!vars
=============================================================================
