------------------------------- MODULE Fixity -------------------------------
(***************************************************************************)
(* The fixity records of a collection (services/fixity.py): the sweeps     *)
(* that re-hash the certified version of every document, and the           *)
(* publications that refresh the records, as concurrent transactions.      *)
(*                                                                         *)
(* A sweep is run by the scheduler of each worker process and by the       *)
(* administrator's "Recheck now".  The passes of the publications of one   *)
(* collection exclude each other (they hold its row), so they are one      *)
(* process.  A transaction keeps the rows as it loaded them and writes the *)
(* columns it changed; a row it has written stays locked until it ends.    *)
(***************************************************************************)
EXTENDS Naturals, FiniteSets

CONSTANTS
  Files,       \* documents, numbered in the order of their names
  Rank,        \* the order of the identifiers of their fixity rows
  Sweeps,      \* how many sweeps may be in flight
  Publisher,
  MaxVersion,  \* bound on version numbers
  Chunk,       \* rows a sweep loads at a time
  Damages,     \* what may happen to a stored body
  MaxDamages,  \* bound: how often
  NoRecord,    \* the document has no fixity row
  Nobody

Txs == Sweeps \cup {Publisher}
Numbers == 1..MaxVersion
Statuses == {"ok", "drifted", "missing", "error"}
Drift == {"drifted", "missing"}

\* drifted_at is consulted only as set or not set.  expected_sha256 is the
\* digest the row n was written with, and goes with version_number.
Record == [n : Numbers, status : Statuses, stamped : BOOLEAN]
Columns == {"n", "status", "stamped"}

ASSUME FixityAssumption ==
  /\ Files \subseteq Nat /\ IsFiniteSet(Files)
  /\ Rank \in [Files -> Nat \ {0}]
  /\ \A f, g \in Files : Rank[f] = Rank[g] => f = g
  /\ Publisher \notin Sweeps /\ Nobody \notin Txs
  /\ MaxVersion \in Nat \ {0} /\ Chunk \in Nat \ {0} /\ MaxDamages \in Nat
  /\ Damages \subseteq {"altered", "unreadable", "gone"}
  /\ NoRecord \notin Record

VARIABLES
  record,      \* the committed row of each document in fixity_records
  blob,        \* the state of the stored body of each publication row
  rowLock,     \* the transaction that has written each fixity row
  pc,
  tx,
  damages,     \* how often a body was damaged
  harmed       \* history: the documents some body of which was damaged

vars == <<record, blob, rowLock, pc, tx, damages, harmed>>

-----------------------------------------------------------------------------
\* loaded: the ORM instances; new, dirty: what the UPDATE of a row writes;
\* audit: drift rows added to audit_log; last, more: the keyset pagination;
\* added: publication rows written; due: history, the rows a sweep started with.
Tx == [todo : SUBSET Files, loaded : [Files -> Record \cup {NoRecord}],
       found : Statuses, new : [Files -> Record \cup {NoRecord}],
       dirty : [Files -> SUBSET Columns], wrote : SUBSET Files,
       audit : SUBSET Files, last : Nat, more : BOOLEAN,
       added : [Files -> Numbers \cup {0}], due : SUBSET Files]
NoTx == [todo |-> {}, loaded |-> [f \in Files |-> NoRecord], found |-> "ok",
         new |-> [f \in Files |-> NoRecord], dirty |-> [f \in Files |-> {}],
         wrote |-> {}, audit |-> {}, last |-> 0, more |-> FALSE,
         added |-> [f \in Files |-> 0], due |-> {}]
PCs == {"idle", "load", "hash", "mark", "pick", "record", "commit"}

\* A body that is "gone" has no row in document_versions (yet, or any more).
Blobs == {"intact", "altered", "unreadable", "gone"}

TypeOK ==
  /\ record \in [Files -> Record \cup {NoRecord}]
  /\ blob \in [Files -> [Numbers -> Blobs]]
  /\ rowLock \in [Files -> Txs \cup {Nobody}]
  /\ pc \in [Txs -> PCs]
  /\ tx \in [Txs -> Tx]
  /\ damages \in 0..MaxDamages
  /\ harmed \in SUBSET Files

Recorded == {f \in Files : record[f] # NoRecord}
Goto(t, at) == pc' = [pc EXCEPT ![t] = at]

\* Mutant: the rollback leaves the rows locked.
CloseKeepingLocks(t) ==
  /\ Goto(t, "idle")
  /\ tx' = [tx EXCEPT ![t] = NoTx]
  /\ UNCHANGED rowLock

Close(t) ==
  /\ Goto(t, "idle")
  /\ tx' = [tx EXCEPT ![t] = NoTx]
  /\ rowLock' = [f \in Files |-> IF rowLock[f] = t THEN Nobody ELSE rowLock[f]]

\* The UPDATE of a row waits for the transaction that has written it.
LockRow(t, f) ==
  /\ rowLock[f] = Nobody
  /\ rowLock' = [rowLock EXCEPT ![f] = t]

-----------------------------------------------------------------------------
(* recheck_all, recheck_one *)

StartSweep(t) ==
  /\ pc[t] = "idle"
  /\ Goto(t, "load")
  /\ tx' = [tx EXCEPT ![t] = [NoTx EXCEPT !.due = Recorded]]
  /\ UNCHANGED <<record, blob, rowLock, damages, harmed>>

\* The next Chunk rows after `last' in the order of their identifiers.
IsChunk(C, last) ==
  LET After == {f \in Recorded : Rank[f] > last}
  IN  /\ C \subseteq After
      /\ Cardinality(C) <= Chunk
      /\ \A f \in C, g \in After \ C : Rank[f] < Rank[g]
      /\ Cardinality(C) < Chunk => C = After

\* Mutant: one chunk is taken to be the whole table.
OneChunk(C) == FALSE

\* Not len(rows) < chunk_size.
IsFull(C) == ~(Cardinality(C) < Chunk)

LoadChunk(t) == \E C \in SUBSET Recorded :
  /\ pc[t] = "load" /\ IsChunk(C, tx[t].last)
  /\ \/ C = {} /\ Goto(t, "commit") /\ UNCHANGED tx
     \/ \E f \in C :
          /\ \A g \in C : Rank[g] <= Rank[f]
          /\ Goto(t, "hash")
          /\ tx' = [tx EXCEPT
               ![t].todo = C, ![t].last = Rank[f], ![t].more = IsFull(C),
               ![t].loaded = [g \in Files |-> IF g \in C THEN record[g]
                                                         ELSE @[g]]]
  /\ UNCHANGED <<record, blob, rowLock, damages, harmed>>

NextRow(t, f) == f \in tx[t].todo /\ \A g \in tx[t].todo : Rank[f] <= Rank[g]

StatusOf == [intact |-> "ok", altered |-> "drifted", unreadable |-> "error",
             gone |-> "missing"]

\* Mutant: the digest compared is that of the version certified by now.
FoundInHead(f, old) ==
  IF record[f].n = old.n THEN StatusOf[blob[f][old.n]] ELSE "drifted"

\* The status of the version the loaded row names, against its own digest.
Found(f, old) == StatusOf[blob[f][old.n]]

\* Mutant: a version that is gone is not a drift.
MissingIsOk(s) == IF s = "missing" THEN "ok" ELSE s

Verdict(s) == s

\* The SELECT of the version, and the digest of its body.
Hash(t) == \E f \in Files :
  /\ pc[t] = "hash" /\ NextRow(t, f)
  /\ tx' = [tx EXCEPT ![t].found = Verdict(Found(f, tx[t].loaded[f]))]
  /\ Goto(t, "mark")
  /\ UNCHANGED <<record, blob, rowLock, damages, harmed>>

\* _transition
JustDrifted(old, s) == old.status = "ok" /\ s \in Drift
Transitioned(old, s) ==
  [n |-> old.n, status |-> s,
   stamped |-> \/ JustDrifted(old, s)
               \/ old.stamped /\ ~(s = "ok" /\ old.status # "ok")]
Changed(old, new) == {c \in Columns : new[c] # old[c]}

Marked(session, f) ==
  LET old == session.loaded[f]
      new == Transitioned(old, session.found)
      drifted == JustDrifted(old, session.found)
  IN  [session EXCEPT
         !.new[f] = new,
         !.dirty[f] = Changed(old, new)
                        \cup (IF drifted THEN {"stamped"} ELSE {}),
         !.audit = IF drifted THEN @ \cup {f} ELSE @,
         !.wrote = @ \cup {f}, !.todo = @ \ {f},
         !.loaded[f] = NoRecord, !.found = "ok"]

\* The flush: last_checked_at always changes, so there is always an UPDATE.
Mark(t) == \E f \in Files :
  /\ pc[t] = "mark" /\ NextRow(t, f)
  /\ LockRow(t, f)
  /\ tx' = [tx EXCEPT ![t] = Marked(@, f)]
  /\ Goto(t, IF tx[t].todo # {f} THEN "hash"
             ELSE IF tx[t].more THEN "load" ELSE "commit")
  /\ UNCHANGED <<record, blob, damages, harmed>>

-----------------------------------------------------------------------------
(* record_publication, for the documents of a publication in name order *)

\* todo: the documents of the pass whose record is refreshed.
StartPass == \E docs \in (SUBSET Files) \ {{}} :
  /\ pc[Publisher] = "idle"
  /\ Goto(Publisher, "pick")
  /\ tx' = [tx EXCEPT ![Publisher].todo = docs]
  /\ UNCHANGED <<record, blob, rowLock, damages, harmed>>

Rows(f) == {m \in Numbers : blob[f][m] # "gone"}
NextDoc(f) ==
  /\ f \in tx[Publisher].todo
  /\ \A g \in tx[Publisher].todo : f <= g

\* Mutant: the rows are counted from zero.
CertifiedBefore(n) == [n |-> n - 1, status |-> "ok", stamped |-> FALSE]

Certified(n) == [n |-> n, status |-> "ok", stamped |-> FALSE]

\* The record is read: for a new publication row, whose number is beyond
\* those of the rows there are, or for the last one (get_last_publication).
Picked(session, f, n) ==
  [session EXCEPT !.loaded[f] = record[f], !.new[f] = Certified(n),
                  !.added[f] = IF n \in Rows(f) THEN 0 ELSE n]
Pick(f, n) ==
  /\ pc[Publisher] = "pick" /\ NextDoc(f)
  /\ tx' = [tx EXCEPT ![Publisher] = Picked(@, f, n)]
  /\ Goto(Publisher, "record")
  /\ UNCHANGED <<record, blob, rowLock, damages, harmed>>

PickNew == \E f \in Files, n \in Numbers :
  /\ \A m \in Rows(f) : m < n
  /\ Pick(f, n)

PickLast == \E f \in Files : \E n \in Rows(f) :
  /\ \A m \in Rows(f) : m <= n
  /\ Pick(f, n)

\* create_version found nothing new and there is no publication row: on to the
\* next document.
PickNone == \E f \in Files :
  /\ pc[Publisher] = "pick" /\ NextDoc(f) /\ Rows(f) = {}
  /\ tx' = [tx EXCEPT ![Publisher].todo = @ \ {f}]
  /\ Goto(Publisher, IF tx[Publisher].todo = {f} THEN "commit" ELSE "pick")
  /\ UNCHANGED <<record, blob, rowLock, damages, harmed>>

\* INSERT, or UPDATE of the columns that differ from the row as it was read.
Written(session, f) ==
  [session EXCEPT
     !.dirty[f] = IF session.loaded[f] = NoRecord THEN Columns
                  ELSE Changed(session.loaded[f], session.new[f]),
     !.wrote = @ \cup {f}, !.todo = @ \ {f}, !.loaded[f] = NoRecord]
WriteRecord == \E f \in Files :
  /\ pc[Publisher] = "record" /\ NextDoc(f)
  /\ LockRow(Publisher, f)
  /\ tx' = [tx EXCEPT ![Publisher] = Written(@, f)]
  /\ Goto(Publisher, IF tx[Publisher].todo = {f} THEN "commit" ELSE "pick")
  /\ UNCHANGED <<record, blob, damages, harmed>>

-----------------------------------------------------------------------------
(* The end of a transaction *)

Overlay(old, new, dirty) ==
  IF old = NoRecord THEN new
  ELSE [n |-> IF "n" \in dirty THEN new.n ELSE old.n,
        status |-> IF "status" \in dirty THEN new.status ELSE old.status,
        stamped |-> IF "stamped" \in dirty THEN new.stamped ELSE old.stamped]

Commit(t) ==
  /\ pc[t] = "commit"
  /\ record' = [f \in Files |->
       IF f \in tx[t].wrote THEN Overlay(record[f], tx[t].new[f], tx[t].dirty[f])
                            ELSE record[f]]
  /\ blob' = [f \in Files |-> [m \in Numbers |->
       IF m = tx[t].added[f] THEN "intact" ELSE blob[f][m]]]
  /\ Close(t)
  /\ UNCHANGED <<damages, harmed>>

Fail(t) ==
  /\ pc[t] # "idle"
  /\ Close(t)
  /\ UNCHANGED <<record, blob, damages, harmed>>

\* The row whose UPDATE transaction t has sent.
Wants(t, f) ==
  \/ pc[t] = "mark" /\ NextRow(t, f)
  \/ t = Publisher /\ pc[t] = "record" /\ NextDoc(f)

\* Each of a set of transactions waits for another of them.
Deadlocked(t) == \E S \in SUBSET Txs :
  /\ t \in S
  /\ \A u \in S : \E f \in Files : Wants(u, f) /\ rowLock[f] \in S
  /\ \A v \in S : \E u \in S, f \in Files : Wants(u, f) /\ rowLock[f] = v

\* PostgreSQL picks a victim.
Abort(t) == Deadlocked(t) /\ Fail(t)

-----------------------------------------------------------------------------
(* What happens to the stored bodies behind the program's back *)

Damage == \E f \in Files, how \in Damages : \E m \in Rows(f) :
  /\ damages < MaxDamages
  /\ damages' = damages + 1
  /\ harmed' = harmed \cup {f}
  /\ blob' = [blob EXCEPT ![f][m] = how]
  /\ UNCHANGED <<record, rowLock, pc, tx>>

Repair == \E f \in Files : \E m \in Rows(f) :
  /\ blob[f][m] # "intact"
  /\ blob' = [blob EXCEPT ![f][m] = "intact"]
  /\ UNCHANGED <<record, rowLock, pc, tx, damages, harmed>>

-----------------------------------------------------------------------------
\* A document has a publication row and its record, the publication row alone
\* (it predates the records), or neither.
Init ==
  /\ \E published \in SUBSET Files : \E known \in SUBSET published :
       /\ blob = [f \in Files |-> [m \in Numbers |->
                    IF f \in published /\ m = 1 THEN "intact" ELSE "gone"]]
       /\ record = [f \in Files |-> IF f \in known THEN Certified(1)
                                                   ELSE NoRecord]
  /\ rowLock = [f \in Files |-> Nobody]
  /\ pc = [t \in Txs |-> "idle"]
  /\ tx = [t \in Txs |-> NoTx]
  /\ damages = 0
  /\ harmed = {}

SweepStep(t) == LoadChunk(t) \/ Hash(t) \/ Mark(t) \/ Commit(t) \/ Abort(t)
PassStep ==
  \/ PickNew \/ PickLast \/ PickNone \/ WriteRecord
  \/ Commit(Publisher) \/ Abort(Publisher)

Next ==
  \/ \E t \in Sweeps : StartSweep(t) \/ SweepStep(t)
  \/ StartPass \/ PassStep
  \/ \E t \in Txs : Fail(t)
  \/ Damage \/ Repair

Spec == Init /\ [][Next]_vars

\* Statements return, row locks are granted in order, and a deadlock is
\* detected.  Nothing makes anyone begin a sweep or a publication.
FairSpec == Spec /\ (\A t \in Sweeps : SF_vars(SweepStep(t))) /\ SF_vars(PassStep)
-----------------------------------------------------------------------------
(* Properties *)

\* When a sweep is about to commit it has re-checked every row there was when
\* it started: the pagination by identifier skips none, whatever publications
\* insert between two chunks, and the sweep never stops at a full chunk.
SweepIsComplete == \A t \in Sweeps :
  pc[t] = "commit" => tx[t].due \subseteq tx[t].wrote

\* No false alarm: a record is not ok only if some stored body of its document
\* was damaged, although a sweep may judge a row by the version it certified
\* when it was loaded while a publication certifies another.
NoFalseAlarm == \A f \in Recorded : record[f].status # "ok" => f \in harmed

\* The certified body of a document is not what was published.
Damaged(f) == f \in Recorded /\ blob[f][record[f].n] # "intact"

\* A damage that lasts is reported again and again, as long as sweeps go on to
\* commit, however often publications set the record back to ok.
DamageIsReported == \A f \in Files :
  /\ []<><<\E t \in Sweeps : Commit(t)>>_vars
  /\ <>[]Damaged(f)
  => []<>(f \in Recorded /\ record[f].status # "ok")

\* Every sweep and every publication ends, although they lock the fixity rows
\* in different orders (identifiers, names): a deadlock costs one of them its
\* transaction, and no row stays locked.
TransactionsEnd == \A t \in Txs : pc[t] # "idle" ~> pc[t] = "idle"

\* What the documents say and the code does not do: exactly one audit row
\* "when a row transitions ok -> drifted or ok -> missing"
\* (docs/reference/FIXITY.md:110).
OneSignalPerDrift ==
  [][\A t \in Sweeps : Commit(t) => \A f \in Recorded :
       f \in tx[t].audit <=>
         record[f].status = "ok" /\ record'[f].status \in Drift]_vars
=============================================================================
