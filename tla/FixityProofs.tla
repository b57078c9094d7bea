---------------------------- MODULE FixityProofs ----------------------------
(***************************************************************************)
(* Theorems about what is looked at again later, Fixity and WebArchive,    *)
(* and about both together (MCRechecks).  Those about Fixity are for any   *)
(* number of documents, sweeps, versions and damages and any chunk size.   *)
(* Fits says which notes a transaction has made where; Covered, that a row *)
(* due to a sweep is written, loaded or still ahead of the cursor; Sound,  *)
(* that what a transaction has read or is about to write of an unharmed    *)
(* document names an intact body.                                          *)
(***************************************************************************)
EXTENDS MCRechecks, FiniteSetTheorems, TLAPS

\* A row in hand was loaded; a row written, or about to be, has its values.
Fits ==
  /\ \A t \in Sweeps : pc[t] \notin {"pick", "record"}
  /\ pc[Publisher] \notin {"load", "hash", "mark"}
  /\ \A t \in Sweeps : pc[t] \in {"hash", "mark"} =>
       \A f \in tx[t].todo : tx[t].loaded[f] \in Record
  /\ \A t \in Txs : \A f \in tx[t].wrote : tx[t].new[f] \in Record
  /\ pc[Publisher] = "record" =>
       \A f \in Files : NextDoc(f) => tx[Publisher].new[f] \in Record

TInv == TypeOK /\ Fits

-----------------------------------------------------------------------------
LEMMA NoTxType == NoTx \in Tx
BY DEF NoTx, Tx, Statuses

LEMMA RecordType ==
  ASSUME NEW n \in Numbers
  PROVE  Certified(n) \in Record
BY DEF Certified, Record, Statuses

LEMMA TransitionedType ==
  ASSUME NEW old \in Record, NEW s \in Statuses
  PROVE  Transitioned(old, s) \in Record
BY DEF Transitioned, Record, JustDrifted

LEMMA OverlayType ==
  ASSUME NEW old \in Record \cup {NoRecord}, NEW new \in Record, NEW dirty
  PROVE  Overlay(old, new, dirty) \in Record
BY DEF Overlay, Record

LEMMA StatusType ==
  ASSUME NEW b \in Blobs
  PROVE  StatusOf[b] \in Statuses
BY DEF StatusOf, Blobs, Statuses

LEMMA InitT == Init => TInv
<1> SUFFICES ASSUME Init PROVE TInv
  OBVIOUS
<1> USE FixityAssumption DEF Init
<1>1. 1 \in Numbers
  BY DEF Numbers
<1>2. record \in [Files -> Record \cup {NoRecord}]
  BY <1>1, RecordType
<1>3. blob \in [Files -> [Numbers -> Blobs]]
  BY DEF Blobs
<1>4. tx \in [Txs -> Tx] /\ pc \in [Txs -> PCs]
  BY NoTxType DEF PCs
<1>5. TypeOK
  BY <1>2, <1>3, <1>4 DEF TypeOK
<1>6. Fits
  BY <1>4 DEF Fits, Txs, NoTx
<1>. QED
  BY <1>5, <1>6 DEF TInv

-----------------------------------------------------------------------------
\* One lemma for each action: its effect keeps the types, and the notes fit.
LEMMA StartSweepT ==
  ASSUME TInv, NEW t \in Sweeps, StartSweep(t)
  PROVE  TInv'
<1> USE FixityAssumption DEF TInv
<1>1. t \in Txs /\ t # Publisher
  BY DEF Txs
<1>2. [NoTx EXCEPT !.due = Recorded] \in Tx
  BY NoTxType DEF Recorded, Tx
<1>3. TypeOK'
  BY <1>1, <1>2 DEF TypeOK, StartSweep, Goto, PCs
<1>4. tx'[t].wrote = {} /\ pc'[t] = "load"
  BY <1>1 DEF TypeOK, StartSweep, Goto, NoTx
<1>5. \A u \in Txs \ {t} : tx'[u] = tx[u] /\ pc'[u] = pc[u]
  BY DEF TypeOK, StartSweep, Goto
<1>6. Fits'
  BY <1>1, <1>4, <1>5 DEF Fits, Txs, NextDoc
<1>. QED
  BY <1>3, <1>6

LEMMA LoadChunkT ==
  ASSUME TInv, NEW t \in Sweeps, LoadChunk(t)
  PROVE  TInv'
<1> USE FixityAssumption DEF TInv
<1>1. t \in Txs /\ t # Publisher /\ pc[t] = "load"
  BY DEF Txs, LoadChunk
<1>2. PICK C \in SUBSET Recorded :
        /\ IsChunk(C, tx[t].last)
        /\ \/ C = {} /\ Goto(t, "commit") /\ UNCHANGED tx
           \/ \E f \in C :
                /\ Goto(t, "hash")
                /\ tx' = [tx EXCEPT
                     ![t].todo = C, ![t].last = Rank[f], ![t].more = IsFull(C),
                     ![t].loaded = [g \in Files |-> IF g \in C THEN record[g]
                                                               ELSE @[g]]]
        /\ UNCHANGED <<record, blob, rowLock, damages, harmed>>
  BY DEF LoadChunk
<1>3. CASE C = {} /\ Goto(t, "commit") /\ UNCHANGED tx
  <2>1. TypeOK'
    BY <1>1, <1>2, <1>3 DEF TypeOK, Goto, PCs
  <2>. QED
    BY <1>1, <1>3, <2>1 DEF Fits, TypeOK, Goto, Txs, NextDoc
<1>4. ASSUME NEW f \in C, Goto(t, "hash"),
             tx' = [tx EXCEPT
               ![t].todo = C, ![t].last = Rank[f], ![t].more = IsFull(C),
               ![t].loaded = [g \in Files |-> IF g \in C THEN record[g]
                                                         ELSE @[g]]]
      PROVE  TInv'
  <2>1. C \subseteq Files /\ f \in Files /\ Rank[f] \in Nat
        /\ IsFull(C) \in BOOLEAN
    BY DEF Recorded, IsFull
  <2>2. tx[t] \in Tx
    BY <1>1 DEF TypeOK
  <2>3. [g \in Files |-> IF g \in C THEN record[g] ELSE tx[t].loaded[g]]
          \in [Files -> Record \cup {NoRecord}]
    BY <2>2 DEF TypeOK, Tx
  <2>4. [tx[t] EXCEPT !.todo = C, !.last = Rank[f], !.more = IsFull(C),
                      !.loaded = [g \in Files |->
                         IF g \in C THEN record[g] ELSE tx[t].loaded[g]]] \in Tx
    BY <2>1, <2>2, <2>3 DEF Tx
  <2>5. TypeOK'
    BY <1>1, <1>2, <1>4, <2>4 DEF TypeOK, Goto, PCs
  <2>6. /\ tx'[t].todo = C /\ tx'[t].wrote = tx[t].wrote
        /\ tx'[t].new = tx[t].new /\ pc'[t] = "hash"
        /\ \A g \in C : tx'[t].loaded[g] = record[g]
    BY <1>1, <1>4, <2>1, <2>2 DEF TypeOK, Goto, Tx
  <2>7. \A g \in C : record[g] \in Record
    BY DEF TypeOK, Recorded
  <2>8. \A u \in Txs \ {t} : tx'[u] = tx[u] /\ pc'[u] = pc[u]
    BY <1>4 DEF TypeOK, Goto
  <2>9. Fits'
    BY <1>1, <2>6, <2>7, <2>8 DEF Fits, Txs, NextDoc
  <2>. QED
    BY <2>5, <2>9
<1>. QED
  BY <1>2, <1>3, <1>4

LEMMA HashT ==
  ASSUME TInv, NEW t \in Sweeps, Hash(t)
  PROVE  TInv'
<1> USE FixityAssumption DEF TInv
<1>1. t \in Txs /\ t # Publisher /\ pc[t] = "hash" /\ tx[t] \in Tx
  BY DEF Txs, Hash, TypeOK
<1>2. PICK f \in Files :
        /\ NextRow(t, f)
        /\ tx' = [tx EXCEPT ![t].found = Verdict(Found(f, tx[t].loaded[f]))]
  BY DEF Hash
<1>3. tx[t].loaded[f] \in Record
  BY <1>1, <1>2 DEF Fits, NextRow
<1>4. Verdict(Found(f, tx[t].loaded[f])) \in Statuses
  <2>1. tx[t].loaded[f].n \in Numbers
    BY <1>3 DEF Record
  <2>2. blob[f][tx[t].loaded[f].n] \in Blobs
    BY <2>1 DEF TypeOK
  <2>. QED
    BY <2>2, StatusType DEF Verdict, Found
<1>5. [tx[t] EXCEPT !.found = Verdict(Found(f, tx[t].loaded[f]))] \in Tx
  BY <1>1, <1>4 DEF Tx
<1>6. TypeOK'
  BY <1>1, <1>2, <1>5 DEF TypeOK, Hash, Goto, PCs
<1>7. /\ tx'[t].todo = tx[t].todo /\ tx'[t].wrote = tx[t].wrote
      /\ tx'[t].new = tx[t].new /\ tx'[t].loaded = tx[t].loaded
      /\ pc'[t] = "mark"
  BY <1>1, <1>2 DEF TypeOK, Hash, Goto, Tx
<1>8. \A u \in Txs \ {t} : tx'[u] = tx[u] /\ pc'[u] = pc[u]
  BY DEF TypeOK, Hash, Goto
<1>9. Fits'
  BY <1>1, <1>7, <1>8 DEF Fits, Txs, NextDoc
<1>. QED
  BY <1>6, <1>9

LEMMA MarkedType ==
  ASSUME NEW s \in Tx, NEW new \in [Files -> Record \cup {NoRecord}],
         NEW dirty \in [Files -> SUBSET Columns], NEW audit \in SUBSET Files,
         NEW wrote \in SUBSET Files, NEW todo \in SUBSET Files,
         NEW loaded \in [Files -> Record \cup {NoRecord}],
         NEW found \in Statuses
  PROVE  [s EXCEPT !.new = new, !.dirty = dirty, !.audit = audit,
                   !.wrote = wrote, !.todo = todo, !.loaded = loaded,
                   !.found = found] \in Tx
BY DEF Tx

LEMMA MarkEffect ==
  ASSUME TInv, NEW t \in Sweeps, NEW f \in Files, NextRow(t, f),
         pc[t] = "mark", tx' = [tx EXCEPT ![t] = Marked(@, f)]
  PROVE  /\ tx'[t] \in Tx
         /\ tx'[t].todo = tx[t].todo \ {f}
         /\ tx'[t].wrote = tx[t].wrote \cup {f}
         /\ tx'[t].new = [tx[t].new EXCEPT
              ![f] = Transitioned(tx[t].loaded[f], tx[t].found)]
         /\ tx'[t].loaded = [tx[t].loaded EXCEPT ![f] = NoRecord]
         /\ tx'[t].last = tx[t].last /\ tx'[t].more = tx[t].more
         /\ tx'[t].due = tx[t].due /\ tx'[t].added = tx[t].added
         /\ \A u \in Txs \ {t} : tx'[u] = tx[u]
<1> DEFINE s == tx[t]
           old == s.loaded[f]
           new == Transitioned(old, s.found)
           news == [s.new EXCEPT ![f] = new]
           dirties == [s.dirty EXCEPT ![f] = Changed(old, new) \cup
                        (IF JustDrifted(old, s.found) THEN {"stamped"} ELSE {})]
           audits == IF JustDrifted(old, s.found) THEN s.audit \cup {f}
                                                  ELSE s.audit
           loads == [s.loaded EXCEPT ![f] = NoRecord]
           wrotes == s.wrote \cup {f}
           rest == s.todo \ {f}
<1>1. tx \in [Txs -> Tx] /\ t \in Txs /\ s \in Tx
  BY DEF TInv, TypeOK, Txs
<1>2. old \in Record /\ s.found \in Statuses
  BY <1>1 DEF TInv, Fits, NextRow, Tx
<1>3. new \in Record
  BY <1>2, TransitionedType
<1>4. news \in [Files -> Record \cup {NoRecord}]
  BY <1>1, <1>3 DEF Tx
<1>5. dirties \in [Files -> SUBSET Columns]
  <2>1. Changed(old, new) \cup
          (IF JustDrifted(old, s.found) THEN {"stamped"} ELSE {})
            \in SUBSET Columns
    BY DEF Changed, Columns
  <2>. QED
    BY <1>1, <2>1 DEF Tx
<1>6. /\ audits \in SUBSET Files /\ wrotes \in SUBSET Files
      /\ rest \in SUBSET Files /\ "ok" \in Statuses
  BY <1>1 DEF Tx, Statuses
<1>7. loads \in [Files -> Record \cup {NoRecord}]
  BY <1>1 DEF Tx
<1>8. tx'[t] = [s EXCEPT !.new = news, !.dirty = dirties, !.audit = audits,
                         !.wrote = wrotes, !.todo = rest, !.loaded = loads,
                         !.found = "ok"]
  BY <1>1 DEF Marked, Tx
<1>9. \A u \in Txs \ {t} : tx'[u] = tx[u]
  BY <1>1
<1> HIDE DEF s, news, dirties, audits, loads, wrotes, rest
<1>10. tx'[t] \in Tx
  <2>1. [s EXCEPT !.new = news, !.dirty = dirties, !.audit = audits,
                  !.wrote = wrotes, !.todo = rest, !.loaded = loads,
                  !.found = "ok"] \in Tx
    BY <1>1, <1>4, <1>5, <1>6, <1>7, MarkedType
  <2>. QED
    BY <1>8, <2>1
<1>11. /\ tx'[t].todo = rest /\ tx'[t].wrote = wrotes /\ tx'[t].new = news
       /\ tx'[t].loaded = loads /\ tx'[t].last = s.last
       /\ tx'[t].more = s.more /\ tx'[t].due = s.due
       /\ tx'[t].added = s.added
  BY <1>1, <1>8 DEF Tx
<1>. QED
  BY <1>9, <1>10, <1>11 DEF s, rest, wrotes, news, loads, new, old

LEMMA MarkT ==
  ASSUME TInv, NEW t \in Sweeps, Mark(t)
  PROVE  TInv'
<1> USE FixityAssumption DEF TInv
<1>1. t \in Txs /\ t # Publisher /\ pc[t] = "mark" /\ tx[t] \in Tx
  BY DEF Mark, Txs, TypeOK
<1>2. PICK f \in Files :
        /\ NextRow(t, f) /\ LockRow(t, f)
        /\ tx' = [tx EXCEPT ![t] = Marked(@, f)]
        /\ Goto(t, IF tx[t].todo # {f} THEN "hash"
                   ELSE IF tx[t].more THEN "load" ELSE "commit")
        /\ UNCHANGED <<record, blob, damages, harmed>>
  BY DEF Mark
<1>3. /\ tx'[t] \in Tx
      /\ tx'[t].todo = tx[t].todo \ {f}
      /\ tx'[t].wrote = tx[t].wrote \cup {f}
      /\ tx'[t].new = [tx[t].new EXCEPT
           ![f] = Transitioned(tx[t].loaded[f], tx[t].found)]
      /\ tx'[t].loaded = [tx[t].loaded EXCEPT ![f] = NoRecord]
      /\ \A u \in Txs \ {t} : tx'[u] = tx[u]
  BY <1>1, <1>2, MarkEffect
<1>4. /\ pc'[t] \in {"hash", "load", "commit"}
      /\ \A u \in Txs \ {t} : pc'[u] = pc[u]
      /\ pc' \in [Txs -> PCs]
  BY <1>1, <1>2 DEF TypeOK, Goto, PCs
<1>5. TypeOK'
  <2>1. tx' \in [Txs -> Tx]
    BY <1>1, <1>2, <1>3 DEF TypeOK
  <2>2. rowLock' \in [Files -> Txs \cup {Nobody}]
    BY <1>1, <1>2 DEF TypeOK, LockRow
  <2>. QED
    BY <1>2, <1>4, <2>1, <2>2 DEF TypeOK
<1>6. Transitioned(tx[t].loaded[f], tx[t].found) \in Record
  BY <1>1, <1>2, TransitionedType DEF Fits, NextRow, Tx
<1>7. tx[t].new \in [Files -> Record \cup {NoRecord}]
      /\ tx[t].loaded \in [Files -> Record \cup {NoRecord}]
      /\ tx[t].wrote \subseteq Files /\ tx[t].todo \subseteq Files
  BY <1>1 DEF Tx
<1>8. \A g \in tx'[t].wrote : tx'[t].new[g] \in Record
  BY <1>1, <1>3, <1>6, <1>7 DEF Fits
<1>9. \A g \in tx'[t].todo : tx'[t].loaded[g] \in Record
  BY <1>1, <1>3, <1>7 DEF Fits
<1>10. Fits'
  BY <1>1, <1>3, <1>4, <1>8, <1>9 DEF Fits, Txs, NextDoc
<1>. QED
  BY <1>5, <1>10

LEMMA StartPassT ==
  ASSUME TInv, StartPass
  PROVE  TInv'
<1> USE FixityAssumption DEF TInv
<1>1. Publisher \in Txs /\ tx[Publisher] \in Tx
  BY DEF Txs, TypeOK
<1>2. PICK docs \in SUBSET Files :
        tx' = [tx EXCEPT ![Publisher].todo = docs]
  BY DEF StartPass
<1>3. [tx[Publisher] EXCEPT !.todo = docs] \in Tx
  BY <1>1 DEF Tx
<1>4. TypeOK'
  BY <1>1, <1>2, <1>3 DEF TypeOK, StartPass, Goto, PCs
<1>5. /\ tx'[Publisher].wrote = tx[Publisher].wrote
      /\ tx'[Publisher].new = tx[Publisher].new
      /\ pc'[Publisher] = "pick"
  BY <1>1, <1>2 DEF TypeOK, StartPass, Goto, Tx
<1>6. \A u \in Txs \ {Publisher} : tx'[u] = tx[u] /\ pc'[u] = pc[u]
  BY <1>2 DEF TypeOK, StartPass, Goto
<1>7. Fits'
  BY <1>1, <1>5, <1>6 DEF Fits, Txs
<1>. QED
  BY <1>4, <1>7

LEMMA PickEffect ==
  ASSUME TInv, NEW f \in Files, NEW n \in Numbers, Pick(f, n)
  PROVE  /\ tx'[Publisher] \in Tx
         /\ tx'[Publisher].todo = tx[Publisher].todo
         /\ tx'[Publisher].wrote = tx[Publisher].wrote
         /\ tx'[Publisher].new = [tx[Publisher].new EXCEPT ![f] = Certified(n)]
         /\ tx'[Publisher].added = [tx[Publisher].added EXCEPT
              ![f] = IF n \in Rows(f) THEN 0 ELSE n]
         /\ pc'[Publisher] = "record"
         /\ \A u \in Txs \ {Publisher} : tx'[u] = tx[u] /\ pc'[u] = pc[u]
<1> DEFINE s == tx[Publisher]
           news == [s.new EXCEPT ![f] = Certified(n)]
           adds == [s.added EXCEPT ![f] = IF n \in Rows(f) THEN 0 ELSE n]
           loads == [s.loaded EXCEPT ![f] = record[f]]
<1>1. Publisher \in Txs /\ s \in Tx /\ tx \in [Txs -> Tx]
      /\ pc \in [Txs -> PCs]
  BY DEF Txs, TInv, TypeOK
<1>2. /\ news \in [Files -> Record \cup {NoRecord}]
      /\ loads \in [Files -> Record \cup {NoRecord}]
      /\ adds \in [Files -> Numbers \cup {0}]
  BY <1>1, RecordType DEF Tx, TInv, TypeOK
<1>3. tx'[Publisher] = [s EXCEPT !.loaded = loads, !.new = news, !.added = adds]
  BY <1>1 DEF Pick, Picked, Tx
<1>4. pc'[Publisher] = "record"
      /\ \A u \in Txs \ {Publisher} : tx'[u] = tx[u] /\ pc'[u] = pc[u]
  BY <1>1 DEF Pick, Goto
<1> HIDE DEF s, news, adds, loads
<1>5. [s EXCEPT !.loaded = loads, !.new = news, !.added = adds] \in Tx
  BY <1>1, <1>2 DEF Tx
<1>6. /\ tx'[Publisher].todo = s.todo /\ tx'[Publisher].wrote = s.wrote
      /\ tx'[Publisher].new = news /\ tx'[Publisher].added = adds
  BY <1>1, <1>3 DEF Tx
<1>. QED
  BY <1>3, <1>4, <1>5, <1>6 DEF s, news, adds

LEMMA PickT ==
  ASSUME TInv, NEW f \in Files, NEW n \in Numbers, Pick(f, n)
  PROVE  TInv'
<1> USE FixityAssumption DEF TInv
<1>1. Publisher \in Txs /\ tx[Publisher] \in Tx
  BY DEF Txs, TypeOK
<1>2. /\ tx'[Publisher] \in Tx
      /\ tx'[Publisher].todo = tx[Publisher].todo
      /\ tx'[Publisher].wrote = tx[Publisher].wrote
      /\ tx'[Publisher].new = [tx[Publisher].new EXCEPT ![f] = Certified(n)]
      /\ pc'[Publisher] = "record"
      /\ \A u \in Txs \ {Publisher} : tx'[u] = tx[u] /\ pc'[u] = pc[u]
  BY PickEffect
<1>3. TypeOK'
  BY <1>1, <1>2 DEF TypeOK, Pick, Goto, PCs
<1>4. Certified(n) \in Record
  BY RecordType
<1>5. tx[Publisher].new \in [Files -> Record \cup {NoRecord}]
      /\ tx[Publisher].wrote \subseteq Files
      /\ tx[Publisher].todo \subseteq Files
  BY <1>1 DEF Tx
<1>6. \A g \in tx'[Publisher].wrote : tx'[Publisher].new[g] \in Record
  BY <1>1, <1>2, <1>4, <1>5 DEF Fits
<1>7. \A g \in Files : NextDoc(g)' => g = f
  <2> SUFFICES ASSUME NEW g \in Files, NextDoc(g)' PROVE g = f
    OBVIOUS
  <2>1. f \in tx[Publisher].todo /\ \A h \in tx[Publisher].todo : f <= h
    BY DEF Pick, NextDoc
  <2>2. g \in tx[Publisher].todo /\ \A h \in tx[Publisher].todo : g <= h
    BY <1>2 DEF NextDoc
  <2>3. f <= g /\ g <= f
    BY <2>1, <2>2
  <2>4. f \in Nat /\ g \in Nat
    OBVIOUS
  <2>. QED
    BY <2>3, <2>4
<1>8. \A g \in Files : NextDoc(g)' => tx'[Publisher].new[g] \in Record
  BY <1>2, <1>4, <1>5, <1>7
<1>9. Fits'
  BY <1>1, <1>2, <1>6, <1>8 DEF Fits, Txs
<1>. QED
  BY <1>3, <1>9

LEMMA PickNoneT ==
  ASSUME TInv, PickNone
  PROVE  TInv'
<1> USE FixityAssumption DEF TInv
<1>1. Publisher \in Txs /\ tx[Publisher] \in Tx
  BY DEF Txs, TypeOK
<1>2. PICK f \in Files :
        /\ tx' = [tx EXCEPT ![Publisher].todo = @ \ {f}]
        /\ Goto(Publisher, IF tx[Publisher].todo = {f} THEN "commit" ELSE "pick")
  BY DEF PickNone
<1>3. [tx[Publisher] EXCEPT !.todo = @ \ {f}] \in Tx
  BY <1>1 DEF Tx
<1>4. TypeOK'
  BY <1>1, <1>2, <1>3 DEF TypeOK, PickNone, Goto, PCs
<1>5. /\ tx'[Publisher].wrote = tx[Publisher].wrote
      /\ tx'[Publisher].new = tx[Publisher].new
      /\ pc'[Publisher] \in {"pick", "commit"}
  BY <1>1, <1>2 DEF TypeOK, Goto, Tx
<1>6. \A u \in Txs \ {Publisher} : tx'[u] = tx[u] /\ pc'[u] = pc[u]
  BY <1>2 DEF TypeOK, Goto
<1>7. Fits'
  BY <1>1, <1>5, <1>6 DEF Fits, Txs
<1>. QED
  BY <1>4, <1>7

LEMMA WrittenEffect ==
  ASSUME TInv, NEW f \in Files,
         tx' = [tx EXCEPT ![Publisher] = Written(@, f)]
  PROVE  /\ tx'[Publisher] \in Tx
         /\ tx'[Publisher].todo = tx[Publisher].todo \ {f}
         /\ tx'[Publisher].wrote = tx[Publisher].wrote \cup {f}
         /\ tx'[Publisher].new = tx[Publisher].new
         /\ tx'[Publisher].added = tx[Publisher].added
         /\ \A u \in Txs \ {Publisher} : tx'[u] = tx[u]
<1> DEFINE s == tx[Publisher]
           dirties == [s.dirty EXCEPT ![f] =
                         IF s.loaded[f] = NoRecord THEN Columns
                         ELSE Changed(s.loaded[f], s.new[f])]
           loads == [s.loaded EXCEPT ![f] = NoRecord]
           wrotes == s.wrote \cup {f}
           rest == s.todo \ {f}
<1>1. Publisher \in Txs /\ s \in Tx /\ tx \in [Txs -> Tx]
  BY DEF Txs, TInv, TypeOK
<1>2. dirties \in [Files -> SUBSET Columns]
  BY <1>1 DEF Tx, Changed
<1>3. loads \in [Files -> Record \cup {NoRecord}]
  BY <1>1 DEF Tx
<1>4. wrotes \in SUBSET Files /\ rest \in SUBSET Files
  BY <1>1 DEF Tx
<1>5. tx'[Publisher] = [s EXCEPT !.dirty = dirties, !.wrote = wrotes,
                                 !.todo = rest, !.loaded = loads]
  BY <1>1 DEF Written, Tx
<1>6. \A u \in Txs \ {Publisher} : tx'[u] = tx[u]
  BY <1>1
<1> HIDE DEF s, dirties, loads, wrotes, rest
<1>7. [s EXCEPT !.dirty = dirties, !.wrote = wrotes, !.todo = rest,
                !.loaded = loads] \in Tx
  BY <1>1, <1>2, <1>3, <1>4 DEF Tx
<1>8. /\ tx'[Publisher].todo = rest /\ tx'[Publisher].wrote = wrotes
      /\ tx'[Publisher].new = s.new /\ tx'[Publisher].added = s.added
  BY <1>1, <1>5 DEF Tx
<1>. QED
  BY <1>5, <1>6, <1>7, <1>8 DEF s, rest, wrotes

LEMMA WriteRecordT ==
  ASSUME TInv, WriteRecord
  PROVE  TInv'
<1> USE FixityAssumption DEF TInv
<1>1. Publisher \in Txs /\ tx[Publisher] \in Tx /\ pc[Publisher] = "record"
  BY DEF Txs, TypeOK, WriteRecord
<1>2. PICK f \in Files :
        /\ NextDoc(f) /\ LockRow(Publisher, f)
        /\ tx' = [tx EXCEPT ![Publisher] = Written(@, f)]
        /\ Goto(Publisher, IF tx[Publisher].todo = {f} THEN "commit" ELSE "pick")
        /\ UNCHANGED <<record, blob, damages, harmed>>
  BY DEF WriteRecord
<1>3. /\ tx'[Publisher] \in Tx
      /\ tx'[Publisher].wrote = tx[Publisher].wrote \cup {f}
      /\ tx'[Publisher].new = tx[Publisher].new
      /\ \A u \in Txs \ {Publisher} : tx'[u] = tx[u]
  BY <1>2, WrittenEffect
<1>4. /\ pc'[Publisher] \in {"pick", "commit"}
      /\ \A u \in Txs \ {Publisher} : pc'[u] = pc[u]
      /\ pc' \in [Txs -> PCs]
  BY <1>1, <1>2 DEF TypeOK, Goto, PCs
<1>5. TypeOK'
  <2>1. tx' \in [Txs -> Tx]
    BY <1>1, <1>2, <1>3 DEF TypeOK
  <2>2. rowLock' \in [Files -> Txs \cup {Nobody}]
    BY <1>1, <1>2 DEF TypeOK, LockRow
  <2>. QED
    BY <1>2, <1>4, <2>1, <2>2 DEF TypeOK
<1>6. \A g \in tx'[Publisher].wrote : tx'[Publisher].new[g] \in Record
  BY <1>1, <1>2, <1>3 DEF Fits
<1>7. Fits'
  BY <1>1, <1>3, <1>4, <1>6 DEF Fits, Txs
<1>. QED
  BY <1>5, <1>7

LEMMA CloseEffect ==
  ASSUME TypeOK, NEW t \in Txs, Close(t)
  PROVE  /\ tx'[t] = NoTx /\ pc'[t] = "idle"
         /\ \A u \in Txs \ {t} : tx'[u] = tx[u] /\ pc'[u] = pc[u]
         /\ tx' \in [Txs -> Tx] /\ pc' \in [Txs -> PCs]
         /\ rowLock' \in [Files -> Txs \cup {Nobody}]
BY NoTxType DEF TypeOK, Close, Goto, PCs

LEMMA FailT ==
  ASSUME TInv, NEW t \in Txs, Fail(t)
  PROVE  TInv'
<1> USE FixityAssumption DEF TInv
<1>1. /\ tx'[t] = NoTx /\ pc'[t] = "idle"
      /\ \A u \in Txs \ {t} : tx'[u] = tx[u] /\ pc'[u] = pc[u]
      /\ tx' \in [Txs -> Tx] /\ pc' \in [Txs -> PCs]
      /\ rowLock' \in [Files -> Txs \cup {Nobody}]
  BY CloseEffect DEF Fail
<1>2. TypeOK'
  BY <1>1 DEF TypeOK, Fail
<1>3. Fits'
  BY <1>1 DEF Fits, Txs, NoTx, NextDoc
<1>. QED
  BY <1>2, <1>3

LEMMA CommitT ==
  ASSUME TInv, NEW t \in Txs, Commit(t)
  PROVE  TInv'
<1> USE FixityAssumption DEF TInv
<1>1. /\ tx'[t] = NoTx /\ pc'[t] = "idle"
      /\ \A u \in Txs \ {t} : tx'[u] = tx[u] /\ pc'[u] = pc[u]
      /\ tx' \in [Txs -> Tx] /\ pc' \in [Txs -> PCs]
      /\ rowLock' \in [Files -> Txs \cup {Nobody}]
  BY CloseEffect DEF Commit
<1>2. record' \in [Files -> Record \cup {NoRecord}]
  <2>1. \A f \in tx[t].wrote :
          Overlay(record[f], tx[t].new[f], tx[t].dirty[f]) \in Record
    <3> TAKE f \in tx[t].wrote
    <3>1. f \in Files /\ tx[t].new[f] \in Record
      BY DEF TypeOK, Tx, Fits
    <3>. QED
      BY <3>1, OverlayType DEF TypeOK
  <2>. QED
    BY <2>1 DEF TypeOK, Commit
<1>3. blob' \in [Files -> [Numbers -> Blobs]]
  BY DEF TypeOK, Commit, Blobs
<1>4. TypeOK'
  BY <1>1, <1>2, <1>3 DEF TypeOK, Commit
<1>5. Fits'
  BY <1>1 DEF Fits, Txs, NoTx, NextDoc
<1>. QED
  BY <1>4, <1>5

LEMMA DamageT ==
  ASSUME TInv, Damage \/ Repair
  PROVE  TInv'
<1> USE FixityAssumption DEF TInv
<1>1. Damage => TypeOK'
  <2> SUFFICES ASSUME Damage PROVE TypeOK'
    OBVIOUS
  <2>1. PICK f \in Files, how \in Damages : \E m \in Rows(f) :
          blob' = [blob EXCEPT ![f][m] = how] /\ harmed' = harmed \cup {f}
    BY DEF Damage
  <2>2. blob' \in [Files -> [Numbers -> Blobs]]
    BY <2>1 DEF TypeOK, Rows, Blobs
  <2>3. damages' \in 0..MaxDamages
    BY DEF Damage, TypeOK
  <2>. QED
    BY <2>1, <2>2, <2>3 DEF TypeOK, Damage
<1>2. Repair => TypeOK'
  BY DEF TypeOK, Repair, Rows, Blobs
<1>3. UNCHANGED <<pc, tx>>
  BY DEF Damage, Repair
<1>4. Fits'
  BY <1>3 DEF Fits, NextDoc
<1>. QED
  BY <1>1, <1>2, <1>4

LEMMA StepT == TInv /\ [Next]_vars => TInv'
<1> SUFFICES ASSUME TInv, [Next]_vars PROVE TInv'
  OBVIOUS
<1>1. Sweeps \subseteq Txs /\ Publisher \in Txs
  BY DEF Txs
<1>2. ASSUME NEW t \in Sweeps, StartSweep(t) \/ SweepStep(t) PROVE TInv'
  BY <1>1, <1>2, StartSweepT, LoadChunkT, HashT, MarkT, CommitT, FailT
  DEF SweepStep, Abort
<1>3. ASSUME PassStep PROVE TInv'
  BY <1>1, <1>3, PickT, PickNoneT, WriteRecordT, CommitT, FailT
  DEF PassStep, PickNew, PickLast, Abort, Rows
<1>4. CASE UNCHANGED vars
  BY <1>4 DEF vars, TInv, TypeOK, Fits, NextDoc
<1>. QED
  BY <1>2, <1>3, <1>4, StartPassT, FailT, DamageT DEF Next

\* Invariant: TInv holds in every state.
THEOREM TypeInvariance == Spec => []TInv
BY InitT, StepT, PTL DEF Spec

\* Every row, stored body and session stays within its type, whatever the
\* sweeps, publications and damages.
THEOREM TypeCorrect == Spec => []TypeOK
BY TypeInvariance, PTL DEF TInv

-----------------------------------------------------------------------------
(* The safety invariants, on top of the types *)

CoveredBy(t) ==
  /\ tx[t].due \subseteq Recorded
  /\ pc[t] = "load" =>
       \A f \in tx[t].due : f \in tx[t].wrote \/ Rank[f] > tx[t].last
  /\ pc[t] \in {"hash", "mark"} =>
       \A f \in tx[t].due :
         \/ f \in tx[t].wrote \/ f \in tx[t].todo
         \/ tx[t].more /\ Rank[f] > tx[t].last
  /\ pc[t] = "commit" => tx[t].due \subseteq tx[t].wrote

Covered == \A t \in Sweeps : CoveredBy(t)

\* A row that will be right once its transaction has committed.
Right(row, f, added) ==
  /\ row.status = "ok"
  /\ blob[f][row.n] = "intact" \/ added = row.n

RowsSound(f) ==
  /\ \A m \in Numbers : blob[f][m] \in {"intact", "gone"}
  /\ f \in Recorded => Right(record[f], f, 0)

SweepSound(t, f) ==
  /\ tx[t].loaded[f] # NoRecord => Right(tx[t].loaded[f], f, 0)
  /\ pc[t] = "mark" /\ NextRow(t, f) => tx[t].found = "ok"

WriteSound(t, f) ==
  f \in tx[t].wrote => Right(tx[t].new[f], f, tx[t].added[f])

PassSound(f) ==
  pc[Publisher] = "record" /\ NextDoc(f) =>
    Right(tx[Publisher].new[f], f, tx[Publisher].added[f])

SoundFor(f) ==
  /\ RowsSound(f) /\ PassSound(f)
  /\ \A t \in Sweeps : SweepSound(t, f)
  /\ \A t \in Txs : WriteSound(t, f)

Sound == \A f \in Files \ harmed : SoundFor(f)

-----------------------------------------------------------------------------
\* A sweep that does not move stays covered, for no row is ever deleted.
LEMMA CoveredFrame ==
  ASSUME NEW t, CoveredBy(t), tx'[t] = tx[t], pc'[t] = pc[t],
         Recorded \subseteq Recorded'
  PROVE  CoveredBy(t)'
BY DEF CoveredBy

LEMMA RowsStay ==
  ASSUME TInv, NEW t \in Txs, Commit(t)
  PROVE  Recorded \subseteq Recorded'
<1> SUFFICES ASSUME NEW f \in Recorded PROVE record'[f] # NoRecord
  BY DEF Recorded, TInv, TypeOK, Commit
<1>1. f \in Files /\ record[f] # NoRecord
  BY DEF Recorded
<1>2. CASE f \in tx[t].wrote
  <2>1. tx[t].new[f] \in Record
    BY <1>2 DEF TInv, Fits
  <2>2. record'[f] = Overlay(record[f], tx[t].new[f], tx[t].dirty[f])
    BY <1>1, <1>2 DEF Commit
  <2>3. record'[f] \in Record
    BY <1>1, <2>1, <2>2, OverlayType DEF TInv, TypeOK
  <2>. QED
    BY <2>3, FixityAssumption
<1>3. CASE f \notin tx[t].wrote
  BY <1>1, <1>3 DEF Commit
<1>. QED
  BY <1>2, <1>3

LEMMA CoveredStart ==
  ASSUME TInv, NEW t \in Sweeps, StartSweep(t)
  PROVE  CoveredBy(t)'
<1>1. pc'[t] = "load" /\ tx'[t] = [NoTx EXCEPT !.due = Recorded]
  BY DEF TInv, TypeOK, StartSweep, Goto, Txs
<1>2. tx'[t].due = Recorded /\ tx'[t].last = 0 /\ Recorded' = Recorded
  BY <1>1 DEF NoTx, StartSweep, Recorded
<1>3. \A f \in Recorded : Rank[f] > 0
  BY FixityAssumption DEF Recorded
<1>. QED
  BY <1>1, <1>2, <1>3 DEF CoveredBy

\* A chunk that is not full reaches the end; a full one, all up to the cursor.
LEMMA CoveredLoad ==
  ASSUME TInv, NEW t \in Sweeps, CoveredBy(t), LoadChunk(t)
  PROVE  CoveredBy(t)'
<1> USE FixityAssumption
<1>1. t \in Txs /\ pc[t] = "load" /\ tx[t] \in Tx /\ tx \in [Txs -> Tx]
      /\ Recorded' = Recorded
  <2>1. t \in Txs /\ tx[t] \in Tx /\ tx \in [Txs -> Tx]
    BY DEF Txs, TInv, TypeOK
  <2>2. pc[t] = "load" /\ Recorded' = Recorded
    BY DEF LoadChunk, Recorded
  <2>. QED
    BY <2>1, <2>2
<1>2. PICK C \in SUBSET Recorded :
        /\ IsChunk(C, tx[t].last)
        /\ \/ C = {} /\ Goto(t, "commit") /\ UNCHANGED tx
           \/ \E f \in C :
                /\ \A g \in C : Rank[g] <= Rank[f]
                /\ Goto(t, "hash")
                /\ tx' = [tx EXCEPT
                     ![t].todo = C, ![t].last = Rank[f], ![t].more = IsFull(C),
                     ![t].loaded = [g \in Files |-> IF g \in C THEN record[g]
                                                               ELSE @[g]]]
  BY DEF LoadChunk
<1>3. \A g \in tx[t].due : g \in tx[t].wrote \/ Rank[g] > tx[t].last
  BY <1>1 DEF CoveredBy
<1>4. \A g \in tx[t].due : g \in tx[t].wrote \/ g \in C
        \/ (~(Cardinality(C) < Chunk) /\ \A h \in C : Rank[h] < Rank[g])
  <2> SUFFICES ASSUME NEW g \in tx[t].due, g \notin tx[t].wrote, g \notin C
               PROVE  /\ ~(Cardinality(C) < Chunk)
                      /\ \A h \in C : Rank[h] < Rank[g]
    OBVIOUS
  <2>1. g \in Recorded /\ Rank[g] > tx[t].last
    BY <1>3 DEF CoveredBy
  <2>. QED
    BY <1>2, <2>1 DEF IsChunk
<1>5. CASE C = {} /\ Goto(t, "commit") /\ UNCHANGED tx
  <2>1. Cardinality(C) < Chunk
    BY <1>5, FS_EmptySet
  <2>2. tx[t].due \subseteq tx[t].wrote
    BY <1>4, <1>5, <2>1
  <2>3. pc'[t] = "commit"
    BY <1>1, <1>5 DEF Goto, TInv, TypeOK
  <2>. QED
    BY <1>1, <1>5, <2>2, <2>3 DEF CoveredBy
<1>6. ASSUME NEW f \in C, \A g \in C : Rank[g] <= Rank[f], Goto(t, "hash"),
             tx' = [tx EXCEPT
               ![t].todo = C, ![t].last = Rank[f], ![t].more = IsFull(C),
               ![t].loaded = [g \in Files |-> IF g \in C THEN record[g]
                                                         ELSE @[g]]]
      PROVE  CoveredBy(t)'
  <2>1. /\ tx'[t].todo = C /\ tx'[t].wrote = tx[t].wrote
        /\ tx'[t].last = Rank[f] /\ tx'[t].more = IsFull(C)
        /\ tx'[t].due = tx[t].due
    BY <1>1, <1>6 DEF Tx
  <2>2. pc'[t] = "hash"
    BY <1>1, <1>6 DEF Goto, TInv, TypeOK
  <2>3. \A g \in tx[t].due : g \in tx[t].wrote \/ g \in C
          \/ (IsFull(C) /\ Rank[g] > Rank[f])
    <3> SUFFICES ASSUME NEW g \in tx[t].due, g \notin tx[t].wrote, g \notin C
                 PROVE  IsFull(C) /\ Rank[g] > Rank[f]
      OBVIOUS
    <3>1. ~(Cardinality(C) < Chunk) /\ Rank[f] < Rank[g]
      BY <1>4
    <3>2. f \in Files /\ g \in Files
      BY <1>1 DEF Recorded, Tx
    <3>. QED
      BY <3>1, <3>2 DEF IsFull
  <2>. QED
    BY <1>1, <2>1, <2>2, <2>3 DEF CoveredBy
<1>. QED
  BY <1>2, <1>5, <1>6

LEMMA CoveredHash ==
  ASSUME TInv, NEW t \in Sweeps, CoveredBy(t), Hash(t)
  PROVE  CoveredBy(t)'
<1>1. t \in Txs /\ pc[t] = "hash" /\ pc'[t] = "mark" /\ tx[t] \in Tx
      /\ Recorded' = Recorded
  BY DEF Txs, Hash, Goto, TInv, TypeOK, Recorded
<1>2. PICK s : tx' = [tx EXCEPT ![t].found = s]
  BY DEF Hash
<1>3. /\ tx'[t].todo = tx[t].todo /\ tx'[t].wrote = tx[t].wrote
      /\ tx'[t].last = tx[t].last /\ tx'[t].more = tx[t].more
      /\ tx'[t].due = tx[t].due
  BY <1>1, <1>2 DEF Tx, TInv, TypeOK
<1>. QED
  BY <1>1, <1>3 DEF CoveredBy

LEMMA CoveredMark ==
  ASSUME TInv, NEW t \in Sweeps, CoveredBy(t), Mark(t)
  PROVE  CoveredBy(t)'
<1>1. t \in Txs /\ pc[t] = "mark" /\ tx[t] \in Tx /\ Recorded' = Recorded
  BY DEF Txs, Mark, TInv, TypeOK, Recorded
<1>2. PICK f \in Files :
        /\ NextRow(t, f)
        /\ tx' = [tx EXCEPT ![t] = Marked(@, f)]
        /\ Goto(t, IF tx[t].todo # {f} THEN "hash"
                   ELSE IF tx[t].more THEN "load" ELSE "commit")
  BY DEF Mark
<1>3. /\ tx'[t].todo = tx[t].todo \ {f}
      /\ tx'[t].wrote = tx[t].wrote \cup {f}
      /\ tx'[t].last = tx[t].last /\ tx'[t].more = tx[t].more
      /\ tx'[t].due = tx[t].due
  BY <1>1, <1>2, MarkEffect
<1>4. pc'[t] = IF tx[t].todo # {f} THEN "hash"
               ELSE IF tx[t].more THEN "load" ELSE "commit"
  BY <1>1, <1>2 DEF Goto, TInv, TypeOK
<1>5. \A g \in tx[t].due :
        g \in tx'[t].wrote \/ g \in tx'[t].todo
          \/ (tx[t].more /\ Rank[g] > tx[t].last)
  BY <1>1, <1>3 DEF CoveredBy
<1>6. tx[t].due \subseteq Recorded
  BY DEF CoveredBy
<1>7. CASE tx[t].todo # {f}
  BY <1>1, <1>3, <1>4, <1>5, <1>6, <1>7 DEF CoveredBy
<1>8. CASE tx[t].todo = {f}
  BY <1>1, <1>3, <1>4, <1>5, <1>6, <1>8 DEF CoveredBy
<1>. QED
  BY <1>7, <1>8

LEMMA CoveredClose ==
  ASSUME TInv, NEW t \in Sweeps, Close(t)
  PROVE  CoveredBy(t)'
<1>1. tx'[t] = NoTx /\ pc'[t] = "idle"
  BY CloseEffect DEF TInv, Txs
<1>. QED
  BY <1>1 DEF CoveredBy, NoTx

LEMMA CoveredStep ==
  ASSUME TInv, Covered, [Next]_vars
  PROVE  Covered'
<1> SUFFICES ASSUME NEW t \in Sweeps PROVE CoveredBy(t)'
  BY DEF Covered
<1>1. CoveredBy(t) /\ Sweeps \subseteq Txs /\ Publisher \in Txs
      /\ Publisher \notin Sweeps
  BY FixityAssumption DEF Covered, Txs
<1>2. ASSUME NEW u \in Txs, Commit(u) PROVE CoveredBy(t)'
  <2>1. CASE u = t
    BY <1>2, <2>1, CoveredClose DEF Commit
  <2>2. CASE u # t
    <3>1. tx'[t] = tx[t] /\ pc'[t] = pc[t]
      BY <1>1, <1>2, <2>2, CloseEffect DEF TInv, Commit
    <3>. QED
      BY <1>1, <1>2, <3>1, RowsStay, CoveredFrame
  <2>. QED
    BY <2>1, <2>2
<1>3. ASSUME NEW u \in Txs, Fail(u) PROVE CoveredBy(t)'
  <2>1. CASE u = t
    BY <1>3, <2>1, CoveredClose DEF Fail
  <2>2. CASE u # t
    <3>1. tx'[t] = tx[t] /\ pc'[t] = pc[t]
      BY <1>1, <1>3, <2>2, CloseEffect DEF TInv, Fail
    <3>. QED
      BY <1>1, <1>3, <3>1, CoveredFrame DEF Fail, Recorded
  <2>. QED
    BY <2>1, <2>2
<1>4. ASSUME NEW u \in Sweeps,
             StartSweep(u) \/ LoadChunk(u) \/ Hash(u) \/ Mark(u)
      PROVE  CoveredBy(t)'
  <2>1. CASE u = t
    BY <1>1, <1>4, <2>1, CoveredStart, CoveredLoad, CoveredHash, CoveredMark
  <2>2. CASE u # t
    <3>1. tx'[t] = tx[t] /\ pc'[t] = pc[t]
      BY <1>1, <1>4, <2>2
      DEF TInv, TypeOK, StartSweep, LoadChunk, Hash, Mark, Goto
    <3>2. Recorded' = Recorded
      BY <1>4 DEF StartSweep, LoadChunk, Hash, Mark, Recorded
    <3>. QED
      BY <1>1, <3>1, <3>2, CoveredFrame
  <2>. QED
    BY <2>1, <2>2
<1>5. ASSUME StartPass \/ PickNew \/ PickLast \/ PickNone \/ WriteRecord
      PROVE  CoveredBy(t)'
  <2>1. tx'[t] = tx[t] /\ pc'[t] = pc[t]
    BY <1>1, <1>5 DEF TInv, TypeOK, StartPass, PickNew, PickLast, Pick,
                      PickNone, WriteRecord, Goto
  <2>2. Recorded' = Recorded
    BY <1>5 DEF StartPass, PickNew, PickLast, Pick, PickNone, WriteRecord,
                Recorded
  <2>. QED
    BY <1>1, <2>1, <2>2, CoveredFrame
<1>6. CASE Damage \/ Repair \/ UNCHANGED vars
  BY <1>1, <1>6, CoveredFrame DEF Damage, Repair, vars, Recorded
<1>. QED
  BY <1>1, <1>2, <1>3, <1>4, <1>5, <1>6 DEF Next, SweepStep, PassStep, Abort

\* A sweep that is about to commit has re-checked every row there was when it
\* started: the keyset pagination loses none.
THEOREM SweepsComplete == Spec => []SweepIsComplete
<1>1. Init => Covered
  BY DEF Init, Covered, CoveredBy, NoTx, Txs
<1>2. Covered => SweepIsComplete
  BY DEF Covered, CoveredBy, SweepIsComplete
<1>3. TInv /\ Covered /\ [Next]_vars => Covered'
  BY CoveredStep
<1>. QED
  BY <1>1, <1>2, <1>3, TypeInvariance, PTL DEF Spec

-----------------------------------------------------------------------------
\* One row, or one document, is next.
LEMMA NextIsOne ==
  ASSUME NEW t, NEW f \in Files, NEW g \in Files
  PROVE  /\ NextRow(t, f) /\ NextRow(t, g) => f = g
         /\ NextDoc(f) /\ NextDoc(g) => f = g
<1>1. Rank[f] \in Nat /\ Rank[g] \in Nat /\ (Rank[f] = Rank[g] => f = g)
      /\ f \in Nat /\ g \in Nat
  BY FixityAssumption
<1>2. ASSUME NextRow(t, f), NextRow(t, g) PROVE f = g
  <2>1. Rank[f] <= Rank[g] /\ Rank[g] <= Rank[f]
    BY <1>2 DEF NextRow
  <2>. QED
    BY <1>1, <2>1
<1>3. ASSUME NextDoc(f), NextDoc(g) PROVE f = g
  <2>1. f <= g /\ g <= f
    BY <1>3 DEF NextDoc
  <2>. QED
    BY <1>1, <2>1
<1>. QED
  BY <1>2, <1>3

\* What is right stays right while the intact bodies of the document are kept.
LEMMA RightKept ==
  ASSUME TInv, NEW f \in Files, NEW row \in Record, NEW added,
         Right(row, f, added),
         \A m \in Numbers : blob[f][m] = "intact" => blob'[f][m] = "intact"
  PROVE  Right(row, f, added)'
<1>1. row.n \in Numbers
  BY DEF Record
<1>. QED
  BY <1>1 DEF Right

\* The step of another transaction, of a commit too, disturbs none of this.
LEMMA SweepSoundFrame ==
  ASSUME TInv, NEW t \in Sweeps, NEW f \in Files, SweepSound(t, f),
         tx'[t] = tx[t], pc'[t] = pc[t],
         \A m \in Numbers : blob[f][m] = "intact" => blob'[f][m] = "intact"
  PROVE  SweepSound(t, f)'
<1>1. tx[t].loaded[f] \in Record \cup {NoRecord}
  BY DEF TInv, TypeOK, Txs, Tx
<1>2. tx[t].loaded[f] # NoRecord => Right(tx[t].loaded[f], f, 0)'
  BY <1>1, RightKept DEF SweepSound
<1>3. NextRow(t, f)' = NextRow(t, f)
  BY DEF NextRow
<1>. QED
  BY <1>2, <1>3 DEF SweepSound

LEMMA WriteSoundFrame ==
  ASSUME TInv, NEW t \in Txs, NEW f \in Files, WriteSound(t, f),
         tx'[t].wrote = tx[t].wrote, tx'[t].new = tx[t].new,
         tx'[t].added = tx[t].added,
         \A m \in Numbers : blob[f][m] = "intact" => blob'[f][m] = "intact"
  PROVE  WriteSound(t, f)'
<1> SUFFICES ASSUME f \in tx[t].wrote
             PROVE  Right(tx[t].new[f], f, tx[t].added[f])'
  BY DEF WriteSound
<1>1. tx[t].new[f] \in Record
  BY DEF TInv, Fits
<1>2. tx[t].new[f].n \in Numbers
  BY <1>1 DEF Record
<1>. QED
  BY <1>2 DEF WriteSound, Right

LEMMA PassSoundFrame ==
  ASSUME TInv, NEW f \in Files, PassSound(f),
         tx'[Publisher] = tx[Publisher], pc'[Publisher] = pc[Publisher],
         \A m \in Numbers : blob[f][m] = "intact" => blob'[f][m] = "intact"
  PROVE  PassSound(f)'
<1> SUFFICES ASSUME pc[Publisher] = "record", NextDoc(f)
             PROVE  Right(tx[Publisher].new[f], f, tx[Publisher].added[f])'
  BY DEF PassSound, NextDoc
<1>1. tx[Publisher].new[f] \in Record
  BY DEF TInv, Fits
<1>2. tx[Publisher].new[f].n \in Numbers
  BY <1>1 DEF Record
<1>. QED
  BY <1>2 DEF PassSound, Right

LEMMA Others ==
  ASSUME TInv, NEW f \in Files, SoundFor(f), NEW t \in Txs,
         \A u \in Txs \ {t} : tx'[u] = tx[u] /\ pc'[u] = pc[u],
         \A m \in Numbers : blob[f][m] = "intact" => blob'[f][m] = "intact"
  PROVE  /\ \A u \in Sweeps \ {t} : SweepSound(u, f)'
         /\ \A u \in Txs \ {t} : WriteSound(u, f)'
         /\ t # Publisher => PassSound(f)'
<1>1. ASSUME NEW u \in Sweeps \ {t} PROVE SweepSound(u, f)'
  BY SweepSoundFrame DEF SoundFor, Txs
<1>2. ASSUME NEW u \in Txs \ {t} PROVE WriteSound(u, f)'
  BY WriteSoundFrame DEF SoundFor
<1>3. t # Publisher => PassSound(f)'
  BY PassSoundFrame DEF SoundFor, Txs
<1>. QED
  BY <1>1, <1>2, <1>3

LEMMA RowsFrame ==
  ASSUME NEW f \in Files, RowsSound(f), record'[f] = record[f],
         blob'[f] = blob[f]
  PROVE  RowsSound(f)'
BY DEF RowsSound, Recorded, Right

\* The end of a transaction leaves nothing of it to be right.
LEMMA SoundClosed ==
  ASSUME TInv, NEW f \in Files, NEW t \in Txs, Close(t)
  PROVE  /\ t \in Sweeps => SweepSound(t, f)'
         /\ WriteSound(t, f)'
         /\ t = Publisher => PassSound(f)'
<1>1. tx'[t] = NoTx /\ pc'[t] = "idle"
  BY CloseEffect DEF TInv
<1>. QED
  BY <1>1 DEF SweepSound, WriteSound, PassSound, NoTx

LEMMA SoundFail ==
  ASSUME TInv, NEW f \in Files, SoundFor(f), NEW t \in Txs, Fail(t)
  PROVE  SoundFor(f)'
<1>1. \A u \in Txs \ {t} : tx'[u] = tx[u] /\ pc'[u] = pc[u]
  BY CloseEffect DEF Fail, TInv
<1>2. record' = record /\ blob' = blob
  BY DEF Fail
<1>3. RowsSound(f)'
  BY <1>2, RowsFrame DEF SoundFor
<1>. QED
  BY <1>1, <1>2, <1>3, Others, SoundClosed DEF SoundFor, Fail

\* A body the transaction adds is intact; a row it writes is right with it.
LEMMA SoundCommit ==
  ASSUME TInv, NEW f \in Files, SoundFor(f), NEW t \in Txs, Commit(t)
  PROVE  SoundFor(f)'
<1>1. \A u \in Txs \ {t} : tx'[u] = tx[u] /\ pc'[u] = pc[u]
  BY CloseEffect DEF Commit, TInv
<1>2. \A m \in Numbers :
        blob'[f][m] = IF m = tx[t].added[f] THEN "intact" ELSE blob[f][m]
  BY DEF Commit
<1>3. RowsSound(f)'
  <2>1. \A m \in Numbers : blob'[f][m] \in {"intact", "gone"}
    BY <1>2 DEF SoundFor, RowsSound
  <2>2. CASE f \notin tx[t].wrote
    <3>1. record'[f] = record[f]
      BY <2>2 DEF Commit
    <3>2. f \in Recorded => record[f] \in Record
      BY DEF TInv, TypeOK, Recorded
    <3>3. f \in Recorded => record[f].n \in Numbers
      BY <3>2 DEF Record
    <3>. QED
      BY <1>2, <2>1, <3>1, <3>3 DEF SoundFor, RowsSound, Recorded, Right
  <2>3. CASE f \in tx[t].wrote
    <3> DEFINE old == record[f]
               new == tx[t].new[f]
               row == Overlay(old, new, tx[t].dirty[f])
    <3>1. record'[f] = row
      BY <2>3 DEF Commit
    <3>2. new \in Record /\ old \in Record \cup {NoRecord}
      BY <2>3 DEF TInv, TypeOK, Fits
    <3>3. new.n \in Numbers
      BY <3>2 DEF Record
    <3>4. new.status = "ok" /\ blob'[f][new.n] = "intact"
      BY <1>2, <2>3, <3>3 DEF SoundFor, WriteSound, Right
    <3>5. ASSUME old # NoRecord
          PROVE  old.status = "ok" /\ blob'[f][old.n] = "intact"
      <4>1. old.n \in Numbers
        BY <3>2, <3>5 DEF Record
      <4>2. Right(old, f, 0)
        BY <3>5 DEF SoundFor, RowsSound, Recorded
      <4>3. blob[f][old.n] = "intact"
        BY <4>1, <4>2 DEF Right, Numbers
      <4>. QED
        BY <1>2, <4>1, <4>2, <4>3 DEF Right
    <3>6. row.status = "ok" /\ blob'[f][row.n] = "intact"
      BY <3>4, <3>5 DEF Overlay
    <3>. QED
      BY <2>1, <3>1, <3>6 DEF RowsSound, Right
  <2>. QED
    BY <2>2, <2>3
<1>. QED
  BY <1>1, <1>2, <1>3, Others, SoundClosed DEF SoundFor, Commit

\* A step that changes no row and no body: only its own transaction is to see.
LEMMA SoundQuiet ==
  ASSUME TInv, NEW f \in Files, SoundFor(f), NEW t \in Txs,
         record' = record, blob' = blob,
         \A u \in Txs \ {t} : tx'[u] = tx[u] /\ pc'[u] = pc[u],
         t \in Sweeps => SweepSound(t, f)',
         t = Publisher => PassSound(f)',
         WriteSound(t, f)'
  PROVE  SoundFor(f)'
<1>1. RowsSound(f)'
  BY RowsFrame DEF SoundFor
<1>. QED
  BY <1>1, Others DEF SoundFor

LEMMA SoundStart ==
  ASSUME TInv, NEW f \in Files, SoundFor(f), NEW t \in Sweeps, StartSweep(t)
  PROVE  SoundFor(f)'
<1>1. t \in Txs /\ t # Publisher
  BY FixityAssumption DEF Txs
<1>2. /\ \A u \in Txs \ {t} : tx'[u] = tx[u] /\ pc'[u] = pc[u]
      /\ pc'[t] = "load" /\ tx'[t] = [NoTx EXCEPT !.due = Recorded]
      /\ record' = record /\ blob' = blob
  BY <1>1 DEF TInv, TypeOK, StartSweep, Goto
<1>3. tx'[t].loaded[f] = NoRecord /\ tx'[t].wrote = {}
  BY <1>2 DEF NoTx
<1>4. SweepSound(t, f)' /\ WriteSound(t, f)'
  BY <1>2, <1>3 DEF SweepSound, WriteSound
<1>. QED
  BY <1>1, <1>2, <1>4, SoundQuiet

LEMMA SoundLoad ==
  ASSUME TInv, NEW f \in Files, SoundFor(f), NEW t \in Sweeps, LoadChunk(t)
  PROVE  SoundFor(f)'
<1>1. t \in Txs /\ t # Publisher /\ tx[t] \in Tx
  BY FixityAssumption DEF Txs, TInv, TypeOK
<1>2. PICK C \in SUBSET Recorded :
        \/ UNCHANGED tx /\ Goto(t, "commit")
        \/ \E g \in C :
             /\ Goto(t, "hash")
             /\ tx' = [tx EXCEPT
                  ![t].todo = C, ![t].last = Rank[g], ![t].more = IsFull(C),
                  ![t].loaded = [h \in Files |-> IF h \in C THEN record[h]
                                                            ELSE @[h]]]
  BY DEF LoadChunk
<1>3. /\ \A u \in Txs \ {t} : tx'[u] = tx[u] /\ pc'[u] = pc[u]
      /\ pc'[t] # "mark" /\ record' = record /\ blob' = blob
  BY <1>1, <1>2 DEF TInv, TypeOK, LoadChunk, Goto
<1>4. /\ tx'[t].wrote = tx[t].wrote /\ tx'[t].new = tx[t].new
      /\ tx'[t].added = tx[t].added
      /\ tx'[t].loaded[f] = tx[t].loaded[f]
           \/ (f \in Recorded /\ tx'[t].loaded[f] = record[f])
  <2>1. CASE UNCHANGED tx
    BY <2>1
  <2>2. ASSUME NEW g \in C,
               tx' = [tx EXCEPT
                 ![t].todo = C, ![t].last = Rank[g], ![t].more = IsFull(C),
                 ![t].loaded = [h \in Files |-> IF h \in C THEN record[h]
                                                           ELSE @[h]]]
        PROVE  /\ tx'[t].wrote = tx[t].wrote /\ tx'[t].new = tx[t].new
               /\ tx'[t].added = tx[t].added
               /\ tx'[t].loaded = [h \in Files |->
                    IF h \in C THEN record[h] ELSE tx[t].loaded[h]]
    BY <1>1, <2>2 DEF TInv, TypeOK, Tx
  <2>3. ASSUME NEW g \in C,
               tx' = [tx EXCEPT
                 ![t].todo = C, ![t].last = Rank[g], ![t].more = IsFull(C),
                 ![t].loaded = [h \in Files |-> IF h \in C THEN record[h]
                                                           ELSE @[h]]]
        PROVE  tx'[t].loaded[f] = tx[t].loaded[f]
                 \/ (f \in Recorded /\ tx'[t].loaded[f] = record[f])
    <3>1. tx'[t].loaded = [h \in Files |->
            IF h \in C THEN record[h] ELSE tx[t].loaded[h]]
      BY <2>2, <2>3
    <3>2. C \subseteq Recorded
      OBVIOUS
    <3>. QED
      BY <3>1, <3>2
  <2>. QED
    BY <1>2, <2>1, <2>2, <2>3
<1>5. SweepSound(t, f)'
  BY <1>1, <1>3, <1>4 DEF SoundFor, SweepSound, RowsSound, Right
<1>6. WriteSound(t, f)'
  BY <1>1, <1>3, <1>4, WriteSoundFrame DEF SoundFor
<1>. QED
  BY <1>1, <1>3, <1>5, <1>6, SoundQuiet

\* The body of an unharmed document that is hashed is the one that was loaded.
LEMMA SoundHash ==
  ASSUME TInv, NEW f \in Files, SoundFor(f), NEW t \in Sweeps, Hash(t)
  PROVE  SoundFor(f)'
<1>1. t \in Txs /\ t # Publisher /\ tx[t] \in Tx /\ pc[t] = "hash"
  BY FixityAssumption DEF Txs, TInv, TypeOK, Hash
<1>2. PICK g \in Files :
        /\ NextRow(t, g)
        /\ tx' = [tx EXCEPT ![t].found = Verdict(Found(g, tx[t].loaded[g]))]
  BY DEF Hash
<1>3. /\ \A u \in Txs \ {t} : tx'[u] = tx[u] /\ pc'[u] = pc[u]
      /\ record' = record /\ blob' = blob
  BY <1>1 DEF TInv, TypeOK, Hash, Goto
<1>4. /\ tx'[t].wrote = tx[t].wrote /\ tx'[t].new = tx[t].new
      /\ tx'[t].added = tx[t].added /\ tx'[t].loaded = tx[t].loaded
      /\ tx'[t].todo = tx[t].todo
      /\ tx'[t].found = Verdict(Found(g, tx[t].loaded[g]))
  BY <1>1, <1>2 DEF TInv, TypeOK, Tx
<1>5. NextRow(t, f)' => tx'[t].found = "ok"
  <2> SUFFICES ASSUME NextRow(t, f)' PROVE tx'[t].found = "ok"
    OBVIOUS
  <2>1. NextRow(t, f)
    BY <1>4 DEF NextRow
  <2>2. f = g
    BY <1>2, <2>1, NextIsOne
  <2>3. tx[t].loaded[f] \in Record
    BY <1>1, <2>1 DEF TInv, Fits, NextRow
  <2>4. tx[t].loaded[f].n \in Numbers
    BY <2>3 DEF Record
  <2>5. Right(tx[t].loaded[f], f, 0)
    BY <2>3, FixityAssumption DEF SoundFor, SweepSound
  <2>6. blob[f][tx[t].loaded[f].n] = "intact"
    BY <2>4, <2>5 DEF Right, Numbers
  <2>. QED
    BY <1>4, <2>2, <2>6 DEF Verdict, Found, StatusOf
<1>6. SweepSound(t, f)'
  BY <1>3, <1>4, <1>5 DEF SoundFor, SweepSound, Right
<1>7. WriteSound(t, f)'
  BY <1>1, <1>3, <1>4, WriteSoundFrame DEF SoundFor
<1>. QED
  BY <1>1, <1>3, <1>6, <1>7, SoundQuiet

LEMMA SoundMark ==
  ASSUME TInv, NEW f \in Files, SoundFor(f), NEW t \in Sweeps, Mark(t)
  PROVE  SoundFor(f)'
<1>1. t \in Txs /\ t # Publisher /\ tx[t] \in Tx /\ pc[t] = "mark"
  BY FixityAssumption DEF Txs, TInv, TypeOK, Mark
<1>2. PICK g \in Files :
        NextRow(t, g) /\ tx' = [tx EXCEPT ![t] = Marked(@, g)]
  BY DEF Mark
<1>3. /\ tx'[t].wrote = tx[t].wrote \cup {g}
      /\ tx'[t].new = [tx[t].new EXCEPT
           ![g] = Transitioned(tx[t].loaded[g], tx[t].found)]
      /\ tx'[t].loaded = [tx[t].loaded EXCEPT ![g] = NoRecord]
      /\ tx'[t].added = tx[t].added
      /\ \A u \in Txs \ {t} : tx'[u] = tx[u]
  BY <1>1, <1>2, MarkEffect
<1>4. /\ \A u \in Txs \ {t} : pc'[u] = pc[u]
      /\ pc'[t] # "mark" /\ record' = record /\ blob' = blob
  BY <1>1 DEF TInv, TypeOK, Mark, Goto
<1>5. /\ tx[t].loaded \in [Files -> Record \cup {NoRecord}]
      /\ tx[t].new \in [Files -> Record \cup {NoRecord}]
  BY <1>1 DEF Tx
<1>6. SweepSound(t, f)'
  BY <1>3, <1>4, <1>5 DEF SoundFor, SweepSound, Right
<1>7. WriteSound(t, f)'
  <2>1. CASE f = g
    <3>1. tx[t].loaded[f] \in Record
      BY <1>1, <1>2, <2>1 DEF TInv, Fits, NextRow
    <3>2. Right(tx[t].loaded[f], f, 0) /\ tx[t].found = "ok"
      BY <1>1, <1>2, <2>1, <3>1, FixityAssumption DEF SoundFor, SweepSound
    <3>3. tx[t].loaded[f].n \in Numbers
      BY <3>1 DEF Record
    <3>4. tx'[t].new[f] = Transitioned(tx[t].loaded[f], "ok")
      BY <1>3, <1>5, <2>1, <3>2
    <3>5. tx'[t].new[f].status = "ok" /\ tx'[t].new[f].n = tx[t].loaded[f].n
      BY <3>4 DEF Transitioned
    <3>. QED
      BY <1>4, <3>2, <3>3, <3>5 DEF WriteSound, Right, Numbers
  <2>2. CASE f # g
    BY <1>1, <1>3, <1>4, <1>5, <2>2 DEF SoundFor, WriteSound, Right
  <2>. QED
    BY <2>1, <2>2
<1>. QED
  BY <1>1, <1>3, <1>4, <1>6, <1>7, SoundQuiet

LEMMA SoundStartPass ==
  ASSUME TInv, NEW f \in Files, SoundFor(f), StartPass
  PROVE  SoundFor(f)'
<1>1. Publisher \in Txs /\ Publisher \notin Sweeps /\ tx[Publisher] \in Tx
  BY FixityAssumption DEF Txs, TInv, TypeOK
<1>2. PICK docs : tx' = [tx EXCEPT ![Publisher].todo = docs]
  BY DEF StartPass
<1>3. /\ \A u \in Txs \ {Publisher} : tx'[u] = tx[u] /\ pc'[u] = pc[u]
      /\ pc'[Publisher] = "pick" /\ record' = record /\ blob' = blob
  BY <1>1, <1>2 DEF TInv, TypeOK, StartPass, Goto
<1>4. /\ tx'[Publisher].wrote = tx[Publisher].wrote
      /\ tx'[Publisher].new = tx[Publisher].new
      /\ tx'[Publisher].added = tx[Publisher].added
  BY <1>1, <1>2 DEF TInv, TypeOK, Tx
<1>5. WriteSound(Publisher, f)'
  BY <1>1, <1>3, <1>4, WriteSoundFrame DEF SoundFor
<1>6. PassSound(f)'
  BY <1>3 DEF PassSound
<1>. QED
  BY <1>1, <1>3, <1>5, <1>6, SoundQuiet

\* The version that is certified is a row that is there or that is added.
LEMMA SoundPick ==
  ASSUME TInv, NEW f \in Files, SoundFor(f),
         NEW g \in Files, NEW n \in Numbers, Pick(g, n)
  PROVE  SoundFor(f)'
<1>1. Publisher \in Txs /\ Publisher \notin Sweeps /\ tx[Publisher] \in Tx
  BY FixityAssumption DEF Txs, TInv, TypeOK
<1>2. /\ tx'[Publisher].todo = tx[Publisher].todo
      /\ tx'[Publisher].wrote = tx[Publisher].wrote
      /\ tx'[Publisher].new = [tx[Publisher].new EXCEPT ![g] = Certified(n)]
      /\ tx'[Publisher].added = [tx[Publisher].added EXCEPT
           ![g] = IF n \in Rows(g) THEN 0 ELSE n]
      /\ \A u \in Txs \ {Publisher} : tx'[u] = tx[u] /\ pc'[u] = pc[u]
  BY PickEffect
<1>3. record' = record /\ blob' = blob /\ NextDoc(g)
  BY DEF Pick
<1>4. /\ tx[Publisher].new \in [Files -> Record \cup {NoRecord}]
      /\ tx[Publisher].added \in [Files -> Numbers \cup {0}]
  BY <1>1 DEF Tx
<1>5. CASE f = g
  <2>1. tx'[Publisher].new[f] = Certified(n)
        /\ tx'[Publisher].added[f] = IF n \in Rows(f) THEN 0 ELSE n
    BY <1>2, <1>4, <1>5
  <2>2. n \in Rows(f) => blob[f][n] = "intact"
    BY DEF Rows, SoundFor, RowsSound
  <2>3. Right(tx[Publisher].new[f], f, tx[Publisher].added[f])'
    BY <1>3, <2>1, <2>2 DEF Right, Certified
  <2>. QED
    BY <1>1, <1>2, <1>3, <2>3, SoundQuiet DEF PassSound, WriteSound
<1>6. CASE f # g
  <2>1. tx'[Publisher].new[f] = tx[Publisher].new[f]
        /\ tx'[Publisher].added[f] = tx[Publisher].added[f]
    BY <1>2, <1>4, <1>6
  <2>2. WriteSound(Publisher, f)'
    BY <1>1, <1>2, <1>3, <2>1 DEF SoundFor, WriteSound, Right
  <2>3. ~NextDoc(f)'
    <3>1. NextDoc(f)' = NextDoc(f)
      BY <1>2 DEF NextDoc
    <3>. QED
      BY <1>3, <1>6, <3>1, NextIsOne
  <2>. QED
    BY <1>1, <1>2, <1>3, <2>2, <2>3, SoundQuiet DEF PassSound
<1>. QED
  BY <1>5, <1>6

LEMMA SoundPickNone ==
  ASSUME TInv, NEW f \in Files, SoundFor(f), PickNone
  PROVE  SoundFor(f)'
<1>1. Publisher \in Txs /\ Publisher \notin Sweeps /\ tx[Publisher] \in Tx
  BY FixityAssumption DEF Txs, TInv, TypeOK
<1>2. PICK g \in Files : tx' = [tx EXCEPT ![Publisher].todo = @ \ {g}]
  BY DEF PickNone
<1>3. /\ \A u \in Txs \ {Publisher} : tx'[u] = tx[u] /\ pc'[u] = pc[u]
      /\ pc'[Publisher] # "record" /\ record' = record /\ blob' = blob
  BY <1>1, <1>2 DEF TInv, TypeOK, PickNone, Goto
<1>4. /\ tx'[Publisher].wrote = tx[Publisher].wrote
      /\ tx'[Publisher].new = tx[Publisher].new
      /\ tx'[Publisher].added = tx[Publisher].added
  BY <1>1, <1>2 DEF TInv, TypeOK, Tx
<1>5. WriteSound(Publisher, f)' /\ PassSound(f)'
  BY <1>1, <1>3, <1>4, WriteSoundFrame DEF SoundFor, PassSound
<1>. QED
  BY <1>1, <1>3, <1>5, SoundQuiet

LEMMA SoundWriteRecord ==
  ASSUME TInv, NEW f \in Files, SoundFor(f), WriteRecord
  PROVE  SoundFor(f)'
<1>1. Publisher \in Txs /\ Publisher \notin Sweeps /\ pc[Publisher] = "record"
  BY FixityAssumption DEF Txs, WriteRecord
<1>2. PICK g \in Files :
        NextDoc(g) /\ tx' = [tx EXCEPT ![Publisher] = Written(@, g)]
  BY DEF WriteRecord
<1>3. /\ \A u \in Txs \ {Publisher} : tx'[u] = tx[u] /\ pc'[u] = pc[u]
      /\ pc'[Publisher] # "record" /\ record' = record /\ blob' = blob
  BY <1>1, <1>2 DEF TInv, TypeOK, WriteRecord, Goto
<1>4. /\ tx'[Publisher].wrote = tx[Publisher].wrote \cup {g}
      /\ tx'[Publisher].new = tx[Publisher].new
      /\ tx'[Publisher].added = tx[Publisher].added
  BY <1>2, WrittenEffect
<1>5. f = g => Right(tx[Publisher].new[f], f, tx[Publisher].added[f])
  BY <1>1, <1>2 DEF SoundFor, PassSound
<1>6. WriteSound(Publisher, f)' /\ PassSound(f)'
  BY <1>1, <1>3, <1>4, <1>5 DEF SoundFor, WriteSound, PassSound, Right
<1>. QED
  BY <1>1, <1>3, <1>6, SoundQuiet

\* A damage harms its document; a repair brings an intact body.
LEMMA SoundDamage ==
  ASSUME TInv, NEW f \in Files \ harmed', SoundFor(f), Damage \/ Repair
  PROVE  SoundFor(f)'
<1>1. record' = record /\ pc' = pc /\ tx' = tx
  BY DEF Damage, Repair
<1>2. /\ \A m \in Numbers : blob[f][m] = "intact" => blob'[f][m] = "intact"
      /\ \A m \in Numbers : blob'[f][m] \in {"intact", "gone"}
  <2>1. CASE Damage
    <3>1. PICK g \in Files, how \in Damages : \E m \in Rows(g) :
            harmed' = harmed \cup {g} /\ blob' = [blob EXCEPT ![g][m] = how]
      BY <2>1 DEF Damage
    <3>2. blob'[f] = blob[f]
      BY <3>1 DEF TInv, TypeOK
    <3>. QED
      BY <3>2 DEF SoundFor, RowsSound
  <2>2. CASE Repair
    <3>1. PICK g \in Files : \E m \in Rows(g) :
            blob' = [blob EXCEPT ![g][m] = "intact"]
      BY <2>2 DEF Repair
    <3>. QED
      BY <3>1 DEF SoundFor, RowsSound, TInv, TypeOK, Rows
  <2>. QED
    BY <2>1, <2>2
<1>3. RowsSound(f)'
  <2>1. f \in Recorded => record[f] \in Record
    BY DEF TInv, TypeOK, Recorded
  <2>2. f \in Recorded => record[f].n \in Numbers
    BY <2>1 DEF Record
  <2>. QED
    BY <1>1, <1>2, <2>2 DEF SoundFor, RowsSound, Recorded, Right
<1>4. PassSound(f)'
  BY <1>1, <1>2, PassSoundFrame DEF SoundFor
<1>5. \A t \in Sweeps : SweepSound(t, f)'
  BY <1>1, <1>2, SweepSoundFrame DEF SoundFor
<1>6. \A t \in Txs : WriteSound(t, f)'
  BY <1>1, <1>2, WriteSoundFrame DEF SoundFor
<1>. QED
  BY <1>3, <1>4, <1>5, <1>6 DEF SoundFor

LEMMA SoundStep ==
  ASSUME TInv, Sound, [Next]_vars
  PROVE  Sound'
<1> SUFFICES ASSUME NEW f \in Files \ harmed' PROVE SoundFor(f)'
  BY DEF Sound
<1>1. harmed \subseteq harmed'
  BY DEF Next, SweepStep, PassStep, Abort, StartSweep, LoadChunk, Hash, Mark,
         Commit, Fail, StartPass, PickNew, PickLast, Pick, PickNone,
         WriteRecord, Damage, Repair, vars
<1>2. SoundFor(f) /\ Sweeps \subseteq Txs /\ Publisher \in Txs
  BY <1>1 DEF Sound, Txs
<1>3. ASSUME NEW t \in Sweeps, StartSweep(t) \/ SweepStep(t)
      PROVE  SoundFor(f)'
  BY <1>2, <1>3, SoundStart, SoundLoad, SoundHash, SoundMark, SoundCommit,
     SoundFail DEF SweepStep, Abort
<1>4. ASSUME PassStep PROVE SoundFor(f)'
  BY <1>2, <1>4, SoundPick, SoundPickNone, SoundWriteRecord, SoundCommit,
     SoundFail DEF PassStep, PickNew, PickLast, Abort, Rows
<1>5. CASE UNCHANGED vars
  BY <1>2, <1>5 DEF vars, SoundFor, RowsSound, PassSound, SweepSound,
     WriteSound, Right, Recorded, NextRow, NextDoc
<1>. QED
  BY <1>2, <1>3, <1>4, <1>5, SoundStartPass, SoundFail, SoundDamage DEF Next

\* No false alarm, for any number of sweeps and publications: a record leaves
\* ok only if some stored body of its document was damaged.
THEOREM NoFalseAlarms == Spec => []NoFalseAlarm
<1>1. Init => Sound
  <2> SUFFICES ASSUME Init, NEW f \in Files PROVE SoundFor(f)
    BY DEF Sound
  <2>1. PICK published \in SUBSET Files : \E known \in SUBSET published :
          /\ blob = [g \in Files |-> [m \in Numbers |->
               IF g \in published /\ m = 1 THEN "intact" ELSE "gone"]]
          /\ record = [g \in Files |-> IF g \in known THEN Certified(1)
                                                      ELSE NoRecord]
    BY DEF Init
  <2>2. 1 \in Numbers
    BY FixityAssumption DEF Numbers
  <2>3. RowsSound(f)
    BY <2>1, <2>2 DEF RowsSound, Right, Recorded, Certified
  <2>4. \A t \in Txs : pc[t] = "idle" /\ tx[t] = NoTx
    BY DEF Init
  <2>5. /\ PassSound(f) /\ \A t \in Txs : WriteSound(t, f)
        /\ \A t \in Sweeps : SweepSound(t, f)
    BY <2>4 DEF PassSound, WriteSound, SweepSound, NoTx, Txs
  <2>. QED
    BY <2>3, <2>5 DEF SoundFor
<1>2. TInv /\ Sound /\ [Next]_vars => Sound'
  BY SoundStep
<1>3. Sound => NoFalseAlarm
  <2> SUFFICES ASSUME Sound, NEW f \in Recorded, record[f].status # "ok",
                      f \notin harmed
               PROVE  FALSE
    BY DEF NoFalseAlarm
  <2>. QED
    BY DEF Sound, SoundFor, RowsSound, Recorded, Right
<1>. QED
  BY <1>1, <1>2, <1>3, TypeInvariance, PTL DEF Spec

-----------------------------------------------------------------------------
(***************************************************************************)
(* Theorems about WebArchive.  Whatever request writes the record last,    *)
(* what it writes was true of its own job when it was polled, and a job    *)
(* that succeeded stays so: nobody submits again under the same number.    *)
(* VisitsKnow says what each request knows of its job at each place, and   *)
(* StampKnows what the record says; both are needed, since a refresh takes *)
(* its job from the record and an outcome goes back into it.               *)
(***************************************************************************)

\* A request that polls has a job the archive knows; what it found stands; one
\* that has not submitted has no job.
VisitKnows(v) ==
  /\ visit[v].at \in {"none", "submit"} => captures[v].state = "none"
  /\ visit[v].at \in {"stub", "poll", "final"} =>
       visit[v].job \in Jobs /\ captures[visit[v].job].state # "none"
  /\ visit[v].at = "final" /\ visit[v].result = "success" =>
       captures[visit[v].job].state = "success"
VisitsKnow == \A v \in Visits : VisitKnows(v)

\* A record that is not failed names a job the archive knows.
StampKnows ==
  stamp # NoStamp /\ stamp.status \in {"pending", "success"} =>
    stamp.job \in Jobs /\ captures[stamp.job].state # "none"

Counted == orphans <= misses

ArchiveInv ==
  WebArchiveTypeOK /\ Counted /\ VisitsKnow /\ StampKnows /\ ShownCaptureExists

-----------------------------------------------------------------------------
LEMMA ArchiveInit == WebArchiveInit => ArchiveInv
<1> SUFFICES ASSUME WebArchiveInit PROVE ArchiveInv
  OBVIOUS
<1>1. NoVisit \in Visit
  BY DEF NoVisit, Visit, VisitPlaces, Outcomes, Jobs
<1>2. WebArchiveTypeOK /\ Counted
  <2>1. captures \in [Jobs -> Capture]
    BY DEF WebArchiveInit, Capture, Outcomes
  <2>2. visit \in [Visits -> Visit]
    BY <1>1 DEF WebArchiveInit
  <2>3. misses \in 0..MaxMisses /\ orphans \in 0..MaxMisses /\ orphans <= misses
    BY WebArchiveAssumption DEF WebArchiveInit
  <2>4. stamp \in Stamp \cup {NoStamp} /\ overlapped \in BOOLEAN /\ strays \in Nat
    BY DEF WebArchiveInit
  <2>. QED
    BY <2>1, <2>2, <2>3, <2>4 DEF WebArchiveTypeOK, Counted
<1>3. VisitsKnow
  BY DEF WebArchiveInit, VisitsKnow, VisitKnows, NoVisit, Jobs
<1>4. StampKnows /\ ShownCaptureExists
  BY DEF WebArchiveInit, StampKnows, ShownCaptureExists
<1>. QED
  BY <1>2, <1>3, <1>4 DEF ArchiveInv

\* A request that ends forgets its job, and the others are as they were.
LEMMA Ends ==
  ASSUME WebArchiveTypeOK, NEW v \in Visits, EndVisit(v)
  PROVE  /\ visit' \in [Visits -> Visit]
         /\ visit'[v].at = "end"
         /\ \A w \in Visits : w # v => visit'[w] = visit[w]
BY DEF WebArchiveTypeOK, EndVisit, NoVisit, Visit, VisitPlaces, Outcomes, Jobs

\* No job is forgotten, and none that succeeded is undone.
CapturesGrow == \A j \in Jobs :
  /\ captures[j].state # "none" => captures'[j].state # "none"
  /\ captures[j].state = "success" => captures'[j].state = "success"

\* What the requests and the record know survives the step of one of them, if
\* it knows what it should.
LEMMA OtherVisitsKnow ==
  ASSUME ArchiveInv, CapturesGrow, NEW v \in Visits, VisitKnows(v)',
         \A w \in Visits : w # v => visit'[w] = visit[w] /\ captures'[w] = captures[w]
  PROVE  VisitsKnow'
<1>1. ASSUME NEW w \in Visits, w # v PROVE VisitKnows(w)'
  BY <1>1 DEF ArchiveInv, VisitsKnow, VisitKnows, CapturesGrow
<1>. QED
  BY <1>1 DEF VisitsKnow

LEMMA RecordStays ==
  ASSUME ArchiveInv, CapturesGrow, stamp' = stamp
  PROVE  StampKnows' /\ ShownCaptureExists'
<1>1. stamp # NoStamp => stamp \in Stamp
  BY DEF ArchiveInv, WebArchiveTypeOK
<1>. QED
  BY <1>1, WebArchiveAssumption
  DEF ArchiveInv, StampKnows, ShownCaptureExists, Stamp, Outcomes, CapturesGrow, Jobs

\* A request that is over knows nothing it should not.
LEMMA OverKnows ==
  ASSUME NEW v \in Visits, visit'[v].at = "end" PROVE VisitKnows(v)'
BY DEF VisitKnows

LEMMA CapturesStay == ASSUME UNCHANGED captures PROVE CapturesGrow
BY DEF CapturesGrow

-----------------------------------------------------------------------------
(* One lemma for each action. *)

LEMMA BeginArchiveKeeps ==
  ASSUME ArchiveInv, NEW v \in Visits, BeginArchive(v) PROVE ArchiveInv'
<1>0. WebArchiveTypeOK /\ visit[v] \in Visit /\ UNCHANGED <<captures, stamp, misses, orphans, strays>>
  BY DEF ArchiveInv, WebArchiveTypeOK, BeginArchive
<1>1. /\ visit' \in [Visits -> Visit]
      /\ visit'[v].at \in {"submit", "end"}
      /\ \A w \in Visits : w # v => visit'[w] = visit[w]
  <2>1. CASE EndVisit(v)
    BY <1>0, <2>1, Ends
  <2>2. CASE visit' = [visit EXCEPT ![v].at = "submit"]
    <3>1. [visit[v] EXCEPT !.at = "submit"] \in Visit
      BY <1>0 DEF Visit, VisitPlaces
    <3>2. visit' = [visit EXCEPT ![v] = [visit[v] EXCEPT !.at = "submit"]]
      BY <2>2
    <3>3. [visit[v] EXCEPT !.at = "submit"].at = "submit"
      BY <1>0 DEF Visit
    <3>. QED
      BY <1>0, <3>1, <3>2, <3>3 DEF WebArchiveTypeOK
  <2>. QED
    BY <2>1, <2>2 DEF BeginArchive
<1>2. WebArchiveTypeOK' /\ Counted'
  BY <1>0, <1>1 DEF BeginArchive, ArchiveInv, WebArchiveTypeOK, Counted
<1>3. VisitKnows(v)'
  BY <1>0, <1>1 DEF BeginArchive, Arrives, ArchiveInv, VisitsKnow, VisitKnows
<1>4. VisitsKnow'
  BY <1>0, <1>1, <1>3, CapturesStay, OtherVisitsKnow
<1>. QED
  BY <1>0, <1>2, <1>4, CapturesStay, RecordStays DEF ArchiveInv

LEMMA SubmitKeeps ==
  ASSUME ArchiveInv, NEW v \in Visits, Submit(v) PROVE ArchiveInv'
<1>0. WebArchiveTypeOK /\ visit[v] \in Visit /\ UNCHANGED <<stamp, misses, orphans, strays, overlapped>>
  BY DEF ArchiveInv, WebArchiveTypeOK, Submit
<1> DEFINE row == [visit[v] EXCEPT !.at = "stub", !.job = v]
<1>1. row \in Visit /\ row.at = "stub" /\ row.job = v
  BY <1>0 DEF Visit, VisitPlaces, Jobs
<1>2. visit' = [visit EXCEPT ![v] = row]
  BY DEF Submit
<1> HIDE DEF row
<1>3. /\ visit' \in [Visits -> Visit] /\ visit'[v] = row
      /\ \A w \in Visits : w # v => visit'[w] = visit[w]
  BY <1>0, <1>1, <1>2 DEF WebArchiveTypeOK
<1>4. /\ captures' \in [Jobs -> Capture] /\ captures'[v].state = "pending"
      /\ \A w \in Visits : w # v => captures'[w] = captures[w]
  BY <1>0 DEF Submit, NewCapture, WebArchiveTypeOK, Capture, Outcomes, Jobs
<1>5. CapturesGrow
  <2>1. captures[v].state = "none"
    BY DEF Submit, ArchiveInv, VisitsKnow, VisitKnows
  <2>. QED
    BY <1>4, <2>1 DEF CapturesGrow, Jobs
<1>6. VisitKnows(v)'
  BY <1>1, <1>3, <1>4 DEF VisitKnows, Jobs
<1>7. WebArchiveTypeOK' /\ Counted'
  BY <1>0, <1>3, <1>4 DEF ArchiveInv, WebArchiveTypeOK, Counted
<1>8. VisitsKnow'
  BY <1>3, <1>4, <1>5, <1>6, OtherVisitsKnow
<1>. QED
  BY <1>0, <1>5, <1>7, <1>8, RecordStays DEF ArchiveInv

LEMMA SubmitUnansweredKeeps ==
  ASSUME ArchiveInv, NEW v \in Visits, SubmitUnanswered(v) PROVE ArchiveInv'
<1>0. WebArchiveTypeOK /\ UNCHANGED <<strays, overlapped>>
  BY DEF ArchiveInv, SubmitUnanswered
<1>1. /\ visit' \in [Visits -> Visit] /\ visit'[v].at = "end"
      /\ \A w \in Visits : w # v => visit'[w] = visit[w]
  BY <1>0, Ends DEF SubmitUnanswered
<1>2. /\ captures' \in [Jobs -> Capture]
      /\ \A w \in Visits : w # v => captures'[w] = captures[w]
  <2>1. CASE NewCapture(v)
    BY <1>0, <2>1 DEF NewCapture, WebArchiveTypeOK, Capture, Outcomes, Jobs
  <2>2. CASE UNCHANGED captures
    BY <1>0, <2>2 DEF WebArchiveTypeOK
  <2>. QED
    BY <2>1, <2>2 DEF SubmitUnanswered
<1>3. CapturesGrow
  <2>1. captures[v].state = "none"
    BY DEF SubmitUnanswered, ArchiveInv, VisitsKnow, VisitKnows
  <2>. QED
    BY <1>2, <2>1 DEF CapturesGrow, Jobs
<1>4. /\ misses' \in 0..MaxMisses /\ orphans' \in 0..MaxMisses
      /\ orphans' <= misses'
  BY WebArchiveAssumption
  DEF SubmitUnanswered, ArchiveInv, WebArchiveTypeOK, Counted
<1>5. stamp' \in Stamp /\ stamp'.status = "failed"
  BY DEF SubmitUnanswered, Stamp, Outcomes
<1>6. VisitsKnow'
  BY <1>1, <1>2, <1>3, OverKnows, OtherVisitsKnow
<1>7. WebArchiveTypeOK' /\ Counted'
  BY <1>0, <1>1, <1>2, <1>4, <1>5 DEF WebArchiveTypeOK, Counted
<1>. QED
  BY <1>5, <1>6, <1>7 DEF ArchiveInv, StampKnows, ShownCaptureExists

LEMMA RecordPendingKeeps ==
  ASSUME ArchiveInv, NEW v \in Visits, RecordPending(v) PROVE ArchiveInv'
<1>0. /\ WebArchiveTypeOK /\ visit[v] \in Visit
      /\ UNCHANGED <<captures, misses, orphans, strays, overlapped>>
  BY DEF ArchiveInv, WebArchiveTypeOK, RecordPending
<1>1. visit[v].job \in Jobs /\ captures[visit[v].job].state # "none"
  BY DEF RecordPending, ArchiveInv, VisitsKnow, VisitKnows
<1> DEFINE row == [visit[v] EXCEPT !.at = "poll"]
<1>2. row \in Visit /\ row.at = "poll" /\ row.job = visit[v].job
  BY <1>0 DEF Visit, VisitPlaces
<1>3. visit' = [visit EXCEPT ![v] = row]
  BY DEF RecordPending
<1> HIDE DEF row
<1>4. /\ visit' \in [Visits -> Visit] /\ visit'[v] = row
      /\ \A w \in Visits : w # v => visit'[w] = visit[w]
  BY <1>0, <1>2, <1>3 DEF WebArchiveTypeOK
<1>5. stamp' \in Stamp /\ stamp'.status = "pending" /\ stamp'.job = visit[v].job
  BY <1>1 DEF RecordPending, Stub, Stamp, Outcomes
<1>6. VisitKnows(v)'
  BY <1>0, <1>1, <1>2, <1>4 DEF VisitKnows
<1>7. VisitsKnow'
  BY <1>0, <1>4, <1>6, CapturesStay, OtherVisitsKnow
<1>8. WebArchiveTypeOK' /\ Counted'
  BY <1>0, <1>4, <1>5 DEF ArchiveInv, WebArchiveTypeOK, Counted
<1>. QED
  BY <1>0, <1>1, <1>5, <1>7, <1>8 DEF ArchiveInv, StampKnows, ShownCaptureExists

LEMMA BeginRefreshKeeps ==
  ASSUME ArchiveInv, NEW v \in Visits, BeginRefresh(v) PROVE ArchiveInv'
<1>0. /\ WebArchiveTypeOK /\ visit[v] \in Visit
      /\ UNCHANGED <<captures, stamp, misses, orphans, strays, overlapped>>
  BY DEF ArchiveInv, WebArchiveTypeOK, BeginRefresh
<1>1. stamp.job \in Jobs /\ captures[stamp.job].state # "none"
  BY DEF BeginRefresh, ArchiveInv, StampKnows
<1> DEFINE row == [visit[v] EXCEPT !.at = "poll", !.refresh = TRUE, !.job = stamp.job]
<1>2. row \in Visit /\ row.at = "poll" /\ row.job = stamp.job
  BY <1>0, <1>1 DEF Visit, VisitPlaces
<1>3. visit' = [visit EXCEPT ![v] = row]
  BY DEF BeginRefresh
<1> HIDE DEF row
<1>4. /\ visit' \in [Visits -> Visit] /\ visit'[v] = row
      /\ \A w \in Visits : w # v => visit'[w] = visit[w]
  BY <1>0, <1>2, <1>3 DEF WebArchiveTypeOK
<1>5. VisitKnows(v)'
  BY <1>0, <1>1, <1>2, <1>4 DEF VisitKnows
<1>6. VisitsKnow'
  BY <1>0, <1>4, <1>5, CapturesStay, OtherVisitsKnow
<1>7. WebArchiveTypeOK' /\ Counted'
  BY <1>0, <1>4 DEF ArchiveInv, WebArchiveTypeOK, Counted
<1>. QED
  BY <1>0, <1>6, <1>7, CapturesStay, RecordStays DEF ArchiveInv

LEMMA PollKeeps ==
  ASSUME ArchiveInv, NEW v \in Visits, Poll(v) PROVE ArchiveInv'
<1>0. /\ WebArchiveTypeOK /\ visit[v] \in Visit
      /\ UNCHANGED <<captures, stamp, misses, orphans, strays, overlapped>>
  BY DEF ArchiveInv, WebArchiveTypeOK, Poll
<1>1. visit[v].job \in Jobs /\ captures[visit[v].job].state # "none"
  BY DEF Poll, ArchiveInv, VisitsKnow, VisitKnows
<1>2. PICK o \in {captures[visit[v].job].state, "pending"} :
        visit' = [visit EXCEPT ![v].at = "final", ![v].result = o]
  BY DEF Poll
<1>3. o \in Outcomes
  BY <1>0, <1>1 DEF WebArchiveTypeOK, Capture, Outcomes
<1> DEFINE row == [visit[v] EXCEPT !.at = "final", !.result = o]
<1>4. row \in Visit /\ row.at = "final" /\ row.job = visit[v].job /\ row.result = o
  BY <1>0, <1>3 DEF Visit, VisitPlaces
<1>5. visit' = [visit EXCEPT ![v] = row]
  BY <1>2
<1> HIDE DEF row
<1>6. /\ visit' \in [Visits -> Visit] /\ visit'[v] = row
      /\ \A w \in Visits : w # v => visit'[w] = visit[w]
  BY <1>0, <1>4, <1>5 DEF WebArchiveTypeOK
<1>7. VisitKnows(v)'
  BY <1>0, <1>1, <1>2, <1>4, <1>6 DEF VisitKnows
<1>8. VisitsKnow'
  BY <1>0, <1>6, <1>7, CapturesStay, OtherVisitsKnow
<1>9. WebArchiveTypeOK' /\ Counted'
  BY <1>0, <1>6 DEF ArchiveInv, WebArchiveTypeOK, Counted
<1>. QED
  BY <1>0, <1>8, <1>9, CapturesStay, RecordStays DEF ArchiveInv

LEMMA RecordOutcomeKeeps ==
  ASSUME ArchiveInv, NEW v \in Visits, RecordOutcome(v) PROVE ArchiveInv'
<1>0. /\ WebArchiveTypeOK /\ visit[v] \in Visit
      /\ UNCHANGED <<captures, misses, orphans, overlapped>>
      /\ strays' \in Nat
  BY DEF ArchiveInv, WebArchiveTypeOK, RecordOutcome
<1>1. /\ visit' \in [Visits -> Visit] /\ visit'[v].at = "end"
      /\ \A w \in Visits : w # v => visit'[w] = visit[w]
  BY <1>0, Ends DEF RecordOutcome
<1>2. VisitsKnow'
  BY <1>0, <1>1, CapturesStay, OverKnows, OtherVisitsKnow
<1>3. CASE stamp' = Final(v)
  <2>1. /\ visit[v].job \in Jobs /\ captures[visit[v].job].state # "none"
        /\ visit[v].result = "success" => captures[visit[v].job].state = "success"
    BY DEF RecordOutcome, ArchiveInv, VisitsKnow, VisitKnows
  <2>2. /\ stamp' \in Stamp /\ stamp'.job = visit[v].job
        /\ stamp'.status = visit[v].result
    BY <1>0, <1>3, <2>1 DEF Final, Stamp, Visit
  <2>3. StampKnows' /\ ShownCaptureExists'
    BY <1>0, <2>1, <2>2, WebArchiveAssumption DEF StampKnows, ShownCaptureExists, Jobs
  <2>4. WebArchiveTypeOK' /\ Counted'
    BY <1>0, <1>1, <2>2 DEF ArchiveInv, WebArchiveTypeOK, Counted
  <2>. QED
    BY <1>2, <2>3, <2>4 DEF ArchiveInv
<1>4. CASE UNCHANGED stamp
  <2>1. WebArchiveTypeOK' /\ Counted'
    BY <1>0, <1>1, <1>4 DEF ArchiveInv, WebArchiveTypeOK, Counted
  <2>. QED
    BY <1>0, <1>2, <1>4, <2>1, CapturesStay, RecordStays DEF ArchiveInv
<1>. QED
  BY <1>3, <1>4 DEF RecordOutcome

LEMMA KillVisitKeeps ==
  ASSUME ArchiveInv, NEW v \in Visits, KillVisit(v) PROVE ArchiveInv'
<1>0. WebArchiveTypeOK /\ UNCHANGED <<captures, stamp, strays, overlapped>>
  BY DEF ArchiveInv, KillVisit
<1>1. /\ visit' \in [Visits -> Visit] /\ visit'[v].at = "end"
      /\ \A w \in Visits : w # v => visit'[w] = visit[w]
  BY <1>0, Ends DEF KillVisit
<1>2. VisitsKnow'
  BY <1>0, <1>1, CapturesStay, OverKnows, OtherVisitsKnow
<1>3. /\ misses' \in 0..MaxMisses /\ orphans' \in 0..MaxMisses
      /\ orphans' <= misses'
  BY WebArchiveAssumption DEF KillVisit, ArchiveInv, WebArchiveTypeOK, Counted
<1>4. WebArchiveTypeOK' /\ Counted'
  BY <1>0, <1>1, <1>3 DEF WebArchiveTypeOK, Counted
<1>. QED
  BY <1>0, <1>2, <1>4, CapturesStay, RecordStays DEF ArchiveInv

LEMMA EndCaptureKeeps ==
  ASSUME ArchiveInv, NEW j \in Jobs, EndCapture(j) PROVE ArchiveInv'
<1>0. /\ WebArchiveTypeOK
      /\ UNCHANGED <<stamp, visit, misses, orphans, strays, overlapped>>
  BY DEF ArchiveInv, EndCapture
<1>1. PICK o \in {"success", "failed"} : captures' = [captures EXCEPT ![j].state = o]
  BY DEF EndCapture
<1>2. [captures[j] EXCEPT !.state = o] \in Capture
  BY <1>0 DEF WebArchiveTypeOK, Capture, Outcomes
<1>3. /\ captures' \in [Jobs -> Capture] /\ captures'[j].state = o
      /\ \A w \in Jobs : w # j => captures'[w] = captures[w]
  BY <1>0, <1>1, <1>2 DEF WebArchiveTypeOK, Capture
<1>4. CapturesGrow
  BY <1>3 DEF EndCapture, CapturesGrow
<1>5. ASSUME NEW v \in Visits PROVE VisitKnows(v)'
  BY <1>0, <1>3, <1>4
  DEF EndCapture, ArchiveInv, VisitsKnow, VisitKnows, CapturesGrow, Jobs
<1>6. WebArchiveTypeOK' /\ Counted'
  BY <1>0, <1>3 DEF ArchiveInv, WebArchiveTypeOK, Counted
<1>. QED
  BY <1>0, <1>4, <1>5, <1>6, RecordStays DEF ArchiveInv, VisitsKnow

-----------------------------------------------------------------------------
LEMMA ArchiveStep == ArchiveInv /\ [WebArchiveNext]_archiveVars => ArchiveInv'
<1>1. ASSUME ArchiveInv, WebArchiveNext PROVE ArchiveInv'
  BY <1>1, BeginArchiveKeeps, SubmitKeeps, SubmitUnansweredKeeps,
     RecordPendingKeeps, BeginRefreshKeeps, PollKeeps, RecordOutcomeKeeps,
     KillVisitKeeps, EndCaptureKeeps
  DEF WebArchiveNext
<1>2. ASSUME ArchiveInv, UNCHANGED archiveVars PROVE ArchiveInv'
  BY <1>2
  DEF archiveVars, ArchiveInv, WebArchiveTypeOK, Counted, VisitsKnow, VisitKnows,
      StampKnows, ShownCaptureExists
<1>. QED
  BY <1>1, <1>2

THEOREM ArchiveInvariant == WebArchiveSpec => []ArchiveInv
BY ArchiveInit, ArchiveStep, PTL DEF WebArchiveSpec

\* The record and the requests keep their types (the rows of plugin_data and
\* the states of archive_collection and refresh_status), however many requests
\* there are.
THEOREM ArchiveTypeCorrect == WebArchiveSpec => []WebArchiveTypeOK
<1>1. ArchiveInv => WebArchiveTypeOK
  BY DEF ArchiveInv
<1>. QED
  BY <1>1, ArchiveInvariant, PTL

\* A record that shows a capture shows one the archive has, whatever number of
\* archive requests and refreshes wrote it in whatever order.
THEOREM ShownCapturesExist == WebArchiveSpec => []ShownCaptureExists
<1>1. ArchiveInv => ShownCaptureExists
  BY DEF ArchiveInv
<1>. QED
  BY <1>1, ArchiveInvariant, PTL

\* A set counted has no more than what holds it, and at most one more than a
\* set that lacks one of its elements at most.
LEMMA NoMore ==
  ASSUME NEW S, IsFiniteSet(S), NEW T, T \subseteq S
  PROVE  /\ IsFiniteSet(T) /\ Cardinality(T) \in Nat /\ Cardinality(S) \in Nat
         /\ Cardinality(T) <= Cardinality(S)
BY FS_Subset, FS_CardinalityType

LEMMA OneMore ==
  ASSUME NEW S, IsFiniteSet(S), NEW x, NEW T, T \subseteq S \cup {x}
  PROVE  /\ IsFiniteSet(T) /\ Cardinality(T) \in Nat /\ Cardinality(S) \in Nat
         /\ Cardinality(T) <= Cardinality(S) + 1
<1> DEFINE U == S \cup {x}
<1>1. IsFiniteSet(U) /\ Cardinality(S) \in Nat
  BY FS_AddElement, FS_CardinalityType
<1>2. Cardinality(U) = IF x \in S THEN Cardinality(S) ELSE Cardinality(S) + 1
  BY FS_AddElement
<1>3. Cardinality(U) <= Cardinality(S) + 1
  BY <1>1, <1>2
<1> HIDE DEF U
<1>4. T \subseteq U
  BY DEF U
<1>5. IsFiniteSet(T) /\ Cardinality(T) \in Nat /\ Cardinality(U) \in Nat
      /\ Cardinality(T) <= Cardinality(U)
  BY <1>1, <1>4, NoMore
<1>. QED
  BY <1>1, <1>3, <1>5

-----------------------------------------------------------------------------
\* WebArchive: the captures that the hook has asked for.  Each is a failed job,
\* one whose request lost track of it, one whose outcome was overwritten, or the
\* one that the record names.

HookJobs == {j \in Submitted : ~captures[j].forced}
Excuses == orphans + strays + Cardinality(FailedJobs)

\* What one good job stands for; and the job that the record names.
Covers(j) == IF captures[j].state = "failed" THEN 0 ELSE 1
RecordCovers == IF AlreadyArchived THEN Covers(stamp.job) ELSE 0

\* A request that archives has its own job, and one that found a job failed
\* found what stands.
JobKnown(v) ==
  /\ visit[v].at \in {"none", "submit", "stub"} => ~visit[v].refresh
  /\ Archiving(v) /\ visit[v].at # "submit" => visit[v].job = v
  /\ visit[v].at = "final" /\ visit[v].result = "failed" =>
       captures[visit[v].job].state = "failed"

\* The jobs of the hook, by what the request that archives has come to, and by
\* what the record says while no request holds a job it does not name.
NeededBy(v) ==
  /\ visit[v].at = "submit" /\ v \notin ByHand => Cardinality(HookJobs) <= Excuses
  /\ Archiving(v) /\ visit[v].at # "submit" =>
       Cardinality(HookJobs) <= Excuses + Covers(v)
NeededByRecord ==
  (\A v \in Visits : visit[v].at # "stub") =>
     Cardinality(HookJobs) <= Excuses + RecordCovers

OneArchiving == \A v, w \in Visits : Archiving(v) /\ Archiving(w) => v = w

Needed ==
  /\ IsFiniteSet(Submitted)
  /\ \A v \in Visits : JobKnown(v)
  /\ ~overlapped => OneArchiving /\ NeededByRecord /\ \A v \in Visits : NeededBy(v)

-----------------------------------------------------------------------------
LEMMA NeededStart == WebArchiveInit => Needed
<1> SUFFICES ASSUME WebArchiveInit PROVE Needed
  OBVIOUS
<1>1. /\ \A v \in Visits : visit[v] = NoVisit
      /\ \A j \in Jobs : captures[j] = [state |-> "none", forced |-> FALSE]
      /\ orphans = 0 /\ strays = 0 /\ stamp = NoStamp
  BY DEF WebArchiveInit
<1>2. Submitted = {} /\ FailedJobs = {} /\ HookJobs = {}
  BY <1>1 DEF Submitted, FailedJobs, HookJobs
<1>3. IsFiniteSet(Submitted) /\ Cardinality(HookJobs) = 0 /\ Excuses = 0
  BY <1>1, <1>2, FS_EmptySet DEF Excuses
<1>4. RecordCovers = 0
  BY <1>1 DEF RecordCovers, AlreadyArchived
<1>5. \A v \in Visits : visit[v].at = "none" /\ ~visit[v].refresh
  BY <1>1 DEF NoVisit
<1>. QED
  BY <1>3, <1>4, <1>5
  DEF Needed, JobKnown, NeededBy, NeededByRecord, OneArchiving, Archiving

LEMMA NeededTypes ==
  ASSUME ArchiveInv, Needed
  PROVE  /\ IsFiniteSet(HookJobs) /\ Cardinality(HookJobs) \in Nat
         /\ IsFiniteSet(FailedJobs) /\ Cardinality(FailedJobs) \in Nat
         /\ orphans \in Nat /\ strays \in Nat /\ Excuses \in Nat
         /\ RecordCovers \in {0, 1} /\ \A j : Covers(j) \in {0, 1}
<1>1. HookJobs \subseteq Submitted /\ FailedJobs \subseteq Submitted
  BY DEF HookJobs, FailedJobs, Submitted
<1>2. /\ IsFiniteSet(HookJobs) /\ Cardinality(HookJobs) \in Nat
      /\ IsFiniteSet(FailedJobs) /\ Cardinality(FailedJobs) \in Nat
  BY <1>1, NoMore DEF Needed
<1>3. orphans \in Nat /\ strays \in Nat
  BY WebArchiveAssumption DEF ArchiveInv, WebArchiveTypeOK
<1>. QED
  BY <1>2, <1>3 DEF Excuses, RecordCovers, Covers

\* A step that leaves the archive alone makes no job and fails none.
LEMMA SameJobs ==
  ASSUME captures' = captures
  PROVE  /\ Submitted' = Submitted /\ HookJobs' = HookJobs
         /\ FailedJobs' = FailedJobs /\ \A j : Covers(j)' = Covers(j)
BY DEF Submitted, HookJobs, FailedJobs, Covers

LEMMA StillNeeds ==
  ASSUME ArchiveInv, Needed, ArchiveInv', captures' = captures, Excuses <= Excuses',
         NEW v \in Visits, visit'[v] = visit[v], NeededBy(v), Excuses' \in Nat
  PROVE  NeededBy(v)'
BY SameJobs, NeededTypes DEF NeededBy, Archiving

LEMMA OthersNeed ==
  ASSUME Needed, ArchiveInv, NEW v \in Visits,
         \A w \in Visits : w # v => visit'[w] = visit[w],
         \A j \in Jobs : captures[j].state = "failed" => captures'[j].state = "failed",
         IsFiniteSet(Submitted'), JobKnown(v)',
         ~overlapped' => ~overlapped,
         ~overlapped' /\ Archiving(v)' =>
           \A w \in Visits : w # v => ~Archiving(w),
         ~overlapped' => NeededByRecord',
         ~overlapped' => NeededBy(v)',
         ~overlapped' => \A w \in Visits : w # v /\ Archiving(w) => NeededBy(w)'
  PROVE  Needed'
<1>1. ASSUME NEW w \in Visits, w # v PROVE JobKnown(w)'
  <2>1. JobKnown(w) /\ visit'[w] = visit[w]
    BY <1>1 DEF Needed
  <2>2. visit[w].at = "final" => visit[w].job \in Jobs
    BY DEF ArchiveInv, VisitsKnow, VisitKnows
  <2>. QED
    BY <2>1, <2>2 DEF JobKnown, Archiving
<1>2. ASSUME ~overlapped' PROVE OneArchiving' /\ \A w \in Visits : NeededBy(w)'
  <2>1. OneArchiving
    BY <1>2 DEF Needed
  <2>2. \A w \in Visits : w # v => (Archiving(w)' <=> Archiving(w))
    BY DEF Archiving
  <2>3. OneArchiving'
    BY <1>2, <2>1, <2>2 DEF OneArchiving
  <2>4. ASSUME NEW w \in Visits, w # v, ~Archiving(w) PROVE NeededBy(w)'
    BY <1>1, <2>2, <2>4 DEF NeededBy, JobKnown, Archiving
  <2>. QED
    BY <1>2, <2>3, <2>4
<1>. QED
  BY <1>1, <1>2 DEF Needed

\* The step of a request that touches neither the archive nor what is excused.
LEMMA QuietStep ==
  ASSUME Needed, ArchiveInv, ArchiveInv', NEW v \in Visits,
         \A w \in Visits : w # v => visit'[w] = visit[w],
         captures' = captures, orphans' >= orphans, strays' >= strays, JobKnown(v)',
         ~overlapped' => ~overlapped,
         ~overlapped' /\ Archiving(v)' =>
           \A w \in Visits : w # v => ~Archiving(w),
         ~overlapped' => NeededByRecord',
         ~overlapped' => NeededBy(v)'
  PROVE  Needed'
<1>1. /\ IsFiniteSet(Submitted') /\ FailedJobs' = FailedJobs
  BY SameJobs DEF Needed
<1>2. Excuses' \in Nat /\ Excuses <= Excuses'
  <2>1. orphans' \in Nat /\ strays' \in Nat
    BY WebArchiveAssumption DEF ArchiveInv, WebArchiveTypeOK
  <2>. QED
    BY <1>1, <2>1, NeededTypes DEF Excuses
<1>3. ~overlapped' => \A w \in Visits : w # v /\ Archiving(w) => NeededBy(w)'
  BY <1>2, StillNeeds DEF Needed
<1>. QED
  BY <1>1, <1>3, OthersNeed

\* Where a request that ends was, and where it is.
LEMMA EndsQuietly ==
  ASSUME ArchiveInv, NEW v \in Visits, EndVisit(v)
  PROVE  /\ visit'[v].at = "end" /\ ~visit'[v].refresh
         /\ \A w \in Visits : w # v => visit'[w] = visit[w]
         /\ ~Archiving(v)' /\ JobKnown(v)' /\ NeededBy(v)'
<1>1. visit'[v] = [NoVisit EXCEPT !.at = "end"]
  BY DEF EndVisit, ArchiveInv, WebArchiveTypeOK
<1>2. /\ visit'[v].at = "end" /\ ~visit'[v].refresh
      /\ \A w \in Visits : w # v => visit'[w] = visit[w]
  BY <1>1, Ends DEF ArchiveInv, NoVisit
<1>. QED
  BY <1>2 DEF Archiving, JobKnown, NeededBy

\* The record says the same and no more of the jobs is excused than was, as
\* long as nobody leaves or enters the place between submission and record.
LEMMA RecordStillCovers ==
  ASSUME ArchiveInv, Needed, ArchiveInv', NeededByRecord, captures' = captures,
         stamp' = stamp, Excuses <= Excuses', Excuses' \in Nat,
         \A w \in Visits : visit[w].at = "stub" => visit'[w].at = "stub"
  PROVE  NeededByRecord'
<1>1. RecordCovers' = RecordCovers /\ HookJobs' = HookJobs
  BY SameJobs DEF RecordCovers, AlreadyArchived, Covers
<1>. QED
  BY <1>1, NeededTypes DEF NeededByRecord

LEMMA SameExcuses ==
  ASSUME ArchiveInv, Needed, captures' = captures, orphans' = orphans, strays' = strays
  PROVE  Excuses' = Excuses /\ Excuses \in Nat
BY SameJobs, NeededTypes DEF Excuses

-----------------------------------------------------------------------------
LEMMA BeginArchiveNeeds ==
  ASSUME ArchiveInv, Needed, ArchiveInv', NEW v \in Visits, BeginArchive(v)
  PROVE  Needed'
<1>0. /\ UNCHANGED <<captures, stamp, orphans, strays>> /\ visit[v].at = "none"
      /\ ~overlapped' => ~overlapped /\ \A w \in Visits : ~Archiving(w)
      /\ orphans \in Nat /\ strays \in Nat
  BY NeededTypes DEF BeginArchive, Arrives
<1>1. Excuses' = Excuses /\ Excuses \in Nat /\ HookJobs' = HookJobs
  BY <1>0, SameExcuses, SameJobs
<1>2. CASE EndVisit(v)
  <2>1. ~overlapped' => NeededByRecord'
    BY <1>0, <1>1, <1>2, EndsQuietly, RecordStillCovers DEF Needed
  <2>. QED
    BY <1>0, <1>2, <2>1, EndsQuietly, QuietStep
<1>3. CASE ~EndVisit(v)
  <2>1. /\ visit' = [visit EXCEPT ![v].at = "submit"]
        /\ v \in ByHand \/ ~AlreadyArchived
    BY <1>3 DEF BeginArchive
  <2>2. /\ visit'[v].at = "submit" /\ visit'[v].refresh = visit[v].refresh
        /\ \A w \in Visits : w # v => visit'[w] = visit[w]
    BY <2>1 DEF ArchiveInv, WebArchiveTypeOK, Visit
  <2>3. JobKnown(v)'
    BY <1>0, <2>2 DEF Needed, JobKnown
  <2>4. ~overlapped' => NeededByRecord'
    BY <1>0, <1>1, <2>2, RecordStillCovers DEF Needed
  <2>5. ASSUME ~overlapped' PROVE NeededBy(v)'
    <3>1. NeededByRecord /\ \A w \in Visits : visit[w].at # "stub"
      BY <1>0, <2>5 DEF Needed, Archiving, JobKnown
    <3>2. v \notin ByHand => Cardinality(HookJobs) <= Excuses
      BY <1>1, <2>1, <3>1, NeededTypes DEF NeededByRecord, RecordCovers
    <3>. QED
      BY <1>1, <2>2, <3>2 DEF NeededBy
  <2>. QED
    BY <1>0, <2>2, <2>3, <2>4, <2>5, QuietStep
<1>. QED
  BY <1>2, <1>3

\* What a submission adds to the jobs: its own, unless it is forced.
LEMMA NewJob ==
  ASSUME ArchiveInv, Needed, NEW v \in Visits, captures[v].state = "none",
         NewCapture(v)
  PROVE  /\ IsFiniteSet(Submitted') /\ FailedJobs' = FailedJobs
         /\ Cardinality(HookJobs') \in Nat
         /\ Cardinality(HookJobs') <= Cardinality(HookJobs) + 1
         /\ v \in ByHand => HookJobs' = HookJobs
         /\ captures'[v].state = "pending"
         /\ \A w \in Jobs : w # v => captures'[w] = captures[w]
<1> DEFINE row == [state |-> "pending", forced |-> v \in ByHand]
<1>1. row.state = "pending" /\ (row.forced <=> v \in ByHand) /\ v \in Jobs
  BY DEF Jobs
<1>2. captures' = [captures EXCEPT ![v] = row]
  BY DEF NewCapture
<1> HIDE DEF row
<1>3. captures'[v] = row /\ \A w \in Jobs : w # v => captures'[w] = captures[w]
  BY <1>1, <1>2 DEF ArchiveInv, WebArchiveTypeOK
<1>4. /\ Submitted' \subseteq Submitted \cup {v}
      /\ HookJobs' \subseteq HookJobs \cup {v}
      /\ FailedJobs' = FailedJobs
  BY <1>1, <1>3 DEF Submitted, HookJobs, FailedJobs
<1>5. v \in ByHand => HookJobs' = HookJobs
  BY <1>1, <1>3 DEF Submitted, HookJobs
<1>. QED
  BY <1>1, <1>3, <1>4, <1>5, NeededTypes, OneMore DEF Needed

LEMMA SubmitNeeds ==
  ASSUME ArchiveInv, Needed, ArchiveInv', NEW v \in Visits, Submit(v)
  PROVE  Needed'
<1>0. /\ UNCHANGED <<stamp, orphans, strays, overlapped>> /\ NewCapture(v)
      /\ visit[v].at = "submit" /\ captures[v].state = "none" /\ v \in Jobs
  BY DEF Submit, ArchiveInv, VisitsKnow, VisitKnows, Jobs
<1>1. /\ visit'[v].at = "stub" /\ visit'[v].job = v
      /\ visit'[v].refresh = visit[v].refresh
      /\ \A w \in Visits : w # v => visit'[w] = visit[w]
  BY DEF Submit, ArchiveInv, WebArchiveTypeOK, Visit
<1>2. /\ IsFiniteSet(Submitted') /\ FailedJobs' = FailedJobs
      /\ Cardinality(HookJobs') \in Nat
      /\ Cardinality(HookJobs') <= Cardinality(HookJobs) + 1
      /\ v \in ByHand => HookJobs' = HookJobs
      /\ captures'[v].state = "pending"
      /\ \A w \in Jobs : w # v => captures'[w] = captures[w]
  BY <1>0, NewJob
<1>3. Excuses' = Excuses /\ Covers(v)' = 1
  BY <1>0, <1>2 DEF Excuses, Covers
<1>4. Archiving(v)
  BY <1>0 DEF Needed, JobKnown, Archiving
<1>5. ASSUME ~overlapped PROVE \A w \in Visits : w # v => ~Archiving(w)
  BY <1>4, <1>5 DEF Needed, OneArchiving
<1>6. ASSUME ~overlapped PROVE NeededBy(v)'
  <2>1. v \notin ByHand => Cardinality(HookJobs) <= Excuses
    BY <1>0, <1>6 DEF Needed, NeededBy
  <2>2. v \in ByHand => Cardinality(HookJobs) <= Excuses + RecordCovers
    BY <1>0, <1>4, <1>5, <1>6 DEF Needed, NeededByRecord, Archiving, JobKnown
  <2>3. Cardinality(HookJobs') <= Excuses' + Covers(v)'
    BY <1>2, <1>3, <2>1, <2>2, NeededTypes
  <2>. QED
    BY <1>1, <2>3 DEF NeededBy
<1>7. NeededByRecord'
  BY <1>1 DEF NeededByRecord
<1>8. JobKnown(v)'
  BY <1>0, <1>1 DEF Needed, JobKnown, Archiving
<1>. QED
  BY <1>0, <1>1, <1>2, <1>5, <1>6, <1>7, <1>8, OthersNeed

LEMMA SubmitUnansweredNeeds ==
  ASSUME ArchiveInv, Needed, ArchiveInv', NEW v \in Visits, SubmitUnanswered(v)
  PROVE  Needed'
<1>0. /\ UNCHANGED <<strays, overlapped>> /\ orphans' = orphans + 1 /\ EndVisit(v)
      /\ visit[v].at = "submit" /\ captures[v].state = "none" /\ v \in Jobs
  BY DEF SubmitUnanswered, ArchiveInv, VisitsKnow, VisitKnows, Jobs
<1>1. /\ IsFiniteSet(Submitted') /\ FailedJobs' = FailedJobs
      /\ Cardinality(HookJobs') \in Nat
      /\ Cardinality(HookJobs') <= Cardinality(HookJobs) + 1
      /\ v \in ByHand => HookJobs' = HookJobs
      /\ \A w \in Jobs : w # v => captures'[w] = captures[w]
  <2>1. CASE NewCapture(v)
    BY <1>0, <2>1, NewJob
  <2>2. CASE UNCHANGED captures
    BY <2>2, SameJobs, NeededTypes DEF Needed
  <2>. QED
    BY <2>1, <2>2 DEF SubmitUnanswered
<1>2. Excuses' = Excuses + 1
  BY <1>0, <1>1, NeededTypes DEF Excuses
<1>4. Archiving(v)
  BY <1>0 DEF Needed, JobKnown, Archiving
<1>5. ASSUME ~overlapped PROVE \A w \in Visits : w # v => ~Archiving(w)
  BY <1>4, <1>5 DEF Needed, OneArchiving
<1>6. ASSUME ~overlapped PROVE NeededByRecord'
  <2>1. v \notin ByHand => Cardinality(HookJobs) <= Excuses
    BY <1>0, <1>6 DEF Needed, NeededBy
  <2>2. v \in ByHand => Cardinality(HookJobs) <= Excuses + RecordCovers
    BY <1>0, <1>4, <1>5, <1>6 DEF Needed, NeededByRecord, Archiving, JobKnown
  <2>3. Cardinality(HookJobs') <= Excuses'
    BY <1>1, <1>2, <2>1, <2>2, NeededTypes
  <2>4. RecordCovers' \in {0, 1}
    BY DEF RecordCovers, Covers
  <2>5. Excuses' \in Nat
    BY <1>2, NeededTypes
  <2>. QED
    BY <1>1, <2>3, <2>4, <2>5 DEF NeededByRecord
<1>7. \A j \in Jobs : captures[j].state = "failed" => captures'[j].state = "failed"
  BY <1>0, <1>1
<1>. QED
  BY <1>0, <1>1, <1>5, <1>6, <1>7, EndsQuietly, OthersNeed

LEMMA RecordPendingNeeds ==
  ASSUME ArchiveInv, Needed, ArchiveInv', NEW v \in Visits, RecordPending(v)
  PROVE  Needed'
<1>0. UNCHANGED <<captures, orphans, strays, overlapped>> /\ visit[v].at = "stub"
  BY DEF RecordPending
<1>1. Excuses' = Excuses /\ Excuses \in Nat /\ HookJobs' = HookJobs
      /\ Covers(v)' = Covers(v) /\ orphans \in Nat /\ strays \in Nat
  BY <1>0, SameExcuses, SameJobs, NeededTypes
<1>2. /\ visit'[v].at = "poll" /\ visit'[v].job = visit[v].job
      /\ visit'[v].refresh = visit[v].refresh
      /\ \A w \in Visits : w # v => visit'[w] = visit[w]
  BY DEF RecordPending, ArchiveInv, WebArchiveTypeOK, Visit
<1>3. Archiving(v) /\ visit[v].job = v
  BY <1>0 DEF Needed, JobKnown, Archiving
<1>4. stamp' = [status |-> "pending", job |-> v]
  BY <1>3 DEF RecordPending, Stub
<1>5. stamp' # NoStamp
  BY <1>3, <1>4, NoStampAssumption DEF Stamp, Outcomes, Jobs
<1>6. RecordCovers' = Covers(v)'
  BY <1>4, <1>5 DEF RecordCovers, AlreadyArchived, Covers
<1>7. ASSUME ~overlapped PROVE NeededBy(v)' /\ NeededByRecord'
  <2>1. Cardinality(HookJobs) <= Excuses + Covers(v)
    BY <1>0, <1>3, <1>7 DEF Needed, NeededBy
  <2>. QED
    BY <1>1, <1>2, <1>6, <2>1 DEF NeededBy, NeededByRecord
<1>8. ASSUME ~overlapped PROVE \A w \in Visits : w # v => ~Archiving(w)
  BY <1>3, <1>8 DEF Needed, OneArchiving
<1>9. JobKnown(v)'
  BY <1>2, <1>3 DEF JobKnown, Archiving
<1>. QED
  BY <1>0, <1>1, <1>2, <1>7, <1>8, <1>9, QuietStep

LEMMA BeginRefreshNeeds ==
  ASSUME ArchiveInv, Needed, ArchiveInv', NEW v \in Visits, BeginRefresh(v)
  PROVE  Needed'
<1>0. UNCHANGED <<captures, stamp, orphans, strays, overlapped>> /\ visit[v].at = "none"
  BY DEF BeginRefresh, Arrives
<1>1. Excuses' = Excuses /\ Excuses \in Nat /\ orphans \in Nat /\ strays \in Nat
  BY <1>0, SameExcuses, NeededTypes
<1>2. /\ visit'[v].at = "poll" /\ visit'[v].refresh
      /\ \A w \in Visits : w # v => visit'[w] = visit[w]
  BY DEF BeginRefresh, ArchiveInv, WebArchiveTypeOK, Visit
<1>3. JobKnown(v)' /\ NeededBy(v)' /\ ~Archiving(v)'
  BY <1>2 DEF JobKnown, NeededBy, Archiving
<1>4. ~overlapped => NeededByRecord'
  BY <1>0, <1>1, <1>2, RecordStillCovers DEF Needed
<1>. QED
  BY <1>0, <1>1, <1>2, <1>3, <1>4, QuietStep

LEMMA PollNeeds ==
  ASSUME ArchiveInv, Needed, ArchiveInv', NEW v \in Visits, Poll(v)
  PROVE  Needed'
<1>0. /\ UNCHANGED <<captures, stamp, orphans, strays, overlapped>>
      /\ visit[v].at = "poll"
  BY DEF Poll
<1>1. /\ Excuses' = Excuses /\ Excuses \in Nat /\ HookJobs' = HookJobs
      /\ Covers(v)' = Covers(v) /\ orphans \in Nat /\ strays \in Nat
  BY <1>0, SameExcuses, SameJobs, NeededTypes
<1>2. PICK o \in {captures[visit[v].job].state, "pending"} :
        visit' = [visit EXCEPT ![v].at = "final", ![v].result = o]
  BY DEF Poll
<1>3. /\ visit'[v].at = "final" /\ visit'[v].result = o
      /\ visit'[v].job = visit[v].job /\ visit'[v].refresh = visit[v].refresh
      /\ \A w \in Visits : w # v => visit'[w] = visit[w]
  BY <1>2 DEF ArchiveInv, WebArchiveTypeOK, Visit
<1>4. Archiving(v)' <=> Archiving(v)
  BY <1>0, <1>3 DEF Archiving
<1>5. JobKnown(v)'
  BY <1>0, <1>2, <1>3, <1>4 DEF Needed, JobKnown
<1>6. ASSUME ~overlapped PROVE NeededBy(v)' /\ NeededByRecord'
  <2>1. Archiving(v) => Cardinality(HookJobs) <= Excuses + Covers(v)
    BY <1>0, <1>6 DEF Needed, NeededBy
  <2>2. NeededByRecord'
    BY <1>0, <1>1, <1>3, <1>6, RecordStillCovers DEF Needed
  <2>. QED
    BY <1>1, <1>3, <1>4, <2>1, <2>2 DEF NeededBy
<1>7. ASSUME ~overlapped, Archiving(v)
      PROVE  \A w \in Visits : w # v => ~Archiving(w)
  BY <1>7 DEF Needed, OneArchiving
<1>. QED
  BY <1>0, <1>1, <1>3, <1>4, <1>5, <1>6, <1>7, QuietStep

\* Nobody but a request at its first record holds a job that is in no record.
LEMMA AtMostOneMore ==
  ASSUME ArchiveInv, Needed, ~overlapped
  PROVE  Cardinality(HookJobs) <= Excuses + 1
<1>1. CASE \A v \in Visits : visit[v].at # "stub"
  BY <1>1, NeededTypes DEF Needed, NeededByRecord
<1>2. ASSUME NEW v \in Visits, visit[v].at = "stub"
      PROVE  Cardinality(HookJobs) <= Excuses + 1
  <2>1. Archiving(v)
    BY <1>2 DEF Needed, JobKnown, Archiving
  <2>. QED
    BY <1>2, <2>1, NeededTypes DEF Needed, NeededBy
<1>. QED
  BY <1>1, <1>2

\* What is recorded of a job covers what the record covered before, unless a
\* refresh writes over the record of another job.
LEMMA OutcomeCovers ==
  ASSUME ArchiveInv, Needed, ArchiveInv', ~overlapped, NEW v \in Visits,
         visit[v].at = "final", captures' = captures, orphans' = orphans,
         stamp' = Final(v), strays' = strays + IF IsStray(v) THEN 1 ELSE 0,
         \A w \in Visits : w # v => visit'[w] = visit[w]
  PROVE  NeededByRecord'
<1>1. HookJobs' = HookJobs /\ FailedJobs' = FailedJobs /\ \A j : Covers(j)' = Covers(j)
  BY SameJobs
<1>2. /\ visit[v].job \in Jobs /\ visit[v].result \in Outcomes
      /\ visit[v].result = "failed" => Covers(visit[v].job) = 0
  BY DEF ArchiveInv, VisitsKnow, VisitKnows, WebArchiveTypeOK, Visit, Needed, JobKnown,
         Covers
<1>3. stamp' # NoStamp
  BY <1>2, NoStampAssumption DEF Final, Stamp
<1>4. RecordCovers' = Covers(visit[v].job)
  <2>1. stamp'.status = visit[v].result /\ stamp'.job = visit[v].job
    BY DEF Final
  <2>. QED
    BY <1>1, <1>2, <1>3, <2>1 DEF RecordCovers, AlreadyArchived, Outcomes
<1>5. CASE IsStray(v)
  <2>1. Excuses' = Excuses + 1
    BY <1>1, <1>5, NeededTypes DEF Excuses
  <2>. QED
    BY <1>1, <1>4, <2>1, AtMostOneMore, NeededTypes DEF NeededByRecord
<1>6. CASE ~IsStray(v) /\ visit[v].refresh
  <2>1. Excuses' = Excuses
    BY <1>1, <1>6, NeededTypes DEF Excuses
  <2>2. RecordCovers <= RecordCovers'
    BY <1>4, <1>6, NeededTypes DEF IsStray, RecordCovers
  <2>3. (\A w \in Visits : visit'[w].at # "stub") =>
          (\A w \in Visits : visit[w].at # "stub")
    OBVIOUS
  <2>4. RecordCovers' \in {0, 1}
    BY <1>4, NeededTypes
  <2>. QED
    BY <1>1, <2>1, <2>2, <2>3, <2>4, NeededTypes DEF Needed, NeededByRecord
<1>7. CASE ~visit[v].refresh
  <2>1. Excuses' = Excuses
    BY <1>1, <1>7, NeededTypes DEF Excuses, IsStray
  <2>2. Archiving(v) /\ visit[v].job = v
    BY <1>7 DEF Needed, JobKnown, Archiving
  <2>3. Cardinality(HookJobs) <= Excuses + Covers(v)
    BY <2>2 DEF Needed, NeededBy
  <2>. QED
    BY <1>1, <1>4, <2>1, <2>2, <2>3 DEF NeededByRecord
<1>. QED
  BY <1>5, <1>6, <1>7

LEMMA RecordOutcomeNeeds ==
  ASSUME ArchiveInv, Needed, ArchiveInv', NEW v \in Visits, RecordOutcome(v)
  PROVE  Needed'
<1>0. /\ UNCHANGED <<captures, orphans, overlapped>> /\ visit[v].at = "final"
      /\ EndVisit(v) /\ orphans \in Nat /\ strays \in Nat
  BY NeededTypes DEF RecordOutcome
<1>1. /\ \A w \in Visits : w # v => visit'[w] = visit[w]
      /\ visit'[v].at = "end" /\ ~Archiving(v)' /\ JobKnown(v)' /\ NeededBy(v)'
  BY <1>0, EndsQuietly
<1>2. CASE stamp' = Final(v) /\ strays' = strays + IF IsStray(v) THEN 1 ELSE 0
  <2>1. ~overlapped => NeededByRecord'
    BY <1>0, <1>1, <1>2, OutcomeCovers
  <2>2. strays' >= strays
    BY <1>0, <1>2
  <2>. QED
    BY <1>0, <1>1, <2>1, <2>2, QuietStep
<1>3. CASE UNCHANGED <<stamp, strays>>
  <2>1. Excuses' = Excuses /\ Excuses \in Nat
    BY <1>0, <1>3, SameExcuses
  <2>2. ~overlapped => NeededByRecord'
    BY <1>0, <1>1, <1>3, <2>1, RecordStillCovers DEF Needed
  <2>. QED
    BY <1>0, <1>1, <1>3, <2>2, QuietStep
<1>. QED
  BY <1>2, <1>3 DEF RecordOutcome

LEMMA KillVisitNeeds ==
  ASSUME ArchiveInv, Needed, ArchiveInv', NEW v \in Visits, KillVisit(v)
  PROVE  Needed'
<1>0. /\ UNCHANGED <<captures, stamp, strays, overlapped>> /\ EndVisit(v)
      /\ orphans' = orphans + IF visit[v].at = "stub" THEN 1 ELSE 0
      /\ orphans \in Nat /\ strays \in Nat
  BY NeededTypes DEF KillVisit
<1>1. /\ \A w \in Visits : w # v => visit'[w] = visit[w]
      /\ visit'[v].at = "end" /\ ~Archiving(v)' /\ JobKnown(v)' /\ NeededBy(v)'
  BY <1>0, EndsQuietly
<1>2. HookJobs' = HookJobs /\ FailedJobs' = FailedJobs /\ RecordCovers' = RecordCovers
  BY <1>0, SameJobs DEF RecordCovers, AlreadyArchived
<1>3. ASSUME ~overlapped PROVE NeededByRecord'
  <2>1. CASE visit[v].at = "stub"
    <3>1. Excuses' = Excuses + 1
      BY <1>0, <1>2, <2>1, NeededTypes DEF Excuses
    <3>. QED
      BY <1>2, <1>3, <3>1, AtMostOneMore, NeededTypes DEF NeededByRecord
  <2>2. CASE visit[v].at # "stub"
    <3>1. Excuses' = Excuses /\ Excuses \in Nat
      BY <1>0, <1>2, <2>2, NeededTypes DEF Excuses
    <3>. QED
      BY <1>0, <1>1, <1>3, <2>2, <3>1, RecordStillCovers DEF Needed
  <2>. QED
    BY <2>1, <2>2
<1>4. orphans' >= orphans
  BY <1>0
<1>. QED
  BY <1>0, <1>1, <1>3, <1>4, QuietStep

LEMMA EndCaptureNeeds ==
  ASSUME ArchiveInv, Needed, ArchiveInv', NEW j \in Jobs, EndCapture(j)
  PROVE  Needed'
<1>0. UNCHANGED <<stamp, visit, orphans, strays, overlapped>> /\ captures[j].state = "pending"
  BY DEF EndCapture
<1>1. PICK o \in {"success", "failed"} : captures' = [captures EXCEPT ![j].state = o]
  BY DEF EndCapture
<1>2. /\ captures'[j].state = o /\ captures'[j].forced = captures[j].forced
      /\ \A k \in Jobs : k # j => captures'[k] = captures[k]
  BY <1>1 DEF ArchiveInv, WebArchiveTypeOK, Capture
<1>3. Submitted' = Submitted /\ HookJobs' = HookJobs
  BY <1>0, <1>2 DEF Submitted, HookJobs
<1>4. \A v \in Visits : JobKnown(v)'
  <2>1. \A v \in Visits : visit[v].at = "final" => visit[v].job \in Jobs
    BY DEF ArchiveInv, VisitsKnow, VisitKnows
  <2>. QED
    BY <1>0, <1>2, <2>1 DEF Needed, JobKnown, Archiving
<1>5. AlreadyArchived' = AlreadyArchived /\ (AlreadyArchived => stamp.job \in Jobs)
  BY <1>0 DEF AlreadyArchived, ArchiveInv, StampKnows
<1>6. \A v : Archiving(v)' = Archiving(v)
  BY <1>0 DEF Archiving
<1>7. CASE o = "success"
  <2>1. FailedJobs' = FailedJobs /\ \A k \in Jobs : Covers(k)' = Covers(k)
    BY <1>0, <1>2, <1>7 DEF FailedJobs, Covers
  <2>2. Excuses' = Excuses /\ RecordCovers' = RecordCovers
    BY <1>0, <1>5, <2>1 DEF Excuses, RecordCovers
  <2>. QED
    BY <1>0, <1>3, <1>4, <1>6, <2>1, <2>2
    DEF Needed, OneArchiving, NeededByRecord, NeededBy, Jobs
<1>8. CASE o = "failed"
  <2>1. FailedJobs' = FailedJobs \cup {j} /\ j \notin FailedJobs
    BY <1>0, <1>2, <1>8 DEF FailedJobs
  <2>2. Cardinality(FailedJobs') = Cardinality(FailedJobs) + 1
    BY <2>1, FS_AddElement, NeededTypes
  <2>3. Excuses' = Excuses + 1
    BY <1>0, <2>2, NeededTypes DEF Excuses
  <2>4. RecordCovers' \in {0, 1} /\ \A k : Covers(k)' \in {0, 1}
    BY DEF RecordCovers, Covers
  <2>5. ASSUME ~overlapped PROVE Cardinality(HookJobs) <= Excuses + 1
    BY <2>5, AtMostOneMore
  <2>6. ASSUME ~overlapped PROVE NeededByRecord' /\ \A v \in Visits : NeededBy(v)'
    <3>1. NeededByRecord'
      BY <1>3, <2>3, <2>4, <2>5, <2>6, NeededTypes DEF NeededByRecord
    <3>2. ASSUME NEW v \in Visits PROVE NeededBy(v)'
      BY <1>3, <2>3, <2>4, <2>5, <2>6, NeededTypes DEF NeededBy
    <3>. QED
      BY <3>1, <3>2
  <2>. QED
    BY <1>0, <1>3, <1>4, <1>6, <2>6 DEF Needed, OneArchiving
<1>. QED
  BY <1>7, <1>8

-----------------------------------------------------------------------------
LEMMA NeededStep ==
  ArchiveInv /\ Needed /\ [WebArchiveNext]_archiveVars => Needed'
<1>1. ASSUME ArchiveInv, Needed, ArchiveInv', WebArchiveNext PROVE Needed'
  BY <1>1, BeginArchiveNeeds, SubmitNeeds, SubmitUnansweredNeeds,
     RecordPendingNeeds, BeginRefreshNeeds, PollNeeds, RecordOutcomeNeeds,
     KillVisitNeeds, EndCaptureNeeds
  DEF WebArchiveNext
<1>2. ASSUME Needed, UNCHANGED archiveVars PROVE Needed'
  BY <1>2
  DEF archiveVars, Needed, Submitted, JobKnown, OneArchiving, NeededBy,
      NeededByRecord, Archiving, HookJobs, Excuses, FailedJobs, RecordCovers,
      Covers, AlreadyArchived
<1>. QED
  BY <1>1, <1>2, ArchiveStep

\* The hook submits a page once, and once more for each job that failed, each
\* submission not recorded and each refresh that wrote over the record of a
\* newer job, however many requests to archive and refreshes follow each other
\* and wherever the process stops, unless two submissions overlap
\* (archive_collection).
THEOREM CapturesAreNeeded == WebArchiveSpec => []NoNeedlessCapture
<1>1. ArchiveInv /\ Needed => NoNeedlessCapture
  <2>1. SUFFICES ASSUME ArchiveInv, Needed, ~overlapped
                 PROVE  Cardinality(HookJobs) <= 1 + orphans + strays
                                                  + Cardinality(FailedJobs)
    BY DEF NoNeedlessCapture, HookJobs
  <2>2. Cardinality(HookJobs) <= Excuses + 1
    BY <2>1, AtMostOneMore
  <2>. QED
    BY <2>1, <2>2, NeededTypes DEF Excuses
<1>2. WebArchiveSpec => [](ArchiveInv /\ Needed)
  BY ArchiveInvariant, NeededStart, NeededStep, PTL DEF WebArchiveSpec
<1>. QED
  BY <1>1, <1>2, PTL

-----------------------------------------------------------------------------
(* Both together (MCRechecks): neither changes what the other reads, so what   *)
(* they do in turn is, for each, what it does alone.                           *)

\* Every behaviour of the two in turn is one of each.
THEOREM RechecksFollowEach == RechecksSpec => Spec /\ WebArchiveSpec
<1>1. RechecksInit => Init /\ WebArchiveInit
  BY DEF RechecksInit
<1>2. [RechecksNext]_recheckVars => [Next]_vars /\ [WebArchiveNext]_archiveVars
  <2>1. UNCHANGED recheckVars => UNCHANGED <<vars, archiveVars>>
    BY DEF recheckVars
  <2>2. RechecksNext => [Next]_vars /\ [WebArchiveNext]_archiveVars
    BY DEF RechecksNext, Only
  <2>. QED
    BY <2>1, <2>2
<1>. QED
  BY <1>1, <1>2, PTL DEF RechecksSpec, Spec, WebArchiveSpec
=============================================================================
