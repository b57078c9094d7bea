---------------------------- MODULE OutputsProofs -----------------------------
(***************************************************************************)
(* Theorems about Deposits, NlSearch and Accounts, and about the seven     *)
(* parts of MCOutputs together.                                            *)
(*                                                                         *)
(* Deposits: what an attempt records was true of its own draft at every    *)
(* place on the way (AttemptKnows), whatever was lost or repeated; and no  *)
(* other attempt touches that draft, nor the attempt itself after it has   *)
(* recorded it (ReceiptKnows).                                             *)
(*                                                                         *)
(* Accounts: two things make LiveSessionsAreCurrent inductive.  A login or *)
(* a refresh that has met no change knows the account as it is (Knows),    *)
(* and a change about to commit has listed every live session of its       *)
(* account but those that were crossed (Lists).  The second holds because  *)
(* the first lets no uncrossed session be opened while a change is under   *)
(* way.                                                                    *)
(***************************************************************************)
EXTENDS MCOutputs, ForgeSyncProofs, ReadersProofs, FiniteSetTheorems, TLAPS

\* The deposit i was made by attempt a and has all that a had loaded.
Whole(i) == deposits[i].has = deposits[i].given
Own(a, i) == i \in Ids /\ i[1] = a /\ deposits[i] # NoDeposit

AttemptKnows(a) ==
  /\ attempt[a].tries < MaxTries
  /\ attempt[a].at # "recording" => attempt[a].status = "draft"
  /\ attempt[a].at \in {"none", "load", "create"} => attempt[a].sent = {}
  /\ attempt[a].at \in {"upload", "publish", "recording"} =>
       Own(a, attempt[a].id)
  /\ attempt[a].at = "upload" =>
       /\ deposits[attempt[a].id].state = "draft"
       /\ deposits[attempt[a].id].has = attempt[a].sent
       /\ deposits[attempt[a].id].given = attempt[a].files
  /\ attempt[a].at \in {"publish", "recording"} => Whole(attempt[a].id)
  /\ attempt[a].at = "recording" =>
       deposits[attempt[a].id].state = attempt[a].status
AttemptsKnow == \A a \in Attempts : AttemptKnows(a)

\* A row that is not failed names the deposit of an attempt that is over.
ReceiptKnows ==
  receipt # NoDeposit /\ receipt.status \in States =>
    /\ receipt.id \in Ids /\ attempt[receipt.id[1]].at = "end"
    /\ deposits[receipt.id] # NoDeposit /\ Whole(receipt.id)
    /\ deposits[receipt.id].state = receipt.status

DepositsInv == DepositsTypeOK /\ AttemptsKnow /\ ReceiptKnows

-----------------------------------------------------------------------------
LEMMA NoAttemptType == NoAttempt \in Attempt
BY DepositsAssumption DEF NoAttempt, Attempt, AttemptPlaces, States

LEMMA DepositsStart == DepositsInit => DepositsInv
<1> SUFFICES ASSUME DepositsInit PROVE DepositsInv
  OBVIOUS
<1>1. deposits \in [Ids -> Deposit \cup {NoDeposit}]
  BY DEF DepositsInit
<1>2. attempt \in [Attempts -> Attempt]
  BY NoAttemptType DEF DepositsInit
<1>3. outages \in 0..MaxOutages /\ settings \in 0..MaxSettings
  BY DepositsAssumption DEF DepositsInit
<1>4. auto \in BOOLEAN /\ crossed \in BOOLEAN
  BY DEF DepositsInit
<1>5. DepositsTypeOK
  BY <1>1, <1>2, <1>3, <1>4 DEF DepositsInit, DepositsTypeOK
<1>6. AttemptsKnow
  BY DepositsAssumption DEF DepositsInit, AttemptsKnow, AttemptKnows, NoAttempt
<1>. QED
  BY <1>5, <1>6 DEF DepositsInv, ReceiptKnows, DepositsInit

\* The step of an attempt touches no draft but its own, and no other attempt.
StepOf(a) ==
  /\ \A b \in Attempts : b # a => attempt'[b] = attempt[b]
  /\ \A i \in Ids : i[1] # a => deposits'[i] = deposits[i]

LEMMA OthersKnow ==
  ASSUME DepositsInv, NEW a \in Attempts, StepOf(a), AttemptKnows(a)'
  PROVE  AttemptsKnow'
<1>1. ASSUME NEW b \in Attempts, b # a PROVE AttemptKnows(b)'
  BY <1>1 DEF DepositsInv, AttemptsKnow, AttemptKnows, StepOf, Own, Whole
<1>. QED
  BY <1>1 DEF AttemptsKnow

LEMMA ReceiptStays ==
  ASSUME DepositsInv, NEW a \in Attempts, StepOf(a), attempt[a].at # "end",
         receipt' = receipt
  PROVE  ReceiptKnows'
<1> SUFFICES ASSUME receipt # NoDeposit, receipt.status \in States
             PROVE  /\ receipt.id \in Ids /\ attempt'[receipt.id[1]].at = "end"
                    /\ deposits'[receipt.id] # NoDeposit /\ Whole(receipt.id)'
                    /\ deposits'[receipt.id].state = receipt.status
  BY DEF ReceiptKnows
<1>1. /\ receipt.id \in Ids /\ attempt[receipt.id[1]].at = "end"
      /\ deposits[receipt.id] # NoDeposit /\ Whole(receipt.id)
      /\ deposits[receipt.id].state = receipt.status
  BY DEF DepositsInv, ReceiptKnows
<1>2. receipt.id[1] \in Attempts /\ receipt.id[1] # a
  BY <1>1 DEF Ids
<1>3. attempt'[receipt.id[1]] = attempt[receipt.id[1]]
      /\ deposits'[receipt.id] = deposits[receipt.id]
  BY <1>1, <1>2 DEF StepOf
<1>. QED
  BY <1>1, <1>3 DEF Whole

\* An attempt that is dropped knows nothing.
LEMMA Dropped ==
  ASSUME DepositsTypeOK, NEW a \in Attempts, NEW at \in {"failing", "end"}, Drop(a, at)
  PROVE  /\ attempt' \in [Attempts -> Attempt]
         /\ attempt'[a].at = at /\ AttemptKnows(a)'
         /\ \A b \in Attempts : b # a => attempt'[b] = attempt[b]
<1> DEFINE row == [NoAttempt EXCEPT !.at = at]
<1>1. row \in Attempt /\ row.at = at /\ row.tries = 0 /\ row.status = "draft"
  <2>1. row \in Attempt
    BY NoAttemptType DEF Attempt, AttemptPlaces
  <2>. QED
    BY <2>1 DEF NoAttempt
<1>2. attempt' = [attempt EXCEPT ![a] = row]
  BY DEF Drop
<1> HIDE DEF row
<1>3. /\ attempt' \in [Attempts -> Attempt] /\ attempt'[a] = row
      /\ \A b \in Attempts : b # a => attempt'[b] = attempt[b]
  BY <1>1, <1>2 DEF DepositsTypeOK
<1>4. AttemptKnows(a)'
  BY <1>1, <1>3, DepositsAssumption DEF AttemptKnows
<1>. QED
  BY <1>1, <1>3, <1>4

\* An attempt that goes on as another row of its own.
LEMMA BecomesRow ==
  ASSUME DepositsTypeOK, NEW a \in Attempts, NEW row \in Attempt,
         attempt' = [attempt EXCEPT ![a] = row]
  PROVE  /\ attempt' \in [Attempts -> Attempt] /\ attempt'[a] = row
         /\ \A b \in Attempts : b # a => attempt'[b] = attempt[b]
BY DEF DepositsTypeOK

LEMMA OutagesCount ==
  ASSUME DepositsTypeOK, outages < MaxOutages, outages' = outages + 1
  PROVE  outages' \in 0..MaxOutages
BY DepositsAssumption DEF DepositsTypeOK

LEMMA OwnTyped ==
  ASSUME DepositsTypeOK, NEW a \in Attempts, NEW i, Own(a, i)
  PROVE  deposits[i] \in Deposit
BY DEF DepositsTypeOK, Own

\* The try after one that was not answered, or none.
LEMMA TriedAgain ==
  ASSUME DepositsTypeOK, NEW a \in Attempts, attempt[a].tries < MaxTries, TryAgain(a)
  PROVE  /\ outages' \in 0..MaxOutages /\ attempt' \in [Attempts -> Attempt]
         /\ \A b \in Attempts : b # a => attempt'[b] = attempt[b]
         /\ \/ AttemptKnows(a)' /\ attempt'[a].at = "failing"
            \/ /\ attempt'[a].tries < MaxTries
               /\ attempt'[a].at = attempt[a].at /\ attempt'[a].id = attempt[a].id
               /\ attempt'[a].status = attempt[a].status
               /\ attempt'[a].sent = attempt[a].sent /\ attempt'[a].files = attempt[a].files
<1>1. outages' \in 0..MaxOutages
  BY OutagesCount DEF TryAgain
<1>2. CASE Drop(a, "failing")
  BY <1>1, <1>2, Dropped
<1>3. CASE attempt[a].tries + 1 < MaxTries /\ attempt' = [attempt EXCEPT ![a].tries = @ + 1]
  <2> DEFINE row == [attempt[a] EXCEPT !.tries = @ + 1]
  <2>1. attempt[a] \in Attempt
    BY DEF DepositsTypeOK
  <2>2. attempt[a].tries + 1 \in 0..MaxTries
    BY <1>3, <2>1, DepositsAssumption DEF Attempt
  <2>3. /\ row \in Attempt /\ row.tries = attempt[a].tries + 1 /\ row.at = attempt[a].at
        /\ row.id = attempt[a].id /\ row.status = attempt[a].status
        /\ row.sent = attempt[a].sent /\ row.files = attempt[a].files
    BY <2>1, <2>2 DEF Attempt
  <2>4. attempt' = [attempt EXCEPT ![a] = row]
    BY <1>3
  <2> HIDE DEF row
  <2>5. /\ attempt' \in [Attempts -> Attempt] /\ attempt'[a] = row
        /\ \A b \in Attempts : b # a => attempt'[b] = attempt[b]
    BY <2>3, <2>4, BecomesRow
  <2>. QED
    BY <1>1, <1>3, <2>3, <2>5
<1>. QED
  BY <1>2, <1>3 DEF TryAgain

-----------------------------------------------------------------------------
(* One lemma for each action. *)

LEMMA BeginDepositKeeps ==
  ASSUME DepositsInv, NEW a \in Attempts, BeginDeposit(a) PROVE DepositsInv'
<1>0. /\ DepositsTypeOK /\ attempt[a] \in Attempt /\ AttemptKnows(a)
      /\ attempt[a].at = "none"
      /\ UNCHANGED <<auto, deposits, receipt, outages, settings>>
  BY DEF DepositsInv, DepositsTypeOK, AttemptsKnow, BeginDeposit
<1>1. /\ attempt' \in [Attempts -> Attempt] /\ AttemptKnows(a)'
      /\ \A b \in Attempts : b # a => attempt'[b] = attempt[b]
  <2>1. CASE Drop(a, "end")
    BY <1>0, <2>1, Dropped
  <2>2. ASSUME NEW force \in BOOLEAN,
               attempt' = [attempt EXCEPT ![a].at = "load", ![a].forced = force,
                                          ![a].publish = auto]
        PROVE  /\ attempt' \in [Attempts -> Attempt] /\ AttemptKnows(a)'
               /\ \A b \in Attempts : b # a => attempt'[b] = attempt[b]
    <3> DEFINE row == [attempt[a] EXCEPT !.at = "load", !.forced = force, !.publish = auto]
    <3>1. /\ row \in Attempt /\ row.at = "load" /\ row.tries = attempt[a].tries
          /\ row.status = attempt[a].status /\ row.sent = attempt[a].sent
      BY <1>0 DEF Attempt, AttemptPlaces, DepositsTypeOK
    <3>2. attempt' = [attempt EXCEPT ![a] = row]
      BY <2>2
    <3> HIDE DEF row
    <3>3. /\ attempt' \in [Attempts -> Attempt] /\ attempt'[a] = row
          /\ \A b \in Attempts : b # a => attempt'[b] = attempt[b]
      BY <1>0, <3>1, <3>2, BecomesRow
    <3>. QED
      BY <1>0, <3>1, <3>3 DEF AttemptKnows
  <2>. QED
    BY <2>1, <2>2 DEF BeginDeposit
<1>2. crossed' \in BOOLEAN
  BY <1>0 DEF BeginDeposit, DepositsTypeOK
<1>3. DepositsTypeOK'
  BY <1>0, <1>1, <1>2 DEF DepositsTypeOK
<1>4. StepOf(a)
  BY <1>0, <1>1 DEF StepOf
<1>. QED
  BY <1>0, <1>1, <1>3, <1>4, OthersKnow, ReceiptStays DEF DepositsInv

LEMMA LoadFilesKeeps ==
  ASSUME DepositsInv, NEW a \in Attempts, LoadFiles(a) PROVE DepositsInv'
<1>0. /\ DepositsTypeOK /\ attempt[a] \in Attempt /\ AttemptKnows(a)
      /\ attempt[a].at = "load"
      /\ UNCHANGED <<auto, deposits, receipt, outages, settings, crossed>>
  BY DEF DepositsInv, DepositsTypeOK, AttemptsKnow, LoadFiles
<1>1. PICK read \in SUBSET Papers :
        attempt' = [attempt EXCEPT ![a].files = read, ![a].at = "create"]
  BY DEF LoadFiles
<1> DEFINE row == [attempt[a] EXCEPT !.files = read, !.at = "create"]
<1>2. /\ row \in Attempt /\ row.at = "create" /\ row.tries = attempt[a].tries
      /\ row.status = attempt[a].status /\ row.sent = attempt[a].sent
  BY <1>0 DEF Attempt, AttemptPlaces
<1>3. attempt' = [attempt EXCEPT ![a] = row]
  BY <1>1
<1> HIDE DEF row
<1>4. /\ attempt' \in [Attempts -> Attempt] /\ attempt'[a] = row
      /\ \A b \in Attempts : b # a => attempt'[b] = attempt[b]
  BY <1>0, <1>2, <1>3, BecomesRow
<1>5. AttemptKnows(a)' /\ StepOf(a)
  BY <1>0, <1>2, <1>4 DEF AttemptKnows, StepOf
<1>6. DepositsTypeOK'
  BY <1>0, <1>4 DEF DepositsTypeOK
<1>. QED
  BY <1>0, <1>5, <1>6, OthersKnow, ReceiptStays DEF DepositsInv

\* A new draft touches no deposit but one of its attempt.
LEMMA DraftMade ==
  ASSUME DepositsTypeOK, NEW a \in Attempts, AttemptKnows(a), NewDraft(a)
  PROVE  /\ deposits' \in [Ids -> Deposit \cup {NoDeposit}]
         /\ \A i \in Ids : i[1] # a => deposits'[i] = deposits[i]
         /\ Draft(a) \in Ids /\ Draft(a)[1] = a
         /\ deposits'[Draft(a)] \in Deposit
         /\ deposits'[Draft(a)].state = "draft" /\ deposits'[Draft(a)].has = {}
         /\ deposits'[Draft(a)].given = attempt[a].files
<1> DEFINE draft == [state |-> "draft", has |-> {}, given |-> attempt[a].files,
                     forced |-> attempt[a].forced]
<1>1. draft \in Deposit
  BY DEF DepositsTypeOK, Attempt, Deposit, States
<1>2. /\ Draft(a) \in Ids /\ Draft(a)[1] = a
  <2>1. attempt[a].tries + 1 \in 1..MaxTries
    BY DepositsAssumption DEF DepositsTypeOK, Attempt, AttemptKnows
  <2>. QED
    BY <2>1 DEF Draft, Ids
<1>3. draft.state = "draft" /\ draft.has = {} /\ draft.given = attempt[a].files
  OBVIOUS
<1>4. deposits' = [deposits EXCEPT ![Draft(a)] = draft]
  BY DEF NewDraft
<1> HIDE DEF draft
<1>5. /\ deposits' \in [Ids -> Deposit \cup {NoDeposit}]
      /\ deposits'[Draft(a)] = draft
      /\ \A i \in Ids : i[1] # a => deposits'[i] = deposits[i]
  BY <1>1, <1>2, <1>4 DEF DepositsTypeOK
<1>. QED
  BY <1>1, <1>2, <1>3, <1>5

LEMMA CreateDraftKeeps ==
  ASSUME DepositsInv, NEW a \in Attempts, CreateDraft(a) PROVE DepositsInv'
<1>0. /\ DepositsTypeOK /\ attempt[a] \in Attempt /\ AttemptKnows(a)
      /\ attempt[a].at = "create"
      /\ UNCHANGED <<auto, receipt, outages, settings, crossed>>
  BY DEF DepositsInv, DepositsTypeOK, AttemptsKnow, CreateDraft
<1>i. PICK i \in Ids : i = Draft(a)
  BY <1>0, DraftMade DEF CreateDraft
<1>1. /\ deposits' \in [Ids -> Deposit \cup {NoDeposit}]
      /\ \A j \in Ids : j[1] # a => deposits'[j] = deposits[j]
      /\ i[1] = a /\ deposits'[i] \in Deposit
      /\ deposits'[i].state = "draft" /\ deposits'[i].has = {}
      /\ deposits'[i].given = attempt[a].files
  BY <1>0, <1>i, DraftMade DEF CreateDraft
<1>2. attempt' = [attempt EXCEPT ![a].at = "upload", ![a].id = i, ![a].tries = 0]
  BY <1>i DEF CreateDraft
<1> DEFINE row == [attempt[a] EXCEPT !.at = "upload", !.id = i, !.tries = 0]
<1>3. /\ row \in Attempt /\ row.at = "upload" /\ row.tries = 0 /\ row.id = i
      /\ row.status = attempt[a].status /\ row.sent = attempt[a].sent
      /\ row.files = attempt[a].files
  <2>1. i \in Ids \cup {NoDeposit} /\ 0 \in 0..MaxTries
    BY <1>1, DepositsAssumption
  <2>2. row \in Attempt
    BY <1>0, <2>1 DEF Attempt, AttemptPlaces
  <2>. QED
    BY <1>0, <2>2 DEF Attempt
<1>4. attempt' = [attempt EXCEPT ![a] = row]
  BY <1>2
<1> HIDE DEF row
<1>5. /\ attempt' \in [Attempts -> Attempt] /\ attempt'[a] = row
      /\ \A b \in Attempts : b # a => attempt'[b] = attempt[b]
  BY <1>0, <1>3, <1>4, BecomesRow
<1>6. AttemptKnows(a)' /\ StepOf(a)
  <2>1. Own(a, i)'
    BY <1>1, NoDepositAssumption DEF Own
  <2>2. /\ attempt'[a].tries < MaxTries /\ attempt'[a].status = "draft"
        /\ attempt'[a].at = "upload" /\ attempt'[a].id = i /\ attempt'[a].sent = {}
        /\ attempt'[a].files = attempt[a].files
    BY <1>0, <1>3, <1>5, DepositsAssumption DEF AttemptKnows
  <2>3. AttemptKnows(a)'
    BY <1>1, <2>1, <2>2 DEF AttemptKnows, Own
  <2>. QED
    BY <1>1, <1>5, <2>3 DEF StepOf
<1>7. DepositsTypeOK'
  BY <1>0, <1>1, <1>5 DEF DepositsTypeOK
<1>. QED
  BY <1>0, <1>6, <1>7, OthersKnow, ReceiptStays DEF DepositsInv

LEMMA CreateUnansweredKeeps ==
  ASSUME DepositsInv, NEW a \in Attempts, CreateUnanswered(a) PROVE DepositsInv'
<1>0. /\ DepositsTypeOK /\ AttemptKnows(a) /\ attempt[a].at = "create"
      /\ UNCHANGED <<auto, receipt, settings, crossed>>
  BY DEF DepositsInv, AttemptsKnow, CreateUnanswered
<1>1. /\ deposits' \in [Ids -> Deposit \cup {NoDeposit}]
      /\ \A j \in Ids : j[1] # a => deposits'[j] = deposits[j]
  <2>1. CASE NewDraft(a)
    BY <1>0, <2>1, DraftMade
  <2>2. CASE UNCHANGED deposits
    BY <1>0, <2>2 DEF DepositsTypeOK
  <2>. QED
    BY <2>1, <2>2 DEF CreateUnanswered
<1>2. /\ outages' \in 0..MaxOutages /\ attempt' \in [Attempts -> Attempt]
      /\ \A b \in Attempts : b # a => attempt'[b] = attempt[b]
      /\ AttemptKnows(a)'
  BY <1>0, TriedAgain DEF CreateUnanswered, AttemptKnows
<1>3. DepositsTypeOK'
  BY <1>0, <1>1, <1>2 DEF DepositsTypeOK
<1>4. StepOf(a)
  BY <1>1, <1>2 DEF StepOf
<1>. QED
  BY <1>0, <1>2, <1>3, <1>4, OthersKnow, ReceiptStays DEF DepositsInv

LEMMA UploadFileKeeps ==
  ASSUME DepositsInv, NEW a \in Attempts, UploadFile(a) PROVE DepositsInv'
<1>0. /\ DepositsTypeOK /\ attempt[a] \in Attempt /\ AttemptKnows(a)
      /\ attempt[a].at = "upload"
      /\ UNCHANGED <<auto, receipt, outages, settings, crossed>>
  BY DEF DepositsInv, DepositsTypeOK, AttemptsKnow, UploadFile
<1>1. PICK f \in attempt[a].files \ attempt[a].sent :
        /\ deposits' = [deposits EXCEPT ![attempt[a].id].has = @ \cup {f}]
        /\ attempt' = [attempt EXCEPT ![a].sent = @ \cup {f}]
  BY DEF UploadFile
<1>i. PICK i \in Ids : i = attempt[a].id
  BY <1>0 DEF AttemptKnows, Own
<1> DEFINE d == [deposits[i] EXCEPT !.has = @ \cup {f}]
           row == [attempt[a] EXCEPT !.sent = @ \cup {f}]
<1>2. Own(a, i) /\ deposits[i] \in Deposit /\ f \in Papers
  BY <1>0, <1>1, <1>i, OwnTyped DEF AttemptKnows, Attempt
<1>3. /\ d \in Deposit /\ d.has = deposits[i].has \cup {f}
      /\ d.given = deposits[i].given /\ d.state = deposits[i].state
  BY <1>2 DEF Deposit
<1>4. /\ row \in Attempt /\ row.sent = attempt[a].sent \cup {f} /\ row.id = i
      /\ row.at = "upload" /\ row.tries = attempt[a].tries
      /\ row.status = attempt[a].status /\ row.files = attempt[a].files
  BY <1>0, <1>2, <1>i DEF Attempt
<1>5. deposits' = [deposits EXCEPT ![i] = d] /\ attempt' = [attempt EXCEPT ![a] = row]
  BY <1>1, <1>i
<1>6. /\ deposits[i].state = "draft" /\ deposits[i].has = attempt[a].sent
      /\ deposits[i].given = attempt[a].files
  BY <1>0, <1>i DEF AttemptKnows
<1> HIDE DEF d, row
<1>7. /\ attempt' \in [Attempts -> Attempt] /\ attempt'[a] = row
      /\ \A b \in Attempts : b # a => attempt'[b] = attempt[b]
  BY <1>0, <1>4, <1>5, BecomesRow
<1>8. /\ deposits' \in [Ids -> Deposit \cup {NoDeposit}] /\ deposits'[i] = d
      /\ \A j \in Ids : j[1] # a => deposits'[j] = deposits[j]
  BY <1>0, <1>2, <1>3, <1>5 DEF DepositsTypeOK, Own
<1>9. AttemptKnows(a)' /\ StepOf(a)
  <2>1. Own(a, i)'
    BY <1>2, <1>3, <1>8, NoDepositAssumption DEF Own
  <2>2. AttemptKnows(a)'
    BY <1>0, <1>3, <1>4, <1>6, <1>7, <1>8, <2>1 DEF AttemptKnows
  <2>. QED
    BY <1>7, <1>8, <2>2 DEF StepOf
<1>10. DepositsTypeOK'
  BY <1>0, <1>7, <1>8 DEF DepositsTypeOK
<1>. QED
  BY <1>0, <1>9, <1>10, OthersKnow, ReceiptStays DEF DepositsInv

\* An attempt that is dropped leaves the deposits as they are.
LEMMA DropKeeps ==
  ASSUME DepositsInv, NEW a \in Attempts, NEW at \in {"failing", "end"}, Drop(a, at),
         attempt[a].at # "end", outages' \in 0..MaxOutages,
         UNCHANGED <<auto, deposits, receipt, settings, crossed>>
  PROVE  DepositsInv'
<1>1. DepositsTypeOK
  BY DEF DepositsInv
<1>2. /\ attempt' \in [Attempts -> Attempt] /\ AttemptKnows(a)'
      /\ \A b \in Attempts : b # a => attempt'[b] = attempt[b]
  BY <1>1, Dropped
<1>3. DepositsTypeOK'
  BY <1>1, <1>2 DEF DepositsTypeOK
<1>4. StepOf(a)
  BY <1>2 DEF StepOf
<1>. QED
  BY <1>2, <1>3, <1>4, OthersKnow, ReceiptStays DEF DepositsInv

LEMMA RequestRefusedKeeps ==
  ASSUME DepositsInv, NEW a \in Attempts, RequestRefused(a) PROVE DepositsInv'
<1>1. outages' \in 0..MaxOutages
  BY OutagesCount DEF DepositsInv, RequestRefused
<1>. QED
  BY <1>1, DropKeeps DEF RequestRefused

LEMMA KillAttemptKeeps ==
  ASSUME DepositsInv, NEW a \in Attempts, KillAttempt(a) PROVE DepositsInv'
<1>1. outages' \in 0..MaxOutages
  BY OutagesCount DEF DepositsInv, KillAttempt
<1>. QED
  BY <1>1, DropKeeps DEF KillAttempt

LEMMA EndUploadKeeps ==
  ASSUME DepositsInv, NEW a \in Attempts, EndUpload(a) PROVE DepositsInv'
<1>0. /\ DepositsTypeOK /\ attempt[a] \in Attempt /\ AttemptKnows(a)
      /\ attempt[a].at = "upload" /\ attempt[a].sent = attempt[a].files
      /\ UNCHANGED <<auto, deposits, receipt, outages, settings, crossed>>
  BY DEF DepositsInv, DepositsTypeOK, AttemptsKnow, EndUpload, Uploaded
<1>1. PICK at \in {"publish", "recording"} :
        attempt' = [attempt EXCEPT ![a].at = at, ![a].tries = 0]
  BY DEF EndUpload, Step
<1> DEFINE row == [attempt[a] EXCEPT !.at = at, !.tries = 0]
<1>2. /\ row \in Attempt /\ row.at = at /\ row.tries = 0 /\ row.id = attempt[a].id
      /\ row.status = attempt[a].status
  <2>1. row \in Attempt
    <3>1. 0 \in 0..MaxTries
      BY DepositsAssumption
    <3>. QED
      BY <1>0, <3>1 DEF Attempt, AttemptPlaces
  <2>. QED
    BY <1>0, <2>1 DEF Attempt
<1>3. attempt' = [attempt EXCEPT ![a] = row]
  BY <1>1
<1> HIDE DEF row
<1>4. /\ attempt' \in [Attempts -> Attempt] /\ attempt'[a] = row
      /\ \A b \in Attempts : b # a => attempt'[b] = attempt[b]
  BY <1>0, <1>2, <1>3, BecomesRow
<1>5. AttemptKnows(a)' /\ StepOf(a)
  <2>1. attempt[a].status = "draft" /\ 0 < MaxTries
    BY <1>0, DepositsAssumption DEF AttemptKnows
  <2>2. AttemptKnows(a)'
    BY <1>0, <1>2, <1>4, <2>1 DEF AttemptKnows, Own, Whole
  <2>. QED
    BY <1>0, <1>4, <2>2 DEF StepOf
<1>6. DepositsTypeOK'
  BY <1>0, <1>4 DEF DepositsTypeOK
<1>. QED
  BY <1>0, <1>5, <1>6, OthersKnow, ReceiptStays DEF DepositsInv

\* Publishing a draft keeps what it has.
LEMMA Publishes ==
  ASSUME DepositsTypeOK, NEW a \in Attempts, NEW i \in Ids, Own(a, i), Whole(i),
         deposits' = [deposits EXCEPT ![i].state = "published"]
  PROVE  /\ deposits' \in [Ids -> Deposit \cup {NoDeposit}]
         /\ Own(a, i)' /\ Whole(i)' /\ deposits'[i].state = "published"
         /\ \A j \in Ids : j[1] # a => deposits'[j] = deposits[j]
<1> DEFINE d == [deposits[i] EXCEPT !.state = "published"]
<1>1. d \in Deposit /\ d.state = "published" /\ d.has = d.given
  BY OwnTyped DEF Deposit, States, Whole
<1>2. deposits' = [deposits EXCEPT ![i] = d]
  OBVIOUS
<1> HIDE DEF d
<1>3. /\ deposits' \in [Ids -> Deposit \cup {NoDeposit}] /\ deposits'[i] = d
      /\ \A j \in Ids : j[1] # a => deposits'[j] = deposits[j]
  BY <1>1, <1>2 DEF DepositsTypeOK, Own
<1>. QED
  BY <1>1, <1>3, NoDepositAssumption DEF Own, Whole

LEMMA PublishDraftKeeps ==
  ASSUME DepositsInv, NEW a \in Attempts, PublishDraft(a) PROVE DepositsInv'
<1>0. /\ DepositsTypeOK /\ attempt[a] \in Attempt /\ AttemptKnows(a)
      /\ attempt[a].at = "publish"
      /\ UNCHANGED <<auto, receipt, outages, settings, crossed>>
  BY DEF DepositsInv, DepositsTypeOK, AttemptsKnow, PublishDraft
<1>1. CASE Drop(a, "failing") /\ UNCHANGED deposits
  BY <1>0, <1>1, DropKeeps DEF DepositsTypeOK
<1>2. CASE /\ deposits' = [deposits EXCEPT ![attempt[a].id].state = "published"]
           /\ attempt' = [attempt EXCEPT ![a].at = "recording",
                                         ![a].status = "published"]
  <2>1. PICK i \in Ids : i = attempt[a].id
    BY <1>0 DEF AttemptKnows, Own
  <2>2. /\ deposits' \in [Ids -> Deposit \cup {NoDeposit}]
        /\ Own(a, i)' /\ Whole(i)' /\ deposits'[i].state = "published"
        /\ \A j \in Ids : j[1] # a => deposits'[j] = deposits[j]
    BY <1>0, <1>2, <2>1, Publishes DEF AttemptKnows
  <2> DEFINE row == [attempt[a] EXCEPT !.at = "recording", !.status = "published"]
  <2>3. /\ row \in Attempt /\ row.at = "recording" /\ row.status = "published"
        /\ row.id = i /\ row.tries = attempt[a].tries
    BY <1>0, <2>1 DEF Attempt, AttemptPlaces, States
  <2>4. attempt' = [attempt EXCEPT ![a] = row]
    BY <1>2
  <2> HIDE DEF row
  <2>5. /\ attempt' \in [Attempts -> Attempt] /\ attempt'[a] = row
        /\ \A b \in Attempts : b # a => attempt'[b] = attempt[b]
    BY <1>0, <2>3, <2>4, BecomesRow
  <2>6. AttemptKnows(a)' /\ StepOf(a)
    BY <1>0, <2>2, <2>3, <2>5 DEF AttemptKnows, StepOf, Own, Whole
  <2>7. DepositsTypeOK'
    BY <1>0, <2>2, <2>5 DEF DepositsTypeOK
  <2>. QED
    BY <1>0, <2>6, <2>7, OthersKnow, ReceiptStays DEF DepositsInv
<1>. QED
  BY <1>1, <1>2 DEF PublishDraft

LEMMA PublishUnansweredKeeps ==
  ASSUME DepositsInv, NEW a \in Attempts, PublishUnanswered(a) PROVE DepositsInv'
<1>0. /\ DepositsTypeOK /\ AttemptKnows(a) /\ attempt[a].at = "publish"
      /\ UNCHANGED <<auto, receipt, settings, crossed>>
  BY DEF DepositsInv, AttemptsKnow, PublishUnanswered
<1>1. PICK i \in Ids : i = attempt[a].id
  BY <1>0 DEF AttemptKnows, Own
<1>2. Own(a, i) /\ Whole(i)
  BY <1>0, <1>1 DEF AttemptKnows
<1>3. /\ deposits' \in [Ids -> Deposit \cup {NoDeposit}] /\ Own(a, i)' /\ Whole(i)'
      /\ \A j \in Ids : j[1] # a => deposits'[j] = deposits[j]
  <2>1. CASE deposits' = [deposits EXCEPT ![attempt[a].id].state = "published"]
    BY <1>0, <1>1, <1>2, <2>1, Publishes
  <2>2. CASE UNCHANGED deposits
    BY <1>0, <1>2, <2>2 DEF DepositsTypeOK, Own, Whole
  <2>. QED
    BY <2>1, <2>2 DEF PublishUnanswered, States
<1>4. /\ outages' \in 0..MaxOutages /\ attempt' \in [Attempts -> Attempt]
      /\ \A b \in Attempts : b # a => attempt'[b] = attempt[b]
      /\ \/ AttemptKnows(a)' /\ attempt'[a].at = "failing"
         \/ /\ attempt'[a].tries < MaxTries /\ attempt'[a].at = "publish"
            /\ attempt'[a].id = i /\ attempt'[a].status = attempt[a].status
  BY <1>0, <1>1, TriedAgain DEF PublishUnanswered, AttemptKnows
<1>5. AttemptKnows(a)' /\ StepOf(a)
  BY <1>0, <1>3, <1>4 DEF AttemptKnows, StepOf, Own, Whole
<1>6. DepositsTypeOK'
  BY <1>0, <1>3, <1>4 DEF DepositsTypeOK
<1>. QED
  BY <1>0, <1>5, <1>6, OthersKnow, ReceiptStays DEF DepositsInv

\* What is recorded is what the attempt knew, and it is over.
LEMMA RecordDepositKeeps ==
  ASSUME DepositsInv, NEW a \in Attempts, RecordDeposit(a) PROVE DepositsInv'
<1>0. /\ DepositsTypeOK /\ attempt[a] \in Attempt /\ AttemptKnows(a)
      /\ attempt[a].at = "recording"
      /\ UNCHANGED <<auto, deposits, outages, settings, crossed>>
  BY DEF DepositsInv, DepositsTypeOK, AttemptsKnow, RecordDeposit
<1>1. /\ attempt' \in [Attempts -> Attempt] /\ attempt'[a].at = "end"
      /\ AttemptKnows(a)' /\ \A b \in Attempts : b # a => attempt'[b] = attempt[b]
  BY <1>0, Dropped DEF RecordDeposit
<1>2. /\ Own(a, attempt[a].id) /\ Whole(attempt[a].id)
      /\ deposits[attempt[a].id].state = attempt[a].status
  BY <1>0 DEF AttemptKnows
<1>3. /\ receipt' \in Receipt /\ receipt'.id = attempt[a].id
      /\ receipt'.status = attempt[a].status
  BY <1>0 DEF RecordDeposit, Receipt, Attempt, States
<1>4. DepositsTypeOK'
  BY <1>0, <1>1, <1>3 DEF DepositsTypeOK
<1>5. ReceiptKnows'
  BY <1>0, <1>1, <1>2, <1>3 DEF ReceiptKnows, Own, Whole
<1>6. StepOf(a)
  BY <1>0, <1>1 DEF StepOf
<1>. QED
  BY <1>1, <1>4, <1>5, <1>6, OthersKnow DEF DepositsInv

LEMMA RecordFailedDepositKeeps ==
  ASSUME DepositsInv, NEW a \in Attempts, RecordFailedDeposit(a) PROVE DepositsInv'
<1>0. DepositsTypeOK /\ UNCHANGED <<auto, deposits, outages, settings, crossed>>
  BY DEF DepositsInv, RecordFailedDeposit
<1>1. /\ attempt' \in [Attempts -> Attempt] /\ AttemptKnows(a)'
      /\ \A b \in Attempts : b # a => attempt'[b] = attempt[b]
  BY <1>0, Dropped DEF RecordFailedDeposit
<1>2. receipt' \in Receipt /\ receipt'.status = "failed"
  BY DEF RecordFailedDeposit, Receipt
<1>3. DepositsTypeOK'
  BY <1>0, <1>1, <1>2 DEF DepositsTypeOK
<1>4. ReceiptKnows'
  BY <1>2 DEF ReceiptKnows, States
<1>5. StepOf(a)
  BY <1>0, <1>1 DEF StepOf
<1>. QED
  BY <1>1, <1>3, <1>4, <1>5, OthersKnow DEF DepositsInv

LEMMA SetAutoPublishKeeps ==
  ASSUME DepositsInv, SetAutoPublish PROVE DepositsInv'
<1>1. UNCHANGED <<deposits, receipt, attempt, outages, crossed>>
  BY DEF SetAutoPublish
<1>2. auto' \in BOOLEAN
  BY DEF SetAutoPublish
<1>3. settings' \in 0..MaxSettings
  BY DepositsAssumption DEF SetAutoPublish, DepositsInv, DepositsTypeOK
<1>4. DepositsTypeOK'
  BY <1>1, <1>2, <1>3 DEF DepositsInv, DepositsTypeOK
<1>5. AttemptsKnow' /\ ReceiptKnows'
  BY <1>1 DEF DepositsInv, AttemptsKnow, AttemptKnows, ReceiptKnows, Own, Whole
<1>. QED
  BY <1>4, <1>5 DEF DepositsInv

-----------------------------------------------------------------------------
LEMMA DepositsStep == DepositsInv /\ [DepositsNext]_depositVars => DepositsInv'
<1>1. ASSUME DepositsInv, DepositsNext PROVE DepositsInv'
  BY <1>1, SetAutoPublishKeeps, BeginDepositKeeps, LoadFilesKeeps,
     CreateDraftKeeps, CreateUnansweredKeeps, UploadFileKeeps,
     RequestRefusedKeeps, EndUploadKeeps, PublishDraftKeeps,
     PublishUnansweredKeeps, RecordDepositKeeps, RecordFailedDepositKeeps,
     KillAttemptKeeps
  DEF DepositsNext
<1>2. ASSUME DepositsInv, UNCHANGED depositVars PROVE DepositsInv'
  BY <1>2
  DEF depositVars, DepositsInv, DepositsTypeOK, AttemptsKnow, AttemptKnows,
      ReceiptKnows, Own, Whole
<1>. QED
  BY <1>1, <1>2

THEOREM DepositsInvariant == DepositsSpec => []DepositsInv
BY DepositsStart, DepositsStep, PTL DEF DepositsSpec

\* The record, the attempts and the archive's side keep their types (the row of
\* plugin_data and the states of deposit_collection), however many attempts
\* and tries there are.
THEOREM DepositsTypeCorrect == DepositsSpec => []DepositsTypeOK
<1>1. DepositsInv => DepositsTypeOK
  BY DEF DepositsInv
<1>. QED
  BY <1>1, DepositsInvariant, PTL

\* A record that is not failed names a deposit that is there, in the state
\* recorded and with every document loaded, whatever number of attempts ran
\* together, were repeated, lost their answers or were killed.
THEOREM RecordedDepositsExist == DepositsSpec => []RecordedDepositExists
<1>1. DepositsInv => RecordedDepositExists
  BY DEF DepositsInv, ReceiptKnows, RecordedDepositExists, Made, Whole
<1>. QED
  BY <1>1, DepositsInvariant, PTL

-----------------------------------------------------------------------------
\* Deposits: the deposits that need no outage to explain them.  Counting them
\* by what the attempt in hand has come to is what makes DuplicatesHaveACause
\* inductive.

Unforced == {i \in Made : ~deposits[i].forced}
InHand(a) == attempt[a].at \notin {"none", "end"}
Recorded == IF AlreadyDeposited THEN 1 ELSE 0

\* A publication that was done and not answered has had its outage.
OverPublished(a) ==
  attempt[a].at = "publish" /\ deposits[attempt[a].id].state = "published"

\* The unforced deposits that need no outage, by what the attempt in hand has
\* come to.
Allowed(a) ==
  IF attempt[a].at = "failing" \/ OverPublished(a) THEN 0
  ELSE IF attempt[a].forced THEN Recorded
  ELSE IF attempt[a].at \in {"load", "create"} THEN 0 ELSE 1

OneInHand == \A a, b \in Attempts : InHand(a) /\ InHand(b) => a = b
WithinCause ==
  /\ (\A a \in Attempts : ~InHand(a)) =>
       Cardinality(Unforced) <= outages + Recorded
  /\ \A a \in Attempts :
       InHand(a) => Cardinality(Unforced) <= outages + Allowed(a)

Caused == IsFiniteSet(Unforced) /\ (~crossed => OneInHand /\ WithinCause)

\* A change of what a deposit has, or of its state, makes none.
LEMMA SameUnforced ==
  ASSUME DepositsTypeOK, NEW i \in Ids, deposits[i] # NoDeposit, NEW d \in Deposit,
         d.forced = deposits[i].forced, deposits' = [deposits EXCEPT ![i] = d]
  PROVE  Unforced' = Unforced
<1>1. deposits'[i] = d /\ \A j \in Ids : j # i => deposits'[j] = deposits[j]
  BY DEF DepositsTypeOK
<1>. QED
  BY <1>1, NoDepositAssumption DEF Unforced, Made

LEMMA DraftIsOneMore ==
  ASSUME DepositsInv, NEW a \in Attempts, NewDraft(a)
  PROVE  /\ Unforced' \subseteq Unforced \cup {Draft(a)}
         /\ attempt[a].forced => Unforced' \subseteq Unforced
<1> DEFINE draft == [state |-> "draft", has |-> {}, given |-> attempt[a].files,
                     forced |-> attempt[a].forced]
<1>1. Draft(a) \in Ids
  BY DraftMade DEF DepositsInv, AttemptsKnow
<1>2. draft.forced = attempt[a].forced /\ deposits' = [deposits EXCEPT ![Draft(a)] = draft]
  BY DEF NewDraft
<1> HIDE DEF draft
<1>3. /\ deposits'[Draft(a)] = draft
      /\ \A j \in Ids : j # Draft(a) => deposits'[j] = deposits[j]
  BY <1>1, <1>2 DEF DepositsInv, DepositsTypeOK
<1>. QED
  BY <1>1, <1>2, <1>3 DEF Unforced, Made

\* The attempt in hand goes on: it is enough to know what it is allowed then,
\* or what is recorded when it is over.
LEMMA CausedOnward ==
  ASSUME Caused, NEW a \in Attempts, InHand(a), crossed' = crossed,
         \A b \in Attempts : b # a => attempt'[b] = attempt[b],
         IsFiniteSet(Unforced'),
         ~crossed /\ InHand(a)' => Cardinality(Unforced') <= outages' + Allowed(a)',
         ~crossed /\ ~InHand(a)' => Cardinality(Unforced') <= outages' + Recorded'
  PROVE  Caused'
<1> SUFFICES ASSUME ~crossed PROVE OneInHand' /\ WithinCause'
  BY DEF Caused
<1>1. OneInHand
  BY DEF Caused
<1>2. \A b \in Attempts : b # a => ~InHand(b)'
  BY <1>1 DEF OneInHand, InHand
<1>3. OneInHand'
  BY <1>2 DEF OneInHand
<1>4. ASSUME NEW b \in Attempts, InHand(b)'
      PROVE  Cardinality(Unforced') <= outages' + Allowed(b)'
  BY <1>2, <1>4
<1>. QED
  BY <1>2, <1>3, <1>4 DEF WithinCause

\* What is known of an attempt in hand.
LEMMA CauseOf ==
  ASSUME DepositsInv, Caused, NEW a \in Attempts, InHand(a)
  PROVE  /\ IsFiniteSet(Unforced) /\ Cardinality(Unforced) \in Nat
         /\ outages \in Nat /\ Recorded \in {0, 1} /\ Allowed(a) \in {0, 1}
         /\ ~crossed => Cardinality(Unforced) <= outages + Allowed(a)
         /\ attempt[a] \in Attempt
<1>1. IsFiniteSet(Unforced) /\ Cardinality(Unforced) \in Nat
  BY FS_CardinalityType DEF Caused
<1>2. outages \in Nat /\ attempt[a] \in Attempt
  BY DepositsAssumption DEF DepositsInv, DepositsTypeOK
<1>3. Recorded \in {0, 1} /\ Allowed(a) \in {0, 1}
  BY DEF Recorded, Allowed
<1>. QED
  BY <1>1, <1>2, <1>3 DEF Caused, WithinCause

LEMMA DroppedAt ==
  ASSUME DepositsTypeOK, NEW a \in Attempts, NEW at \in {"failing", "end"}, Drop(a, at)
  PROVE  /\ attempt'[a].at = at
         /\ \A b \in Attempts : b # a => attempt'[b] = attempt[b]
BY Dropped

\* An attempt that gives up after an outage has had its cause.
LEMMA GivingUpIsCaused ==
  ASSUME DepositsInv, Caused, NEW a \in Attempts, InHand(a), crossed' = crossed,
         NEW at \in {"failing", "end"}, Drop(a, at), outages' = outages + 1,
         IsFiniteSet(Unforced'), receipt' = receipt,
         ~crossed => Cardinality(Unforced') <= outages + 1
  PROVE  Caused'
<1>1. /\ attempt'[a].at = at
      /\ \A b \in Attempts : b # a => attempt'[b] = attempt[b]
  BY DroppedAt DEF DepositsInv
<1>2. outages \in Nat /\ Recorded \in {0, 1} /\ Recorded' = Recorded
  BY CauseOf DEF Recorded, AlreadyDeposited
<1>3. Cardinality(Unforced') \in Nat
  BY FS_CardinalityType
<1>4. ~crossed => /\ Cardinality(Unforced') <= outages' + 0
                  /\ Cardinality(Unforced') <= outages' + Recorded'
  BY <1>2, <1>3
<1>5. CASE at = "failing"
  <2>1. InHand(a)' /\ Allowed(a)' = 0
    BY <1>1, <1>5 DEF InHand, Allowed
  <2>. QED
    BY <1>1, <1>4, <2>1, CausedOnward
<1>6. CASE at = "end"
  <2>1. ~InHand(a)'
    BY <1>1, <1>6 DEF InHand
  <2>. QED
    BY <1>1, <1>4, <2>1, CausedOnward
<1>. QED
  BY <1>5, <1>6

LEMMA CausedStart == DepositsInit => Caused
<1> SUFFICES ASSUME DepositsInit PROVE Caused
  OBVIOUS
<1>1. Unforced = {}
  BY DEF DepositsInit, Unforced, Made
<1>2. IsFiniteSet(Unforced) /\ Cardinality(Unforced) = 0
  BY <1>1, FS_EmptySet
<1>3. \A a \in Attempts : ~InHand(a)
  BY DEF DepositsInit, InHand, NoAttempt
<1>4. 0 <= outages + Recorded
  BY DEF DepositsInit, Recorded
<1>. QED
  BY <1>2, <1>3, <1>4 DEF Caused, OneInHand, WithinCause

LEMMA BeginIsCaused ==
  ASSUME DepositsInv, Caused, NEW a \in Attempts, BeginDeposit(a)
  PROVE  Caused'
<1>1. /\ attempt[a] \in Attempt /\ attempt[a].at = "none"
      /\ UNCHANGED <<deposits, receipt, outages>>
      /\ outages \in Nat /\ IsFiniteSet(Unforced) /\ Cardinality(Unforced) \in Nat
  BY DepositsAssumption, FS_CardinalityType
     DEF DepositsInv, DepositsTypeOK, BeginDeposit, Caused
<1>2. Unforced' = Unforced /\ Recorded' = Recorded /\ Recorded \in {0, 1}
  BY <1>1 DEF Unforced, Made, Recorded, AlreadyDeposited
<1>3. IsFiniteSet(Unforced')
  BY <1>1, <1>2
<1> SUFFICES ASSUME ~crossed' PROVE OneInHand' /\ WithinCause'
  BY <1>3 DEF Caused
<1>4. ~crossed /\ \A b \in Attempts : ~InHand(b)
  BY DEF BeginDeposit, Underway, InHand
<1>5. Cardinality(Unforced) <= outages + Recorded
  BY <1>4 DEF Caused, WithinCause
<1>6. CASE Drop(a, "end")
  <2>1. \A b \in Attempts : ~InHand(b)'
    BY <1>4, <1>6, DroppedAt DEF DepositsInv, InHand
  <2>. QED
    BY <1>1, <1>2, <1>5, <2>1 DEF OneInHand, WithinCause
<1>7. CASE ~Drop(a, "end")
  <2>1. PICK force \in BOOLEAN :
          /\ ~(AlreadyDeposited /\ ~force)
          /\ attempt' = [attempt EXCEPT ![a].at = "load", ![a].forced = force,
                                        ![a].publish = auto]
    BY <1>7 DEF BeginDeposit
  <2>2. /\ attempt'[a].at = "load" /\ attempt'[a].forced = force
        /\ \A b \in Attempts : b # a => attempt'[b] = attempt[b]
    BY <1>1, <2>1 DEF DepositsInv, DepositsTypeOK, Attempt
  <2>3. Allowed(a)' = Recorded
    <3>1. CASE force
      BY <1>2, <2>2, <3>1 DEF Allowed, OverPublished
    <3>2. CASE ~force
      BY <1>2, <2>1, <2>2, <3>2 DEF Allowed, OverPublished, Recorded
    <3>. QED
      BY <3>1, <3>2
  <2>4. \A b \in Attempts : b # a => ~InHand(b)'
    BY <1>4, <2>2 DEF InHand
  <2>5. InHand(a)' /\ OneInHand'
    BY <2>2, <2>4 DEF InHand, OneInHand
  <2>6. ASSUME NEW b \in Attempts, InHand(b)'
        PROVE  Cardinality(Unforced') <= outages' + Allowed(b)'
    <3>1. b = a
      BY <2>4, <2>6
    <3>2. Cardinality(Unforced') <= outages' + Allowed(a)'
      BY <1>1, <1>2, <1>5, <2>3
    <3>. QED
      BY <3>1, <3>2
  <2>. QED
    BY <2>5, <2>6 DEF WithinCause
<1>. QED
  BY <1>6, <1>7

\* A step that makes no deposit and has no outage leaves the attempt in hand
\* what it was allowed, if no less is allowed where it comes to.
LEMMA QuietIsCaused ==
  ASSUME DepositsInv, Caused, NEW a \in Attempts, InHand(a), Unforced' = Unforced,
         UNCHANGED <<outages, receipt, crossed>>,
         \A b \in Attempts : b # a => attempt'[b] = attempt[b],
         attempt'[a].at \in {"load", "create", "upload", "publish", "recording"},
         attempt'[a].forced = attempt[a].forced,
         attempt[a].at \in {"upload", "publish", "recording"} =>
           attempt'[a].at \in {"upload", "publish", "recording"},
         ~OverPublished(a)'
  PROVE  Caused'
<1>1. /\ IsFiniteSet(Unforced) /\ Cardinality(Unforced) \in Nat
      /\ outages \in Nat /\ Recorded \in {0, 1} /\ Allowed(a) \in {0, 1}
      /\ ~crossed => Cardinality(Unforced) <= outages + Allowed(a)
  BY CauseOf
<1>2. Recorded' = Recorded
  BY DEF Recorded, AlreadyDeposited
<1>3. InHand(a)'
  BY DEF InHand
<1>4. Allowed(a)' \in {0, 1} /\ Allowed(a) <= Allowed(a)'
  <2>1. CASE attempt[a].forced
    <3>1. Allowed(a)' = Recorded /\ Allowed(a) \in {0, Recorded}
      BY <1>2, <2>1 DEF Allowed
    <3>. QED
      BY <1>1, <3>1
  <2>2. CASE ~attempt[a].forced
    <3>1. Allowed(a)' = IF attempt'[a].at \in {"load", "create"} THEN 0 ELSE 1
      BY <2>2 DEF Allowed
    <3>2. attempt[a].at \in {"load", "create"} => Allowed(a) = 0
      BY <2>2 DEF Allowed
    <3>3. attempt'[a].at \in {"load", "create"} => Allowed(a) = 0
      <4>1. CASE attempt[a].at = "failing"
        BY <4>1 DEF Allowed
      <4>2. CASE attempt[a].at # "failing"
        BY <3>2, <4>2, CauseOf DEF InHand, Attempt, AttemptPlaces
      <4>. QED
        BY <4>1, <4>2
    <3>. QED
      BY <1>1, <3>1, <3>3
  <2>. QED
    BY <2>1, <2>2
<1>5. ~crossed => Cardinality(Unforced') <= outages' + Allowed(a)'
  BY <1>1, <1>4
<1>6. IsFiniteSet(Unforced')
  BY <1>1
<1>. QED
  BY <1>3, <1>5, <1>6, CausedOnward

LEMMA LoadIsCaused ==
  ASSUME DepositsInv, Caused, NEW a \in Attempts, LoadFiles(a)
  PROVE  Caused'
<1>1. PICK read \in SUBSET Papers :
        attempt' = [attempt EXCEPT ![a].files = read, ![a].at = "create"]
  BY DEF LoadFiles
<1>2. /\ attempt'[a].at = "create" /\ attempt'[a].forced = attempt[a].forced
      /\ \A b \in Attempts : b # a => attempt'[b] = attempt[b]
  BY <1>1 DEF DepositsInv, DepositsTypeOK, Attempt
<1>3. InHand(a) /\ attempt[a].at = "load" /\ ~OverPublished(a)'
  BY <1>2 DEF LoadFiles, InHand, OverPublished
<1>4. Unforced' = Unforced
  BY DEF LoadFiles, Unforced, Made
<1>. QED
  BY <1>2, <1>3, <1>4, QuietIsCaused DEF LoadFiles

LEMMA CreateIsCaused ==
  ASSUME DepositsInv, Caused, NEW a \in Attempts, CreateDraft(a)
  PROVE  Caused'
<1>1. /\ InHand(a) /\ attempt[a].at = "create" /\ NewDraft(a)
      /\ UNCHANGED <<receipt, outages, crossed>>
  BY DEF CreateDraft, InHand
<1>2. /\ IsFiniteSet(Unforced) /\ Cardinality(Unforced) \in Nat
      /\ outages \in Nat /\ Recorded \in {0, 1}
      /\ ~crossed => Cardinality(Unforced) <= outages + Allowed(a)
      /\ attempt[a] \in Attempt
  BY <1>1, CauseOf
<1>3. /\ Draft(a) \in Ids /\ deposits'[Draft(a)].state = "draft"
  BY <1>1, DraftMade DEF DepositsInv, AttemptsKnow
<1>4. /\ attempt'[a].at = "upload" /\ attempt'[a].forced = attempt[a].forced
      /\ \A b \in Attempts : b # a => attempt'[b] = attempt[b]
  <2>1. PICK i \in Ids : attempt' =
          [attempt EXCEPT ![a].at = "upload", ![a].id = i, ![a].tries = 0]
    BY <1>3 DEF CreateDraft
  <2>. QED
    BY <1>2, <2>1 DEF DepositsInv, DepositsTypeOK, Attempt
<1>5. InHand(a)' /\ Recorded' = Recorded
  BY <1>1, <1>4 DEF InHand, Recorded, AlreadyDeposited
<1>6. CASE attempt[a].forced
  <2>1. Allowed(a) = Recorded /\ Allowed(a)' = Recorded
    BY <1>1, <1>4, <1>5, <1>6 DEF Allowed, OverPublished
  <2>2. IsFiniteSet(Unforced') /\ Cardinality(Unforced') \in Nat
        /\ Cardinality(Unforced') <= Cardinality(Unforced)
    BY <1>1, <1>2, <1>6, DraftIsOneMore, NoMore
  <2>3. ~crossed => Cardinality(Unforced') <= outages' + Allowed(a)'
    BY <1>1, <1>2, <2>1, <2>2
  <2>. QED
    BY <1>1, <1>4, <1>5, <2>2, <2>3, CausedOnward
<1>7. CASE ~attempt[a].forced
  <2>1. Allowed(a) = 0 /\ Allowed(a)' = 1
    BY <1>1, <1>4, <1>7 DEF Allowed, OverPublished
  <2>2. IsFiniteSet(Unforced') /\ Cardinality(Unforced') \in Nat
        /\ Cardinality(Unforced') <= Cardinality(Unforced) + 1
    BY <1>1, <1>2, DraftIsOneMore, OneMore
  <2>3. ~crossed => Cardinality(Unforced') <= outages' + Allowed(a)'
    BY <1>1, <1>2, <2>1, <2>2
  <2>. QED
    BY <1>1, <1>4, <1>5, <2>2, <2>3, CausedOnward
<1>. QED
  BY <1>6, <1>7

\* An outage that is met by another try, or by giving up, has its own cause.
LEMMA TryAgainIsCaused ==
  ASSUME DepositsInv, Caused, NEW a \in Attempts, TryAgain(a),
         attempt[a].at \in {"create", "publish"}, UNCHANGED <<receipt, crossed>>,
         IsFiniteSet(Unforced'),
         ~crossed => Cardinality(Unforced') <= outages + 1
  PROVE  Caused'
<1>1. InHand(a) /\ outages' = outages + 1
  BY DEF InHand, TryAgain
<1>2. CASE Drop(a, "failing")
  BY <1>1, <1>2, GivingUpIsCaused
<1>3. CASE ~Drop(a, "failing")
  <2>1. attempt' = [attempt EXCEPT ![a].tries = @ + 1]
    BY <1>3 DEF TryAgain
  <2>2. /\ attempt'[a].at = attempt[a].at
        /\ \A b \in Attempts : b # a => attempt'[b] = attempt[b]
    BY <2>1 DEF DepositsInv, DepositsTypeOK, Attempt
  <2>3. InHand(a)' /\ outages \in Nat /\ Cardinality(Unforced') \in Nat
    BY <1>1, <2>2, CauseOf, FS_CardinalityType DEF InHand
  <2>4. Recorded' \in {0, 1}
    BY DEF Recorded
  <2>5. Allowed(a)' \in {0, 1}
    BY <2>4 DEF Allowed
  <2>6. ~crossed => Cardinality(Unforced') <= outages' + Allowed(a)'
    BY <1>1, <2>3, <2>5
  <2>. QED
    BY <1>1, <2>2, <2>3, <2>6, CausedOnward
<1>. QED
  BY <1>2, <1>3

LEMMA CreateUnansweredIsCaused ==
  ASSUME DepositsInv, Caused, NEW a \in Attempts, CreateUnanswered(a)
  PROVE  Caused'
<1>1. /\ InHand(a) /\ attempt[a].at = "create" /\ TryAgain(a)
      /\ NewDraft(a) \/ UNCHANGED deposits
      /\ UNCHANGED <<receipt, crossed>>
  BY DEF CreateUnanswered, InHand
<1>2. /\ IsFiniteSet(Unforced) /\ Cardinality(Unforced) \in Nat
      /\ outages \in Nat /\ Recorded \in {0, 1}
      /\ ~crossed => Cardinality(Unforced) <= outages + Allowed(a)
  BY <1>1, CauseOf
<1>3. /\ Unforced' \subseteq Unforced \cup {Draft(a)}
      /\ attempt[a].forced => Unforced' \subseteq Unforced
  BY <1>1, DraftIsOneMore DEF Unforced, Made
<1>4. IsFiniteSet(Unforced') /\ Cardinality(Unforced') \in Nat
  BY <1>2, <1>3, OneMore
<1>5. CASE attempt[a].forced
  <2>1. Allowed(a) = Recorded
    BY <1>1, <1>5 DEF Allowed, OverPublished
  <2>2. Cardinality(Unforced') <= Cardinality(Unforced)
    BY <1>2, <1>3, <1>5, NoMore
  <2>3. ~crossed => Cardinality(Unforced') <= outages + 1
    BY <1>2, <1>4, <2>1, <2>2
  <2>. QED
    BY <1>1, <1>4, <2>3, TryAgainIsCaused
<1>6. CASE ~attempt[a].forced
  <2>1. Allowed(a) = 0
    BY <1>1, <1>6 DEF Allowed, OverPublished
  <2>2. Cardinality(Unforced') <= Cardinality(Unforced) + 1
    BY <1>2, <1>3, OneMore
  <2>3. ~crossed => Cardinality(Unforced') <= outages + 1
    BY <1>2, <1>4, <2>1, <2>2
  <2>. QED
    BY <1>1, <1>4, <2>3, TryAgainIsCaused
<1>. QED
  BY <1>5, <1>6

\* Sending a document.
LEMMA UploadIsCaused ==
  ASSUME DepositsInv, Caused, NEW a \in Attempts, UploadFile(a)
  PROVE  Caused'
<1>1. PICK f \in attempt[a].files \ attempt[a].sent :
        /\ deposits' = [deposits EXCEPT ![attempt[a].id].has = @ \cup {f}]
        /\ attempt' = [attempt EXCEPT ![a].sent = @ \cup {f}]
  BY DEF UploadFile
<1>2. /\ attempt[a].at = "upload" /\ InHand(a) /\ attempt[a] \in Attempt
      /\ Own(a, attempt[a].id) /\ UNCHANGED <<receipt, outages, crossed>>
  BY DEF UploadFile, InHand, DepositsInv, DepositsTypeOK, AttemptsKnow, AttemptKnows
<1>3. PICK i \in Ids : i = attempt[a].id
  BY <1>2 DEF Own
<1>4. deposits[i] \in Deposit /\ deposits[i] # NoDeposit
  BY <1>2, <1>3, OwnTyped DEF Own, DepositsInv
<1> DEFINE d == [deposits[i] EXCEPT !.has = @ \cup {f}]
<1>5. d \in Deposit /\ d.forced = deposits[i].forced
  <2>1. f \in Papers
    BY <1>1, <1>2 DEF Attempt
  <2>. QED
    BY <1>4, <2>1 DEF Deposit
<1>6. deposits' = [deposits EXCEPT ![i] = d]
  BY <1>1, <1>3
<1> HIDE DEF d
<1>7. Unforced' = Unforced
  BY <1>4, <1>5, <1>6, SameUnforced DEF DepositsInv
<1>8. /\ attempt'[a].at = "upload" /\ attempt'[a].forced = attempt[a].forced
      /\ \A b \in Attempts : b # a => attempt'[b] = attempt[b]
  BY <1>1, <1>2 DEF DepositsInv, DepositsTypeOK, Attempt
<1>9. ~OverPublished(a)'
  BY <1>8 DEF OverPublished
<1>. QED
  BY <1>2, <1>7, <1>8, <1>9, QuietIsCaused

\* The draft is not published yet when its upload ends.
LEMMA EndUploadIsCaused ==
  ASSUME DepositsInv, Caused, NEW a \in Attempts, EndUpload(a)
  PROVE  Caused'
<1>1. PICK at \in {"publish", "recording"} :
        attempt' = [attempt EXCEPT ![a].at = at, ![a].tries = 0]
  BY DEF EndUpload, Step
<1>2. /\ attempt[a].at = "upload" /\ InHand(a) /\ attempt[a] \in Attempt
      /\ deposits[attempt[a].id].state = "draft"
      /\ UNCHANGED <<deposits, receipt, outages, crossed>>
  BY DEF EndUpload, InHand, DepositsInv, DepositsTypeOK, AttemptsKnow, AttemptKnows
<1>3. /\ attempt'[a].at = at /\ attempt'[a].forced = attempt[a].forced
      /\ attempt'[a].id = attempt[a].id
      /\ \A b \in Attempts : b # a => attempt'[b] = attempt[b]
  BY <1>1, <1>2 DEF DepositsInv, DepositsTypeOK, Attempt
<1>4. ~OverPublished(a)' /\ Unforced' = Unforced
  BY <1>2, <1>3 DEF OverPublished, Unforced, Made
<1>. QED
  BY <1>2, <1>3, <1>4, QuietIsCaused

\* Publishing the draft of an attempt makes no deposit.
LEMMA PublishingIsSame ==
  ASSUME DepositsInv, NEW a \in Attempts, attempt[a].at = "publish",
         \/ UNCHANGED deposits
         \/ deposits' = [deposits EXCEPT ![attempt[a].id].state = "published"]
  PROVE  Unforced' = Unforced
<1>1. CASE UNCHANGED deposits
  BY <1>1 DEF Unforced, Made
<1>2. CASE deposits' = [deposits EXCEPT ![attempt[a].id].state = "published"]
  <2>1. Own(a, attempt[a].id)
    BY DEF DepositsInv, AttemptsKnow, AttemptKnows
  <2>2. PICK i \in Ids : i = attempt[a].id
    BY <2>1 DEF Own
  <2>3. deposits[i] \in Deposit /\ deposits[i] # NoDeposit
    BY <2>1, <2>2, OwnTyped DEF Own, DepositsInv
  <2> DEFINE d == [deposits[i] EXCEPT !.state = "published"]
  <2>4. d \in Deposit /\ d.forced = deposits[i].forced
    BY <2>3 DEF Deposit, States
  <2>5. deposits' = [deposits EXCEPT ![i] = d]
    BY <1>2, <2>2
  <2> HIDE DEF d
  <2>. QED
    BY <2>3, <2>4, <2>5, SameUnforced DEF DepositsInv
<1>. QED
  BY <1>1, <1>2

LEMMA PublishIsCaused ==
  ASSUME DepositsInv, Caused, NEW a \in Attempts, PublishDraft(a)
  PROVE  Caused'
<1>1. /\ attempt[a].at = "publish" /\ InHand(a) /\ attempt[a] \in Attempt
      /\ UNCHANGED <<receipt, outages, crossed>>
  BY DEF PublishDraft, InHand, DepositsInv, DepositsTypeOK
<1>2. Unforced' = Unforced
  BY <1>1, PublishingIsSame DEF PublishDraft
<1>3. CASE deposits[attempt[a].id].state = "published"
  <2>1. Drop(a, "failing") /\ Allowed(a) = 0
    BY <1>1, <1>3 DEF PublishDraft, Allowed, OverPublished
  <2>2. /\ attempt'[a].at = "failing"
        /\ \A b \in Attempts : b # a => attempt'[b] = attempt[b]
    BY <2>1, DroppedAt DEF DepositsInv
  <2>3. InHand(a)' /\ Allowed(a)' = 0
    BY <2>2 DEF InHand, Allowed
  <2>4. /\ IsFiniteSet(Unforced')
        /\ ~crossed => Cardinality(Unforced') <= outages' + Allowed(a)'
    BY <1>1, <1>2, <2>1, <2>3, CauseOf
  <2>. QED
    BY <1>1, <2>2, <2>3, <2>4, CausedOnward
<1>4. CASE deposits[attempt[a].id].state # "published"
  <2>1. attempt' = [attempt EXCEPT ![a].at = "recording", ![a].status = "published"]
    BY <1>4 DEF PublishDraft
  <2>2. /\ attempt'[a].at = "recording" /\ attempt'[a].forced = attempt[a].forced
        /\ \A b \in Attempts : b # a => attempt'[b] = attempt[b]
    BY <1>1, <2>1 DEF DepositsInv, DepositsTypeOK, Attempt
  <2>3. ~OverPublished(a)'
    BY <2>2 DEF OverPublished
  <2>. QED
    BY <1>1, <1>2, <2>2, <2>3, QuietIsCaused
<1>. QED
  BY <1>3, <1>4

\* At most one deposit more than outages, wherever the attempt in hand is.
LEMMA OneSpare ==
  ASSUME DepositsInv, Caused, NEW a \in Attempts, InHand(a), Unforced' = Unforced
  PROVE  /\ IsFiniteSet(Unforced')
         /\ ~crossed => Cardinality(Unforced') <= outages + 1
<1>1. /\ IsFiniteSet(Unforced) /\ Cardinality(Unforced) \in Nat
      /\ outages \in Nat /\ Allowed(a) \in {0, 1}
      /\ ~crossed => Cardinality(Unforced) <= outages + Allowed(a)
  BY CauseOf
<1>. QED
  BY <1>1

LEMMA PublishUnansweredIsCaused ==
  ASSUME DepositsInv, Caused, NEW a \in Attempts, PublishUnanswered(a)
  PROVE  Caused'
<1>1. /\ attempt[a].at = "publish" /\ InHand(a) /\ TryAgain(a)
      /\ UNCHANGED <<receipt, crossed>>
      /\ \/ UNCHANGED deposits
         \/ deposits' = [deposits EXCEPT ![attempt[a].id].state = "published"]
  BY DEF PublishUnanswered, InHand, States
<1>2. Unforced' = Unforced
  BY <1>1, PublishingIsSame
<1>. QED
  BY <1>1, <1>2, OneSpare, TryAgainIsCaused

LEMMA LossIsCaused ==
  ASSUME DepositsInv, Caused, NEW a \in Attempts, RequestRefused(a) \/ KillAttempt(a)
  PROVE  Caused'
<1>1. /\ InHand(a) /\ outages' = outages + 1
      /\ UNCHANGED <<deposits, receipt, crossed>>
  BY DEF RequestRefused, KillAttempt, InHand
<1>2. PICK at \in {"failing", "end"} : Drop(a, at)
  BY DEF RequestRefused, KillAttempt
<1>3. Unforced' = Unforced
  BY <1>1 DEF Unforced, Made
<1>. QED
  BY <1>1, <1>2, <1>3, OneSpare, GivingUpIsCaused

\* What is recorded stands in the way of the next attempt of the hook.
LEMMA RecordIsCaused ==
  ASSUME DepositsInv, Caused, NEW a \in Attempts,
         RecordDeposit(a) \/ RecordFailedDeposit(a)
  PROVE  Caused'
<1>1. /\ InHand(a) /\ attempt[a] \in Attempt /\ Drop(a, "end")
      /\ UNCHANGED <<deposits, outages, crossed>>
  BY DEF RecordDeposit, RecordFailedDeposit, InHand, DepositsInv, DepositsTypeOK
<1>2. /\ attempt'[a].at = "end" /\ ~InHand(a)'
      /\ \A b \in Attempts : b # a => attempt'[b] = attempt[b]
  BY <1>1, DroppedAt DEF DepositsInv, InHand
<1>3. Unforced' = Unforced
  BY <1>1 DEF Unforced, Made
<1>4. /\ IsFiniteSet(Unforced) /\ Cardinality(Unforced) \in Nat
      /\ outages \in Nat /\ Allowed(a) \in {0, 1}
      /\ ~crossed => Cardinality(Unforced) <= outages + Allowed(a)
  BY <1>1, CauseOf
<1>5. ~crossed => Cardinality(Unforced') <= outages' + Recorded'
  <2>1. CASE RecordDeposit(a)
    <3>1. receipt' = [status |-> attempt[a].status, id |-> attempt[a].id]
      BY <2>1 DEF RecordDeposit
    <3>2. receipt' \in Receipt /\ receipt'.status \in States
      BY <1>1, <3>1 DEF Attempt, Receipt
    <3>3. receipt' # NoDeposit
      BY <3>2, NoDepositAssumption
    <3>4. Recorded' = 1
      BY <3>2, <3>3 DEF Recorded, AlreadyDeposited
    <3>. QED
      BY <1>1, <1>3, <1>4, <3>4
  <2>2. CASE RecordFailedDeposit(a)
    <3>1. Allowed(a) = 0
      BY <2>2 DEF RecordFailedDeposit, Allowed
    <3>2. Recorded' \in {0, 1}
      BY DEF Recorded
    <3>. QED
      BY <1>1, <1>3, <1>4, <3>1, <3>2
  <2>. QED
    BY <2>1, <2>2
<1>. QED
  BY <1>1, <1>2, <1>3, <1>4, <1>5, CausedOnward

LEMMA CausedStep ==
  ASSUME DepositsInv, Caused, [DepositsNext]_depositVars
  PROVE  Caused'
<1>1. CASE SetAutoPublish \/ UNCHANGED depositVars
  <2>1. UNCHANGED <<deposits, receipt, attempt, outages, crossed>>
    BY <1>1 DEF SetAutoPublish, depositVars
  <2>2. /\ Unforced' = Unforced /\ Recorded' = Recorded
        /\ \A a \in Attempts : (InHand(a)' <=> InHand(a)) /\ Allowed(a)' = Allowed(a)
    BY <2>1 DEF Unforced, Made, Recorded, AlreadyDeposited, InHand, Allowed,
                OverPublished
  <2>. QED
    BY <2>1, <2>2 DEF Caused, OneInHand, WithinCause
<1>2. ASSUME NEW a \in Attempts,
             \/ BeginDeposit(a) \/ LoadFiles(a) \/ CreateDraft(a) \/ CreateUnanswered(a)
             \/ UploadFile(a) \/ RequestRefused(a) \/ EndUpload(a) \/ PublishDraft(a)
             \/ PublishUnanswered(a) \/ RecordDeposit(a) \/ RecordFailedDeposit(a)
             \/ KillAttempt(a)
      PROVE  Caused'
  BY <1>2, BeginIsCaused, LoadIsCaused, CreateIsCaused, CreateUnansweredIsCaused,
     UploadIsCaused, LossIsCaused, EndUploadIsCaused, PublishIsCaused,
     PublishUnansweredIsCaused, RecordIsCaused
<1>. QED
  BY <1>1, <1>2 DEF DepositsNext

\* DuplicatesHaveACause for any documents, attempts, tries and outages: a
\* deposit that the hook made for nothing has a failed request for it.
THEOREM DuplicatesAreCaused == DepositsSpec => []DuplicatesHaveACause
<1>1. DepositsInv /\ Caused => DuplicatesHaveACause
  <2> SUFFICES ASSUME DepositsInv, Caused, ~crossed
               PROVE  Cardinality(Unforced) <= 1 + outages
    BY DEF DuplicatesHaveACause, Unforced
  <2>1. outages \in Nat /\ Cardinality(Unforced) \in Nat /\ Recorded \in {0, 1}
    BY FS_CardinalityType DEF DepositsInv, DepositsTypeOK, Caused, Recorded
  <2>2. CASE \E a \in Attempts : InHand(a)
    BY <2>1, <2>2, CauseOf
  <2>3. CASE \A a \in Attempts : ~InHand(a)
    BY <2>1, <2>3 DEF Caused, WithinCause
  <2>. QED
    BY <2>2, <2>3
<1>2. DepositsInit => Caused
  BY CausedStart
<1>3. DepositsInv /\ Caused /\ [DepositsNext]_depositVars => Caused'
  BY CausedStep
<1>. QED
  BY <1>1, <1>2, <1>3, DepositsInvariant, PTL DEF DepositsSpec

-----------------------------------------------------------------------------
(* NlSearch.  A slot is taken and given back by the query that has it, at the  *)
(* semaphore it has noted; a setting changed adds a semaphore and leaves those *)
(* there are (SlotInv).                                                        *)

\* The queries that run under semaphore i.
Under(i) == {q \in Queries : Runs(q) /\ query[q].slot = i}

\* A query that waits or runs has one of the semaphores made.
Slotted(q) == query[q].at = "wait" \/ Runs(q) => query[q].slot \in DOMAIN slots

Accounted(i) == IsFiniteSet(Under(i)) /\ slots[i].limit = slots[i].free + Cardinality(Under(i))

\* Fewer conjuncts than NlSearchTypeOK: what is spent and kept is in SpendInv.
SlotInv ==
  /\ today \in Days /\ limit \in Limits
  /\ slots \in Seq(Semaphore) /\ query \in [Queries -> Query]
  /\ \A q \in Queries : Slotted(q)
  /\ \A i \in DOMAIN slots : Accounted(i)

\* What a query can read of a day.
SpendKnown == \A d \in Days : spent[d] \in Spend \cup {NoRow}

RunPlaces == {"run", "read day", "write day", "read kept", "write kept", "commit"}

-----------------------------------------------------------------------------
LEMMA SlotStart == NlSearchInit => SlotInv
<1> SUFFICES ASSUME NlSearchInit PROVE SlotInv
  OBVIOUS
<1>1. NoQuery \in Query
  BY NlSearchAssumption DEF NoQuery, Query, QueryPlaces, Days
<1>2. today \in Days /\ limit \in Limits /\ query \in [Queries -> Query]
  BY <1>1, NlSearchAssumption DEF NlSearchInit, Days
<1>3. slots \in Seq(Semaphore) /\ \A i \in DOMAIN slots : Accounted(i)
  BY DEF NlSearchInit
<1>4. \A q \in Queries : Slotted(q)
  BY DEF NlSearchInit, NoQuery, Slotted, Runs
<1>. QED
  BY <1>2, <1>3, <1>4 DEF SlotInv

\* One query moves to x, and the slots stay: it runs, under the same semaphore,
\* when it did.
LEMMA OneMovesOn ==
  ASSUME SlotInv, NEW q \in Queries, NEW x \in Query, query' = [query EXCEPT ![q] = x],
         UNCHANGED <<today, limit, slots>>,
         x.at \in RunPlaces <=> Runs(q),
         Runs(q) => x.slot = query[q].slot,
         x.at # "wait"
  PROVE  SlotInv'
<1>1. /\ query' \in [Queries -> Query] /\ query'[q] = x
      /\ \A p \in Queries \ {q} : query'[p] = query[p]
  BY DEF SlotInv
<1>2. \A i : Under(i)' = Under(i)
  BY <1>1 DEF Under, Runs, RunPlaces
<1>3. \A p \in Queries : Slotted(p)'
  BY <1>1 DEF SlotInv, Slotted, Runs, RunPlaces
<1>4. \A i \in DOMAIN slots : Accounted(i)'
  BY <1>2 DEF SlotInv, Accounted
<1>. QED
  BY <1>1, <1>3, <1>4 DEF SlotInv

\* A semaphore whose count changes, and the others.
LEMMA SlotCount ==
  ASSUME NEW s \in Seq(Semaphore), NEW k \in DOMAIN s, NEW n \in Nat
  PROVE  LET t == [s EXCEPT ![k].free = n] IN
         /\ t \in Seq(Semaphore) /\ DOMAIN t = DOMAIN s
         /\ t[k].limit = s[k].limit /\ t[k].free = n
         /\ \A i \in DOMAIN s : i # k => t[i] = s[i]
<1> DEFINE y == [s[k] EXCEPT !.free = n]
           t == [s EXCEPT ![k] = y]
<1>1. s[k] \in Semaphore
  OBVIOUS
<1>2. y \in Semaphore /\ y.limit = s[k].limit /\ y.free = n
  BY <1>1 DEF Semaphore
<1>3. t = [s EXCEPT ![k].free = n]
  OBVIOUS
<1> HIDE DEF y
<1>4. t \in Seq(Semaphore) /\ DOMAIN t = DOMAIN s /\ t[k] = y
      /\ \A i \in DOMAIN s : i # k => t[i] = s[i]
  BY <1>2
<1>. QED
  BY <1>2, <1>3, <1>4

LEMMA Balance ==
  ASSUME NEW f \in Nat, NEW a \in Nat, NEW l, l = f + a, NEW n \in Nat, NEW c,
         (c = a + 1 /\ n = f - 1) \/ (c = a - 1 /\ n = f + 1)
  PROVE  l = n + c
OBVIOUS

LEMMA FreeIsCounted ==
  ASSUME SlotInv, NEW k \in DOMAIN slots PROVE slots[k].free \in Nat
<1>1. slots[k] \in Semaphore
  BY DEF SlotInv
<1>. QED
  BY <1>1 DEF Semaphore

\* One query takes a slot of k or gives it back, and the others keep theirs.
LEMMA OneSlot ==
  ASSUME SlotInv, NEW q \in Queries, NEW x \in Query, query' = [query EXCEPT ![q] = x],
         UNCHANGED <<today, limit>>, NEW k \in DOMAIN slots, query[q].slot = k,
         NEW n \in Nat, slots' = [slots EXCEPT ![k].free = n],
         x.at \in RunPlaces \cup {"end"},
         x.at \in RunPlaces => x.slot = k,
         IF x.at \in RunPlaces THEN ~Runs(q) /\ n = slots[k].free - 1
                               ELSE Runs(q) /\ n = slots[k].free + 1
  PROVE  SlotInv'
<1>1. /\ slots' \in Seq(Semaphore) /\ DOMAIN slots' = DOMAIN slots
      /\ slots'[k].limit = slots[k].limit /\ slots'[k].free = n
      /\ \A i \in DOMAIN slots : i # k => slots'[i] = slots[i]
  BY SlotCount DEF SlotInv
<1>2. /\ query' \in [Queries -> Query] /\ query'[q] = x
      /\ \A p \in Queries \ {q} : query'[p] = query[p]
  BY DEF SlotInv
<1>3. \A i : i # k => Under(i)' = Under(i)
  BY <1>2 DEF Under, Runs, RunPlaces
<1>4. IsFiniteSet(Under(k)) /\ slots[k].limit = slots[k].free + Cardinality(Under(k))
      /\ slots[k] \in Semaphore
  BY DEF SlotInv, Accounted
<1>5. Cardinality(Under(k)) \in Nat /\ slots[k].free \in Nat
  BY <1>4, FS_CardinalityType DEF Semaphore
<1>6. ASSUME NEW c, c = Cardinality(Under(k)'),
             \/ c = Cardinality(Under(k)) + 1 /\ n = slots[k].free - 1
             \/ c = Cardinality(Under(k)) - 1 /\ n = slots[k].free + 1
      PROVE  slots'[k].limit = slots'[k].free + c
  <2>1. slots[k].limit = n + c
    BY <1>4, <1>5, <1>6, Balance
  <2>. QED
    BY <1>1, <2>1
<1>7. Accounted(k)'
  <2>1. CASE x.at \in RunPlaces
    <3>1. Under(k)' = Under(k) \cup {q} /\ q \notin Under(k)
      BY <1>2, <2>1 DEF Under, Runs, RunPlaces
    <3>2. IsFiniteSet(Under(k) \cup {q})
          /\ Cardinality(Under(k) \cup {q}) = Cardinality(Under(k)) + 1
      BY <1>4, <3>1, FS_AddElement
    <3>3. Cardinality(Under(k)') = Cardinality(Under(k)) + 1 /\ n = slots[k].free - 1
      BY <2>1, <3>1, <3>2
    <3>4. IsFiniteSet(Under(k)')
      BY <3>1, <3>2
    <3>. QED
      BY <1>6, <3>3, <3>4 DEF Accounted
  <2>2. CASE x.at = "end"
    <3>0. x.at \notin RunPlaces
      BY <2>2 DEF RunPlaces
    <3>1. Under(k)' = Under(k) \ {q} /\ q \in Under(k)
      BY <1>2, <2>2, <3>0 DEF Under, Runs
    <3>2. IsFiniteSet(Under(k) \ {q})
          /\ Cardinality(Under(k) \ {q}) = Cardinality(Under(k)) - 1
      BY <1>4, <3>1, FS_RemoveElement
    <3>3. Cardinality(Under(k)') = Cardinality(Under(k)) - 1 /\ n = slots[k].free + 1
      BY <3>0, <3>1, <3>2
    <3>4. IsFiniteSet(Under(k)')
      BY <3>1, <3>2
    <3>. QED
      BY <1>6, <3>3, <3>4 DEF Accounted
  <2>. QED
    BY <2>1, <2>2
<1>8. \A i \in DOMAIN slots' : Accounted(i)'
  <2> SUFFICES ASSUME NEW i \in DOMAIN slots, i # k PROVE Accounted(i)'
    BY <1>1, <1>7
  <2>1. Accounted(i) /\ Under(i)' = Under(i) /\ slots'[i] = slots[i]
    BY <1>1, <1>3 DEF SlotInv
  <2>. QED
    BY <2>1 DEF Accounted
<1>9. \A p \in Queries : Slotted(p)'
  BY <1>1, <1>2 DEF SlotInv, Slotted, Runs, RunPlaces
<1>. QED
  BY <1>1, <1>2, <1>8, <1>9 DEF SlotInv

\* One query ends, and gives its slot back if it has one.
LEMMA OneEnds ==
  ASSUME SlotInv, NEW q \in Queries, NEW x \in Query, query' = [query EXCEPT ![q] = x],
         UNCHANGED <<today, limit>>, Release(q), x.at = "end"
  PROVE  SlotInv'
<1>0. x.at \notin RunPlaces
  BY DEF RunPlaces
<1>1. CASE ~Runs(q)
  BY <1>0, <1>1, OneMovesOn DEF Release
<1>2. CASE Runs(q)
  <2>1. query[q].slot \in DOMAIN slots
    BY <1>2 DEF SlotInv, Slotted
  <2>2. slots[query[q].slot].free \in Nat
    BY <2>1, FreeIsCounted
  <2>3. slots' = [slots EXCEPT ![query[q].slot].free = slots[query[q].slot].free + 1]
    BY <1>2, <2>1 DEF Release, Released
  <2>4. slots[query[q].slot].free + 1 \in Nat
    BY <2>2
  <2>. QED
    BY <1>0, <1>2, <2>1, <2>3, <2>4, OneSlot
<1>. QED
  BY <1>1, <1>2

\* Nobody runs under a semaphore just made.
LEMMA ResolveKeeps ==
  ASSUME SlotInv, NEW q \in Queries, ResolveSemaphore(q) PROVE SlotInv'
<1> DEFINE n == Len(Resolved)
           x == [query[q] EXCEPT !.at = "wait", !.slot = Len(Resolved)]
<1>1. Fresh \in Semaphore /\ Fresh.limit = limit /\ Fresh.free = limit /\ limit \in Nat
  BY NlSearchAssumption DEF SlotInv, Fresh, Semaphore
<1>2. /\ slots' = Resolved /\ slots' \in Seq(Semaphore) /\ n \in DOMAIN slots' /\ n \in Nat
      /\ \A i \in DOMAIN slots : i \in DOMAIN slots' /\ slots'[i] = slots[i]
      /\ \A i \in DOMAIN slots' \ DOMAIN slots : slots'[i] = Fresh
  <2>1. CASE slots = <<>> \/ Current.limit # limit
    BY <1>1, <2>1 DEF SlotInv, ResolveSemaphore, Resolved
  <2>2. CASE ~(slots = <<>> \/ Current.limit # limit)
    BY <2>2 DEF SlotInv, ResolveSemaphore, Resolved
  <2>. QED
    BY <2>1, <2>2
<1>3. x \in Query
  <2>1. query[q] \in Query /\ Len(Resolved) \in Nat
    BY <1>2 DEF SlotInv
  <2> HIDE DEF n
  <2>. QED
    BY <2>1 DEF Query, QueryPlaces
<1>4. query' = [query EXCEPT ![q] = x]
  BY DEF ResolveSemaphore, SlotInv
<1>5. x.at = "wait" /\ x.slot = n
  BY DEF SlotInv, Query
<1> HIDE DEF x, n
<1>6. /\ query' \in [Queries -> Query] /\ query'[q] = x
      /\ \A p \in Queries \ {q} : query'[p] = query[p]
  BY <1>3, <1>4 DEF SlotInv
<1>7. \A i : Under(i)' = Under(i)
  BY <1>5, <1>6 DEF Under, Runs, ResolveSemaphore, At
<1>8. \A i \in DOMAIN slots' : Accounted(i)'
  <2>1. \A i \in DOMAIN slots : Accounted(i)'
    BY <1>2, <1>7 DEF SlotInv, Accounted
  <2>2. ASSUME NEW i \in DOMAIN slots' \ DOMAIN slots PROVE Accounted(i)'
    <3>1. Under(i) = {}
      BY <2>2 DEF SlotInv, Slotted, Under
    <3>2. IsFiniteSet(Under(i)') /\ Cardinality(Under(i)') = 0
      BY <1>7, <3>1, FS_EmptySet
    <3>3. slots'[i].limit = slots'[i].free + Cardinality(Under(i)')
      BY <1>1, <1>2, <2>2, <3>2
    <3>. QED
      BY <3>2, <3>3 DEF Accounted
  <2>. QED
    BY <2>1, <2>2
<1>9. \A p \in Queries : Slotted(p)'
  BY <1>2, <1>5, <1>6 DEF SlotInv, Slotted, Runs
<1>. QED
  BY <1>2, <1>6, <1>8, <1>9 DEF SlotInv, ResolveSemaphore, nlWorld

LEMMA AcquireKeeps ==
  ASSUME SlotInv, NEW q \in Queries, AcquireSlot(q) PROVE SlotInv'
<1> DEFINE x == [query[q] EXCEPT !.at = "run"]
<1>1. query[q] \in Query
  BY DEF SlotInv
<1>2. x \in Query /\ x.at = "run" /\ x.slot = query[q].slot
  BY <1>1 DEF Query, QueryPlaces
<1>3. query' = [query EXCEPT ![q] = x] /\ query[q].at = "wait"
  BY DEF AcquireSlot, SlotInv, At
<1>4. query[q].slot \in DOMAIN slots
  BY <1>3 DEF SlotInv, Slotted
<1>5. slots[query[q].slot].free \in Nat /\ slots[query[q].slot].free > 0
  BY <1>4, FreeIsCounted DEF AcquireSlot, IsOpen
<1>6. slots' = [slots EXCEPT ![query[q].slot].free = slots[query[q].slot].free - 1]
  BY <1>4 DEF AcquireSlot
<1>7. ~Runs(q) /\ x.at \in RunPlaces
  BY <1>2, <1>3 DEF Runs, RunPlaces
<1>8. slots[query[q].slot].free - 1 \in Nat
  BY <1>5
<1>9. UNCHANGED <<today, limit>>
  BY DEF AcquireSlot, nlWorld
<1> HIDE DEF x
<1>. QED
  BY <1>2, <1>3, <1>4, <1>6, <1>7, <1>8, <1>9, OneSlot

\* What else a query does moves it on, under the semaphore it has.
LEMMA QueryKeeps ==
  ASSUME SlotInv, SpendKnown, NEW q \in Queries,
         AskQuery(q) \/ CheckBudget(q) \/ LookUpKept(q) \/ Misconfigured(q)
           \/ OverCapacity(q) \/ Orchestrate(q) \/ ReadDay(q) \/ WriteDay(q)
           \/ ReadKept(q) \/ WriteKept(q) \/ CommitQuery(q) \/ DropQuery(q)
  PROVE  SlotInv'
<1>1. query[q] \in Query /\ query \in [Queries -> Query] /\ today \in Days
  BY DEF SlotInv
<1>2. NoQuery \in Query
  BY NlSearchAssumption DEF NoQuery, Query, QueryPlaces, Days
<1>3. [NoQuery EXCEPT !.at = "end"] \in Query /\ [NoQuery EXCEPT !.at = "end"].at = "end"
  BY <1>2 DEF Query, QueryPlaces
<1>4. ASSUME EndQuery(q), Release(q), UNCHANGED <<today, limit>> PROVE SlotInv'
  BY <1>3, <1>4, OneEnds DEF EndQuery
<1>5. ASSUME EndQuery(q), ~Runs(q), UNCHANGED <<today, limit, slots>> PROVE SlotInv'
  BY <1>4, <1>5 DEF Release
<1>6. CASE AskQuery(q)
  <2>1. PICK k \in Questions : query' = [query EXCEPT ![q].at = "gate", ![q].on = k]
    BY <1>6 DEF AskQuery
  <2> DEFINE x == [query[q] EXCEPT !.at = "gate", !.on = k]
  <2>2. x \in Query /\ x.at = "gate" /\ query' = [query EXCEPT ![q] = x]
    BY <1>1, <2>1 DEF Query, QueryPlaces
  <2> HIDE DEF x
  <2>. QED
    BY <1>6, <2>2, OneMovesOn DEF AskQuery, At, Runs, RunPlaces, nlWorld
<1>7. ASSUME NEW p \in {"look up", "enter"}, query' = [query EXCEPT ![q].at = p],
             ~Runs(q), UNCHANGED <<today, limit, slots>>
      PROVE  SlotInv'
  <2> DEFINE x == [query[q] EXCEPT !.at = p]
  <2>1. x \in Query /\ x.at = p /\ query' = [query EXCEPT ![q] = x]
    BY <1>1, <1>7 DEF Query, QueryPlaces
  <2> HIDE DEF x
  <2>. QED
    BY <1>7, <2>1, OneMovesOn DEF RunPlaces
<1>8. CASE CheckBudget(q)
  BY <1>5, <1>7, <1>8 DEF CheckBudget, At, Runs, nlWorld
<1>9. CASE LookUpKept(q)
  BY <1>5, <1>7, <1>9 DEF LookUpKept, At, Runs, nlWorld
<1>10. CASE Misconfigured(q)
  BY <1>5, <1>10 DEF Misconfigured, At, Runs, nlWorld
<1>11. CASE OverCapacity(q)
  BY <1>5, <1>11 DEF OverCapacity, At, Runs, nlWorld
<1>12. ASSUME NEW x \in Query, query' = [query EXCEPT ![q] = x], x.at \in RunPlaces,
              x.slot = query[q].slot, Runs(q), UNCHANGED <<today, limit, slots>>
       PROVE  SlotInv'
  BY <1>12, OneMovesOn DEF RunPlaces
<1>13. CASE Orchestrate(q)
  <2>1. PICK c \in {0, 1}, e \in BOOLEAN :
          query' = [query EXCEPT ![q].at = "read day", ![q].cost = c, ![q].error = e]
    BY <1>13 DEF Orchestrate
  <2> DEFINE x == [query[q] EXCEPT !.at = "read day", !.cost = c, !.error = e]
  <2>2. /\ x \in Query /\ x.at = "read day" /\ x.slot = query[q].slot
        /\ query' = [query EXCEPT ![q] = x]
    BY <1>1, <2>1 DEF Query, QueryPlaces
  <2> HIDE DEF x
  <2>. QED
    BY <1>12, <1>13, <2>2 DEF Orchestrate, At, Runs, RunPlaces, nlWorld
<1>14. CASE ReadDay(q)
  <2> DEFINE x == [query[q] EXCEPT !.at = "write day", !.day = today,
                                   !.had = spent[today]]
  <2>1. spent[today] \in Spend \cup {NoRow}
    BY <1>1 DEF SpendKnown
  <2>2. /\ x \in Query /\ x.at = "write day" /\ x.slot = query[q].slot
        /\ query' = [query EXCEPT ![q] = x]
    BY <1>1, <1>14, <2>1 DEF ReadDay, Query, QueryPlaces
  <2> HIDE DEF x
  <2>. QED
    BY <1>12, <1>14, <2>2 DEF ReadDay, At, Runs, RunPlaces, nlWorld
<1>15. ASSUME NEW p \in RunPlaces, query' = [query EXCEPT ![q].at = p],
              Runs(q), UNCHANGED <<today, limit, slots>>
       PROVE  SlotInv'
  <2> DEFINE x == [query[q] EXCEPT !.at = p]
  <2>1. /\ x \in Query /\ x.at = p /\ x.slot = query[q].slot
        /\ query' = [query EXCEPT ![q] = x]
    BY <1>1, <1>15 DEF Query, QueryPlaces, RunPlaces
  <2> HIDE DEF x
  <2>. QED
    BY <1>12, <1>15, <2>1
<1>16. CASE WriteDay(q)
  <2>1. Runs(q) /\ UNCHANGED <<today, limit>>
    BY <1>16 DEF WriteDay, At, Runs, nlWorld
  <2>2. CASE FailQuery(q)
    BY <1>4, <2>1, <2>2 DEF FailQuery
  <2>3. CASE /\ query' = [query EXCEPT ![q].at = IF query[q].error THEN "commit" ELSE "read kept"]
             /\ UNCHANGED slots
    <3>1. CASE query[q].error
      BY <1>15, <2>1, <2>3, <3>1 DEF RunPlaces
    <3>2. CASE ~query[q].error
      BY <1>15, <2>1, <2>3, <3>2 DEF RunPlaces
    <3>. QED
      BY <3>1, <3>2
  <2>. QED
    BY <1>16, <2>2, <2>3 DEF WriteDay
<1>17. CASE ReadKept(q)
  <2> DEFINE x == [query[q] EXCEPT !.at = "write kept",
                                   !.insert = (kept[query[q].on] = NoRow)]
  <2>2. /\ x \in Query /\ x.at = "write kept" /\ x.slot = query[q].slot
        /\ query' = [query EXCEPT ![q] = x]
    BY <1>1, <1>17 DEF ReadKept, Query, QueryPlaces
  <2> HIDE DEF x
  <2>. QED
    BY <1>12, <1>17, <2>2 DEF ReadKept, At, Runs, RunPlaces, nlWorld
<1>18. CASE WriteKept(q)
  <2>1. Runs(q) /\ UNCHANGED <<today, limit>>
    BY <1>18 DEF WriteKept, At, Runs, nlWorld
  <2>2. CASE FailQuery(q)
    BY <1>4, <2>1, <2>2 DEF FailQuery
  <2>3. CASE query' = [query EXCEPT ![q].at = "commit"] /\ UNCHANGED slots
    BY <1>15, <2>1, <2>3 DEF RunPlaces
  <2>. QED
    BY <1>18, <2>2, <2>3 DEF WriteKept
<1>19. CASE CommitQuery(q)
  <2> DEFINE x == [NoQuery EXCEPT !.at = "end", !.paid = TRUE,
                            !.cost = query[q].cost, !.day = query[q].day]
  <2>1. x \in Query /\ x.at = "end"
    BY <1>1, <1>2 DEF Query, QueryPlaces
  <2>2. query' = [query EXCEPT ![q] = x] /\ Release(q) /\ UNCHANGED <<today, limit>>
    BY <1>19 DEF CommitQuery, nlWorld
  <2> HIDE DEF x
  <2>. QED
    BY <2>1, <2>2, OneEnds
<1>20. CASE DropQuery(q)
  BY <1>4, <1>20 DEF DropQuery, FailQuery
<1>. QED
  BY <1>6, <1>8, <1>9, <1>10, <1>11, <1>13, <1>14, <1>16, <1>17, <1>18, <1>19, <1>20

LEMMA SlotStep == SlotInv /\ SpendKnown /\ [NlSearchNext]_nlVars => SlotInv'
<1> SUFFICES ASSUME SlotInv, SpendKnown, [NlSearchNext]_nlVars PROVE SlotInv'
  OBVIOUS
<1>1. ASSUME UNCHANGED <<slots, query>>, today' \in Days, limit' \in Limits PROVE SlotInv'
  BY <1>1 DEF SlotInv, Accounted, Slotted, Under, Runs
<1>2. CASE ChangeLimit \/ Midnight \/ (\E k \in Questions : ExpireKept(k)) \/ UNCHANGED nlVars
  BY <1>1, <1>2, NlSearchAssumption
     DEF SlotInv, ChangeLimit, Midnight, ExpireKept, nlVars, nlWorld, Days
<1>3. ASSUME NEW q \in Queries,
             AskQuery(q) \/ CheckBudget(q) \/ LookUpKept(q) \/ Misconfigured(q)
               \/ ResolveSemaphore(q) \/ AcquireSlot(q) \/ OverCapacity(q)
               \/ Orchestrate(q) \/ ReadDay(q) \/ WriteDay(q) \/ ReadKept(q)
               \/ WriteKept(q) \/ CommitQuery(q) \/ DropQuery(q)
      PROVE  SlotInv'
  BY <1>3, ResolveKeeps, AcquireKeeps, QueryKeeps
<1>. QED
  BY <1>2, <1>3 DEF NlSearchNext

-----------------------------------------------------------------------------
\* NlSearch: what the queries of a day have cost.

\* What a query has paid is counted on the day it is recorded on, once; and who
\* pays has come to its end.
PaidAtTheEnd(q) == query[q].paid => query[q].at = "end"
DayCounted(d) ==
  /\ spent[d] \in Nat \cup {NoRow}
  /\ IsFiniteSet(Charged(d)) /\ Cost(d) = Cardinality(Charged(d))
KeptPaid(k) ==
  /\ kept[k] \in KeptAnswer \cup {NoRow}
  /\ kept[k] # NoRow => query[kept[k].by].paid

SpendInv ==
  /\ DOMAIN spent = Days /\ DOMAIN kept = Questions
  /\ kept = [k \in Questions |-> kept[k]] /\ spent = [d \in Days |-> spent[d]]
  /\ \A q \in Queries : PaidAtTheEnd(q)
  /\ \A d \in Days : DayCounted(d)
  /\ \A k \in Questions : KeptPaid(k)

-----------------------------------------------------------------------------
LEMMA SpendStart == NlSearchInit => SpendInv
<1> SUFFICES ASSUME NlSearchInit PROVE SpendInv
  OBVIOUS
<1>1. \A q \in Queries : ~query[q].paid
  BY DEF NlSearchInit, NoQuery
<1>2. /\ DOMAIN kept = Questions /\ kept = [k \in Questions |-> kept[k]]
      /\ \A k \in Questions : kept[k] = NoRow
  BY DEF NlSearchInit
<1>3. /\ DOMAIN spent = Days /\ spent = [d \in Days |-> spent[d]]
      /\ \A d \in Days : spent[d] \in {NoRow, 0}
  BY DEF NlSearchInit
<1>4. \A d \in Days : Charged(d) = {}
  BY <1>1 DEF Charged
<1>5. ASSUME NEW d \in Days PROVE DayCounted(d)
  <2>1. Cost(d) = 0
    BY <1>3 DEF Cost
  <2>2. IsFiniteSet(Charged(d)) /\ Cardinality(Charged(d)) = 0
    BY <1>4, FS_EmptySet
  <2>. QED
    BY <1>3, <2>1, <2>2 DEF DayCounted
<1>. QED
  BY <1>1, <1>2, <1>3, <1>5 DEF SpendInv, PaidAtTheEnd, KeptPaid

\* The step of a query that records nothing.
LEMMA NothingSpent ==
  ASSUME SlotInv, SpendInv, NEW q \in Queries, query[q].at # "end",
         NEW x, ~x.paid, query' = [query EXCEPT ![q] = x], UNCHANGED <<spent, kept>>
  PROVE  SpendInv'
<1>1. /\ query'[q] = x /\ \A p \in Queries : p # q => query'[p] = query[p]
      /\ ~query[q].paid
  BY DEF SlotInv, SpendInv, PaidAtTheEnd
<1>2. \A d : Charged(d)' = Charged(d)
  BY <1>1 DEF Charged
<1>3. \A d \in Days : DayCounted(d)'
  BY <1>2 DEF SpendInv, DayCounted, Cost
<1>4. \A p \in Queries : PaidAtTheEnd(p)'
  BY <1>1 DEF SpendInv, PaidAtTheEnd
<1>5. \A k \in Questions : KeptPaid(k)'
  BY <1>1, NlSearchAssumption DEF SpendInv, KeptPaid, KeptAnswer
<1>. QED
  BY <1>3, <1>4, <1>5 DEF SpendInv

LEMMA QueryStepSpendsNothing ==
  ASSUME SlotInv, SpendInv, NEW q \in Queries,
         AskQuery(q) \/ CheckBudget(q) \/ LookUpKept(q) \/ Misconfigured(q)
           \/ ResolveSemaphore(q) \/ AcquireSlot(q) \/ OverCapacity(q)
           \/ Orchestrate(q) \/ ReadDay(q) \/ WriteDay(q) \/ ReadKept(q)
           \/ WriteKept(q) \/ DropQuery(q)
  PROVE  SpendInv'
<1>1. query[q] \in Query /\ query \in [Queries -> Query]
  BY DEF SlotInv
<1>2. UNCHANGED <<spent, kept>> /\ query[q].at # "end"
  BY DEF AskQuery, CheckBudget, LookUpKept, Misconfigured, ResolveSemaphore, AcquireSlot,
         OverCapacity, Orchestrate, ReadDay, WriteDay, ReadKept, WriteKept, DropQuery, At
<1>3. ~query[q].paid
  BY <1>1, <1>2 DEF SpendInv, PaidAtTheEnd
<1>4. ~[NoQuery EXCEPT !.at = "end"].paid
  BY DEF NoQuery
<1>5. ASSUME EndQuery(q) PROVE SpendInv'
  BY <1>2, <1>4, <1>5, NothingSpent DEF EndQuery
<1>6. ASSUME NEW x, ~x.paid, query' = [query EXCEPT ![q] = x] PROVE SpendInv'
  BY <1>2, <1>6, NothingSpent
<1>7. ASSUME NEW at, query' = [query EXCEPT ![q].at = at] PROVE SpendInv'
  <2>1. ~[query[q] EXCEPT !.at = at].paid
    BY <1>1, <1>3 DEF Query
  <2>. QED
    BY <1>6, <1>7, <2>1
<1>8. CASE AskQuery(q)
  <2>1. PICK k \in Questions : query' = [query EXCEPT ![q].at = "gate", ![q].on = k]
    BY <1>8 DEF AskQuery
  <2>2. ~[query[q] EXCEPT !.at = "gate", !.on = k].paid
    BY <1>1, <1>3 DEF Query
  <2>. QED
    BY <1>6, <2>1, <2>2
<1>9. CASE CheckBudget(q) \/ LookUpKept(q) \/ Misconfigured(q) \/ OverCapacity(q)
            \/ DropQuery(q) \/ AcquireSlot(q)
  <2>1. EndQuery(q) \/ \E at : query' = [query EXCEPT ![q].at = at]
    BY <1>9 DEF CheckBudget, LookUpKept, Misconfigured, OverCapacity, DropQuery,
                FailQuery, AcquireSlot
  <2>. QED
    BY <1>5, <1>7, <2>1
<1>10. CASE WriteDay(q) \/ WriteKept(q)
  <2>1. EndQuery(q) \/ \E at : query' = [query EXCEPT ![q].at = at]
    BY <1>10 DEF WriteDay, WriteKept, FailQuery
  <2>. QED
    BY <1>5, <1>7, <2>1
<1>11. CASE ResolveSemaphore(q)
  <2>1. ~[query[q] EXCEPT !.at = "wait", !.slot = Len(Resolved)].paid
    BY <1>1, <1>3 DEF Query
  <2>. QED
    BY <1>6, <1>11, <2>1 DEF ResolveSemaphore
<1>12. CASE Orchestrate(q)
  <2>1. PICK c \in {0, 1}, e \in BOOLEAN :
          query' = [query EXCEPT ![q].at = "read day", ![q].cost = c, ![q].error = e]
    BY <1>12 DEF Orchestrate
  <2>2. ~[query[q] EXCEPT !.at = "read day", !.cost = c, !.error = e].paid
    BY <1>1, <1>3 DEF Query
  <2>. QED
    BY <1>6, <2>1, <2>2
<1>13. CASE ReadDay(q)
  <2>1. ~[query[q] EXCEPT !.at = "write day", !.day = today,
                          !.had = spent[today]].paid
    BY <1>1, <1>3 DEF Query
  <2>. QED
    BY <1>6, <1>13, <2>1 DEF ReadDay
<1>14. CASE ReadKept(q)
  <2>1. ~[query[q] EXCEPT !.at = "write kept",
                          !.insert = (kept[query[q].on] = NoRow)].paid
    BY <1>1, <1>3 DEF Query
  <2>. QED
    BY <1>6, <1>14, <2>1 DEF ReadKept
<1>. QED
  BY <1>8, <1>9, <1>10, <1>11, <1>12, <1>13, <1>14

\* The commit adds to a day what the query cost, and the query to those counted
\* on it.
LEMMA CommitCounts ==
  ASSUME SlotInv, SpendInv, NEW q \in Queries, CommitQuery(q)
  PROVE  SpendInv'
<1>1. query[q] \in Query /\ query \in [Queries -> Query]
  BY DEF SlotInv
<1>2. query[q].at = "commit" /\ ~query[q].paid
  BY DEF CommitQuery, At, SpendInv, PaidAtTheEnd
<1> SUFFICES ASSUME NEW day, day = query[q].day PROVE SpendInv'
  OBVIOUS
<1> DEFINE x == [NoQuery EXCEPT !.at = "end", !.paid = TRUE,
                          !.cost = query[q].cost, !.day = query[q].day]
<1>3. /\ x.at = "end" /\ x.paid /\ x.cost = query[q].cost /\ x.day = day
      /\ day \in Days /\ query[q].cost \in {0, 1}
  BY <1>1 DEF NoQuery, Query
<1>4. query' = [query EXCEPT ![q] = x]
  BY DEF CommitQuery
<1> HIDE DEF x
<1>5. query'[q] = x /\ \A p \in Queries : p # q => query'[p] = query[p]
  BY <1>1, <1>4
<1>6. /\ spent' = [spent EXCEPT ![day] = Added(q)]
      /\ Added(q) = Cost(day) + query[q].cost
  BY DEF CommitQuery, Added, Cost
<1>7. /\ spent'[day] = Added(q) /\ DOMAIN spent' = Days
      /\ spent' = [d \in Days |-> spent'[d]]
      /\ \A d \in Days : d # day => spent'[d] = spent[d]
  BY <1>3, <1>6 DEF SpendInv
<1>8. \A d \in Days : d # day => Charged(d)' = Charged(d)
  BY <1>2, <1>3, <1>5 DEF Charged
<1>9. ASSUME NEW d \in Days, d # day PROVE DayCounted(d)'
  BY <1>7, <1>8, <1>9 DEF SpendInv, DayCounted, Cost
<1>10. DayCounted(day)'
  <2>1. /\ IsFiniteSet(Charged(day)) /\ Cost(day) = Cardinality(Charged(day))
        /\ Cardinality(Charged(day)) \in Nat
    BY <1>3, FS_CardinalityType DEF SpendInv, DayCounted
  <2>2. Added(q) \in Nat
    BY <1>3, <1>6, <2>1
  <2>3. spent'[day] \in Nat /\ Cost(day)' = Added(q)
    BY <1>7, <2>2, NlSearchAssumption DEF Cost
  <2>4. CASE query[q].cost = 0
    <3>1. Charged(day)' = Charged(day)
      BY <1>2, <1>3, <1>5, <2>4 DEF Charged
    <3>. QED
      BY <1>6, <2>1, <2>3, <2>4, <3>1 DEF DayCounted
  <2>5. CASE query[q].cost = 1
    <3>1. Charged(day)' = Charged(day) \cup {q} /\ q \notin Charged(day)
      BY <1>2, <1>3, <1>5, <2>5 DEF Charged
    <3>2. /\ IsFiniteSet(Charged(day)')
          /\ Cardinality(Charged(day)') = Cardinality(Charged(day)) + 1
      BY <2>1, <3>1, FS_AddElement
    <3>. QED
      BY <1>6, <2>1, <2>3, <2>5, <3>2 DEF DayCounted
  <2>. QED
    BY <1>3, <2>4, <2>5
<1>11. \A p \in Queries : PaidAtTheEnd(p)'
  BY <1>3, <1>5 DEF SpendInv, PaidAtTheEnd
<1>12. /\ DOMAIN kept' = Questions /\ kept' = [k \in Questions |-> kept'[k]]
       /\ \A k \in Questions :
            kept'[k] = kept[k] \/ kept'[k] = [by |-> q, valid |-> TRUE]
  BY DEF CommitQuery, SpendInv
<1>13. \A p \in Queries : query[p].paid => query'[p].paid
  BY <1>3, <1>5
<1>14. ASSUME NEW k \in Questions PROVE KeptPaid(k)'
  <2>1. CASE kept'[k] = kept[k]
    BY <1>13, <2>1 DEF SpendInv, KeptPaid, KeptAnswer
  <2>2. CASE kept'[k] = [by |-> q, valid |-> TRUE]
    BY <1>3, <1>5, <2>2 DEF KeptPaid, KeptAnswer
  <2>. QED
    BY <1>12, <2>1, <2>2
<1>. QED
  BY <1>7, <1>9, <1>10, <1>11, <1>12, <1>14 DEF SpendInv

LEMMA SpendStep == SlotInv /\ SpendInv /\ [NlSearchNext]_nlVars => SpendInv'
<1> SUFFICES ASSUME SlotInv, SpendInv, [NlSearchNext]_nlVars PROVE SpendInv'
  OBVIOUS
<1>1. ASSUME UNCHANGED <<spent, query>>, \A k \in Questions : KeptPaid(k)',
             DOMAIN kept' = Questions, kept' = [k \in Questions |-> kept'[k]]
      PROVE  SpendInv'
  BY <1>1 DEF SpendInv, PaidAtTheEnd, DayCounted, Cost, Charged
<1>2. CASE ChangeLimit \/ Midnight \/ UNCHANGED nlVars
  <2>1. UNCHANGED <<spent, kept, query>>
    BY <1>2 DEF ChangeLimit, Midnight, nlVars
  <2>. QED
    BY <1>1, <2>1 DEF SpendInv, KeptPaid
<1>3. ASSUME NEW k \in Questions, ExpireKept(k) PROVE SpendInv'
  <2> DEFINE row == [kept[k] EXCEPT !.valid = FALSE]
  <2>1. row \in KeptAnswer /\ row.by = kept[k].by /\ kept[k] # NoRow
    BY <1>3 DEF ExpireKept, SpendInv, KeptPaid, KeptAnswer
  <2>2. kept' = [kept EXCEPT ![k] = row] /\ UNCHANGED <<spent, query>>
    BY <1>3 DEF ExpireKept
  <2> HIDE DEF row
  <2>3. /\ DOMAIN kept' = Questions /\ kept' = [j \in Questions |-> kept'[j]]
        /\ kept'[k] = row /\ \A j \in Questions : j # k => kept'[j] = kept[j]
    BY <2>2 DEF SpendInv
  <2>4. \A j \in Questions : KeptPaid(j)'
    BY <2>1, <2>2, <2>3 DEF SpendInv, KeptPaid
  <2>. QED
    BY <1>1, <2>2, <2>3, <2>4
<1>4. ASSUME NEW q \in Queries,
             AskQuery(q) \/ CheckBudget(q) \/ LookUpKept(q) \/ Misconfigured(q)
               \/ ResolveSemaphore(q) \/ AcquireSlot(q) \/ OverCapacity(q)
               \/ Orchestrate(q) \/ ReadDay(q) \/ WriteDay(q) \/ ReadKept(q)
               \/ WriteKept(q) \/ CommitQuery(q) \/ DropQuery(q)
      PROVE  SpendInv'
  BY <1>4, QueryStepSpendsNothing, CommitCounts
<1>. QED
  BY <1>2, <1>3, <1>4 DEF NlSearchNext

\* No day costs more than all the queries there are.
LEMMA SpendBounded == SpendInv => SpendKnown
<1> SUFFICES ASSUME SpendInv, NEW d \in Days PROVE spent[d] \in Spend \cup {NoRow}
  BY DEF SpendKnown
<1>1. Charged(d) \subseteq Queries /\ IsFiniteSet(Queries)
  BY NlSearchAssumption DEF Charged
<1>2. /\ Cardinality(Charged(d)) \in Nat /\ Cardinality(Queries) \in Nat
      /\ Cardinality(Charged(d)) <= Cardinality(Queries)
  BY <1>1, FS_Subset, FS_CardinalityType
<1>3. spent[d] = NoRow \/ spent[d] = Cardinality(Charged(d))
  BY DEF SpendInv, DayCounted, Cost
<1>. QED
  BY <1>2, <1>3 DEF Spend

\* Everything known of the questions asked in natural language.
LEMMA NlSearchInvariant == NlSearchSpec => [](SlotInv /\ SpendInv)
<1>1. SlotInv /\ SpendInv /\ [NlSearchNext]_nlVars => (SlotInv /\ SpendInv)'
  BY SlotStep, SpendStep, SpendBounded
<1>. QED
  BY <1>1, SlotStart, SpendStart, PTL DEF NlSearchSpec

\* Each day has cost what the queries recorded on it have, whatever number of
\* them overlap, fail, are left or are still running at midnight, and an answer
\* is in the cache only if its cost was recorded (record_spend and cache.store,
\* one transaction).
THEOREM SpendIsCounted == NlSearchSpec => []SpendAddsUp
<1>1. SpendInv => SpendAddsUp
  BY DEF SpendInv, DayCounted, KeptPaid, SpendAddsUp
<1>. QED
  BY <1>1, NlSearchInvariant, PTL

\* The slots taken of a semaphore are those of the queries that run under it,
\* whatever fails, is left or changes the setting meanwhile.
THEOREM SlotsAreNeverLost == NlSearchSpec => []SlotsComeBack
<1>1. SlotInv => SlotsComeBack
  BY DEF SlotInv, Accounted, Under, SlotsComeBack
<1>. QED
  BY <1>1, NlSearchInvariant, PTL

DropsCounted == drops \in 0..MaxDrops

LEMMA NlSearchTypes == SlotInv /\ SpendInv /\ DropsCounted => NlSearchTypeOK
<1> SUFFICES ASSUME SlotInv, SpendInv, DropsCounted PROVE NlSearchTypeOK
  OBVIOUS
<1>2. spent \in [Days -> Spend \cup {NoRow}]
  BY SpendBounded DEF SpendInv, SpendKnown
<1>3. kept \in [Questions -> KeptAnswer \cup {NoRow}]
  BY DEF SpendInv, KeptPaid
<1>. QED
  BY <1>2, <1>3 DEF SlotInv, DropsCounted, NlSearchTypeOK

\* Every query is at a place of the pipeline, every slot is of a semaphore made,
\* and no day costs more than all the queries there are (nl_search_query,
\* record_spend).
THEOREM NlSearchTypeCorrect == NlSearchSpec => []NlSearchTypeOK
<1>1. NlSearchInit => DropsCounted
  BY NlSearchAssumption DEF NlSearchInit, DropsCounted
<1>2. DropsCounted /\ [NlSearchNext]_nlVars => DropsCounted'
  <2> SUFFICES ASSUME DropsCounted, [NlSearchNext]_nlVars PROVE DropsCounted'
    OBVIOUS
  <2>1. drops' = drops \/ (drops < MaxDrops /\ drops' = drops + 1)
    BY DEF NlSearchNext, nlVars, nlWorld, AskQuery, CheckBudget, LookUpKept,
           Misconfigured, ResolveSemaphore, AcquireSlot, OverCapacity, Orchestrate,
           ReadDay, WriteDay, ReadKept, WriteKept, CommitQuery, DropQuery,
           ChangeLimit, Midnight, ExpireKept
  <2>. QED
    BY <2>1, NlSearchAssumption DEF DropsCounted
<1>3. NlSearchSpec => [](SlotInv /\ SpendInv /\ DropsCounted)
  BY <1>1, <1>2, NlSearchInvariant, PTL DEF NlSearchSpec
<1>. QED
  BY <1>3, NlSearchTypes, PTL

-----------------------------------------------------------------------------
(* Accounts *)

\* What is noted where.
CallFits(c) ==
  /\ call[c].at \in {"user", "role", "open", "list", "apply"} => call[c].of \in Members
  /\ call[c].kind # "session" <=> call[c].at \in {"list", "apply"}
  /\ call[c].from # NoSession => session[call[c].from] # NoSession
  /\ \A s \in call[c].listed : session[s] # NoSession

Knows(c) == ~call[c].met =>
  LET m == call[c].of IN
  /\ call[c].at \in {"user", "role", "open"} =>
       ~Changing(m) /\ call[c].password = account[m].password
  /\ call[c].at \in {"role", "open"} => IsOpenAccount(m)
  /\ call[c].at = "open" => call[c].level = ActiveRole(m)

Uncrossed(s) == session[s] # NoSession /\ session[s].live /\ ~session[s].crossed

Lists(c) == call[c].at = "apply" =>
  \A s \in Calls : Uncrossed(s) /\ session[s].of = call[c].of => s \in call[c].listed

CallsSound == \A c \in Calls : CallFits(c) /\ Knows(c) /\ Lists(c)

AccountsInv == AccountsTypeOK /\ CallsSound /\ LiveSessionsAreCurrent

-----------------------------------------------------------------------------
\* get_active_role returns one of the roles held.
LEMMA RoleIsHeld ==
  ASSUME NEW m \in Members
  PROVE  ActiveRole(m) \in Levels \cup {UserLevel}
<1>1. Held(m) \subseteq 1..4 /\ 1 \in Held(m)
  <2>1. \A l \in Levels : l \in 1..4
    BY AccountsAssumption
  <2>. QED
    BY <2>1 DEF Held, UserLevel
<1>2. \E l \in Held(m) : \A k \in Held(m) : k <= l
  <2>1. CASE 4 \in Held(m)
    BY <1>1, <2>1
  <2>2. CASE 4 \notin Held(m) /\ 3 \in Held(m)
    BY <1>1, <2>2
  <2>3. CASE 4 \notin Held(m) /\ 3 \notin Held(m) /\ 2 \in Held(m)
    BY <1>1, <2>3
  <2>4. CASE 4 \notin Held(m) /\ 3 \notin Held(m) /\ 2 \notin Held(m)
    BY <1>1, <2>4
  <2>. QED
    BY <2>1, <2>2, <2>3, <2>4
<1>3. ActiveRole(m) \in Held(m)
  BY <1>2 DEF ActiveRole
<1>. QED
  BY <1>3 DEF Held

LEMMA NoCallType == NoCall \in Call
BY DEF NoCall, Call, CallPlaces, Passwords, Grants

LEMMA AccountsStart == AccountsInit => AccountsInv
<1> SUFFICES ASSUME AccountsInit PROVE AccountsInv
  OBVIOUS
<1>1. AccountsTypeOK
  BY NoCallType DEF AccountsInit, AccountsTypeOK, Account, Passwords, Grants
<1>2. CallsSound
  BY DEF AccountsInit, CallsSound, CallFits, Knows, Lists, NoCall
<1>3. LiveSessionsAreCurrent
  BY DEF AccountsInit, LiveSessionsAreCurrent
<1>. QED
  BY <1>1, <1>2, <1>3 DEF AccountsInv

\* A request that moves, without becoming a change, and leaves the tables.
LEMMA CallMoves ==
  ASSUME AccountsInv, UNCHANGED <<account, role, session, mailed>>,
         NEW c \in Calls, NEW new \in Call, call' = [call EXCEPT ![c] = new],
         new.kind # "session" => new.kind = call[c].kind /\ new.of = call[c].of
                                   /\ call[c].at # "end",
         CallFits(c)', Knows(c)', Lists(c)'
  PROVE  AccountsInv'
<1>0. AccountsTypeOK /\ CallsSound /\ LiveSessionsAreCurrent
  BY DEF AccountsInv
<1>1. AccountsTypeOK'
  BY <1>0 DEF AccountsTypeOK
<1>2. LiveSessionsAreCurrent'
  BY <1>0 DEF LiveSessionsAreCurrent, IsOpenAccount, ActiveRole, Held
<1>3. ASSUME NEW m PROVE Changing(m)' => Changing(m)
  BY <1>0 DEF Changing, AccountsTypeOK
<1>4. ASSUME NEW d \in Calls, d # c PROVE CallFits(d)' /\ Knows(d)' /\ Lists(d)'
  <2>1. call'[d] = call[d]
    BY <1>0, <1>4 DEF AccountsTypeOK
  <2>2. CallFits(d) /\ Knows(d) /\ Lists(d)
    BY <1>0 DEF CallsSound
  <2>3. CallFits(d)' /\ Lists(d)'
    BY <2>1, <2>2 DEF CallFits, Lists, Uncrossed
  <2>4. Knows(d)'
    BY <2>1, <2>2, <1>3 DEF Knows, IsOpenAccount, ActiveRole, Held
  <2>. QED
    BY <2>3, <2>4
<1>5. CallsSound'
  BY <1>4 DEF CallsSound
<1>. QED
  BY <1>1, <1>2, <1>5 DEF AccountsInv

LEMMA EndsKeep ==
  ASSUME AccountsInv, NEW c \in Calls, EndCall(c),
         UNCHANGED <<account, role, session, mailed>>
  PROVE  AccountsInv'
<1>1. call \in [Calls -> Call] /\ [NoCall EXCEPT !.at = "end"] \in Call
  BY DEF AccountsInv, AccountsTypeOK, NoCall, Call, CallPlaces, Passwords, Grants
<1>2. call'[c] = [NoCall EXCEPT !.at = "end"]
  BY <1>1 DEF EndCall
<1>3. CallFits(c)' /\ Knows(c)' /\ Lists(c)'
  BY <1>2 DEF CallFits, Knows, Lists, NoCall
<1>. QED
  BY <1>1, <1>3, CallMoves DEF EndCall, NoCall

LEMMA FailCallKeeps ==
  ASSUME AccountsInv, NEW c \in Calls, FailCall(c) PROVE AccountsInv'
BY EndsKeep DEF FailCall

-----------------------------------------------------------------------------
LEMMA BeginLoginKeeps ==
  ASSUME AccountsInv, NEW c \in Calls, BeginLogin(c) PROVE AccountsInv'
<1>1. PICK m \in Members :
        /\ ComesNext(c) /\ IsOpenAccount(m)
        /\ call' = [call EXCEPT ![c] = [NoCall EXCEPT !.at = "role", !.of = m,
                      !.password = account[m].password, !.met = Changing(m)]]
        /\ UNCHANGED <<account, role, session, mailed>>
  BY DEF BeginLogin
<1> DEFINE new == [NoCall EXCEPT !.at = "role", !.of = m,
                     !.password = account[m].password, !.met = Changing(m)]
<1>2. call \in [Calls -> Call] /\ account[m] \in Account
  BY DEF AccountsInv, AccountsTypeOK
<1>3. Changing(m) \in BOOLEAN
  BY DEF Changing
<1>4. new \in Call
  BY <1>2, <1>3 DEF NoCall, Call, CallPlaces, Passwords, Grants, Account
<1>5. /\ call'[c].at = "role" /\ call'[c].of = m /\ call'[c].from = NoSession
      /\ call'[c].kind = "session" /\ call'[c].listed = {}
      /\ call'[c].password = account[m].password /\ call'[c].met = Changing(m)
  BY <1>1, <1>2 DEF NoCall
<1>6. CallFits(c)' /\ Lists(c)'
  BY <1>5 DEF CallFits, Lists
<1>7. Changing(m)' => Changing(m)
  BY <1>1, <1>2 DEF Changing, NoCall
<1>8. Knows(c)'
  <2>1. SUFFICES ASSUME ~call'[c].met
                 PROVE  /\ ~Changing(m)' /\ IsOpenAccount(m)'
                        /\ call'[c].password = account'[m].password
    BY <1>5 DEF Knows
  <2>. QED
    BY <2>1, <1>1, <1>5, <1>7 DEF IsOpenAccount
<1>9. new.kind = "session"
  BY DEF NoCall
<1>. QED
  BY <1>1, <1>4, <1>6, <1>8, <1>9, CallMoves

LEMMA BeginRotationKeeps ==
  ASSUME AccountsInv, NEW c \in Calls, BeginRotation(c) PROVE AccountsInv'
<1>1. PICK s \in Calls :
        /\ session[s] # NoSession /\ session[s].live
        /\ call' = [call EXCEPT ![c] = [NoCall EXCEPT !.at = "user",
                !.of = session[s].of, !.from = s, !.password = session[s].password,
                !.met = session[s].crossed \/ Changing(session[s].of)]]
        /\ UNCHANGED <<account, role, session, mailed>>
  BY DEF BeginRotation
<1>m. PICK m : m = session[s].of
  OBVIOUS
<1> DEFINE new == [NoCall EXCEPT !.at = "user",
                !.of = session[s].of, !.from = s, !.password = session[s].password,
                !.met = session[s].crossed \/ Changing(session[s].of)]
<1>2. call \in [Calls -> Call] /\ session[s] \in SessionRow
  BY <1>1 DEF AccountsInv, AccountsTypeOK
<1>3. Changing(m) \in BOOLEAN
  BY DEF Changing
<1>4. new \in Call /\ m \in Members
  BY <1>2, <1>3, <1>m DEF NoCall, Call, CallPlaces, Passwords, Grants, SessionRow
<1>5. /\ call'[c].at = "user" /\ call'[c].of = m /\ call'[c].from = s
      /\ call'[c].kind = "session" /\ call'[c].listed = {}
      /\ call'[c].password = session[s].password
      /\ call'[c].met = (session[s].crossed \/ Changing(m))
  BY <1>1, <1>2, <1>m DEF NoCall
<1>6. CallFits(c)' /\ Lists(c)'
  BY <1>1, <1>4, <1>5 DEF CallFits, Lists
<1>7. \A k : Changing(k)' => Changing(k)
  BY <1>1, <1>2 DEF Changing, NoCall
<1>8. ~session[s].crossed => session[s].password = account[m].password
  BY <1>1, <1>m DEF AccountsInv, LiveSessionsAreCurrent
<1>9. Knows(c)'
  <2>1. SUFFICES ASSUME ~call'[c].met
                 PROVE  ~Changing(m)' /\ call'[c].password = account'[m].password
    BY <1>5 DEF Knows
  <2>2. ~session[s].crossed /\ ~Changing(m)
    BY <2>1, <1>5
  <2>3. ~Changing(m)'
    BY <2>2, <1>7
  <2>. QED
    BY <2>2, <2>3, <1>1, <1>5, <1>8
<1>10. new.kind = "session"
  BY DEF NoCall
<1>. QED
  BY <1>1, <1>4, <1>6, <1>9, <1>10, CallMoves

LEMMA LoadUserKeeps ==
  ASSUME AccountsInv, NEW c \in Calls, LoadUser(c) PROVE AccountsInv'
<1>1. CASE ~IsOpenAccount(call[c].of)
  BY <1>1, EndsKeep DEF LoadUser
<1>2. CASE IsOpenAccount(call[c].of)
  <2> DEFINE new == [call[c] EXCEPT !.at = "role"]
  <2>1. call[c].at = "user" /\ call' = [call EXCEPT ![c] = new]
        /\ UNCHANGED <<account, role, session, mailed>>
    BY <1>2 DEF LoadUser
  <2>2. call \in [Calls -> Call] /\ CallFits(c) /\ Knows(c)
    BY DEF AccountsInv, AccountsTypeOK, CallsSound
  <2>3. new \in Call /\ call'[c] = new
    BY <2>1, <2>2 DEF Call, CallPlaces
  <2>4. call[c].kind = "session" /\ new.kind = "session"
    BY <2>1, <2>2 DEF CallFits, Call
  <2>5. CallFits(c)' /\ Lists(c)'
    BY <2>1, <2>2, <2>3, <2>4 DEF CallFits, Lists, Call
  <2>6. \A m : Changing(m)' => Changing(m)
    BY <2>1, <2>2, <2>3, <2>4 DEF Changing
  <2>7. Knows(c)'
    BY <1>2, <2>1, <2>2, <2>3, <2>6 DEF Knows, Call, IsOpenAccount
  <2>. QED
    BY <2>1, <2>3, <2>4, <2>5, <2>7, CallMoves
<1>. QED
  BY <1>1, <1>2

LEMMA LoadRoleKeeps ==
  ASSUME AccountsInv, NEW c \in Calls, LoadRole(c) PROVE AccountsInv'
<1> DEFINE new == [call[c] EXCEPT !.at = "open", !.level = ActiveRole(call[c].of)]
<1>1. call[c].at = "role" /\ call' = [call EXCEPT ![c] = new]
      /\ UNCHANGED <<account, role, session, mailed>>
  BY DEF LoadRole
<1>2. call \in [Calls -> Call] /\ CallFits(c) /\ Knows(c)
  BY DEF AccountsInv, AccountsTypeOK, CallsSound
<1>3. ActiveRole(call[c].of) \in Levels \cup {UserLevel}
  BY <1>1, <1>2, RoleIsHeld DEF CallFits
<1>4. new \in Call /\ call'[c] = new
  BY <1>1, <1>2, <1>3 DEF Call, CallPlaces
<1>5. call[c].kind = "session" /\ new.kind = "session"
  BY <1>1, <1>2 DEF CallFits, Call
<1>6. CallFits(c)' /\ Lists(c)'
  BY <1>1, <1>2, <1>4, <1>5 DEF CallFits, Lists, Call
<1>7. \A m : Changing(m)' => Changing(m)
  BY <1>1, <1>2, <1>4, <1>5 DEF Changing
<1>8. PICK m : m = call[c].of
  OBVIOUS
<1>9. /\ call'[c].of = m /\ call'[c].met = call[c].met /\ call'[c].at = "open"
      /\ call'[c].password = call[c].password /\ call'[c].level = ActiveRole(m)
  BY <1>2, <1>4, <1>8 DEF Call
<1>10. Knows(c)'
  <2>1. /\ ActiveRole(m)' = ActiveRole(m) /\ IsOpenAccount(m)' = IsOpenAccount(m)
        /\ account'[m].password = account[m].password
    BY <1>1 DEF ActiveRole, Held, IsOpenAccount
  <2>2. ~call[c].met => ~Changing(m) /\ IsOpenAccount(m)
                          /\ call[c].password = account[m].password
    BY <1>1, <1>2, <1>8 DEF Knows
  <2>3. SUFFICES ASSUME ~call'[c].met
                 PROVE  /\ ~Changing(m)' /\ IsOpenAccount(m)'
                        /\ call'[c].password = account'[m].password
                        /\ call'[c].level = ActiveRole(m)'
    BY <1>9 DEF Knows
  <2>. QED
    BY <1>7, <1>9, <2>1, <2>2, <2>3
<1>. QED
  BY <1>1, <1>4, <1>5, <1>6, <1>10, CallMoves

\* The change now knows every live session of its account.
LEMMA ListSessionsKeeps ==
  ASSUME AccountsInv, NEW c \in Calls, ListSessions(c) PROVE AccountsInv'
<1> DEFINE links == IF call[c].kind # "anonymise" THEN call[c].links
                    ELSE {l \in Links : mailed[call[c].of][l] = "open"}
           new == [call[c] EXCEPT !.listed = ToRevoke(c), !.at = "apply", !.links = links]
<1>1. call[c].at = "list" /\ call' = [call EXCEPT ![c] = new]
      /\ UNCHANGED <<account, role, session, mailed>>
  BY DEF ListSessions
<1>2. call \in [Calls -> Call] /\ CallFits(c)
  BY DEF AccountsInv, AccountsTypeOK, CallsSound
<1>3. new \in Call /\ call'[c] = new
  BY <1>1, <1>2 DEF Call, CallPlaces, ToRevoke, LiveSessions
<1>4. new.at = "apply" /\ new.listed = ToRevoke(c) /\ new.of = call[c].of
      /\ new.kind = call[c].kind /\ new.from = call[c].from
  BY <1>2 DEF Call
<1>5. CallFits(c)'
  BY <1>1, <1>2, <1>3, <1>4 DEF CallFits, ToRevoke, LiveSessions
<1>6. Lists(c)'
  BY <1>1, <1>3, <1>4 DEF Lists, ToRevoke, LiveSessions, Uncrossed
<1>7. Knows(c)'
  BY <1>3, <1>4 DEF Knows
<1>. QED
  BY <1>1, <1>3, <1>4, <1>5, <1>6, <1>7, CallMoves

\* A session that is to be uncrossed has met no change, so none under way has
\* yet to list it.
LEMMA OpenSessionKeeps ==
  ASSUME AccountsInv, NEW c \in Calls, OpenSession(c) PROVE AccountsInv'
<1> DEFINE done == [NoCall EXCEPT !.at = "end"]
           new == [of |-> call[c].of, level |-> call[c].level, live |-> TRUE,
                   password |-> call[c].password, crossed |-> call[c].met]
<1>0. AccountsTypeOK /\ CallsSound /\ LiveSessionsAreCurrent
  BY DEF AccountsInv
<1>1. call[c].at = "open" /\ call' = [call EXCEPT ![c] = done]
      /\ UNCHANGED <<account, role, mailed>>
  BY DEF OpenSession, EndCall
<1>2. call[c] \in Call /\ CallFits(c) /\ Knows(c)
  BY <1>0 DEF AccountsTypeOK, CallsSound
<1>3. done \in Call /\ done.at = "end" /\ done.kind = "session" /\ done.from = NoSession
      /\ done.listed = {}
  BY DEF NoCall, Call, CallPlaces, Passwords, Grants
<1>4. call'[c] = done /\ \A d \in Calls : d # c => call'[d] = call[d]
  BY <1>0, <1>1 DEF AccountsTypeOK
<1>5. new \in SessionRow
  BY <1>1, <1>2 DEF SessionRow, Call, CallFits
<1>6. /\ session'[c] = new
      /\ \A s \in Calls : s # c => session'[s] =
           IF s = call[c].from THEN [session[s] EXCEPT !.live = FALSE] ELSE session[s]
  BY DEF OpenSession
<1>7. ASSUME NEW s \in Calls, s # c, session[s] # NoSession
      PROVE  /\ session'[s] # NoSession /\ session'[s] \in SessionRow
             /\ Uncrossed(s)' => Uncrossed(s)
             /\ session'[s].of = session[s].of /\ session'[s].level = session[s].level
             /\ session'[s].password = session[s].password
  <2>1. session[s] \in SessionRow
    BY <1>0, <1>7 DEF AccountsTypeOK
  <2>2. CASE s = call[c].from
    <3>1. session'[s] = [session[s] EXCEPT !.live = FALSE]
      BY <1>6, <1>7, <2>2
    <3>. QED
      BY <2>1, <3>1, NoSessionAssumption DEF SessionRow, Uncrossed
  <2>3. CASE s # call[c].from
    BY <1>6, <1>7, <2>1, <2>3 DEF Uncrossed
  <2>. QED
    BY <2>2, <2>3
<1>8. \A s \in Calls : s # c /\ session[s] = NoSession => session'[s] = NoSession
  BY <1>2, <1>6, NoSessionAssumption DEF CallFits
<1>9. session'[c] # NoSession
  BY <1>5, <1>6, NoSessionAssumption
<1>10. AccountsTypeOK'
  <2>1. session' \in [Calls -> SessionRow \cup {NoSession}]
    <3>1. \A s \in Calls : session'[s] \in SessionRow \cup {NoSession}
      BY <1>5, <1>6, <1>7, <1>8
    <3>2. session' = [s \in Calls |-> session'[s]]
      BY DEF OpenSession
    <3>. QED
      BY <3>1, <3>2
  <2>. QED
    BY <2>1, <1>0, <1>1, <1>3 DEF AccountsTypeOK
<1>11. \A k : Changing(k)' => Changing(k)
  BY <1>3, <1>4 DEF Changing
<1>12. PICK m : m = call[c].of
  OBVIOUS
<1>13. ~call[c].met => /\ ~Changing(m) /\ IsOpenAccount(m)
                       /\ call[c].password = account[m].password
                       /\ call[c].level = ActiveRole(m)
  BY <1>1, <1>2, <1>12 DEF Knows
<1>14. \A k : ActiveRole(k)' = ActiveRole(k) /\ IsOpenAccount(k)' = IsOpenAccount(k)
  BY <1>1 DEF ActiveRole, Held, IsOpenAccount
<1>15. /\ session'[c].of = m /\ session'[c].crossed = call[c].met
       /\ session'[c].level = call[c].level
       /\ session'[c].password = call[c].password
  BY <1>6, <1>12
<1>16. LiveSessionsAreCurrent'
  <2>1. SUFFICES ASSUME NEW s \in Calls, Uncrossed(s)', NEW k, k = session'[s].of
                 PROVE  /\ IsOpenAccount(k)' /\ session'[s].level = ActiveRole(k)'
                        /\ session'[s].password = account'[k].password
    BY DEF LiveSessionsAreCurrent, Uncrossed
  <2>2. CASE s = c
    <3>1. ~call[c].met /\ k = m
      BY <2>1, <2>2, <1>15 DEF Uncrossed
    <3>. QED
      BY <3>1, <2>2, <1>1, <1>13, <1>14, <1>15
  <2>3. CASE s # c
    <3>1. Uncrossed(s) /\ session[s].of = k /\ session'[s].level = session[s].level
          /\ session'[s].password = session[s].password
      BY <2>1, <2>3, <1>7, <1>8 DEF Uncrossed
    <3>2. IsOpenAccount(k) /\ session[s].level = ActiveRole(k)
          /\ session[s].password = account[k].password
      BY <3>1, <1>0 DEF LiveSessionsAreCurrent, Uncrossed
    <3>. QED
      BY <3>1, <3>2, <1>1, <1>14
  <2>. QED
    BY <2>2, <2>3
<1>17. CallFits(c)' /\ Knows(c)' /\ Lists(c)'
  BY <1>3, <1>4 DEF CallFits, Knows, Lists
<1>18. ASSUME NEW d \in Calls, d # c PROVE CallFits(d)' /\ Knows(d)' /\ Lists(d)'
  <2>1. CallFits(d) /\ Knows(d) /\ Lists(d) /\ call'[d] = call[d] /\ call[d] \in Call
    BY <1>0, <1>4, <1>18 DEF CallsSound, AccountsTypeOK
  <2>2. CallFits(d)'
    BY <2>1, <1>7, <1>9 DEF CallFits, Call
  <2>3. Knows(d)'
    BY <2>1, <1>1, <1>11, <1>14 DEF Knows
  <2>4. Lists(d)'
    <3>1. SUFFICES ASSUME call[d].at = "apply", NEW s \in Calls, Uncrossed(s)',
                          session'[s].of = call[d].of
                   PROVE  s \in call[d].listed
      BY <2>1 DEF Lists
    <3>2. Changing(call[d].of)
      BY <2>1, <3>1 DEF CallFits, Changing
    <3>3. s # c
      BY <3>1, <3>2, <1>13, <1>15 DEF Uncrossed
    <3>4. Uncrossed(s) /\ session[s].of = call[d].of
      BY <3>1, <3>3, <1>7, <1>8 DEF Uncrossed
    <3>. QED
      BY <2>1, <3>1, <3>4 DEF Lists
  <2>. QED
    BY <2>2, <2>3, <2>4
<1>19. CallsSound'
  BY <1>17, <1>18 DEF CallsSound
<1>. QED
  BY <1>10, <1>16, <1>19 DEF AccountsInv

\* Sessions that end, and are as they were otherwise.
LEMMA SessionsEnd ==
  ASSUME AccountsTypeOK, NEW S \in SUBSET Calls, \A s \in S : session[s] # NoSession,
         session' = [s \in Calls |-> IF s \in S THEN [session[s] EXCEPT !.live = FALSE]
                                     ELSE session[s]]
  PROVE  /\ session' \in [Calls -> SessionRow \cup {NoSession}]
         /\ \A s \in Calls : session[s] # NoSession <=> session'[s] # NoSession
         /\ \A s \in Calls : Uncrossed(s)' =>
              Uncrossed(s) /\ s \notin S /\ session'[s] = session[s]
<1>1. ASSUME NEW s \in S PROVE session'[s] \in SessionRow /\ ~session'[s].live
  BY <1>1 DEF AccountsTypeOK, SessionRow
<1>2. ASSUME NEW s \in Calls, s \notin S PROVE session'[s] = session[s]
  BY <1>2
<1>3. \A s \in Calls : session'[s] \in SessionRow \cup {NoSession}
  BY <1>1, <1>2 DEF AccountsTypeOK
<1>4. session' \in [Calls -> SessionRow \cup {NoSession}]
  BY <1>3
<1>. QED
  BY <1>1, <1>2, <1>4, NoSessionAssumption DEF Uncrossed

LEMMA LogoutKeeps ==
  ASSUME AccountsInv, NEW c \in Calls, Logout(c) PROVE AccountsInv'
<1>0. AccountsTypeOK /\ CallsSound /\ LiveSessionsAreCurrent
  BY DEF AccountsInv
<1>1. UNCHANGED <<account, role, mailed, call>>
      /\ session' = [s \in Calls |-> IF s \in {c} THEN [session[s] EXCEPT !.live = FALSE]
                                     ELSE session[s]]
      /\ \A s \in {c} : session[s] # NoSession
  BY <1>0 DEF Logout, AccountsTypeOK
<1>2. /\ session' \in [Calls -> SessionRow \cup {NoSession}]
      /\ \A s \in Calls : session[s] # NoSession <=> session'[s] # NoSession
      /\ \A s \in Calls : Uncrossed(s)' => Uncrossed(s) /\ session'[s] = session[s]
  <2>1. {c} \in SUBSET Calls
    OBVIOUS
  <2>. QED
    BY <1>0, <1>1, <2>1, SessionsEnd
<1>3. AccountsTypeOK'
  BY <1>0, <1>1, <1>2 DEF AccountsTypeOK
<1>4. LiveSessionsAreCurrent'
  <2>1. SUFFICES ASSUME NEW s \in Calls, Uncrossed(s)', NEW k, k = session'[s].of
                 PROVE  /\ IsOpenAccount(k)' /\ session'[s].level = ActiveRole(k)'
                        /\ session'[s].password = account'[k].password
    BY DEF LiveSessionsAreCurrent, Uncrossed
  <2>2. Uncrossed(s) /\ session'[s] = session[s]
    BY <2>1, <1>2
  <2>3. IsOpenAccount(k) /\ session[s].level = ActiveRole(k)
        /\ session[s].password = account[k].password
    BY <2>1, <2>2, <1>0 DEF LiveSessionsAreCurrent, Uncrossed
  <2>. QED
    BY <2>2, <2>3, <1>1 DEF IsOpenAccount, ActiveRole, Held
<1>5. ASSUME NEW d \in Calls PROVE CallFits(d)' /\ Knows(d)' /\ Lists(d)'
  <2>1. CallFits(d) /\ Knows(d) /\ Lists(d) /\ call[d] \in Call
    BY <1>0 DEF CallsSound, AccountsTypeOK
  <2>2. CallFits(d)'
    BY <2>1, <1>1, <1>2 DEF CallFits, Call
  <2>3. Knows(d)'
    BY <2>1, <1>1 DEF Knows, Changing, IsOpenAccount, ActiveRole, Held
  <2>4. Lists(d)'
    BY <2>1, <1>1, <1>2 DEF Lists
  <2>. QED
    BY <2>2, <2>3, <2>4
<1>6. CallsSound'
  BY <1>5 DEF CallsSound
<1>. QED
  BY <1>3, <1>4, <1>6 DEF AccountsInv

LEMMA MailKeeps ==
  ASSUME AccountsInv, RequestReset \/ ExpireLink PROVE AccountsInv'
<1>1. UNCHANGED <<account, role, session, call>>
  BY DEF RequestReset, ExpireLink
<1>2. mailed' \in [Members -> [Links -> {"unsent", "open", "used"}]]
  <2>1. PICK m \in Members, l \in Links, v \in {"open", "used"} :
          mailed' = [mailed EXCEPT ![m][l] = v]
    BY DEF RequestReset, ExpireLink
  <2>. QED
    BY <2>1 DEF AccountsInv, AccountsTypeOK
<1>. QED
  BY <1>1, <1>2 DEF AccountsInv, AccountsTypeOK, CallsSound, CallFits, Knows, Lists,
     Uncrossed, Changing, LiveSessionsAreCurrent, IsOpenAccount, ActiveRole, Held

-----------------------------------------------------------------------------
\* A change begins: every other request for its account has met it.  One that
\* puts an account back in use finds no session it would have to list.
LEMMA LoadsKeeps ==
  ASSUME AccountsInv, NEW c \in Calls, NEW m \in Members, NEW kind \in Kinds,
         NEW level \in Levels \cup {UserLevel}, NEW row \in Grants,
         NEW links \in SUBSET Links, Loads(c, m, kind, level, row, links),
         kind = "activate" => ~account[m].active
  PROVE  AccountsInv'
<1> DEFINE new == [NoCall EXCEPT !.of = m, !.kind = kind, !.level = level,
                     !.row = row, !.links = links, !.idle = ~account[m].active,
                     !.at = IF kind = "activate" THEN "apply" ELSE "list"]
<1>0. AccountsTypeOK /\ CallsSound /\ LiveSessionsAreCurrent
  BY DEF AccountsInv
<1>1. UNCHANGED <<account, role, session, mailed>>
  BY DEF Loads
<1>2. call' = [d \in Calls |-> IF d = c THEN new
                               ELSE [call[d] EXCEPT !.met = @ \/ call[d].of = m]]
  BY DEF Loads
<1>3. new \in Call
  <2>1. PICK idle \in BOOLEAN : idle = ~account[m].active
    OBVIOUS
  <2>2. PICK place \in CallPlaces : place = IF kind = "activate" THEN "apply" ELSE "list"
    BY DEF CallPlaces
  <2>3. new = [NoCall EXCEPT !.of = m, !.kind = kind, !.level = level, !.row = row,
                 !.links = links, !.idle = idle, !.at = place]
    BY <2>1, <2>2
  <2>4. [NoCall EXCEPT !.of = m, !.kind = kind, !.level = level, !.row = row,
           !.links = links, !.idle = idle, !.at = place] \in Call
    BY NoCallType DEF Call
  <2>. QED
    BY <2>3, <2>4
<1>4. /\ call'[c] = new /\ new.of = m /\ new.from = NoSession /\ new.listed = {}
      /\ new.kind = kind /\ new.at = IF kind = "activate" THEN "apply" ELSE "list"
  BY <1>2 DEF NoCall
<1>5. ASSUME NEW d \in Calls, d # c
      PROVE  /\ call'[d] \in Call /\ call'[d].met = (call[d].met \/ call[d].of = m)
             /\ call'[d].at = call[d].at /\ call'[d].of = call[d].of
             /\ call'[d].from = call[d].from /\ call'[d].kind = call[d].kind
             /\ call'[d].password = call[d].password /\ call'[d].level = call[d].level
             /\ call'[d].listed = call[d].listed
  <2>1. call[d] \in Call /\ call'[d] = [call[d] EXCEPT !.met = @ \/ call[d].of = m]
    BY <1>0, <1>2, <1>5 DEF AccountsTypeOK
  <2>2. call'[d] \in Call
    BY <2>1 DEF Call
  <2>3. call'[d].met = (call[d].met \/ call[d].of = m)
    BY <2>1 DEF Call
  <2>. QED
    BY <2>1, <2>2, <2>3 DEF Call
<1>6. AccountsTypeOK'
  <2>1. \A d \in Calls : call'[d] \in Call
    BY <1>3, <1>4, <1>5
  <2>2. call' = [d \in Calls |-> call'[d]]
    BY <1>2
  <2>3. call' \in [Calls -> Call]
    BY <2>1, <2>2
  <2>. QED
    BY <2>3, <1>0, <1>1 DEF AccountsTypeOK
<1>7. LiveSessionsAreCurrent'
  BY <1>0, <1>1 DEF LiveSessionsAreCurrent, IsOpenAccount, ActiveRole, Held
<1>8. ASSUME NEW k, k # m PROVE Changing(k)' => Changing(k)
  <2>1. \A d \in Calls : call'[d].of = k => d # c
    BY <1>4, <1>8
  <2>. QED
    BY <2>1, <1>5 DEF Changing
<1>9. CallFits(c)' /\ Knows(c)'
  <2>1. /\ call'[c].at \in {"list", "apply"} /\ call'[c].kind # "session"
        /\ call'[c].of = m /\ call'[c].from = NoSession /\ call'[c].listed = {}
    BY <1>4 DEF Kinds
  <2>. QED
    BY <2>1 DEF CallFits, Knows
<1>10. Lists(c)'
  <2>1. CASE kind # "activate"
    BY <2>1, <1>4 DEF Lists
  <2>2. CASE kind = "activate"
    <3>1. ASSUME NEW s \in Calls, Uncrossed(s), session[s].of = m PROVE FALSE
      BY <2>2, <3>1, <1>0 DEF LiveSessionsAreCurrent, Uncrossed, IsOpenAccount
    <3>. QED
      BY <3>1, <1>1, <1>4 DEF Lists, Uncrossed
  <2>. QED
    BY <2>1, <2>2
<1>11. ASSUME NEW d \in Calls, d # c PROVE CallFits(d)' /\ Knows(d)' /\ Lists(d)'
  <2>1. CallFits(d) /\ Knows(d) /\ Lists(d)
    BY <1>0 DEF CallsSound
  <2>2. CallFits(d)'
    BY <2>1, <1>1, <1>5, <1>11 DEF CallFits
  <2>3. Lists(d)'
    BY <2>1, <1>1, <1>5, <1>11 DEF Lists, Uncrossed
  <2>4. Knows(d)'
    <3>1. PICK k : k = call[d].of
      OBVIOUS
    <3>2. SUFFICES ASSUME ~call'[d].met PROVE Knows(d)'
      BY DEF Knows
    <3>3. ~call[d].met /\ k # m
      BY <3>1, <3>2, <1>5, <1>11
    <3>4. Changing(k)' => Changing(k)
      BY <3>3, <1>8
    <3>5. /\ ActiveRole(k)' = ActiveRole(k) /\ IsOpenAccount(k)' = IsOpenAccount(k)
          /\ account'[k].password = account[k].password
      BY <1>1 DEF ActiveRole, Held, IsOpenAccount
    <3>. QED
      BY <2>1, <3>1, <3>3, <3>4, <3>5, <1>5, <1>11 DEF Knows
  <2>. QED
    BY <2>2, <2>3, <2>4
<1>12. CallsSound'
  BY <1>9, <1>10, <1>11 DEF CallsSound
<1>. QED
  BY <1>6, <1>7, <1>12 DEF AccountsInv

LEMMA ChangesBegin ==
  ASSUME AccountsInv, NEW c \in Calls,
         \/ ChangePassword(c) \/ ConfirmReset(c) \/ AssignRole(c) \/ RevokeRole(c)
         \/ SetActive(c) \/ SoftDelete(c) \/ Anonymise(c)
  PROVE  AccountsInv'
<1>1. PICK m \in Members, kind \in Kinds, level \in Levels \cup {UserLevel},
           row \in Grants, links \in SUBSET Links :
        /\ Loads(c, m, kind, level, row, links)
        /\ kind = "activate" => ~account[m].active
  <2>0. role \in [Members -> [Levels -> Grants]] /\ NoGrant \in Grants
        /\ {} \in SUBSET Links /\ \A l \in Links : {l} \in SUBSET Links
    BY DEF AccountsInv, AccountsTypeOK, Grants
  <2>1. CASE ChangePassword(c)
    BY <2>0, <2>1 DEF ChangePassword, Kinds
  <2>2. CASE ConfirmReset(c)
    BY <2>0, <2>2 DEF ConfirmReset, Kinds
  <2>3. CASE AssignRole(c)
    BY <2>0, <2>3 DEF AssignRole, Kinds
  <2>4. CASE RevokeRole(c)
    BY <2>0, <2>4 DEF RevokeRole, Kinds
  <2>5. CASE SetActive(c)
    <3>1. PICK m \in Members :
            Loads(c, m, IF account[m].active THEN "deactivate" ELSE "activate",
                  UserLevel, NoGrant, {})
      BY <2>5 DEF SetActive
    <3>2. CASE account[m].active
      BY <2>0, <3>1, <3>2 DEF Kinds
    <3>3. CASE ~account[m].active
      BY <2>0, <3>1, <3>3 DEF Kinds
    <3>. QED
      BY <3>2, <3>3
  <2>6. CASE SoftDelete(c)
    BY <2>0, <2>6 DEF SoftDelete, Kinds
  <2>7. CASE Anonymise(c)
    BY <2>0, <2>7 DEF Anonymise, Kinds
  <2>. QED
    BY <2>1, <2>2, <2>3, <2>4, <2>5, <2>6, <2>7
<1>. QED
  BY <1>1, LoadsKeeps

\* What a change writes has its type.
LEMMA ChangeTypes ==
  ASSUME AccountsInv, NEW c \in Calls, NEW m \in Members
  PROVE  /\ Changed(c, account[m]) \in Account
         /\ Regranted(c, role[m]) \in [Levels -> Grants]
         /\ Spent(c, mailed[m]) \in [Links -> {"unsent", "open", "used"}]
<1>1. /\ account[m] \in Account /\ role[m] \in [Levels -> Grants]
      /\ mailed[m] \in [Links -> {"unsent", "open", "used"}]
  BY DEF AccountsInv, AccountsTypeOK
<1>2. Changed(c, account[m]) \in Account
  <2>1. Changed(c, account[m]).active \in BOOLEAN
    BY <1>1 DEF Changed, Account
  <2>2. Changed(c, account[m]).deleted \in BOOLEAN
    BY <1>1 DEF Changed, Account
  <2>3. Changed(c, account[m]).password \in Passwords
    BY <1>1 DEF Changed, Account, Passwords
  <2>. QED
    BY <2>1, <2>2, <2>3 DEF Changed, Account
<1>3. Regranted(c, role[m]) \in [Levels -> Grants]
  BY <1>1 DEF Regranted, Grants
<1>4. Spent(c, mailed[m]) \in [Links -> {"unsent", "open", "used"}]
  BY <1>1 DEF Spent
<1>. QED
  BY <1>2, <1>3, <1>4

\* A change commits: the sessions of its account that were not crossed end, and
\* those of the others are as they were.
LEMMA CommitChangeKeeps ==
  ASSUME AccountsInv, NEW c \in Calls, CommitChange(c) PROVE AccountsInv'
<1> DEFINE done == [NoCall EXCEPT !.at = "end"]
<1>0. AccountsTypeOK /\ CallsSound /\ LiveSessionsAreCurrent
  BY DEF AccountsInv
<1>1. call[c].at = "apply" /\ call[c] \in Call /\ CallFits(c) /\ Lists(c)
  BY <1>0 DEF CommitChange, CallsSound, AccountsTypeOK
<1>2. PICK m \in Members : m = call[c].of
  BY <1>1 DEF CallFits
<1>3. /\ account' = [account EXCEPT ![m] = Changed(c, account[m])]
      /\ role' = [role EXCEPT ![m] = Regranted(c, role[m])]
      /\ mailed' = [mailed EXCEPT ![m] = Spent(c, mailed[m])]
      /\ call' = [call EXCEPT ![c] = done]
  BY <1>2 DEF CommitChange, EndCall
<1>4. done \in Call /\ done.at = "end" /\ done.kind = "session" /\ done.from = NoSession
      /\ done.listed = {}
  BY DEF NoCall, Call, CallPlaces, Passwords, Grants
<1>5. call'[c] = done /\ \A d \in Calls : d # c => call'[d] = call[d]
  BY <1>0, <1>3 DEF AccountsTypeOK
<1>6. /\ session' \in [Calls -> SessionRow \cup {NoSession}]
      /\ \A s \in Calls : session[s] # NoSession <=> session'[s] # NoSession
      /\ \A s \in Calls : Uncrossed(s)' =>
           Uncrossed(s) /\ s \notin call[c].listed /\ session'[s] = session[s]
  <2>1. call[c].listed \in SUBSET Calls /\ \A s \in call[c].listed : session[s] # NoSession
    BY <1>1 DEF Call, CallFits
  <2>2. session' = [s \in Calls |-> IF s \in call[c].listed
                     THEN [session[s] EXCEPT !.live = FALSE] ELSE session[s]]
    BY DEF CommitChange
  <2>. QED
    BY <2>1, <2>2, <1>0, SessionsEnd
<1>7. AccountsTypeOK'
  BY <1>0, <1>3, <1>4, <1>6, ChangeTypes DEF AccountsTypeOK
<1>8. \A k : Changing(k)' => Changing(k)
  BY <1>4, <1>5 DEF Changing
<1>9. Changing(m)
  BY <1>1, <1>2 DEF Changing, CallFits
<1>10. ASSUME NEW k, k # m
       PROVE  /\ ActiveRole(k)' = ActiveRole(k) /\ IsOpenAccount(k)' = IsOpenAccount(k)
              /\ account'[k].password = account[k].password
  <2>1. account'[k] = account[k] /\ role'[k] = role[k]
    BY <1>0, <1>3, <1>10 DEF AccountsTypeOK
  <2>. QED
    BY <2>1 DEF ActiveRole, Held, IsOpenAccount
<1>11. LiveSessionsAreCurrent'
  <2>1. SUFFICES ASSUME NEW s \in Calls, Uncrossed(s)', NEW k, k = session'[s].of
                 PROVE  /\ IsOpenAccount(k)' /\ session'[s].level = ActiveRole(k)'
                        /\ session'[s].password = account'[k].password
    BY DEF LiveSessionsAreCurrent, Uncrossed
  <2>2. Uncrossed(s) /\ s \notin call[c].listed /\ session'[s] = session[s]
    BY <2>1, <1>6
  <2>3. k # m
    BY <2>1, <2>2, <1>1, <1>2 DEF Lists
  <2>4. IsOpenAccount(k) /\ session[s].level = ActiveRole(k)
        /\ session[s].password = account[k].password
    BY <2>1, <2>2, <1>0 DEF LiveSessionsAreCurrent, Uncrossed
  <2>. QED
    BY <2>2, <2>3, <2>4, <1>10
<1>12. CallFits(c)' /\ Knows(c)' /\ Lists(c)'
  BY <1>4, <1>5 DEF CallFits, Knows, Lists
<1>13. ASSUME NEW d \in Calls, d # c PROVE CallFits(d)' /\ Knows(d)' /\ Lists(d)'
  <2>1. CallFits(d) /\ Knows(d) /\ Lists(d) /\ call'[d] = call[d] /\ call[d] \in Call
    BY <1>0, <1>5, <1>13 DEF CallsSound, AccountsTypeOK
  <2>2. CallFits(d)'
    BY <2>1, <1>6, NoSessionAssumption DEF CallFits, Call
  <2>3. Lists(d)'
    BY <2>1, <1>6 DEF Lists
  <2>4. Knows(d)'
    <3>1. PICK k : k = call[d].of
      OBVIOUS
    <3>2. CASE k # m
      BY <2>1, <3>1, <3>2, <1>8, <1>10 DEF Knows
    <3>3. CASE k = m
      BY <2>1, <3>1, <3>3, <1>9 DEF Knows
    <3>. QED
      BY <3>2, <3>3
  <2>. QED
    BY <2>2, <2>3, <2>4
<1>14. CallsSound'
  BY <1>12, <1>13 DEF CallsSound
<1>. QED
  BY <1>7, <1>11, <1>14 DEF AccountsInv

-----------------------------------------------------------------------------
LEMMA AccountsStep == AccountsInv /\ [AccountsNext]_accountVars => AccountsInv'
<1> SUFFICES ASSUME AccountsInv, [AccountsNext]_accountVars PROVE AccountsInv'
  OBVIOUS
<1>1. ASSUME NEW c \in Calls,
             \/ BeginLogin(c) \/ BeginRotation(c) \/ LoadUser(c) \/ LoadRole(c)
             \/ OpenSession(c) \/ Logout(c)
      PROVE  AccountsInv'
  BY <1>1, BeginLoginKeeps, BeginRotationKeeps, LoadUserKeeps, LoadRoleKeeps,
     OpenSessionKeeps, LogoutKeeps
<1>2. ASSUME NEW c \in Calls, ListSessions(c) \/ CommitChange(c) \/ FailCall(c)
      PROVE  AccountsInv'
  BY <1>2, ListSessionsKeeps, CommitChangeKeeps, FailCallKeeps
<1>3. CASE UNCHANGED accountVars
  BY <1>3 DEF accountVars, AccountsInv, AccountsTypeOK, CallsSound, CallFits, Knows,
     Lists, Uncrossed, Changing, LiveSessionsAreCurrent, IsOpenAccount, ActiveRole, Held
<1>. QED
  BY <1>1, <1>2, <1>3, ChangesBegin, MailKeeps DEF AccountsNext

\* The strengthening of LiveSessionsAreCurrent holds of every behaviour of the
\* requests that open sessions and of those that change accounts
\* (services/auth.py, password_reset.py, users.py, gdpr.py).
THEOREM AccountsInvariant == AccountsSpec => []AccountsInv
BY AccountsStart, AccountsStep, PTL DEF AccountsSpec

\* Accounts, grants, sessions and the requests on them keep their types (the rows
\* of users, user_roles and refresh_tokens).
THEOREM AccountsTypeCorrect == AccountsSpec => []AccountsTypeOK
BY AccountsInvariant, PTL DEF AccountsInv

\* A live session has the role and the password its account has now, and its
\* account is open, unless it was opened while the account was being changed:
\* each of the handlers that change an account revokes what another could have
\* opened, for any number of users, roles and requests.
THEOREM SessionsStayCurrent == AccountsSpec => []LiveSessionsAreCurrent
BY AccountsInvariant, PTL DEF AccountsInv

-----------------------------------------------------------------------------
(* The seven together (MCOutputs): none changes what another reads, so what    *)
(* they do in turn is, for each, what it does alone.                           *)

LEMMA OutputsStepOfEach ==
  ASSUME [OutputsNext]_outputVars
  PROVE  /\ [SiteBuildNext]_siteVars /\ [SearchPagesNext]_searchPageVars
         /\ [ForgeSyncNext]_forgeVars /\ [DepositsNext]_depositVars
         /\ [NlSearchNext]_nlVars /\ [AccountsNext]_accountVars
         /\ [HarvestNext]_harvestVars
<1>1. CASE UNCHANGED outputVars
  BY <1>1 DEF outputVars
<1>2. CASE OutputsNext
  BY <1>2 DEF OutputsNext, Only
<1>. QED
  BY <1>1, <1>2

\* Every behaviour of the seven in turn is one of each: the website, the engine,
\* the forge, the deposit, the questions, the accounts and the harvests.
THEOREM OutputsFollowEach ==
  OutputsSpec => /\ SiteBuildSpec /\ SearchPagesSpec /\ ForgeSyncSpec /\ DepositsSpec
                 /\ NlSearchSpec /\ AccountsSpec /\ HarvestSpec
<1>1. OutputsInit => /\ SiteBuildInit /\ SearchPagesInit /\ ForgeSyncInit /\ DepositsInit
                     /\ NlSearchInit /\ AccountsInit /\ HarvestInit
  BY DEF OutputsInit
<1>2. [OutputsNext]_outputVars =>
        /\ [SiteBuildNext]_siteVars /\ [SearchPagesNext]_searchPageVars
        /\ [ForgeSyncNext]_forgeVars /\ [DepositsNext]_depositVars
        /\ [NlSearchNext]_nlVars /\ [AccountsNext]_accountVars
        /\ [HarvestNext]_harvestVars
  BY OutputsStepOfEach
<1>. QED
  BY <1>1, <1>2, PTL
  DEF OutputsSpec, SiteBuildSpec, SearchPagesSpec, ForgeSyncSpec, DepositsSpec,
      NlSearchSpec, AccountsSpec, HarvestSpec

\* The website and its builds, the engine's pages, the link and its requests, the
\* deposit, the questions, the accounts and the harvests keep their types.
THEOREM OutputsTypeCorrect == OutputsSpec => []OutputsTypeOK
<1>1. (/\ SiteBuildTypeOK /\ SearchPagesTypeOK /\ ForgeTypeOK /\ DepositsTypeOK
       /\ NlSearchTypeOK /\ AccountsTypeOK /\ HarvestTypeOK) => OutputsTypeOK
  BY DEF OutputsTypeOK
<1>. QED
  BY <1>1, OutputsFollowEach, SiteBuildTypeCorrect, SearchPagesTypeCorrect,
     ForgeTypeCorrect, DepositsTypeCorrect, NlSearchTypeCorrect, AccountsTypeCorrect,
     HarvestTypeCorrect, PTL
=============================================================================
