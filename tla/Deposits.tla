------------------------------ MODULE Deposits ------------------------------
(***************************************************************************)
(* The deposit of a published collection on Zenodo (zenodo_deposit; the    *)
(* Dataverse plugin has the same flow): a draft is created, the documents  *)
(* of the snapshot are uploaded, the draft is published, and the outcome   *)
(* is recorded in plugin_data, in a transaction of its own at the end.     *)
(* Requests are repeated when their answer does not come, although the     *)
(* archive may have done what they asked; attempts of the publication hook *)
(* and of the manual endpoint exclude each other only by that row.         *)
(***************************************************************************)
EXTENDS Integers, FiniteSets

CONSTANTS
  Papers,       \* documents of the collection
  Attempts,     \* attempts to deposit, as they arrive
  MaxTries,     \* _MAX_RETRIES
  MaxOutages,   \* bound: answers that do not come, processes killed
  MaxSettings,  \* bound: changes of the auto_publish setting
  NoDeposit

ASSUME DepositsAssumption ==
  /\ Attempts \subseteq Nat
  /\ MaxTries \in Nat \ {0} /\ MaxOutages \in Nat /\ MaxSettings \in Nat

VARIABLES
  auto,         \* the setting zenodo_auto_publish
  deposits,     \* the archive's side: the deposits it has
  receipt,      \* the collection's row in plugin_data
  attempt,      \* the attempts
  outages,      \* answers lost and processes killed so far
  settings,     \* changes of the setting so far
  crossed       \* history: an attempt began before another was over

depositVars ==
  <<auto, deposits, receipt, attempt, outages, settings, crossed>>

-----------------------------------------------------------------------------
\* Each try of an attempt to create a draft may make one, which goes by the
\* attempt and the number of the try.
Ids == Attempts \X (1..MaxTries)

States == {"draft", "published"}

\* A deposit on the archive's side, with the documents it has; given (history)
\* is what its attempt had loaded, forced whether it came from the endpoint.
Deposit == [state : States, has : SUBSET Papers, given : SUBSET Papers,
            forced : BOOLEAN]

\* id is the deposit that a row which is not failed names.
Receipt == [status : States \cup {"failed"}, id : Ids \cup {NoDeposit}]

ASSUME NoDepositAssumption == NoDeposit \notin Deposit /\ NoDeposit \notin Receipt

AttemptPlaces == {"none", "load", "create", "upload", "publish", "recording",
                  "failing", "end"}

\* publish is auto_publish as read at the start, files what was loaded of the
\* snapshot, sent what was uploaded, tries the tries of the request under way.
Attempt == [at : AttemptPlaces, forced : BOOLEAN, publish : BOOLEAN,
            files : SUBSET Papers, sent : SUBSET Papers, id : Ids \cup {NoDeposit},
            tries : 0..MaxTries, status : States]

NoAttempt == [at |-> "none", forced |-> FALSE, publish |-> FALSE, files |-> {},
              sent |-> {}, id |-> NoDeposit, tries |-> 0, status |-> "draft"]

DepositsTypeOK ==
  /\ auto \in BOOLEAN
  /\ deposits \in [Ids -> Deposit \cup {NoDeposit}]
  /\ receipt \in Receipt \cup {NoDeposit}
  /\ attempt \in [Attempts -> Attempt]
  /\ outages \in 0..MaxOutages /\ settings \in 0..MaxSettings
  /\ crossed \in BOOLEAN

-----------------------------------------------------------------------------
Made == {i \in Ids : deposits[i] # NoDeposit}

Underway == \E a \in Attempts : attempt[a].at \notin {"none", "end"}

\* Mutant: only a published deposit counts.
PublishedOnly == receipt # NoDeposit /\ receipt.status = "published"

AlreadyDeposited == receipt # NoDeposit /\ receipt.status \in States

Step(a, at) == attempt' = [attempt EXCEPT ![a].at = at, ![a].tries = 0]
Drop(a, at) == attempt' = [attempt EXCEPT ![a] = [NoAttempt EXCEPT !.at = at]]

(* deposit_collection *)

\* The hook of the publication, or the manual endpoint, which forces.
BeginDeposit(a) == \E force \in BOOLEAN :
  /\ attempt[a].at = "none" /\ \A b \in Attempts : b < a => attempt[b].at # "none"
  /\ IF AlreadyDeposited /\ ~force THEN Drop(a, "end")
     ELSE attempt' = [attempt EXCEPT ![a].at = "load", ![a].forced = force,
                                     ![a].publish = auto]
  /\ crossed' = (crossed \/ Underway)
  /\ UNCHANGED <<auto, deposits, receipt, outages, settings>>

\* The documents of the snapshot, without those that cannot be read.
LoadFiles(a) ==
  /\ attempt[a].at = "load"
  /\ \E read \in SUBSET Papers :
       attempt' = [attempt EXCEPT ![a].files = read, ![a].at = "create"]
  /\ UNCHANGED <<auto, deposits, receipt, outages, settings, crossed>>

\* An answer does not come, or is an error of the server: the request is made
\* again, until the last try.
TryAgain(a) ==
  /\ outages < MaxOutages /\ outages' = outages + 1
  /\ IF attempt[a].tries + 1 < MaxTries
       THEN attempt' = [attempt EXCEPT ![a].tries = @ + 1]
       ELSE Drop(a, "failing")

\* The draft that the try under way makes.
Draft(a) == <<a, attempt[a].tries + 1>>

NewDraft(a) == deposits' = [deposits EXCEPT ![Draft(a)] =
                 [state |-> "draft", has |-> {}, given |-> attempt[a].files,
                  forced |-> attempt[a].forced]]

CreateDraft(a) ==
  /\ attempt[a].at = "create"
  /\ NewDraft(a)
  /\ attempt' = [attempt EXCEPT ![a].at = "upload", ![a].id = Draft(a),
                                ![a].tries = 0]
  /\ UNCHANGED <<auto, receipt, outages, settings, crossed>>

\* Whether the archive made the draft before the answer was lost or not.
CreateUnanswered(a) ==
  /\ attempt[a].at = "create"
  /\ NewDraft(a) \/ UNCHANGED deposits
  /\ TryAgain(a)
  /\ UNCHANGED <<auto, receipt, settings, crossed>>

\* Declaring, sending and committing one document.
UploadFile(a) ==
  /\ attempt[a].at = "upload"
  /\ \E f \in attempt[a].files \ attempt[a].sent :
       /\ deposits' = [deposits EXCEPT ![attempt[a].id].has = @ \cup {f}]
       /\ attempt' = [attempt EXCEPT ![a].sent = @ \cup {f}]
  /\ UNCHANGED <<auto, receipt, outages, settings, crossed>>

\* A request is refused, as is the declaration of a file when it is repeated.
RequestRefused(a) ==
  /\ attempt[a].at \in {"create", "upload", "publish"}
  /\ outages < MaxOutages /\ outages' = outages + 1
  /\ Drop(a, "failing")
  /\ UNCHANGED <<auto, deposits, receipt, settings, crossed>>

\* Mutant: the draft is published when there is nothing left to read.
Loaded(a) == TRUE

Uploaded(a) == attempt[a].sent = attempt[a].files

EndUpload(a) ==
  /\ attempt[a].at = "upload" /\ Uploaded(a)
  /\ Step(a, IF attempt[a].publish THEN "publish" ELSE "recording")
  /\ UNCHANGED <<auto, deposits, receipt, outages, settings, crossed>>

\* When a publication whose answer was lost is repeated, there is no such draft
\* any more.
PublishDraft(a) ==
  /\ attempt[a].at = "publish"
  /\ IF deposits[attempt[a].id].state = "published"
       THEN Drop(a, "failing") /\ UNCHANGED deposits
       ELSE /\ deposits' = [deposits EXCEPT ![attempt[a].id].state = "published"]
            /\ attempt' = [attempt EXCEPT ![a].at = "recording",
                                          ![a].status = "published"]
  /\ UNCHANGED <<auto, receipt, outages, settings, crossed>>

PublishUnanswered(a) ==
  /\ attempt[a].at = "publish"
  /\ \E done \in States : deposits' =
       IF done = "published"
         THEN [deposits EXCEPT ![attempt[a].id].state = done] ELSE deposits
  /\ TryAgain(a)
  /\ UNCHANGED <<auto, receipt, settings, crossed>>

RecordDeposit(a) ==
  /\ attempt[a].at = "recording"
  /\ receipt' = [status |-> attempt[a].status, id |-> attempt[a].id]
  /\ Drop(a, "end")
  /\ UNCHANGED <<auto, deposits, outages, settings, crossed>>

\* The row of an earlier deposit is overwritten.
RecordFailedDeposit(a) ==
  /\ attempt[a].at = "failing"
  /\ receipt' = [status |-> "failed", id |-> NoDeposit]
  /\ Drop(a, "end")
  /\ UNCHANGED <<auto, deposits, outages, settings, crossed>>

KillAttempt(a) ==
  /\ attempt[a].at \notin {"none", "end"}
  /\ outages < MaxOutages /\ outages' = outages + 1
  /\ Drop(a, "end")
  /\ UNCHANGED <<auto, deposits, receipt, settings, crossed>>

SetAutoPublish ==
  /\ settings < MaxSettings /\ settings' = settings + 1
  /\ auto' = ~auto
  /\ UNCHANGED <<deposits, receipt, attempt, outages, crossed>>

DepositsInit ==
  /\ auto \in BOOLEAN
  /\ deposits = [i \in Ids |-> NoDeposit]
  /\ receipt = NoDeposit
  /\ attempt = [a \in Attempts |-> NoAttempt]
  /\ outages = 0 /\ settings = 0 /\ crossed = FALSE

DepositsNext ==
  \/ SetAutoPublish
  \/ \E a \in Attempts :
       \/ BeginDeposit(a) \/ LoadFiles(a) \/ CreateDraft(a) \/ CreateUnanswered(a)
       \/ UploadFile(a) \/ RequestRefused(a) \/ EndUpload(a) \/ PublishDraft(a)
       \/ PublishUnanswered(a) \/ RecordDeposit(a) \/ RecordFailedDeposit(a)
       \/ KillAttempt(a)

DepositsSpec == DepositsInit /\ [][DepositsNext]_depositVars

-----------------------------------------------------------------------------
(* Properties *)

\* A row that is not failed tells the truth about the archive: the deposit it names is
\* there, in the state recorded, with every document that had been loaded,
\* whatever was lost, repeated or overwritten on the way.
RecordedDepositExists ==
  receipt # NoDeposit /\ receipt.status \in States =>
    /\ receipt.id \in Made
    /\ deposits[receipt.id].state = receipt.status
    /\ deposits[receipt.id].has = deposits[receipt.id].given

\* A collection published again and again is deposited once by the hook, but
\* for one more deposit for each request that failed: none is repeated after a
\* recorded draft, nor after a recorded publication.
DuplicatesHaveACause ==
  ~crossed => Cardinality({i \in Made : ~deposits[i].forced}) <= 1 + outages
=============================================================================
