----------------------------- MODULE WebArchive -----------------------------
(***************************************************************************)
(* The capture of a published collection's page by the Internet Archive    *)
(* (internet_archive/archive.py): the job is submitted once, recorded as   *)
(* pending at once, polled for a minute, and recorded again with what the  *)
(* polls gave.  A refresh polls a job that was left pending and writes the *)
(* outcome over the record, with what it had read of it before it polled.  *)
(***************************************************************************)
EXTENDS Integers, FiniteSets

CONSTANTS
  Visits,      \* requests to archive or to refresh, as they arrive
  ByHand,      \* those of the endpoints; the others are of the publication hook
  MaxMisses,   \* bound: answers lost, requests killed
  NoStamp

ASSUME WebArchiveAssumption ==
  Visits \subseteq Nat \ {0} /\ ByHand \subseteq Visits /\ MaxMisses \in Nat

VARIABLES
  captures,    \* the archive's side: the state of each job
  stamp,       \* the collection's row in plugin_data
  visit,       \* the requests
  misses,      \* answers lost and requests killed so far
  orphans,     \* history: submissions whose job may be known to nobody
  strays,      \* history: refreshes that wrote over the record of another job
  overlapped   \* history: a submission began while another was under way

archiveVars == <<captures, stamp, visit, misses, orphans, strays, overlapped>>

-----------------------------------------------------------------------------
\* Each request submits at most one job, which goes by the request's number.
Jobs == Visits
Outcomes == {"pending", "success", "failed"}

\* forced is history: the job was asked for by the endpoint.
Capture == [state : Outcomes \cup {"none"}, forced : BOOLEAN]

\* job is 0 when the submission failed.
Stamp == [status : Outcomes, job : Jobs \cup {0}]

ASSUME NoStampAssumption == NoStamp \notin Stamp

VisitPlaces == {"none", "submit", "stub", "poll", "final", "end"}

\* job is the job submitted, or the one of the record a refresh has read.
Visit == [at : VisitPlaces, refresh : BOOLEAN, job : Jobs \cup {0},
          result : Outcomes]

NoVisit == [at |-> "none", refresh |-> FALSE, job |-> 0, result |-> "pending"]

WebArchiveTypeOK ==
  /\ captures \in [Jobs -> Capture]
  /\ stamp \in Stamp \cup {NoStamp}
  /\ visit \in [Visits -> Visit]
  /\ misses \in 0..MaxMisses /\ orphans \in 0..MaxMisses /\ strays \in Nat
  /\ overlapped \in BOOLEAN

-----------------------------------------------------------------------------
Submitted == {j \in Jobs : captures[j].state # "none"}

Arrives(v) ==
  visit[v].at = "none" /\ \A w \in Visits : w < v => visit[w].at # "none"

Archiving(v) == ~visit[v].refresh /\ visit[v].at \notin {"none", "end"}

\* A failed record does not stand in the way of another attempt.
AlreadyArchived == stamp # NoStamp /\ stamp.status \in {"success", "pending"}

EndVisit(v) == visit' = [visit EXCEPT ![v] = [NoVisit EXCEPT !.at = "end"]]

(* archive_collection, which the endpoint calls with force *)

BeginArchive(v) ==
  /\ Arrives(v)
  /\ IF AlreadyArchived /\ v \notin ByHand THEN EndVisit(v)
     ELSE visit' = [visit EXCEPT ![v].at = "submit"]
  /\ overlapped' = (overlapped \/ \E w \in Visits : Archiving(w))
  /\ UNCHANGED <<captures, stamp, misses, orphans, strays>>

NewCapture(v) == captures' =
  [captures EXCEPT ![v] = [state |-> "pending", forced |-> v \in ByHand]]

Submit(v) ==
  /\ visit[v].at = "submit"
  /\ NewCapture(v)
  /\ visit' = [visit EXCEPT ![v].at = "stub", ![v].job = v]
  /\ UNCHANGED <<stamp, misses, orphans, strays, overlapped>>

\* No answer, or an error: the record says failed, with no job.
SubmitUnanswered(v) ==
  /\ visit[v].at = "submit"
  /\ misses < MaxMisses /\ misses' = misses + 1 /\ orphans' = orphans + 1
  /\ NewCapture(v) \/ UNCHANGED captures
  /\ stamp' = [status |-> "failed", job |-> 0]
  /\ EndVisit(v)
  /\ UNCHANGED <<strays, overlapped>>

\* Mutant: the record is left for the end.
NoStub(v) == stamp

Stub(v) == [status |-> "pending", job |-> visit[v].job]

RecordPending(v) ==
  /\ visit[v].at = "stub"
  /\ stamp' = Stub(v)
  /\ visit' = [visit EXCEPT ![v].at = "poll"]
  /\ UNCHANGED <<captures, misses, orphans, strays, overlapped>>

(* refresh_status *)

BeginRefresh(v) ==
  /\ Arrives(v) /\ v \in ByHand
  /\ stamp # NoStamp /\ stamp.status = "pending"
  /\ visit' = [visit EXCEPT ![v].at = "poll", ![v].refresh = TRUE,
                            ![v].job = stamp.job]
  /\ UNCHANGED <<captures, stamp, misses, orphans, strays, overlapped>>

(* _poll_until_terminal, for both *)

\* A poll finds the job over, or the last of them still pending.
Poll(v) ==
  /\ visit[v].at = "poll"
  /\ \E o \in {captures[visit[v].job].state, "pending"} :
       visit' = [visit EXCEPT ![v].at = "final", ![v].result = o]
  /\ UNCHANGED <<captures, stamp, misses, orphans, strays, overlapped>>

\* Mutant: a refresh changes the status of the record that is there by now.
StatusOnly(v) == [stamp EXCEPT !.status = visit[v].result]

\* The whole record as the request knows it.
Final(v) == [status |-> visit[v].result, job |-> visit[v].job]

\* A refresh whose job the record no longer names.
IsStray(v) == visit[v].refresh /\ stamp.job # visit[v].job

\* A record that is the same as the one the session loaded is not written.
RecordOutcome(v) ==
  /\ visit[v].at = "final"
  /\ \/ /\ stamp' = Final(v)
        /\ strays' = strays + IF IsStray(v) THEN 1 ELSE 0
     \/ /\ visit[v].refresh /\ visit[v].result = "pending"
        /\ UNCHANGED <<stamp, strays>>
  /\ EndVisit(v)
  /\ UNCHANGED <<captures, misses, orphans, overlapped>>

\* The process stops.
KillVisit(v) ==
  /\ visit[v].at \notin {"none", "end"}
  /\ misses < MaxMisses /\ misses' = misses + 1
  /\ orphans' = orphans + IF visit[v].at = "stub" THEN 1 ELSE 0
  /\ EndVisit(v)
  /\ UNCHANGED <<captures, stamp, strays, overlapped>>

\* The archive ends a job; a failed job stays so.
EndCapture(j) ==
  /\ captures[j].state = "pending"
  /\ \E o \in {"success", "failed"} : captures' = [captures EXCEPT ![j].state = o]
  /\ UNCHANGED <<stamp, visit, misses, orphans, strays, overlapped>>

WebArchiveInit ==
  /\ captures = [j \in Jobs |-> [state |-> "none", forced |-> FALSE]]
  /\ stamp = NoStamp
  /\ visit = [v \in Visits |-> NoVisit]
  /\ misses = 0 /\ orphans = 0 /\ strays = 0 /\ overlapped = FALSE

WebArchiveNext ==
  \/ \E v \in Visits :
       \/ BeginArchive(v) \/ Submit(v) \/ SubmitUnanswered(v) \/ RecordPending(v)
       \/ BeginRefresh(v) \/ Poll(v) \/ RecordOutcome(v) \/ KillVisit(v)
  \/ \E j \in Jobs : EndCapture(j)

WebArchiveSpec == WebArchiveInit /\ [][WebArchiveNext]_archiveVars

-----------------------------------------------------------------------------
(* Properties *)

\* A record that shows a capture shows one that the archive has, whichever of
\* an archive request and a refresh, begun on other jobs, wrote last.
ShownCaptureExists ==
  stamp # NoStamp /\ stamp.status = "success" =>
    stamp.job # 0 /\ captures[stamp.job].state = "success"

FailedJobs == {j \in Jobs : captures[j].state = "failed"}

\* The hook submits a collection once, and once more for each job that failed
\* (be it one that was forced, whose failure replaces the record of a good
\* capture), for each whose submission was not recorded, and for each refresh
\* that wrote the outcome of its job over the record of a newer one: a process
\* that stops in the minute of polling, or a poll that ends without an answer,
\* costs no second capture.
NoNeedlessCapture ==
  ~overlapped => Cardinality({j \in Submitted : ~captures[j].forced})
                   <= 1 + orphans + strays + Cardinality(FailedJobs)
=============================================================================
