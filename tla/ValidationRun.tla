---------------------------- MODULE ValidationRun ----------------------------
(***************************************************************************)
(* Validation of a whole collection (services/collection_validation.py):   *)
(* a request commits a run row and starts a background task; the task      *)
(* commits its progress after every document; another request may cancel   *)
(* the run meanwhile.  Nothing orders the three but the row itself, which  *)
(* each reads and writes in separate statements.  The public sites print a *)
(* "TEI valid" badge from the last completed run (services/websites.py).   *)
(***************************************************************************)
EXTENDS Integers, FiniteSets

CONSTANTS
  Files,       \* document filenames, numbered in their sorted order
  Runs,        \* run ids, which the database hands out in order
  NoRun,
  MaxEdits     \* bound: changes of the working tree in a behaviour

ASSUME ValidationAssumption ==
  /\ Files \subseteq Nat
  /\ Runs \subseteq Nat
  /\ MaxEdits \in Nat

VARIABLES
  run,         \* the rows of collection_validation_runs
  task,        \* where the background task of each run is
  cancel,      \* whether a cancel request has read the row as cancellable
  tree,        \* the documents of the working tree and whether they validate
  edits,       \* changes of the tree so far
  clock        \* runs done so far: the order of their completed_at

world == <<tree, edits>>
vars == <<run, task, cancel, world, clock>>

-----------------------------------------------------------------------------
Statuses == {"pending", "running", "done", "failed", "cancelled"}
Terminal == {"done", "failed", "cancelled"}

Document == {"valid", "invalid"}
Tree == [Files -> Document \cup {"absent"}]
Docs == {f \in Files : tree[f] # "absent"}

\* completed_at is consulted only on runs done, and is kept only for them.
\* results.documents is the pair checked, wrong: doc_count, validated_count
\* and error_count are the sizes of docs, checked and wrong.  since is not in
\* the row: it remembers how many edits the task had seen at its listing.
Run == [status : Statuses, docs : SUBSET Files, checked : SUBSET Files,
        wrong : SUBSET Files, completed : Nat, since : 0..MaxEdits]

ASSUME NoRunAssumption == NoRun \notin Run

NewRun == [status |-> "pending", docs |-> {}, checked |-> {}, wrong |-> {},
           completed |-> 0, since |-> 0]

\* "none" before the run is created, "end" when the task has returned; "dead"
\* when it can no longer write: the process stopped, or saving the failure
\* failed too.
Tasks == {"none", "load", "list", "check", "refresh", "finish", "rescue",
          "end", "dead"}

TypeOK ==
  /\ run \in [Runs -> Run \cup {NoRun}]
  /\ task \in [Runs -> Tasks]
  /\ cancel \in [Runs -> BOOLEAN]
  /\ tree \in Tree
  /\ edits \in 0..MaxEdits
  /\ clock \in Nat

-----------------------------------------------------------------------------
Created(r) == run[r] # NoRun
Goto(r, at) == task' = [task EXCEPT ![r] = at]

Become(r, status) == run' = [run EXCEPT ![r].status = status]

\* Mutant: the loop stops one document early.
OneShort(r) ==
  IF \E f \in Files : run[r].docs \ run[r].checked \subseteq {f}
    THEN "finish" ELSE "check"

AfterDocument(r) ==
  IF run[r].checked = run[r].docs THEN "finish" ELSE "check"

(* Requests *)

\* The row is committed before the task is created; a run already in progress
\* does not refuse another.
StartRun(r) ==
  /\ ~Created(r) /\ \A q \in Runs : q < r => Created(q)
  /\ run' = [run EXCEPT ![r] = NewRun]
  /\ Goto(r, "load")
  /\ UNCHANGED <<cancel, world, clock>>

BeginCancel(r) ==
  /\ Created(r) /\ ~cancel[r]
  /\ run[r].status \notin Terminal
  /\ cancel' = [cancel EXCEPT ![r] = TRUE]
  /\ UNCHANGED <<run, task, world, clock>>

Cancel(r) ==
  /\ cancel[r]
  /\ Become(r, "cancelled")
  /\ cancel' = [cancel EXCEPT ![r] = FALSE]
  /\ UNCHANGED <<task, world, clock>>

(* The task *)

\* The schema, or its validation file, may have been removed since the start.
Load(r) ==
  /\ task[r] = "load"
  /\ \/ Goto(r, "list") /\ UNCHANGED run
     \/ Goto(r, "end") /\ Become(r, "failed")
  /\ UNCHANGED <<cancel, world, clock>>

\* The list, and the commit of the status running; or eXist-db does not
\* answer.  Neither looks at the status the row has by now.
List(r) ==
  /\ task[r] = "list"
  /\ \/ /\ run' = [run EXCEPT ![r] = [@ EXCEPT !.status = "running",
                                             !.docs = Docs, !.since = edits]]
        /\ Goto(r, IF Docs = {} THEN "finish" ELSE "check")
     \/ Goto(r, "end") /\ Become(r, "failed")
  /\ UNCHANGED <<cancel, world, clock>>

NextDocument(r, f) ==
  /\ f \in run[r].docs \ run[r].checked
  /\ \A g \in run[r].docs \ run[r].checked : f <= g

Judged(row, f, ok) ==
  [row EXCEPT !.checked = @ \cup {f}, !.wrong = IF ok THEN @ ELSE @ \cup {f}]

\* Fetch and validate one document and commit the progress; a document that
\* is gone, or cannot be fetched, counts as invalid.
Check(r) == \E f \in Files, ok \in BOOLEAN :
  /\ task[r] = "check"
  /\ NextDocument(r, f)
  /\ ok => tree[f] = "valid"
  /\ run' = [run EXCEPT ![r] = Judged(@, f, ok)]
  /\ Goto(r, "refresh")
  /\ UNCHANGED <<cancel, world, clock>>

Refresh(r) ==
  /\ task[r] = "refresh"
  /\ Goto(r, IF run[r].status = "cancelled" THEN "end" ELSE AfterDocument(r))
  /\ UNCHANGED <<run, cancel, world, clock>>

Finish(r) ==
  /\ task[r] = "finish"
  /\ run' = [run EXCEPT ![r] = [@ EXCEPT !.status = "done",
                                         !.completed = clock + 1]]
  /\ clock' = clock + 1
  /\ Goto(r, "end")
  /\ UNCHANGED <<cancel, world>>

\* A database error anywhere in the task.
Raise(r) ==
  /\ task[r] \in {"load", "list", "check", "refresh", "finish"}
  /\ Goto(r, "rescue")
  /\ UNCHANGED <<run, cancel, world, clock>>

\* Mutant: a run that has not reached running is left alone.
StillRunning(r) == run[r].status = "running"

StillOpen(r) == run[r].status \notin Terminal

\* A second session marks the run failed unless it is terminal.
Rescue(r) ==
  /\ task[r] = "rescue"
  /\ Goto(r, "end")
  /\ IF StillOpen(r) THEN Become(r, "failed") ELSE UNCHANGED run
  /\ UNCHANGED <<cancel, world, clock>>

\* The second session fails too, or the process stops.
Die(r) ==
  /\ task[r] \notin {"none", "end", "dead"}
  /\ Goto(r, "dead")
  /\ UNCHANGED <<run, cancel, world, clock>>

(* The world *)

Edit == \E f \in Files, d \in Document \cup {"absent"} :
  /\ edits < MaxEdits
  /\ tree[f] # d
  /\ tree' = [tree EXCEPT ![f] = d]
  /\ edits' = edits + 1
  /\ UNCHANGED <<run, task, cancel, clock>>

Init ==
  /\ run = [r \in Runs |-> NoRun]
  /\ task = [r \in Runs |-> "none"]
  /\ cancel = [r \in Runs |-> FALSE]
  /\ tree \in Tree
  /\ edits = 0
  /\ clock = 0

Step(r) == Load(r) \/ List(r) \/ Check(r) \/ Refresh(r) \/ Finish(r)
             \/ Rescue(r)

Next ==
  \/ \E r \in Runs : \/ StartRun(r) \/ BeginCancel(r) \/ Cancel(r)
                     \/ Step(r) \/ Raise(r) \/ Die(r)
  \/ Edit

Spec == Init /\ [][Next]_vars

\* The event loop resumes a task that has not ended.
FairSpec == Spec /\ \A r \in Runs : WF_vars(Step(r))

-----------------------------------------------------------------------------
(* Properties *)

\* Mutant: the query forgets the status.
LatestOfAny(r) ==
  Created(r) /\ \A q \in Runs : Created(q) => run[q].completed <= run[r].completed

\* Mutant: the query takes the run started last.
LatestStarted(r) ==
  /\ Created(r) /\ run[r].status = "done"
  /\ \A q \in Runs : Created(q) /\ run[q].status = "done" => q <= r

\* The badge's query: the last run by completed_at among those done.
Latest(r) ==
  /\ Created(r) /\ run[r].status = "done"
  /\ \A q \in Runs : Created(q) /\ run[q].status = "done"
       => run[q].completed <= run[r].completed
Badge(r) == Latest(r) /\ run[r].wrong = {}

\* A run reported done has checked every document it listed, whatever was
\* cancelled, raised or restarted on the way.
DoneIsComplete == \A r \in Runs :
  Created(r) /\ run[r].status = "done" => run[r].checked = run[r].docs

\* The public badge is never shown over an invalid document unless the tree
\* was changed after the run it comes from listed it.
BadgeIsEarned == \A r \in Runs :
  Badge(r) /\ run[r].since = edits => \A f \in Docs : tree[f] = "valid"

\* Two runs of a collection may overlap, and the one started first may end
\* last.  A run that found errors and completed after the run the badge comes
\* from has taken the badge away, unless a late cancellation struck it out.
ErrorsTakeTheBadge == \A r, q \in Runs :
  Badge(r) /\ Created(q) /\ run[q].completed > run[r].completed
    => run[q].wrong = {} \/ run[q].status = "cancelled"

Ended(r) == Created(r) /\ run[r].status \in Terminal

\* Every run reaches a terminal status unless its task has died.
EveryRunEnds == \A r \in Runs : Created(r) ~> (Ended(r) \/ task[r] = "dead")

\* "Sets status to 'cancelled' immediately.  The background task checks the
\* status after each document and stops cooperatively."
\* (services/collection_validation.py:113-114): a cancelled run is not set
\* running again.
CancelledNeverRuns ==
  [][\A r \in Runs : Created(r) /\ run[r].status = "cancelled"
       => run'[r].status # "running"]_vars
=============================================================================
