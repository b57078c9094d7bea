------------------------- MODULE ValidationRunProofs -------------------------
(***************************************************************************)
(* Theorems about ValidationRun.  A run's row is rewritten by its task and *)
(* by cancellations in any order; what survives every order is that only   *)
(* the task's last step writes "done", and it is reached only through the  *)
(* whole list.  RowFollowsTask ties the row to the place of the task, and  *)
(* VerdictsStand ties the verdicts to the tree for as long as nobody edits *)
(* it; both are needed to make the two properties inductive.  The order of *)
(* completed_at alone decides between two runs of a collection.            *)
(***************************************************************************)
EXTENDS ValidationRun, TLAPS

\* Where the task is determines how much of the list has been checked.
RowFits(r) ==
  /\ task[r] = "none" => ~cancel[r]
  /\ Created(r) <=> task[r] # "none"
  /\ Created(r) =>
       /\ run[r].checked \subseteq run[r].docs
       /\ run[r].since <= edits
       /\ run[r].status = "done" =>
            task[r] = "end" /\ run[r].checked = run[r].docs
       /\ run[r].completed > 0 =>
            task[r] = "end" /\ run[r].status \in {"done", "cancelled"}
       /\ task[r] = "finish" => run[r].checked = run[r].docs
       /\ task[r] \in {"load", "list"} =>
            run[r].checked = {} /\ run[r].wrong = {}
RowFollowsTask == \A r \in Runs : RowFits(r)

\* A run that has listed the present tree.
Listed(r) == task[r] \in {"check", "refresh", "finish"} \/ run[r].status = "done"

\* While the tree is as the run listed it, every document passed is valid.
VerdictStands(r) ==
  Created(r) /\ Listed(r) /\ run[r].since = edits =>
    /\ run[r].docs = Docs
    /\ \A f \in run[r].checked \ run[r].wrong : tree[f] = "valid"
VerdictsStand == \A r \in Runs : VerdictStands(r)

Inv == TypeOK /\ RowFollowsTask /\ VerdictsStand

-----------------------------------------------------------------------------
LEMMA InitInv == Init => Inv
BY ValidationAssumption
DEF Init, Inv, TypeOK, RowFollowsTask, VerdictsStand, RowFits,
    VerdictStands, Created, Listed, Tasks

\* A run whose task has been created, or that is being cancelled, has a row.
LEMMA RowExists ==
  ASSUME Inv, NEW r \in Runs, task[r] # "none" \/ cancel[r] \/ Created(r)
  PROVE  run[r] \in Run /\ Created(r) /\ task[r] # "none"
BY DEF Inv, TypeOK, RowFollowsTask, RowFits, Created

\* Every step keeps the rows and the tasks in their types.
LEMMA TypeStep == Inv /\ Next => TypeOK'
<1> SUFFICES ASSUME Inv, Next PROVE TypeOK'
  OBVIOUS
<1>0. TypeOK
  BY DEF Inv
<1> USE <1>0, ValidationAssumption
    DEF TypeOK, Tasks, world, Goto, Become
<1>1. ASSUME NEW r \in Runs, StartRun(r) PROVE TypeOK'
  BY <1>1 DEF StartRun, NewRun, Run, Statuses
<1>2. ASSUME NEW r \in Runs, BeginCancel(r) PROVE TypeOK'
  BY <1>2 DEF BeginCancel
<1>3. ASSUME NEW r \in Runs, Cancel(r) PROVE TypeOK'
  <2>1. run[r] \in Run
    BY <1>3, RowExists DEF Cancel
  <2>. QED
    BY <1>3, <2>1 DEF Cancel, Run, Statuses
<1>4. ASSUME NEW r \in Runs, Load(r) PROVE TypeOK'
  <2>1. run[r] \in Run
    BY <1>4, RowExists DEF Load
  <2>. QED
    BY <1>4, <2>1 DEF Load, Run, Statuses
<1>5. ASSUME NEW r \in Runs, List(r) PROVE TypeOK'
  <2>1. run[r] \in Run
    BY <1>5, RowExists DEF List
  <2>2. [run[r] EXCEPT !.status = "running", !.docs = Docs, !.since = edits]
          \in Run
    BY <2>1 DEF Run, Statuses, Docs
  <2>3. [run[r] EXCEPT !.status = "failed"] \in Run
    BY <2>1 DEF Run, Statuses
  <2>. QED
    BY <1>5, <2>2, <2>3 DEF List
<1>6. ASSUME NEW r \in Runs, Check(r) PROVE TypeOK'
  <2>1. run[r] \in Run
    BY <1>6, RowExists DEF Check
  <2>2. PICK f \in Files, ok \in BOOLEAN :
          run' = [run EXCEPT ![r] = Judged(@, f, ok)]
    BY <1>6 DEF Check
  <2>3. Judged(run[r], f, ok) \in Run
    BY <2>1 DEF Judged, Run
  <2>. QED
    BY <1>6, <2>2, <2>3 DEF Check
<1>7. ASSUME NEW r \in Runs, Refresh(r) PROVE TypeOK'
  BY <1>7 DEF Refresh, AfterDocument
<1>8. ASSUME NEW r \in Runs, Finish(r) PROVE TypeOK'
  <2>1. run[r] \in Run
    BY <1>8, RowExists DEF Finish
  <2>2. [run[r] EXCEPT !.status = "done", !.completed = clock + 1] \in Run
    BY <2>1, clock + 1 \in Nat DEF Run, Statuses
  <2>. QED
    BY <1>8, <2>2 DEF Finish
<1>9. ASSUME NEW r \in Runs, Rescue(r) PROVE TypeOK'
  <2>1. run[r] \in Run
    BY <1>9, RowExists DEF Rescue
  <2>. QED
    BY <1>9, <2>1 DEF Rescue, StillOpen, Run, Statuses
<1>10. ASSUME NEW r \in Runs, Raise(r) PROVE TypeOK'
  BY <1>10 DEF Raise
<1>11. ASSUME NEW r \in Runs, Die(r) PROVE TypeOK'
  BY <1>11 DEF Die
<1>12. ASSUME Edit PROVE TypeOK'
  BY <1>12 DEF Edit, Tree
<1>. QED
  BY <1>1, <1>2, <1>3, <1>4, <1>5, <1>6, <1>7, <1>8, <1>9, <1>10, <1>11, <1>12 DEF Next, Step

\* A step of one run leaves the rows and the tasks of the others alone.
LEMMA OthersStand ==
  ASSUME Inv, NEW r \in Runs, NEW q \in Runs, q # r, UNCHANGED <<tree, edits>>,
         StartRun(r) \/ BeginCancel(r) \/ Cancel(r) \/ Step(r) \/ Raise(r) \/ Die(r)
  PROVE  run'[q] = run[q] /\ task'[q] = task[q] /\ cancel'[q] = cancel[q]
BY DEF Inv, TypeOK, StartRun, BeginCancel, Cancel, Step, Load, List, Check,
       Refresh, Finish, Rescue, Raise, Die, Goto, Become

\* A new status changes nothing else in the row.
LEMMA BecomeStatus ==
  ASSUME TypeOK, NEW r \in Runs, run[r] \in Run, NEW s \in Statuses, Become(r, s)
  PROVE  /\ run'[r] # NoRun
         /\ run'[r].status = s
         /\ run'[r].docs = run[r].docs
         /\ run'[r].checked = run[r].checked
         /\ run'[r].wrong = run[r].wrong
         /\ run'[r].since = run[r].since
         /\ run'[r].completed = run[r].completed
<1>1. run'[r] = [run[r] EXCEPT !.status = s]
  BY DEF TypeOK, Become
<1>2. [run[r] EXCEPT !.status = s] \in Run
  BY DEF Run
<1>. QED
  BY <1>1, <1>2, NoRunAssumption DEF Run

\* Every step of a run keeps its row in step with its task.
LEMMA RowStep ==
  ASSUME Inv, NEW r \in Runs,
         StartRun(r) \/ BeginCancel(r) \/ Cancel(r) \/ Step(r) \/ Raise(r) \/ Die(r)
  PROVE  RowFits(r)' /\ VerdictStands(r)'
<1>1. RowFits(r) /\ VerdictStands(r) /\ TypeOK
  BY DEF Inv, RowFollowsTask, VerdictsStand
<1>2. task[r] \in Tasks
  BY <1>1 DEF TypeOK
<1> USE <1>1, <1>2 DEF RowFits, VerdictStands, Listed, Created, Goto, world, Docs
<1>3. CASE StartRun(r)
  <2>1. NewRun \in Run /\ NewRun # NoRun
    BY ValidationAssumption, NoRunAssumption DEF NewRun, Run, Statuses
  <2>2. run'[r] = NewRun /\ task'[r] = "load"
    BY <1>3 DEF StartRun, TypeOK
  <2>. QED
    BY <1>3, <2>1, <2>2 DEF StartRun, NewRun, TypeOK
<1>4. CASE BeginCancel(r)
  BY <1>4 DEF BeginCancel, TypeOK
<1>5. CASE Cancel(r)
  <2>1. run[r] \in Run /\ Become(r, "cancelled")
    BY <1>5, RowExists DEF Cancel
  <2>. QED
    BY <1>5, <2>1, BecomeStatus DEF Cancel, Statuses, TypeOK
<1>6. CASE Load(r)
  <2>1. run[r] \in Run /\ Created(r)
    BY <1>6, RowExists DEF Load
  <2>2. CASE Goto(r, "list") /\ UNCHANGED run
    BY <1>6, <2>1, <2>2 DEF Load, TypeOK
  <2>3. CASE Goto(r, "end") /\ Become(r, "failed")
    BY <1>6, <2>1, <2>3, BecomeStatus DEF Load, Statuses, TypeOK
  <2>. QED
    BY <1>6, <2>2, <2>3 DEF Load
<1>7. CASE List(r)
  <2>1. run[r] \in Run /\ Created(r)
    BY <1>7, RowExists DEF List
  <2>2. CASE Goto(r, "end") /\ Become(r, "failed")
    BY <1>7, <2>1, <2>2, BecomeStatus DEF List, Statuses, TypeOK
  <2>3. CASE /\ run' = [run EXCEPT ![r] = [@ EXCEPT !.status = "running",
                                             !.docs = Docs, !.since = edits]]
             /\ Goto(r, IF Docs = {} THEN "finish" ELSE "check")
    <3>1. run'[r] = [run[r] EXCEPT !.status = "running", !.docs = Docs,
                                   !.since = edits]
      BY <2>3 DEF TypeOK
    <3>2. run'[r] \in Run
      BY <2>1, <3>1 DEF Run, Statuses, TypeOK
    <3>3. /\ run'[r] # NoRun /\ run'[r].status = "running"
          /\ run'[r].docs = Docs /\ run'[r].since = edits
          /\ run'[r].checked = {} /\ run'[r].wrong = {}
          /\ run'[r].completed = run[r].completed
      BY <1>7, <2>1, <3>1, <3>2, NoRunAssumption DEF List, Run
    <3>4. task'[r] \in {"check", "finish"} /\ (task'[r] = "finish" => Docs = {})
      BY <2>3 DEF TypeOK
    <3>. QED
      BY <1>7, <3>3, <3>4 DEF List, TypeOK
  <2>. QED
    BY <1>7, <2>2, <2>3 DEF List
<1>8. CASE Check(r)
  <2>1. run[r] \in Run /\ Created(r)
    BY <1>8, RowExists DEF Check
  <2>2. PICK f \in Files, ok \in BOOLEAN :
          /\ NextDocument(r, f)
          /\ ok => tree[f] = "valid"
          /\ run' = [run EXCEPT ![r] = Judged(@, f, ok)]
    BY <1>8 DEF Check
  <2>3. run'[r] = Judged(run[r], f, ok) /\ Judged(run[r], f, ok) \in Run
    BY <2>1, <2>2 DEF TypeOK, Judged, Run
  <2>4. /\ run'[r] # NoRun /\ run'[r].status = run[r].status
        /\ run'[r].docs = run[r].docs /\ run'[r].since = run[r].since
        /\ run'[r].checked = run[r].checked \cup {f}
        /\ run'[r].wrong = IF ok THEN run[r].wrong ELSE run[r].wrong \cup {f}
        /\ run'[r].completed = run[r].completed
    BY <2>1, <2>3, NoRunAssumption DEF Judged, Run
  <2>5. task[r] = "check" /\ task'[r] = "refresh" /\ UNCHANGED <<cancel, world>>
    BY <1>8 DEF Check, TypeOK
  <2>6. RowFits(r)'
    BY <2>1, <2>2, <2>4, <2>5 DEF NextDocument
  <2>7. VerdictStands(r)'
    BY <2>1, <2>2, <2>4, <2>5
  <2>. QED
    BY <2>6, <2>7
<1>9. CASE Refresh(r)
  BY <1>9, RowExists DEF Refresh, AfterDocument, TypeOK
<1>10. CASE Finish(r)
  <2>1. run[r] \in Run /\ Created(r)
    BY <1>10, RowExists DEF Finish
  <2>2. run'[r] = [run[r] EXCEPT !.status = "done", !.completed = clock + 1]
    BY <1>10 DEF Finish, TypeOK
  <2>3. run'[r] \in Run
    BY <2>1, <2>2, clock + 1 \in Nat DEF Run, Statuses, TypeOK
  <2>4. /\ run'[r] # NoRun /\ run'[r].status = "done"
        /\ run'[r].docs = run[r].docs /\ run'[r].since = run[r].since
        /\ run'[r].checked = run[r].checked /\ run'[r].wrong = run[r].wrong
    BY <2>1, <2>2, <2>3, NoRunAssumption DEF Run
  <2>. QED
    BY <1>10, <2>1, <2>4 DEF Finish, TypeOK
<1>11. CASE Rescue(r)
  <2>1. run[r] \in Run /\ Created(r)
    BY <1>11, RowExists DEF Rescue
  <2>2. CASE StillOpen(r)
    BY <1>11, <2>1, <2>2, BecomeStatus DEF Rescue, Statuses, TypeOK
  <2>3. CASE ~StillOpen(r)
    BY <1>11, <2>1, <2>3 DEF Rescue, TypeOK
  <2>. QED
    BY <2>2, <2>3
<1>12. CASE Raise(r)
  BY <1>12 DEF Raise, TypeOK
<1>13. CASE Die(r)
  BY <1>13 DEF Die, TypeOK
<1>. QED
  BY <1>3, <1>4, <1>5, <1>6, <1>7, <1>8, <1>9, <1>10, <1>11, <1>12, <1>13
  DEF Step

\* The invariant is kept by every step, those of the tree's editors included.
LEMMA NextInv == Inv /\ [Next]_vars => Inv'
<1> SUFFICES ASSUME Inv, [Next]_vars PROVE Inv'
  OBVIOUS
<1>1. TypeOK'
  <2>1. CASE Next
    BY <2>1, TypeStep
  <2>2. CASE UNCHANGED vars
    BY <2>2 DEF Inv, TypeOK, vars, world
  <2>. QED
    BY <2>1, <2>2
<1>2. ASSUME NEW r \in Runs, NEW q \in Runs,
             StartRun(r) \/ BeginCancel(r) \/ Cancel(r) \/ Step(r) \/ Raise(r)
               \/ Die(r)
      PROVE  RowFits(q)' /\ VerdictStands(q)'
  <2>1. UNCHANGED <<tree, edits>>
    BY <1>2 DEF StartRun, BeginCancel, Cancel, Step, Load, List, Check, Refresh,
                Finish, Rescue, Raise, Die, world
  <2>2. CASE q = r
    BY <1>2, <2>2, RowStep
  <2>3. CASE q # r
    <3>1. run'[q] = run[q] /\ task'[q] = task[q] /\ cancel'[q] = cancel[q]
      BY <1>2, <2>1, <2>3, OthersStand
    <3>. QED
      BY <2>1, <3>1 DEF Inv, RowFollowsTask, VerdictsStand, RowFits,
                        VerdictStands, Listed, Created, Docs
  <2>. QED
    BY <2>2, <2>3
<1>3. ASSUME NEW q \in Runs, Edit PROVE RowFits(q)' /\ VerdictStands(q)'
  <2>1. UNCHANGED <<run, task, cancel>> /\ edits' = edits + 1
    BY <1>3 DEF Edit
  <2>2. RowFits(q) /\ VerdictStands(q) /\ TypeOK
    BY DEF Inv, RowFollowsTask, VerdictsStand
  <2>3. run[q] # NoRun => run[q].since \in 0..MaxEdits
    BY <2>2 DEF TypeOK, Run
  <2>4. edits \in Nat /\ MaxEdits \in Nat
    BY <2>2, ValidationAssumption DEF TypeOK
  <2>5. run[q] # NoRun => run[q].since # edits + 1 /\ run[q].since <= edits + 1
    BY <2>2, <2>3, <2>4 DEF RowFits, Created
  <2>. QED
    BY <2>1, <2>2, <2>5 DEF RowFits, VerdictStands, Listed, Created
<1>4. ASSUME NEW q \in Runs, UNCHANGED vars
      PROVE  RowFits(q)' /\ VerdictStands(q)'
  BY <1>4 DEF Inv, RowFollowsTask, VerdictsStand, RowFits, VerdictStands,
              Listed, Created, Docs, vars, world
<1>. QED
  BY <1>1, <1>2, <1>3, <1>4 DEF Inv, RowFollowsTask, VerdictsStand, Next

THEOREM Invariance == Spec => []Inv
<1>. QED
  BY InitInv, NextInv, PTL DEF Spec

\* Every variable keeps its type.
THEOREM TypeCorrect == Spec => []TypeOK
<1>. QED
  BY Invariance, PTL DEF Inv

\* A run reported done has checked every document it listed.
THEOREM DoneIsCompleteThm == Spec => []DoneIsComplete
<1>1. Inv => DoneIsComplete
  BY DEF Inv, RowFollowsTask, RowFits, DoneIsComplete
<1>. QED
  BY <1>1, Invariance, PTL

\* The badge is never shown over an invalid document of an unedited tree.
THEOREM BadgeIsEarnedThm == Spec => []BadgeIsEarned
<1>1. ASSUME Inv PROVE BadgeIsEarned
  <2>1. SUFFICES ASSUME NEW r \in Runs, Badge(r), run[r].since = edits,
                        NEW f \in Docs
                 PROVE  tree[f] = "valid"
    BY DEF BadgeIsEarned
  <2>2. Created(r) /\ run[r].status = "done" /\ run[r].wrong = {}
    BY <2>1 DEF Badge, Latest
  <2>3. run[r].checked = run[r].docs /\ run[r].docs = Docs
    BY <1>1, <2>1, <2>2 DEF Inv, RowFollowsTask, RowFits, VerdictsStand,
                            VerdictStands, Listed
  <2>4. \A g \in run[r].checked \ run[r].wrong : tree[g] = "valid"
    BY <1>1, <2>1, <2>2 DEF Inv, VerdictsStand, VerdictStands, Listed
  <2>. QED
    BY <2>1, <2>2, <2>3, <2>4
<1>. QED
  BY <1>1, Invariance, PTL

\* A completed run that found errors has taken the badge from any run that
\* completed before it, whichever of them was started first.
THEOREM ErrorsTakeTheBadgeThm == Spec => []ErrorsTakeTheBadge
<1>1. ASSUME Inv PROVE ErrorsTakeTheBadge
  <2>1. SUFFICES ASSUME NEW r \in Runs, NEW q \in Runs, Badge(r), Created(q),
                        run[q].completed > run[r].completed
                 PROVE  run[q].status = "cancelled"
    BY DEF ErrorsTakeTheBadge
  <2>2. run[r] \in Run /\ run[q] \in Run
    BY <1>1, <2>1 DEF Inv, TypeOK, Created, Badge, Latest
  <2>3. run[q].completed > 0 /\ ~(run[q].completed <= run[r].completed)
    BY <2>1, <2>2 DEF Run
  <2>4. run[q].status # "done"
    BY <2>1, <2>3 DEF Badge, Latest
  <2>. QED
    BY <1>1, <2>1, <2>3, <2>4 DEF Inv, RowFollowsTask, RowFits
<1>. QED
  BY <1>1, Invariance, PTL
=============================================================================
