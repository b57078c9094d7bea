----------------------------- MODULE MCInTheEnd -----------------------------
(***************************************************************************)
(* What must happen in the end, on small instances, for TLC: pages rendered *)
(* on request and answers of a search engine settle, damage to a version   *)
(* is reported.  The three share no state that one changes and another     *)
(* reads, so each behaviour follows one of them (focus, chosen in the      *)
(* initial state) and the states to visit add up instead of multiplying.   *)
(***************************************************************************)
EXTENDS MCFixity, SitePages, SearchEngine

VARIABLE focus

allVars == <<vars, pageVars, engineVars, focus>>

Parts == {"fixity", "pages", "answers"}

Only(part) ==
  /\ focus = part /\ UNCHANGED focus
  /\ part # "fixity" => UNCHANGED vars
  /\ part # "pages" => UNCHANGED pageVars
  /\ part # "answers" => UNCHANGED engineVars

\* What is out of focus starts in one of its initial states.
AllInit ==
  /\ focus \in Parts
  /\ Init /\ SitePagesInit /\ EngineInit
  /\ focus # "fixity" => record = [f \in Files |-> Certified(1)]

AllNext ==
  \/ Only("fixity") /\ Next
  \/ Only("pages") /\ SitePagesNext
  \/ Only("answers") /\ EngineNext

\* The fairness of each part, for the part in focus.
AllFairness ==
  /\ \A t \in Sweeps : SF_allVars(Only("fixity") /\ SweepStep(t))
  /\ SF_allVars(Only("fixity") /\ PassStep)
  /\ \A r \in Requests : WF_allVars(Only("pages") /\ RenderStep(r))
  /\ \A w \in Workers : WF_allVars(Only("pages") /\ Invalidate(w))
  /\ \A w \in Workers, p \in PageKinds : WF_allVars(Only("pages") /\ Expire(w, p))
  /\ \A s \in Searches : WF_allVars(Only("answers") /\ SearchStep(s))
  /\ \A k \in Keys : WF_allVars(Only("answers") /\ Outlive(k))

AllSpec == AllInit /\ [][AllNext]_allVars /\ AllFairness

AllTypeOK == SitePagesTypeOK /\ EngineTypeOK
=============================================================================
