----------------------------- MODULE MCRechecks -----------------------------
(***************************************************************************)
(* What is looked at again later, on small instances, for TLC: stored      *)
(* bodies by the fixity sweeps, pending captures by the polls of the       *)
(* Internet Archive.  The two share no state, so each behaviour follows    *)
(* one of them (focus, chosen in the initial state) and the states to      *)
(* visit add up instead of multiplying.                                    *)
(***************************************************************************)
EXTENDS MCFixity, WebArchive

VARIABLE focus

recheckVars == <<vars, archiveVars, focus>>

Only(kind) ==
  /\ focus = kind /\ UNCHANGED focus
  /\ kind # "fixity" => UNCHANGED vars
  /\ kind # "capture" => UNCHANGED archiveVars

\* What is out of focus starts in one of its initial states.
RechecksInit ==
  /\ focus \in {"fixity", "capture"}
  /\ Init /\ WebArchiveInit
  /\ focus # "fixity" => record = [f \in Files |-> Certified(1)]

RechecksNext ==
  \/ Only("fixity") /\ Next
  \/ Only("capture") /\ WebArchiveNext

RechecksSpec == RechecksInit /\ [][RechecksNext]_recheckVars
=============================================================================
