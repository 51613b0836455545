---------------------------- MODULE MCNominations ----------------------------
(***************************************************************************)
(* ElectionCalendar and Nominations for TLC.  A behaviour exercises either *)
(* the elections or, with the nomination election in TALLYING, the         *)
(* candidates: of an election these read only its status.                  *)
(***************************************************************************)
EXTENDS Nominations

CONSTANTS e1, e2, e3

VARIABLE desk

vars == <<calendarVars, nominationVars, desk>>

MCTenantOf == (e1 :> "authority") @@ (e2 :> "authority") @@ (e3 :> "party")

Init ==
    /\ NominationInit
    /\ \/ /\ desk = "elections"
          /\ \E reached \in [Elections -> {"PLANNING", "CAMPAIGN"}] : CalendarInit(reached)
       \/ /\ desk = "candidates"
          /\ CalendarInit([e \in Elections |-> "TALLYING"])

Next ==
    /\ \/ desk = "elections" /\ CalendarNext /\ UNCHANGED nominationVars
       \/ desk = "candidates" /\ NominationNext /\ UNCHANGED calendarVars
    /\ UNCHANGED desk

Symmetry ==
    UNION {Permutations(s) :
             s \in {Nominees, Declares, Changes, Promotes, Updates, Openings}}

Spec == Init /\ [][Next]_vars

=============================================================================
