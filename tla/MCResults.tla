----------------------------- MODULE MCResults -----------------------------
(***************************************************************************)
(* Results for TLC.  The two desks read the same capsules and share        *)
(* nothing else, so a behaviour exercises one of the two.                  *)
(***************************************************************************)
EXTENDS Results, TLC

CONSTANTS c1, c2, a1, a2, a3, s1, s2, b1, b2, b3, f1, none

VARIABLE desk

vars == <<evidenceVars, reportingVars, reconVars, desk>>

MCStationOf == (c1 :> s1) @@ (c2 :> s2)
MCLevels == {{{s1, s2}}, {{s1}, {s2}}}

MCCapsuleOf == (a1 :> c1) @@ (a2 :> c2) @@ (a3 :> c2)

\* Both stations are in one constituency, and all ballots of c1 are rejected:
\* until it is counted, only the ballots issued are short.  For c2 other
\* figures may be entered.  b3 is the Form B of another constituency of the
\* county, the scope of f1.  b1 is right about a1 and a2; b2 leaves a candidate
\* out; f1 is right while b1 is the only Form B on record.
MCForm ==
    LET form(valid, rejected, votes) ==
          [registered |-> 9, issued |-> valid + rejected, valid |-> valid,
           rejected |-> rejected, spoilt |-> 0, votes |-> votes]
        north == form(2, 2, [x |-> 1, y |-> 1])
    IN  (a1 :> form(0, 2, [x |-> 0, y |-> 0]))
          @@ (a2 :> form(2, 0, [x |-> 1, y |-> 1])) @@ (a3 :> form(3, 0, [x |-> 2, y |-> 1]))
          @@ (b1 :> north) @@ (b2 :> form(2, 2, [x |-> 1]))
          @@ (b3 :> form(1, 0, [y |-> 1])) @@ (f1 :> north)

MCArea ==
    (c1 :> "north") @@ (c2 :> "north") @@ (b1 :> "north") @@ (b2 :> "north")
      @@ (b3 :> "south") @@ (f1 :> "county")

MCConstituencies == [county |-> {"north", "south"}]

\* c2 is anchored and stays so; c1 moves: in the reporting desk from its upload
\* on; in the other between a status that counts and one that does not, while
\* the figures of c2 are corrected.
Init ==
    /\ ReportingInit /\ ReconInit
    /\ sheet = (c1 :> a1) @@ (c2 :> a2)
    /\ \/ desk = "reporting" /\ capsule = (c1 :> "ABSENT") @@ (c2 :> "ANCHORED")
       \/ desk = "reconciliation" /\ capsule = (c1 :> "PENDING_VALIDATION") @@ (c2 :> "ANCHORED")

OneMoves == Moves /\ capsule'[c2] = "ANCHORED"

ReportingDesk ==
    /\ desk = "reporting"
    /\ \/ ReportingNext /\ UNCHANGED evidenceVars
       \/ OneMoves /\ UNCHANGED reportingVars
    /\ UNCHANGED <<reconVars, desk>>

ReconciliationDesk ==
    /\ desk = "reconciliation"
    /\ \/ ReconNext /\ UNCHANGED evidenceVars
       \/ /\ OneMoves /\ capsule'[c1] \in {"PENDING_VALIDATION", "ANCHORED"}
          /\ UNCHANGED reconVars
       \/ (\E s \in Sheets : EnterTally(s)) /\ UNCHANGED reconVars
    /\ UNCHANGED <<reportingVars, desk>>

Next == ReportingDesk \/ ReconciliationDesk

Symmetry == Permutations(Computes) \cup Permutations(Publishes) \cup Permutations(Tasks)

Spec == Init /\ [][Next]_vars

=============================================================================
