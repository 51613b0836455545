------------------------------ MODULE Results ------------------------------
(***************************************************************************)
(* The two readers of the evidence tables together: the Reporting Service  *)
(* and the reconciliation of the result forms, at work while the Evidence  *)
(* Service moves capsules on and stores tallies.  They write tables of     *)
(* their own and read none of each other's.                                *)
(***************************************************************************)
EXTENDS Reporting, Reconciliation

resultsVars == <<evidenceVars, reportingVars, reconVars>>

ResultsInit == EvidenceInit /\ ReportingInit /\ ReconInit

ResultsNext ==
    \/ ReportingNext /\ UNCHANGED <<evidenceVars, reconVars>>
    \/ ReconNext /\ UNCHANGED <<evidenceVars, reportingVars>>
    \/ EvidenceNext /\ UNCHANGED <<reportingVars, reconVars>>

ResultsSpec == ResultsInit /\ [][ResultsNext]_resultsVars

=============================================================================
