---------------------------- MODULE EvidenceView ----------------------------
(***************************************************************************)
(* The evidence tables as other services read them: the status of each     *)
(* capsule and the Form A figures stored with it.  Handlers of the         *)
(* Evidence Service overlap, so a status may be overwritten by one that    *)
(* was read as another: no status is final, and figures may be entered     *)
(* again, also for an anchored capsule.  EvidenceCapsule implements this.  *)
(***************************************************************************)
CONSTANTS
    Capsules,
    Sheets,      \* figures that agents may enter
    CapsuleOf,   \* the capsule for which each sheet is entered
    NoSheet      \* stands for tally columns that are NULL

ASSUME SheetsAssumption == CapsuleOf \in [Sheets -> Capsules] /\ NoSheet \notin Sheets

VARIABLES
    capsule,  \* the status of each capsule
    sheet     \* what the tally columns of each capsule hold

evidenceVars == <<capsule, sheet>>

\* Statuses of a capsule that was routed to a validator once.
Routed == {"PENDING_VALIDATION", "APPROVED", "REJECTED", "ANCHORED"}

Tallied == {"UPLOADED", "PENDING_VALIDATION", "APPROVED", "ANCHORED"}

SetStatus(c, status) ==
    /\ capsule' = [capsule EXCEPT ![c] = status]
    /\ UNCHANGED sheet

Submit(c) == capsule[c] = "ABSENT" /\ SetStatus(c, "UPLOADED")

\* recordAiResult looks at no status.
Route(c) == capsule[c] # "ABSENT" /\ SetStatus(c, "PENDING_VALIDATION")

\* approveOrReject and recordAnchorCallback test a status that may have changed
\* since they read it.
Decide(c) ==
    /\ capsule[c] \in Routed
    /\ \E status \in {"PENDING_VALIDATION", "APPROVED", "REJECTED"} : SetStatus(c, status)

Anchor(c) == capsule[c] \in Routed /\ SetStatus(c, "ANCHORED")

Moves == \E c \in Capsules : Submit(c) \/ Route(c) \/ Decide(c) \/ Anchor(c)

\* submitTally overwrites what was entered before.
EnterTally(s) ==
    /\ capsule[CapsuleOf[s]] \in Tallied
    /\ sheet' = [sheet EXCEPT ![CapsuleOf[s]] = s]
    /\ UNCHANGED capsule

EvidenceInit ==
    /\ capsule = [c \in Capsules |-> "ABSENT"]
    /\ sheet = [c \in Capsules |-> NoSheet]

EvidenceNext == Moves \/ \E s \in Sheets : EnterTally(s)

EvidenceSpec == EvidenceInit /\ [][EvidenceNext]_evidenceVars

=============================================================================
