--------------------------- MODULE Reconciliation ---------------------------
(***************************************************************************)
(* Reconciliation of the result forms: Form B (a constituency) against the *)
(* Form As of its stations, Form C (a county, or the nation) against the   *)
(* Form Bs.  Forms are inserted once and never edited; their status is     *)
(* rewritten each time they are reconciled, at submission or on request,   *)
(* and every discrepancy raises an alert for a human.                      *)
(*                                                                         *)
(* A task is one request.  It awaits between reading, updating the form    *)
(* and raising alerts, which are not one transaction.                      *)
(***************************************************************************)
EXTENDS EvidenceView, TallyForms, FiniteSets

CONSTANTS
    Tasks,
    FormBs, FormCs,   \* the forms that officers may submit
    Form,             \* the figures of every form: Form As (sheets), Bs and Cs
    Area,             \* the constituency of a capsule or Form B, the scope of a Form C
    Constituencies,   \* what each scope of a Form C covers
    WithElection      \* capsules whose election_id is filled

\* The DTOs of all three forms take whole numbers from 0 (@IsInt, @Min(0)).
ASSUME FiguresAreCounts ==
    \A f \in Sheets \cup FormBs \cup FormCs :
        /\ {Form[f].registered, Form[f].issued, Form[f].valid,
             Form[f].rejected, Form[f].spoilt} \subseteq Nat
        /\ Form[f].votes \in [DOMAIN Form[f].votes -> Nat]
        /\ IsFiniteSet(DOMAIN Form[f].votes)

ASSUME SheetsAreFinite == IsFiniteSet(Sheets)

VARIABLES
    formB,   \* the rows of iebc_form_b_collations
    formC,   \* the rows of iebc_form_c_declarations
    alerts,  \* iebc_reconciliation_alerts
    task     \* how far each request is

reconVars == <<formB, formC, alerts, task>>

NoForm == [status |-> "NONE", present |-> {}]

IdleTask == [stage |-> "idle", form |-> "none", read |-> {}, present |-> {}, todo |-> {}]

ReconInit ==
    /\ formB = [b \in FormBs |-> NoForm]
    /\ formC = [f \in FormCs |-> NoForm]
    /\ alerts = {}
    /\ task = [t \in Tasks |-> IdleTask]

InsertedBs == {b \in FormBs : formB[b].status # "NONE"}

Begin(t, stage, f) ==
    /\ task[t].stage = "idle"
    /\ task' = [task EXCEPT ![t] = [IdleTask EXCEPT !.stage = stage, !.form = f]]

Goto(t, stage) == task' = [task EXCEPT ![t].stage = stage]

\* A request that is over keeps nothing, but for the form it left without alert.
End(t) == task' = [task EXCEPT ![t] = [IdleTask EXCEPT !.stage = "done"]]

Leave(t) == task' = [task EXCEPT ![t] = [IdleTask EXCEPT !.stage = "died", !.form = task[t].form]]

\* Alerts are told apart by what they say, not by their id: a discrepancy that
\* is found again while its alert is open raises one that reads the same.
Alert(f, type) == [form |-> f, type |-> type, status |-> "OPEN"]

-----------------------------------------------------------------------------
(* Submission. *)

Taken(b) == \E other \in InsertedBs : Area[other] = Area[b]

\* submitFormB up to its look for a Form B of the same area.
SubmitBCheck(t, b) ==
    /\ \/ ~Taken(b) /\ Begin(t, "insertB", b)
       \/ Taken(b) /\ task[t].stage = "idle" /\ End(t)
    /\ UNCHANGED <<formB, formC, alerts>>

\* The transaction: header, candidates and the alert on an inconsistent form.
\* The unique index refuses a second Form B of the area.
SubmitBInsert(t) ==
    LET b == task[t].form IN
    /\ task[t].stage = "insertB"
    /\ ~Taken(b)
    /\ formB' = [formB EXCEPT ![b].status = "PENDING"]
    /\ alerts' = IF FormErrors(Form[b]) = {} THEN alerts
                   ELSE alerts \cup {Alert(b, "INTERNAL_MISMATCH")}
    /\ Goto(t, "readB")
    /\ UNCHANGED formC

SubmitBRefused(t) ==
    /\ task[t].stage = "insertB"
    /\ Taken(task[t].form)
    /\ End(t)
    /\ UNCHANGED <<formB, formC, alerts>>

\* submitAndReconcileFormC inserts without a look; an index refuses a second
\* Form C of the scope.
SubmitC(t, f) ==
    /\ \A other \in FormCs : Area[other] = Area[f] => formC[other].status = "NONE"
    /\ Begin(t, "readC", f)
    /\ formC' = [formC EXCEPT ![f].status = "DRAFT"]
    /\ UNCHANGED <<formB, alerts>>

-----------------------------------------------------------------------------
(* reconcileFormB. *)

\* POST /reconciliation/form-b/:id/reconcile.
RequestB(t, b) ==
    /\ b \in InsertedBs
    /\ Begin(t, "readB", b)
    /\ UNCHANGED <<formB, formC, alerts>>

CountsTowards(c, b) ==
    c \in WithElection /\ Area[c] = Area[b] /\ capsule[c] \in {"APPROVED", "ANCHORED", "PUBLISHED"}

\* The figures that are stored now; a sheet is entered for one capsule only.
FormAsFor(b) == {s \in Sheets : sheet[CapsuleOf[s]] = s /\ CountsTowards(CapsuleOf[s], b)}

ReadFormAs(t) ==
    /\ task[t].stage = "readB"
    /\ task' = [task EXCEPT ![t].read = FormAsFor(task[t].form), ![t].stage = "updateB"]
    /\ UNCHANGED <<formB, formC, alerts>>

DeltasOf(t) == Deltas(Form[task[t].form], [x \in task[t].read |-> Form[x]])

\* "present" is history: what the row was compared with.
UpdateFormB(t) ==
    LET mismatch == DeltasOf(t) # {} IN
    /\ task[t].stage = "updateB"
    /\ formB' = [formB EXCEPT ![task[t].form] =
                   [status  |-> IF mismatch THEN "DISCREPANCY" ELSE "MATCHED",
                    present |-> task[t].read]]
    /\ IF mismatch THEN Goto(t, "alertB") ELSE End(t)
    /\ UNCHANGED <<formC, alerts>>

\* Mutant: only a difference in valid votes is worth an alert.
AlertFormBValidOnly(t) ==
    /\ task[t].stage = "alertB"
    /\ alerts' = IF "valid" \in DeltasOf(t)
                   THEN alerts \cup {Alert(task[t].form, "FORM_B_MISMATCH")}
                   ELSE alerts
    /\ End(t)
    /\ UNCHANGED <<formB, formC>>

\* ON CONFLICT DO NOTHING finds no index: every run raises its own alert.
AlertFormB(t) ==
    /\ task[t].stage = "alertB"
    /\ alerts' = alerts \cup {Alert(task[t].form, "FORM_B_MISMATCH")}
    /\ End(t)
    /\ UNCHANGED <<formB, formC>>

-----------------------------------------------------------------------------
(* reconcileFormC. *)

RequestC(t, f) ==
    /\ formC[f].status # "NONE"
    /\ Begin(t, "readC", f)
    /\ UNCHANGED <<formB, formC, alerts>>

\* Mutant: Form Bs that do not match their Form As are left out.
FormBsForMatched(f) ==
    {b \in InsertedBs : Area[b] \in Constituencies[Area[f]] /\ formB[b].status = "MATCHED"}

\* Form Bs count whatever their reconciliation says; a discrepancy is flagged
\* separately.
FormBsFor(f) == {b \in InsertedBs : Area[b] \in Constituencies[Area[f]]}

ReadFormBs(t) ==
    /\ task[t].stage = "readC"
    /\ task' = [task EXCEPT ![t].read = FormBsFor(task[t].form),
                            ![t].present = InsertedBs,
                            ![t].stage = "updateC"]
    /\ UNCHANGED <<formB, formC, alerts>>

\* The kinds of alerts that the four checks of a Form C raise.
AlertTypesC(t) ==
    LET delta == DeltasOf(t)
        form == Form[task[t].form]
    IN  Broken("FORM_C_MISMATCH", delta \cap {"valid", "issued"} = {})
          \cup Broken("FORM_C_CANDIDATE_MISMATCH", delta \subseteq {"valid", "issued"})
          \cup Broken("CANDIDATE_SUM_MISMATCH", CandidateSum(form) = form.valid)

UpdateFormC(t) ==
    LET types == AlertTypesC(t) IN
    /\ task[t].stage = "updateC"
    /\ formC' = [formC EXCEPT ![task[t].form] =
                   [status  |-> IF types = {} THEN "VERIFIED" ELSE "DISCREPANCY",
                    present |-> task[t].present]]
    /\ IF types = {} THEN End(t)
         ELSE task' = [task EXCEPT ![t] =
                [IdleTask EXCEPT !.stage = "alertC", !.form = task[t].form, !.todo = types]]
    /\ UNCHANGED <<formB, alerts>>

\* One insert for each alert.
AlertFormC(t) ==
    LET type == CHOOSE x \in task[t].todo : TRUE IN
    /\ task[t].stage = "alertC"
    /\ alerts' = alerts \cup {Alert(task[t].form, type)}
    /\ IF task[t].todo = {type} THEN End(t)
         ELSE task' = [task EXCEPT ![t].todo = @ \ {type}]
    /\ UNCHANGED <<formB, formC>>

-----------------------------------------------------------------------------
\* resolveAlert: an update that only finds open alerts, and makes them RESOLVED
\* or DISMISSED.
ResolveAlert(a) ==
    /\ a \in alerts /\ a.status = "OPEN"
    /\ alerts' = (alerts \ {a}) \cup {[a EXCEPT !.status = "CLOSED"]}
    /\ UNCHANGED <<formB, formC, task>>

\* A query fails or the process stops: what is committed stays.
TaskDies(t) ==
    /\ task[t].stage \notin {"idle", "done", "died"}
    /\ IF task[t].stage \in {"alertB", "alertC"} THEN Leave(t) ELSE End(t)
    /\ UNCHANGED <<formB, formC, alerts>>

TaskStep(t) ==
    \/ \E b \in FormBs : SubmitBCheck(t, b) \/ RequestB(t, b)
    \/ \E f \in FormCs : SubmitC(t, f) \/ RequestC(t, f)
    \/ SubmitBInsert(t) \/ SubmitBRefused(t)
    \/ ReadFormAs(t) \/ UpdateFormB(t) \/ AlertFormB(t)
    \/ ReadFormBs(t) \/ UpdateFormC(t) \/ AlertFormC(t)
    \/ TaskDies(t)

ReconNext ==
    \/ \E t \in Tasks : TaskStep(t)
    \/ \E a \in alerts : ResolveAlert(a)

-----------------------------------------------------------------------------
(* Properties. *)

\* "Discrepancies create ALERTS for human review": a form in DISCREPANCY has
\* one, whoever reconciles it meanwhile; only a request that fails after the
\* update and before the insert, which are not one transaction, leaves none.
DiscrepancyIsAlerted ==
    \A f \in FormBs \cup FormCs :
        (IF f \in FormBs THEN formB[f] ELSE formC[f]).status = "DISCREPANCY" =>
            \/ \E a \in alerts : a.form = f /\ a.type # "INTERNAL_MISMATCH"
            \/ \E t \in Tasks : task[t].form = f
                                  /\ task[t].stage \in {"alertB", "alertC", "died"}

\* A MATCHED Form B that raised no alert on itself agrees with the sheets it was
\* last compared with candidate by candidate, those it does not list included,
\* provided the sheets are valid: the code compares listed candidates only and
\* relies on the two arithmetic checks for the rest.  Of figures entered since
\* it says nothing: submitTally starts no reconciliation.
MatchedIsExact ==
    \A b \in FormBs :
        /\ formB[b].status = "MATCHED"
        /\ ~\E a \in alerts : a.form = b /\ a.type = "INTERNAL_MISMATCH"
        /\ \A s \in formB[b].present : TallyStatus(Form[s]) = "VALID"
        => \A s \in formB[b].present : \A k \in DOMAIN Form[s].votes :
             VotesFor(Form[b], k) = Total([x \in formB[b].present |-> VotesFor(Form[x], k)])

\* A VERIFIED Form C equals the sum of all Form Bs of its scope that were on
\* record when it was last compared, reconciled or not, in agreement or not.
VerifiedCoversForms ==
    \A f \in FormCs :
        formC[f].status = "VERIFIED" =>
            Form[f].valid =
              Total([b \in {x \in formC[f].present : Area[x] \in Constituencies[Area[f]]} |->
                       Form[b].valid])

=============================================================================
