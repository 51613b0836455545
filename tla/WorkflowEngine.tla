--------------------------- MODULE WorkflowEngine ---------------------------
(***************************************************************************)
(* The Workflow Service: executions of the evidence capsule workflow, the  *)
(* Step Functions state machine they run, the callbacks and the polling    *)
(* that copy the machine's outcome into the database, and the deadline     *)
(* check that escalates what is overdue.                                   *)
(*                                                                         *)
(* A call of startWorkflow inserts at most one row, so a request and the   *)
(* execution it creates share one name.  Handlers are split at the awaits  *)
(* whose order matters.  Left out: current_step and the step log, which    *)
(* are written and never read by the service; durations and payloads.      *)
(***************************************************************************)
EXTENDS Naturals, FiniteSets

CONSTANTS
    Requests,      \* calls of POST /workflow/start for evidence capsules
    Capsules,
    CapsuleOf,     \* the capsule each request is about
    Checks,        \* deadline checks that may run at the same time
    SlaBatch,      \* how many overdue executions one check looks at
    PublishServed  \* whether the Evidence Service answers the publish call

ASSUME CapsuleOfIsTotal == CapsuleOf \in [Requests -> Capsules]
ASSUME SlaBatchIsPositive == SlaBatch \in Nat \ {0}
ASSUME PublishServedIsBoolean == PublishServed \in BOOLEAN

VARIABLES
    row,      \* workflow_executions, by execution
    call,     \* where each startWorkflow call stands
    before,   \* the rows each call found in the table, of whatever status
    machine,  \* the Step Functions executions
    anchors,  \* executions whose machine posted to /trust/anchor
    sync,     \* the polls of Step Functions in progress
    breaches, \* DEADLINE_BREACH escalations of each execution
    check     \* the deadline checks in progress

vars == <<row, call, before, machine, anchors, sync, breaches, check>>

serviceVars == <<row, call, before, sync, breaches, check>>

-----------------------------------------------------------------------------
(* Data. *)

Terminal == {"SUCCEEDED", "FAILED", "TIMED_OUT", "ABORTED"}
Statuses == {"RUNNING"} \cup Terminal

NoRow == [status |-> "NONE", arn |-> FALSE, overdue |-> FALSE]
Rows == [status : Statuses \cup {"NONE"}, arn : BOOLEAN, overdue : BOOLEAN]

NoCheck == [todo |-> {}, create |-> {}]

Inserted(e) == row[e] # NoRow
Overdue(e) == row[e].status = "RUNNING" /\ row[e].overdue

CallStages == {"idle", "insert", "start", "saveArn", "saveFailed", "done"}

\* The states of the evidence capsule machine where it waits or acts, with the
\* ways an execution can end outside of the definition: no Catch applies, or
\* an operator stops it.  Choice states only compute where to go next.
MachineStates ==
    {"absent", "TriggerAIProcessing", "WaitForAIProcessing", "CheckAIJobStatus",
     "AssignToValidatorQueue", "AnchorToQldb", "PublishResults",
     "WorkflowSucceeded", "ValidationRejected", "AIProcessingFailed",
     "AnchoringFailed", "ValidationTimedOut", "EscalateToSupervisor",
     "WorkflowFailed", "Uncaught", "Aborted"}

\* What GET /ai/jobs/capsule/:id answers: a finished job carries its routing.
JobAnswers == {"COMPLETED", "COMPLETED_ESCALATE", "FAILED", "ESCALATED", "OTHER"}
Decisions == {"APPROVED", "REJECTED", "ESCALATED"}

Machines == [at : MachineStates, approved : BOOLEAN]

NoMachine == [at |-> "absent", approved |-> FALSE]

StatusOf(m) ==
    CASE m.at = "WorkflowSucceeded" -> "SUCCEEDED"
      [] m.at \in {"WorkflowFailed", "Uncaught"} -> "FAILED"
      [] m.at = "Aborted" -> "ABORTED"
      [] OTHER -> "RUNNING"

Live(m) == m.at # "absent" /\ StatusOf(m) = "RUNNING"

Init ==
    /\ row = [e \in Requests |-> NoRow]
    /\ call = [e \in Requests |-> "idle"]
    /\ before = [e \in Requests |-> {}]
    /\ machine = [e \in Requests |-> NoMachine]
    /\ anchors = {}
    /\ sync = [e \in Requests |-> "idle"]
    /\ breaches = [e \in Requests |-> 0]
    /\ check = [k \in Checks |-> NoCheck]

-----------------------------------------------------------------------------
(* startWorkflow. *)

\* Mutant: the check looks for finished executions.
RunningForSucceeded(c) ==
    {e \in Requests : CapsuleOf[e] = c /\ row[e].status = "SUCCEEDED"}

\* The rows the idempotency check of startWorkflow returns.
RunningFor(c) == {e \in Requests : CapsuleOf[e] = c /\ row[e].status = "RUNNING"}

StartFindsRunning(e) ==
    /\ call[e] = "idle"
    /\ RunningFor(CapsuleOf[e]) # {}
    /\ call' = [call EXCEPT ![e] = "done"]
    /\ UNCHANGED <<row, before, machine, anchors, sync, breaches, check>>

StartFindsNone(e) ==
    /\ call[e] = "idle"
    /\ RunningFor(CapsuleOf[e]) = {}
    /\ call' = [call EXCEPT ![e] = "insert"]
    /\ before' = [before EXCEPT ![e] = {f \in Requests : Inserted(f)}]
    /\ UNCHANGED <<row, machine, anchors, sync, breaches, check>>

StartInsert(e) ==
    /\ call[e] = "insert"
    /\ row' = [row EXCEPT ![e] = [NoRow EXCEPT !.status = "RUNNING"]]
    /\ call' = [call EXCEPT ![e] = "start"]
    /\ UNCHANGED <<before, machine, anchors, sync, breaches, check>>

\* StartExecution succeeds; the answer may be lost on its way back.
StartMachine(e) ==
    /\ call[e] = "start"
    /\ machine' = [machine EXCEPT ![e].at = "TriggerAIProcessing"]
    /\ \E next \in {"saveArn", "saveFailed"} : call' = [call EXCEPT ![e] = next]
    /\ UNCHANGED <<row, before, anchors, sync, breaches, check>>

StartRefused(e) ==
    /\ call[e] = "start"
    /\ call' = [call EXCEPT ![e] = "saveFailed"]
    /\ UNCHANGED <<row, before, machine, anchors, sync, breaches, check>>

StartSaveArn(e) ==
    /\ call[e] = "saveArn"
    /\ row' = [row EXCEPT ![e].arn = TRUE]
    /\ call' = [call EXCEPT ![e] = "done"]
    /\ UNCHANGED <<before, machine, anchors, sync, breaches, check>>

StartSaveFailed(e) ==
    /\ call[e] = "saveFailed"
    /\ row' = [row EXCEPT ![e].status = "FAILED"]
    /\ call' = [call EXCEPT ![e] = "done"]
    /\ UNCHANGED <<before, machine, anchors, sync, breaches, check>>

-----------------------------------------------------------------------------
(* The state machine: its definition, run by Step Functions.  A task that    *)
(* is retried stays in its state; a task without a Catch that keeps failing  *)
(* ends the execution outside the definition's own terminal states.          *)

NextOfTask ==
    [TriggerAIProcessing  |-> {"WaitForAIProcessing", "AIProcessingFailed"},
     WaitForAIProcessing  |-> {"CheckAIJobStatus"},
     AnchorToQldb         |-> {"PublishResults", "AnchoringFailed"},
     PublishResults       |-> IF PublishServed THEN {"WorkflowSucceeded", "Uncaught"}
                                               ELSE {"Uncaught"},
     ValidationTimedOut   |-> {"EscalateToSupervisor", "Uncaught"},
     ValidationRejected   |-> {"WorkflowFailed", "Uncaught"},
     AIProcessingFailed   |-> {"WorkflowFailed", "Uncaught"},
     AnchoringFailed      |-> {"WorkflowFailed", "Uncaught"},
     EscalateToSupervisor |-> {"WorkflowFailed", "Uncaught"}]

\* Mutant: a capsule the AI found in order needs no validator.
RouteByAIAlone(job) ==
    IF job = "COMPLETED_ESCALATE" THEN "EscalateToSupervisor" ELSE "AnchorToQldb"

RouteByAIDecision(job) ==
    IF job = "COMPLETED_ESCALATE" THEN "EscalateToSupervisor"
                                  ELSE "AssignToValidatorQueue"

EvaluateAIStatus(job) ==
    CASE job \in {"COMPLETED", "COMPLETED_ESCALATE"} -> RouteByAIDecision(job)
      [] job = "FAILED" -> "AIProcessingFailed"
      [] job = "ESCALATED" -> "EscalateToSupervisor"
      [] OTHER -> "WaitForAIProcessing"

EvaluateValidationDecision(decision) ==
    CASE decision = "APPROVED" -> "AnchorToQldb"
      [] decision = "ESCALATED" -> "EscalateToSupervisor"
      [] OTHER -> "ValidationRejected"

\* POST /trust/anchor is sent by the state that precedes its outcome.
RunTask(e) ==
    /\ machine[e].at \in DOMAIN NextOfTask
    /\ \E s \in NextOfTask[machine[e].at] : machine' = [machine EXCEPT ![e].at = s]
    /\ anchors' = IF machine[e].at = "AnchorToQldb" THEN anchors \cup {e} ELSE anchors
    /\ UNCHANGED serviceVars

CheckAIJobStatus(e) ==
    /\ machine[e].at = "CheckAIJobStatus"
    /\ \E s \in {EvaluateAIStatus(j) : j \in JobAnswers} \cup {"Uncaught"} :
         machine' = [machine EXCEPT ![e].at = s]
    /\ UNCHANGED <<serviceVars, anchors>>

\* A validator answers with the task token, the wait times out, or the task
\* fails.
ValidatorAnswers(e) ==
    /\ machine[e].at = "AssignToValidatorQueue"
    /\ \E d \in Decisions :
         machine' = [machine EXCEPT ![e].at = EvaluateValidationDecision(d),
                                    ![e].approved = (d = "APPROVED")]
    /\ UNCHANGED <<serviceVars, anchors>>

NoAnswer(e) ==
    /\ machine[e].at = "AssignToValidatorQueue"
    /\ \E s \in {"ValidationTimedOut", "ValidationRejected"} :
         machine' = [machine EXCEPT ![e].at = s]
    /\ UNCHANGED <<serviceVars, anchors>>

Abort(e) ==
    /\ Live(machine[e])
    /\ machine' = [machine EXCEPT ![e].at = "Aborted"]
    /\ UNCHANGED <<serviceVars, anchors>>

-----------------------------------------------------------------------------
(* recordStepEvent and syncFromStepFunctions end in markCompleted, which     *)
(* writes the status it is given over whatever the row holds.                *)

MarkCompleted(e, status) == row' = [row EXCEPT ![e].status = status]

\* Mutant: every terminal event means success.
RecordStepEventSucceeds(e) ==
    /\ machine[e].at \in {"WorkflowSucceeded", "WorkflowFailed"}
    /\ MarkCompleted(e, "SUCCEEDED")
    /\ UNCHANGED <<call, before, machine, anchors, sync, breaches, check>>

\* EventBridge reports the definition's own terminal states.  It may lose the
\* event, delay it or deliver it again: it arrives at any time or never.
RecordStepEvent(e) ==
    /\ machine[e].at \in {"WorkflowSucceeded", "WorkflowFailed"}
    /\ MarkCompleted(e, StatusOf(machine[e]))
    /\ UNCHANGED <<call, before, machine, anchors, sync, breaches, check>>

\* The poll reads the row, asks Step Functions and keeps the answer.
SyncDescribe(e) ==
    /\ sync[e] = "idle"
    /\ row[e].arn
    /\ StatusOf(machine[e]) \notin {"RUNNING", row[e].status}
    /\ sync' = [sync EXCEPT ![e] = StatusOf(machine[e])]
    /\ UNCHANGED <<row, call, before, machine, anchors, breaches, check>>

SyncWrite(e) ==
    /\ sync[e] # "idle"
    /\ MarkCompleted(e, sync[e])
    /\ sync' = [sync EXCEPT ![e] = "idle"]
    /\ UNCHANGED <<call, before, machine, anchors, breaches, check>>

-----------------------------------------------------------------------------
(* Deadlines. *)

DeadlinePasses(e) ==
    /\ row[e].status = "RUNNING" /\ ~row[e].overdue
    /\ row' = [row EXCEPT ![e].overdue = TRUE]
    /\ UNCHANGED <<call, before, machine, anchors, sync, breaches, check>>

\* Mutant: only executions that have an ARN are looked at.
BatchesStarted == LET late == {e \in Requests : Overdue(e) /\ row[e].arn} IN
    {s \in SUBSET late : \/ Cardinality(s) = SlaBatch
                         \/ s = late /\ Cardinality(late) <= SlaBatch}

\* What "take: 50" without an order may return.
Batches == LET late == {e \in Requests : Overdue(e)} IN
    {s \in SUBSET late : \/ Cardinality(s) = SlaBatch
                         \/ s = late /\ Cardinality(late) <= SlaBatch}

CheckFind(k) ==
    /\ check[k] = NoCheck
    /\ \E s \in Batches \ {{}} : check' = [check EXCEPT ![k].todo = s]
    /\ UNCHANGED <<row, call, before, machine, anchors, sync, breaches>>

\* Mutant: an earlier breach is not looked for.
CheckLookAlways(k, e) ==
    /\ e \in check[k].todo
    /\ check[k].create = {}
    /\ check' = [check EXCEPT ![k].todo = @ \ {e}, ![k].create = {e}]
    /\ UNCHANGED <<row, call, before, machine, anchors, sync, breaches>>

CheckLook(k, e) ==
    /\ e \in check[k].todo
    /\ check[k].create = {}
    /\ check' = [check EXCEPT ![k].todo = @ \ {e},
                              ![k].create = IF breaches[e] > 0 THEN {} ELSE {e}]
    /\ UNCHANGED <<row, call, before, machine, anchors, sync, breaches>>

CheckCreate(k, e) ==
    /\ e \in check[k].create
    /\ breaches' = [breaches EXCEPT ![e] = @ + 1]
    /\ check' = [check EXCEPT ![k].create = {}]
    /\ UNCHANGED <<row, call, before, machine, anchors, sync>>

-----------------------------------------------------------------------------
\* A process stops: the call, poll or check it was running is gone.
CallDies(e) ==
    /\ call[e] \notin {"idle", "done"}
    /\ call' = [call EXCEPT ![e] = "done"]
    /\ UNCHANGED <<row, before, machine, anchors, sync, breaches, check>>

SyncDies(e) ==
    /\ sync[e] # "idle"
    /\ sync' = [sync EXCEPT ![e] = "idle"]
    /\ UNCHANGED <<row, call, before, machine, anchors, breaches, check>>

StartWorkflow(e) ==
    \/ StartFindsRunning(e) \/ StartFindsNone(e) \/ StartInsert(e) \/ StartMachine(e)
    \/ StartRefused(e) \/ StartSaveArn(e) \/ StartSaveFailed(e)
    \/ CallDies(e)

MachineStep(e) ==
    \/ RunTask(e) \/ CheckAIJobStatus(e)
    \/ ValidatorAnswers(e) \/ NoAnswer(e) \/ Abort(e)

SyncStep(e) == SyncDescribe(e) \/ SyncWrite(e) \/ SyncDies(e)

CheckStep(k) == CheckFind(k) \/ \E e \in Requests : CheckLook(k, e) \/ CheckCreate(k, e)

Next ==
    \/ \E e \in Requests :
         \/ StartWorkflow(e)
         \/ MachineStep(e)
         \/ SyncStep(e)
         \/ DeadlinePasses(e)
         \/ RecordStepEvent(e)
    \/ \E k \in Checks : CheckStep(k)

Spec == Init /\ [][Next]_vars

\* EventBridge Scheduler runs the check every 15 minutes and its queries
\* settle; nothing else is promised.
FairSpec == Spec /\ \A k \in Checks : WF_vars(CheckStep(k))

-----------------------------------------------------------------------------
(* Properties. *)

TypeOK ==
    /\ row \in [Requests -> Rows]
    /\ call \in [Requests -> CallStages]
    /\ before \in [Requests -> SUBSET Requests]
    /\ machine \in [Requests -> Machines]
    /\ anchors \subseteq Requests
    /\ sync \in [Requests -> Terminal \cup {"idle"}]
    /\ breaches \in [Requests -> Nat]
    /\ check \in [Checks -> [todo : SUBSET Requests, create : SUBSET Requests]]

\* A status in the database is the machine's own, however callbacks are
\* repeated or reordered and whatever a poll read earlier; only a FAILED that
\* stands for a refused start (no ARN saved) may be wrong about the machine.
StatusIsTrue ==
    \A e \in Requests :
        row[e].status \in Terminal =>
            \/ row[e].status = StatusOf(machine[e])
            \/ row[e].status = "FAILED" /\ ~row[e].arn

\* "AI assists, humans decide": the machine asks for an anchor only after a
\* validator answered APPROVED, whatever the AI job said and however often
\* the wait for it was repeated.
AnchorNeedsValidator ==
    \A e \in Requests :
        e \in anchors \/ machine[e].at = "AnchorToQldb" =>
            machine[e].approved

\* startWorkflow is idempotent for a capsule up to overlapping calls: two
\* executions run at once only if each call looked before the other's row
\* was there.
DoubleStartNeedsOverlap ==
    \A e, f \in Requests :
        e # f /\ CapsuleOf[e] = CapsuleOf[f]
              /\ row[e].status = "RUNNING" /\ row[f].status = "RUNNING" =>
            e \notin before[f] /\ f \notin before[e]

\* Only one DEADLINE_BREACH per execution, while checks do not overlap.
OneBreachPerExecution == \A e \in Requests : breaches[e] <= 1

\* Nothing is forgotten: an overdue execution is escalated or leaves RUNNING,
\* also one whose process stopped before the machine was started, and one
\* whose machine failed without a report.
OverdueIsEscalated ==
    \A e \in Requests : Overdue(e) ~> (breaches[e] > 0 \/ row[e].status # "RUNNING")

=============================================================================
