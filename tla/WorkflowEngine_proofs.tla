------------------------ MODULE WorkflowEngine_proofs ------------------------
(***************************************************************************)
(* Proofs about WorkflowEngine, for every set of requests, capsules and    *)
(* checks, whatever a check takes and whether or not the publish call is   *)
(* served.                                                                 *)
(***************************************************************************)
EXTENDS WorkflowEngine, FiniteSetTheorems, TLAPS

BeforeDecision == {"absent", "TriggerAIProcessing", "WaitForAIProcessing",
                   "CheckAIJobStatus", "AssignToValidatorQueue"}

\* How far a call is says what its row and its machine can be.
CallOK(e) ==
    /\ call[e] \in {"idle", "insert"} => row[e] = NoRow
    /\ call[e] \in {"idle", "insert", "start"} => machine[e] = NoMachine
    /\ call[e] = "start" => row[e].status = "RUNNING"
    /\ call[e] # "done" => ~row[e].arn
    /\ call[e] = "saveArn" /\ row[e].status \in Terminal =>
         row[e].status = StatusOf(machine[e])

RowOK(e) ==
    row[e].status \in Terminal =>
        \/ row[e].status = StatusOf(machine[e])
        \/ row[e].status = "FAILED" /\ ~row[e].arn

\* What a poll was told is still so: a machine that ended stays ended.
SyncOK(e) == sync[e] \in Terminal => sync[e] = StatusOf(machine[e])

MachineOK(e) ==
    /\ machine[e].at \in BeforeDecision => e \notin anchors
    /\ e \in anchors \/ machine[e].at = "AnchorToQldb" => machine[e].approved

ExecutionOK(e) == CallOK(e) /\ RowOK(e) /\ SyncOK(e) /\ MachineOK(e)

\* A row that a call found for its capsule was not RUNNING, and never will be.
BeforeOK(e) ==
    \A f \in before[e] :
        /\ row[f] # NoRow
        /\ CapsuleOf[f] = CapsuleOf[e] => row[f].status # "RUNNING"

\* The inductive invariant.
WorkflowInv ==
    /\ TypeOK
    /\ \A e \in Requests : ExecutionOK(e) /\ BeforeOK(e)

LEMMA InitWorkflowInv == Init => WorkflowInv
<1> SUFFICES ASSUME Init PROVE WorkflowInv
  OBVIOUS
<1>1. NoRow \in Rows /\ NoMachine \in Machines
  BY DEF NoRow, Rows, NoMachine, Machines, MachineStates, Statuses, Terminal
<1>2. TypeOK
  BY <1>1 DEF Init, TypeOK, CallStages, NoCheck, Terminal
<1>3. ASSUME NEW e \in Requests PROVE ExecutionOK(e) /\ BeforeOK(e)
  BY <1>3 DEF Init, ExecutionOK, CallOK, RowOK, SyncOK, MachineOK, BeforeOK,
     NoRow, NoMachine, Terminal
<1> QED
  BY <1>2, <1>3 DEF WorkflowInv

-----------------------------------------------------------------------------
(* What a step about one execution leaves alone. *)

OthersKept(e) ==
    \A f \in Requests \ {e} :
        /\ row'[f] = row[f] /\ call'[f] = call[f] /\ machine'[f] = machine[f]
        /\ sync'[f] = sync[f] /\ (f \in anchors' <=> f \in anchors)

\* Rows do not go away, and one that is not RUNNING does not become so again.
RowsKept ==
    \A f \in Requests : row[f] # NoRow =>
        row'[f] # NoRow /\ (row'[f].status = "RUNNING" => row[f].status = "RUNNING")

\* An action is accounted for by the execution it is about.
LEMMA OneExecution ==
    ASSUME WorkflowInv, TypeOK', before' = before, RowsKept,
           NEW e \in Requests, OthersKept(e), ExecutionOK(e)'
    PROVE  WorkflowInv'
<1>1. ASSUME NEW f \in Requests PROVE ExecutionOK(f)'
  <2>1. CASE f = e
    BY <2>1
  <2>2. CASE f # e
    BY <1>1, <2>2 DEF OthersKept, WorkflowInv, ExecutionOK, CallOK, RowOK, SyncOK, MachineOK
  <2> QED
    BY <2>1, <2>2
<1>2. ASSUME NEW f \in Requests PROVE BeforeOK(f)'
  <2>1. before[f] \subseteq Requests
    BY <1>2 DEF WorkflowInv, TypeOK
  <2> QED
    BY <1>2, <2>1 DEF RowsKept, WorkflowInv, BeforeOK
<1> QED
  BY <1>1, <1>2 DEF WorkflowInv

-----------------------------------------------------------------------------
(* The state machine only moves while it is live. *)

LEMMA MachineMoves ==
    ASSUME TypeOK, NEW e \in Requests, MachineStep(e), MachineOK(e)
    PROVE  /\ \E m \in Machines : machine' = [machine EXCEPT ![e] = m]
           /\ machine[e].at # "absent" /\ StatusOf(machine[e]) = "RUNNING"
           /\ anchors' \in {anchors, anchors \cup {e}}
           /\ UNCHANGED serviceVars
           /\ MachineOK(e)'
<1> USE DEF Machines, MachineStates, StatusOf, MachineOK, BeforeDecision
<1>1. machine[e] \in Machines
  BY DEF TypeOK
<1>2. CASE RunTask(e)
  <2>1. PICK s : /\ s \in NextOfTask[machine[e].at]
                 /\ machine' = [machine EXCEPT ![e].at = s]
    BY <1>2 DEF RunTask
  <2>2. /\ s \in MachineStates /\ s \notin BeforeDecision \ {"WaitForAIProcessing", "CheckAIJobStatus"}
        /\ s # "AnchorToQldb" /\ s # "absent"
        /\ machine[e].at # "absent" /\ StatusOf(machine[e]) = "RUNNING"
        /\ s \in BeforeDecision => machine[e].at \in BeforeDecision
    BY <1>2, <2>1 DEF RunTask, NextOfTask
  <2> QED
    BY <1>1, <1>2, <2>1, <2>2 DEF RunTask, TypeOK
<1>3. CASE CheckAIJobStatus(e)
  <2>1. PICK s : /\ s \in {EvaluateAIStatus(j) : j \in JobAnswers} \cup {"Uncaught"}
                 /\ machine' = [machine EXCEPT ![e].at = s]
    BY <1>3 DEF CheckAIJobStatus
  <2>2. s \in {"AssignToValidatorQueue", "EscalateToSupervisor", "AIProcessingFailed",
               "WaitForAIProcessing", "Uncaught"}
    BY <2>1 DEF EvaluateAIStatus, RouteByAIDecision, JobAnswers
  <2> QED
    BY <1>1, <1>3, <2>1, <2>2 DEF CheckAIJobStatus, TypeOK
<1>4. CASE ValidatorAnswers(e)
  <2>1. PICK d \in Decisions :
          machine' = [machine EXCEPT ![e].at = EvaluateValidationDecision(d),
                                     ![e].approved = (d = "APPROVED")]
    BY <1>4 DEF ValidatorAnswers
  <2>2. EvaluateValidationDecision(d) \in {"AnchorToQldb", "EscalateToSupervisor", "ValidationRejected"}
    BY DEF EvaluateValidationDecision
  <2>3. EvaluateValidationDecision(d) = "AnchorToQldb" => d = "APPROVED"
    BY <2>1 DEF EvaluateValidationDecision, Decisions
  <2> QED
    BY <1>1, <1>4, <2>1, <2>2, <2>3 DEF ValidatorAnswers, TypeOK
<1>5. CASE NoAnswer(e)
  <2>1. PICK s \in {"ValidationTimedOut", "ValidationRejected"} :
          machine' = [machine EXCEPT ![e].at = s]
    BY <1>5 DEF NoAnswer
  <2> QED
    BY <1>1, <1>5, <2>1 DEF NoAnswer, TypeOK
<1>6. CASE Abort(e)
  BY <1>1, <1>6 DEF Abort, Live, TypeOK
<1> QED
  BY <1>2, <1>3, <1>4, <1>5, <1>6 DEF MachineStep

-----------------------------------------------------------------------------
(* The steps of the service. *)

\* What the types say of one execution.
LEMMA TypesOf ==
    ASSUME TypeOK, NEW e \in Requests
    PROVE  /\ row[e] \in Rows /\ call[e] \in CallStages
           /\ machine[e] \in Machines /\ sync[e] \in Terminal \cup {"idle"}
  BY DEF TypeOK

\* A step that writes the row of an execution keeps the invariant when the
\* new row agrees with how far the call has come and with the machine.
LEMMA RowWritten ==
    ASSUME WorkflowInv, NEW e \in Requests, NEW r \in Rows, NEW c \in CallStages,
           row' = [row EXCEPT ![e] = r], call' = [call EXCEPT ![e] = c],
           NEW s \in Terminal \cup {"idle"}, sync' = [sync EXCEPT ![e] = s],
           s # "idle" => s = sync[e],
           UNCHANGED <<before, machine, anchors, breaches, check>>,
           r # NoRow, r.status = "RUNNING" => row[e] = NoRow \/ row[e].status = "RUNNING",
           c \notin {"idle", "insert"},
           c = "start" => machine[e] = NoMachine /\ r.status = "RUNNING",
           c # "done" => ~r.arn,
           c = "saveArn" /\ r.status \in Terminal => r.status = StatusOf(machine[e]),
           r.status \in Terminal =>
             r.status = StatusOf(machine[e]) \/ (r.status = "FAILED" /\ ~r.arn)
    PROVE  WorkflowInv'
<1>1. TypeOK /\ ExecutionOK(e)
  BY DEF WorkflowInv
<1>2. TypeOK'
  BY <1>1 DEF TypeOK
<1>3. row'[e] = r /\ call'[e] = c /\ sync'[e] = s
  BY <1>1 DEF TypeOK
<1>4. RowsKept /\ OthersKept(e)
  BY <1>1, <1>3 DEF TypeOK, RowsKept, OthersKept
<1>5. ExecutionOK(e)'
  BY <1>1, <1>3, <1>4 DEF ExecutionOK, CallOK, RowOK, SyncOK, MachineOK, Terminal
<1> QED
  BY <1>2, <1>4, <1>5, OneExecution

\* A step that moves the call on, or starts the machine.
LEMMA CallMoved ==
    ASSUME WorkflowInv, NEW e \in Requests, NEW c \in CallStages, NEW m \in Machines,
           call' = [call EXCEPT ![e] = c], machine' = [machine EXCEPT ![e] = m],
           UNCHANGED <<row, before, anchors, sync, breaches, check>>,
           ~row[e].arn, c \notin {"idle", "start"},
           c = "insert" => row[e] = NoRow,
           m # machine[e] => call[e] = "start" /\ m.at = "TriggerAIProcessing",
           c = "insert" => m = NoMachine,
           c = "saveArn" => call[e] = "start"
    PROVE  TypeOK' /\ RowsKept /\ OthersKept(e) /\ ExecutionOK(e)'
<1>1. TypeOK /\ ExecutionOK(e)
  BY DEF WorkflowInv
<1>2. TypeOK'
  BY <1>1 DEF TypeOK
<1>3. call'[e] = c /\ machine'[e] = m
  BY <1>1 DEF TypeOK
<1>4. RowsKept /\ OthersKept(e)
  BY <1>1, <1>3 DEF TypeOK, RowsKept, OthersKept
<1>5. CASE m = machine[e]
  BY <1>1, <1>2, <1>3, <1>4, <1>5 DEF ExecutionOK, CallOK, RowOK, SyncOK, MachineOK, Terminal
<1>6. CASE m # machine[e]
  <2>1. /\ machine[e].at = "absent" /\ StatusOf(machine[e]) = "RUNNING"
        /\ row[e].status = "RUNNING" /\ e \notin anchors
    BY <1>1, <1>6 DEF ExecutionOK, CallOK, MachineOK, NoMachine, StatusOf, BeforeDecision
  <2>2. sync[e] \notin Terminal
    BY <1>1, <2>1 DEF ExecutionOK, SyncOK, Terminal
  <2> QED
    BY <1>1, <1>2, <1>3, <1>4, <1>6, <2>1, <2>2
       DEF ExecutionOK, CallOK, RowOK, SyncOK, MachineOK, Terminal, BeforeDecision
<1> QED
  BY <1>2, <1>4, <1>5, <1>6

LEMMA StartKeepsInv ==
    ASSUME WorkflowInv, NEW e \in Requests, StartWorkflow(e)
    PROVE  WorkflowInv'
<1>1. TypeOK /\ ExecutionOK(e)
  BY DEF WorkflowInv
<1>2. /\ row[e] \in Rows /\ call[e] \in CallStages
      /\ machine[e] \in Machines /\ sync[e] \in Terminal \cup {"idle"}
      /\ machine = [machine EXCEPT ![e] = machine[e]]
      /\ sync = [sync EXCEPT ![e] = sync[e]]
  BY <1>1, TypesOf DEF TypeOK
<1>3. CASE StartFindsRunning(e)
  <2>1. ~row[e].arn /\ "done" \in CallStages
    BY <1>1, <1>3 DEF StartFindsRunning, ExecutionOK, CallOK, CallStages
  <2>2. TypeOK' /\ RowsKept /\ OthersKept(e) /\ ExecutionOK(e)'
    BY <1>2, <1>3, <2>1, CallMoved DEF StartFindsRunning
  <2> QED
    BY <1>3, <2>2, OneExecution DEF StartFindsRunning
<1>4. CASE StartFindsNone(e)
  <2>1. row[e] = NoRow /\ ~row[e].arn /\ machine[e] = NoMachine
    BY <1>1, <1>4 DEF StartFindsNone, ExecutionOK, CallOK
  <2>2. /\ call'[e] = "insert" /\ row'[e] = row[e] /\ machine'[e] = machine[e]
        /\ sync'[e] = sync[e] /\ anchors' = anchors
    BY <1>1, <1>4 DEF StartFindsNone, TypeOK
  <2>3. TypeOK'
    BY <1>1, <1>4 DEF StartFindsNone, TypeOK, CallStages
  <2>4. ASSUME NEW f \in Requests PROVE ExecutionOK(f)'
    <3>1. CASE f = e
      BY <1>1, <2>1, <2>2, <3>1 DEF ExecutionOK, CallOK, RowOK, SyncOK, MachineOK
    <3>2. CASE f # e
      <4>1. /\ call'[f] = call[f] /\ row'[f] = row[f] /\ machine'[f] = machine[f]
            /\ sync'[f] = sync[f] /\ anchors' = anchors /\ ExecutionOK(f)
        BY <1>1, <1>4, <2>4, <3>2 DEF StartFindsNone, TypeOK, WorkflowInv
      <4> QED
        BY <4>1 DEF ExecutionOK, CallOK, RowOK, SyncOK, MachineOK
    <3> QED
      BY <3>1, <3>2
  <2>5. ASSUME NEW f \in Requests PROVE BeforeOK(f)'
    <3>1. row' = row
      BY <1>4 DEF StartFindsNone
    <3>2. CASE f = e
      <4>1. before'[e] = {g \in Requests : Inserted(g)}
        BY <1>1, <1>4 DEF StartFindsNone, TypeOK
      <4>2. \A g \in Requests : CapsuleOf[g] = CapsuleOf[e] => row[g].status # "RUNNING"
        BY <1>4 DEF StartFindsNone, RunningFor
      <4> QED
        BY <3>1, <3>2, <4>1, <4>2 DEF BeforeOK, Inserted
    <3>3. CASE f # e
      <4>1. before'[f] = before[f] /\ BeforeOK(f)
        BY <1>1, <1>4, <2>5, <3>3 DEF StartFindsNone, TypeOK, WorkflowInv
      <4> QED
        BY <3>1, <4>1 DEF BeforeOK
    <3> QED
      BY <3>2, <3>3
  <2> QED
    BY <2>3, <2>4, <2>5 DEF WorkflowInv
<1>5. CASE StartInsert(e)
  <2> DEFINE r == [NoRow EXCEPT !.status = "RUNNING"]
  <2>1. r \in Rows /\ r # NoRow /\ ~r.arn /\ r.status = "RUNNING" /\ "start" \in CallStages
    BY DEF NoRow, Rows, Statuses, CallStages
  <2>2. row[e] = NoRow /\ machine[e] = NoMachine
    BY <1>1, <1>5 DEF StartInsert, ExecutionOK, CallOK
  <2>3. /\ row' = [row EXCEPT ![e] = r] /\ call' = [call EXCEPT ![e] = "start"]
        /\ sync' = [sync EXCEPT ![e] = sync[e]]
        /\ UNCHANGED <<before, machine, anchors, breaches, check>>
    BY <1>2, <1>5 DEF StartInsert
  <2> QED
    BY <1>2, <2>1, <2>2, <2>3, RowWritten DEF Terminal
<1>6. CASE StartMachine(e)
  <2>1. PICK c \in {"saveArn", "saveFailed"} : call' = [call EXCEPT ![e] = c]
    BY <1>6 DEF StartMachine
  <2> DEFINE m == [machine[e] EXCEPT !.at = "TriggerAIProcessing"]
  <2>2. m \in Machines /\ m.at = "TriggerAIProcessing" /\ machine' = [machine EXCEPT ![e] = m]
    BY <1>1, <1>2, <1>6 DEF StartMachine, Machines, MachineStates, TypeOK
  <2>3. call[e] = "start" /\ ~row[e].arn /\ c \in CallStages
    BY <1>1, <1>6 DEF StartMachine, ExecutionOK, CallOK, CallStages
  <2>4. TypeOK' /\ RowsKept /\ OthersKept(e) /\ ExecutionOK(e)'
    BY <1>6, <2>1, <2>2, <2>3, CallMoved DEF StartMachine
  <2> QED
    BY <1>6, <2>4, OneExecution DEF StartMachine
<1>7. CASE StartRefused(e)
  <2>1. ~row[e].arn /\ "saveFailed" \in CallStages
    BY <1>1, <1>7 DEF StartRefused, ExecutionOK, CallOK, CallStages
  <2>2. TypeOK' /\ RowsKept /\ OthersKept(e) /\ ExecutionOK(e)'
    BY <1>2, <1>7, <2>1, CallMoved DEF StartRefused
  <2> QED
    BY <1>7, <2>2, OneExecution DEF StartRefused
<1>8. CASE StartSaveArn(e)
  <2> DEFINE saved == [row[e] EXCEPT !.arn = TRUE]
  <2>1. /\ saved \in Rows /\ saved # NoRow /\ "done" \in CallStages
        /\ saved.status = row[e].status
    BY <1>2 DEF Rows, NoRow, CallStages
  <2>2. row[e].status \in Terminal => row[e].status = StatusOf(machine[e])
    BY <1>1, <1>8 DEF StartSaveArn, ExecutionOK, CallOK
  <2>3. /\ row' = [row EXCEPT ![e] = saved] /\ call' = [call EXCEPT ![e] = "done"]
        /\ sync' = [sync EXCEPT ![e] = sync[e]]
        /\ UNCHANGED <<before, machine, anchors, breaches, check>>
    BY <1>1, <1>2, <1>8 DEF StartSaveArn, TypeOK
  <2>4. /\ saved.status = "RUNNING" => row[e].status = "RUNNING"
        /\ saved.status \in Terminal => saved.status = StatusOf(machine[e])
    BY <2>1, <2>2
  <2>5. saved \in Rows /\ saved # NoRow /\ "done" \in CallStages
    BY <2>1
  <2>6. sync[e] \in Terminal \cup {"idle"}
    BY <1>2
  <2> HIDE DEF saved
  <2> QED
    BY <2>3, <2>4, <2>5, <2>6, RowWritten
<1>9. CASE StartSaveFailed(e)
  <2> DEFINE failed == [row[e] EXCEPT !.status = "FAILED"]
  <2>1. ~row[e].arn
    BY <1>1, <1>9 DEF StartSaveFailed, ExecutionOK, CallOK
  <2>2. /\ failed \in Rows /\ failed # NoRow /\ failed.status = "FAILED"
        /\ ~failed.arn /\ "done" \in CallStages
    BY <1>2, <2>1 DEF Rows, NoRow, Statuses, Terminal, CallStages
  <2>3. /\ row' = [row EXCEPT ![e] = failed] /\ call' = [call EXCEPT ![e] = "done"]
        /\ sync' = [sync EXCEPT ![e] = sync[e]]
        /\ UNCHANGED <<before, machine, anchors, breaches, check>>
    BY <1>1, <1>2, <1>9 DEF StartSaveFailed, TypeOK
  <2> HIDE DEF failed
  <2> QED
    BY <1>2, <2>1, <2>2, <2>3, RowWritten
<1>10. CASE CallDies(e)
  <2>1. ~row[e].arn /\ "done" \in CallStages
    BY <1>1, <1>10 DEF CallDies, ExecutionOK, CallOK, CallStages
  <2>2. TypeOK' /\ RowsKept /\ OthersKept(e) /\ ExecutionOK(e)'
    BY <1>2, <1>10, <2>1, CallMoved DEF CallDies
  <2> QED
    BY <1>10, <2>2, OneExecution DEF CallDies
<1> QED
  BY <1>3, <1>4, <1>5, <1>6, <1>7, <1>8, <1>9, <1>10 DEF StartWorkflow

\* A step of the state machine, which a poll or a row that says the machine
\* ended rules out.
LEMMA MachineKeepsInv ==
    ASSUME WorkflowInv, NEW e \in Requests, MachineStep(e)
    PROVE  WorkflowInv'
<1>1. TypeOK /\ ExecutionOK(e)
  BY DEF WorkflowInv
<1>2. /\ \E m \in Machines : machine' = [machine EXCEPT ![e] = m]
      /\ machine[e].at # "absent" /\ StatusOf(machine[e]) = "RUNNING"
      /\ anchors' \in {anchors, anchors \cup {e}}
      /\ UNCHANGED <<row, call, before, sync, breaches, check>>
      /\ MachineOK(e)'
  BY <1>1, MachineMoves DEF ExecutionOK, serviceVars
<1>3. TypeOK' /\ RowsKept /\ OthersKept(e)
  BY <1>1, <1>2 DEF TypeOK, RowsKept, OthersKept
<1>4. /\ call[e] \notin {"idle", "insert", "start"}
      /\ sync[e] \notin Terminal
      /\ row[e].status \in Terminal => row[e].status = "FAILED" /\ ~row[e].arn /\ call[e] # "saveArn"
  BY <1>1, <1>2 DEF ExecutionOK, CallOK, RowOK, SyncOK, NoMachine, Terminal
<1>5. ExecutionOK(e)'
  BY <1>1, <1>2, <1>4 DEF ExecutionOK, CallOK, RowOK, SyncOK
<1> QED
  BY <1>2, <1>3, <1>5, OneExecution

\* A status that the machine has is not RUNNING only when the machine ended.
LEMMA EndedMachine ==
    ASSUME WorkflowInv, NEW e \in Requests, StatusOf(machine[e]) # "RUNNING"
    PROVE  /\ StatusOf(machine[e]) \in Terminal
           /\ call[e] \notin {"idle", "insert", "start"}
<1>1. call[e] \in {"idle", "insert", "start"} => machine[e] = NoMachine
  BY DEF WorkflowInv, ExecutionOK, CallOK
<1> QED
  BY <1>1 DEF StatusOf, NoMachine, Terminal

\* markCompleted with the status of a machine that ended.
LEMMA MarkCompletedKeepsInv ==
    ASSUME WorkflowInv, NEW e \in Requests, NEW status \in Terminal,
           status = StatusOf(machine[e]), MarkCompleted(e, status),
           NEW s \in Terminal \cup {"idle"}, sync' = [sync EXCEPT ![e] = s],
           s # "idle" => s = sync[e],
           UNCHANGED <<call, before, machine, anchors, breaches, check>>
    PROVE  WorkflowInv'
<1> DEFINE r == [row[e] EXCEPT !.status = status]
<1>1. TypeOK /\ ExecutionOK(e)
  BY DEF WorkflowInv
<1>2. /\ row[e] \in Rows /\ call[e] \in CallStages /\ call' = [call EXCEPT ![e] = call[e]]
  BY <1>1 DEF TypeOK
<1>3. call[e] \notin {"idle", "insert", "start"}
  BY EndedMachine DEF Terminal
<1>4. r \in Rows /\ r # NoRow /\ r.status = status /\ row' = [row EXCEPT ![e] = r]
  BY <1>1, <1>2 DEF Rows, NoRow, Statuses, Terminal, MarkCompleted, TypeOK
<1>5. call[e] # "done" => ~r.arn
  BY <1>1, <1>2 DEF ExecutionOK, CallOK, Rows
<1>6. r.status # "RUNNING"
  BY <1>4 DEF Terminal
<1> HIDE DEF r
<1> QED
  BY <1>2, <1>3, <1>4, <1>5, <1>6, RowWritten

LEMMA RecordStepEventKeepsInv ==
    ASSUME WorkflowInv, NEW e \in Requests, RecordStepEvent(e)
    PROVE  WorkflowInv'
<1>1. StatusOf(machine[e]) \in Terminal
  BY DEF RecordStepEvent, StatusOf, Terminal
<1>2. sync[e] \in Terminal \cup {"idle"} /\ sync' = [sync EXCEPT ![e] = sync[e]]
  BY DEF WorkflowInv, TypeOK, RecordStepEvent
<1> QED
  BY <1>1, <1>2, MarkCompletedKeepsInv DEF RecordStepEvent

LEMMA SyncKeepsInv ==
    ASSUME WorkflowInv, NEW e \in Requests, SyncStep(e)
    PROVE  WorkflowInv'
<1>1. TypeOK /\ ExecutionOK(e)
  BY DEF WorkflowInv
<1>2. CASE SyncDescribe(e) \/ SyncDies(e)
  <2>1. PICK s : /\ sync' = [sync EXCEPT ![e] = s]
                 /\ s = "idle" \/ (s = StatusOf(machine[e]) /\ s # "RUNNING")
    BY <1>2 DEF SyncDescribe, SyncDies
  <2>2. s = "idle" \/ (s = StatusOf(machine[e]) /\ s \in Terminal)
    BY <2>1, EndedMachine
  <2>3. UNCHANGED <<row, call, before, machine, anchors, breaches, check>>
    BY <1>2 DEF SyncDescribe, SyncDies
  <2>4. TypeOK' /\ RowsKept /\ OthersKept(e) /\ sync'[e] = s
    BY <1>1, <2>1, <2>2, <2>3 DEF TypeOK, RowsKept, OthersKept
  <2>5. ExecutionOK(e)'
    BY <1>1, <2>2, <2>3, <2>4 DEF ExecutionOK, CallOK, RowOK, SyncOK, MachineOK, Terminal
  <2> QED
    BY <2>3, <2>4, <2>5, OneExecution
<1>3. CASE SyncWrite(e)
  <2>1. sync[e] \in Terminal /\ sync[e] = StatusOf(machine[e])
    BY <1>1, <1>3 DEF SyncWrite, TypeOK, ExecutionOK, SyncOK
  <2> QED
    BY <1>3, <2>1, MarkCompletedKeepsInv DEF SyncWrite
<1> QED
  BY <1>2, <1>3 DEF SyncStep

LEMMA DeadlineKeepsInv ==
    ASSUME WorkflowInv, NEW e \in Requests, DeadlinePasses(e)
    PROVE  WorkflowInv'
<1> DEFINE r == [row[e] EXCEPT !.overdue = TRUE]
<1>1. TypeOK /\ ExecutionOK(e) /\ row[e].status = "RUNNING"
  BY DEF WorkflowInv, DeadlinePasses
<1>2. /\ row[e] \in Rows /\ call[e] \in CallStages /\ call' = [call EXCEPT ![e] = call[e]]
      /\ sync[e] \in Terminal \cup {"idle"} /\ sync' = [sync EXCEPT ![e] = sync[e]]
  BY <1>1 DEF TypeOK, DeadlinePasses
<1>3. call[e] \notin {"idle", "insert"} /\ (call[e] = "start" => machine[e] = NoMachine)
  BY <1>1 DEF ExecutionOK, CallOK, NoRow
<1>4. r \in Rows /\ r # NoRow /\ r.status = "RUNNING" /\ row' = [row EXCEPT ![e] = r]
  BY <1>1, <1>2 DEF Rows, NoRow, TypeOK, DeadlinePasses
<1>5. call[e] # "done" => ~r.arn
  BY <1>1, <1>2 DEF ExecutionOK, CallOK, Rows
<1>6. "RUNNING" \notin Terminal
  BY DEF Terminal
<1>7. UNCHANGED <<before, machine, anchors, breaches, check>>
  BY DEF DeadlinePasses
<1> HIDE DEF r
<1> QED
  BY <1>1, <1>2, <1>3, <1>4, <1>5, <1>6, <1>7, RowWritten

\* A deadline check writes escalations only.
LEMMA CheckKeepsInv ==
    ASSUME WorkflowInv, NEW k \in Checks, CheckStep(k)
    PROVE  WorkflowInv'
<1>1. TypeOK
  BY DEF WorkflowInv
<1>2. /\ UNCHANGED <<row, call, before, machine, anchors, sync>>
      /\ breaches' \in [Requests -> Nat]
      /\ check' \in [Checks -> [todo : SUBSET Requests, create : SUBSET Requests]]
  <2>1. CASE CheckFind(k)
    BY <1>1, <2>1 DEF CheckFind, Batches, TypeOK
  <2>2. ASSUME NEW e \in Requests, CheckLook(k, e) PROVE <1>2!1 /\ <1>2!2 /\ <1>2!3
    <3> DEFINE c == [check[k] EXCEPT !.todo = @ \ {e},
                                     !.create = IF breaches[e] > 0 THEN {} ELSE {e}]
    <3>1. check[k] \in [todo : SUBSET Requests, create : SUBSET Requests]
      BY <1>1 DEF TypeOK
    <3>2. c \in [todo : SUBSET Requests, create : SUBSET Requests]
      BY <3>1
    <3>3. check' = [check EXCEPT ![k] = c]
      BY <1>1, <2>2 DEF CheckLook, TypeOK
    <3> HIDE DEF c
    <3>4. check' \in [Checks -> [todo : SUBSET Requests, create : SUBSET Requests]]
      BY <1>1, <3>2, <3>3 DEF TypeOK
    <3> QED
      BY <1>1, <2>2, <3>4 DEF CheckLook, TypeOK
  <2>3. ASSUME NEW e \in Requests, CheckCreate(k, e) PROVE <1>2!1 /\ <1>2!2 /\ <1>2!3
    <3>1. breaches[e] + 1 \in Nat
      BY <1>1, <2>3 DEF TypeOK
    <3>2. breaches' = [breaches EXCEPT ![e] = breaches[e] + 1]
      BY <2>3 DEF CheckCreate
    <3>3. check[k] \in [todo : SUBSET Requests, create : SUBSET Requests]
      BY <1>1 DEF TypeOK
    <3>4. [check[k] EXCEPT !.create = {}] \in [todo : SUBSET Requests, create : SUBSET Requests]
      BY <3>3
    <3>5. check' = [check EXCEPT ![k] = [check[k] EXCEPT !.create = {}]]
      BY <1>1, <2>3 DEF CheckCreate, TypeOK
    <3>6. /\ breaches' \in [Requests -> Nat]
          /\ check' \in [Checks -> [todo : SUBSET Requests, create : SUBSET Requests]]
      <4> DEFINE c == [check[k] EXCEPT !.create = {}]
                 n == breaches[e] + 1
      <4>1. /\ c \in [todo : SUBSET Requests, create : SUBSET Requests] /\ n \in Nat
            /\ check' = [check EXCEPT ![k] = c] /\ breaches' = [breaches EXCEPT ![e] = n]
        BY <3>1, <3>2, <3>4, <3>5
      <4> HIDE DEF c, n
      <4> QED
        BY <1>1, <4>1 DEF TypeOK
    <3> QED
      BY <2>3, <3>6 DEF CheckCreate
  <2> QED
    BY <2>1, <2>2, <2>3 DEF CheckStep
<1>3. TypeOK'
  BY <1>1, <1>2 DEF TypeOK
<1>4. ASSUME NEW e \in Requests PROVE ExecutionOK(e)' /\ BeforeOK(e)'
  BY <1>2 DEF WorkflowInv, ExecutionOK, CallOK, RowOK, SyncOK, MachineOK, BeforeOK
<1> QED
  BY <1>3, <1>4 DEF WorkflowInv

LEMMA NextWorkflowInv == WorkflowInv /\ [Next]_vars => WorkflowInv'
<1> SUFFICES ASSUME WorkflowInv, [Next]_vars PROVE WorkflowInv'
  OBVIOUS
<1>1. ASSUME NEW e \in Requests,
             \/ StartWorkflow(e) \/ MachineStep(e) \/ SyncStep(e)
             \/ DeadlinePasses(e) \/ RecordStepEvent(e)
      PROVE  WorkflowInv'
  BY <1>1, StartKeepsInv, MachineKeepsInv, SyncKeepsInv, DeadlineKeepsInv,
     RecordStepEventKeepsInv
<1>2. ASSUME NEW k \in Checks, CheckStep(k) PROVE WorkflowInv'
  BY <1>2, CheckKeepsInv
<1>3. CASE UNCHANGED vars
  BY <1>3 DEF vars, WorkflowInv, TypeOK, ExecutionOK, CallOK, RowOK, SyncOK, MachineOK, BeforeOK
<1> QED
  BY <1>1, <1>2, <1>3 DEF Next

-----------------------------------------------------------------------------
(* The theorems. *)

LEMMA InvariantHolds == Spec => []WorkflowInv
  BY InitWorkflowInv, NextWorkflowInv, PTL DEF Spec

\* Every state of the Workflow Service has the types its tables and calls have.
THEOREM WorkflowTypeHolds == Spec => []TypeOK
<1>1. WorkflowInv => TypeOK
  BY DEF WorkflowInv
<1> QED
  BY <1>1, InvariantHolds, PTL

\* A terminal status in workflow_executions is the state machine's own, or a
\* FAILED saved without an ARN, whatever order recordStepEvent and
\* syncFromStepFunctions write in and however old the answer a poll holds.
THEOREM StatusIsTrueHolds == Spec => []StatusIsTrue
<1>1. WorkflowInv => StatusIsTrue
  BY DEF WorkflowInv, ExecutionOK, RowOK, StatusIsTrue
<1> QED
  BY <1>1, InvariantHolds, PTL

\* The state machine definition sends /trust/anchor for no execution that a
\* validator did not approve, for any number of polls of the AI job.
THEOREM AnchorNeedsValidatorHolds == Spec => []AnchorNeedsValidator
<1>1. WorkflowInv => AnchorNeedsValidator
  BY DEF WorkflowInv, ExecutionOK, MachineOK, AnchorNeedsValidator
<1> QED
  BY <1>1, InvariantHolds, PTL

\* Two RUNNING executions of one capsule come from calls of startWorkflow
\* that overlapped: neither row was there when the other call looked.
THEOREM DoubleStartHolds == Spec => []DoubleStartNeedsOverlap
<1>1. WorkflowInv => DoubleStartNeedsOverlap
  BY DEF WorkflowInv, BeforeOK, DoubleStartNeedsOverlap
<1> QED
  BY <1>1, InvariantHolds, PTL

-----------------------------------------------------------------------------
(* Escalations. *)

\* The checks that found no breach of e and are about to write one.
Pending(e) == {k \in Checks : e \in check[k].create}

\* Each check adds one breach at most: when it looked, none was written.
BreachInv ==
    /\ \A k \in Checks : check[k] \in [todo : SUBSET Requests, create : SUBSET Requests]
    /\ \A e \in Requests : /\ breaches[e] \in Nat
                           /\ breaches[e] + Cardinality(Pending(e)) <= Cardinality(Checks)

\* Pending sets are as finite as the set of checks.
LEMMA PendingCounted ==
    ASSUME IsFiniteSet(Checks), NEW S \in SUBSET Checks
    PROVE  /\ IsFiniteSet(S) /\ Cardinality(S) \in Nat /\ Cardinality(Checks) \in Nat
           /\ Cardinality(S) <= Cardinality(Checks)
           /\ \A T \in SUBSET S : Cardinality(T) \in Nat /\ Cardinality(T) <= Cardinality(S)
           /\ \A k \in S : Cardinality(S \ {k}) = Cardinality(S) - 1
<1>1. IsFiniteSet(S) /\ Cardinality(S) <= Cardinality(Checks)
  BY FS_Subset
<1>2. ASSUME NEW T \in SUBSET S
      PROVE  Cardinality(T) \in Nat /\ Cardinality(T) <= Cardinality(S)
  <2>1. IsFiniteSet(T) /\ Cardinality(T) <= Cardinality(S)
    BY <1>1, FS_Subset
  <2> QED
    BY <2>1, FS_CardinalityType
<1>3. ASSUME NEW k \in S PROVE Cardinality(S \ {k}) = Cardinality(S) - 1
  BY <1>1, FS_RemoveElement
<1> QED
  BY <1>1, <1>2, <1>3, FS_CardinalityType

\* A step that adds no check to those pending for e, and writes no breach of e.
LEMMA BreachKept ==
    ASSUME IsFiniteSet(Checks), BreachInv, NEW e \in Requests,
           breaches'[e] = breaches[e],
           \A k \in Checks : e \in check'[k].create => e \in check[k].create
    PROVE  breaches'[e] \in Nat /\ breaches'[e] + Cardinality(Pending(e)') <= Cardinality(Checks)
<1>1. Pending(e)' \in SUBSET Pending(e) /\ Pending(e) \in SUBSET Checks
  BY DEF Pending
<1>2. /\ Cardinality(Pending(e)') \in Nat /\ Cardinality(Pending(e)) \in Nat
      /\ Cardinality(Pending(e)') <= Cardinality(Pending(e)) /\ Cardinality(Checks) \in Nat
  BY <1>1, PendingCounted
<1>3. breaches[e] \in Nat /\ breaches[e] + Cardinality(Pending(e)) <= Cardinality(Checks)
  BY DEF BreachInv
<1> QED
  BY <1>2, <1>3

LEMMA InitBreach == ASSUME IsFiniteSet(Checks), Init PROVE BreachInv
<1>1. \A k \in Checks : check[k] = NoCheck
  BY DEF Init
<1>2. \A e \in Requests : breaches[e] = 0 /\ Pending(e) = {}
  BY <1>1 DEF Init, Pending, NoCheck
<1>3. Cardinality({}) = 0 /\ Cardinality(Checks) \in Nat
  BY FS_EmptySet, FS_CardinalityType
<1>4. \A e \in Requests : /\ breaches[e] \in Nat
                         /\ breaches[e] + Cardinality(Pending(e)) <= Cardinality(Checks)
  BY <1>2, <1>3
<1>5. NoCheck \in [todo : SUBSET Requests, create : SUBSET Requests]
  BY DEF NoCheck
<1> QED
  BY <1>1, <1>4, <1>5 DEF BreachInv

LEMMA NextBreach ==
    ASSUME IsFiniteSet(Checks), TypeOK, TypeOK', BreachInv, [Next]_vars
    PROVE  BreachInv'
<1>1. ASSUME NEW e \in Requests
      PROVE  breaches'[e] \in Nat /\ breaches'[e] + Cardinality(Pending(e)') <= Cardinality(Checks)
  <2>1. CASE UNCHANGED <<breaches, check>>
    BY <2>1, BreachKept
  <2>2. ASSUME NEW k \in Checks, CheckFind(k)
        PROVE  <1>1!2
    BY <2>2, BreachKept DEF CheckFind, TypeOK
  <2>3. ASSUME NEW k \in Checks, NEW f \in Requests, CheckLook(k, f)
        PROVE  <1>1!2
    <3>1. CASE f = e /\ breaches[e] = 0
      <4>1. Pending(e)' \in SUBSET Checks
        BY DEF Pending
      <4>2. Cardinality(Pending(e)') <= Cardinality(Checks) /\ Cardinality(Pending(e)') \in Nat
        BY <4>1, PendingCounted
      <4> QED
        BY <2>3, <3>1, <4>2 DEF CheckLook
    <3>2. CASE ~(f = e /\ breaches[e] = 0)
      <4>1. \A l \in Checks : e \in check'[l].create => e \in check[l].create
        BY <2>3, <3>2 DEF CheckLook, TypeOK
      <4> QED
        BY <2>3, <4>1, BreachKept DEF CheckLook
    <3> QED
      BY <3>1, <3>2
  <2>4. ASSUME NEW k \in Checks, NEW f \in Requests, CheckCreate(k, f)
        PROVE  <1>1!2
    <3>1. \A l \in Checks : check'[l].create = IF l = k THEN {} ELSE check[l].create
      BY <2>4 DEF CheckCreate, TypeOK
    <3>2. CASE f = e
      <4>1. Pending(e)' = Pending(e) \ {k} /\ k \in Pending(e) /\ Pending(e) \in SUBSET Checks
        BY <2>4, <3>1, <3>2 DEF Pending, CheckCreate
      <4>2. /\ Cardinality(Pending(e)') = Cardinality(Pending(e)) - 1
            /\ Cardinality(Pending(e)) \in Nat /\ Cardinality(Checks) \in Nat
        BY <4>1, PendingCounted
      <4>3. breaches'[e] = breaches[e] + 1
        BY <2>4, <3>2 DEF CheckCreate, TypeOK
      <4>4. breaches[e] \in Nat /\ breaches[e] + Cardinality(Pending(e)) <= Cardinality(Checks)
        BY DEF BreachInv
      <4> QED
        BY <4>2, <4>3, <4>4
    <3>3. CASE f # e
      <4>1. breaches'[e] = breaches[e]
        BY <2>4, <3>3 DEF CheckCreate, TypeOK
      <4> QED
        BY <3>1, <4>1, BreachKept
    <3> QED
      BY <3>2, <3>3
  <2>5. ASSUME NEW f \in Requests,
               \/ StartWorkflow(f) \/ MachineStep(f) \/ SyncStep(f)
               \/ DeadlinePasses(f) \/ RecordStepEvent(f)
        PROVE  UNCHANGED <<breaches, check>>
    BY <2>5 DEF StartWorkflow, MachineStep, SyncStep, DeadlinePasses, RecordStepEvent,
       StartFindsRunning, StartFindsNone, StartInsert, StartMachine, StartRefused, StartSaveArn,
       StartSaveFailed, CallDies, RunTask, CheckAIJobStatus, ValidatorAnswers, NoAnswer, Abort,
       SyncDescribe, SyncWrite, SyncDies, serviceVars
  <2> QED
    BY <2>1, <2>2, <2>3, <2>4, <2>5 DEF Next, CheckStep, vars
<1>2. \A k \in Checks : check'[k] \in [todo : SUBSET Requests, create : SUBSET Requests]
  BY DEF TypeOK
<1> QED
  BY <1>1, <1>2 DEF BreachInv

LEMMA BreachHolds == ASSUME IsFiniteSet(Checks) PROVE Spec => []BreachInv
<1>1. Init => BreachInv
  BY InitBreach
<1>2. WorkflowInv /\ WorkflowInv' /\ BreachInv /\ [Next]_vars => BreachInv'
  BY NextBreach DEF WorkflowInv
<1> QED
  BY <1>1, <1>2, InvariantHolds, PTL DEF Spec

\* However many deadline checks overlap, an execution gets at most one breach
\* from each of them.
THEOREM BreachesBounded ==
    ASSUME IsFiniteSet(Checks)
    PROVE  Spec => [](\A e \in Requests : breaches[e] <= Cardinality(Checks))
<1>1. BreachInv => \A e \in Requests : breaches[e] <= Cardinality(Checks)
  <2> SUFFICES ASSUME BreachInv, NEW e \in Requests PROVE breaches[e] <= Cardinality(Checks)
    OBVIOUS
  <2>1. Pending(e) \in SUBSET Checks
    BY DEF Pending
  <2>2. Cardinality(Pending(e)) \in Nat /\ Cardinality(Checks) \in Nat
    BY <2>1, PendingCounted
  <2> QED
    BY <2>2 DEF BreachInv
<1> QED
  BY <1>1, BreachHolds, PTL

\* Deadline checks that do not overlap escalate an execution once, however
\* often it is found overdue.
THEOREM OneBreachHolds ==
    ASSUME NEW k, Checks \subseteq {k} PROVE Spec => []OneBreachPerExecution
<1>1. IsFiniteSet(Checks) /\ Cardinality(Checks) <= 1
  <2>1. IsFiniteSet({k}) /\ Cardinality({k}) = 1
    BY FS_Singleton
  <2>2. IsFiniteSet(Checks) /\ Cardinality(Checks) <= Cardinality({k})
    BY <2>1, FS_Subset
  <2> QED
    BY <2>1, <2>2
<1>2. BreachInv => OneBreachPerExecution
  <2> SUFFICES ASSUME BreachInv, NEW e \in Requests PROVE breaches[e] <= 1
    BY DEF OneBreachPerExecution
  <2>1. Pending(e) \in SUBSET Checks
    BY DEF Pending
  <2>2. Cardinality(Pending(e)) \in Nat /\ Cardinality(Checks) \in Nat
    BY <1>1, <2>1, PendingCounted
  <2> QED
    BY <1>1, <2>2 DEF BreachInv
<1> QED
  BY <1>1, <1>2, BreachHolds, PTL

==============================================================================
