----------------------------- MODULE AiPipeline -----------------------------
(***************************************************************************)
(* The AI Service (services/ai): one verification job per capsule, run in  *)
(* the background by the process that inserted it, and one report of its   *)
(* routing decision to the Evidence Service.                               *)
(*                                                                         *)
(* A call of POST /ai/verify is served once.  The call that inserts the    *)
(* job also runs its pipeline; job rows survive the process, pipelines     *)
(* and calls being served do not.                                          *)
(***************************************************************************)
EXTENDS Naturals

CONSTANTS
    Capsules,     \* capsules that may be verified
    Calls,        \* calls of POST /ai/verify
    Routings,     \* RoutingDecision
    MaxAttempts   \* ai_verification_jobs.max_attempts

None == "NONE"

\* AiJobStatus as far as the service sets it; ABSENT stands for "no such row".
JobStatuses == {"ABSENT", "QUEUED", "PROCESSING", "COMPLETED", "FAILED"}

\* A row of ai_verification_jobs; retry: nextRetryAt is set.
Job == [status : JobStatuses, attempts : Nat, retry : BOOLEAN,
        routing : Routings \cup {None}]
NoJob == [status |-> "ABSENT", attempts |-> 0, retry |-> FALSE, routing |-> None]

CallStages == {"idle", "checked", "known", "refused",
               "scheduled", "running", "persisted", "ended"}
Call == [stage : CallStages, capsule : Capsules \cup {None}]

VARIABLES
    job,       \* [Capsules -> Job]
    call,      \* [Calls -> Call]
    reported   \* PATCH .../ai-result sent: by which call, capsule, routing

vars == <<job, call, reported>>

Init ==
    /\ job = [c \in Capsules |-> NoJob]
    /\ call = [k \in Calls |-> [stage |-> "idle", capsule |-> None]]
    /\ reported = {}

Goes(k, from, to) ==
    /\ call[k].stage = from
    /\ call' = [call EXCEPT ![k].stage = to]

------------------------------------------------------------------------------
(* triggerVerification *)

\* Idempotency check: an existing job is returned.
TriggerRead(k, c) ==
    /\ call[k].stage = "idle"
    /\ call' = [call EXCEPT ![k] =
                  [stage |-> IF job[c].status = "ABSENT" THEN "checked" ELSE "known",
                   capsule |-> c]]
    /\ UNCHANGED <<job, reported>>

\* Wrong on purpose: a second call restarts a job that exists by now.
TriggerOverwrites(k) ==
    /\ Goes(k, "checked", "scheduled")
    /\ job' = [job EXCEPT ![call[k].capsule] =
                 [NoJob EXCEPT !.status = "QUEUED", !.attempts = 1]]
    /\ UNCHANGED reported

\* The job is inserted and its pipeline scheduled; capsule_id is UNIQUE.
TriggerInsert(k) ==
    /\ Goes(k, "checked", "scheduled")
    /\ job[call[k].capsule].status = "ABSENT"
    /\ job' = [job EXCEPT ![call[k].capsule] =
                 [NoJob EXCEPT !.status = "QUEUED", !.attempts = 1]]
    /\ UNCHANGED reported

\* Another call inserted it since the check: the unique index refuses, 500.
TriggerRefused(k) ==
    /\ Goes(k, "checked", "refused")
    /\ job[call[k].capsule].status # "ABSENT"
    /\ UNCHANGED <<job, reported>>

------------------------------------------------------------------------------
(* runPipeline and executeStages *)

PipelineStart(k) ==
    /\ Goes(k, "scheduled", "running")
    /\ job' = [job EXCEPT ![call[k].capsule].status = "PROCESSING"]
    /\ UNCHANGED reported

\* A stage throws.  The row says when to try again; nothing ever does.
PipelineFails(k) ==
    LET c == call[k].capsule
        canRetry == job[c].attempts < MaxAttempts
    IN  /\ Goes(k, "running", "ended")
        /\ job' = [job EXCEPT
                     ![c].status = IF canRetry THEN "QUEUED" ELSE "FAILED",
                     ![c].attempts = job[c].attempts + 1,
                     ![c].retry = canRetry]
        /\ UNCHANGED reported

\* Stage 4: one transaction stores the results and the anomalies.
PipelinePersist(k, routing) ==
    /\ Goes(k, "running", "persisted")
    /\ job' = [job EXCEPT ![call[k].capsule].status = "COMPLETED",
                          ![call[k].capsule].routing = routing]
    /\ UNCHANGED reported

\* Stage 5: one PATCH, not repeated if it fails.
PipelineReport(k) ==
    /\ Goes(k, "persisted", "ended")
    /\ reported' = reported \cup
         {[by |-> k, capsule |-> call[k].capsule,
           routing |-> job[call[k].capsule].routing]}
    /\ UNCHANGED job

\* The process that serves the call or runs its pipeline ends.
PipelineLost(k) ==
    /\ call[k].stage \in {"checked", "scheduled", "running", "persisted"}
    /\ call' = [call EXCEPT ![k].stage = "ended"]
    /\ UNCHANGED <<job, reported>>

Continue(k) ==
    \/ TriggerInsert(k)
    \/ TriggerRefused(k)
    \/ PipelineStart(k)
    \/ PipelineFails(k)
    \/ \E d \in Routings : PipelinePersist(k, d)
    \/ PipelineReport(k)
    \/ PipelineLost(k)

Next == \E k \in Calls : Continue(k) \/ \E c \in Capsules : TriggerRead(k, c)

Spec == Init /\ [][Next]_vars

------------------------------------------------------------------------------
(* Properties *)

\* Every variable holds values of its kind.
TypeOK ==
    /\ job \in [Capsules -> Job]
    /\ call \in [Calls -> Call]
    /\ reported \subseteq [by : Calls, capsule : Capsules, routing : Routings]

\* What the Evidence Service is told is what the job says, and is told once:
\* overlapping triggers, lost pipelines and failed stages do not change that.
OneTrueReport ==
    /\ \A m \in reported : /\ job[m.capsule].status = "COMPLETED"
                           /\ job[m.capsule].routing = m.routing
    /\ \A m, n \in reported : m.capsule = n.capsule => m = n

==============================================================================
