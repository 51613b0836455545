--------------------------- MODULE EvidencePipeline ---------------------------
(***************************************************************************)
(* The Evidence, AI and Trust Services together.  They share no state: the *)
(* Evidence Service posts capsules to the other two and they call it back. *)
(* So does the state machine of the workflow engine, which anchors on an   *)
(* approval of its own: a task token answered APPROVED, whatever the       *)
(* Evidence Service has recorded.  A request that was sent may be served   *)
(* any number of times (the state machine retries) or never; a callback is *)
(* sent once and served at most once.                                      *)
(***************************************************************************)
EXTENDS EvidenceCapsule

CONSTANTS
    AiCalls, MaxAttempts,           \* as in AiPipeline
    TrustCalls, Batches, MaxStops   \* as in TrustAnchor

\* The Trust Service reports no batch that is still PENDING.
ASSUME PipelineAssumption ==
    /\ AnchorStates \subseteq {"HEDERA_ONLY", "TSA_ONLY", "DUAL_ANCHORED", "FAILED"}
    /\ MaxStops \in Nat

VARIABLES
    answered,  \* capsules the state machine's task token was answered APPROVED for
    job, aiCall, reported,
    queue, trustCall, run, batch, leaf, ledger, told, stops, poisoned,
    served     \* callbacks the Evidence Service has begun to serve

Ai == INSTANCE AiPipeline WITH Calls <- AiCalls, call <- aiCall

Trust == INSTANCE TrustAnchor WITH Calls <- TrustCalls, call <- trustCall,
                                   Outcomes <- AnchorStates

evidence == vars
ai == <<job, aiCall, reported>>
trust == <<queue, trustCall, run, batch, leaf, ledger, told, stops, poisoned>>
pipelineVars == <<evidence, ai, trust, answered, served>>

PipelineInit ==
    /\ Init
    /\ Ai!Init
    /\ Trust!Init
    /\ answered = {}
    /\ served = {}

EvidenceWorks(r) ==
    /\ Apps(r) \/ Continue(r) \/ Fail(r)
    /\ UNCHANGED <<ai, trust, answered, served>>

\* The state machine, in an execution for a capsule: its task token is answered
\* APPROVED, AnchorToQldb is next.  The steps around it are WorkflowEngine's.
WorkflowApproves(c) ==
    /\ Exists(c)
    /\ answered' = answered \cup {c}
    /\ UNCHANGED <<evidence, ai, trust, served>>

\* POST /ai/verify, from submitCapsule after its commit or from the state
\* machine's TriggerAIProcessing.
AiReceives(k, c) ==
    /\ Exists(c)
    /\ Ai!TriggerRead(k, c)
    /\ UNCHANGED <<evidence, trust, answered, served>>

AiWorks(k) ==
    /\ Ai!Continue(k)
    /\ UNCHANGED <<evidence, trust, answered, served>>

\* Capsules for which POST /trust/anchor was or may be sent: by approveOrReject
\* after its commit, by the state machine's AnchorToQldb.  The Trust Service
\* itself asks for no approval.
ForAnchoring == {m.capsule : m \in anchorCalls} \cup answered

TrustReceives(k, c) ==
    /\ c \in ForAnchoring
    /\ Trust!Receive(k, c)
    /\ UNCHANGED <<evidence, ai, answered, served>>

TrustWorks ==
    /\ \/ \E k \in TrustCalls : Trust!Push(k)
       \/ \E b \in Batches : Trust!StartBatch(b) \/ Trust!Advance(b)
       \/ Trust!Stop
    /\ UNCHANGED <<evidence, ai, answered, served>>

\* PATCH .../ai-result arrives.
AiCallback(r, m) ==
    /\ m \notin served
    /\ served' = served \cup {m}
    /\ AiResultRead(r, m.capsule, m.routing)
    /\ UNCHANGED <<ai, trust, answered>>

\* PATCH .../anchored arrives.
TrustCallback(r, m) ==
    /\ m \notin served
    /\ served' = served \cup {m}
    /\ AnchoredRead(r, m.capsule, m.status)
    /\ UNCHANGED <<ai, trust, answered>>

\* The pools of requests and calls may be used up.
PipelineIdle ==
    /\ InFlight = {}
    /\ UNCHANGED pipelineVars

PipelineNext ==
    \/ \E r \in Requests : EvidenceWorks(r)
    \/ \E c \in Capsules : WorkflowApproves(c)
    \/ \E k \in AiCalls, c \in Capsules : AiReceives(k, c)
    \/ \E k \in AiCalls : AiWorks(k)
    \/ \E k \in TrustCalls, c \in Capsules : TrustReceives(k, c)
    \/ TrustWorks
    \/ \E r \in Requests, m \in reported : AiCallback(r, m)
    \/ \E r \in Requests, m \in told : TrustCallback(r, m)
    \/ PipelineIdle

PipelineSpec == PipelineInit /\ [][PipelineNext]_pipelineVars

------------------------------------------------------------------------------
(* Properties *)

\* The AI Service reports a capsule once, and what its job says.
AiReportsOnce == Ai!OneTrueReport

\* A capsule shown as ANCHORED can be verified with the Trust Service, which
\* stores the same anchor status, whatever was lost or overlapped on the way.
AnchoredIsVerifiable ==
    \A c \in Capsules : capsule[c].status = "ANCHORED" =>
        /\ leaf[c] # Trust!NoLeaf
        /\ batch[leaf[c].batch].status = capsule[c].anchor

\* Nothing is published on the ledger or timestamped that was approved neither
\* by a validator, on the chain of custody, nor by the answer to the state
\* machine's task token.  The second leaves no trace in the chain of custody.
OnlyApprovedOnLedger ==
    \A b \in Batches : \A i \in 1 .. Len(batch[b].root) :
        LET c == batch[b].root[i]
        IN  Approvals(custody[c]) # {} \/ c \in answered

\* Served one after the other, the handlers keep to the documented lifecycle:
\* the AI Service never reports a capsule again that a validator decided on.
KeepsLifecycle == FollowsLifecycle

==============================================================================
