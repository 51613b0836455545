--------------------------- MODULE EvidenceCapsule ---------------------------
(***************************************************************************)
(* The Evidence Service (services/evidence): the only writer of an         *)
(* evidence capsule and of its chain of custody.                           *)
(*                                                                         *)
(* Every handler of EvidenceService reads the capsule (getCapsule), awaits,*)
(* and then writes in a transaction that names the row by id only, so the  *)
(* status a handler tested may be stale when it commits.  A handler is     *)
(* therefore split at its awaits: one action up to the read, one per       *)
(* committed write, one for the call it sends afterwards.  Any number of   *)
(* requests are served at once by the service's instances.                 *)
(*                                                                         *)
(* A request is an identity of the pool Requests and is served once;       *)
(* Workload says which endpoint it calls.                                  *)
(***************************************************************************)
EXTENDS Naturals, Sequences, FiniteSets

CONSTANTS
    Capsules,      \* ids evidence_capsules.id can take
    Slots,         \* a station + position + election year
    Agents,        \* field agents
    Requests,      \* HTTP requests
    Workload,      \* the endpoint each request calls
    Routings,      \* routing decisions the AI Service may report
    AnchorStates,  \* anchor statuses the Trust Service may report
    SyncStates,    \* sync statuses the mobile app may report
    CustodyTypes,  \* event types that chk_coc_event of the schema accepts
    MaxInFlight    \* requests being served at the same time

Endpoints == {"submit", "validate", "anchored", "aiResult", "tally", "sync"}

ASSUME WorkloadAssumption == Workload \in [Requests -> Endpoints]
ASSUME InputAssumption ==
    /\ Routings \subseteq {"APPROVE_FOR_REVIEW", "MANUAL_REVIEW", "ESCALATE"}
    /\ AnchorStates \subseteq
         {"PENDING", "HEDERA_ONLY", "TSA_ONLY", "DUAL_ANCHORED", "FAILED"}
ASSUME BoundAssumption == MaxInFlight \in Nat

None == "NONE"

ASSUME NoneIsNoRequest == None \notin Requests

\* CapsuleStatus; ABSENT stands for "no such row".
Statuses == {"ABSENT", "DRAFT", "CAPTURED", "QUEUED", "UPLOADED",
             "AI_PROCESSING", "AI_VERIFIED", "PENDING_VALIDATION", "APPROVED",
             "REJECTED", "ANCHORED", "PUBLISHED", "ARCHIVED"}

Decisions == {"APPROVED", "REJECTED", "ESCALATED"}

\* Statuses in which the agent may still submit the Form A tally.
TallyStatuses == {"UPLOADED", "AI_PROCESSING", "AI_VERIFIED",
                  "PENDING_VALIDATION", "APPROVED", "ANCHORED"}

\* A row of evidence_capsules.  key names the S3 object (by the request that
\* uploaded it), tally the request whose form the tally columns hold.
Row == [status   : Statuses,
        slot     : Slots \cup {None},
        agent    : Agents \cup {None},
        key      : Requests \cup {None},
        flagged  : BOOLEAN,
        decision : Decisions \cup {None},
        anchor   : AnchorStates \cup {None},
        tally    : Requests \cup {None},
        sync     : SyncStates \cup {"UPLOADED", None},
        attempts : Nat]

NoRow == [status |-> "ABSENT", slot |-> None, agent |-> None, key |-> None,
          flagged |-> FALSE, decision |-> None, anchor |-> None,
          tally |-> None, sync |-> None, attempts |-> 0]

\* A row of evidence_chain_of_custody; None is SQL's NULL.
EventTypes == {"CREATED", "UPLOADED", "HASH_VERIFIED", "AI_COMPLETED",
               "VALIDATION_APPROVED", "VALIDATION_REJECTED",
               "VALIDATION_ESCALATED", "TRUST_ANCHORED"}

Event == [type : EventTypes,
          prev : Statuses \cup {None},
          new  : Statuses \cup {None}]

Log(type, prev, new) == [type |-> type, prev |-> prev, new |-> new]

VARIABLES
    capsule,      \* [Capsules -> Row]
    custody,      \* [Capsules -> Seq(Event)], in order of insertion
    objects,      \* S3 objects that exist
    locked,       \* S3 objects under a COMPLIANCE Object Lock
    aiCalls,      \* capsules for which POST /ai/verify was sent
    anchorCalls,  \* POST /trust/anchor sent: which request, which capsule
    req           \* progress and local variables of every request

vars == <<capsule, custody, objects, locked, aiCalls, anchorCalls, req>>
tables == <<capsule, custody>>
bucket == <<objects, locked>>
calls == <<aiCalls, anchorCalls>>

Stages == {"idle", "checked", "stored", "inserted", "validating", "approved",
           "anchoring", "locking", "recordingAi", "savingTally",
           "done", "failed", "rejected"}
Settled == {"done", "failed", "rejected"}

\* The local variables of a handler: seen and logLen are the row and the
\* number of custody rows that getCapsule returned.
Request == [stage   : Stages,
            capsule : Capsules \cup {None},
            slot    : Slots \cup {None},
            agent   : Agents \cup {None},
            input   : Decisions \cup AnchorStates \cup Routings \cup {None},
            seen    : Row,
            logLen  : Nat]

Blank(stage) == [stage |-> stage, capsule |-> None, slot |-> None,
                 agent |-> None, input |-> None, seen |-> NoRow, logLen |-> 0]

Init ==
    /\ capsule = [c \in Capsules |-> NoRow]
    /\ custody = [c \in Capsules |-> <<>>]
    /\ objects = {}
    /\ locked = {}
    /\ aiCalls = {}
    /\ anchorCalls = {}
    /\ req = [r \in Requests |-> Blank("idle")]

------------------------------------------------------------------------------
InFlight == {r \in Requests : req[r].stage \notin Settled \cup {"idle"}}

Begins(r, endpoint) ==
    /\ req[r].stage = "idle"
    /\ Workload[r] = endpoint
    /\ Cardinality(InFlight) < MaxInFlight

Exists(c) == capsule[c].status # "ABSENT"

Ends(r, stage) == req' = [req EXCEPT ![r] = Blank(stage)]

\* getCapsule: remember the row and its custody rows, with the request's input.
Reads(r, stage, c, input) ==
    req' = [req EXCEPT ![r] = [stage |-> stage, capsule |-> c,
                               slot |-> None, agent |-> None, input |-> input,
                               seen |-> capsule[c], logLen |-> Len(custody[c])]]

MovesTo(r, stage) == req' = [req EXCEPT ![r].stage = stage]

\* addCustodyEvent inside the transaction that holds the other writes.
Logs(c, event) == custody' = [custody EXCEPT ![c] = Append(custody[c], event)]

\* Wrong on purpose: the decision itself stored as the status.
StatusIsDecision(decision) == decision

\* ESCALATED keeps the capsule in the queue.
StatusAfter(decision) ==
    CASE decision = "APPROVED" -> "APPROVED"
      [] decision = "REJECTED" -> "REJECTED"
      [] OTHER                 -> "PENDING_VALIDATION"

CustodyTypeOf(decision) ==
    CASE decision = "APPROVED" -> "VALIDATION_APPROVED"
      [] decision = "REJECTED" -> "VALIDATION_REJECTED"
      [] OTHER                 -> "VALIDATION_ESCALATED"

\* Types of the custody events that the transaction of a request writes.
Writes(r) ==
    CASE req[r].stage = "stored"      -> {"CREATED", "UPLOADED", "HASH_VERIFIED"}
      [] req[r].stage = "validating"  -> {CustodyTypeOf(req[r].input)}
      [] req[r].stage = "anchoring"   -> {"TRUST_ANCHORED"}
      [] req[r].stage = "recordingAi" -> {"AI_COMPLETED"}
      [] OTHER                        -> {}

\* Wrong on purpose: submitTally reads the row without its custody rows.
RefusesSchemaOnly(r) == ~ Writes(r) \subseteq CustodyTypes

\* The database refuses the transaction: chk_coc_event does not know an event
\* type; or submitTally saves a capsule read with its custody rows after
\* others were added, and save() detaches those by setting their capsule_id to
\* NULL, which the NOT NULL column does not take.
Refuses(r) ==
    \/ ~ Writes(r) \subseteq CustodyTypes
    \/ /\ req[r].stage = "savingTally"
       /\ Len(custody[req[r].capsule]) # req[r].logLen

\* A refused transaction rolls back as a whole and its handler ends.
Rollback(r) ==
    /\ Refuses(r)
    /\ Ends(r, "rejected")
    /\ UNCHANGED <<tables, bucket, calls>>

------------------------------------------------------------------------------
(* submitCapsule *)

\* Rows checkDuplicate's findOne may return; without an ORDER BY the
\* database chooses.
SlotRows(s) == {c \in Capsules : Exists(c) /\ capsule[c].slot = s}

\* Wrong on purpose: a rejected capsule frees the slot for every agent.
NoDuplicateAnyAgent(s, a) ==
    \/ SlotRows(s) = {}
    \/ \E c \in SlotRows(s) : capsule[c].status = "REJECTED"

\* checkDuplicate lets the agent pass: nothing found, or the row found is
\* the agent's own and was rejected.
NoDuplicate(s, a) ==
    \/ SlotRows(s) = {}
    \/ \E c \in SlotRows(s) : /\ capsule[c].agent = a
                              /\ capsule[c].status = "REJECTED"

\* Steps 1 and 2: the station is active and the duplicate check passes.
SubmitCheck(r, s, a) ==
    /\ Begins(r, "submit")
    /\ NoDuplicate(s, a)
    /\ req' = [req EXCEPT ![r] = [stage |-> "checked", capsule |-> None,
                                  slot |-> s, agent |-> a, input |-> None,
                                  seen |-> NoRow, logLen |-> 0]]
    /\ UNCHANGED <<tables, bucket, calls>>

\* Steps 1 and 2, refused: the duplicate check throws 409 on the row it found.
SubmitConflict(r, s, a) ==
    /\ Begins(r, "submit")
    /\ \E c \in SlotRows(s) : \/ capsule[c].agent # a
                              \/ capsule[c].status # "REJECTED"
    /\ Ends(r, "done")
    /\ UNCHANGED <<tables, bucket, calls>>

\* Wrong on purpose: the upload is not awaited and lost.
StoreNotAwaited(r) ==
    /\ req[r].stage = "checked"
    /\ MovesTo(r, "stored")
    /\ UNCHANGED <<tables, bucket, calls>>

\* Steps 2b to 4: geo-fence and hash accepted, the image is put under a key
\* of its own (the key carries agent and time).
SubmitStore(r) ==
    /\ req[r].stage = "checked"
    /\ objects' = objects \cup {r}
    /\ MovesTo(r, "stored")
    /\ UNCHANGED <<tables, locked, calls>>

\* Step 5: one transaction inserts capsule, image, hash and three custody rows.
SubmitInsert(r, c) ==
    /\ req[r].stage = "stored"
    /\ ~Exists(c)
    /\ ~Refuses(r)
    /\ capsule' = [capsule EXCEPT
                     ![c] = [status |-> "UPLOADED", slot |-> req[r].slot,
                             agent |-> req[r].agent, key |-> r,
                             flagged |-> FALSE, decision |-> None,
                             anchor |-> None, tally |-> None,
                             sync |-> "UPLOADED", attempts |-> 1]]
    /\ custody' = [custody EXCEPT
                     ![c] = <<Log("CREATED", None, "CAPTURED"),
                              Log("UPLOADED", "CAPTURED", "UPLOADED"),
                              Log("HASH_VERIFIED", None, None)>>]
    /\ req' = [req EXCEPT ![r].stage = "inserted", ![r].capsule = c]
    /\ UNCHANGED <<bucket, calls>>

\* Step 6: triggerAiVerification, sent after the commit and not awaited.
SubmitTriggerAi(r) ==
    /\ req[r].stage = "inserted"
    /\ aiCalls' = aiCalls \cup {req[r].capsule}
    /\ Ends(r, "done")
    /\ UNCHANGED <<tables, bucket, anchorCalls>>

------------------------------------------------------------------------------
(* approveOrReject *)

\* Wrong on purpose: any status may be decided on.
ValidateReadUnguarded(r, c, decision) ==
    /\ Begins(r, "validate")
    /\ Exists(c)
    /\ Reads(r, "validating", c, decision)
    /\ UNCHANGED <<tables, bucket, calls>>

ValidateRead(r, c, decision) ==
    /\ Begins(r, "validate")
    /\ Exists(c)
    /\ IF capsule[c].status = "PENDING_VALIDATION"
         THEN Reads(r, "validating", c, decision)
         ELSE Ends(r, "done")
    /\ UNCHANGED <<tables, bucket, calls>>

\* Wrong on purpose: an escalated capsule is queued for anchoring as well.
ValidateCommitQueues(r) ==
    LET c == req[r].capsule
        d == req[r].input
    IN  /\ req[r].stage = "validating"
        /\ ~Refuses(r)
        /\ capsule' = [capsule EXCEPT ![c].status = StatusAfter(d),
                                      ![c].decision = d]
        /\ Logs(c, Log(CustodyTypeOf(d), req[r].seen.status, StatusAfter(d)))
        /\ IF d # "REJECTED" THEN MovesTo(r, "approved") ELSE Ends(r, "done")
        /\ UNCHANGED <<bucket, calls>>

\* The transaction updates by id, whatever the status has become meanwhile.
ValidateCommit(r) ==
    LET c == req[r].capsule
        d == req[r].input
    IN  /\ req[r].stage = "validating"
        /\ ~Refuses(r)
        /\ capsule' = [capsule EXCEPT ![c].status = StatusAfter(d),
                                      ![c].decision = d]
        /\ Logs(c, Log(CustodyTypeOf(d), req[r].seen.status, StatusAfter(d)))
        /\ IF d = "APPROVED" THEN MovesTo(r, "approved") ELSE Ends(r, "done")
        /\ UNCHANGED <<bucket, calls>>

\* queueForTrustAnchor, sent after the commit and not awaited.
ValidateQueueAnchor(r) ==
    /\ req[r].stage = "approved"
    /\ anchorCalls' = anchorCalls \cup {[by |-> r, capsule |-> req[r].capsule]}
    /\ Ends(r, "done")
    /\ UNCHANGED <<tables, bucket, aiCalls>>

------------------------------------------------------------------------------
(* recordAnchorCallback *)

\* Wrong on purpose: the status is not looked at.
AnchoredReadUnguarded(r, c, anchor) ==
    /\ Begins(r, "anchored")
    /\ Exists(c)
    /\ Reads(r, "anchoring", c, anchor)
    /\ UNCHANGED <<tables, bucket, calls>>

\* Wrong on purpose: the object is locked before the transaction.
AnchoredReadLocksFirst(r, c, anchor) ==
    /\ Begins(r, "anchored")
    /\ Exists(c)
    /\ IF capsule[c].status = "APPROVED"
         THEN Reads(r, "locking", c, anchor)
         ELSE Ends(r, "done")
    /\ UNCHANGED <<tables, bucket, calls>>

\* A capsule that is not APPROVED when it is read is logged and left alone.
AnchoredRead(r, c, anchor) ==
    /\ Begins(r, "anchored")
    /\ Exists(c)
    /\ IF capsule[c].status = "APPROVED"
         THEN Reads(r, "anchoring", c, anchor)
         ELSE Ends(r, "done")
    /\ UNCHANGED <<tables, bucket, calls>>

AnchoredCommit(r) ==
    LET c == req[r].capsule
    IN  /\ req[r].stage = "anchoring"
        /\ ~Refuses(r)
        /\ capsule' = [capsule EXCEPT ![c].status = "ANCHORED",
                                      ![c].anchor = req[r].input]
        /\ Logs(c, Log("TRUST_ANCHORED", "APPROVED", "ANCHORED"))
        /\ MovesTo(r, "locking")
        /\ UNCHANGED <<bucket, calls>>

\* applyS3ObjectLock on the key read before the transaction.
AnchoredLock(r) ==
    /\ req[r].stage = "locking"
    /\ locked' = locked \cup {req[r].seen.key}
    /\ Ends(r, "done")
    /\ UNCHANGED <<tables, objects, calls>>

------------------------------------------------------------------------------
(* recordAiResult: no guard on the status that was read *)

AiResultRead(r, c, routing) ==
    /\ Begins(r, "aiResult")
    /\ Exists(c)
    /\ Reads(r, "recordingAi", c, routing)
    /\ UNCHANGED <<tables, bucket, calls>>

\* Wrong on purpose: a confident AI result approves the capsule.
AiResultApproves(r) ==
    LET c == req[r].capsule
        s == IF req[r].input = "APPROVE_FOR_REVIEW" THEN "APPROVED"
                                                    ELSE "PENDING_VALIDATION"
    IN  /\ req[r].stage = "recordingAi"
        /\ ~Refuses(r)
        /\ capsule' = [capsule EXCEPT ![c].status = s]
        /\ Logs(c, Log("AI_COMPLETED", req[r].seen.status, s))
        /\ Ends(r, "done")
        /\ UNCHANGED <<bucket, calls>>

\* Wrong on purpose: the previous status is assumed, not read.
AiResultAssumesUploaded(r) ==
    LET c == req[r].capsule
    IN  /\ req[r].stage = "recordingAi"
        /\ ~Refuses(r)
        /\ capsule' = [capsule EXCEPT ![c].status = "PENDING_VALIDATION"]
        /\ Logs(c, Log("AI_COMPLETED", "UPLOADED", "PENDING_VALIDATION"))
        /\ Ends(r, "done")
        /\ UNCHANGED <<bucket, calls>>

AiResultCommit(r) ==
    LET c == req[r].capsule
    IN  /\ req[r].stage = "recordingAi"
        /\ ~Refuses(r)
        /\ capsule' = [capsule EXCEPT
                         ![c].status = "PENDING_VALIDATION",
                         ![c].flagged = req[r].input \in {"ESCALATE",
                                                          "MANUAL_REVIEW"}]
        /\ Logs(c, Log("AI_COMPLETED", req[r].seen.status,
                       "PENDING_VALIDATION"))
        /\ Ends(r, "done")
        /\ UNCHANGED <<bucket, calls>>

------------------------------------------------------------------------------
(* submitTally *)

\* Wrong on purpose: figures are taken for a rejected capsule as well.
TallyReadUnguarded(r, c) ==
    /\ Begins(r, "tally")
    /\ Exists(c)
    /\ Reads(r, "savingTally", c, None)
    /\ UNCHANGED <<tables, bucket, calls>>

TallyRead(r, c) ==
    /\ Begins(r, "tally")
    /\ Exists(c)
    /\ IF capsule[c].status \in TallyStatuses
         THEN Reads(r, "savingTally", c, None)
         ELSE Ends(r, "done")
    /\ UNCHANGED <<tables, bucket, calls>>

\* Repository.save of the row as it was read: the columns that differ from
\* the stored ones are written back, the tally columns among them.
TallySave(r) ==
    LET c == req[r].capsule
    IN  /\ req[r].stage = "savingTally"
        /\ ~Refuses(r)
        /\ capsule' = [capsule EXCEPT ![c] = [req[r].seen EXCEPT !.tally = r]]
        /\ Ends(r, "done")
        /\ UNCHANGED <<custody, bucket, calls>>

------------------------------------------------------------------------------
(* updateSyncStatus: one UPDATE statement; it uses only the id it read *)

SyncUpdate(r, c, state) ==
    /\ Begins(r, "sync")
    /\ Exists(c)
    /\ capsule' = [capsule EXCEPT ![c].sync = state,
                                  ![c].attempts = capsule[c].attempts + 1]
    /\ Ends(r, "done")
    /\ UNCHANGED <<custody, bucket, calls>>

------------------------------------------------------------------------------
\* A call the handler makes throws, or the instance serving it stops: what was
\* committed stays, the rest is never done.  A submission that has not passed
\* its station check yet, or fails geo-fence or hash, ends the same way.
Fail(r) ==
    /\ \/ r \in InFlight
       \/ Begins(r, "submit")
    /\ Ends(r, "failed")
    /\ UNCHANGED <<tables, bucket, calls>>

\* Steps of the handlers after the request was accepted.
Continue(r) ==
    \/ SubmitStore(r)
    \/ \E c \in Capsules : SubmitInsert(r, c)
    \/ SubmitTriggerAi(r)
    \/ ValidateCommit(r)
    \/ ValidateQueueAnchor(r)
    \/ AnchoredCommit(r)
    \/ AnchoredLock(r)
    \/ AiResultCommit(r)
    \/ TallySave(r)
    \/ Rollback(r)

\* Requests of the agents' and the validators' apps.
Apps(r) ==
    \/ \E s \in Slots, a \in Agents : SubmitCheck(r, s, a)
    \/ \E s \in Slots, a \in Agents : SubmitConflict(r, s, a)
    \/ \E c \in Capsules, d \in Decisions : ValidateRead(r, c, d)
    \/ \E c \in Capsules : TallyRead(r, c)
    \/ \E c \in Capsules, s \in SyncStates : SyncUpdate(r, c, s)

\* Callbacks of the AI and the Trust Service.  The workflow engine sends them
\* capsules too, so they may report one that this service did not send.
Callbacks(r) ==
    \E c \in Capsules :
        \/ \E d \in Routings : AiResultRead(r, c, d)
        \/ \E s \in AnchorStates : AnchoredRead(r, c, s)

\* The pool of requests is used up, or nothing is left that they could be for.
Idle ==
    /\ InFlight = {}
    /\ UNCHANGED vars

Next ==
    \/ \E r \in Requests : Apps(r) \/ Callbacks(r) \/ Continue(r) \/ Fail(r)
    \/ Idle

Spec == Init /\ [][Next]_vars

------------------------------------------------------------------------------
(* Properties *)

\* Every variable holds values of its kind.
TypeOK ==
    /\ capsule \in [Capsules -> Row]
    /\ custody \in [Capsules -> Seq(Event)]
    /\ objects \subseteq Requests
    /\ locked \subseteq Requests
    /\ aiCalls \subseteq Capsules
    /\ anchorCalls \subseteq [by : Requests, capsule : Capsules]
    /\ req \in [Requests -> Request]

\* The status that the chain of custody last recorded.
LastRecorded(log, status) ==
    \E i \in 1 .. Len(log) : /\ log[i].new = status
                             /\ \A j \in i + 1 .. Len(log) : log[j].new = None

\* The newest custody event that carries a status carries the capsule's own:
\* no interleaving of the handlers, the whole-row save of submitTally among
\* them, changes a status behind the chain of custody's back.
CustodyTailIsStatus ==
    \A c \in Capsules : Exists(c) => LastRecorded(custody[c], capsule[c].status)

Approvals(log) ==
    {i \in 1 .. Len(log) : log[i].type = "VALIDATION_APPROVED"}

\* "AI assists, humans decide": whatever the order of validations, AI results
\* and late callbacks, a capsule is APPROVED or ANCHORED, and its anchoring is
\* recorded, only after a validator's approval was recorded.
AnchoringNeedsHumanApproval ==
    \A c \in Capsules :
        /\ capsule[c].status \in {"APPROVED", "ANCHORED"}
             => Approvals(custody[c]) # {}
        /\ \A i \in 1 .. Len(custody[c]) :
             custody[c][i].type = "TRUST_ANCHORED"
               => \E j \in Approvals(custody[c]) : j < i

\* A capsule that exists has its image in the bucket, however its submission
\* fails or overlaps with others.
ImageIsStored ==
    \A c \in Capsules : Exists(c) => capsule[c].key \in objects

\* A COMPLIANCE lock cannot be taken back: only the image of a capsule whose
\* anchoring is on record is ever locked.
LockFollowsAnchoring ==
    \A k \in locked : \E c \in Capsules :
        /\ Exists(c)
        /\ capsule[c].key = k
        /\ \E i \in 1 .. Len(custody[c]) : custody[c][i].type = "TRUST_ANCHORED"

\* Each approval on record sends its capsule to the Trust Service at most
\* once, and nothing else in this service sends it.
OneAnchorCallPerApproval ==
    \A c \in Capsules : Cardinality({m \in anchorCalls : m.capsule = c})
                          <= Cardinality(Approvals(custody[c]))

\* Each status-bearing custody event starts where the one before it ended.
CustodyChainUnbroken ==
    \A c \in Capsules : \A j \in 1 .. Len(custody[c]) :
        custody[c][j].prev # None =>
            LastRecorded(SubSeq(custody[c], 1, j - 1), custody[c][j].prev)

\* An anchored capsule is one whose latest human decision was to approve it.
AnchoredWasApproved ==
    \A c \in Capsules :
        capsule[c].status = "ANCHORED" => capsule[c].decision = "APPROVED"

\* Only one agent ever gets a capsule into a slot.
SlotHasOneAgent ==
    \A s \in Slots : \A c, d \in SlotRows(s) :
        capsule[c].agent = capsule[d].agent

\* Handlers served one after the other, with one AI result per capsule, move a
\* capsule only along the lifecycle the platform documents.
Lifecycle == INSTANCE CapsuleLifecycle
                 WITH status <- [c \in Capsules |-> capsule[c].status]
FollowsLifecycle == Lifecycle!Spec

\* What the reporting service and the reconciliation assume of these tables is
\* what overlapping handlers make of them: the status may be taken back, even
\* from ANCHORED, but only a routed capsule is decided on or anchored, and no
\* stale whole-row save brings back old figures or figures for a rejected form.
View == INSTANCE EvidenceView WITH
            Sheets    <- Requests \X Capsules,
            CapsuleOf <- [s \in Requests \X Capsules |-> s[2]],
            NoSheet   <- <<None, None>>,
            capsule   <- [c \in Capsules |-> capsule[c].status],
            sheet     <- [c \in Capsules |-> IF capsule[c].tally = None
                                               THEN <<None, None>> ELSE <<capsule[c].tally, c>>]
ServesReaders == View!EvidenceSpec

\* The schema never refuses a transaction of a handler.
SchemaAcceptsHandlers == \A r \in Requests : req[r].stage # "rejected"

==============================================================================
