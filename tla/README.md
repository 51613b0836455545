# VoteCapsule: a TLA+ model of the evidence path and what is built on it

VoteCapsule lets field agents photograph polling-station result forms. A photo
becomes an *evidence capsule*, which an AI service inspects, a human validator
decides on, and a trust service anchors on Hedera and with a timestamping
authority (TSA). This directory models that path, from the submission of a
capsule to its anchor; the workflow engine that accompanies it; what is computed
from the evidence (result snapshots, the reconciliation of Forms B and C); the
elections and candidates the evidence is about; and the assignments that say
where an agent may photograph. It says what was checked
and what was proved.

Paths below are relative to `src/`.

## 1. The system

### 1.1 Components

| Component | State it keeps | Operations that change state | Here |
|---|---|---|---|
| **Evidence Service** `services/evidence` | `evidence_capsules`, `evidence_images`, `evidence_hashes`, `evidence_chain_of_custody`; images in S3, with Object Lock | submit, sync-status, validate, anchored (callback), ai-result (callback), tally | modelled |
| **Trust Service** `services/trust` | in memory: `hashQueue`; tables `trust_anchor_batches`, `trust_anchor_leaves`; outside: a Hedera topic, TSA tokens | anchor (queue), a timer that processes batches, reports | modelled |
| **Merkle tree** `services/trust/src/merkle` | none | root, proof, verification | modelled |
| **AI Service** `services/ai` | `ai_verification_jobs`, anomaly events | verify (trigger), pipeline, anomaly review | partly |
| **Workflow Service** `services/workflow`, state machines under `infrastructure/step-functions` | executions, escalations; AWS Step Functions | start, record step, escalate, resolve, SLA check, synchronise | modelled, resolving and manual escalations apart |
| **Reconciliation** `services/evidence/src/reconciliation` | Form B / Form C collations, alerts | submit form B/C, reconcile, resolve alert | modelled |
| **Agent app** `apps/agent-mobile` | capsule queue and assignment in AsyncStorage, upload state, session | sign in and out, fetch the assignment, locate, capture, add page, Done, tally entry, delete, sync loop with retries | modelled, station search apart |
| **Composite hash** `apps/agent-mobile/src/utils/crypto.ts`, `services/evidence/src/utils/sha256.util.ts` | none | computed on the phone, verified by the service | modelled |
| **Candidate Service** `services/candidate` | elections, positions, parties, candidates, status log | status and active flag of elections; registration, status changes, declaration and promotion of candidates; CRUD | partly, see 2.11 |
| **Reporting Service** `services/reporting` | result snapshots, publications | compute, verify, publish; exports | modelled, exports apart |
| **Identity Service** `services/identity` | users, assignments, invitations, devices, roles; a session service in Redis that is called by nobody | assign, change, remove; invite, register | assignments modelled |
| **Geo-fence** `apps/agent-mobile/src/hooks/useGeofence.ts`, `services/evidence/src/geo` | none | judged on the phone before a shot, by the service on arrival | modelled |
| **Billing Service** `services/billing` | plans, subscriptions, invoices, payments, licences | status changes of each | planned last |
| Election Service | none, forwards to the Candidate Service | | not modelled |
| Tenant, Notification, Audit, Geography Services | own tables | row-at-a-time CRUD and queries | not modelled |
| Campaign Service `services/campaign` | campaigns, budgets, teams, tasks, materials | CRUD, apart from the evidence path | not modelled |
| Web portals, validator app | user interface | | not modelled |
| Infrastructure, scripts, shared packages | deployment, types | | not modelled |

### 1.2 How they interact

    agent app --submit/tally/sync--> Evidence --POST /ai/verify----> AI
                                      |  ^                            |
                                      |  +----PATCH ai-result---------+
    validator --validate-----------> Evidence --POST /trust/anchor-> Trust --> Hedera, TSA
                                         ^                            |
                                         +----PATCH anchored----------+
    workflow engine: sends the same POSTs to AI and Trust, with retries, the
    second on an approval of its own (a task token answered APPROVED)

                 evidence tables
                   |          |
         Reporting (reads)  Reconciliation (reads; Forms B, C)
    Candidate Service: elections, candidates      (used by the portals)
    portal --assign/change--> Identity --GET assignments/me--> agent app
                                 +-- agent_assignments, read by Evidence on submit

Apart from the Reporting Service, which queries the evidence tables, and the
Evidence Service, which queries the assignments, the services share no database
tables. Every call on the evidence path is an HTTP
request sent *after* a commit and not awaited by the handler that sends it;
none of them is stored in an outbox, so each may be lost, and the workflow
engine may repeat it. The workflow engine learns of its state machines from
EventBridge events, delivered late, twice or never, and from a synchronisation
on demand.

### 1.3 What is hard about it

* Every handler of `EvidenceService` reads the capsule, awaits, and then updates
  it by id. The status it tested may be stale when it writes (section 3.1).
* `submitTally` uses `Repository.save` on the whole row it read.
* The duplicate check is far from the insert and no unique index backs it.
* The Trust Service keeps accepted hashes in memory; its timer does not wait
  for the batch before it, so batches overlap; a rejected save of the leaves
  ends the process.
* The agent app interleaves handlers at every storage access: `updateCapsule` is
  a read and a write with an await between, the sync engine's flag is tested
  before an await and set after it, and Done uploads without looking at it.
* Calls of the app that meet expired tokens while another call renews them wait
  in a queue that only a successful renewal empties.
* Anchoring has an outcome in two other systems, either of which may fail
  after it took effect.
* An execution of the workflow engine exists twice, as a row and as a state
  machine in Step Functions, and the two are changed one after the other.
* Results are computed, verified and published by requests that overlap with
  each other and with the decisions on the capsules they add up.
* Officials save entities as they read them. TypeORM loads the stored row again
  and writes every column in which it differs, so a late save undoes what others
  committed, except in columns that were equal when it looked.
* The phone judges a form's location by its copy of the assignment and its
  screen's position; the service by its own table and the position it is sent.

`PROJECT.json` lists each hazard at its line with the properties that cover it.

### 1.4 What makes the components correct

* *Evidence*: the chain of custody tells the truth about the capsule; nothing
  is approved or anchored without a human; an existing capsule has its image;
  the irreversible lock falls on anchored images only; one agent per slot.
* *AI*: one report per capsule, saying what the job says.
* *Trust*: what is stored can be verified, what is reported is stored, a claim
  of a Hedera anchor is true, an accepted hash is not forgotten while the
  process lives.
* *Merkle*: proofs verify, only for members, and the root fixes the batch.
* *All three*: a capsule shown as anchored can be verified; only what a
  validator approved, with the Evidence Service or in the workflow engine,
  reaches the ledger; the capsule follows its lifecycle.
* *Workflow*: a terminal status is what happened to the state machine; no way
  to the anchoring step goes round the validator; an overdue execution is
  escalated, once.
* *Reporting*: what is published was verified by an official, up to
  recomputations the code permits; versions do not repeat, up to overlaps.
* *Reconciliation*: a discrepancy raises an alert; a form without one is the
  exact sum of the forms below it, as they were when it was compared.
* *Candidate Service*: one active election and one winner per nomination, up to
  the exceptions the code leaves open, which the properties name.
* *Assignments*: an agent is shown his own; what the phone says of a form's
  location is what the service finds, up to named differences.

## 2. The modules

| Module | Models | Code |
|---|---|---|
| `EvidenceCapsule` | the Evidence Service, split at its awaits | `services/evidence/src/evidence.service.ts` |
| `CapsuleLifecycle` | the abstract lifecycle of one capsule | `README.md:161` |
| `TrustAnchor` | queue, timer, overlapping batches, rows, reports | `services/trust/src/trust.service.ts`, `hedera/`, `tsa/` |
| `MerkleTree` | root, proof, verification as functions | `services/trust/src/merkle/merkle-tree.util.ts` |
| `BatchTrees` | two growing batches, and what proofs and roots say of them | the same, as the Trust Service uses it |
| `AiPipeline` | AI jobs: trigger, pipeline, report | `services/ai/src/ai.service.ts` |
| `EvidencePipeline` | the three services together; extends `EvidenceCapsule` | as above, and the calls between them |
| `AgentSync` | the agent app's queue and sync engine against the submit handler | `apps/agent-mobile/src/services/syncEngine.ts`, `utils/storage.ts`, `store/`, `screens/` |
| `CaptureHash` | the composite hash on both sides | `apps/agent-mobile/src/utils/crypto.ts`, `services/evidence/src/utils/sha256.util.ts` |
| `WorkflowEngine` | executions, their state machines, events, deadline check | `services/workflow/src/workflow.service.ts`, `step-functions/` |
| `EvidenceView` | the evidence tables as reporting and reconciliation read them; `EvidenceCapsule` implements it | `services/evidence/src/evidence.service.ts` |
| `Reporting` | snapshots: compute, verify, publish | `services/reporting/src/reporting.service.ts` |
| `TallyForms` | arithmetic of Forms A, B, C as functions | `services/evidence/src/reconciliation/`, `evidence.service.ts` |
| `Reconciliation` | Forms B and C, alerts | `services/evidence/src/reconciliation/` |
| `Results` | `Reporting` and `Reconciliation` together, over the capsules both read | as above |
| `ElectionCalendar` | status and active flag of elections | `services/candidate/src/candidate.service.ts` |
| `Nominations` | candidates of one office, from registration to promotion | `services/candidate/src/candidate.service.ts` |
| `GeoFence` | the verdict on a location, on both sides, as functions | `apps/agent-mobile/src/hooks/useGeofence.ts`, `services/evidence/src/geo/` |
| `FieldWork` | assignments, the phone's copy, one form from tap to arrival | `services/identity/src/assignments/`, `apps/agent-mobile/src/store/`, `screens/` |
| `MC*` | instances for TLC: workloads, symmetry, enumeration | |
| `EvidenceCapsule_proofs`, `TrustAnchor_proofs`, `EvidencePipeline_proofs`, `WorkflowEngine_proofs`, `AgentSync_proofs`, `Results_proofs`, `Nominations_proofs`, `FieldWork_proofs` | theorems about the module they are named after (section 4) | |

Definitions commented *Wrong on purpose* or *Mutant* are variants of the definition that
follows them, each with a plausible bug; no specification uses them. They show,
when put in the place of the right one, that the property named in
`PROJECT.json` would notice the bug.

### 2.1 EvidenceCapsule

*State.* `capsule[c]` is a row of `evidence_capsules` with the columns the
handlers decide on; `custody[c]` its chain of custody in order of insertion;
`objects` and `locked` the bucket; `aiCalls` and `anchorCalls` the requests
sent to the other services; `req[r]` how far request `r` is, with the local
variables its handler keeps across an await: the row and the number of custody
rows that `getCapsule` returned.

*Actions.* Each endpoint is one action up to its read, one per commit, one for
the call sent afterwards:

| Code | Actions |
|---|---|
| `submitCapsule` | `SubmitCheck` or `SubmitConflict`, `SubmitStore` (S3), `SubmitInsert` (transaction), `SubmitTriggerAi` |
| `approveOrReject` | `ValidateRead`, `ValidateCommit`, `ValidateQueueAnchor` |
| `recordAnchorCallback` | `AnchoredRead`, `AnchoredCommit`, `AnchoredLock` |
| `recordAiResult` | `AiResultRead`, `AiResultCommit` |
| `submitTally` | `TallyRead`, `TallySave` |
| `updateSyncStatus` | `SyncUpdate` (it writes nothing it has read) |
| any call that throws, an instance that stops | `Fail` |
| a transaction the database refuses | `Rollback` |

A transaction is atomic: all its writes are one action, and `Rollback` undoes
all of them. Two refusals are modelled (`Refuses`): the check constraint on
event types, and `submitTally`'s save. That save is given the row *with* the
custody rows that were read; TypeORM treats a row added since as removed from
the relation and tries to set its `capsule_id` to NULL, which the column does
not allow, so the save fails. If none was added, it writes every column that
differs from the stored row back to what was read.

*Abstractions.* Names, codes and hashes are model values. A slot is a station
with a position and a year. Geo-fence, hash and station checks are ways for a
submission to fail. The tally is the identity of the request that brought it.
OpenSearch indexing, counters and read-only endpoints are left out. The image
key is the identity of the submitting request, since the real key carries agent
and time of the upload.

### 2.2 TrustAnchor

A run of `processBatch` is split at its awaits: `StartBatch` (drain),
`CreateBatch` (PENDING row), `Submit` (Hedera and TSA together), `SaveStatus`,
`StoreLeaves`, then one `Notify` per item. A member of `Batches` names both the
run and the row it creates. `Submit` allows that the topic took the message
and the client still reports a failure. `Stop` is a restart from outside;
`Poison` the rejected promise of the timer's callback. The root of a batch is
represented by the sequence of its items; the theorems `RootFixes` and
`AnchoredIsProvable` (section 4) say why that loses nothing.

### 2.3 AiPipeline

The call that inserts the job also runs its pipeline, in the same process. The
stages of the pipeline (Textract, register check, scoring, storing) are one
persisted result with some routing decision, or a failure. A failed job goes
back to QUEUED with a time for the next attempt; the code never acts on that
time, and neither does the model.

### 2.4 EvidencePipeline

Extends `EvidenceCapsule`, instantiates `AiPipeline` and `TrustAnchor`, and
connects their calls. `AnchorStates`, which `EvidenceCapsule` leaves open, is
what the Trust Service reports: anything but PENDING (`PipelineAssumption`).
A request may be received any number of times (retries, and the workflow engine's
own requests) or never; a report is served at most once, since its sender does
not repeat it.

The workflow engine asks for anchoring on an approval of its own: the answer
APPROVED to the task token of `AssignToValidatorQueue`, on which `AnchorToQldb` posts to
`/trust/anchor`. Nothing in `src/` ties that answer to `approveOrReject`.
`WorkflowApproves` gives it for any capsule at any time (`answered`), and the Trust
Service, which looks at no approval, takes what either side sent
(`ForAnchoring`). The callback for such a capsule finds it in whatever status the
Evidence Service has it, and is ignored unless that is APPROVED.

### 2.5 MerkleTree and BatchTrees

SHA-256 is taken to be injective: a parent is the pair of its children. The
loops of the code are recursive functions, so that the module stays usable from
proofs: `Level` is the tree level by level, `Ancestor` the index that is halved
on the way up, `Climb` the hash that `verifyMerkleProof` carries along. `Root` is
the last level's node, `Proof` the siblings on the way to it.

`BatchTrees` lets two batches grow one leaf at a time, the batch that was
anchored and one of distinct hashes to compare it with, and states what a
verifier relies on: `ProofShowsMembership` and `RootFixesBatch`. `MCMerkleTree`
bounds their growth.

### 2.6 AgentSync

A task is one activation of a handler: a shot, Done, a tally entry, a deletion,
or a run of the sync engine. `updateCapsule` is two steps: an action that ends
in reading the record (`seen`) and `Write`, which stores it merged with the
update. `runSync` tests `isSyncing` in `SyncStart` and sets it in `SyncOnline`;
its snapshots are `tries` (their `syncAttempts`) and `todo` (what is left to
upload). A request lives on when the phone gives up on it (`by` is then None),
and the server checks and inserts in two steps, as in `EvidenceCapsule`.
`Kill` forgets tasks, flag and screen, and keeps storage and requests.

*Expired tokens.* `refreshing` is `isRefreshing` of `api.ts`. While a call of the
app renews the tokens, an upload that is answered 401 joins `refreshQueue`: its
task is "queued" and waits for nothing else, with no time-out. `RefreshDone` sends
every queued upload again; `RefreshFails` leaves them where they are, until a
later refresh succeeds or the app is killed (`Hung`). An upload that waited so is
`late`: its record may by then be old enough to be recovered under it.

*Rejections.* `checkDuplicate` lets an agent send a form again whose capsule was
rejected, and looks at any one capsule of the slot. Once a form of the slot is in
`rejected`, its outcome is therefore open, in both directions (`FreeAgain`);
`MaxCopies` bounds how many capsules a form then gets.

Not told apart: the pages and the tally figures of a record; writing them is
writing the record back as it was read. `Valid` is the set of forms that pass
the server's checks other than the duplicate: as the code stands it is empty
for real captures (section 2.7), and the sync engine is studied for the day the
formulas agree. The list of ids is updated at once, since two taps of one agent
are further apart than a storage access. A call gives up after 30 seconds, so an
upload at work is not taken for stuck unless the app slept (`SyncWoken`, a
fault) or the upload waited for new tokens. A call that is the first to meet
expired tokens renews them within itself (at most 20 seconds): for the phone's
storage it is an upload like any other.

### 2.7 CaptureHash

Digests are records of what was hashed. Position and year are the same constants
on both sides. `EvidenceCapsule` takes the verdict of the hash check as an
outcome, and so covers clients that hash like the service does.

### 2.8 WorkflowEngine

`row[r]` is the `workflow_executions` row that request `r` inserted, and
`machine[r]` the execution in Step Functions that goes with it; the state
machine of `evidence-capsule.statemachine.ts` is a step relation over its
states, with the answers of the AI Service, of the validator (task tokens) and
of the clock as choices. `startWorkflow` is split at its awaits: look-up,
insert, `StartExecution`, and the save of the ARN or of the failure.
`RecordStepEvent` is an event from EventBridge about any state the machine has
been in: at any time, any number of times or never. `SyncDescribe` and
`SyncWrite` are the synchronisation on demand, `CheckFind`, `CheckLook` and
`CheckCreate` the deadline check. `CallDies` and `SyncDies` stop a handler
between two awaits; `Abort` stops a state machine from outside.

Left out: `current_step` and the step log, resolving an escalation, escalations
posted by hand. `PublishServed` says whether the Evidence Service answers the
publish request: today it has no such route, so the machine of an anchored
capsule would fail; the run studies the machine with the route in place.

### 2.9 EvidenceView and Reporting

`EvidenceView` is the evidence tables as other components query them: the
status of each capsule, and the Form A figures (a *sheet*) stored with it. It is
the abstract specification of what a reader may expect while handlers overlap,
and that is little: only a capsule that was routed to a validator once is
decided on or anchored; figures are entered for a capsule in one of four
statuses, and again with other figures, anchored capsules included; and **no
status is final**: a decision, or a second AI result, committed by a handler
that read the row earlier takes a capsule out of ANCHORED. `ServesReaders` says
that `EvidenceCapsule` implements it, under any overlap: the status as it is,
the sheet as the request whose figures are stored. It is checked
(`evidence_one_capsule`) and proved. The lifecycle of the documentation,
`CapsuleLifecycle`, holds for handlers served one by one only.

A scope is the set of stations it consists of, and the figures of a snapshot
are represented by the capsules they were added up from, which is more than any
sum could tell apart. The areas of each level are sets of stations
(`AreasAssumption`), capsules and publications are finitely many
(`RequestsAreFinite`), as they are counted. `ComputeRead` is the one query with everything computed
from it, `ComputeUpsert` one statement of up to `BATCH` rows. Verification and
publication read the snapshot, await, and save it as it was read. `reviewed`
and `recomputed` are history: what an official has verified, and what a
recomputation stored over a verified row. A save is taken to be one step:
between TypeORM's look at the row and its write nothing happens.

### 2.10 TallyForms and Reconciliation

`TallyForms` computes what the code computes: the rules a form must keep, the
verdict of a Form A, the sums and differences between levels. `Reconciliation`
keeps Forms B and C and their alerts; a task is one request to reconcile, split
into reading the form, reading the forms below, updating the status and
inserting alerts, with other requests in between. `present` is history: which
sheets or forms were on record for the comparison. The figures of forms and
sheets are constants (`Form`): the code never edits a Form B or C, and a
Form A is corrected by entering another sheet for its capsule (`EnterTally`);
`FormAsFor` takes the sheets stored at the moment. `WithElection` says which Form As carry the election's
id: `submitCapsule` never fills that column, so in the code as it stands
reconciliation finds no Form A at all; the run gives all of them one.
`FiguresAreCounts` is what the DTOs demand of every figure of all three forms
(`@IsInt`, `@Min(0)`: `submit-tally.dto.ts:42`, `form-b-submit.dto.ts:42`,
`form-c-submit.dto.ts:25` and so on): natural numbers.

`Results` puts the two beside each other and the capsules they read
(`ResultsSpec`); `MCResults` takes its behaviours apart again, by desk.

### 2.11 ElectionCalendar and Nominations

Both say how TypeORM and PostgreSQL let requests overlap: a statement sees what
was committed before it (READ COMMITTED), a row changed by a transaction is
locked until it ends, and `save` is a load (`SaveLoad`, `SaveRowLoad`), and a
write of the columns that differ from what was loaded (`Merged`). A row that
does not differ is neither written nor locked, which is how two declarations
can each leave a loser alone whom the other makes the winner.

In `ElectionCalendar`, `activateElection` and `openVoting` are transactions:
find the active elections of the tenant, take their flag, find the election,
save it. `openVoting` asserts the transition, `activateElection` none. Every
other operation reads, asserts, and saves. `opened` and `during` are history.

In `Nominations`, a row is named by the request that inserts it.
`RegisterCheck` and `Insert` are the look-up and the transaction of
`registerCandidate`, `PromoteRead` and `Insert` those of
`promoteNominationWinner`; the unique index on election, position and national
id is the guard of `Insert`. `DeclareRead` and `DeclareSiblings` are the reads
of `declareNominationWinner`, `ChangeFind` that of `updateCandidateStatus`;
their transactions then share `SaveRowLoad`, `SaveRowWrite`, `SaveCommit` and
`SaveRollBack`. PATCH checks no transition, and the operations named after one
check it before the transaction, so a change may ask for any of `Targets`. The
winner is read together with his history, and TypeORM refuses to save him once
the history has grown, for the same reason as in `submitTally` (2.1).

Left out: disputes, ballot references, parties, positions, statistics, and the
columns that have no part in a decision (the note promotion leaves in
`gazetteReference` among them).

`Persons` are those who may be candidates, of whom the `Nominees` stand when a
behaviour begins. `ElectionsSpec` lets elections and candidates change side by
side, which is what the theorems are about; the run takes them apart.

### 2.12 GeoFence and FieldWork

`GeoFence` is what phone and service make of a distance; the distance, from
places to stations, is a constant. A radius is any integer (`PlansAreTyped`),
since no code checks that it is positive. `FieldWork` has the portal's table (`duty`),
one phone, and one form. `fetchAssignment` is split where it waits:
`FetchAsk`, `FetchServe` (the query), `FetchArrive` (the answer, and the first
of the two writes, to the store after a 404 and to AsyncStorage otherwise),
`FetchShow` or `FetchDrop` (the other write), or `FetchFail` and `Restore`, which
show the copy; `Hydrate` does the same when the home screen mounts. Any number
may overlap. `store` is the assignment in memory, `disk` the copy; signing out
clears neither, because `clear()` is called by nobody.

`coords` is the position the capture screen knows, which the geo-fence judges,
`attach` the session's, which goes with the form: GPS that is lost clears the
first only, and so does leaving the screen. A form remembers the verdict at the
tap (`shown`), what it rested on (`by`, `judged`), and the position sent (`gps`);
the upload goes under the name of whoever is signed in, and is judged by that
agent's newest assignment, or by none if the query fails. `told` and a fetch's
`alone` are history: an answer has come to the present user with no other fetch
or hydration under way.

Left out: what is not the phone's own in a refused upload (the sync engine's
attempts are in `AgentSync`), expiry (no code sets `expires_at`), the tenant
(one), the station picker (any station may have been selected, now or under an
earlier assignment), further pages of a form.

## 3. What is checked

### 3.1 Runs that pass

**`evidence_one_capsule`**: one capsule; one submission, two validators, two AI
results, one anchor callback, one tally; any three at once. (`updateSyncStatus`
writes columns that nobody else reads, in one step; it is in `evidence_serial`.)
Three in flight is enough for a reader that is overtaken by a complete handler
while another holds a stale row too, and two of each deciding endpoint let each
race with itself. Holds: the newest status on the chain of custody is the
capsule's (`CustodyTailIsStatus`); approval and anchoring only after a recorded
human approval (`AnchoringNeedsHumanApproval`); a capsule has its image
(`ImageIsStored`); locks only after recorded anchoring (`LockFollowsAnchoring`);
at most one anchor request per approval (`OneAnchorCallPerApproval`); what other
services read of the table is a behaviour of `EvidenceView` (`ServesReaders`,
2.9). About 404 000 distinct states.

**`evidence_serial`**: two capsules in one slot, two agents, ten requests
served one after the other. It establishes what holds *because* handlers do not
overlap: the chain has no gaps (`CustodyChainUnbroken`), an anchored capsule's
last decision was to approve (`AnchoredWasApproved`), one agent per slot
(`SlotHasOneAgent`). All three are **false** with two requests in flight, since the code has no locks or conditional updates: two validators
who both read PENDING_VALIDATION may approve and reject the same capsule. Nothing
in the repository promises otherwise, so this is recorded as a hazard.

**`trust_anchor`**: two capsules, three calls, three batches, one stop, each
outcome among DUAL_ANCHORED and FAILED with the ledger possibly ahead. Three
batches allow two to overlap and a third to follow; three calls allow a
repeated one. `LeavesMatchBatch`, `ToldIsStored` and `HederaClaimIsTrue` hold
across stops; `AcceptedIsHeld` and the liveness property `AcceptedIsTold` hold
as long as the process lives.

**`field_work`**: a behaviour exercises one of three desks. *Assignments*: two
agents, up to two assignments and one change of them, two fetches at a time,
signing in and out, restarts. Once a fetch of the present user has been answered
undisturbed, no other agent's assignment is shown or kept (`OwnAssignment`).
*Forms*: a table and a store in any of the states such a day may begin in; one
form. What the phone said of the location is what the service finds, unless it
judged by another assignment or another position, or one of three differences
between the formulas applies (`VerdictsAgree`); each of the five exceptions does
occur. Places at 400, 1500 and 3000 m and radii of 0, 300, 500 and 1000 m meet
every branch of both verdicts. *Tree*: batches of 1 to 5 leaves over 5 hashes,
against every batch of distinct hashes (`ProofShowsMembership`,
`RootFixesBatch`). Five leaves meet an odd level at the bottom (3, 5) and one
above it (5 gives 3), and a leaf duplicated twice. `RootFixesBatch` is stated
for batches without repeated hashes: `<<a, b, c>>` and `<<a, b, c, c>>` have the
same root by construction. The tree has nothing to do with the fence; the two
share a run because each is small.

**`evidence_pipeline`**: one capsule through all three services; two AI calls
with one attempt each, one routing, two anchor calls, two batches, one restart,
one decision, one request at a time in the Evidence Service, and at any moment
the workflow engine's task token answered APPROVED. What reaches the Trust
Service is what either of them sent: a capsule that no validator approved with the
Evidence Service may be anchored there, and rejected or still waiting here.
`OnlyApprovedOnLedger` therefore names both approvals; the second leaves no
trace on the chain of custody.  `AiReportsOnce`, `AnchoredIsVerifiable`,
`OnlyApprovedOnLedger`, and the refinement `KeepsLifecycle`:
`CapsuleLifecycle!Spec` with `status` read off the capsule table. The
refinement holds for handlers served one by one; `recordAiResult` itself has no
guard, and it is the AI Service's single report that keeps a decided capsule
from moving back.

**`agent_sync`**: one form, two tasks, two requests, two attempts, two taps and
one fault at any point, which may be tokens that expire, and a rejection, which
counts as a fault; two capsules of a form at most after one. Two tasks let two runs of the engine overlap, or one run
and Done, a tally entry, a page or a deletion; a run's snapshot may be served
after another task finished the form. Holds: a form shown as uploaded is on the
server (`UploadedIsReceived`); nothing is sent before Done (`SentWasFinished`);
the engine's flag is up only while a run is there that would lower it
(`FlagIsHeld`); no form stays QUEUED or UPLOADING for ever, *unless* from some
moment on a run waits in `refreshQueue` with nobody renewing the tokens, or such
uploads take up all the tasks there are (`LeavesTransit`, `Hung`). The exception is
what the code does: such a run keeps the flag, and the engine does not upload
anything until another call of the app renews the tokens or the app is
restarted. An upload of Done that hangs in the same way leaves its own form
UPLOADING only until the next run recovers it. `CHECK_DEADLOCK FALSE`, because all
tasks may hang. About 824 000 distinct states. What does not hold, and is listed as
hazards: an upload whose answer was lost is met with 409 until the phone shows
FAILED; an overlapping upload may turn UPLOADED back into QUEUED or FAILED; a
page still being added while Done is tapped may turn QUEUED back into CAPTURED.
One form is enough for these, as forms only meet in the duplicate check.

**`workflow_engine`**: two starts for one capsule, every behaviour of their
state machines, aborted ones included, events in any order and number, a
synchronisation of each, stops of the service in the middle of a call, one
deadline check at a time. Two executions are what a start can collide with.
Holds: a terminal status is the machine's own, unless it is the FAILED of a
start that was refused (`StatusIsTrue`); the machine asks for an anchor only
after a validator approved (`AnchorNeedsValidator`); two executions of a capsule
run at once only if each start looked before the other's row was there
(`DoubleStartNeedsOverlap`); an execution is escalated once
(`OneBreachPerExecution`), and an overdue one is escalated or leaves RUNNING
(`OverdueIsEscalated`), the latter for as many executions as a check takes.

**`results`**: a behaviour exercises one of two desks, since they share nothing
but the capsules they read. *Reporting*: two stations with a capsule each, in
one constituency; two computations, one verification and two publications. One
capsule is anchored, the other takes any status `EvidenceView` lets it take, out
of ANCHORED included. What is
published was verified, or stored by a recomputation over a verified row
(`UnreviewedNeedsRecompute`); two publications have the same number only if
neither knew of the other (`SameVersionNeedsOverlap`). *Reconciliation*: two
capsules, of which one is anchored and its figures switch between two sheets,
while the other moves between a status that counts and one that does not; a Form
B that is right about two of the sheets, one that leaves a
candidate out, one of another constituency, a Form C that is right while only
the first is there; three overlapping requests. About 400 000 distinct states. A DISCREPANCY has an alert,
unless the request failed between its two statements (`DiscrepancyIsAlerted`);
a MATCHED Form B with no alert is exact candidate by candidate about the sheets
it was last compared with (`MatchedIsExact`), and may disagree with the sheets
entered since; a VERIFIED Form C covers every Form B on record at its
comparison (`VerifiedCoversForms`).

**`nominations`**: a behaviour exercises one of two desks, of which the second
reads only the status of an election. *Elections*: three elections of two
tenants, each in PLANNING or CAMPAIGN; one status update and two openings. Two
elections of a tenant are active only if an update gave one the flag, or the
openings overlapped (`OneActiveUnlessUpdated`). *Candidates*: two nominees
and a third person who may register, two declarations, one status change, one
registration and one promotion. Two winners mean that one had been withdrawn or
disqualified, that a status change wrote back a decision it had read, or that
the requests which decided overlapped (`OneWinnerUnlessChanged`); the newest
entry of a candidate's history is his status, unless he lost, or requests
overlapped (`HistoryEndsInStatus`).

Both statements of the candidates owe their present form to their proofs. The
run is too small for two things that larger instances show. With a third
declaration, a loser's status can be written over a winner's between two saves
of others, and then stand against an entry the loser's request never made: so
the exception speaks of the status NOT_ELECTED, not of the flag. With a third
declaration and a second change, a change that read a winner before he lost can
make him one again when it saves him: so what a change wrote back is an
exception too.

### 3.2 Runs that show a disagreement

| Run | Property | Disagreement |
|---|---|---|
| `capture_hash` | `GenuineIsAccepted` | "This exact formula is also implemented server-side" against two formulas over different components |
| `evidence_migrated_schema` | `SchemaAcceptsHandlers` | the event type TRUST_ANCHORED against the check constraint the migrations leave in force |
| `trust_second_call` | `SecondCallIsHarmless` | "Idempotent — safe to retry" against a repeated call before the batch is stored |

`PROJECT.json` quotes the lines.

Other disagreements met while modelling, visible in the actions of the modules
and not run as checks of their own:

* *Evidence.* "One capsule per station+position+election"
  (`evidence.service.ts:128`) against a look-up without order that lets a second
  live capsule in after a rejection and a resubmission; "Immutable after
  dual-anchor confirmation" (`README.md:273`) against tallies that are saved
  into an anchored row; "Any other status is logged and ignored" (`:439`)
  against a FAILED batch that still makes an APPROVED capsule ANCHORED.
* *Reconciliation.* "transactionally, deduplicated"
  (`reconciliation.service.ts:352`) against an insert outside any transaction
  whose ON CONFLICT has no unique index to conflict with; "MATCHED: SUM(Form As)
  == Form B totals" (migration 022:62) against figures that `submitTally` accepts
  for a Form A at any time, with no reconciliation after it.
* *Agent app.* "Queue this request until the refresh completes" (`api.ts:72`)
  against a queue that only a refresh that succeeded serves (`:91`).
* *Ledger.* "Queues an approved Evidence Capsule's SHA-256 hash"
  (`trust.controller.ts:29`) against an endpoint that looks at no approval; the
  capsule state machine sends its request on the answer to its task token. A
  second definition of the pipeline, `evidence-pipeline.asl.json`, publishes an
  anchor request after a fixed wait with no validator; nothing in the
  repository consumes it.
* *Reporting.* A recomputation changes the figures of a verified or published
  snapshot and leaves its status; `total_stations` is "NEC expected station
  count" (migration 017:42) and counts stations that have a capsule, so that the
  number of pending stations may be negative; a computation for one area also
  rebuilds wider scopes from that area's rows alone; two anchored capsules of
  one station are both added up; a late verification may turn PUBLISHED back
  into VERIFIED. The conflict target of the upsert is passed as column names; if
  TypeORM quotes the COALESCE expressions, no snapshot can be stored.
* *Workflow.* "Finds all running workflows past their SLA deadline"
  (`workflow.service.ts:329`) against 50 in no order, which may be the same
  escalated ones each time; the states CheckAIJobStatus and PublishResults have
  no Catch although errors are said to end in a supervisor's hands.
* *Candidates.* "Only one election is active at a time" (migration 016:34)
  against status updates that take no flag away; `activateElection` also revives
  a CLOSED or CANCELLED election; "max 1 party-sponsored candidate per party per
  position" (`candidate.service.ts:419`) against a look-up under the
  nomination's position id, which finds none; "nominationWon=FALSE on all other
  candidates" (`:343`) against withdrawn ones that are passed over, and stay
  promotable; "every candidate status transition" is in the audit trail, except
  losing a nomination; registration does not look at the election's status.
* *Field work.* "server will reject" for a station outside the assignment
  (`useGeofence.ts:123`, `willServerReject: true`) against a service that then skips the
  check; "Evidence Service rejects if >2km" (`:13`) against four times the
  assignment's radius; "Prevent duplicate ACTIVE assignments" (migration 131:57)
  against a constraint that also refuses a second SUSPENDED or COMPLETED row;
  "Clear assignment data (on logout)" (`assignmentStore.ts:178`) against a logout
  that does not. A form carries no agent: whoever is signed in when it is sent is
  recorded as its agent.

### 3.3 Bounds

`MaxInFlight` bounds the requests served at once, the pools of requests, calls
and batches bound how often each thing happens, `MaxStops` the restarts,
`MaxAttempts` is the column's default of 3, `MaxRetries` the app's 5 (2 in the run),
`MaxTaps` and `MaxFaults` bound what the agent does and what goes wrong,
`MaxCopies` the capsules of a form once one was rejected,
`MaxDuties` the assignments made and `MaxEdits` the changes to
them; a form's desk closes when the form is accepted. `SlaBatch` is 50 in the code and 2 in
the run, as many as there are executions; `BATCH` is 100 in the code and 2 in the
run, fewer than the three scopes, so that a computation is stored in parts. In the newer
modules each request happens once, so the pools of requests are the only bounds. All
are constants, and the proofs hold for any value of those of their modules.
Symmetry is used for interchangeable identities, and not in `trust_anchor`,
`agent_sync` and `workflow_engine`, which check liveness. Type
invariants are proved and seldom part of a run; `AiPipeline`'s is a conjunct of
the invariant of the composition.

### 3.4 Fairness

`TrustAnchor!FairSpec`: the timer fires again and again
(`setInterval`), so a non-empty queue is drained: weak fairness of `StartBatch`.
Every await of a run settles, so each run advances: the TSA client has a
timeout of 15 s, the Hedera SDK bounds its own attempts, and database calls
return or throw. The PATCH to the Evidence Service has no timeout; that it
settles, by an answer or a closed connection, is an assumption about the
network. Arrivals of calls, and the push that follows the look-up, are not
fair: `AcceptedIsTold` speaks of calls that were accepted.

`AgentSync!FairSpec`: the engine's timer calls `runSync` every 30 seconds while
the agent is signed in; a handler goes on when its await settles, which the
time-out of 30 s ensures for calls, *except* for one in `refreshQueue`, for which
nothing is assumed: only `RefreshDone` takes it out; a refresh under way succeeds
or fails (its own call has a time-out of 20 s); the server serves what reached it; and, as
the age of a record only grows, a run that finds abandoned UPLOADING records
does not find them too young for ever (strong fairness of `SyncOnline` with all
of `Stale`, since a run looks only once). Taps and faults are not fair and are
finite, so the network is there in the end.

`WorkflowEngine!FairSpec`: EventBridge Scheduler invokes the deadline check
every 15 minutes, and its queries settle: weak fairness of the steps of a check.
State machines, events, validators and callers are not fair.

The other modules have no liveness property: a request that is never sent again
and a desk that stops are behaviours of the code.

## 4. What is proved

The theorems hold for every value of the constants that satisfies the named
assumptions of the modules: any number of capsules, forms, candidates, agents
and requests, and any bound. Three groups need more, and say so as a hypothesis:
those on handlers served one by one (`MaxInFlight <= 1`), the two on the
escalation of overdue executions, and those on Merkle trees (`Opaque`). The safety properties are consequences of
inductive invariants, which TLC checked before they were proved.

`EvidenceCapsule_proofs`, for every workload and schema.

* `TypeOKHolds`: `Spec => []TypeOK`. `TypeOK` is not inductive alone: a handler
  that writes its `seen` row back must know that row was a capsule's.
  `TypeInv` adds `LocalOK`, what a handler knows of its locals in each stage.
* `CustodyTailHolds`, `HumanApprovalHolds`, `ImageHolds`, `LockHolds`, by
  `SafeInv`. The properties are stated of the tables, while the danger lies
  in stale locals, so `SafeInv` adds `ReadOK` for each request: what was read is
  a prefix of what is there, *the status it saw is still the status unless the
  log has grown*, an approval seen is still on record, and the key is unchanged.
  The induction is organised by `Grows`: every step only extends logs, keeps
  keys, and changes a status only together with a longer log. `ReadsKept`
  turns `Grows` into the preservation of every other request's `ReadOK`, so each
  action has only its own request to account for. That is where the whole-row
  save of `submitTally` is harmless: it commits only if the log has not grown,
  and then it writes the status back to itself.
* `OneCallHolds`, by `CallInv`: the calls sent, and those that requests between
  commit and call still owe (`Owing`), are no more than the approvals logged.
* `AnchoredWasApprovedHolds`, `OneAgentHolds`, `ChainHolds`, by `SerialInv`, for
  `MaxInFlight <= 1`. What a lone handler read is what is there; `DecisionOK`
  relates a capsule's last decision to its status. All three are false with two
  requests in flight (3.1), so the hypothesis is needed.

* `ServesReadersHolds`: `Spec => View!EvidenceSpec`, step by step, for any number of
  requests in flight. `RoutedInv` is what makes the abstract guards true of a
  handler that acts on a stale read: a row about to be decided on or anchored was
  routed once, and no step takes it back to before; a stale save of figures is
  refused, or its status is the one it read (`SafeInv`). `RowsMove` names the five
  ways in which one row changes.

`TrustAnchor_proofs`, for every set of outcomes allowed by `OutcomeAssumption`
and any number of stops.

* `TrustTypeHolds`, `LeavesMatchHolds`, `ToldIsStoredHolds`, `HederaClaimHolds`,
  `AcceptedIsHeldHolds`: `TypeOK` and the four safety invariants of the run
  `trust_anchor`, as consequences of one inductive invariant, `TrustInv`. The
  invariants speak of rows and leaves; what makes them inductive is what the
  stage of a run says of them. `RunOK` says it: from "created" on the row holds
  the root over the run's items, from "submitted" on a Hedera outcome is on the
  ledger, from "anchored" on the row holds the outcome, from "notifying" on every
  item has its leaf. `LeafOK` is the converse: a stored leaf belongs to a batch
  whose run got that far, so its row does not change any more. The lemmas
  `OtherRuns`, `LeavesKept` and `HeldKept` carry what a step does not touch, and
  each action accounts for its own run only.

`EvidencePipeline_proofs`, about the three services together.

* `ComponentHolds`: `PipelineSpec => Spec`. The Evidence Service in the
  composition takes only steps of its own specification, so every theorem of
  `EvidenceCapsule_proofs` is a theorem of the composition.
* `ReportsOnceHolds`, `OnlyApprovedHolds`, `VerifiableHolds`, by `PipelineInv`.
  It joins `CallInv` and `TrustInv`, each with its own lemmas, to what passes
  between the services: `OwnerOK`, that only one call of the AI Service owns a
  job, which has not been reported while it does; `SentInv`, that whatever the
  Trust Service holds (queue, calls, runs, roots, reports) was sent after a
  committed approval or by the state machine (`ForAnchoring`); `ReportInv`, that an anchor status on a capsule, *or in a
  handler's copy of one*, was told by the Trust Service.
* `LifecycleHolds`: `PipelineSpec => CapsuleLifecycle!Spec`, for
  `MaxInFlight <= 1`. It is the refinement the run checks as `KeepsLifecycle`,
  proved step by step: a commit maps to the lifecycle's step, all else stutters.
  `LifeInv` says why `recordAiResult`, which has no guard, cannot move a decided
  capsule back: before the AI Service's only report is served the capsule is
  UPLOADED or absent.

* `OtherComponentsHold`: `PipelineSpec => Ai!Spec /\ Trust!Spec`, the same for
  the other two services, so the theorems of `TrustAnchor_proofs` hold of the
  three together as well.
* `ProofsVerify`, `OnlyMembersVerify`, `RootFixes`: for a batch of *any* size, the
  generated proof of each leaf leads to the root; no path, however long or
  short, shows another hash at that index; and different batches without
  repeated hashes have different roots. From them `MembershipHolds` and
  `RootFixesHolds`, the two properties of `BatchTrees`. They assume that a leaf hash
  is never the hash of two nodes (`Opaque`), which is needed since leaves and
  nodes are hashed alike, and holds as far as SHA-256 meets no collision.
* `AnchoredIsProvable` joins the two halves: a capsule that the Evidence Service
  shows as ANCHORED has a leaf in the Trust Service, whose proof leads from the
  capsule's hash, and from no other, to the root of its batch.

The tree needs induction over levels. The library's induction theorems cannot
be instantiated here, so each induction is the absence of a least
counterexample (`Least`: a nonempty set of naturals has a least element, from
`WFMin` and `NatLessThanWellFounded`). The first use of it is that the recursive
functions are defined at all (`LevelDef`, `AncestorDef`, `ClimbDef`). Then
`LevelStep` and `LevelsShrink` give the shape of the tree and `DepthIs` that there
is a root; `ProofClimbs` goes up from the leaf, `ClimbedNodes` down from the root:
what verification climbed through were nodes of the tree, so a path that is too
long would end below a leaf, and one too short would start above one.
`RootFixesLower` also goes down, and the repeated node at the end of an odd level is
what tells the lengths of two levels apart (`DistinctAbove`).

`WorkflowEngine_proofs`, whatever a deadline check takes and whether or not the
publish call is served.

* `WorkflowTypeHolds`, `StatusIsTrueHolds`, `AnchorNeedsValidatorHolds`,
  `DoubleStartHolds`: `TypeOK` and three of the safety invariants of the run
  `workflow_engine`, as consequences of one inductive invariant, `WorkflowInv`.
  An answer of Step Functions is kept across an await (`sync`) while events
  write the same row, so `SyncOK` says that what a poll was told is still so
  if it was an end: *a machine that ended stays ended*. `CallOK` is what the
  stage of a start says of its row and machine, `MachineOK` that no state before
  the validator's decision follows an anchor request. `BeforeOK` is the half of
  `DoubleStartNeedsOverlap` that lasts: a row that a start found ended never
  becomes RUNNING again, since every later write to it is an end. The lemmas
  `OneExecution`, `RowWritten` and `CallMoved` leave each action with its own
  execution to account for.
* `BreachesBounded`, for finitely many checks at once: an execution is escalated
  at most as often as checks can overlap, however often they run.
  `OneBreachHolds`: once, for checks that do not overlap
  (`OneBreachPerExecution`). By `BreachInv`: the escalations on record and the
  checks about to add one are no more than the checks, since a check that looks
  while one is on record adds none. Look and insert are two steps, so with two
  checks at once an execution may be escalated twice.

`AgentSync_proofs`, for any number of retries, taps and faults.

* `CopiesHold`: a form has no more capsules than uploads of it overlap on the
  server (`CopiesNeedOverlap`, stated with its proof). By `CopiesInv`: the capsules of a form and the uploads of it that
  passed the look-up are together no more than the requests there are
  (`RequestsAssumption`: finitely many at one time), since an upload passes only
  while the form has no capsule. It is stated while no capsule of the slot was
  rejected: afterwards the look-up lets every repetition in, overlap or not, and
  there is no bound. Only the server's two steps touch either
  (`PhonePassesNone`); with requests served in turn a retry adds nothing.
* `TypeCorrect`, `UploadedHolds`, `FinishedHolds`, `FlagHolds`, by `SyncInv`.
  Records, tasks and requests each hold a copy of what was once true. `RecordOK`
  is stated for a *value*, stored or read before an await, against the finished
  forms and the counts of the server, and both only grow: so an old value
  written back is as good as it was when read. `RequestsOK` ties an answer to the one
  task that waits for it. `FlagIsHeld` is inductive together with the stages of
  a run (`Holds`).

`Results_proofs`, about `ResultsSpec`.

* `UnreviewedHolds`, `SameVersionHolds`, by `ReportingInv`:
  each property is carried to the copies that requests keep (`ReviewedInv` to the
  row a publication is about to save, `VersionInv` to the number it counted). The
  second rests on publications being counted and never removed. Neither needs
  anything of the evidence tables, which may change in every way.
* `DiscrepancyHolds`, `VerifiedCoversHolds`, by `ReconInv`: `TaskOK` says what a
  task in each stage has read, so that the status it writes is the one its
  comparison called for, and that alerts are due only where there are some.
* `MatchedHolds`, by `ComparedInv` and `AgreementIsExact`. The invariant is about the
  requests: a row in MATCHED was compared with the sheets it names (whatever is
  stored by now) and no
  listed column differed, a Form B that breaks a rule has its alert, open or
  closed. The lemma is about the numbers: reconciliation compares the columns
  that the Form B lists, and yet the candidates it leaves out must have
  nothing. Its listed candidates take up all its valid votes (its own check);
  these are the valid votes of the Form As (compared), which are all votes of
  all their candidates (their own checks, and the sum of a table by rows is
  its sum by columns, `SumSwaps`); so nothing is left for the others, and votes
  are not negative (`FiguresAreCounts`). `Total` is a fold that picks its elements
  by CHOOSE: `SumTakes` shows that any element may come first, and from
  it follow splitting, adding and swapping sums, each by a least set that would
  break it (`LeastSubset`).

`Nominations_proofs`, about `ElectionsSpec`.

* `OneActiveHolds`, by `CalendarInv`: an opening knows every active election of
  its tenant that was not opened beside it or by an update (`OpeningInv`), for
  what it has not found was opened after it looked.
* `OneWinnerHolds`, `HistoryHolds`, by `NominationInv`. What a request is about
  to write may differ from what it read and from what is stored: `SaverOK` says
  how, for a declaration that has read its winner (`SiblingsOK`), for each row
  of a save (`ShapeOK`, `EntityOK`, `DoneOK`), for the candidate whose entry it
  will log (`SubjectOK`), and for every other winner on record, whom it must
  have been able to see, still has to write, or overlaps (`LosersOK`). No
  row is locked by two requests, and those that save at once are alongside each
  other (`SaversInv`). The
  proof attempt is where two earlier statements turned out false (3.1).

`FieldWork_proofs`, with the three desks of the run as one.

* `OwnAssignmentHolds`: `FetchInv` says what the answer under way belongs to and,
  if no other fetch ran beside it, that the first of its two writes still
  stands. `NewestIsOwn` is the query: the greatest position of an agent's
  assignments (`SetHasMax`, by well-founded induction).
* `VerdictsHold`, for every distance and every radius, by `FormInv` and
  `FencesAgree`: on equal inputs the phone's and the service's formulas differ
  only in the ways the property names.

Only model-checked, as it is out of the prover's reach: liveness
(`AcceptedIsTold`, `LeavesTransit`, `OverdueIsEscalated`), for which the prover
has no rule for fairness. Every safety property of the passing runs is a
theorem. What the runs of 3.2 refute is, of course, not proved.

## 5. Plan

Done: the evidence path, the agent app, the workflow engine, the results, the
Candidate Service, assignments, the geo-fence and the Merkle tree, with proofs
of every safety property the runs check. What could follow, in this order:

1. That `AgentSync`'s server keeps to the submission of `EvidenceCapsule`, as a
   refinement.
2. `Billing`: status machines of invoices, payments and subscriptions.
3. Resolution of escalations, review of anomalies.

## 6. Not modelled

Authentication, tenancy filters, validation of request bodies, search, exports,
notifications, audit logging and the user interfaces: they do not change what
the modelled services decide. The ASN.1 of timestamps and the creation of a
Hedera topic. `AiService.reviewAnomaly`. The workflow engine's resolution of
escalations. Of the Candidate Service: disputes, ballot references, parties,
positions, statistics. Cryptography beyond the injectivity of the hash.

Most of the repository's lines are pages of the seven web portals and row-at-a-
time CRUD of the administrative services (campaigns, budgets, tenants, members,
plans). They have no state machine of their own and no step that another actor
could disturb beyond a lost update, so a model would restate them line by line;
the modules cover the parts that decide something together.
