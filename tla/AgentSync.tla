------------------------------ MODULE AgentSync ------------------------------
(***************************************************************************)
(* The agent app (apps/agent-mobile): captured forms in AsyncStorage, the  *)
(* sync engine that uploads them, and the screens that change them, against*)
(* the submit handler of the Evidence Service.                             *)
(*                                                                         *)
(* The app has one thread, but every AsyncStorage and network access is    *)
(* awaited, so handlers interleave at their awaits.  A task is one         *)
(* activation of a handler.  updateCapsule reads the stored record, awaits,*)
(* and writes it back merged with the update: a step that ends in Updates  *)
(* is the read, Write is the write.  isSyncing is tested before an await   *)
(* and set after it, and enqueueAndSync does not look at it.               *)
(*                                                                         *)
(* Pages and tally figures are not told apart: captureAdditionalPage and   *)
(* the tally screen write the record back as they read it.                 *)
(***************************************************************************)
EXTENDS Naturals, FiniteSets

CONSTANTS
    Forms,       \* forms the agent may photograph (localId)
    SlotOf,      \* station + position + election year of a form
    Valid,       \* forms that pass the server's checks other than the duplicate
    Tasks,       \* activations of handlers running at the same time
    Requests,    \* uploads on their way at the same time
    MaxRetries,  \* MAX_RETRIES, 5 in the code
    MaxTaps,     \* bound on the agent's taps
    MaxFaults,   \* bound on faults: offline, lost calls, lost files, expired
                 \* tokens, kills; and on rejections
    MaxCopies    \* bound on capsules of a form once one was rejected

None == "NONE"
ASSUME NoneAssumption == None \notin Forms \cup Tasks
ASSUME ValidAssumption == Valid \subseteq Forms
ASSUME RequestsAssumption == IsFiniteSet(Requests)
ASSUME BoundsAssumption == /\ MaxRetries \in Nat \ {0}
                           /\ MaxTaps \in Nat
                           /\ MaxFaults \in Nat
                           /\ MaxCopies \in Nat

VARIABLES
    ids,        \* forms listed under KEYS.CAPSULE_IDS
    store,      \* [Forms -> Record \cup {NoRecord}], KEYS.CAPSULE(localId)
    isSyncing,  \* the sync engine's flag
    refreshing, \* isRefreshing of api.ts: a call of the app renews the tokens
    active,     \* the form on the capture screen
    task,       \* progress and local variables of every task
    request,    \* uploads sent, and what the server did with them
    received,   \* capsules the server has for each form
    rejected,   \* forms of which a supervisor rejected a capsule
    finished,   \* forms the agent tapped Done for
    fresh,      \* forms not photographed yet
    taps, faults

app == <<isSyncing, refreshing, active, task>>
phone == <<ids, store>>
server == <<request, received, rejected>>
agent == <<finished, fresh, taps>>
vars == <<phone, app, server, agent, faults>>

\* LocalCapsule; known: it has a serverId.
Record == [status   : {"CAPTURED", "QUEUED", "UPLOADING", "UPLOADED", "FAILED"},
           known    : BOOLEAN,
           attempts : 0 .. MaxRetries]
NoRecord == [status |-> "ABSENT", known |-> FALSE, attempts |-> 0]
Captured == [status |-> "CAPTURED", known |-> FALSE, attempts |-> 0]

Kinds == {"capture", "page", "done", "tally", "sync", "delete"}

Updates == {"queue", "unstick", "giveUp", "noFile", "uploading", "uploaded",
            "retry", "rewrite"}

Stages == {"idle", "saving", "writing", "net", "recover", "loop", "ready",
           "sending", "waiting", "queued", "over", "removing"}

\* Local variables of a handler: the record updateCapsule read, the update it
\* writes, syncAttempts of the snapshots taken, the snapshots left to serve.
\* late: its upload waited for new tokens, for any time.
Task == [kind   : Kinds \cup {None},
         stage  : Stages,
         form   : Forms \cup {None},
         seen   : Record \cup {NoRecord},
         update : Updates \cup {None},
         tries  : [Forms -> 0 .. MaxRetries],
         todo   : SUBSET Forms,
         late   : BOOLEAN]

NoTask == [kind |-> None, stage |-> "idle", form |-> None, seen |-> NoRecord,
           update |-> None, tries |-> [f \in Forms |-> 0], todo |-> {},
           late |-> FALSE]

\* by: the task that waits for the answer, None if none does any more.
Request == [stage : {"free", "sent", "checked", "created", "refused"},
            form  : Forms \cup {None},
            by    : Tasks \cup {None}]

NoRequest == [stage |-> "free", form |-> None, by |-> None]

Init ==
    /\ ids = {}
    /\ store = [f \in Forms |-> NoRecord]
    /\ isSyncing = FALSE
    /\ refreshing = FALSE
    /\ active = None
    /\ task = [t \in Tasks |-> NoTask]
    /\ request = [q \in Requests |-> NoRequest]
    /\ received = [f \in Forms |-> 0]
    /\ rejected = {}
    /\ finished = {}
    /\ fresh = Forms
    /\ taps = 0
    /\ faults = 0

------------------------------------------------------------------------------
(* Tasks and storage *)

Starts(t, kind, stage, f) ==
    /\ task[t].stage = "idle"
    /\ task' = [task EXCEPT ![t] = [NoTask EXCEPT !.kind = kind, !.stage = stage,
                                                  !.form = f]]

At(t, kind, stage) == task[t].kind = kind /\ task[t].stage = stage

Ends(t) == task' = [task EXCEPT ![t] = NoTask]

\* updateCapsule, up to its await: the record is read.
Reads(t, f, update) ==
    task' = [task EXCEPT ![t].stage = "writing", ![t].form = f,
                         ![t].seen = store[f], ![t].update = update]

Taps ==
    /\ taps < MaxTaps
    /\ taps' = taps + 1

Faults ==
    /\ faults < MaxFaults
    /\ faults' = faults + 1

\* The record r with the fields of the update; tries is syncAttempts of the
\* snapshot that was uploaded.
Merged(update, r, tries) ==
    CASE update = "queue"     -> [r EXCEPT !.status = "QUEUED", !.attempts = 0]
      [] update = "unstick"   -> [r EXCEPT !.status = "QUEUED"]
      [] update \in {"giveUp", "noFile"} -> [r EXCEPT !.status = "FAILED"]
      [] update = "uploading" -> [r EXCEPT !.status = "UPLOADING"]
      [] update = "uploaded"  -> [r EXCEPT !.status = "UPLOADED", !.known = TRUE]
      [] update = "retry"     ->
           [r EXCEPT !.status = IF tries + 1 >= MaxRetries THEN "FAILED"
                                                           ELSE "QUEUED",
                     !.attempts = tries + 1]
      [] OTHER -> r

StageAfter(kind, update) ==
    CASE update = "queue"     -> "net"
      [] update = "unstick"   -> "recover"
      [] update = "uploading" -> "sending"
      [] OTHER                -> IF kind = "sync" THEN "loop" ELSE "over"

\* updateCapsule, after its await: nothing to write if the record was gone.
Write(t) ==
    LET f == task[t].form
        u == task[t].update
    IN  /\ task[t].stage = "writing"
        /\ store' = IF task[t].seen = NoRecord THEN store
                    ELSE [store EXCEPT ![f] = Merged(u, task[t].seen,
                                                     task[t].tries[f])]
        /\ task' = [task EXCEPT
                      ![t].stage = StageAfter(task[t].kind, u),
                      ![t].seen = NoRecord,
                      ![t].update = None,
                      ![t].late = FALSE,
                      ![t].tries[f] = IF u = "uploading" THEN @ ELSE 0]
        /\ UNCHANGED <<ids, isSyncing, active, refreshing, server, agent, faults>>

------------------------------------------------------------------------------
(* Screens.  Two handlers of the agent's never update the list of ids at once: *)
(* a storage access is shorter than the time between two taps.                 *)

\* The shutter is disabled while a shot is processed; Done is not.
Processing == \E t \in Tasks : task[t].kind \in {"capture", "page"}

\* captureFirstPage, up to the save of the list of ids.
CaptureTap(t, f) ==
    /\ active = None
    /\ ~Processing
    /\ f \in fresh
    /\ Starts(t, "capture", "saving", f)
    /\ ids' = ids \cup {f}
    /\ fresh' = fresh \ {f}
    /\ UNCHANGED <<store, isSyncing, active, refreshing, server, finished, taps, faults>>

CaptureSave(t) ==
    /\ At(t, "capture", "saving")
    /\ store' = [store EXCEPT ![task[t].form] = Captured]
    /\ active' = task[t].form
    /\ Ends(t)
    /\ UNCHANGED <<ids, isSyncing, refreshing, server, agent, faults>>

\* captureAdditionalPage, up to the read in updateCapsule.
PageTap(t) ==
    /\ active # None
    /\ ~Processing
    /\ task[t].stage = "idle"
    /\ task' = [task EXCEPT ![t] = [NoTask EXCEPT
                  !.kind = "page", !.stage = "writing", !.form = active,
                  !.seen = store[active], !.update = "rewrite"]]
    /\ Taps
    /\ UNCHANGED <<phone, isSyncing, active, refreshing, server, finished, fresh, faults>>

\* handleDone, enqueueAndSync up to its first await.  The screen stays open,
\* and its buttons enabled, until the upload is over.
DoneTap(t) ==
    /\ active # None
    /\ task[t].stage = "idle"
    /\ task' = [task EXCEPT ![t] = [NoTask EXCEPT
                  !.kind = "done", !.stage = "writing", !.form = active,
                  !.seen = store[active], !.update = "queue"]]
    /\ finished' = finished \cup {active}
    /\ Taps
    /\ UNCHANGED <<phone, isSyncing, active, refreshing, server, fresh, faults>>

\* enqueueAndSync, online: the snapshot to upload.
DoneSnapshot(t) ==
    LET f == task[t].form
    IN  /\ At(t, "done", "net")
        /\ task' = IF store[f] = NoRecord
                     THEN [task EXCEPT ![t].stage = "over"]
                     ELSE [task EXCEPT ![t].stage = "ready",
                                       ![t].tries[f] = store[f].attempts]
        /\ UNCHANGED <<phone, isSyncing, active, refreshing, server, agent, faults>>

DoneOffline(t) ==
    /\ At(t, "done", "net")
    /\ Faults
    /\ task' = [task EXCEPT ![t].stage = "over"]
    /\ UNCHANGED <<phone, isSyncing, active, refreshing, server, agent>>

\* The screen's handler returns; handleDone leaves the capture screen.
Over(t) ==
    /\ task[t].stage = "over"
    /\ active' = IF task[t].kind = "done" /\ active = task[t].form
                 THEN None ELSE active
    /\ Ends(t)
    /\ UNCHANGED <<phone, isSyncing, refreshing, server, agent, faults>>

\* Back: the screen forgets its form, which stays CAPTURED.
Leave ==
    /\ active # None
    /\ Taps
    /\ active' = None
    /\ UNCHANGED <<phone, isSyncing, refreshing, task, server, finished, fresh, faults>>

\* handleSubmit of the tally screen.  What it sends to the server afterwards
\* changes nothing on the phone.
TallyTap(t, f) ==
    /\ f \in ids \cap finished
    /\ f # active
    /\ task[t].stage = "idle"
    /\ task' = [task EXCEPT ![t] = [NoTask EXCEPT
                  !.kind = "tally", !.stage = "writing", !.form = f,
                  !.seen = store[f], !.update = "rewrite"]]
    /\ Taps
    /\ UNCHANGED <<phone, isSyncing, active, refreshing, server, finished, fresh, faults>>

\* Delete in the queue, Discard on the review screen: first the list of ids.
DeleteTap(t, f) ==
    /\ f \in ids \ {active}
    /\ store[f].status \notin {"ABSENT", "UPLOADED"}
    /\ Starts(t, "delete", "removing", f)
    /\ ids' = ids \ {f}
    /\ Taps
    /\ UNCHANGED <<store, isSyncing, active, refreshing, server, finished, fresh, faults>>

DeleteRemove(t) ==
    /\ At(t, "delete", "removing")
    /\ store' = [store EXCEPT ![task[t].form] = NoRecord]
    /\ Ends(t)
    /\ UNCHANGED <<ids, isSyncing, active, refreshing, server, agent, faults>>

------------------------------------------------------------------------------
(* runSync *)

\* The timer, the network listener or a screen calls runSync.
SyncStart(t) ==
    /\ ~isSyncing
    /\ Starts(t, "sync", "net", None)
    /\ UNCHANGED <<phone, isSyncing, active, refreshing, server, agent, faults>>

\* Wrong on purpose: the flag is raised before the network is looked at.
SyncOfflineFlagged(t) ==
    /\ At(t, "sync", "net")
    /\ Faults
    /\ isSyncing' = TRUE
    /\ Ends(t)
    /\ UNCHANGED <<phone, active, refreshing, server, agent>>

SyncOffline(t) ==
    /\ At(t, "sync", "net")
    /\ Faults
    /\ Ends(t)
    /\ UNCHANGED <<phone, isSyncing, active, refreshing, server, agent>>

\* Wrong on purpose: only uploads that failed before are recovered.
StaleRetried == {f \in ids : /\ store[f].status = "UPLOADING"
                             /\ store[f].attempts > 0}

\* UPLOADING records that no task is at work on.  A call gives up after 30
\* seconds, unless it waits for new tokens, so they alone, and the records of
\* uploads that waited so, get older than three minutes while the app runs.
Stale == {f \in ids : /\ store[f].status = "UPLOADING"
                      /\ \A t \in Tasks : task[t].form = f /\ ~task[t].late =>
                           /\ task[t].stage \notin {"sending", "waiting"}
                           /\ task[t].update \notin {"uploaded", "retry"}}

\* runSync, online: recoverStuckCapsules judges by updatedAt.
SyncOnline(t, old) ==
    /\ At(t, "sync", "net")
    /\ old \subseteq Stale
    /\ isSyncing' = TRUE
    /\ task' = [task EXCEPT ![t].stage = "recover", ![t].todo = old]
    /\ UNCHANGED <<phone, active, refreshing, server, agent, faults>>

\* The same after the app slept in the background: every record may be old.
SyncWoken(t) ==
    /\ At(t, "sync", "net")
    /\ Faults
    /\ isSyncing' = TRUE
    /\ task' = [task EXCEPT ![t].stage = "recover",
                            ![t].todo = {f \in ids :
                                           store[f].status = "UPLOADING"}]
    /\ UNCHANGED <<phone, active, refreshing, server, agent>>

SyncUnstick(t, f) ==
    /\ At(t, "sync", "recover")
    /\ f \in task[t].todo
    /\ task' = [task EXCEPT ![t].stage = "writing", ![t].form = f,
                            ![t].seen = store[f], ![t].update = "unstick",
                            ![t].todo = task[t].todo \ {f}]
    /\ UNCHANGED <<phone, isSyncing, active, refreshing, server, agent, faults>>

\* Wrong on purpose: a form still being photographed counts as pending, as it
\* does in the queue screen's total.
PendingCaptured == {f \in ids : store[f].status \in {"CAPTURED", "QUEUED", "FAILED"}}

Pending == {f \in ids : store[f].status \in {"QUEUED", "FAILED"}}

\* getPendingCapsules: the snapshots that the loop then uploads one by one.
SyncPending(t) ==
    /\ At(t, "sync", "recover")
    /\ task[t].todo = {}
    /\ task' = [task EXCEPT ![t].stage = "loop", ![t].form = None,
                            ![t].tries = [f \in Forms |-> store[f].attempts],
                            ![t].todo = Pending]
    /\ UNCHANGED <<phone, isSyncing, active, refreshing, server, agent, faults>>

SyncNext(t, f) ==
    /\ At(t, "sync", "loop")
    /\ f \in task[t].todo
    /\ task' = [task EXCEPT ![t].stage = "ready", ![t].form = f,
                            ![t].todo = task[t].todo \ {f}]
    /\ UNCHANGED <<phone, isSyncing, active, refreshing, server, agent, faults>>

SyncEnd(t) ==
    /\ At(t, "sync", "loop")
    /\ task[t].todo = {}
    /\ isSyncing' = FALSE
    /\ Ends(t)
    /\ UNCHANGED <<phone, active, refreshing, server, agent, faults>>

------------------------------------------------------------------------------
(* uploadOneCapsule *)

\* The snapshot has used up its attempts.
GiveUp(t) ==
    LET f == task[t].form
    IN  /\ task[t].stage = "ready"
        /\ task[t].tries[f] >= MaxRetries
        /\ Reads(t, f, "giveUp")
        /\ UNCHANGED <<phone, isSyncing, active, refreshing, server, agent, faults>>

\* After the back-off: a page file no longer exists.
NoFile(t) ==
    LET f == task[t].form
    IN  /\ task[t].stage = "ready"
        /\ task[t].tries[f] < MaxRetries
        /\ Faults
        /\ Reads(t, f, "noFile")
        /\ UNCHANGED <<phone, isSyncing, active, refreshing, server, agent>>

\* After the back-off: the files exist.
MarkUploading(t) ==
    LET f == task[t].form
    IN  /\ task[t].stage = "ready"
        /\ task[t].tries[f] < MaxRetries
        /\ Reads(t, f, "uploading")
        /\ UNCHANGED <<phone, isSyncing, active, refreshing, server, agent, faults>>

Send(t, q) ==
    /\ task[t].stage = "sending"
    /\ request[q] = NoRequest
    /\ request' = [request EXCEPT ![q] = [stage |-> "sent", by |-> t,
                                          form |-> task[t].form]]
    /\ task' = [task EXCEPT ![t].stage = "waiting"]
    /\ UNCHANGED <<phone, isSyncing, active, refreshing, received, rejected, agent, faults>>

\* The server created the capsule: the phone notes its id.
Uploaded(t, q) ==
    /\ task[t].stage = "waiting"
    /\ request[q].by = t
    /\ request[q].stage = "created"
    /\ Reads(t, task[t].form, "uploaded")
    /\ request' = [request EXCEPT ![q] = NoRequest]
    /\ UNCHANGED <<phone, isSyncing, active, refreshing, received, rejected, agent, faults>>

\* The server refused; 409 is an error like every other.
Refused(t, q) ==
    /\ task[t].stage = "waiting"
    /\ request[q].by = t
    /\ request[q].stage = "refused"
    /\ Reads(t, task[t].form, "retry")
    /\ request' = [request EXCEPT ![q] = NoRequest]
    /\ UNCHANGED <<phone, isSyncing, active, refreshing, received, rejected, agent, faults>>

\* Wrong on purpose: the error of a call is not looked at.
CallFailsUnseen(t, q) ==
    /\ task[t].stage = "waiting"
    /\ request[q].by = t
    /\ Faults
    /\ Reads(t, task[t].form, "uploaded")
    /\ \/ request' = [request EXCEPT ![q].by = None]
       \/ request' = [request EXCEPT ![q] = NoRequest]
    /\ UNCHANGED <<phone, isSyncing, active, refreshing, received, rejected, agent>>

\* The call fails on the phone's side: never sent, timed out, or its answer
\* lost.  A request that left the phone is served all the same.
CallFails(t, q) ==
    /\ task[t].stage = "waiting"
    /\ request[q].by = t
    /\ Faults
    /\ Reads(t, task[t].form, "retry")
    /\ \/ request' = [request EXCEPT ![q].by = None]
       \/ request' = [request EXCEPT ![q] = NoRequest]
    /\ UNCHANGED <<phone, isSyncing, active, refreshing, received, rejected, agent>>

------------------------------------------------------------------------------
(* The response interceptor of api.ts.  An upload that is itself the first to  *)
(* meet expired tokens renews them within its call: it is waiting meanwhile.   *)

\* A call of the app, an upload or another, is answered 401.
RefreshStarts ==
    /\ ~refreshing
    /\ Faults
    /\ refreshing' = TRUE
    /\ UNCHANGED <<phone, isSyncing, active, task, server, agent>>

\* An upload is answered 401 meanwhile, before the service sees it: a promise
\* in refreshQueue.
Queued(t, q) ==
    /\ refreshing
    /\ task[t].stage = "waiting"
    /\ request[q].by = t
    /\ request[q].stage = "sent"
    /\ task' = [task EXCEPT ![t].stage = "queued"]
    /\ request' = [request EXCEPT ![q] = NoRequest]
    /\ UNCHANGED <<phone, isSyncing, refreshing, active, received, rejected, agent, faults>>

\* The tokens are new: every promise in the queue is kept, its request sent
\* again, those that an earlier refresh left there included.
RefreshDone ==
    /\ refreshing
    /\ refreshing' = FALSE
    /\ task' = [t \in Tasks |->
                  IF task[t].stage = "queued"
                    THEN [task[t] EXCEPT !.stage = "sending", !.late = TRUE]
                    ELSE task[t]]
    /\ UNCHANGED <<phone, isSyncing, active, server, agent, faults>>

\* The refresh fails: its own call does, the promises are left in the queue.
RefreshFails ==
    /\ refreshing
    /\ refreshing' = FALSE
    /\ UNCHANGED <<phone, isSyncing, active, task, server, agent, faults>>

------------------------------------------------------------------------------
(* submitCapsule of the Evidence Service *)

Taken(slot) == \E f \in Forms : SlotOf[f] = slot /\ received[f] > 0

\* A rejected capsule lets the agent send again.
FreeAgain(slot) == \E f \in rejected : SlotOf[f] = slot

\* The station, geo-fence and hash checks, and the duplicate check, which looks
\* at any one capsule of the slot.
ServerCheck(q) ==
    LET slot == SlotOf[request[q].form]
    IN  /\ request[q].stage = "sent"
        /\ \/ /\ request[q].form \in Valid
              /\ Taken(slot) => FreeAgain(slot) /\ received[request[q].form] < MaxCopies
              /\ request' = [request EXCEPT ![q].stage = "checked"]
           \/ /\ request[q].form \in Valid => Taken(slot)
              /\ request' = [request EXCEPT ![q].stage = "refused"]
        /\ UNCHANGED <<phone, app, received, rejected, agent, faults>>

\* The transaction, after the image was put into the bucket.
ServerInsert(q) ==
    /\ request[q].stage = "checked"
    /\ received' = [received EXCEPT ![request[q].form] = @ + 1]
    /\ request' = [request EXCEPT ![q].stage = "created"]
    /\ UNCHANGED <<phone, app, rejected, agent, faults>>

\* approveOrReject: a supervisor rejects a capsule of the form.
Reject(f) ==
    /\ received[f] > 0
    /\ Faults
    /\ rejected' = rejected \cup {f}
    /\ UNCHANGED <<phone, app, request, received, agent>>

\* An answer nobody waits for.
Unheard(q) ==
    /\ request[q].stage \in {"created", "refused"}
    /\ request[q].by = None
    /\ request' = [request EXCEPT ![q] = NoRequest]
    /\ UNCHANGED <<phone, app, received, rejected, agent, faults>>

------------------------------------------------------------------------------
\* The app is killed and started again: its variables are gone, what was
\* stored stays, and so do the requests that left the phone.
Kill ==
    /\ Faults
    /\ task' = [t \in Tasks |-> NoTask]
    /\ isSyncing' = FALSE
    /\ refreshing' = FALSE
    /\ active' = None
    /\ request' = [q \in Requests |-> [request[q] EXCEPT !.by = None]]
    /\ UNCHANGED <<phone, received, rejected, agent>>

\* Steps of a handler that is running.
Continue(t) ==
    \/ Write(t) \/ CaptureSave(t) \/ DoneSnapshot(t) \/ Over(t)
    \/ DeleteRemove(t)
    \/ \E old \in SUBSET Stale : SyncOnline(t, old)
    \/ SyncPending(t) \/ SyncEnd(t)
    \/ \E f \in Forms : SyncUnstick(t, f) \/ SyncNext(t, f)
    \/ GiveUp(t) \/ MarkUploading(t)
    \/ \E q \in Requests : Send(t, q) \/ Uploaded(t, q) \/ Refused(t, q)

Disturb(t) ==
    \/ DoneOffline(t) \/ SyncOffline(t) \/ SyncWoken(t) \/ NoFile(t)
    \/ \E q \in Requests : CallFails(t, q) \/ Queued(t, q)

Refresh == RefreshStarts \/ RefreshDone \/ RefreshFails

Screens(t) ==
    \/ PageTap(t) \/ DoneTap(t)
    \/ \E f \in Forms : CaptureTap(t, f) \/ TallyTap(t, f) \/ DeleteTap(t, f)

Server ==
    \/ \E q \in Requests : ServerCheck(q) \/ ServerInsert(q) \/ Unheard(q)
    \/ \E f \in Forms : Reject(f)

Next ==
    \/ \E t \in Tasks : Screens(t) \/ SyncStart(t) \/ Continue(t) \/ Disturb(t)
    \/ Refresh
    \/ Server
    \/ Leave
    \/ Kill

Spec == Init /\ [][Next]_vars

\* The engine's timer calls runSync every 30 seconds, a handler goes on when
\* what it awaits is there, the server serves what reaches it, a record that
\* stays UPLOADING gets older than three minutes, and a refresh succeeds or
\* fails.  An upload in refreshQueue has no fairness but the queue's.
FairSpec ==
    /\ Spec
    /\ WF_vars(\E t \in Tasks : SyncStart(t))
    /\ \A t \in Tasks : WF_vars(Continue(t))
    /\ SF_vars(\E t \in Tasks : SyncOnline(t, Stale))
    /\ WF_vars(RefreshDone \/ RefreshFails)
    /\ \A q \in Requests : WF_vars(ServerCheck(q) \/ ServerInsert(q) \/ Unheard(q))

------------------------------------------------------------------------------
(* Properties *)

\* Every variable holds values of its kind; attempts stay within MAX_RETRIES
\* although every task counts from a snapshot of its own.
TypeOK ==
    /\ ids \subseteq Forms
    /\ store \in [Forms -> Record \cup {NoRecord}]
    /\ isSyncing \in BOOLEAN
    /\ refreshing \in BOOLEAN
    /\ active \in Forms \cup {None}
    /\ task \in [Tasks -> Task]
    /\ request \in [Requests -> Request]
    /\ received \in [Forms -> Nat]
    /\ rejected \subseteq Forms
    /\ finished \subseteq Forms
    /\ fresh \subseteq Forms
    /\ taps \in 0 .. MaxTaps
    /\ faults \in 0 .. MaxFaults

\* A form shown as uploaded is on the server, however uploads of it, tally
\* entry and retries overwrite each other's records.
UploadedIsReceived ==
    \A f \in Forms :
        /\ store[f].status = "UPLOADED" => store[f].known
        /\ store[f].known => received[f] > 0

\* "DO NOT enqueue yet": a form whose agent never tapped Done is not sent,
\* neither by the loop nor by the recovery of stuck uploads.
SentWasFinished ==
    /\ \A q \in Requests : request[q].stage # "free" => request[q].form \in finished
    /\ \A f \in Forms : received[f] > 0 => f \in finished

\* The flag that keeps runSync out is up only while a run is there to take it
\* down, however runs overlap.  That run may itself wait for ever: see Hung.
FlagIsHeld ==
    isSyncing => \E t \in Tasks : task[t].kind = "sync" /\ task[t].stage # "net"

InTransit(f) == f \in ids /\ store[f].status \in {"QUEUED", "UPLOADING"}

\* A run of the engine waits for new tokens though no call renews them: it
\* keeps the flag, and the engine with it, until some later refresh succeeds.
\* The second case is the bound on tasks: no task is left for a run.
Hung ==
    /\ ~refreshing
    /\ \/ \E t \in Tasks : At(t, "sync", "queued")
       \/ \A t \in Tasks : task[t].stage = "queued"

\* Only a hung run keeps a form QUEUED or UPLOADING for ever: kills, lost
\* answers, expired tokens and overlapping uploads included, the engine brings
\* it to UPLOADED or FAILED once faults and taps stop (or the agent deletes it,
\* or a page that was still being added turns it back into CAPTURED).
LeavesTransit == \A f \in Forms : []<>~InTransit(f) \/ <>[]Hung

==============================================================================
