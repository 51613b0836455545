-------------------------- MODULE AgentSync_proofs --------------------------
(***************************************************************************)
(* Proofs about AgentSync, for every set of forms, tasks and requests and  *)
(* every bound on retries, taps and faults: the safety of the sync engine  *)
(* whatever handlers overlap and whenever the app is killed.               *)
(***************************************************************************)
EXTENDS AgentSync, FiniteSetTheorems, TLAPS

-----------------------------------------------------------------------------
(* The inductive invariant.  What holds of a record or of a task's local     *)
(* variables is stated for a value, with the finished forms and the counts   *)
(* of the server as parameters: both only grow, so what was read before an   *)
(* await still holds after it.                                               *)

\* A record of form f, stored or read before an await.
RecordOK(f, r, done, count) ==
    /\ r.status \notin {"ABSENT", "CAPTURED"} => f \in done
    /\ r.status = "UPLOADED" => r.known
    /\ r.known => count[f] > 0

\* The upload of the snapshot goes on: an attempt is left.
HasAttempt(w) ==
    \/ w.stage \in {"sending", "waiting", "queued"}
    \/ w.update \in {"uploading", "uploaded", "retry"}

\* The handler is one that sends, or that follows an upload.
WorksOnUpload(w) ==
    \/ w.kind = "done"
    \/ w.stage \in {"ready", "sending", "waiting", "queued"}
    \/ w.update \in Updates \ {"rewrite"}

\* The local variables of a task.
RowOK(w, done, count) ==
    /\ w.stage \in {"saving", "writing", "ready", "sending", "waiting", "queued",
                    "removing"} => w.form \in Forms
    /\ w.kind = "done" => w.form \in Forms
    /\ w.stage = "writing" <=> w.update # None
    /\ HasAttempt(w) => w.tries[w.form] < MaxRetries
    /\ w.kind = "sync" => w.stage \notin {"idle", "over"} /\ w.update # "queue"
    /\ WorksOnUpload(w) => w.form \in done
    /\ w.todo \subseteq done
    /\ w.seen # NoRecord => w.stage = "writing"
    /\ RecordOK(w.form, w.seen, done, count)
    /\ w.update = "uploaded" => count[w.form] > 0

RowsOK == \A t \in Tasks : RowOK(task[t], finished, received)

StoreOK == \A f \in Forms : RecordOK(f, store[f], finished, received)

\* A request is for a finished form, is the only one its task waits for, and
\* counts on the server once it was answered well.
RequestsOK ==
    /\ \A q \in Requests : request[q].stage # "free" =>
         request[q].form \in finished
    /\ \A q \in Requests : request[q].stage = "free" => request[q].by = None
    /\ \A q \in Requests, t \in Tasks : request[q].by = t =>
         task[t].stage = "waiting" /\ task[t].form = request[q].form
    /\ \A p, q \in Requests : request[p].by = request[q].by /\ request[p].by # None
         => p = q
    /\ \A q \in Requests : request[q].stage = "created" =>
         received[request[q].form] > 0

ReceivedOK == \A f \in Forms : received[f] > 0 => f \in finished

SyncInv == TypeOK /\ RowsOK /\ StoreOK /\ RequestsOK /\ ReceivedOK /\ FlagIsHeld

\* A run of the engine that holds the flag.
Holds(w) == w.kind = "sync" /\ w.stage # "net"

-----------------------------------------------------------------------------
(* Lemmas *)

\* The server forgets no capsule and the agent no tap on Done.
Grows(done, count, done2, count2) ==
    /\ done \subseteq done2
    /\ \A f \in Forms : count[f] > 0 => count2[f] > 0

LEMMA RecordGrows ==
    ASSUME NEW f, NEW r, NEW done \in SUBSET Forms, NEW count, NEW done2, NEW count2,
           Grows(done, count, done2, count2),
           f \in Forms \/ ~ r.known,
           RecordOK(f, r, done, count)
    PROVE  RecordOK(f, r, done2, count2)
BY DEF RecordOK, Grows

LEMMA RowGrows ==
    ASSUME NEW w \in Task, NEW done \in SUBSET Forms, NEW count, NEW done2, NEW count2,
           Grows(done, count, done2, count2),
           RowOK(w, done, count)
    PROVE  RowOK(w, done2, count2)
<1>1. RecordOK(w.form, w.seen, done2, count2)
  BY RecordGrows DEF RowOK, NoRecord
<1>2. w.update = "uploaded" => count2[w.form] > 0
  BY NoneAssumption DEF RowOK, Grows, None
<1> QED
  BY <1>1, <1>2 DEF RowOK, Grows

\* What a step of task t leaves to show: its own row, the records it wrote,
\* and who holds the flag.
LEMMA TaskStep ==
    ASSUME SyncInv, NEW t \in Tasks,
           task' \in [Tasks -> Task],
           \A u \in Tasks \ {t} : task'[u] = task[u],
           RowOK(task'[t], finished', received'),
           task[t].stage # "waiting",
           store' \in [Forms -> Record \cup {NoRecord}],
           \A f \in Forms : store'[f] = store[f]
                              \/ RecordOK(f, store'[f], finished', received'),
           Holds(task'[t]) \/ ~isSyncing' \/ (isSyncing /\ ~Holds(task[t])),
           ids' \subseteq Forms, isSyncing' \in BOOLEAN, active' \in Forms \cup {None},
           request' = request, received' = received, rejected' = rejected,
           refreshing' \in BOOLEAN,
           finished \subseteq finished', finished' \subseteq Forms,
           fresh' \subseteq Forms, taps' \in 0 .. MaxTaps, faults' \in 0 .. MaxFaults
    PROVE  SyncInv'
<1> USE DEF SyncInv
<1>0. Grows(finished, received, finished', received')
  BY DEF Grows
<1>1. TypeOK'
  BY DEF TypeOK
<1>2. ASSUME NEW u \in Tasks
      PROVE  RowOK(task[u], finished, received)' /\ task'[u] \in Task
  <2>1. CASE u = t
    BY <2>1
  <2>2. CASE u # t
    <3>1. task[u] \in Task /\ finished \in SUBSET Forms /\ task'[u] = task[u]
      BY <2>2 DEF TypeOK
    <3>2. RowOK(task[u], finished, received)
      BY DEF RowsOK
    <3> QED
      BY <1>0, <3>1, <3>2, RowGrows
  <2> QED
    BY <2>1, <2>2
<1>3. RowsOK'
  BY <1>2 DEF RowsOK
<1>4. StoreOK'
  <2> SUFFICES ASSUME NEW f \in Forms
               PROVE  RecordOK(f, store'[f], finished', received')
    BY DEF StoreOK
  <2>1. RecordOK(f, store[f], finished, received) /\ finished \in SUBSET Forms
    BY DEF StoreOK, TypeOK
  <2> QED
    BY <1>0, <2>1, RecordGrows
<1>5. RequestsOK' /\ ReceivedOK'
  BY DEF RequestsOK, ReceivedOK, TypeOK
<1>6. FlagIsHeld'
  BY DEF FlagIsHeld, Holds
<1> QED
  BY <1>1, <1>3, <1>4, <1>5, <1>6
-----------------------------------------------------------------------------
(* The initial state *)

LEMMA IdleRow ==
    ASSUME NEW done, NEW count
    PROVE  NoTask \in Task /\ RowOK(NoTask, done, count) /\ ~Holds(NoTask)
<1>1. 0 \in 0 .. MaxRetries
  BY BoundsAssumption
<1>2. NoTask \in Task
  BY <1>1 DEF NoTask, Task, Stages
<1> QED
  BY <1>2 DEF NoTask, RowOK, RecordOK, HasAttempt, WorksOnUpload, Updates, None,
     NoRecord, Holds

LEMMA InitSync == Init => SyncInv
<1> SUFFICES ASSUME Init
             PROVE  SyncInv
  OBVIOUS
<1>1. TypeOK
  <2>1. NoRequest \in Request
    BY DEF NoRequest, Request
  <2>2. NoTask \in Task
    BY IdleRow
  <2>3. task \in [Tasks -> Task] /\ request \in [Requests -> Request]
    BY <2>1, <2>2 DEF Init
  <2>4. store \in [Forms -> Record \cup {NoRecord}] /\ received \in [Forms -> Nat]
    BY DEF Init
  <2>5. ids \subseteq Forms /\ finished \subseteq Forms /\ fresh \subseteq Forms
    BY DEF Init
  <2>6. taps \in 0 .. MaxTaps /\ faults \in 0 .. MaxFaults
    BY BoundsAssumption DEF Init
  <2>7. isSyncing \in BOOLEAN /\ refreshing \in BOOLEAN /\ rejected \subseteq Forms
        /\ active \in Forms \cup {None}
    BY DEF Init
  <2> QED
    BY <2>3, <2>4, <2>5, <2>6, <2>7 DEF TypeOK
<1>2. RowsOK
  BY IdleRow DEF Init, RowsOK
<1>3. StoreOK
  BY DEF Init, StoreOK, RecordOK, NoRecord
<1>4. RequestsOK
  BY NoneAssumption DEF Init, RequestsOK, NoRequest
<1>5. ReceivedOK /\ FlagIsHeld
  BY DEF Init, ReceivedOK, FlagIsHeld
<1> QED
  BY <1>1, <1>2, <1>3, <1>4, <1>5 DEF SyncInv

-----------------------------------------------------------------------------
(* Steps of the screens *)

\* A handler that starts with a read: page, done, tally.
LEMMA TapStep ==
    ASSUME SyncInv, NEW t \in Tasks, NEW f \in Forms, NEW kind \in {"page", "done", "tally"},
           NEW update \in {"queue", "rewrite"},
           update = "queue" => kind = "done",
           kind = "done" => f \in finished',
           task[t].stage = "idle",
           task' = [task EXCEPT ![t] = [NoTask EXCEPT
                      !.kind = kind, !.stage = "writing", !.form = f,
                      !.seen = store[f], !.update = update]],
           Taps, UNCHANGED <<phone, isSyncing, active, refreshing, server, fresh, faults>>,
           finished \subseteq finished', finished' \subseteq Forms
    PROVE  SyncInv'
<1> DEFINE w == [NoTask EXCEPT !.kind = kind, !.stage = "writing", !.form = f,
                               !.seen = store[f], !.update = update]
<1>1. w \in Task
  <2>1. store[f] \in Record \cup {NoRecord} /\ NoTask \in Task
    BY IdleRow DEF SyncInv, TypeOK
  <2> QED
    BY <2>1 DEF Task, Kinds, Stages, Updates
<1>2. task' \in [Tasks -> Task] /\ task'[t] = w /\ \A u \in Tasks \ {t} : task'[u] = task[u]
  BY <1>1 DEF SyncInv, TypeOK
<1>3. RowOK(w, finished', received')
  <2>1. RecordOK(f, store[f], finished, received) /\ finished \in SUBSET Forms
    BY DEF SyncInv, StoreOK, TypeOK
  <2>2. Grows(finished, received, finished', received')
    BY DEF Grows, server
  <2>3. RecordOK(f, store[f], finished', received')
    BY <2>1, <2>2, RecordGrows
  <2> QED
    BY <2>3 DEF RowOK, NoTask, HasAttempt, WorksOnUpload, Updates, None
<1>4. ~Holds(task[t])
  BY DEF SyncInv, RowsOK, RowOK, Holds
<1> HIDE DEF w
<1>5. taps' \in 0 .. MaxTaps
  BY BoundsAssumption DEF SyncInv, TypeOK, Taps
<1> QED
  BY <1>2, <1>3, <1>4, <1>5, TaskStep DEF SyncInv, TypeOK, phone, server

LEMMA ScreensStep ==
    ASSUME SyncInv, NEW t \in Tasks, Screens(t)
    PROVE  SyncInv'
<1>1. CASE PageTap(t)
  <2>1. active \in Forms
    BY <1>1 DEF PageTap, SyncInv, TypeOK
  <2> QED
    BY <1>1, <2>1, TapStep DEF PageTap, SyncInv, TypeOK
<1>2. CASE DoneTap(t)
  <2>1. active \in Forms
    BY <1>2 DEF DoneTap, SyncInv, TypeOK
  <2> QED
    BY <1>2, <2>1, TapStep DEF DoneTap, SyncInv, TypeOK
<1>3. ASSUME NEW f \in Forms, TallyTap(t, f)
      PROVE  SyncInv'
  BY <1>3, TapStep DEF TallyTap, SyncInv, TypeOK
<1>4. ASSUME NEW f \in Forms, NEW kind \in {"capture", "delete"}, NEW stage \in {"saving", "removing"},
             Starts(t, kind, stage, f), ids' \subseteq Forms, fresh' \subseteq Forms,
             taps' \in 0 .. MaxTaps,
             UNCHANGED <<store, isSyncing, active, refreshing, server, finished, faults>>
      PROVE  SyncInv'
  <2> DEFINE w == [NoTask EXCEPT !.kind = kind, !.stage = stage, !.form = f]
  <2>1. w \in Task
    BY IdleRow DEF Task, Kinds, Stages
  <2>2. task' \in [Tasks -> Task] /\ task'[t] = w /\ \A u \in Tasks \ {t} : task'[u] = task[u]
    BY <1>4, <2>1 DEF SyncInv, TypeOK, Starts
  <2>3. RowOK(w, finished', received')
    BY DEF RowOK, RecordOK, NoRecord, NoTask, HasAttempt, WorksOnUpload, Updates, None
  <2>4. ~Holds(task[t]) /\ task[t].stage # "waiting"
    BY <1>4 DEF SyncInv, RowsOK, RowOK, Holds, Starts
  <2> HIDE DEF w
  <2> QED
    BY <1>4, <2>2, <2>3, <2>4, TaskStep DEF SyncInv, TypeOK, server
<1>5. ASSUME NEW f \in Forms, CaptureTap(t, f)
      PROVE  SyncInv'
  BY <1>4, <1>5 DEF CaptureTap, SyncInv, TypeOK
<1>6. ASSUME NEW f \in Forms, DeleteTap(t, f)
      PROVE  SyncInv'
  BY <1>4, <1>6, BoundsAssumption DEF DeleteTap, SyncInv, TypeOK, Taps
<1> QED
  BY <1>1, <1>2, <1>3, <1>5, <1>6 DEF Screens
-----------------------------------------------------------------------------
(* Steps of the handlers, but for those that touch a request *)

\* The row of a task, and what it makes known.
LEMMA RowFacts ==
    ASSUME SyncInv, NEW t \in Tasks
    PROVE  /\ task[t] \in Task
           /\ RowOK(task[t], finished, received)
           /\ finished \in SUBSET Forms /\ received \in [Forms -> Nat]
BY DEF SyncInv, RowsOK, TypeOK

\* updateCapsule reads the record of f, whatever update it is to write.
LEMMA ReadRow ==
    ASSUME SyncInv, NEW t \in Tasks, NEW f \in Forms, NEW update \in Updates \ {"queue"},
           task[t].kind # "done" \/ f = task[t].form,
           update # "rewrite" => f \in finished,
           update \in {"uploading", "uploaded", "retry"} => task[t].tries[f] < MaxRetries,
           update = "uploaded" => received[f] > 0,
           NEW w \in Task,
           w.kind = task[t].kind, w.stage = "writing", w.form = f, w.seen = store[f],
           w.update = update, w.tries = task[t].tries, w.todo \subseteq task[t].todo
    PROVE  RowOK(w, finished, received)
<1>1. RowOK(task[t], finished, received) /\ task[t] \in Task
  BY RowFacts
<1>2. RecordOK(f, store[f], finished, received)
  BY DEF SyncInv, StoreOK
<1> QED
  BY <1>1, <1>2 DEF RowOK, HasAttempt, WorksOnUpload, Updates, None

\* The row after a read, for steps that change no other field.
LEMMA ReadsRow ==
    ASSUME SyncInv, NEW t \in Tasks, NEW f \in Forms, NEW update \in Updates,
           Reads(t, f, update)
    PROVE  /\ task' \in [Tasks -> Task]
           /\ \A u \in Tasks \ {t} : task'[u] = task[u]
           /\ task'[t] \in Task
           /\ task'[t].kind = task[t].kind
           /\ task'[t].stage = "writing"
           /\ task'[t].form = f
           /\ task'[t].seen = store[f]
           /\ task'[t].update = update
           /\ task'[t].tries = task[t].tries
           /\ task'[t].todo = task[t].todo
<1>1. task[t] \in Task /\ store[f] \in Record \cup {NoRecord} /\ task \in [Tasks -> Task]
  BY RowFacts DEF SyncInv, TypeOK
<1> DEFINE w == [task[t] EXCEPT !.stage = "writing", !.form = f,
                                !.seen = store[f], !.update = update]
<1>2. w \in Task
  BY <1>1 DEF Task, Stages
<1>3. task' = [task EXCEPT ![t] = w]
  BY <1>1 DEF Reads, Task
<1>4. /\ w.kind = task[t].kind /\ w.stage = "writing" /\ w.form = f
      /\ w.seen = store[f] /\ w.update = update
      /\ w.tries = task[t].tries /\ w.todo = task[t].todo
  BY <1>1 DEF Task
<1> HIDE DEF w
<1> QED
  BY <1>1, <1>2, <1>3, <1>4

LEMMA GiveUpStep ==
    ASSUME SyncInv, NEW t \in Tasks, GiveUp(t) \/ NoFile(t) \/ MarkUploading(t)
    PROVE  SyncInv'
<1> DEFINE f == task[t].form
<1>1. PICK update \in {"giveUp", "noFile", "uploading"} :
        /\ task[t].stage = "ready" /\ Reads(t, f, update)
        /\ update = "uploading" => task[t].tries[f] < MaxRetries
  BY DEF GiveUp, NoFile, MarkUploading
<1>2. f \in Forms /\ f \in finished
  BY <1>1, RowFacts DEF RowOK, WorksOnUpload
<1>3. RowOK(task'[t], finished, received)
  <2>1. update \in Updates
    BY DEF Updates
  <2> HIDE DEF f
  <2> QED
    BY <1>1, <1>2, <2>1, ReadsRow, ReadRow DEF f
<1>4. /\ task' \in [Tasks -> Task] /\ \A u \in Tasks \ {t} : task'[u] = task[u]
      /\ task'[t].kind = task[t].kind /\ task'[t].stage = "writing"
  <2>1. update \in Updates
    BY DEF Updates
  <2> HIDE DEF f
  <2> QED
    BY <1>1, <1>2, <2>1, ReadsRow
<1>5. Holds(task'[t]) \/ ~Holds(task[t])
  BY <1>4 DEF Holds
<1>6. /\ UNCHANGED <<phone, isSyncing, active, refreshing, server, agent>>
      /\ faults' \in 0 .. MaxFaults
  BY BoundsAssumption DEF GiveUp, NoFile, MarkUploading, Faults, SyncInv, TypeOK
<1> QED
  BY <1>1, <1>3, <1>4, <1>5, <1>6, TaskStep DEF SyncInv, TypeOK, FlagIsHeld, Holds, phone, server, agent

LEMMA UnstickStep ==
    ASSUME SyncInv, NEW t \in Tasks, NEW f \in Forms, SyncUnstick(t, f)
    PROVE  SyncInv'
<1> DEFINE w == [task[t] EXCEPT !.stage = "writing", !.form = f, !.seen = store[f],
                                !.update = "unstick", !.todo = task[t].todo \ {f}]
<1>1. task[t] \in Task /\ store[f] \in Record \cup {NoRecord} /\ task \in [Tasks -> Task]
  BY RowFacts DEF SyncInv, TypeOK
<1>2. w \in Task
  BY <1>1 DEF Task, Stages, Updates
<1>3. task' = [task EXCEPT ![t] = w]
  BY <1>1 DEF SyncUnstick, Task
<1>4. /\ w.kind = task[t].kind /\ w.stage = "writing" /\ w.form = f
      /\ w.seen = store[f] /\ w.update = "unstick"
      /\ w.tries = task[t].tries /\ w.todo \subseteq task[t].todo
  BY <1>1 DEF Task
<1>5. task[t].kind = "sync" /\ f \in finished
  BY RowFacts DEF SyncUnstick, At, RowOK
<1>6. "unstick" \in Updates \ {"queue"}
  BY DEF Updates
<1> HIDE DEF w
<1>7. RowOK(w, finished, received)
  BY <1>2, <1>4, <1>5, <1>6, ReadRow
<1>8. /\ task' \in [Tasks -> Task] /\ \A u \in Tasks \ {t} : task'[u] = task[u]
      /\ task'[t] = w /\ Holds(w)
  BY <1>1, <1>2, <1>3, <1>4, <1>5 DEF Holds
<1> QED
  BY <1>7, <1>8, TaskStep DEF SyncUnstick, At, SyncInv, TypeOK, phone, server, agent
\* Steps that only move the handler on: no record, no request, no list changes.
LEMMA MoveStep ==
    ASSUME SyncInv, NEW t \in Tasks, NEW w \in Task,
           task' = [task EXCEPT ![t] = w],
           RowOK(w, finished, received), task[t].stage # "waiting",
           Holds(w) \/ ~isSyncing' \/ (isSyncing /\ ~Holds(task[t])),
           isSyncing' \in BOOLEAN, active' \in Forms \cup {None}, faults' \in 0 .. MaxFaults,
           UNCHANGED <<phone, refreshing, server, agent>>
    PROVE  SyncInv'
<1>1. task' \in [Tasks -> Task] /\ task'[t] = w /\ \A u \in Tasks \ {t} : task'[u] = task[u]
  BY DEF SyncInv, TypeOK
<1> QED
  BY <1>1, TaskStep DEF SyncInv, TypeOK, phone, server, agent

LEMMA EndStep ==
    ASSUME SyncInv, NEW t \in Tasks, Ends(t), task[t].stage # "waiting",
           ~isSyncing' \/ (isSyncing /\ ~Holds(task[t])),
           isSyncing' \in BOOLEAN, active' \in Forms \cup {None}, faults' \in 0 .. MaxFaults,
           UNCHANGED <<phone, refreshing, server, agent>>
    PROVE  SyncInv'
<1>1. NoTask \in Task /\ RowOK(NoTask, finished, received)
  BY IdleRow
<1> QED
  BY <1>1, MoveStep DEF Ends

LEMMA DoneSteps ==
    ASSUME SyncInv, NEW t \in Tasks, DoneSnapshot(t) \/ DoneOffline(t) \/ Over(t)
    PROVE  SyncInv'
<1> DEFINE f == task[t].form
<1>1. task[t] \in Task /\ RowOK(task[t], finished, received) /\ task \in [Tasks -> Task]
  BY RowFacts DEF SyncInv, TypeOK
<1>2. isSyncing \in BOOLEAN /\ active \in Forms \cup {None} /\ faults \in 0 .. MaxFaults
  BY DEF SyncInv, TypeOK
<1>3. ASSUME At(t, "done", "net"), task' = [task EXCEPT ![t].stage = "over"],
             UNCHANGED <<phone, isSyncing, active, refreshing, server, agent>>,
             faults' \in 0 .. MaxFaults
      PROVE  SyncInv'
  <2> DEFINE w == [task[t] EXCEPT !.stage = "over"]
  <2>1. w \in Task /\ task' = [task EXCEPT ![t] = w] /\ RowOK(w, finished, received)
    BY <1>1, <1>3 DEF Task, Stages, RowOK, At, HasAttempt, WorksOnUpload
  <2>2. task[t].stage # "waiting" /\ ~Holds(task[t])
    BY <1>3 DEF At, Holds
  <2> HIDE DEF w
  <2> QED
    BY <1>2, <1>3, <2>1, <2>2, MoveStep DEF SyncInv, FlagIsHeld
<1>4. CASE DoneOffline(t)
  BY <1>3, <1>4, BoundsAssumption DEF DoneOffline, Faults, SyncInv, TypeOK
<1>5. CASE DoneSnapshot(t)
  <2>1. CASE store[f] = NoRecord
    BY <1>2, <1>3, <1>5, <2>1 DEF DoneSnapshot
  <2>2. CASE store[f] # NoRecord
    <3> DEFINE w == [task[t] EXCEPT !.stage = "ready", !.tries[f] = store[f].attempts]
    <3>1. f \in Forms /\ store[f] \in Record
      BY <1>1, <1>5, <2>2 DEF DoneSnapshot, At, RowOK, SyncInv, TypeOK
    <3>2. w \in Task /\ task' = [task EXCEPT ![t] = w]
      BY <1>1, <1>5, <2>2, <3>1 DEF DoneSnapshot, Task, Stages, Record
    <3>3. RowOK(w, finished, received)
      <4>1. /\ w.kind = "done" /\ w.stage = "ready" /\ w.form = f /\ w.todo = task[t].todo
            /\ w.seen = task[t].seen /\ w.update = task[t].update
        BY <1>1, <1>5, <3>1 DEF Task, DoneSnapshot, At
      <4> HIDE DEF w
      <4> QED
        BY <1>1, <1>5, <3>1, <4>1 DEF DoneSnapshot, At, RowOK, HasAttempt, WorksOnUpload, None
    <3>4. task[t].stage # "waiting" /\ ~Holds(task[t])
      BY <1>5 DEF DoneSnapshot, At, Holds
    <3> HIDE DEF w
    <3> QED
      BY <1>2, <1>5, <3>2, <3>3, <3>4, MoveStep DEF DoneSnapshot
  <2> QED
    BY <2>1, <2>2
<1>6. CASE Over(t)
  <2>1. ~Holds(task[t])
    BY <1>1, <1>6 DEF Over, RowOK, Holds
  <2> QED
    BY <1>2, <1>6, <2>1, EndStep DEF Over
<1> QED
  BY <1>4, <1>5, <1>6

\* A run of the engine between two of its awaited updates.
LEMMA QuietRow ==
    ASSUME NEW w, NEW done, NEW count,
           w.kind = "sync", w.seen = NoRecord, w.update = None, w.todo \subseteq done,
           w.stage = "loop" \/ (w.stage = "ready" /\ w.form \in Forms /\ w.form \in done)
    PROVE  RowOK(w, done, count) /\ Holds(w)
<1>1. RecordOK(w.form, NoRecord, done, count)
  BY DEF RecordOK, NoRecord
<1>2. None \notin Updates
  BY DEF None, Updates
<1>3. ~HasAttempt(w)
  BY <1>2 DEF HasAttempt, None
<1>4. WorksOnUpload(w) => w.stage = "ready"
  BY <1>2 DEF WorksOnUpload
<1>5. w.update # "queue" /\ w.update # "uploaded"
  BY <1>2 DEF Updates
<1> QED
  BY <1>1, <1>3, <1>4, <1>5 DEF RowOK, Holds

LEMMA SyncSteps ==
    ASSUME SyncInv, NEW t \in Tasks,
           \/ SyncStart(t) \/ SyncOffline(t) \/ SyncWoken(t) \/ SyncPending(t) \/ SyncEnd(t)
           \/ \E old \in SUBSET Stale : SyncOnline(t, old)
           \/ \E f \in Forms : SyncNext(t, f)
    PROVE  SyncInv'
<1>1. task[t] \in Task /\ RowOK(task[t], finished, received) /\ task \in [Tasks -> Task]
  BY RowFacts DEF SyncInv, TypeOK
<1>2. isSyncing \in BOOLEAN /\ active \in Forms \cup {None} /\ faults \in 0 .. MaxFaults
  BY DEF SyncInv, TypeOK
<1>3. \A f \in ids : f \in Forms /\ (store[f].status \notin {"ABSENT", "CAPTURED"} => f \in finished)
  BY DEF SyncInv, TypeOK, StoreOK, RecordOK
<1>4. CASE SyncStart(t)
  <2> DEFINE w == [NoTask EXCEPT !.kind = "sync", !.stage = "net", !.form = None]
  <2>1. w \in Task
    BY IdleRow DEF Task, Kinds, Stages
  <2>2. RowOK(w, finished, received)
    BY DEF RowOK, RecordOK, NoRecord, NoTask, HasAttempt, WorksOnUpload, Updates, None
  <2> HIDE DEF w
  <2>3. task' = [task EXCEPT ![t] = w] /\ task[t].stage = "idle"
    BY <1>4 DEF SyncStart, Starts, w
  <2> QED
    BY <1>2, <1>4, <2>1, <2>2, <2>3, MoveStep DEF SyncStart
<1>5. CASE SyncOffline(t)
  <2>1. faults' \in 0 .. MaxFaults /\ ~Holds(task[t]) /\ task[t].stage # "waiting"
    BY <1>2, <1>5, BoundsAssumption DEF SyncOffline, Faults, At, Holds
  <2> QED
    BY <1>2, <1>5, <2>1, EndStep DEF SyncOffline
<1>6. ASSUME NEW old \in SUBSET finished, At(t, "sync", "net"), isSyncing',
             task' = [task EXCEPT ![t].stage = "recover", ![t].todo = old],
             UNCHANGED <<phone, active, refreshing, server, agent>>, faults' \in 0 .. MaxFaults,
             isSyncing' \in BOOLEAN
      PROVE  SyncInv'
  <2> DEFINE w == [task[t] EXCEPT !.stage = "recover", !.todo = old]
  <2>1. w \in Task /\ task' = [task EXCEPT ![t] = w]
    BY <1>1, <1>6, RowFacts DEF Task, Stages
  <2>2. RowOK(w, finished, received) /\ Holds(w)
    BY <1>1, <1>6 DEF Task, At, RowOK, HasAttempt, WorksOnUpload, Holds
  <2>3. task[t].stage # "waiting"
    BY <1>6 DEF At
  <2> HIDE DEF w
  <2> QED
    BY <1>2, <1>6, <2>1, <2>2, <2>3, MoveStep
<1>7. CASE SyncWoken(t)
  <2>1. {f \in ids : store[f].status = "UPLOADING"} \in SUBSET finished
    BY <1>3
  <2>2. faults' \in 0 .. MaxFaults
    BY <1>2, <1>7, BoundsAssumption DEF SyncWoken, Faults
  <2> QED
    BY <1>6, <1>7, <2>1, <2>2 DEF SyncWoken
<1>8. ASSUME NEW old \in SUBSET Stale, SyncOnline(t, old)
      PROVE  SyncInv'
  <2>1. old \in SUBSET finished
    BY <1>3 DEF Stale
  <2> QED
    BY <1>2, <1>6, <1>8, <2>1 DEF SyncOnline
<1>9. CASE SyncPending(t)
  <2> DEFINE tries == [f \in Forms |-> store[f].attempts]
             w == [task[t] EXCEPT !.stage = "loop", !.form = None,
                                  !.tries = tries, !.todo = Pending]
  <2>1. Pending \in SUBSET Forms /\ Pending \subseteq finished
    BY <1>3 DEF Pending
  <2>2. tries \in [Forms -> 0 .. MaxRetries]
    <3>1. \A f \in Forms : store[f] \in Record \cup {NoRecord}
      BY DEF SyncInv, TypeOK
    <3> QED
      BY <3>1, BoundsAssumption DEF Record, NoRecord
  <2>3. task' = [task EXCEPT ![t] = w]
    BY <1>1, <1>9 DEF SyncPending, Task
  <2> HIDE DEF tries
  <2>4. w \in Task
    BY <1>1, <2>1, <2>2 DEF Task, Stages
  <2>5. RowOK(w, finished, received) /\ Holds(w)
    <3>1. /\ w.kind = "sync" /\ w.stage = "loop" /\ w.todo = Pending
          /\ w.seen = task[t].seen /\ w.update = task[t].update
      BY <1>1, <1>9 DEF Task, SyncPending, At
    <3> HIDE DEF w
    <3>2. task[t].seen = NoRecord /\ task[t].update = None
      BY <1>1, <1>9 DEF RowOK, SyncPending, At
    <3> QED
      BY <2>1, <3>1, <3>2, QuietRow
  <2> HIDE DEF w
  <2> QED
    BY <1>2, <1>9, <2>3, <2>4, <2>5, MoveStep DEF SyncPending, At
<1>10. ASSUME NEW f \in Forms, SyncNext(t, f)
       PROVE  SyncInv'
  <2> DEFINE w == [task[t] EXCEPT !.stage = "ready", !.form = f, !.todo = task[t].todo \ {f}]
  <2>1. w \in Task /\ task' = [task EXCEPT ![t] = w]
    BY <1>1, <1>10 DEF SyncNext, Task, Stages
  <2>2. RowOK(w, finished, received) /\ Holds(w)
    <3>1. /\ w.kind = "sync" /\ w.stage = "ready" /\ w.form = f /\ w.todo \subseteq finished
          /\ w.seen = task[t].seen /\ w.update = task[t].update /\ f \in finished
      BY <1>1, <1>10 DEF Task, SyncNext, At, RowOK
    <3> HIDE DEF w
    <3>2. task[t].seen = NoRecord /\ task[t].update = None
      BY <1>1, <1>10 DEF RowOK, SyncNext, At
    <3> QED
      BY <3>1, <3>2, QuietRow
  <2> HIDE DEF w
  <2> QED
    BY <1>2, <1>10, <2>1, <2>2, MoveStep DEF SyncNext, At
<1>11. CASE SyncEnd(t)
  BY <1>2, <1>11, EndStep DEF SyncEnd, At
<1> QED
  BY <1>4, <1>5, <1>7, <1>8, <1>9, <1>10, <1>11
-----------------------------------------------------------------------------
(* Steps that write a record *)

LEMMA WriteStep ==
    ASSUME SyncInv, NEW t \in Tasks, Write(t)
    PROVE  SyncInv'
<1> DEFINE f == task[t].form
           u == task[t].update
           r == Merged(u, task[t].seen, task[t].tries[f])
           w == [task[t] EXCEPT !.stage = StageAfter(task[t].kind, u), !.seen = NoRecord,
                                !.update = None, !.late = FALSE,
                                !.tries[f] = IF u = "uploading" THEN @ ELSE 0]
<1>1. task[t] \in Task /\ RowOK(task[t], finished, received) /\ task \in [Tasks -> Task]
  BY RowFacts DEF SyncInv, TypeOK
<1>2. u # "rewrite" => f \in finished
  BY <1>1 DEF Write, RowOK, WorksOnUpload, Task
<1>3. f \in Forms /\ u \in Updates /\ task[t].stage = "writing"
  BY <1>1 DEF Write, RowOK, Task
<1>4. ASSUME task[t].seen # NoRecord
      PROVE  r \in Record /\ RecordOK(f, r, finished, received)
  <2>1. task[t].seen \in Record /\ RecordOK(f, task[t].seen, finished, received)
    BY <1>1, <1>4 DEF Task, RowOK
  <2>2. u = "retry" => task[t].tries[f] + 1 \in 0 .. MaxRetries
    BY <1>1, <1>3, BoundsAssumption DEF RowOK, HasAttempt, Task
  <2>3. 0 \in 0 .. MaxRetries
    BY BoundsAssumption
  <2>4. r \in Record
    BY <2>1, <2>2, <2>3 DEF Merged, Record
  <2>5. u = "uploaded" => received[f] > 0
    BY <1>1 DEF RowOK
  <2>6. RecordOK(f, r, finished, received)
    BY <1>2, <1>3, <2>1, <2>5 DEF Merged, Record, RecordOK, Updates
  <2> QED
    BY <2>4, <2>6
<1>5. /\ store' \in [Forms -> Record \cup {NoRecord}]
      /\ \A g \in Forms : store'[g] = store[g] \/ RecordOK(g, store'[g], finished, received)
  <2>1. store \in [Forms -> Record \cup {NoRecord}]
    BY DEF SyncInv, TypeOK
  <2> HIDE DEF r, u
  <2>2. store' = IF task[t].seen = NoRecord THEN store ELSE [store EXCEPT ![f] = r]
    BY DEF Write, r, u
  <2> HIDE DEF f
  <2> QED
    BY <1>3, <1>4, <2>1, <2>2
<1>6. StageAfter(task[t].kind, u) \in Stages
  BY DEF StageAfter, Stages
<1>7. w \in Task /\ task' = [task EXCEPT ![t] = w]
  <2>1. task' = [task EXCEPT ![t] = w]
    BY <1>1 DEF Write, Task
  <2>2. (IF u = "uploading" THEN task[t].tries[f] ELSE 0) \in 0 .. MaxRetries
    BY <1>1, <1>3, BoundsAssumption DEF Task
  <2> QED
    BY <1>1, <1>3, <1>6, <2>1, <2>2 DEF Task
<1>8. /\ w.kind = task[t].kind /\ w.stage = StageAfter(task[t].kind, u)
      /\ w.form = f /\ w.seen = NoRecord /\ w.update = None /\ w.todo = task[t].todo
      /\ u = "uploading" => w.tries[f] = task[t].tries[f]
  BY <1>1, <1>3 DEF Task
<1> HIDE DEF w
<1>9. RowOK(w, finished, received)
  <2>1. RecordOK(f, NoRecord, finished, received)
    BY DEF RecordOK, NoRecord
  <2>2. /\ w.stage \in {"net", "recover", "sending", "loop", "over"}
        /\ w.stage = "sending" => u = "uploading"
    BY <1>8 DEF StageAfter
  <2>3. task[t].kind = "sync" => w.stage \notin {"idle", "over", "net"}
    BY <1>1, <1>8 DEF StageAfter, RowOK
  <2>4. u = "uploading" => w.tries[f] < MaxRetries /\ f \in finished
    BY <1>1, <1>2, <1>8 DEF RowOK, HasAttempt
  <2>5. None \notin Updates /\ "queue" \in Updates /\ "uploaded" \in Updates
        /\ {"uploading", "uploaded", "retry"} \subseteq Updates
    BY DEF None, Updates
  <2>6. task[t].kind = "done" => f \in finished
    BY <1>1 DEF RowOK, WorksOnUpload
  <2> HIDE DEF f, u
  <2> QED
    BY <1>1, <1>3, <1>8, <2>1, <2>2, <2>3, <2>4, <2>5, <2>6 DEF RowOK, HasAttempt, WorksOnUpload
<1>10. Holds(w) \/ ~Holds(task[t])
  BY <1>1, <1>8 DEF Holds, StageAfter, RowOK
<1>11. task' \in [Tasks -> Task] /\ task'[t] = w /\ \A v \in Tasks \ {t} : task'[v] = task[v]
  BY <1>1, <1>7
<1>12. UNCHANGED <<ids, isSyncing, active, refreshing, server, agent, faults>>
  BY DEF Write
<1> QED
  BY <1>3, <1>5, <1>9, <1>10, <1>11, <1>12, TaskStep DEF SyncInv, TypeOK, FlagIsHeld, Holds, server, agent

\* The screens' own writes: a form just photographed, a form deleted.
LEMMA StoreStep ==
    ASSUME SyncInv, NEW t \in Tasks, CaptureSave(t) \/ DeleteRemove(t)
    PROVE  SyncInv'
<1> DEFINE f == task[t].form
<1>1. RowOK(task[t], finished, received) /\ task \in [Tasks -> Task]
  BY RowFacts DEF SyncInv, TypeOK
<1>2. f \in Forms /\ task[t].stage # "waiting" /\ ~Holds(task[t])
  BY <1>1 DEF CaptureSave, DeleteRemove, At, RowOK, Holds
<1>3. Captured \in Record /\ \A g : RecordOK(g, Captured, finished, received)
  BY BoundsAssumption DEF Captured, Record, RecordOK
<1>4. \A g : RecordOK(g, NoRecord, finished, received)
  BY DEF NoRecord, RecordOK
<1>5. PICK r \in {Captured, NoRecord} : store' = [store EXCEPT ![f] = r]
  BY DEF CaptureSave, DeleteRemove
<1>6. /\ store' \in [Forms -> Record \cup {NoRecord}]
      /\ \A g \in Forms : store'[g] = store[g] \/ RecordOK(g, store'[g], finished, received)
  <2>1. store \in [Forms -> Record \cup {NoRecord}]
    BY DEF SyncInv, TypeOK
  <2> HIDE DEF f
  <2> QED
    BY <1>2, <1>3, <1>4, <1>5, <2>1
<1>7. NoTask \in Task /\ RowOK(NoTask, finished, received)
  BY IdleRow
<1>8. Ends(t) /\ UNCHANGED <<ids, isSyncing, refreshing, server, agent, faults>>
      /\ active' \in Forms \cup {None}
  BY <1>2 DEF CaptureSave, DeleteRemove, SyncInv, TypeOK
<1>9. task' \in [Tasks -> Task] /\ task'[t] = NoTask /\ \A v \in Tasks \ {t} : task'[v] = task[v]
  BY <1>1, <1>7, <1>8 DEF Ends
<1> QED
  BY <1>2, <1>6, <1>7, <1>8, <1>9, TaskStep DEF SyncInv, TypeOK, server, agent

-----------------------------------------------------------------------------
(* Steps of the uploads *)

LEMMA SendStep ==
    ASSUME SyncInv, NEW t \in Tasks, NEW q \in Requests, Send(t, q)
    PROVE  SyncInv'
<1> DEFINE w == [task[t] EXCEPT !.stage = "waiting"]
           n == [stage |-> "sent", by |-> t, form |-> task[t].form]
<1>1. task[t] \in Task /\ RowOK(task[t], finished, received) /\ task \in [Tasks -> Task]
  BY RowFacts DEF SyncInv, TypeOK
<1>2. task[t].form \in Forms /\ task[t].form \in finished /\ task[t].stage = "sending"
  BY <1>1 DEF Send, RowOK, WorksOnUpload
<1>3. w \in Task /\ task' = [task EXCEPT ![t] = w] /\ RowOK(w, finished, received)
  BY <1>1, <1>2 DEF Send, Task, Stages, RowOK, HasAttempt, WorksOnUpload
<1>4. w.stage = "waiting" /\ w.form = task[t].form /\ w.kind = task[t].kind
  BY <1>1 DEF Task
<1>5. /\ n \in Request /\ request' = [request EXCEPT ![q] = n]
      /\ n.stage = "sent" /\ n.by = t /\ n.form = task[t].form
  BY <1>2 DEF Send, Request
<1>6. request \in [Requests -> Request] /\ request[q] = NoRequest
  BY DEF SyncInv, TypeOK, Send
<1> HIDE DEF w, n
<1>7. UNCHANGED <<phone, isSyncing, active, refreshing, received, rejected, agent, faults>>
  BY DEF Send
<1>8. TypeOK'
  <2>1. task' \in [Tasks -> Task] /\ request' \in [Requests -> Request]
    BY <1>1, <1>3, <1>5, <1>6
  <2> QED
    BY <1>7, <2>1 DEF SyncInv, TypeOK, phone, agent
<1>9. RowsOK' /\ StoreOK' /\ ReceivedOK'
  BY <1>1, <1>3, <1>7 DEF SyncInv, RowsOK, StoreOK, ReceivedOK, phone, agent
<1>10. RequestsOK'
  <2>1. \A p \in Requests : request[p].by # t
    BY <1>2 DEF SyncInv, RequestsOK
  <2>2. finished' = finished /\ received' = received
    BY <1>7 DEF agent
  <2>3. t # None
    BY NoneAssumption
  <2> QED
    BY <1>1, <1>2, <1>3, <1>4, <1>5, <1>6, <2>1, <2>2, <2>3 DEF SyncInv, RequestsOK
<1>11. FlagIsHeld'
  BY <1>1, <1>2, <1>3, <1>4, <1>7 DEF SyncInv, FlagIsHeld
<1> QED
  BY <1>8, <1>9, <1>10, <1>11 DEF SyncInv

LEMMA AnswerStep ==
    ASSUME SyncInv, NEW t \in Tasks, NEW q \in Requests,
           Uploaded(t, q) \/ Refused(t, q) \/ CallFails(t, q)
    PROVE  SyncInv'
<1> DEFINE f == task[t].form
<1>1. task[t] \in Task /\ RowOK(task[t], finished, received) /\ task \in [Tasks -> Task]
  BY RowFacts DEF SyncInv, TypeOK
<1>2. task[t].stage = "waiting" /\ request[q].by = t
  BY DEF Uploaded, Refused, CallFails
<1>3. f \in Forms /\ f \in finished /\ task[t].tries[f] < MaxRetries
  BY <1>1, <1>2 DEF RowOK, HasAttempt, WorksOnUpload
<1>4. PICK update \in {"uploaded", "retry"} :
        Reads(t, f, update) /\ (update = "uploaded" => received[f] > 0)
  BY <1>2 DEF Uploaded, Refused, CallFails, SyncInv, RequestsOK
<1>5. /\ UNCHANGED <<phone, isSyncing, active, refreshing, received, rejected, agent>>
      /\ faults' \in 0 .. MaxFaults
  BY BoundsAssumption DEF Uploaded, Refused, CallFails, Faults, SyncInv, TypeOK
<1>6. PICK n \in {NoRequest, [request[q] EXCEPT !.by = None]} :
        request' = [request EXCEPT ![q] = n]
  BY DEF Uploaded, Refused, CallFails, SyncInv, TypeOK
<1>7. n \in Request /\ n.by = None /\ (n.stage # "free" => n.stage = request[q].stage /\ n.form = request[q].form)
  BY <1>6 DEF SyncInv, TypeOK, Request, NoRequest
<1> HIDE DEF f
<1>8. update \in Updates \ {"queue", "rewrite"}
  BY DEF Updates
<1>9. /\ task' \in [Tasks -> Task] /\ \A v \in Tasks \ {t} : task'[v] = task[v]
      /\ task'[t].kind = task[t].kind /\ task'[t].stage = "writing"
      /\ RowOK(task'[t], finished, received)
  BY <1>3, <1>4, <1>8, ReadsRow, ReadRow DEF f
<1>10. TypeOK'
  <2>1. request' \in [Requests -> Request]
    BY <1>6, <1>7 DEF SyncInv, TypeOK
  <2> QED
    BY <1>5, <1>9, <2>1 DEF SyncInv, TypeOK, phone, agent
<1>11. RowsOK' /\ StoreOK' /\ ReceivedOK'
  BY <1>5, <1>9 DEF SyncInv, RowsOK, StoreOK, ReceivedOK, phone, agent
<1>12. RequestsOK'
  <2>1. request \in [Requests -> Request] /\ request'[q] = n
        /\ \A p \in Requests \ {q} : request'[p] = request[p]
    BY <1>6 DEF SyncInv, TypeOK
  <2>2. finished' = finished /\ received' = received
    BY <1>5 DEF agent
  <2>3. \A v \in Tasks : v # None
    BY NoneAssumption
  <2>4. \A p \in Requests : request[p].by = t => p = q
    BY <1>2, <2>3 DEF SyncInv, RequestsOK
  <2> QED
    BY <1>7, <1>9, <2>1, <2>2, <2>3, <2>4 DEF SyncInv, RequestsOK
<1>13. FlagIsHeld'
  BY <1>5, <1>9 DEF SyncInv, FlagIsHeld
<1> QED
  BY <1>10, <1>11, <1>12, <1>13 DEF SyncInv
\* The Evidence Service: a request is checked, its capsule inserted, an answer
\* that nobody waits for dropped.
LEMMA ServerStep ==
    ASSUME SyncInv, NEW q \in Requests, ServerCheck(q) \/ ServerInsert(q) \/ Unheard(q)
    PROVE  SyncInv'
<1> DEFINE f == request[q].form
<1>1. /\ request \in [Requests -> Request] /\ received \in [Forms -> Nat]
      /\ finished \in SUBSET Forms /\ task \in [Tasks -> Task]
  BY DEF SyncInv, TypeOK
<1>2. UNCHANGED <<phone, app, rejected, agent, faults>>
  BY DEF ServerCheck, ServerInsert, Unheard
<1>3. f \in Forms /\ f \in finished
  BY <1>1 DEF ServerCheck, ServerInsert, Unheard, SyncInv, RequestsOK
<1>4. PICK n \in Request : /\ request' = [request EXCEPT ![q] = n]
                           /\ \/ n.by = request[q].by /\ n.form = f /\ n.stage # "free"
                              \/ n = NoRequest
                           /\ n.stage = "created" => received'[f] > 0
  <2>1. CASE ServerCheck(q)
    <3>1. PICK stage \in {"checked", "refused"} :
            request' = [request EXCEPT ![q].stage = stage]
      BY <2>1 DEF ServerCheck
    <3> DEFINE n == [request[q] EXCEPT !.stage = stage]
    <3>2. n \in Request /\ n.by = request[q].by /\ n.form = f /\ n.stage \notin {"created", "free"}
      BY <1>1 DEF Request
    <3>3. request' = [request EXCEPT ![q] = n]
      BY <1>1, <3>1
    <3> QED
      BY <3>2, <3>3
  <2>2. CASE ServerInsert(q)
    <3> DEFINE n == [request[q] EXCEPT !.stage = "created"]
    <3>1. n \in Request /\ n.by = request[q].by /\ n.form = f /\ n.stage # "free"
      BY <1>1 DEF Request
    <3>2. request' = [request EXCEPT ![q] = n] /\ received'[f] > 0
      BY <1>1, <1>3, <2>2 DEF ServerInsert
    <3> QED
      BY <3>1, <3>2
  <2>3. CASE Unheard(q)
    <3>1. NoRequest \in Request /\ NoRequest.stage = "free"
      BY DEF NoRequest, Request
    <3> QED
      BY <2>3, <3>1 DEF Unheard
  <2> QED
    BY <2>1, <2>2, <2>3
<1>5. /\ received' \in [Forms -> Nat]
      /\ \A g \in Forms : received[g] > 0 => received'[g] > 0
      /\ \A g \in Forms \ {f} : received'[g] = received[g]
  BY <1>1, <1>3 DEF ServerCheck, ServerInsert, Unheard
<1> HIDE DEF f
<1>6. Grows(finished, received, finished', received')
  BY <1>2, <1>5 DEF Grows, agent
<1>7. TypeOK'
  <2>1. request' \in [Requests -> Request]
    BY <1>1, <1>4
  <2> QED
    BY <1>2, <1>5, <2>1 DEF SyncInv, TypeOK, phone, app, agent
<1>8. RowsOK'
  <2> SUFFICES ASSUME NEW u \in Tasks
               PROVE  RowOK(task[u], finished', received')
    BY <1>2 DEF RowsOK, app
  <2>1. task[u] \in Task /\ RowOK(task[u], finished, received)
    BY RowFacts
  <2> QED
    BY <1>1, <1>6, <2>1, RowGrows
<1>9. StoreOK'
  <2> SUFFICES ASSUME NEW g \in Forms
               PROVE  RecordOK(g, store[g], finished', received')
    BY <1>2 DEF StoreOK, phone
  <2>1. RecordOK(g, store[g], finished, received)
    BY DEF SyncInv, StoreOK
  <2> QED
    BY <1>1, <1>6, <2>1, RecordGrows
<1>10. ReceivedOK'
  BY <1>2, <1>3, <1>5 DEF SyncInv, ReceivedOK, agent
<1>11. FlagIsHeld'
  BY <1>2 DEF SyncInv, FlagIsHeld, app
<1>12. RequestsOK'
  <2>1. NoRequest.stage = "free" /\ NoRequest.by = None
    BY DEF NoRequest
  <2>2. task' = task /\ finished' = finished
    BY <1>2 DEF app, agent
  <2>3. request'[q] = n /\ \A p \in Requests \ {q} : request'[p] = request[p]
    BY <1>1, <1>4
  <2>4. n.by # None => n.by = request[q].by /\ n.form = f
    BY <1>4, <2>1
  <2>5. /\ n.stage # "free" => n.form \in finished
        /\ n.stage = "free" => n.by = None
        /\ n.stage = "created" => n.form \in Forms /\ received'[n.form] > 0
    BY <1>3, <1>4, <2>1
  <2>6. ASSUME NEW p \in Requests
        PROVE  /\ request'[p].stage # "free" => request'[p].form \in finished
               /\ request'[p].stage = "free" => request'[p].by = None
               /\ request'[p].stage = "created" => received'[request'[p].form] > 0
    <3>1. CASE p = q
      BY <2>3, <2>5, <3>1
    <3>2. CASE p # q
      BY <1>1, <1>5, <2>3, <3>2 DEF SyncInv, RequestsOK
    <3> QED
      BY <3>1, <3>2
  <2>7. \A p \in Requests, t \in Tasks : request'[p].by = t =>
          task[t].stage = "waiting" /\ task[t].form = request'[p].form
    BY <2>3, <2>4, NoneAssumption DEF SyncInv, RequestsOK, f
  <2>8. \A p, o \in Requests : request'[p].by = request'[o].by /\ request'[p].by # None => p = o
    BY <2>3, <2>4 DEF SyncInv, RequestsOK
  <2> QED
    BY <2>2, <2>6, <2>7, <2>8 DEF RequestsOK
<1> QED
  BY <1>7, <1>8, <1>9, <1>10, <1>11, <1>12 DEF SyncInv

\* A supervisor rejects a capsule.
LEMMA RejectStep ==
    ASSUME SyncInv, NEW f \in Forms, Reject(f)
    PROVE  SyncInv'
<1>1. UNCHANGED <<phone, app, request, received, agent>> /\ rejected' = rejected \cup {f}
      /\ faults' \in 0 .. MaxFaults
  BY BoundsAssumption DEF Reject, Faults, SyncInv, TypeOK
<1>2. TypeOK'
  BY <1>1 DEF SyncInv, TypeOK, phone, app, agent
<1> QED
  BY <1>1, <1>2
  DEF SyncInv, RowsOK, StoreOK, RequestsOK, ReceivedOK, FlagIsHeld, phone, app, agent

-----------------------------------------------------------------------------
(* Steps of the response interceptor *)

\* The row of a task whose upload waits, or no longer waits, for new tokens.
LEMMA MovedRow ==
    ASSUME SyncInv, NEW t \in Tasks, task[t].stage \in {"waiting", "queued"},
           NEW stage \in {"queued", "sending"}, NEW late \in BOOLEAN,
           NEW w, w = [task[t] EXCEPT !.stage = stage, !.late = late]
    PROVE  /\ w \in Task /\ w.stage = stage /\ w.kind = task[t].kind
           /\ RowOK(w, finished, received)
<1>1. task[t] \in Task /\ RowOK(task[t], finished, received)
  BY RowFacts
<1>2. w \in Task
  BY <1>1 DEF Task, Stages
<1>3. /\ w.stage = stage /\ w.kind = task[t].kind /\ w.form = task[t].form
      /\ w.seen = task[t].seen /\ w.update = task[t].update
      /\ w.tries = task[t].tries /\ w.todo = task[t].todo
  BY <1>1 DEF Task
<1>4. RowOK(w, finished, received)
  BY <1>1, <1>3 DEF RowOK, HasAttempt, WorksOnUpload
<1> QED
  BY <1>2, <1>3, <1>4

LEMMA QueuedStep ==
    ASSUME SyncInv, NEW t \in Tasks, NEW q \in Requests, Queued(t, q)
    PROVE  SyncInv'
<1> DEFINE w == [task[t] EXCEPT !.stage = "queued", !.late = task[t].late]
<1>1. task[t] \in Task /\ task \in [Tasks -> Task] /\ request \in [Requests -> Request]
  BY RowFacts DEF SyncInv, TypeOK
<1>2. task[t].stage = "waiting" /\ request[q].by = t
  BY DEF Queued
<1>3. task' = [task EXCEPT ![t] = w]
  BY <1>1 DEF Queued, Task
<1>4. w \in Task /\ w.stage = "queued" /\ w.kind = task[t].kind
      /\ RowOK(w, finished, received)
  <2>1. task[t].late \in BOOLEAN
    BY <1>1 DEF Task
  <2> DEFINE stage == "queued"
             late == task[t].late
  <2>2. /\ task[t].stage \in {"waiting", "queued"} /\ stage \in {"queued", "sending"}
        /\ w = [task[t] EXCEPT !.stage = stage, !.late = late] /\ late \in BOOLEAN
    BY <1>2, <2>1
  <2> HIDE DEF w, stage, late
  <2>3. w \in Task /\ w.stage = stage /\ w.kind = task[t].kind /\ RowOK(w, finished, received)
    BY <2>2, MovedRow
  <2> QED
    BY <2>3 DEF stage
<1>5. request' = [request EXCEPT ![q] = NoRequest]
  BY DEF Queued
<1>6. NoRequest \in Request /\ NoRequest.stage = "free" /\ NoRequest.by = None
  BY DEF NoRequest, Request
<1>7. UNCHANGED <<phone, isSyncing, refreshing, active, received, rejected, agent, faults>>
  BY DEF Queued
<1> HIDE DEF w
<1>8. /\ task' \in [Tasks -> Task] /\ task'[t] = w
      /\ \A v \in Tasks \ {t} : task'[v] = task[v]
      /\ request' \in [Requests -> Request] /\ request'[q] = NoRequest
      /\ \A p \in Requests \ {q} : request'[p] = request[p]
  BY <1>1, <1>3, <1>4, <1>5, <1>6
<1>9. TypeOK'
  BY <1>7, <1>8 DEF SyncInv, TypeOK, phone, agent
<1>10. RowsOK' /\ StoreOK' /\ ReceivedOK'
  BY <1>4, <1>7, <1>8 DEF SyncInv, RowsOK, StoreOK, ReceivedOK, phone, agent
<1>11. RequestsOK'
  <2>1. finished' = finished /\ received' = received
    BY <1>7 DEF agent
  <2>2. \A v \in Tasks : v # None
    BY NoneAssumption
  <2>3. \A p \in Requests : request[p].by = t => p = q
    BY <1>2, <2>2 DEF SyncInv, RequestsOK
  <2> QED
    BY <1>6, <1>8, <2>1, <2>2, <2>3 DEF SyncInv, RequestsOK
<1>12. FlagIsHeld'
  BY <1>4, <1>7, <1>8 DEF SyncInv, FlagIsHeld
<1> QED
  BY <1>9, <1>10, <1>11, <1>12 DEF SyncInv

LEMMA RefreshStep == SyncInv /\ Refresh => SyncInv'
<1> SUFFICES ASSUME SyncInv, Refresh
             PROVE  SyncInv'
  OBVIOUS
<1>1. UNCHANGED <<phone, isSyncing, active, server, agent>> /\ refreshing' \in BOOLEAN
      /\ faults' \in 0 .. MaxFaults
  <2>1. CASE RefreshStarts
    BY <2>1, BoundsAssumption DEF RefreshStarts, Faults, SyncInv, TypeOK
  <2>2. CASE RefreshDone \/ RefreshFails
    <3>1. UNCHANGED <<phone, isSyncing, active, server, agent, faults>> /\ ~refreshing'
          /\ refreshing' = FALSE
      BY <2>2 DEF RefreshDone, RefreshFails
    <3> QED
      BY <3>1 DEF SyncInv, TypeOK
  <2> QED
    BY <2>1, <2>2 DEF Refresh
<1>2. /\ task' \in [Tasks -> Task]
      /\ \A t \in Tasks : task'[t] = task[t] \/
           /\ task[t].stage = "queued" /\ task'[t].kind = task[t].kind
           /\ task'[t].stage = "sending" /\ RowOK(task'[t], finished, received)
  <2>1. task \in [Tasks -> Task]
    BY DEF SyncInv, TypeOK
  <2>2. CASE task' = task
    BY <2>1, <2>2
  <2>3. CASE RefreshDone
    <3> DEFINE w(t) == [task[t] EXCEPT !.stage = "sending", !.late = TRUE]
    <3>1. task' = [t \in Tasks |-> IF task[t].stage = "queued" THEN w(t) ELSE task[t]]
      BY <2>3 DEF RefreshDone
    <3>2. ASSUME NEW t \in Tasks, task[t].stage = "queued"
          PROVE  /\ w(t) \in Task /\ w(t).stage = "sending" /\ w(t).kind = task[t].kind
                 /\ RowOK(w(t), finished, received)
      BY <3>2, MovedRow
    <3> HIDE DEF w
    <3> QED
      BY <2>1, <3>1, <3>2
  <2> QED
    BY <2>2, <2>3 DEF Refresh, RefreshStarts, RefreshFails
<1>3. TypeOK'
  BY <1>1, <1>2 DEF SyncInv, TypeOK, phone, server, agent
<1>4. RowsOK' /\ StoreOK' /\ ReceivedOK'
  BY <1>1, <1>2 DEF SyncInv, RowsOK, StoreOK, ReceivedOK, phone, server, agent
<1>5. RequestsOK'
  <2>1. request' = request /\ finished' = finished /\ received' = received
    BY <1>1 DEF server, agent
  <2>2. \A t \in Tasks : task[t].stage = "waiting" => task'[t] = task[t]
    BY <1>2
  <2> QED
    BY <2>1, <2>2 DEF SyncInv, RequestsOK
<1>6. FlagIsHeld'
  BY <1>1, <1>2 DEF SyncInv, FlagIsHeld
<1> QED
  BY <1>3, <1>4, <1>5, <1>6 DEF SyncInv

-----------------------------------------------------------------------------
\* The app is killed: no task, no flag, no one to hear an answer.
LEMMA KillStep == SyncInv /\ Kill => SyncInv'
<1> SUFFICES ASSUME SyncInv, Kill
             PROVE  SyncInv'
  OBVIOUS
<1>1. UNCHANGED <<phone, received, rejected, agent>> /\ ~isSyncing' /\ active' = None
      /\ isSyncing' \in BOOLEAN /\ refreshing' \in BOOLEAN
  BY DEF Kill
<1>2. task' = [t \in Tasks |-> NoTask]
  BY DEF Kill
<1>3. /\ request' \in [Requests -> Request]
      /\ \A q \in Requests : /\ request'[q].by = None
                             /\ request'[q].stage = request[q].stage
                             /\ request'[q].form = request[q].form
  BY DEF Kill, SyncInv, TypeOK, Request
<1>4. NoTask \in Task /\ RowOK(NoTask, finished, received)
  BY IdleRow
<1>5. TypeOK'
  <2>1. faults' \in 0 .. MaxFaults
    BY BoundsAssumption DEF Kill, Faults, SyncInv, TypeOK
  <2>2. task' \in [Tasks -> Task]
    BY <1>2, <1>4
  <2> QED
    BY <1>1, <1>3, <2>1, <2>2 DEF SyncInv, TypeOK, phone, agent
<1>6. RowsOK' /\ StoreOK' /\ ReceivedOK' /\ FlagIsHeld'
  BY <1>1, <1>2, <1>4 DEF SyncInv, RowsOK, StoreOK, ReceivedOK, FlagIsHeld, phone, agent
<1>7. RequestsOK'
  BY <1>1, <1>3, NoneAssumption DEF SyncInv, RequestsOK, agent
<1> QED
  BY <1>5, <1>6, <1>7 DEF SyncInv

LEMMA LeaveStep == SyncInv /\ Leave => SyncInv'
<1> SUFFICES ASSUME SyncInv, Leave
             PROVE  SyncInv'
  OBVIOUS
<1>1. UNCHANGED <<phone, isSyncing, refreshing, task, server, finished, fresh, faults>>
      /\ active' = None /\ taps' \in 0 .. MaxTaps
  BY BoundsAssumption DEF Leave, Taps, SyncInv, TypeOK
<1>2. TypeOK'
  BY <1>1 DEF SyncInv, TypeOK, phone, server
<1> QED
  BY <1>1, <1>2 DEF SyncInv, RowsOK, StoreOK, RequestsOK, ReceivedOK, FlagIsHeld, phone, server

LEMMA StutterSync == SyncInv /\ UNCHANGED vars => SyncInv'
<1> SUFFICES ASSUME SyncInv, UNCHANGED vars
             PROVE  SyncInv'
  OBVIOUS
<1>1. UNCHANGED <<ids, store, isSyncing, active, refreshing, task>>
      /\ UNCHANGED <<request, received, rejected, finished, fresh, taps, faults>>
  BY DEF vars, phone, app, server, agent
<1> QED
  BY <1>1 DEF SyncInv, TypeOK, RowsOK, StoreOK, RequestsOK, ReceivedOK, FlagIsHeld

LEMMA NextSync == SyncInv /\ [Next]_vars => SyncInv'
<1> SUFFICES ASSUME SyncInv, Next
             PROVE  SyncInv'
  BY StutterSync
<1>1. ASSUME NEW t \in Tasks, Continue(t)
      PROVE  SyncInv'
  <2>1. ASSUME NEW f \in Forms, SyncUnstick(t, f)
        PROVE  SyncInv'
    BY <2>1, UnstickStep
  <2>2. ASSUME NEW q \in Requests, Send(t, q)
        PROVE  SyncInv'
    BY <2>2, SendStep
  <2>3. ASSUME NEW q \in Requests, Uploaded(t, q) \/ Refused(t, q)
        PROVE  SyncInv'
    BY <2>3, AnswerStep
  <2> QED
    BY <1>1, <2>1, <2>2, <2>3, WriteStep, StoreStep, DoneSteps, SyncSteps, GiveUpStep
    DEF Continue
<1>2. ASSUME NEW t \in Tasks, Disturb(t)
      PROVE  SyncInv'
  <2>1. ASSUME NEW q \in Requests, CallFails(t, q)
        PROVE  SyncInv'
    BY <2>1, AnswerStep
  <2>2. ASSUME NEW q \in Requests, Queued(t, q)
        PROVE  SyncInv'
    BY <2>2, QueuedStep
  <2> QED
    BY <1>2, <2>1, <2>2, DoneSteps, SyncSteps, GiveUpStep DEF Disturb
<1>3. ASSUME NEW t \in Tasks, Screens(t) \/ SyncStart(t)
      PROVE  SyncInv'
  BY <1>3, ScreensStep, SyncSteps
<1>4. CASE Server
  BY <1>4, ServerStep, RejectStep DEF Server
<1>5. CASE Leave \/ Kill \/ Refresh
  BY <1>5, LeaveStep, KillStep, RefreshStep
<1> QED
  BY <1>1, <1>2, <1>3, <1>4, <1>5 DEF Next

-----------------------------------------------------------------------------
(* How often the server has a form *)

\* A retry by itself makes no second capsule of a form, also if the answer to
\* the upload before it was lost.  While no capsule of its slot was rejected, the
\* server has a form as often as uploads of it were between the look-up and the
\* insert together: at most as often as there are requests at one time, and once
\* if they are served in turn.  A rejected capsule lets another copy in without
\* any overlap.
CopiesNeedOverlap ==
    \A f \in Forms :
        ~FreeAgain(SlotOf[f]) => received[f] <= Cardinality(Requests)

\* Uploads of a form that passed the look-up and are not inserted yet.
Passed(f) == {q \in Requests : request[q].stage = "checked" /\ request[q].form = f}

\* What is there and what will be inserted came from uploads at one time.
CopiesInv ==
    \A f \in Forms : ~FreeAgain(SlotOf[f]) =>
        received[f] + Cardinality(Passed(f)) <= Cardinality(Requests)

LEMMA PassedCounts ==
    ASSUME NEW f
    PROVE  /\ IsFiniteSet(Passed(f)) /\ Cardinality(Passed(f)) \in Nat
           /\ Cardinality(Requests) \in Nat
           /\ Cardinality(Passed(f)) <= Cardinality(Requests)
<1>1. Passed(f) \subseteq Requests
  BY DEF Passed
<1> QED
  BY <1>1, RequestsAssumption, FS_Subset, FS_CardinalityType

LEMMA InitCopies == Init => CopiesInv
<1> SUFFICES ASSUME Init, NEW f \in Forms
             PROVE  received[f] + Cardinality(Passed(f)) <= Cardinality(Requests)
  BY DEF CopiesInv
<1>1. received[f] = 0
  BY DEF Init
<1> QED
  BY <1>1, PassedCounts

\* No upload passes the look-up in this step, and no rejection is taken back.
NonePasses ==
    /\ rejected \subseteq rejected'
    /\ \A q \in Requests : request'[q].stage = "checked" =>
        request[q].stage = "checked" /\ request'[q].form = request[q].form

LEMMA CopiesKept ==
    ASSUME CopiesInv, TypeOK, UNCHANGED received, NonePasses
    PROVE  CopiesInv'
<1> SUFFICES ASSUME NEW f \in Forms, ~FreeAgain(SlotOf[f])'
             PROVE  received[f] + Cardinality(Passed(f)') <= Cardinality(Requests)
  BY DEF CopiesInv
<1>0. ~FreeAgain(SlotOf[f])
  BY DEF FreeAgain, NonePasses
<1>1. Passed(f)' \subseteq Passed(f)
  BY DEF Passed, NonePasses
<1>2. Cardinality(Passed(f)') <= Cardinality(Passed(f)) /\ Cardinality(Passed(f)') \in Nat
  BY <1>1, PassedCounts, FS_Subset, FS_CardinalityType
<1>3. received[f] + Cardinality(Passed(f)) <= Cardinality(Requests) /\ received[f] \in Nat
  BY <1>0 DEF CopiesInv, TypeOK
<1> QED
  BY <1>2, <1>3, PassedCounts

\* While none is rejected, an upload that passes finds no capsule of its form.
LEMMA CheckCopies ==
    ASSUME CopiesInv, TypeOK, NEW q \in Requests, ServerCheck(q)
    PROVE  CopiesInv'
<1> SUFFICES ASSUME NEW f \in Forms, ~FreeAgain(SlotOf[f])'
             PROVE  received'[f] + Cardinality(Passed(f)') <= Cardinality(Requests)
  BY DEF CopiesInv
<1>0. ~FreeAgain(SlotOf[f])
  BY DEF FreeAgain, ServerCheck
<1>1. received' = received /\ received[f] \in Nat
  BY DEF ServerCheck, TypeOK
<1>2. Passed(f)' \subseteq Requests
  BY DEF Passed
<1>3. Cardinality(Passed(f)') \in Nat /\ Cardinality(Passed(f)') <= Cardinality(Requests)
  BY <1>2, RequestsAssumption, FS_Subset, FS_CardinalityType
<1>4. CASE received[f] = 0
  BY <1>1, <1>3, <1>4
<1>5. CASE received[f] # 0
  <2>1. request[q].form = f => Taken(SlotOf[request[q].form])
    BY <1>1, <1>5 DEF Taken
  <2>2. \A p \in Requests : p # q => request'[p] = request[p]
    BY DEF ServerCheck, TypeOK
  <2>3. request'[q].stage = "checked" => request'[q].form # f
    BY <1>0, <2>1 DEF ServerCheck, TypeOK, Request
  <2>4. Passed(f)' \subseteq Passed(f)
    BY <2>2, <2>3 DEF Passed
  <2>5. Cardinality(Passed(f)') <= Cardinality(Passed(f))
    BY <2>4, PassedCounts, FS_Subset
  <2>6. received[f] + Cardinality(Passed(f)) <= Cardinality(Requests)
    BY <1>0 DEF CopiesInv
  <2> QED
    BY <1>1, <1>3, <2>5, <2>6, PassedCounts
<1> QED
  BY <1>4, <1>5

\* What is inserted had passed.
LEMMA InsertCopies ==
    ASSUME CopiesInv, TypeOK, NEW q \in Requests, ServerInsert(q)
    PROVE  CopiesInv'
<1> SUFFICES ASSUME NEW f \in Forms, ~FreeAgain(SlotOf[f])'
             PROVE  received'[f] + Cardinality(Passed(f)') <= Cardinality(Requests)
  BY DEF CopiesInv
<1>0. ~FreeAgain(SlotOf[f])
  BY DEF FreeAgain, ServerInsert
<1>1. /\ received[f] \in Nat
      /\ received'[f] = IF request[q].form = f THEN received[f] + 1 ELSE received[f]
  BY DEF ServerInsert, TypeOK
<1>2. /\ request[q].stage = "checked" /\ request'[q].stage = "created"
      /\ \A p \in Requests : p # q => request'[p] = request[p]
  BY DEF ServerInsert, TypeOK, Request
<1>3. Passed(f)' = Passed(f) \ {q} /\ (q \in Passed(f) <=> request[q].form = f)
  BY <1>2 DEF Passed
<1>4. Cardinality(Passed(f)')
        = IF request[q].form = f THEN Cardinality(Passed(f)) - 1 ELSE Cardinality(Passed(f))
  <2>1. CASE request[q].form = f
    <3> DEFINE P == Passed(f)
    <3>1. IsFiniteSet(P) /\ q \in P
      BY <1>3, <2>1, PassedCounts
    <3> HIDE DEF P
    <3>2. Cardinality(P \ {q}) = Cardinality(P) - 1
      BY <3>1, FS_RemoveElement
    <3> QED
      BY <1>3, <2>1, <3>2 DEF P
  <2>2. CASE request[q].form # f
    <3>1. Passed(f)' = Passed(f)
      BY <1>3, <2>2
    <3> QED
      BY <2>2, <3>1
  <2> QED
    BY <2>1, <2>2
<1>5. received[f] + Cardinality(Passed(f)) <= Cardinality(Requests)
  BY <1>0 DEF CopiesInv
<1> QED
  BY <1>1, <1>4, <1>5, PassedCounts

\* The phone frees requests, sends new ones and stops waiting for them.
LEMMA PhonePassesNone ==
    ASSUME TypeOK, [Next]_vars, ~ \E q \in Requests : ServerCheck(q) \/ ServerInsert(q)
    PROVE  NonePasses /\ UNCHANGED received
<1>1. ASSUME request' = request, rejected \subseteq rejected' PROVE NonePasses
  BY <1>1 DEF NonePasses
<1>2. ASSUME NEW q \in Requests, NEW r, request' = [request EXCEPT ![q] = r], r.stage # "checked",
             rejected' = rejected
      PROVE  NonePasses
  BY <1>2 DEF NonePasses, TypeOK
<1>3. ASSUME NEW q \in Requests, request' = [request EXCEPT ![q].by = None],
             rejected' = rejected
      PROVE  NonePasses
  BY <1>3 DEF NonePasses, TypeOK, Request
<1>4. NoRequest.stage # "checked"
  BY DEF NoRequest
<1>5. ASSUME NEW t \in Tasks, NEW q \in Requests, Send(t, q)
      PROVE  NonePasses /\ UNCHANGED received
  <2> DEFINE r == [stage |-> "sent", by |-> t, form |-> task[t].form]
  <2>1. request' = [request EXCEPT ![q] = r] /\ r.stage # "checked"
        /\ received' = received /\ rejected' = rejected
    BY <1>5 DEF Send
  <2> HIDE DEF r
  <2> QED
    BY <1>2, <2>1
<1>6. ASSUME NEW t \in Tasks, NEW q \in Requests, Uploaded(t, q) \/ Refused(t, q)
                                               \/ CallFails(t, q) \/ Queued(t, q)
      PROVE  NonePasses /\ UNCHANGED received
  BY <1>2, <1>3, <1>4, <1>6 DEF Uploaded, Refused, CallFails, Queued
<1>7. ASSUME NEW q \in Requests, Unheard(q) PROVE NonePasses /\ UNCHANGED received
  BY <1>2, <1>4, <1>7 DEF Unheard
<1>8. ASSUME Kill PROVE NonePasses /\ UNCHANGED received
  BY <1>8 DEF Kill, NonePasses, TypeOK, Request
<1>9. ASSUME UNCHANGED server PROVE NonePasses /\ UNCHANGED received
  BY <1>1, <1>9 DEF server
<1>10. ASSUME NEW t \in Tasks, Screens(t) \/ SyncStart(t) PROVE UNCHANGED server
  BY <1>10 DEF Screens, SyncStart, PageTap, DoneTap, CaptureTap, TallyTap, DeleteTap
<1>11. ASSUME NEW t \in Tasks, Continue(t) PROVE NonePasses /\ UNCHANGED received
  <2>1. CASE UNCHANGED server
    BY <1>9, <2>1
  <2> QED
    BY <1>5, <1>6, <1>11, <2>1
    DEF Continue, Write, CaptureSave, DoneSnapshot, Over, DeleteRemove, SyncOnline, SyncPending,
        SyncEnd, SyncUnstick, SyncNext, GiveUp, MarkUploading
<1>12. ASSUME NEW t \in Tasks, Disturb(t) PROVE NonePasses /\ UNCHANGED received
  <2>1. CASE UNCHANGED server
    BY <1>9, <2>1
  <2> QED
    BY <1>6, <1>12, <2>1 DEF Disturb, DoneOffline, SyncOffline, SyncWoken, NoFile
<1>13. CASE Leave \/ Refresh \/ UNCHANGED vars
  BY <1>9, <1>13 DEF Leave, Refresh, RefreshStarts, RefreshDone, RefreshFails, vars
<1>14. ASSUME NEW f \in Forms, Reject(f) PROVE NonePasses /\ UNCHANGED received
  BY <1>1, <1>14 DEF Reject
<1> QED
  BY <1>7, <1>8, <1>9, <1>10, <1>11, <1>12, <1>13, <1>14 DEF Next, Server

LEMMA NextCopies ==
    ASSUME CopiesInv, TypeOK, [Next]_vars
    PROVE  CopiesInv'
BY CheckCopies, InsertCopies, PhonePassesNone, CopiesKept

-----------------------------------------------------------------------------
(* Theorems *)

THEOREM SyncInvHolds == Spec => []SyncInv
BY InitSync, NextSync, PTL DEF Spec

\* Every variable holds values of its kind.  Here attempts <= MaxRetries says
\* something: each upload counts from a snapshot of its own (storage.ts,
\* syncEngine.ts), several run at once, and none counts beyond MAX_RETRIES.
THEOREM TypeCorrect == Spec => []TypeOK
<1>1. SyncInv => TypeOK
  BY DEF SyncInv
<1> QED
  BY <1>1, SyncInvHolds, PTL

\* A form that the phone shows as uploaded is on the server: what an answer
\* told is not lost when another task writes an older record back over it.
THEOREM UploadedHolds == Spec => []UploadedIsReceived
<1>1. SyncInv => UploadedIsReceived
  BY DEF SyncInv, StoreOK, RecordOK, UploadedIsReceived
<1> QED
  BY <1>1, SyncInvHolds, PTL

\* Nothing leaves the phone, and nothing arrives, for which the agent did not
\* tap Done.
THEOREM FinishedHolds == Spec => []SentWasFinished
<1>1. SyncInv => SentWasFinished
  BY DEF SyncInv, RequestsOK, ReceivedOK, SentWasFinished
<1> QED
  BY <1>1, SyncInvHolds, PTL

\* runSync is kept out by its flag only while a run is there to take it down.
THEOREM FlagHolds == Spec => []FlagIsHeld
<1>1. SyncInv => FlagIsHeld
  BY DEF SyncInv
<1> QED
  BY <1>1, SyncInvHolds, PTL

\* However often an upload is retried after a lost answer, and until a capsule
\* of its slot is rejected, the server has a form no more often than uploads of
\* it overlapped between look-up and insert.
THEOREM CopiesHold == Spec => []CopiesNeedOverlap
<1>1. TypeOK /\ CopiesInv => CopiesNeedOverlap
  <2> SUFFICES ASSUME TypeOK, CopiesInv, NEW f \in Forms, ~FreeAgain(SlotOf[f])
               PROVE  received[f] <= Cardinality(Requests)
    BY DEF CopiesNeedOverlap
  <2>1. received[f] \in Nat /\ received[f] + Cardinality(Passed(f)) <= Cardinality(Requests)
    BY DEF TypeOK, CopiesInv
  <2> QED
    BY <2>1, PassedCounts
<1>2. Spec => []CopiesInv
  BY InitCopies, NextCopies, TypeCorrect, PTL DEF Spec
<1> QED
  BY <1>1, <1>2, TypeCorrect, PTL

==============================================================================
