----------------------------- MODULE TrustAnchor -----------------------------
(***************************************************************************)
(* The Trust Service (services/trust): hashes of approved capsules are     *)
(* queued in memory, and a timer turns the queue into Merkle batches that  *)
(* are anchored on Hedera and by a TSA, stored, and reported back.         *)
(*                                                                         *)
(* The timer's callback is not awaited by the timer, so batches overlap:   *)
(* each is a run of processBatch with local variables of its own, split at *)
(* its awaits.  Batch and leaf rows survive a restart; queue and runs do   *)
(* not.                                                                    *)
(***************************************************************************)
EXTENDS Naturals, Sequences, FiniteSets

CONSTANTS
    Capsules,   \* capsules whose hash may be sent
    Calls,      \* calls of POST /trust/anchor; each is served once
    Batches,    \* ids trust_anchor_batches.id can take
    Outcomes,   \* what anchoring a batch may end in
    MaxStops    \* how often the process may be stopped from outside

None == "NONE"

\* BatchAnchorStatus; ABSENT stands for "no such row".
BatchStatuses == {"PENDING", "HEDERA_ONLY", "TSA_ONLY", "DUAL_ANCHORED", "FAILED"}
HederaStatuses == {"HEDERA_ONLY", "DUAL_ANCHORED"}

ASSUME OutcomeAssumption == Outcomes \subseteq BatchStatuses \ {"PENDING"}
ASSUME StopAssumption == MaxStops \in Nat

\* A row of trust_anchor_batches.  root stands for the Merkle root: it fixes
\* the leaves and their order (MerkleTree).
BatchRow == [status : BatchStatuses \cup {"ABSENT"}, root : Seq(Capsules)]

\* A row of trust_anchor_leaves, unique per capsule; NoLeaf is its absence.
Leaf == [batch : Batches \cup {None}, index : Nat]
NoLeaf == [batch |-> None, index |-> 0]

\* A call of queueForAnchor: "checked" after its look-up, then "queued",
\* "known" (a leaf existed), or "lost" with the process that served it.
Call == [stage   : {"idle", "checked", "queued", "known", "lost"},
         capsule : Capsules \cup {None}]

\* A run of processBatch.
RunStages == {"idle", "drained", "created", "submitted", "anchored",
              "notifying", "done", "lost"}
Run == [stage : RunStages, items : Seq(Capsules),
        status : BatchStatuses, next : Nat]

VARIABLES
    queue,     \* hashQueue
    call,      \* [Calls -> Call]
    run,       \* [Batches -> Run]
    batch,     \* [Batches -> BatchRow]
    leaf,      \* [Capsules -> Leaf]
    ledger,    \* batches whose root is on the Hedera topic
    told,      \* PATCH .../anchored sent: capsule, batch, status
    stops,     \* times the process was stopped from outside
    poisoned   \* the process ended because leaves could not be stored

memory == <<queue, call, run>>
rows == <<batch, leaf>>
ends == <<stops, poisoned>>
vars == <<queue, call, run, batch, leaf, ledger, told, stops, poisoned>>

NoRun == [stage |-> "idle", items |-> <<>>, status |-> "FAILED", next |-> 1]

Init ==
    /\ queue = <<>>
    /\ call = [k \in Calls |-> [stage |-> "idle", capsule |-> None]]
    /\ run = [b \in Batches |-> NoRun]
    /\ batch = [b \in Batches |-> [status |-> "ABSENT", root |-> <<>>]]
    /\ leaf = [c \in Capsules |-> NoLeaf]
    /\ ledger = {}
    /\ told = {}
    /\ stops = 0
    /\ poisoned = FALSE

------------------------------------------------------------------------------
(* queueForAnchor *)

\* Calls and batch ids are opaque: the pool's unused members are taken in some
\* fixed order.
NextCall == CHOOSE k \in Calls : call[k].stage = "idle"
NewBatch == CHOOSE b \in Batches : run[b].stage = "idle"

\* The idempotency check: a capsule that has a leaf is not queued again.
Receive(k, c) ==
    /\ call[k].stage = "idle" /\ k = NextCall
    /\ call' = [call EXCEPT ![k] =
                  [stage |-> IF leaf[c] = NoLeaf THEN "checked" ELSE "known",
                   capsule |-> c]]
    /\ UNCHANGED <<queue, run, rows, ledger, told, ends>>

\* After the look-up: into the queue, and answered { queued: true }.
Push(k) ==
    /\ call[k].stage = "checked"
    /\ queue' = Append(queue, call[k].capsule)
    /\ call' = [call EXCEPT ![k].stage = "queued"]
    /\ UNCHANGED <<run, rows, ledger, told, ends>>

------------------------------------------------------------------------------
(* processBatch *)

Goes(b, from, to) ==
    /\ run[b].stage = from
    /\ run' = [run EXCEPT ![b].stage = to]

\* Wrong on purpose: the timer waits for a full batch.
StartFullBatch(b) ==
    /\ Len(queue) >= 2
    /\ run[b].stage = "idle" /\ b = NewBatch
    /\ run' = [run EXCEPT ![b].stage = "drained", ![b].items = queue]
    /\ queue' = <<>>
    /\ UNCHANGED <<call, rows, ledger, told, ends>>

\* The timer: drain the queue in one go.  Nothing keeps it from starting
\* while earlier runs wait.
StartBatch(b) ==
    /\ queue # <<>>
    /\ run[b].stage = "idle" /\ b = NewBatch
    /\ run' = [run EXCEPT ![b].stage = "drained", ![b].items = queue]
    /\ queue' = <<>>
    /\ UNCHANGED <<call, rows, ledger, told, ends>>

\* Wrong on purpose: the queue is emptied once the row is saved.
CreateBatchClears(b) ==
    /\ Goes(b, "drained", "created")
    /\ batch' = [batch EXCEPT ![b] = [status |-> "PENDING", root |-> run[b].items]]
    /\ queue' = <<>>
    /\ UNCHANGED <<call, leaf, ledger, told, ends>>

\* Wrong on purpose: the row is saved as anchored before it is.
CreateBatchAnchored(b) ==
    /\ Goes(b, "drained", "created")
    /\ batch' = [batch EXCEPT ![b] = [status |-> "DUAL_ANCHORED",
                                      root |-> run[b].items]]
    /\ UNCHANGED <<queue, call, leaf, ledger, told, ends>>

\* Save the PENDING row with the root of the tree over the items.
CreateBatch(b) ==
    /\ Goes(b, "drained", "created")
    /\ batch' = [batch EXCEPT ![b] = [status |-> "PENDING", root |-> run[b].items]]
    /\ UNCHANGED <<queue, call, leaf, ledger, told, ends>>

\* Promise.allSettled: the root is submitted to both.  The status says which
\* client reported success; Hedera may fail after the topic took the message
\* (receipt or record), so onLedger may hold without it.
Submit(b, status, onLedger) ==
    /\ run[b].stage = "created"
    /\ status \in HederaStatuses => onLedger
    /\ ledger' = IF onLedger THEN ledger \cup {b} ELSE ledger
    /\ run' = [run EXCEPT ![b].stage = "submitted", ![b].status = status]
    /\ UNCHANGED <<queue, call, rows, told, ends>>

\* Wrong on purpose: reports go out before the leaves are stored.
SaveStatusThenNotify(b) ==
    /\ Goes(b, "submitted", "notifying")
    /\ batch' = [batch EXCEPT ![b].status = run[b].status]
    /\ UNCHANGED <<queue, call, leaf, ledger, told, ends>>

\* Save the outcome, FAILED included.
SaveStatus(b) ==
    /\ Goes(b, "submitted", "anchored")
    /\ batch' = [batch EXCEPT ![b].status = run[b].status]
    /\ UNCHANGED <<queue, call, leaf, ledger, told, ends>>

Items(b) == {run[b].items[i] : i \in 1 .. Len(run[b].items)}

\* capsule_id is UNIQUE: a leaf can be stored for these items.
Storable(b) ==
    /\ \A c \in Items(b) : leaf[c] = NoLeaf
    /\ Cardinality(Items(b)) = Len(run[b].items)

IndexOf(b, c) == CHOOSE i \in 1 .. Len(run[b].items) : run[b].items[i] = c

\* Wrong on purpose: the leaves do not wait for the outcome.
StoreLeavesEarly(b) ==
    /\ Goes(b, "created", "notifying")
    /\ Storable(b)
    /\ leaf' = [c \in Capsules |->
                  IF c \in Items(b) THEN [batch |-> b, index |-> IndexOf(b, c)]
                                    ELSE leaf[c]]
    /\ UNCHANGED <<queue, call, batch, ledger, told, ends>>

\* Save all leaves in one transaction, whatever the batch's status.
StoreLeaves(b) ==
    /\ Goes(b, "anchored", "notifying")
    /\ Storable(b)
    /\ leaf' = [c \in Capsules |->
                  IF c \in Items(b) THEN [batch |-> b, index |-> IndexOf(b, c)]
                                    ELSE leaf[c]]
    /\ UNCHANGED <<queue, call, batch, ledger, told, ends>>

\* One PATCH after the other; a failed one is logged and skipped.
Notify(b) ==
    /\ run[b].stage = "notifying"
    /\ told' = told \cup {[capsule |-> run[b].items[run[b].next], batch |-> b,
                           status |-> run[b].status]}
    /\ run' = [run EXCEPT ![b].next = run[b].next + 1,
                          ![b].stage = IF run[b].next = Len(run[b].items)
                                         THEN "done" ELSE "notifying"]
    /\ UNCHANGED <<queue, call, rows, ledger, ends>>

------------------------------------------------------------------------------
Active(b) == run[b].stage \notin {"idle", "done", "lost"}

\* The process ends and is started again: what was in memory is gone.
LoseMemory ==
    /\ queue' = <<>>
    /\ call' = [k \in Calls |->
                  IF call[k].stage = "checked" THEN [call[k] EXCEPT !.stage = "lost"]
                                               ELSE call[k]]
    /\ run' = [b \in Batches |->
                  IF Active(b) THEN [run[b] EXCEPT !.stage = "lost"] ELSE run[b]]
    /\ UNCHANGED <<rows, ledger, told>>

\* The unique index refuses the leaves; nobody catches the rejection of the
\* timer's callback, so Node ends the process.
Poison(b) ==
    /\ run[b].stage = "anchored"
    /\ ~Storable(b)
    /\ LoseMemory
    /\ poisoned' = TRUE
    /\ UNCHANGED stops

\* A deployment, a crash, or a database error in processBatch.
Stop ==
    /\ stops < MaxStops
    /\ LoseMemory
    /\ stops' = stops + 1
    /\ UNCHANGED poisoned

Advance(b) ==
    \/ CreateBatch(b)
    \/ \E s \in Outcomes, onLedger \in BOOLEAN : Submit(b, s, onLedger)
    \/ SaveStatus(b)
    \/ StoreLeaves(b)
    \/ Notify(b)
    \/ Poison(b)

\* Nothing is under way and no more calls come.
Idle ==
    /\ queue = <<>>
    /\ \A k \in Calls : call[k].stage \notin {"idle", "checked"}
    /\ \A b \in Batches : ~Active(b)
    /\ UNCHANGED vars

Next ==
    \/ \E k \in Calls, c \in Capsules : Receive(k, c)
    \/ \E k \in Calls : Push(k)
    \/ \E b \in Batches : StartBatch(b)
    \/ \E b \in Batches : Advance(b)
    \/ Stop
    \/ Idle

Spec == Init /\ [][Next]_vars

\* The interval timer keeps firing, and every await of processBatch settles:
\* the TSA client times out after 15 s, the Hedera client gives up by itself,
\* and an unreachable Evidence Service refuses the connection.
Fairness ==
    /\ WF_vars(\E b \in Batches : StartBatch(b))
    /\ \A b \in Batches : WF_vars(Advance(b))

FairSpec == Spec /\ Fairness

------------------------------------------------------------------------------
(* Properties *)

\* Every variable holds values of its kind.
TypeOK ==
    /\ queue \in Seq(Capsules)
    /\ call \in [Calls -> Call]
    /\ run \in [Batches -> Run]
    /\ batch \in [Batches -> BatchRow]
    /\ leaf \in [Capsules -> Leaf]
    /\ ledger \subseteq Batches
    /\ told \subseteq [capsule : Capsules, batch : Batches, status : BatchStatuses]
    /\ stops \in Nat
    /\ poisoned \in BOOLEAN

\* A stored leaf can be verified: its batch was saved with an outcome, and the
\* batch's root commits to the capsule at the leaf's index, whatever batches
\* overlapped and wherever the process stopped.
LeavesMatchBatch ==
    \A c \in Capsules : leaf[c] # NoLeaf =>
        LET l == leaf[c]
        IN  /\ batch[l.batch].status \notin {"ABSENT", "PENDING"}
            /\ l.index \in 1 .. Len(batch[l.batch].root)
            /\ batch[l.batch].root[l.index] = c

\* The Evidence Service is told of an anchor only once it can be looked up,
\* and is told the status that is stored: its record never claims more than
\* the trust records show.
ToldIsStored ==
    \A m \in told : /\ leaf[m.capsule] # NoLeaf
                    /\ leaf[m.capsule].batch = m.batch
                    /\ batch[m.batch].status = m.status

\* A row that claims a Hedera anchor has its root on the topic, also when the
\* process stopped between submitting and saving.
HederaClaimIsTrue ==
    \A b \in Batches : batch[b].status \in HederaStatuses
                         => b \in ledger

\* A capsule that the service accepted, or is about to, is in the queue or in
\* a run that will report it, until it has been reported.
Held(c) ==
    \/ \E i \in 1 .. Len(queue) : queue[i] = c
    \/ \E b \in Batches : Active(b) /\ \E i \in run[b].next .. Len(run[b].items) :
                                           run[b].items[i] = c
Told(c) == \E m \in told : m.capsule = c

\* As long as the process lives, no accepted capsule falls between the queue,
\* the overlapping batches and the reports.
AcceptedIsHeld ==
    (stops = 0 /\ ~poisoned) =>
        \A k \in Calls : call[k].stage = "queued" =>
            Held(call[k].capsule) \/ Told(call[k].capsule)

\* If the process lives on, every accepted capsule is eventually reported.
AcceptedIsTold ==
    [](stops = 0 /\ ~poisoned) =>
        \A k \in Calls : (call[k].stage = "queued") ~> Told(call[k].capsule)

\* "Idempotent": a second request for the same capsule does no harm.
SecondCallIsHarmless == ~poisoned

==============================================================================
