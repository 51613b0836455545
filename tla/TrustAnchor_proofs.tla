-------------------------- MODULE TrustAnchor_proofs --------------------------
(***************************************************************************)
(* Proofs about TrustAnchor, for every set of capsules, calls and batches, *)
(* any outcomes and any number of stops.                                   *)
(***************************************************************************)
EXTENDS TrustAnchor, TLAPS

\* Stages in which the leaves of a run may be stored.
Storing == {"notifying", "done", "lost"}

\* What the stage of a run says of its row, its leaves and the ledger.  A run
\* that was lost says nothing.
RunOK(b) ==
    /\ run[b].stage = "idle" => run[b].next = 1
    /\ run[b].stage \in {"drained", "created", "submitted", "anchored"} =>
         run[b].items # <<>> /\ run[b].next = 1
    /\ run[b].stage \in {"submitted", "anchored", "notifying", "done"} =>
         /\ run[b].status \in Outcomes
         /\ run[b].status \in HederaStatuses => b \in ledger
    /\ run[b].stage \in {"created", "submitted", "anchored", "notifying", "done"} =>
         batch[b].root = run[b].items
    /\ run[b].stage \in {"anchored", "notifying", "done"} =>
         batch[b].status = run[b].status
    /\ run[b].stage = "notifying" => run[b].next \in 1 .. Len(run[b].items)
    /\ run[b].stage \in {"notifying", "done"} =>
         \A i \in 1 .. Len(run[b].items) :
            /\ leaf[run[b].items[i]] # NoLeaf
            /\ leaf[run[b].items[i]].batch = b

\* A leaf was stored by a run of its batch that got that far.
LeafOK(c) ==
    leaf[c] # NoLeaf => /\ leaf[c].batch \in Batches
                        /\ run[leaf[c].batch].stage \in Storing

\* A call that may still reach the queue carries a capsule.
CallOK(k) == call[k].stage = "checked" => call[k].capsule \in Capsules

\* The inductive invariant.
TrustInv ==
    /\ TypeOK
    /\ \A k \in Calls : CallOK(k)
    /\ \A b \in Batches : RunOK(b)
    /\ \A c \in Capsules : LeafOK(c)
    /\ LeavesMatchBatch
    /\ ToldIsStored
    /\ HederaClaimIsTrue
    /\ AcceptedIsHeld

USE DEF Storing

LEMMA InitTrustInv == Init => TrustInv
<1> SUFFICES ASSUME Init PROVE TrustInv
  OBVIOUS
<1>1. TypeOK
  <2>1. <<>> \in Seq(Capsules)
    OBVIOUS
  <2>2. NoRun \in Run
    BY <2>1 DEF NoRun, Run, RunStages, BatchStatuses
  <2>3. batch \in [Batches -> BatchRow]
    BY <2>1 DEF Init, BatchRow
  <2>4. call \in [Calls -> Call] /\ leaf \in [Capsules -> Leaf]
    BY DEF Init, Call, Leaf, NoLeaf
  <2> QED
    BY <2>1, <2>2, <2>3, <2>4 DEF Init, TypeOK
<1>2. \A b \in Batches : RunOK(b)
  BY DEF Init, RunOK, NoRun
<1>3. (\A c \in Capsules : LeafOK(c)) /\ LeavesMatchBatch /\ ToldIsStored
  BY DEF Init, LeafOK, LeavesMatchBatch, ToldIsStored
<1>5. \A k \in Calls : CallOK(k)
  BY DEF Init, CallOK
<1>4. HederaClaimIsTrue /\ AcceptedIsHeld
  BY DEF Init, HederaClaimIsTrue, HederaStatuses, AcceptedIsHeld
<1> QED
  BY <1>1, <1>2, <1>3, <1>4, <1>5 DEF TrustInv

------------------------------------------------------------------------------
(* What a step of one run leaves alone *)

\* The runs other than b, if rows and leaves they rely on stay.
LEMMA OtherRuns ==
    ASSUME TrustInv, NEW b \in Batches, RunOK(b)',
           \A d \in Batches : d # b => run'[d] = run[d] /\ batch'[d] = batch[d],
           ledger \subseteq ledger',
           \A c \in Capsules : leaf[c] # NoLeaf => leaf'[c] = leaf[c]
    PROVE  \A d \in Batches : RunOK(d)'
<1> SUFFICES ASSUME NEW d \in Batches, d # b PROVE RunOK(d)'
  OBVIOUS
<1>1. RunOK(d) /\ run'[d] = run[d] /\ batch'[d] = batch[d]
  BY DEF TrustInv
<1>2. \A i \in 1 .. Len(run[d].items) : run[d].items[i] \in Capsules
  BY DEF TrustInv, TypeOK, Run
<1> QED
  BY <1>1, <1>2 DEF RunOK

\* Leaves and reports, if no row they refer to changes.
LEMMA LeavesKept ==
    ASSUME TrustInv, leaf' = leaf, told' = told,
           \A d \in Batches : run[d].stage \in Storing =>
                /\ run'[d].stage \in Storing
                /\ batch'[d] = batch[d]
    PROVE  (\A c \in Capsules : LeafOK(c)') /\ LeavesMatchBatch' /\ ToldIsStored'
<1>1. \A c \in Capsules : leaf[c] # NoLeaf =>
          /\ leaf[c].batch \in Batches
          /\ run'[leaf[c].batch].stage \in Storing
          /\ batch'[leaf[c].batch] = batch[leaf[c].batch]
  BY DEF TrustInv, LeafOK
<1>2. \A c \in Capsules : LeafOK(c)'
  BY <1>1 DEF LeafOK
<1>3. LeavesMatchBatch'
  BY <1>1 DEF TrustInv, LeavesMatchBatch
<1>4. ToldIsStored'
  <2> SUFFICES ASSUME NEW m \in told
               PROVE  /\ leaf[m.capsule] # NoLeaf
                      /\ leaf[m.capsule].batch = m.batch
                      /\ batch'[m.batch].status = m.status
    BY DEF ToldIsStored
  <2>1. m.capsule \in Capsules
    BY DEF TrustInv, TypeOK
  <2> QED
    BY <1>1, <2>1 DEF TrustInv, ToldIsStored
<1> QED
  BY <1>2, <1>3, <1>4

\* Nobody loses a capsule that is held, if active runs stay active and keep
\* their items.
LEMMA HeldKept ==
    ASSUME TrustInv, queue' = queue, told \subseteq told', stops' = stops,
           poisoned' = poisoned,
           \A k \in Calls : call'[k].stage = "queued" => call'[k] = call[k],
           \A d \in Batches : Active(d) => /\ Active(d)'
                                           /\ run'[d].items = run[d].items
                                           /\ run'[d].next = run[d].next
    PROVE  AcceptedIsHeld'
<1> SUFFICES ASSUME stops = 0, ~poisoned, NEW k \in Calls, call'[k].stage = "queued"
             PROVE  Held(call[k].capsule)' \/ Told(call[k].capsule)'
  BY DEF AcceptedIsHeld
<1>1. Held(call[k].capsule) \/ Told(call[k].capsule)
  BY DEF TrustInv, AcceptedIsHeld
<1>2. CASE Told(call[k].capsule)
  BY <1>2 DEF Told
<1>3. CASE Held(call[k].capsule)
  BY <1>3 DEF Held
<1> QED
  BY <1>1, <1>2, <1>3

\* A run moves on with its items, and nothing happens to queue and calls.
LEMMA GoesKeeps ==
    ASSUME TypeOK, NEW b \in Batches, NEW from \in RunStages, NEW to \in RunStages,
           Goes(b, from, to)
    PROVE  /\ run' \in [Batches -> Run]
           /\ run[b].stage = from /\ run'[b].stage = to
           /\ run'[b].items = run[b].items /\ run'[b].next = run[b].next
           /\ run'[b].status = run[b].status
           /\ \A d \in Batches : d # b => run'[d] = run[d]
BY DEF Goes, TypeOK, Run

------------------------------------------------------------------------------
(* queueForAnchor *)

LEMMA ReceiveInv ==
    ASSUME TrustInv, NEW k \in Calls, NEW c \in Capsules, Receive(k, c)
    PROVE  TrustInv'
<1> USE DEF Receive, rows, ends
<1>1. TypeOK'
  BY DEF TrustInv, TypeOK, Call
<1>2. (\A b \in Batches : RunOK(b)') /\ (\A q \in Calls : CallOK(q)')
  BY DEF TrustInv, TypeOK, RunOK, CallOK
<1>3. (\A d \in Capsules : LeafOK(d)') /\ LeavesMatchBatch' /\ ToldIsStored'
  BY LeavesKept
<1>4. HederaClaimIsTrue'
  BY DEF TrustInv, HederaClaimIsTrue
<1>5. \A q \in Calls : call'[q].stage = "queued" => call'[q] = call[q]
  BY DEF TrustInv, TypeOK
<1>6. AcceptedIsHeld'
  BY <1>5, HeldKept DEF Active
<1> QED
  BY <1>1, <1>2, <1>3, <1>4, <1>6 DEF TrustInv

LEMMA PushInv ==
    ASSUME TrustInv, NEW k \in Calls, Push(k)
    PROVE  TrustInv'
<1> USE DEF Push, rows, ends
<1> DEFINE x == call[k].capsule
<1>1. queue \in Seq(Capsules) /\ x \in Capsules
  BY DEF TrustInv, TypeOK, CallOK
<1>2. TypeOK'
  BY <1>1 DEF TrustInv, TypeOK, Call
<1>3. (\A b \in Batches : RunOK(b)') /\ (\A q \in Calls : CallOK(q)')
  BY DEF TrustInv, TypeOK, RunOK, CallOK
<1>4. (\A d \in Capsules : LeafOK(d)') /\ LeavesMatchBatch' /\ ToldIsStored'
  BY LeavesKept
<1>5. HederaClaimIsTrue'
  BY DEF TrustInv, HederaClaimIsTrue
<1>6. AcceptedIsHeld'
  <2> SUFFICES ASSUME stops = 0, ~poisoned, NEW q \in Calls, call'[q].stage = "queued"
               PROVE  (Held(call[q].capsule) \/ Told(call[q].capsule))'
    BY DEF AcceptedIsHeld
  <2>1. /\ Len(queue) \in Nat /\ Len(queue') = Len(queue) + 1
        /\ queue'[Len(queue) + 1] = x
        /\ \A i \in 1 .. Len(queue) : queue'[i] = queue[i]
    BY <1>1
  <2>2. CASE q = k
    <3>1. call'[q].capsule = x
      BY <2>2 DEF TrustInv, TypeOK
    <3> QED
      BY <2>1, <3>1 DEF Held
  <2>3. CASE q # k
    <3>1. call'[q] = call[q]
      BY <2>3 DEF TrustInv, TypeOK
    <3>2. Held(call[q].capsule) \/ Told(call[q].capsule)
      BY <3>1 DEF TrustInv, AcceptedIsHeld
    <3> QED
      BY <2>1, <3>1, <3>2 DEF Held, Told, Active
  <2> QED
    BY <2>2, <2>3
<1> QED
  BY <1>2, <1>3, <1>4, <1>5, <1>6 DEF TrustInv

------------------------------------------------------------------------------
(* processBatch *)

LEMMA StartBatchInv ==
    ASSUME TrustInv, NEW b \in Batches, StartBatch(b)
    PROVE  TrustInv'
<1> USE DEF StartBatch, rows, ends
<1>0. run[b] \in Run /\ queue \in Seq(Capsules) /\ run[b].next = 1
  BY DEF TrustInv, TypeOK, RunOK
<1>1. /\ run' \in [Batches -> Run]
      /\ run[b].stage = "idle" /\ run'[b].stage = "drained"
      /\ run'[b].items = queue /\ run'[b].next = 1 /\ queue # <<>>
      /\ \A d \in Batches : d # b => run'[d] = run[d]
  <2>1. run' = [run EXCEPT ![b] = [run[b] EXCEPT !.stage = "drained", !.items = queue]]
    BY DEF TrustInv, TypeOK
  <2>2. [run[b] EXCEPT !.stage = "drained", !.items = queue] \in Run
    BY <1>0 DEF Run, RunStages
  <2> QED
    BY <1>0, <2>1, <2>2 DEF TrustInv, TypeOK, Run
<1>2. TypeOK'
  BY <1>1 DEF TrustInv, TypeOK
<1>3. \A d \in Batches : RunOK(d)'
  BY <1>1, OtherRuns DEF RunOK
<1>4. \A k \in Calls : CallOK(k)'
  BY DEF TrustInv, CallOK
<1>5. (\A c \in Capsules : LeafOK(c)') /\ LeavesMatchBatch' /\ ToldIsStored'
  BY <1>1, LeavesKept
<1>6. HederaClaimIsTrue'
  BY DEF TrustInv, HederaClaimIsTrue
<1>7. AcceptedIsHeld'
  <2> SUFFICES ASSUME stops = 0, ~poisoned, NEW k \in Calls, call[k].stage = "queued"
               PROVE  Held(call[k].capsule)' \/ Told(call[k].capsule)'
    BY DEF AcceptedIsHeld
  <2> DEFINE c == call[k].capsule
  <2>1. CASE Told(c)
    BY <2>1 DEF Told
  <2>2. CASE \E i \in 1 .. Len(queue) : queue[i] = c
    BY <1>1, <2>2 DEF Held, Active
  <2>3. CASE \E d \in Batches : Active(d) /\ \E i \in run[d].next .. Len(run[d].items) :
                                                run[d].items[i] = c
    BY <1>1, <2>3 DEF Held, Active
  <2> QED
    BY <2>1, <2>2, <2>3 DEF TrustInv, AcceptedIsHeld, Held
<1> QED
  BY <1>2, <1>3, <1>4, <1>5, <1>6, <1>7 DEF TrustInv

LEMMA CreateBatchInv ==
    ASSUME TrustInv, NEW b \in Batches, CreateBatch(b)
    PROVE  TrustInv'
<1> USE DEF CreateBatch, ends
<1>1. /\ run' \in [Batches -> Run]
      /\ run[b].stage = "drained" /\ run'[b].stage = "created"
      /\ run'[b].items = run[b].items /\ run'[b].next = run[b].next
      /\ \A d \in Batches : d # b => run'[d] = run[d]
  BY GoesKeeps DEF TrustInv, RunStages
<1>2. /\ batch' \in [Batches -> BatchRow]
      /\ batch'[b].root = run[b].items /\ batch'[b].status = "PENDING"
      /\ \A d \in Batches : d # b => batch'[d] = batch[d]
  BY DEF TrustInv, TypeOK, BatchRow, BatchStatuses, Run
<1>3. TypeOK'
  BY <1>1, <1>2 DEF TrustInv, TypeOK
<1>4. \A d \in Batches : RunOK(d)'
  <2>1. RunOK(b)'
    BY <1>1, <1>2 DEF TrustInv, RunOK
  <2> QED
    BY <1>1, <1>2, <2>1, OtherRuns
<1>5. \A k \in Calls : CallOK(k)'
  BY DEF TrustInv, CallOK
<1>6. (\A c \in Capsules : LeafOK(c)') /\ LeavesMatchBatch' /\ ToldIsStored'
  BY <1>1, <1>2, LeavesKept
<1>7. HederaClaimIsTrue'
  BY <1>2 DEF TrustInv, HederaClaimIsTrue, HederaStatuses
<1>8. AcceptedIsHeld'
  BY <1>1, HeldKept DEF Active
<1> QED
  BY <1>3, <1>4, <1>5, <1>6, <1>7, <1>8 DEF TrustInv

LEMMA SubmitInv ==
    ASSUME TrustInv, NEW b \in Batches, NEW s \in Outcomes, NEW onLedger \in BOOLEAN,
           Submit(b, s, onLedger)
    PROVE  TrustInv'
<1> USE DEF Submit, rows, ends
<1>1. /\ run' \in [Batches -> Run]
      /\ run[b].stage = "created" /\ run'[b].stage = "submitted"
      /\ run'[b].items = run[b].items /\ run'[b].next = run[b].next
      /\ run'[b].status = s
      /\ \A d \in Batches : d # b => run'[d] = run[d]
  BY OutcomeAssumption DEF TrustInv, TypeOK, Run, RunStages
<1>2. /\ ledger \subseteq ledger' /\ ledger' \subseteq Batches
      /\ s \in HederaStatuses => b \in ledger'
  BY DEF TrustInv, TypeOK
<1>3. TypeOK'
  BY <1>1, <1>2 DEF TrustInv, TypeOK
<1>4. \A d \in Batches : RunOK(d)'
  <2>1. RunOK(b)'
    BY <1>1, <1>2 DEF TrustInv, RunOK
  <2> QED
    BY <1>1, <1>2, <2>1, OtherRuns
<1>5. \A k \in Calls : CallOK(k)'
  BY DEF TrustInv, CallOK
<1>6. (\A c \in Capsules : LeafOK(c)') /\ LeavesMatchBatch' /\ ToldIsStored'
  BY <1>1, LeavesKept
<1>7. HederaClaimIsTrue'
  BY <1>2 DEF TrustInv, HederaClaimIsTrue
<1>8. AcceptedIsHeld'
  BY <1>1, HeldKept DEF Active
<1> QED
  BY <1>3, <1>4, <1>5, <1>6, <1>7, <1>8 DEF TrustInv

LEMMA SaveStatusInv ==
    ASSUME TrustInv, NEW b \in Batches, SaveStatus(b)
    PROVE  TrustInv'
<1> USE DEF SaveStatus, ends
<1>1. /\ run' \in [Batches -> Run]
      /\ run[b].stage = "submitted" /\ run'[b].stage = "anchored"
      /\ run'[b].items = run[b].items /\ run'[b].next = run[b].next
      /\ run'[b].status = run[b].status
      /\ \A d \in Batches : d # b => run'[d] = run[d]
  BY GoesKeeps DEF TrustInv, RunStages
<1>2. /\ batch' \in [Batches -> BatchRow]
      /\ batch'[b].root = batch[b].root /\ batch'[b].status = run[b].status
      /\ \A d \in Batches : d # b => batch'[d] = batch[d]
  BY DEF TrustInv, TypeOK, BatchRow, Run
<1>3. TypeOK'
  BY <1>1, <1>2 DEF TrustInv, TypeOK
<1>4. \A d \in Batches : RunOK(d)'
  <2>1. RunOK(b)'
    BY <1>1, <1>2 DEF TrustInv, RunOK
  <2> QED
    BY <1>1, <1>2, <2>1, OtherRuns
<1>5. \A k \in Calls : CallOK(k)'
  BY DEF TrustInv, CallOK
<1>6. (\A c \in Capsules : LeafOK(c)') /\ LeavesMatchBatch' /\ ToldIsStored'
  BY <1>1, <1>2, LeavesKept
<1>7. HederaClaimIsTrue'
  BY <1>1, <1>2 DEF TrustInv, HederaClaimIsTrue, RunOK
<1>8. AcceptedIsHeld'
  BY <1>1, HeldKept DEF Active
<1> QED
  BY <1>3, <1>4, <1>5, <1>6, <1>7, <1>8 DEF TrustInv

\* Where IndexOf finds an item.
LEMMA IndexOfItem ==
    ASSUME NEW b, NEW c \in Items(b)
    PROVE  /\ IndexOf(b, c) \in 1 .. Len(run[b].items)
           /\ run[b].items[IndexOf(b, c)] = c
BY DEF Items, IndexOf

LEMMA StoreLeavesInv ==
    ASSUME TrustInv, NEW b \in Batches, StoreLeaves(b)
    PROVE  TrustInv'
<1> USE DEF StoreLeaves, ends
<1>1. /\ run' \in [Batches -> Run]
      /\ run[b].stage = "anchored" /\ run'[b].stage = "notifying"
      /\ run'[b].items = run[b].items /\ run'[b].next = run[b].next
      /\ run'[b].status = run[b].status
      /\ \A d \in Batches : d # b => run'[d] = run[d]
  BY GoesKeeps DEF TrustInv, RunStages
<1>2. /\ run[b].items \in Seq(Capsules) /\ run[b].items # <<>> /\ run[b].next = 1
      /\ run[b].status \in Outcomes
      /\ batch[b].root = run[b].items /\ batch[b].status = run[b].status
  BY <1>1 DEF TrustInv, TypeOK, Run, RunOK
<1>3. \A c \in Capsules : c \notin Items(b) => leaf'[c] = leaf[c]
  OBVIOUS
<1>4. \A c \in Capsules : c \in Items(b) =>
         /\ leaf[c] = NoLeaf
         /\ leaf'[c] = [batch |-> b, index |-> IndexOf(b, c)]
         /\ IndexOf(b, c) \in 1 .. Len(run[b].items)
         /\ run[b].items[IndexOf(b, c)] = c
         /\ leaf'[c] # NoLeaf /\ leaf'[c].batch = b
         /\ leaf'[c].index = IndexOf(b, c)
  <2> SUFFICES ASSUME NEW c \in Capsules, c \in Items(b)
               PROVE  /\ leaf[c] = NoLeaf
                      /\ leaf'[c] = [batch |-> b, index |-> IndexOf(b, c)]
                      /\ IndexOf(b, c) \in 1 .. Len(run[b].items)
                      /\ run[b].items[IndexOf(b, c)] = c
                      /\ leaf'[c] # NoLeaf /\ leaf'[c].batch = b
                      /\ leaf'[c].index = IndexOf(b, c)
    OBVIOUS
  <2>1. leaf[c] = NoLeaf /\ leaf'[c] = [batch |-> b, index |-> IndexOf(b, c)]
    BY DEF Storable
  <2>2. IndexOf(b, c) \in 1 .. Len(run[b].items) /\ run[b].items[IndexOf(b, c)] = c
    BY IndexOfItem
  <2>3. Len(run[b].items) \in Nat
    BY <1>2
  <2> QED
    BY <2>1, <2>2, <2>3 DEF NoLeaf
<1>5. TypeOK'
  <2>1. leaf' \in [Capsules -> Leaf]
    <3>1. Len(run[b].items) \in Nat
      BY <1>2
    <3> QED
      BY <1>4, <3>1 DEF TrustInv, TypeOK, Leaf
  <2> QED
    BY <1>1, <2>1 DEF TrustInv, TypeOK
<1>6. \A c \in Capsules : leaf[c] # NoLeaf => leaf'[c] = leaf[c]
  BY <1>3, <1>4
<1>7. \A d \in Batches : RunOK(d)'
  <2>1. \A i \in 1 .. Len(run[b].items) :
           run[b].items[i] \in Capsules /\ run[b].items[i] \in Items(b)
    BY <1>2 DEF Items
  <2>2. 1 \in 1 .. Len(run[b].items)
    BY <1>2
  <2>3. RunOK(b)'
    BY <1>1, <1>2, <1>4, <2>1, <2>2 DEF TrustInv, RunOK
  <2> QED
    BY <1>1, <1>6, <2>3, OtherRuns
<1>8. \A k \in Calls : CallOK(k)'
  BY DEF TrustInv, CallOK
<1>9. \A c \in Capsules : LeafOK(c)'
  BY <1>1, <1>3, <1>4 DEF TrustInv, LeafOK
<1>10. LeavesMatchBatch'
  <2> SUFFICES ASSUME NEW c \in Capsules, leaf'[c] # NoLeaf
               PROVE  /\ batch[leaf'[c].batch].status \notin {"ABSENT", "PENDING"}
                      /\ leaf'[c].index \in 1 .. Len(batch[leaf'[c].batch].root)
                      /\ batch[leaf'[c].batch].root[leaf'[c].index] = c
    BY DEF LeavesMatchBatch
  <2>1. CASE c \in Items(b)
    BY <1>2, <1>4, <2>1, OutcomeAssumption DEF BatchStatuses
  <2>2. CASE c \notin Items(b)
    BY <1>3, <2>2 DEF TrustInv, LeavesMatchBatch
  <2> QED
    BY <2>1, <2>2
<1>11. ToldIsStored'
  BY <1>6 DEF TrustInv, TypeOK, ToldIsStored
<1>12. HederaClaimIsTrue'
  BY DEF TrustInv, HederaClaimIsTrue
<1>13. AcceptedIsHeld'
  BY <1>1, HeldKept DEF Active
<1> QED
  BY <1>5, <1>7, <1>8, <1>9, <1>10, <1>11, <1>12, <1>13 DEF TrustInv

LEMMA NotifyInv ==
    ASSUME TrustInv, NEW b \in Batches, Notify(b)
    PROVE  TrustInv'
<1> USE DEF Notify, rows, ends
<1> DEFINE n == run[b].next
           c == run[b].items[n]
<1>1. /\ run[b] \in Run /\ run[b].items \in Seq(Capsules)
      /\ n \in 1 .. Len(run[b].items) /\ c \in Capsules
      /\ leaf[c] # NoLeaf /\ leaf[c].batch = b
      /\ batch[b].status = run[b].status
  BY DEF TrustInv, TypeOK, Run, RunOK
<1>2. /\ run' \in [Batches -> Run]
      /\ run'[b].stage = IF n = Len(run[b].items) THEN "done" ELSE "notifying"
      /\ run'[b].items = run[b].items /\ run'[b].next = n + 1
      /\ run'[b].status = run[b].status
      /\ \A d \in Batches : d # b => run'[d] = run[d]
  <2> DEFINE to == IF n = Len(run[b].items) THEN "done" ELSE "notifying"
  <2>1. run' = [run EXCEPT ![b] = [run[b] EXCEPT !.next = n + 1, !.stage = to]]
    BY DEF TrustInv, TypeOK
  <2>2. [run[b] EXCEPT !.next = n + 1, !.stage = to] \in Run
    <3>1. Len(run[b].items) \in Nat
      BY <1>1
    <3>2. n + 1 \in Nat /\ to \in RunStages
      BY <1>1, <3>1 DEF RunStages
    <3> QED
      BY <1>1, <3>2 DEF Run
  <2> QED
    BY <1>1, <2>1, <2>2 DEF TrustInv, TypeOK, Run
<1>3. told' = told \cup {[capsule |-> c, batch |-> b, status |-> run[b].status]}
  OBVIOUS
<1>4. TypeOK'
  BY <1>1, <1>2 DEF TrustInv, TypeOK, Run
<1>5. \A d \in Batches : RunOK(d)'
  <2>1. n \in Nat /\ Len(run[b].items) \in Nat
    BY <1>1
  <2>2. RunOK(b)'
    BY <1>1, <1>2, <2>1 DEF TrustInv, RunOK
  <2> QED
    BY <1>2, <2>2, OtherRuns
<1>6. \A k \in Calls : CallOK(k)'
  BY DEF TrustInv, CallOK
<1>7. \A d \in Capsules : LeafOK(d)'
  BY <1>2 DEF TrustInv, LeafOK
<1>8. LeavesMatchBatch' /\ HederaClaimIsTrue'
  BY DEF TrustInv, LeavesMatchBatch, HederaClaimIsTrue
<1>9. ToldIsStored'
  BY <1>1, <1>3 DEF TrustInv, ToldIsStored
<1>10. AcceptedIsHeld'
  <2> SUFFICES ASSUME stops = 0, ~poisoned, NEW k \in Calls, call[k].stage = "queued"
               PROVE  Held(call[k].capsule)' \/ Told(call[k].capsule)'
    BY DEF AcceptedIsHeld
  <2> DEFINE x == call[k].capsule
  <2>1. CASE Told(x)
    BY <1>3, <2>1 DEF Told
  <2>2. CASE \E i \in 1 .. Len(queue) : queue[i] = x
    BY <2>2 DEF Held
  <2>3. ASSUME NEW d \in Batches, Active(d), d # b,
               NEW i \in run[d].next .. Len(run[d].items), run[d].items[i] = x
        PROVE  Held(x)'
    BY <1>2, <2>3 DEF Held, Active
  <2>4. ASSUME NEW i \in n .. Len(run[b].items), run[b].items[i] = x
        PROVE  Held(x)' \/ Told(x)'
    <3>1. CASE i = n
      <4>1. [capsule |-> x, batch |-> b, status |-> run[b].status] \in told'
        BY <1>3, <2>4, <3>1
      <4> QED
        BY <4>1 DEF Told
    <3>2. CASE i # n
      <4>1. i \in n + 1 .. Len(run[b].items) /\ n # Len(run[b].items)
        BY <1>1, <3>2
      <4> QED
        BY <1>2, <2>4, <4>1 DEF Held, Active
    <3> QED
      BY <3>1, <3>2
  <2> QED
    BY <2>1, <2>2, <2>3, <2>4 DEF TrustInv, AcceptedIsHeld, Held
<1> QED
  BY <1>4, <1>5, <1>6, <1>7, <1>8, <1>9, <1>10 DEF TrustInv

------------------------------------------------------------------------------
(* The process ends *)

LEMMA LoseMemoryInv ==
    ASSUME TrustInv, LoseMemory, stops' \in Nat, poisoned' \in BOOLEAN,
           stops' # 0 \/ poisoned'
    PROVE  TrustInv'
<1> USE DEF LoseMemory, rows
<1>1. /\ run' \in [Batches -> Run]
      /\ \A b \in Batches :
           \/ run'[b] = run[b]
           \/ run'[b].stage = "lost"
  BY DEF TrustInv, TypeOK, Run, RunStages, Active
<1>2. TypeOK'
  BY <1>1 DEF TrustInv, TypeOK, Call
<1>3. \A b \in Batches : RunOK(b)'
  BY <1>1 DEF TrustInv, RunOK
<1>4. \A k \in Calls : CallOK(k)'
  BY DEF TrustInv, TypeOK, Call, CallOK
<1>5. (\A c \in Capsules : LeafOK(c)') /\ LeavesMatchBatch' /\ ToldIsStored'
  BY <1>1, LeavesKept
<1>6. HederaClaimIsTrue'
  BY DEF TrustInv, HederaClaimIsTrue
<1>7. AcceptedIsHeld'
  BY DEF AcceptedIsHeld
<1> QED
  BY <1>2, <1>3, <1>4, <1>5, <1>6, <1>7 DEF TrustInv

LEMMA StopInv == ASSUME TrustInv, Stop PROVE TrustInv'
<1>1. stops \in Nat /\ poisoned \in BOOLEAN
  BY DEF TrustInv, TypeOK
<1>2. stops' \in Nat /\ stops' # 0 /\ poisoned' \in BOOLEAN
  BY <1>1 DEF Stop
<1> QED
  BY <1>2, LoseMemoryInv DEF Stop

LEMMA PoisonInv == ASSUME TrustInv, NEW b \in Batches, Poison(b) PROVE TrustInv'
<1>1. stops' \in Nat /\ poisoned' = TRUE
  BY DEF Poison, TrustInv, TypeOK
<1> QED
  BY <1>1, LoseMemoryInv DEF Poison

------------------------------------------------------------------------------

LEMMA NextTrustInv == ASSUME TrustInv, [Next]_vars PROVE TrustInv'
<1>1. ASSUME NEW k \in Calls, NEW c \in Capsules, Receive(k, c) PROVE TrustInv'
  BY <1>1, ReceiveInv
<1>2. ASSUME NEW k \in Calls, Push(k) PROVE TrustInv'
  BY <1>2, PushInv
<1>3. ASSUME NEW b \in Batches, StartBatch(b) PROVE TrustInv'
  BY <1>3, StartBatchInv
<1>4. ASSUME NEW b \in Batches, Advance(b) PROVE TrustInv'
  <2>1. ASSUME NEW s \in Outcomes, NEW onLedger \in BOOLEAN, Submit(b, s, onLedger)
        PROVE  TrustInv'
    BY <2>1, SubmitInv
  <2> QED
    BY <1>4, <2>1, CreateBatchInv, SaveStatusInv, StoreLeavesInv, NotifyInv, PoisonInv
       DEF Advance
<1>5. CASE UNCHANGED vars
  <2>1. TypeOK' /\ (\A k \in Calls : CallOK(k)')
    BY <1>5 DEF vars, TrustInv, TypeOK, CallOK
  <2>2. (\A b \in Batches : RunOK(b)') /\ (\A c \in Capsules : LeafOK(c)')
    BY <1>5 DEF vars, TrustInv, RunOK, LeafOK
  <2>3. LeavesMatchBatch' /\ ToldIsStored' /\ HederaClaimIsTrue'
    BY <1>5 DEF vars, TrustInv, LeavesMatchBatch, ToldIsStored, HederaClaimIsTrue
  <2>4. AcceptedIsHeld'
    BY <1>5, HeldKept DEF vars, Active
  <2> QED
    BY <2>1, <2>2, <2>3, <2>4 DEF TrustInv
<1>6. CASE Stop
  BY <1>6, StopInv
<1> QED
  BY <1>1, <1>2, <1>3, <1>4, <1>5, <1>6 DEF Next, Idle

LEMMA TrustInvHolds == Spec => []TrustInv
BY InitTrustInv, NextTrustInv, PTL DEF Spec

\* Every variable of the Trust Service keeps to its kind.
THEOREM TrustTypeHolds == Spec => []TypeOK
<1>1. TrustInv => TypeOK
  BY DEF TrustInv
<1> QED
  BY <1>1, TrustInvHolds, PTL

\* What verifyCapsule finds for a stored leaf is a batch with an outcome whose
\* root commits to the capsule at that index, however batches overlap and
\* wherever the process stops.
THEOREM LeavesMatchHolds == Spec => []LeavesMatchBatch
<1>1. TrustInv => LeavesMatchBatch
  BY DEF TrustInv
<1> QED
  BY <1>1, TrustInvHolds, PTL

\* notifyEvidenceService only ever tells of anchors that are stored, with the
\* status that is stored.
THEOREM ToldIsStoredHolds == Spec => []ToldIsStored
<1>1. TrustInv => ToldIsStored
  BY DEF TrustInv
<1> QED
  BY <1>1, TrustInvHolds, PTL

\* A row that claims a Hedera anchor has its root on the topic.
THEOREM HederaClaimHolds == Spec => []HederaClaimIsTrue
<1>1. TrustInv => HederaClaimIsTrue
  BY DEF TrustInv
<1> QED
  BY <1>1, TrustInvHolds, PTL

\* While the process lives, a hash that queueForAnchor accepted is in the
\* queue, in a batch under way, or reported.
THEOREM AcceptedIsHeldHolds == Spec => []AcceptedIsHeld
<1>1. TrustInv => AcceptedIsHeld
  BY DEF TrustInv
<1> QED
  BY <1>1, TrustInvHolds, PTL

==============================================================================
