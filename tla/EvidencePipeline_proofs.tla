------------------------ MODULE EvidencePipeline_proofs ------------------------
(***************************************************************************)
(* Proofs about EvidencePipeline, for every set of capsules, requests and  *)
(* calls.                                                                  *)
(***************************************************************************)
EXTENDS EvidencePipeline, EvidenceCapsule_proofs, BatchTrees, WellFoundedInduction

TrustP == INSTANCE TrustAnchor_proofs WITH Calls <- TrustCalls, call <- trustCall,
                                           Outcomes <- AnchorStates

------------------------------------------------------------------------------
(* The Trust Service's lemmas, stated for this composition *)

LEMMA TrustAssumptions ==
    /\ AnchorStates \subseteq TrustP!BatchStatuses \ {"PENDING"}
    /\ MaxStops \in Nat
BY PipelineAssumption DEF TrustP!BatchStatuses

LEMMA TrustInit == Trust!Init <=> TrustP!Init
BY DEF Trust!Init, TrustP!Init, Trust!NoRun, TrustP!NoRun, Trust!NoLeaf, TrustP!NoLeaf,
       Trust!None, TrustP!None

LEMMA TrustReceive ==
    ASSUME NEW k, NEW c PROVE Trust!Receive(k, c) <=> TrustP!Receive(k, c)
BY DEF Trust!Receive, TrustP!Receive, Trust!NextCall, TrustP!NextCall, Trust!NoLeaf, TrustP!NoLeaf,
       Trust!None, TrustP!None, Trust!rows, TrustP!rows, Trust!ends, TrustP!ends

LEMMA TrustPush == ASSUME NEW k PROVE Trust!Push(k) <=> TrustP!Push(k)
BY DEF Trust!Push, TrustP!Push, Trust!rows, TrustP!rows, Trust!ends, TrustP!ends

LEMMA TrustStart == ASSUME NEW b PROVE Trust!StartBatch(b) <=> TrustP!StartBatch(b)
BY DEF Trust!StartBatch, TrustP!StartBatch, Trust!NewBatch, TrustP!NewBatch, Trust!rows, TrustP!rows,
       Trust!ends, TrustP!ends

LEMMA TrustItems ==
    ASSUME NEW b
    PROVE  /\ Trust!Items(b) = TrustP!Items(b)
           /\ Trust!Storable(b) <=> TrustP!Storable(b)
           /\ \A c : Trust!IndexOf(b, c) = TrustP!IndexOf(b, c)
           /\ Trust!NoLeaf = TrustP!NoLeaf
<1>1. Trust!Items(b) = TrustP!Items(b) /\ Trust!NoLeaf = TrustP!NoLeaf
  BY DEF Trust!Items, TrustP!Items, Trust!NoLeaf, TrustP!NoLeaf, Trust!None, TrustP!None
<1>2. \A c : Trust!IndexOf(b, c) = TrustP!IndexOf(b, c)
  BY DEF Trust!IndexOf, TrustP!IndexOf
<1>3. Trust!Storable(b) <=> TrustP!Storable(b)
  <2>1. \A S : Trust!Cardinality(S) = TrustP!Cardinality(S)
    BY DEF Trust!Cardinality, TrustP!Cardinality
  <2> QED
    BY <1>1, <2>1 DEF Trust!Storable, TrustP!Storable
<1> QED
  BY <1>1, <1>2, <1>3

LEMMA TrustStores ==
    ASSUME NEW b PROVE Trust!StoreLeaves(b) <=> TrustP!StoreLeaves(b)
<1>1. Trust!Goes(b, "anchored", "notifying") <=> TrustP!Goes(b, "anchored", "notifying")
  BY DEF Trust!Goes, TrustP!Goes
<1>2. [c \in Capsules |-> IF c \in Trust!Items(b) THEN [batch |-> b, index |-> Trust!IndexOf(b, c)]
                                                  ELSE leaf[c]]
      = [c \in Capsules |-> IF c \in TrustP!Items(b) THEN [batch |-> b, index |-> TrustP!IndexOf(b, c)]
                                                    ELSE leaf[c]]
  BY TrustItems
<1> QED
  BY <1>1, <1>2, TrustItems DEF Trust!StoreLeaves, TrustP!StoreLeaves, Trust!ends, TrustP!ends

LEMMA TrustLoses == Trust!LoseMemory <=> TrustP!LoseMemory
BY DEF Trust!LoseMemory, TrustP!LoseMemory, Trust!Active, TrustP!Active, Trust!rows, TrustP!rows

LEMMA TrustPoisons == ASSUME NEW b PROVE Trust!Poison(b) <=> TrustP!Poison(b)
BY TrustItems, TrustLoses DEF Trust!Poison, TrustP!Poison

LEMMA TrustAdvance == ASSUME NEW b PROVE Trust!Advance(b) <=> TrustP!Advance(b)
<1>1. Trust!CreateBatch(b) <=> TrustP!CreateBatch(b)
  BY DEF Trust!CreateBatch, TrustP!CreateBatch, Trust!Goes, TrustP!Goes, Trust!ends, TrustP!ends
<1>2. \A s, l : Trust!Submit(b, s, l) <=> TrustP!Submit(b, s, l)
  BY DEF Trust!Submit, TrustP!Submit, Trust!HederaStatuses, TrustP!HederaStatuses,
         Trust!rows, TrustP!rows, Trust!ends, TrustP!ends
<1>3. Trust!SaveStatus(b) <=> TrustP!SaveStatus(b)
  BY DEF Trust!SaveStatus, TrustP!SaveStatus, Trust!Goes, TrustP!Goes, Trust!ends, TrustP!ends
<1>4. Trust!Notify(b) <=> TrustP!Notify(b)
  BY DEF Trust!Notify, TrustP!Notify, Trust!rows, TrustP!rows, Trust!ends, TrustP!ends
<1> QED
  BY <1>1, <1>2, <1>3, <1>4, TrustStores, TrustPoisons DEF Trust!Advance, TrustP!Advance

LEMMA TrustStop == Trust!Stop <=> TrustP!Stop
BY TrustLoses DEF Trust!Stop, TrustP!Stop

\* A step of the composition is one of the Trust Service or leaves it alone.
LEMMA TrustSteps ==
    ASSUME [PipelineNext]_pipelineVars PROVE [TrustP!Next]_(TrustP!vars)
<1>1. CASE \E k \in TrustCalls, c \in Capsules : TrustReceives(k, c)
  BY <1>1, TrustReceive DEF TrustReceives, TrustP!Next
<1>2. CASE TrustWorks
  BY <1>2, TrustPush, TrustStart, TrustAdvance, TrustStop DEF TrustWorks, TrustP!Next
<1>3. CASE UNCHANGED trust
  BY <1>3 DEF trust, TrustP!vars
<1> QED
  BY <1>1, <1>2, <1>3 DEF PipelineNext, pipelineVars, EvidenceWorks, WorkflowApproves,
     AiReceives, AiWorks, AiCallback, TrustCallback, PipelineIdle

\* The composition runs the Trust Service as specified.
LEMMA TrustKept == PipelineSpec => TrustP!Spec
<1>1. PipelineInit => TrustP!Init
  BY TrustInit DEF PipelineInit
<1>2. [PipelineNext]_pipelineVars => [TrustP!Next]_(TrustP!vars)
  BY TrustSteps
<1> QED
  BY <1>1, <1>2, PTL DEF PipelineSpec, TrustP!Spec

LEMMA TrustHolds == PipelineSpec => []TrustP!TrustInv
<1>1. TrustP!Init => TrustP!TrustInv
  BY TrustP!InitTrustInv, TrustAssumptions
<1>2. TrustP!TrustInv /\ [TrustP!Next]_(TrustP!vars) => TrustP!TrustInv'
  BY TrustP!NextTrustInv, TrustAssumptions
<1> QED
  BY <1>1, <1>2, TrustKept, PTL DEF TrustP!Spec

------------------------------------------------------------------------------
(* What the services owe each other *)

\* Stages of the AI call that inserted its capsule's job.
Owners == {"scheduled", "running", "persisted"}

\* A job has one call at most that works on it, and none once it is reported.
OwnerOK(k) ==
    LET c == aiCall[k].capsule
    IN  aiCall[k].stage \in Owners =>
            /\ job[c].status # "ABSENT"
            /\ aiCall[k].stage = "persisted"
                 => job[c].status = "COMPLETED" /\ job[c].routing \in Routings
            /\ \A m \in reported : m.capsule # c
            /\ \A l \in AiCalls :
                 aiCall[l].stage \in Owners /\ aiCall[l].capsule = c => l = k

\* The AI Service has one pipeline for a capsule, and reports for no other one.
AiInv ==
    /\ Ai!TypeOK
    /\ \A k \in AiCalls : /\ aiCall[k].stage # "idle" => aiCall[k].capsule \in Capsules
                          /\ OwnerOK(k)
    /\ Ai!OneTrueReport

\* The Trust Service works on capsules it was sent, each approved one way or
\* the other, and reports outcomes it anchored them with.
SentInv ==
    /\ answered \subseteq Capsules
    /\ queue \in Seq(ForAnchoring)
    /\ \A k \in TrustCalls : trustCall[k].stage # "idle" => trustCall[k].capsule \in ForAnchoring
    /\ \A b \in Batches : run[b].items \in Seq(ForAnchoring) /\ batch[b].root \in Seq(ForAnchoring)
    /\ \A m \in told : m.capsule \in ForAnchoring /\ m.status \in AnchorStates

ToldAs(c, s) == \E m \in told : m.capsule = c /\ m.status = s

\* Every anchor a row shows, or a handler read or is to write, was reported.
ReportInv ==
    /\ \A c \in Capsules :
         /\ capsule[c].anchor # None => ToldAs(c, capsule[c].anchor)
         /\ capsule[c].status = "ANCHORED" => capsule[c].anchor # None
    /\ \A r \in Requests :
         /\ req[r].stage \in {"validating", "anchoring", "recordingAi", "savingTally"} =>
              /\ req[r].seen.anchor # None => ToldAs(req[r].capsule, req[r].seen.anchor)
              /\ req[r].seen.status = "ANCHORED" => req[r].seen.anchor # None
         /\ req[r].stage = "anchoring" => ToldAs(req[r].capsule, req[r].input)

LEMMA InitPipeline == PipelineInit => TypeInv /\ CallInv /\ AiInv /\ SentInv /\ ReportInv
<1> SUFFICES ASSUME PipelineInit
             PROVE  TypeInv /\ CallInv /\ AiInv /\ SentInv /\ ReportInv
  OBVIOUS
<1>1. TypeInv /\ CallInv
  BY InitTypeInv, InitCalls DEF PipelineInit
<1>2. AiInv
  <2>1. Ai!TypeOK
    BY DEF PipelineInit, Ai!Init, Ai!TypeOK, Ai!Job, Ai!NoJob, Ai!JobStatuses, Ai!Call,
           Ai!CallStages, Ai!None
  <2>2. (\A k \in AiCalls : aiCall[k].stage = "idle") /\ reported = {}
    BY DEF PipelineInit, Ai!Init
  <2> QED
    BY <2>1, <2>2 DEF AiInv, OwnerOK, Owners, Ai!OneTrueReport
<1>3. SentInv
  <2>1. /\ queue = <<>> /\ told = {} /\ \A k \in TrustCalls : trustCall[k].stage = "idle"
        /\ answered = {}
        /\ \A b \in Batches : /\ run[b].items = <<>> /\ run[b].stage = "idle"
                              /\ batch[b].root = <<>>
    BY DEF PipelineInit, Trust!Init, Trust!NoRun
  <2>2. <<>> \in Seq(ForAnchoring)
    OBVIOUS
  <2> QED
    BY <2>1, <2>2 DEF SentInv
<1>4. ReportInv
  BY DEF PipelineInit, Init, NoRow, Blank, ReportInv, None
<1> QED
  BY <1>1, <1>2, <1>3, <1>4

\* The environment the Evidence Service's own specification assumes is the one
\* the other two services provide: every callback is one it may expect.
LEMMA EvidenceSteps ==
    ASSUME AiInv, SentInv, Ai!TypeOK, TypeInv, [PipelineNext]_pipelineVars
    PROVE  [Next]_vars
<1>1. ASSUME NEW r \in Requests, NEW m \in reported, AiCallback(r, m)
      PROVE  Next
  <2>1. m.capsule \in Capsules /\ m.routing \in Routings
    BY DEF AiInv, Ai!TypeOK
  <2> QED
    BY <1>1, <2>1 DEF AiCallback, Next, Callbacks
<1>2. ASSUME NEW r \in Requests, NEW m \in told, TrustCallback(r, m)
      PROVE  Next
  <2>1. m.capsule \in Capsules /\ m.status \in AnchorStates
    BY DEF SentInv, ForAnchoring, TypeInv, TypeOK
  <2> QED
    BY <1>2, <2>1 DEF TrustCallback, Next, Callbacks
<1>3. ASSUME NEW r \in Requests, EvidenceWorks(r)
      PROVE  Next
  BY <1>3 DEF EvidenceWorks, Next
<1>4. CASE UNCHANGED evidence
  BY <1>4 DEF evidence
<1> QED
  BY <1>1, <1>2, <1>3, <1>4 DEF PipelineNext, pipelineVars, PipelineIdle, WorkflowApproves,
     AiReceives, AiWorks, TrustReceives, TrustWorks

\* A capsule that was sent has its approval on record, or the state machine's.
LEMMA SentApproved ==
    ASSUME TypeInv, CallInv, NEW c \in ForAnchoring, c \notin answered
    PROVE  Approvals(custody[c]) # {}
<1>1. PICK m \in anchorCalls : m.capsule = c
  BY DEF ForAnchoring
<1>2. m.by \in Requests /\ m = [by |-> m.by, capsule |-> c] /\ c \in Capsules
  BY <1>1 DEF TypeInv, TypeOK
<1>3. m.by \in Owing(c)
  BY <1>2 DEF Owing
<1>4. IsFiniteSet(Owing(c)) /\ Cardinality(Owing(c)) \in Nat /\ Cardinality(Owing(c)) # 0
  BY <1>2, <1>3, FS_CardinalityType, FS_EmptySet DEF CallInv
<1>5. Cardinality(Owing(c)) <= Cardinality(Approvals(custody[c]))
  BY <1>2 DEF CallInv
<1>6. Cardinality({}) = 0
  BY FS_EmptySet
<1> QED
  BY <1>4, <1>5, <1>6

------------------------------------------------------------------------------
(* The AI Service *)

\* A step of call k that leaves reports alone.
LEMMA CallMoves ==
    ASSUME Ai!TypeOK, NEW k \in AiCalls, NEW from, NEW to \in Ai!CallStages, Ai!Goes(k, from, to)
    PROVE  /\ aiCall[k].stage = from /\ aiCall' \in [AiCalls -> Ai!Call]
           /\ aiCall'[k].stage = to /\ aiCall'[k].capsule = aiCall[k].capsule
           /\ \A l \in AiCalls : l # k => aiCall'[l] = aiCall[l]
BY DEF Ai!Goes, Ai!TypeOK, Ai!Call

LEMMA AiStep ==
    ASSUME AiInv, NEW k \in AiCalls,
           Ai!Continue(k) \/ \E c \in Capsules : Ai!TriggerRead(k, c)
    PROVE  AiInv'
<1>1. /\ Ai!TypeOK /\ Ai!OneTrueReport
      /\ \A l \in AiCalls : /\ aiCall[l].stage # "idle" => aiCall[l].capsule \in Capsules
                            /\ OwnerOK(l)
      /\ \A m \in reported : m.capsule \in Capsules
  BY DEF AiInv, Ai!TypeOK
<1> DEFINE c == aiCall[k].capsule
<1>2. ASSUME NEW d \in Capsules, Ai!TriggerRead(k, d)
      PROVE  AiInv'
  <2>1. /\ UNCHANGED <<job, reported>>
        /\ aiCall' \in [AiCalls -> Ai!Call]
        /\ aiCall'[k].stage \in {"checked", "known"} /\ aiCall'[k].capsule = d
        /\ \A l \in AiCalls : l # k => aiCall'[l] = aiCall[l]
    BY <1>1, <1>2 DEF Ai!TriggerRead, Ai!TypeOK, Ai!Call, Ai!CallStages
  <2>2. Ai!TypeOK' /\ Ai!OneTrueReport'
    BY <1>1, <2>1 DEF Ai!TypeOK, Ai!OneTrueReport
  <2>3. \A l \in AiCalls : OwnerOK(l)'
    BY <1>1, <2>1 DEF OwnerOK, Owners
  <2> QED
    BY <1>1, <2>1, <2>2, <2>3 DEF AiInv
<1>3. ASSUME NEW to \in {"refused", "ended"}, aiCall[k].stage # "idle", UNCHANGED <<job, reported>>,
             aiCall' = [aiCall EXCEPT ![k].stage = to]
      PROVE  AiInv'
  <2>1. /\ aiCall' \in [AiCalls -> Ai!Call]
        /\ aiCall'[k].stage = to /\ aiCall'[k].capsule = c
        /\ \A l \in AiCalls : l # k => aiCall'[l] = aiCall[l]
    BY <1>1, <1>3 DEF Ai!TypeOK, Ai!Call, Ai!CallStages
  <2>2. Ai!TypeOK' /\ Ai!OneTrueReport'
    BY <1>1, <1>3, <2>1 DEF Ai!TypeOK, Ai!OneTrueReport
  <2>3. \A l \in AiCalls : OwnerOK(l)'
    BY <1>1, <1>3, <2>1 DEF OwnerOK, Owners
  <2> QED
    BY <1>1, <1>3, <2>1, <2>2, <2>3 DEF AiInv
<1>4. ASSUME NEW from, NEW to, NEW row \in Ai!Job, Ai!Goes(k, from, to),
             /\ UNCHANGED reported
             /\ job' = [job EXCEPT ![c] = row]
             /\ row.status # "ABSENT"
             /\ \/ from = "checked" /\ to = "scheduled" /\ job[c].status = "ABSENT"
                \/ from = "scheduled" /\ to = "running"
                \/ from = "running" /\ to = "ended"
                \/ /\ from = "running" /\ to = "persisted"
                   /\ row.status = "COMPLETED" /\ row.routing \in Routings
      PROVE  AiInv'
  <2>1. /\ aiCall[k].stage = from /\ aiCall' \in [AiCalls -> Ai!Call]
        /\ aiCall'[k].stage = to /\ aiCall'[k].capsule = c
        /\ \A l \in AiCalls : l # k => aiCall'[l] = aiCall[l]
    BY <1>1, <1>4, CallMoves DEF Ai!CallStages
  <2>2. c \in Capsules
    BY <1>1, <1>4, <2>1
  <2>3. /\ job' \in [Capsules -> Ai!Job] /\ job'[c] = row
        /\ \A d \in Capsules : d # c => job'[d] = job[d]
    BY <1>1, <1>4, <2>2 DEF Ai!TypeOK
  <2>4. \A m \in reported : m.capsule # c
    BY <1>1, <1>4, <2>1 DEF OwnerOK, Owners, Ai!OneTrueReport
  <2>5. \A l \in AiCalls : l # k /\ aiCall[l].stage \in Owners => aiCall[l].capsule # c
    BY <1>1, <1>4, <2>1 DEF OwnerOK, Owners
  <2>6. Ai!TypeOK'
    BY <1>1, <1>4, <2>1, <2>3 DEF Ai!TypeOK
  <2>7. Ai!OneTrueReport'
    BY <1>1, <1>4, <2>3, <2>4 DEF Ai!OneTrueReport, Ai!TypeOK
  <2>8. OwnerOK(k)'
    BY <1>4, <2>1, <2>3, <2>4, <2>5 DEF OwnerOK, Owners
  <2>9. ASSUME NEW l \in AiCalls, l # k
        PROVE  OwnerOK(l)'
    <3>1. CASE aiCall[l].stage \in Owners
      <4>1. aiCall[l].capsule \in Capsules /\ aiCall[l].capsule # c
        BY <1>1, <2>5, <2>9, <3>1 DEF Owners
      <4> QED
        BY <1>1, <1>4, <2>1, <2>3, <2>9, <4>1 DEF OwnerOK
    <3>2. CASE aiCall[l].stage \notin Owners
      BY <2>1, <2>9, <3>2 DEF OwnerOK
    <3> QED
      BY <3>1, <3>2
  <2> QED
    BY <1>1, <1>4, <2>1, <2>2, <2>6, <2>7, <2>8, <2>9 DEF AiInv
<1>5. CASE Ai!TriggerInsert(k)
  <2> DEFINE row == [Ai!NoJob EXCEPT !.status = "QUEUED", !.attempts = 1]
  <2>1. row \in Ai!Job /\ row.status # "ABSENT"
    BY DEF Ai!NoJob, Ai!Job, Ai!JobStatuses
  <2> HIDE DEF row
  <2>2. job' = [job EXCEPT ![c] = row]
    BY <1>5 DEF Ai!TriggerInsert, row
  <2> QED
    BY <1>4, <1>5, <2>1, <2>2 DEF Ai!TriggerInsert
<1>6. CASE Ai!PipelineStart(k)
  <2> DEFINE row == [job[c] EXCEPT !.status = "PROCESSING"]
  <2>1. Ai!Goes(k, "scheduled", "running") /\ job' = [job EXCEPT ![c] = row]
    BY <1>6 DEF Ai!PipelineStart
  <2>2. row \in Ai!Job /\ row.status # "ABSENT"
    <3>1. job[c] \in Ai!Job
      BY <1>1, <2>1 DEF Ai!TypeOK, Ai!Goes
    <3> QED
      BY <3>1 DEF Ai!Job, Ai!JobStatuses
  <2> HIDE DEF row
  <2> QED
    BY <1>4, <1>6, <2>1, <2>2 DEF Ai!PipelineStart
<1>7. CASE Ai!PipelineFails(k)
  <2> DEFINE canRetry == job[c].attempts < MaxAttempts
             s == IF canRetry THEN "QUEUED" ELSE "FAILED"
             row == [job[c] EXCEPT !.status = s, !.attempts = job[c].attempts + 1, !.retry = canRetry]
  <2>1. Ai!Goes(k, "running", "ended") /\ job' = [job EXCEPT ![c] = row]
    BY <1>7 DEF Ai!PipelineFails
  <2>2. row \in Ai!Job /\ row.status # "ABSENT"
    <3>1. job[c] \in Ai!Job /\ job[c].attempts \in Nat
      BY <1>1, <2>1 DEF Ai!TypeOK, Ai!Goes, Ai!Job
    <3>2. s \in Ai!JobStatuses /\ s # "ABSENT" /\ canRetry \in BOOLEAN /\ job[c].attempts + 1 \in Nat
      BY <3>1 DEF Ai!JobStatuses
    <3> HIDE DEF s, canRetry
    <3> QED
      BY <3>1, <3>2 DEF Ai!Job
  <2> HIDE DEF row
  <2> QED
    BY <1>4, <1>7, <2>1, <2>2 DEF Ai!PipelineFails
<1>8. ASSUME NEW d \in Routings, Ai!PipelinePersist(k, d)
      PROVE  AiInv'
  <2> DEFINE row == [job[c] EXCEPT !.status = "COMPLETED", !.routing = d]
  <2>1. Ai!Goes(k, "running", "persisted") /\ job' = [job EXCEPT ![c] = row]
    BY <1>8 DEF Ai!PipelinePersist
  <2>2. row \in Ai!Job /\ row.status = "COMPLETED" /\ row.routing \in Routings
    <3>1. job[c] \in Ai!Job
      BY <1>1, <2>1 DEF Ai!TypeOK, Ai!Goes
    <3> QED
      BY <3>1 DEF Ai!Job, Ai!JobStatuses
  <2> HIDE DEF row
  <2> QED
    BY <1>4, <1>8, <2>1, <2>2 DEF Ai!PipelinePersist
<1>9. CASE Ai!PipelineReport(k)
  <2> DEFINE m == [by |-> k, capsule |-> c, routing |-> job[c].routing]
  <2>1. /\ aiCall[k].stage = "persisted" /\ aiCall' \in [AiCalls -> Ai!Call]
        /\ aiCall'[k].stage = "ended" /\ aiCall'[k].capsule = c
        /\ \A l \in AiCalls : l # k => aiCall'[l] = aiCall[l]
    BY <1>1, <1>9, CallMoves DEF Ai!PipelineReport, Ai!CallStages
  <2>2. /\ c \in Capsules /\ job[c].status = "COMPLETED" /\ job[c].routing \in Routings
        /\ \A n \in reported : n.capsule # c
        /\ \A l \in AiCalls : l # k /\ aiCall[l].stage \in Owners => aiCall[l].capsule # c
    BY <1>1, <2>1 DEF OwnerOK, Owners
  <2>3. reported' = reported \cup {m} /\ UNCHANGED job
    BY <1>9 DEF Ai!PipelineReport
  <2>4. m.capsule = c /\ m.routing = job[c].routing /\ m \in [by : AiCalls, capsule : Capsules, routing : Routings]
    BY <2>2
  <2>5. Ai!TypeOK' /\ Ai!OneTrueReport'
    <3> HIDE DEF m
    <3> QED BY <1>1, <2>1, <2>2, <2>3, <2>4 DEF Ai!TypeOK, Ai!OneTrueReport
  <2>6. \A l \in AiCalls : OwnerOK(l)'
    <3> HIDE DEF m
    <3> QED BY <1>1, <2>1, <2>2, <2>3, <2>4 DEF OwnerOK, Owners
  <2> QED
    <3> HIDE DEF m
    <3> QED BY <1>1, <2>1, <2>2, <2>3, <2>4, <2>5, <2>6 DEF AiInv
<1>10. CASE Ai!TriggerRefused(k)
  BY <1>3, <1>10 DEF Ai!TriggerRefused, Ai!Goes
<1>11. CASE Ai!PipelineLost(k)
  BY <1>3, <1>11 DEF Ai!PipelineLost
<1> QED
  BY <1>2, <1>5, <1>6, <1>7, <1>8, <1>9, <1>10, <1>11 DEF Ai!Continue

\* The AI Service's jobs and reports stay in order whatever the others do.
LEMMA NextAi ==
    ASSUME AiInv, [PipelineNext]_pipelineVars PROVE AiInv'
<1>1. ASSUME NEW k \in AiCalls, NEW c \in Capsules, AiReceives(k, c)
      PROVE  AiInv'
  BY <1>1, AiStep DEF AiReceives
<1>2. ASSUME NEW k \in AiCalls, AiWorks(k)
      PROVE  AiInv'
  BY <1>2, AiStep DEF AiWorks
<1>3. CASE UNCHANGED ai
  BY <1>3 DEF ai, AiInv, OwnerOK, Ai!TypeOK, Ai!OneTrueReport
<1> QED
  BY <1>1, <1>2, <1>3 DEF PipelineNext, pipelineVars, EvidenceWorks, WorkflowApproves,
     TrustReceives, TrustWorks, AiCallback, TrustCallback, PipelineIdle

------------------------------------------------------------------------------
(* The Trust Service *)

LEMMA SeqGrows == ASSUME NEW S, NEW T, S \subseteq T PROVE Seq(S) \subseteq Seq(T)
<1> SUFFICES ASSUME NEW s \in Seq(S) PROVE s \in Seq(T)
  OBVIOUS
<1>1. Len(s) \in Nat /\ s \in [1 .. Len(s) -> S]
  OBVIOUS
<1>2. s \in [1 .. Len(s) -> T]
  BY <1>1
<1> QED
  BY <1>1, <1>2, SeqDef

\* A step that leaves the Trust Service alone.
LEMMA SentKept ==
    ASSUME SentInv, UNCHANGED trust, anchorCalls \subseteq anchorCalls',
           answered \subseteq answered', answered' \subseteq Capsules
    PROVE  SentInv'
<1>1. ForAnchoring \subseteq ForAnchoring'
  BY DEF ForAnchoring
<1>2. Seq(ForAnchoring) \subseteq Seq(ForAnchoring')
  BY <1>1, SeqGrows
<1> QED
  BY <1>1, <1>2 DEF SentInv, trust

\* The items of the runs that a step leaves alone, or only moves on.
LEMMA RunKept ==
    ASSUME TrustP!TypeOK, SentInv, queue' = queue, trustCall' = trustCall, batch' = batch,
           UNCHANGED <<anchorCalls, answered>>,
           \A b \in Batches : run'[b].items = run[b].items,
           \A m \in told' : m.capsule \in ForAnchoring /\ m.status \in AnchorStates
    PROVE  SentInv'
BY DEF SentInv, ForAnchoring

LEMMA SentLoses ==
    ASSUME TrustP!TypeOK, SentInv, UNCHANGED <<anchorCalls, answered>>, TrustP!LoseMemory
    PROVE  SentInv'
<1>1. \A b \in Batches : run'[b].items = run[b].items
  BY DEF TrustP!LoseMemory, TrustP!TypeOK, TrustP!Run
<1>2. \A k \in TrustCalls : /\ trustCall'[k].capsule = trustCall[k].capsule
                            /\ trustCall[k].stage = "idle" => trustCall'[k].stage = "idle"
  BY DEF TrustP!LoseMemory, TrustP!TypeOK, TrustP!Call
<1>3. queue' = <<>> /\ <<>> \in Seq(ForAnchoring) /\ UNCHANGED <<batch, told>>
  BY DEF TrustP!LoseMemory, TrustP!rows
<1> QED
  BY <1>1, <1>2, <1>3 DEF SentInv, ForAnchoring

LEMMA SentStep ==
    ASSUME TrustP!TrustInv, SentInv, UNCHANGED <<anchorCalls, answered>>,
           \/ \E k \in TrustCalls, c \in ForAnchoring : TrustP!Receive(k, c)
           \/ \E k \in TrustCalls : TrustP!Push(k)
           \/ \E b \in Batches : TrustP!StartBatch(b) \/ TrustP!Advance(b)
           \/ TrustP!Stop
    PROVE  SentInv'
<1>1. ForAnchoring' = ForAnchoring
  BY DEF ForAnchoring
<1>2. /\ run \in [Batches -> TrustP!Run] /\ trustCall \in [TrustCalls -> TrustP!Call]
      /\ batch \in [Batches -> TrustP!BatchRow] /\ TrustP!TypeOK
  BY DEF TrustP!TrustInv, TrustP!TypeOK
<1>3. ASSUME NEW k \in TrustCalls, NEW c \in ForAnchoring, TrustP!Receive(k, c)
      PROVE  SentInv'
  BY <1>1, <1>2, <1>3 DEF TrustP!Receive, TrustP!rows, TrustP!ends, SentInv
<1>4. ASSUME NEW k \in TrustCalls, TrustP!Push(k)
      PROVE  SentInv'
  <2>1. trustCall[k].capsule \in ForAnchoring
    BY <1>4 DEF TrustP!Push, SentInv
  <2>2. queue' \in Seq(ForAnchoring)
    BY <1>4, <2>1 DEF TrustP!Push, SentInv
  <2>3. \A l \in TrustCalls : /\ trustCall'[l].capsule = trustCall[l].capsule
                              /\ trustCall'[l].stage # "idle" => trustCall[l].stage # "idle"
    BY <1>2, <1>4 DEF TrustP!Push, TrustP!Call
  <2> QED
    BY <1>1, <1>4, <2>2, <2>3 DEF TrustP!Push, TrustP!rows, TrustP!ends, SentInv
<1>5. ASSUME NEW b \in Batches, TrustP!StartBatch(b)
      PROVE  SentInv'
  <2>1. /\ run'[b].items = queue /\ run'[b].stage = "drained"
        /\ \A d \in Batches : d # b => run'[d] = run[d]
    BY <1>2, <1>5 DEF TrustP!StartBatch, TrustP!Run
  <2>2. queue' = <<>> /\ <<>> \in Seq(ForAnchoring)
    BY <1>5 DEF TrustP!StartBatch
  <2> QED
    BY <1>1, <1>5, <2>1, <2>2 DEF TrustP!StartBatch, TrustP!rows, TrustP!ends, SentInv
<1>6. ASSUME NEW b \in Batches, TrustP!Advance(b)
      PROVE  SentInv'
  <2>1. CASE TrustP!CreateBatch(b)
    <3>1. /\ \A d \in Batches : d # b => run'[d] = run[d] /\ batch'[d] = batch[d]
          /\ run'[b].items = run[b].items /\ run'[b].stage = "created"
          /\ batch'[b].root = run[b].items
      BY <1>2, <2>1 DEF TrustP!CreateBatch, TrustP!Goes, TrustP!Run
    <3> QED
      BY <1>1, <2>1, <3>1 DEF TrustP!CreateBatch, TrustP!ends, SentInv
  <2>2. ASSUME NEW s \in AnchorStates, NEW l \in BOOLEAN, TrustP!Submit(b, s, l)
        PROVE  SentInv'
    <3>1. \A d \in Batches : run'[d].items = run[d].items
      BY <1>2, <2>2 DEF TrustP!Submit, TrustP!Run
    <3>2. queue' = queue /\ trustCall' = trustCall /\ batch' = batch /\ told' = told
      BY <2>2 DEF TrustP!Submit, TrustP!rows
    <3>3. \A m \in told' : m.capsule \in ForAnchoring /\ m.status \in AnchorStates
      BY <3>2 DEF SentInv
    <3>4. TrustP!TypeOK /\ SentInv /\ UNCHANGED <<anchorCalls, answered>>
      BY <1>2
    <3> QED
      BY <3>1, <3>2, <3>3, <3>4, RunKept
  <2>3. CASE TrustP!SaveStatus(b)
    <3>1. /\ \A d \in Batches : d # b => run'[d] = run[d] /\ batch'[d] = batch[d]
          /\ run'[b].items = run[b].items /\ run'[b].status = run[b].status
          /\ run[b].stage = "submitted" /\ batch'[b].root = batch[b].root
      BY <1>2, <2>3 DEF TrustP!SaveStatus, TrustP!Goes, TrustP!Run, TrustP!BatchRow
    <3> QED
      BY <1>1, <2>3, <3>1 DEF TrustP!SaveStatus, TrustP!ends, SentInv
  <2>4. CASE TrustP!StoreLeaves(b)
    <3>1. \A d \in Batches : run'[d].items = run[d].items
      BY <1>2, <2>4 DEF TrustP!StoreLeaves, TrustP!Goes, TrustP!Run
    <3>2. queue' = queue /\ trustCall' = trustCall /\ batch' = batch /\ told' = told
      BY <2>4 DEF TrustP!StoreLeaves
    <3>3. \A m \in told' : m.capsule \in ForAnchoring /\ m.status \in AnchorStates
      BY <3>2 DEF SentInv
    <3>4. TrustP!TypeOK /\ SentInv /\ UNCHANGED <<anchorCalls, answered>>
      BY <1>2
    <3> QED
      BY <3>1, <3>2, <3>3, <3>4, RunKept
  <2>5. CASE TrustP!Notify(b)
    <3> DEFINE m == [capsule |-> run[b].items[run[b].next], batch |-> b, status |-> run[b].status]
    <3>1. \A d \in Batches : run'[d].items = run[d].items
      BY <1>2, <2>5 DEF TrustP!Notify, TrustP!Run
    <3>2. run[b].next \in 1 .. Len(run[b].items) /\ run[b].status \in AnchorStates
      BY <2>5 DEF TrustP!Notify, TrustP!TrustInv, TrustP!RunOK
    <3>3. m.capsule \in ForAnchoring /\ m.status \in AnchorStates
      BY <3>2 DEF SentInv
    <3>4. told' = told \cup {m}
      BY <2>5 DEF TrustP!Notify
    <3>5. queue' = queue /\ trustCall' = trustCall /\ batch' = batch
      BY <2>5 DEF TrustP!Notify, TrustP!rows
    <3>6. \A n \in told' : n.capsule \in ForAnchoring /\ n.status \in AnchorStates
      <4> HIDE DEF m
      <4> QED BY <3>3, <3>4 DEF SentInv
    <3> QED
      BY <1>2, <3>1, <3>5, <3>6, RunKept
  <2>6. CASE TrustP!Poison(b)
    BY <1>2, <2>6, SentLoses DEF TrustP!Poison
  <2> QED
    BY <1>6, <2>1, <2>2, <2>3, <2>4, <2>5, <2>6 DEF TrustP!Advance
<1>7. CASE TrustP!Stop
  BY <1>2, <1>7, SentLoses DEF TrustP!Stop
<1> QED
  BY <1>3, <1>4, <1>5, <1>6, <1>7

\* The Trust Service is asked for what was approved, and stays with it.
LEMMA NextSent ==
    ASSUME TrustP!TrustInv, SentInv, TypeInv, [Next]_vars, [PipelineNext]_pipelineVars
    PROVE  SentInv'
<1>1. ASSUME NEW k \in TrustCalls, NEW c \in Capsules, TrustReceives(k, c)
      PROVE  SentInv'
  <2>1. c \in ForAnchoring /\ TrustP!Receive(k, c)
    BY <1>1, TrustReceive DEF TrustReceives, ForAnchoring
  <2> QED
    BY <1>1, <2>1, SentStep DEF TrustReceives, evidence, vars
<1>2. CASE TrustWorks
  BY <1>2, SentStep, TrustPush, TrustStart, TrustAdvance, TrustStop DEF TrustWorks, evidence, vars
<1>3. ASSUME NEW c \in Capsules, WorkflowApproves(c)
      PROVE  SentInv'
  BY <1>3, SentKept, CallsGrow DEF WorkflowApproves, SentInv
<1>4. CASE UNCHANGED <<trust, answered>>
  BY <1>4, SentKept, CallsGrow DEF SentInv
<1> QED
  BY <1>1, <1>2, <1>3, <1>4 DEF PipelineNext, pipelineVars, EvidenceWorks, WorkflowApproves,
     AiReceives, AiWorks, AiCallback, TrustCallback, PipelineIdle

------------------------------------------------------------------------------
(* What the Evidence Service shows of an anchor *)

LEMMA ToldGrows == ASSUME [TrustP!Next]_(TrustP!vars) PROVE told \subseteq told'
BY DEF TrustP!Next, TrustP!vars, TrustP!Receive, TrustP!Push, TrustP!StartBatch, TrustP!Advance,
   TrustP!Stop, TrustP!Idle, TrustP!LoseMemory, TrustP!CreateBatch, TrustP!Submit,
   TrustP!SaveStatus, TrustP!StoreLeaves, TrustP!Notify, TrustP!Poison

LEMMA NextReport ==
    ASSUME TypeInv, SentInv, AiInv, ReportInv, [Next]_vars, [PipelineNext]_pipelineVars
    PROVE  ReportInv'
<1>1. \A c, s : ToldAs(c, s) => ToldAs(c, s)'
  BY ToldGrows, TrustSteps DEF ToldAs
<1>2. ASSUME NEW c \in Capsules
      PROVE  /\ capsule'[c].anchor # None => ToldAs(c, capsule'[c].anchor)
             /\ capsule'[c].status = "ANCHORED" => capsule'[c].anchor # None
  <2>1. CASE capsule'[c].status = capsule[c].status /\ capsule'[c].anchor = capsule[c].anchor
    BY <2>1 DEF ReportInv
  <2>2. CASE capsule'[c].status = "UPLOADED" /\ capsule'[c].anchor = None
    BY <2>2
  <2>3. ASSUME NEW r \in Requests, req[r].capsule = c, ValidateCommit(r),
               capsule'[c].status = StatusAfter(req[r].input),
               capsule'[c].anchor = capsule[c].anchor
        PROVE  /\ capsule'[c].anchor # None => ToldAs(c, capsule'[c].anchor)
               /\ capsule'[c].status = "ANCHORED" => capsule'[c].anchor # None
    BY <2>3 DEF StatusAfter, ReportInv
  <2>4. CASE /\ capsule'[c].status = "PENDING_VALIDATION"
             /\ capsule'[c].anchor = capsule[c].anchor
    BY <2>4 DEF ReportInv
  <2>5. ASSUME NEW r \in Requests, req[r].capsule = c, AnchoredCommit(r),
               capsule'[c].anchor = req[r].input
        PROVE  /\ capsule'[c].anchor # None => ToldAs(c, capsule'[c].anchor)
               /\ capsule'[c].status = "ANCHORED" => capsule'[c].anchor # None
    <3>1. req[r].stage = "anchoring" /\ req[r].input \in AnchorStates
      BY <2>5 DEF AnchoredCommit, TypeInv, LocalOK
    <3>2. req[r].input # None /\ ToldAs(c, req[r].input)
      BY <2>5, <3>1, PipelineAssumption DEF ReportInv, None
    <3> QED
      BY <2>5, <3>2
  <2>6. ASSUME NEW r \in Requests, req[r].capsule = c, TallySave(r),
               capsule'[c].status = req[r].seen.status, capsule'[c].anchor = req[r].seen.anchor
        PROVE  /\ capsule'[c].anchor # None => ToldAs(c, capsule'[c].anchor)
               /\ capsule'[c].status = "ANCHORED" => capsule'[c].anchor # None
    BY <2>6 DEF TallySave, ReportInv
  <2> QED
    BY <2>1, <2>2, <2>3, <2>4, <2>5, <2>6, RowStep
<1>3. ASSUME NEW q \in Requests,
             req'[q].stage \in {"validating", "anchoring", "recordingAi", "savingTally"}
      PROVE  /\ req'[q].seen.anchor # None => ToldAs(req'[q].capsule, req'[q].seen.anchor)
             /\ req'[q].seen.status = "ANCHORED" => req'[q].seen.anchor # None
  <2>1. CASE req'[q] = req[q]
    BY <1>3, <2>1 DEF ReportInv
  <2>2. CASE req'[q].capsule \in Capsules /\ req'[q].seen = capsule[req'[q].capsule]
    BY <2>2 DEF ReportInv
  <2> QED
    BY <1>3, <2>1, <2>2, LocalsStep
<1>4. ASSUME NEW q \in Requests, req'[q].stage = "anchoring"
      PROVE  ToldAs(req'[q].capsule, req'[q].input)
  <2>1. CASE req'[q] = req[q]
    BY <1>4, <2>1 DEF ReportInv
  <2>2. ASSUME NEW r \in Requests, EvidenceWorks(r)
        PROVE  req'[q] = req[q]
    BY <1>4, <2>2, AnchoringStep DEF EvidenceWorks
  <2>3. ASSUME NEW r \in Requests, NEW m \in reported, AiCallback(r, m)
        PROVE  req'[q] = req[q]
    <3>1. m.capsule \in Capsules /\ m.routing \in Routings
      BY <2>3 DEF AiInv, Ai!TypeOK
    <3> QED
      BY <1>4, <2>3, <3>1, AnchoringStep DEF AiCallback
  <2>4. ASSUME NEW r \in Requests, NEW m \in told, TrustCallback(r, m)
        PROVE  req'[q] = req[q] \/ ToldAs(req'[q].capsule, req'[q].input)
    <3>1. CASE r # q
      BY <2>4, <3>1 DEF TrustCallback, AnchoredRead, Reads, Ends, TypeInv, TypeOK
    <3>2. CASE r = q
      <4>1. m.capsule \in Capsules /\ m.status \in AnchorStates
        BY <2>4 DEF SentInv, ForAnchoring, TypeInv, TypeOK
      <4>2. Reads(q, "anchoring", m.capsule, m.status)
        <5>1. ~Ends(q, "done")
          BY <1>4, EndsTyped
        <5> QED
          BY <2>4, <3>2, <5>1 DEF TrustCallback, AnchoredRead
      <4>3. req'[q].capsule = m.capsule /\ req'[q].input = m.status
        BY <4>1, <4>2, ReadsTyped DEF Stages
      <4> QED
        BY <4>3 DEF ToldAs
    <3> QED
      BY <3>1, <3>2
  <2>5. CASE UNCHANGED evidence
    BY <2>1, <2>5 DEF evidence, vars
  <2> QED
    BY <2>1, <2>2, <2>3, <2>4, <2>5 DEF PipelineNext, pipelineVars, PipelineIdle, WorkflowApproves, AiReceives, AiWorks,
       TrustReceives, TrustWorks
<1> QED
  BY <1>1, <1>2, <1>3, <1>4 DEF ReportInv

------------------------------------------------------------------------------
(* Safety of the composition *)

\* The inductive invariant.
PipelineInv ==
    /\ TypeInv
    /\ CallInv
    /\ TrustP!TrustInv
    /\ AiInv
    /\ SentInv
    /\ ReportInv

LEMMA NextPipeline ==
    ASSUME PipelineInv, [PipelineNext]_pipelineVars
    PROVE  PipelineInv' /\ [Next]_vars
<1>1. [Next]_vars
  BY EvidenceSteps DEF PipelineInv, AiInv
<1>2. TypeInv'
  BY <1>1, NextTyped DEF PipelineInv
<1>3. CallInv'
  BY <1>1, <1>2, NextCalls DEF PipelineInv
<1>4. TrustP!TrustInv'
  BY TrustSteps, TrustP!NextTrustInv, TrustAssumptions DEF PipelineInv
<1>5. AiInv' /\ SentInv' /\ ReportInv'
  BY <1>1, NextAi, NextSent, NextReport DEF PipelineInv
<1> QED
  BY <1>1, <1>2, <1>3, <1>4, <1>5 DEF PipelineInv

LEMMA PipelineHolds == PipelineSpec => []PipelineInv
<1>1. PipelineInit => PipelineInv
  BY InitPipeline, TrustInit, TrustP!InitTrustInv, TrustAssumptions DEF PipelineInv, PipelineInit
<1>2. PipelineInv /\ [PipelineNext]_pipelineVars => PipelineInv'
  BY NextPipeline
<1> QED
  BY <1>1, <1>2, PTL DEF PipelineSpec

\* Composed with the other two services, the Evidence Service behaves as its
\* own specification says: the callbacks it is sent are ones it expects.  So
\* every theorem about EvidenceCapsule holds of the three together.
THEOREM ComponentHolds == PipelineSpec => Spec
<1>1. PipelineInit => Init
  BY DEF PipelineInit
<1>2. PipelineInv /\ [PipelineNext]_pipelineVars => [Next]_vars
  BY NextPipeline
<1> QED
  BY <1>1, <1>2, PipelineHolds, PTL DEF PipelineSpec, Spec

\* So do the AI and the Trust Service, whatever the Evidence Service posts to them
\* and however often: nothing they do in the composition is more than they do
\* on their own, and what holds of each alone holds of the three together.
THEOREM OtherComponentsHold == PipelineSpec => Ai!Spec /\ Trust!Spec
<1>1. PipelineInit => Ai!Init /\ Trust!Init
  BY DEF PipelineInit
<1>2. [PipelineNext]_pipelineVars => [Ai!Next]_ai
  <2> SUFFICES ASSUME [PipelineNext]_pipelineVars PROVE Ai!Next \/ UNCHANGED ai
    OBVIOUS
  <2>1. CASE \E k \in AiCalls, c \in Capsules : AiReceives(k, c)
    BY <2>1 DEF AiReceives, Ai!Next
  <2>2. CASE \E k \in AiCalls : AiWorks(k)
    BY <2>2 DEF AiWorks, Ai!Next
  <2>3. CASE UNCHANGED pipelineVars
    BY <2>3 DEF pipelineVars
  <2> QED
    BY <2>1, <2>2, <2>3
    DEF PipelineNext, WorkflowApproves, EvidenceWorks, TrustReceives, TrustWorks, AiCallback, TrustCallback, PipelineIdle
<1>3. [PipelineNext]_pipelineVars => [Trust!Next]_trust
  <2> SUFFICES ASSUME [PipelineNext]_pipelineVars PROVE Trust!Next \/ UNCHANGED trust
    OBVIOUS
  <2>1. CASE \E k \in TrustCalls, c \in Capsules : TrustReceives(k, c)
    BY <2>1 DEF TrustReceives, Trust!Next
  <2>2. CASE TrustWorks
    BY <2>2 DEF TrustWorks, Trust!Next
  <2>3. CASE UNCHANGED pipelineVars
    BY <2>3 DEF pipelineVars
  <2> QED
    BY <2>1, <2>2, <2>3
    DEF PipelineNext, WorkflowApproves, EvidenceWorks, AiReceives, AiWorks, AiCallback, TrustCallback, PipelineIdle
<1> QED
  BY <1>1, <1>2, <1>3, PTL DEF PipelineSpec, Ai!Spec, Trust!Spec, Ai!vars, Trust!vars, ai, trust

\* Overlapping triggers, failed stages and lost pipelines never make the AI
\* Service report a capsule twice, or anything but what its job says.
THEOREM ReportsOnceHolds == PipelineSpec => []AiReportsOnce
<1>1. PipelineInv => AiReportsOnce
  BY DEF PipelineInv, AiInv, AiReportsOnce
<1> QED
  BY <1>1, PipelineHolds, PTL

\* Whatever the Trust Service puts into a batch was approved before, by a validator
\* or by the answer to a task token, through re-queueing, restarts and retries.
THEOREM OnlyApprovedHolds == PipelineSpec => []OnlyApprovedOnLedger
<1>1. PipelineInv => OnlyApprovedOnLedger
  <2> SUFFICES ASSUME PipelineInv, NEW b \in Batches, NEW i \in 1 .. Len(batch[b].root)
               PROVE  \/ Approvals(custody[batch[b].root[i]]) # {}
                      \/ batch[b].root[i] \in answered
    BY DEF OnlyApprovedOnLedger
  <2>1. batch[b].root[i] \in ForAnchoring
    BY DEF PipelineInv, SentInv
  <2> QED
    BY <2>1, SentApproved DEF PipelineInv
<1> QED
  BY <1>1, PipelineHolds, PTL

\* A capsule shown as anchored has its leaf stored, in a batch that has the
\* anchor status the capsule shows, for any overlap of handlers, batches and
\* restarts of the Trust Service.
THEOREM VerifiableHolds == PipelineSpec => []AnchoredIsVerifiable
<1>1. PipelineInv => AnchoredIsVerifiable
  <2> SUFFICES ASSUME PipelineInv, NEW c \in Capsules, capsule[c].status = "ANCHORED"
               PROVE  leaf[c] # Trust!NoLeaf /\ batch[leaf[c].batch].status = capsule[c].anchor
    BY DEF AnchoredIsVerifiable
  <2>1. PICK m \in told : m.capsule = c /\ m.status = capsule[c].anchor
    BY DEF PipelineInv, ReportInv, ToldAs
  <2>2. leaf[c] # TrustP!NoLeaf /\ leaf[c].batch = m.batch /\ batch[m.batch].status = m.status
    BY <2>1 DEF PipelineInv, TrustP!TrustInv, TrustP!ToldIsStored
  <2> QED
    BY <2>1, <2>2, TrustItems
<1> QED
  BY <1>1, PipelineHolds, PTL

------------------------------------------------------------------------------
(* The lifecycle, when handlers do not overlap *)

\* A step rewrites one row at most.
LEMMA OneRowMoves ==
    ASSUME TypeInv, [Next]_vars, NEW c \in Capsules, capsule'[c].status # capsule[c].status
    PROVE  \A d \in Capsules \ {c} : capsule'[d] = capsule[d]
<1> SUFFICES ASSUME NEW d \in Capsules \ {c} PROVE capsule'[d] = capsule[d]
  OBVIOUS
<1>1. CASE UNCHANGED vars \/ Idle
  BY <1>1 DEF vars, Idle
<1>2. ASSUME NEW r \in Requests, Apps(r) \/ Callbacks(r) \/ Fail(r)
      PROVE  capsule'[d] = capsule[d]
  <2>1. ASSUME NEW x \in Capsules, NEW y \in SyncStates, SyncUpdate(r, x, y)
        PROVE  capsule'[c].status = capsule[c].status
    BY <2>1 DEF SyncUpdate, TypeInv, TypeOK, Row
  <2> QED
    BY <1>2, <2>1 DEF Apps, Callbacks, Fail, SubmitCheck, SubmitConflict, ValidateRead, TallyRead,
         AiResultRead, AnchoredRead, tables
<1>3. ASSUME NEW r \in Requests, Continue(r)
      PROVE  capsule'[d] = capsule[d]
  BY <1>3 DEF Continue, SubmitStore, SubmitInsert, SubmitTriggerAi, ValidateCommit,
       ValidateQueueAnchor, AnchoredCommit, AnchoredLock, AiResultCommit, TallySave, Rollback,
       tables, TypeInv, TypeOK
<1> QED
  BY <1>1, <1>2, <1>3 DEF Next

\* Only recordAiResult's read makes a handler record an AI result.
LEMMA RecordingStep ==
    ASSUME TypeInv, [Next]_vars, NEW r \in Requests, NEW q \in Requests,
           \/ Apps(r) \/ Continue(r) \/ Fail(r)
           \/ \E c \in Capsules, s \in AnchorStates : AnchoredRead(r, c, s),
           req'[q].stage = "recordingAi"
    PROVE  req'[q] = req[q]
<1> SUFFICES ASSUME req'[q] # req[q] PROVE FALSE
  OBVIOUS
<1>1. PICK s \in Routings : AiResultRead(q, req'[q].capsule, s)
  <2>1. /\ ~ \E d \in Decisions : ValidateRead(q, req'[q].capsule, d)
        /\ ~ \E d \in AnchorStates : AnchoredRead(q, req'[q].capsule, d)
        /\ ~ TallyRead(q, req'[q].capsule)
    BY DEF ValidateRead, AnchoredRead, TallyRead, Reads, Ends, Blank, TypeInv, TypeOK
  <2> QED
    BY <2>1, LocalsStep
<1>2. Workload[q] = "aiResult" /\ req[q].stage = "idle"
  BY <1>1 DEF AiResultRead, Begins
<1>3. r = q
  <2>1. \A p \in Requests : p # r => req'[p] = req[p]
    BY DEF Apps, Continue, Fail, SubmitCheck, SubmitConflict, ValidateRead, TallyRead, SyncUpdate,
       AnchoredRead, SubmitStore, SubmitInsert, SubmitTriggerAi, ValidateCommit,
       ValidateQueueAnchor, AnchoredCommit, AnchoredLock, AiResultCommit, TallySave, Rollback,
       Reads, Ends, MovesTo, TypeInv, TypeOK
  <2> QED
    BY <2>1
<1>4. ~Continue(q)
  BY <1>2 DEF Continue, SubmitStore, SubmitInsert, SubmitTriggerAi, ValidateCommit,
     ValidateQueueAnchor, AnchoredCommit, AnchoredLock, AiResultCommit, TallySave, Rollback,
     Refuses, Writes
<1>5. ~Apps(q) /\ ~ \E c \in Capsules, a \in AnchorStates : AnchoredRead(q, c, a)
  BY <1>2 DEF Apps, SubmitCheck, SubmitConflict, ValidateRead, TallyRead, SyncUpdate, AnchoredRead,
     Begins
<1>6. ~Fail(q)
  BY EndsTyped DEF Fail
<1> QED
  BY <1>3, <1>4, <1>5, <1>6

\* The AI Service's report on c has been read.
Heard(c) == \E m \in reported \cap served : m.capsule = c

\* A capsule leaves UPLOADED only by the AI Service's one report, so that the
\* report never finds a capsule that a validator has seen.
LifeInv ==
    /\ \A c \in Capsules : ~Heard(c) => capsule[c].status \in {"ABSENT", "UPLOADED"}
    /\ \A r \in Requests :
         /\ req[r].stage = "recordingAi"
              => capsule[req[r].capsule].status = "UPLOADED" /\ Heard(req[r].capsule)
         /\ req[r].stage = "validating" => req[r].seen.status = "PENDING_VALIDATION"

\* What the steps of the services alone do to a capsule's status.
SerialStep(c) ==
    \/ capsule'[c].status = capsule[c].status
    \/ capsule[c].status = "ABSENT" /\ capsule'[c].status = "UPLOADED"
    \/ /\ capsule[c].status = "PENDING_VALIDATION"
       /\ capsule'[c].status \in {"APPROVED", "REJECTED"}
    \/ /\ capsule[c].status = "UPLOADED" /\ Heard(c)
       /\ capsule'[c].status = "PENDING_VALIDATION"
    \/ capsule[c].status = "APPROVED" /\ capsule'[c].status = "ANCHORED"

LEMMA StatusStep ==
    ASSUME SafeInv, SerialInv, LifeInv, [Next]_vars, NEW c \in Capsules
    PROVE  SerialStep(c)
<1>1. ASSUME NEW r \in Requests, req[r].capsule = c, ValidateCommit(r),
             capsule'[c].status = StatusAfter(req[r].input)
      PROVE  SerialStep(c)
  <2>1. capsule[c].status = "PENDING_VALIDATION"
    BY <1>1, WriterKnows DEF ValidateCommit, LifeInv
  <2>2. capsule'[c].status \in {"APPROVED", "REJECTED", "PENDING_VALIDATION"}
    BY <1>1 DEF StatusAfter
  <2> QED
    BY <2>1, <2>2 DEF SerialStep
<1>2. ASSUME NEW r \in Requests, req[r].capsule = c, AiResultCommit(r),
             capsule'[c].status = "PENDING_VALIDATION"
      PROVE  SerialStep(c)
  BY <1>2 DEF AiResultCommit, LifeInv, SerialStep
<1>3. ASSUME NEW r \in Requests, req[r].capsule = c, AnchoredCommit(r),
             capsule'[c].status = "ANCHORED"
      PROVE  SerialStep(c)
  <2>1. capsule[c].status = "APPROVED"
    BY <1>3, WriterKnows DEF AnchoredCommit, SerialInv, Current
  <2> QED
    BY <1>3, <2>1 DEF SerialStep
<1>4. ASSUME NEW r \in Requests, req[r].capsule = c, TallySave(r),
             capsule'[c].status = req[r].seen.status
      PROVE  SerialStep(c)
  BY <1>4, WriterKnows DEF TallySave, SerialStep
<1>5. SafeInv => TypeInv
  BY DEF SafeInv
<1> QED
  BY <1>1, <1>2, <1>3, <1>4, <1>5, RowStep DEF SerialStep, Exists

LEMMA HeardGrows == ASSUME [PipelineNext]_pipelineVars, NEW c, Heard(c) PROVE Heard(c)'
<1>1. served \subseteq served'
  BY DEF PipelineNext, pipelineVars, PipelineIdle, WorkflowApproves, EvidenceWorks, AiReceives, AiWorks, TrustReceives,
     TrustWorks, AiCallback, TrustCallback
<1>2. reported \subseteq reported'
  BY DEF PipelineNext, pipelineVars, PipelineIdle, WorkflowApproves, EvidenceWorks, AiReceives, AiWorks, TrustReceives,
     TrustWorks, AiCallback, TrustCallback, ai, Ai!TriggerRead, Ai!Continue, Ai!TriggerInsert,
     Ai!TriggerRefused, Ai!PipelineStart, Ai!PipelineFails, Ai!PipelinePersist, Ai!PipelineReport,
     Ai!PipelineLost
<1> QED
  BY <1>1, <1>2 DEF Heard

\* A handler that just read a capsule for an AI result read the one report.
LEMMA HearsOnce ==
    ASSUME PipelineInv, SerialInv, LifeInv, [Next]_vars, [PipelineNext]_pipelineVars,
           NEW q \in Requests, req'[q].stage = "recordingAi", req'[q] # req[q]
    PROVE  \E c \in Capsules : c = req'[q].capsule /\ capsule'[c].status = "UPLOADED" /\ Heard(c)'
<1>1. TypeInv /\ AiInv
  BY DEF PipelineInv
<1>2. /\ capsule' = capsule /\ req'[q].capsule \in Capsules /\ Exists(req'[q].capsule)
  BY <1>1, LocalsStep DEF tables
<1>3. PICK r \in Requests, m \in reported : AiCallback(r, m)
  <2>1. ASSUME NEW r \in Requests, EvidenceWorks(r) PROVE FALSE
    BY <1>1, <2>1, RecordingStep DEF EvidenceWorks
  <2>2. ASSUME NEW r \in Requests, NEW m \in told, TrustCallback(r, m) PROVE FALSE
    <3>1. m.capsule \in Capsules /\ m.status \in AnchorStates
      BY <2>2 DEF PipelineInv, SentInv, ForAnchoring, TypeInv, TypeOK
    <3> QED
      BY <1>1, <2>2, <3>1, RecordingStep DEF TrustCallback
  <2>3. ~ UNCHANGED evidence
    BY DEF evidence, vars
  <2> QED
    BY <2>1, <2>2, <2>3 DEF PipelineNext, pipelineVars, PipelineIdle, WorkflowApproves, AiReceives, AiWorks,
       TrustReceives, TrustWorks
<1>4. m.capsule \in Capsules /\ m.routing \in Routings
  BY <1>1, <1>3 DEF AiInv, Ai!TypeOK
<1>5. r = q
  BY <1>1, <1>3 DEF AiCallback, AiResultRead, Reads, TypeInv, TypeOK
<1>6. req'[q].capsule = m.capsule
  BY <1>1, <1>3, <1>4, <1>5, ReadsTyped DEF AiCallback, AiResultRead, Stages
<1>7. ~Heard(m.capsule)
  BY <1>1, <1>3 DEF Heard, AiCallback, AiInv, Ai!OneTrueReport
<1>8. ASSUME NEW c, c = m.capsule PROVE Heard(c)'
  BY <1>3, <1>8 DEF Heard, AiCallback, ai
<1> QED
  BY <1>2, <1>4, <1>6, <1>7, <1>8 DEF LifeInv, Exists

LEMMA NextLife ==
    ASSUME PipelineInv, SafeInv, SerialInv, LifeInv, [Next]_vars, [PipelineNext]_pipelineVars
    PROVE  LifeInv'
<1>1. TypeInv
  BY DEF PipelineInv
<1>2. ASSUME NEW c \in Capsules, ~Heard(c)'
      PROVE  capsule'[c].status \in {"ABSENT", "UPLOADED"}
  <2>1. ~Heard(c) /\ capsule[c].status \in {"ABSENT", "UPLOADED"}
    BY <1>2, HeardGrows DEF LifeInv
  <2> QED
    BY <2>1, StatusStep DEF SerialStep
<1>3. ASSUME NEW q \in Requests, req'[q].stage = "recordingAi"
      PROVE  \E c : c = req'[q].capsule /\ capsule'[c].status = "UPLOADED" /\ Heard(c)'
  <2>1. CASE req'[q] = req[q]
    <3>0. PICK c : c = req[q].capsule
      OBVIOUS
    <3>1. q \in InFlight /\ c \in Capsules /\ Exists(c) /\ capsule[c].status = "UPLOADED" /\ Heard(c)
      BY <1>3, <2>1, <3>0, WriterKnows DEF LifeInv
    <3>2. ASSUME NEW r \in Requests, AiResultCommit(r)
          PROVE  FALSE
      <4>1. r \in InFlight
        BY <3>2 DEF AiResultCommit, InFlight, Settled
      <4>2. r = q
        BY <3>1, <4>1 DEF SerialInv, Alone
      <4> QED
        BY <1>3, <3>2, <4>2, EndsTyped, <1>1 DEF AiResultCommit, Settled
    <3>3. \A r \in Requests : req[r].capsule = c /\ r \in InFlight => req[r].stage = "recordingAi"
      BY <1>3, <2>1, <3>0, <3>1 DEF SerialInv, Alone
    <3>4. capsule'[c].status = "UPLOADED"
      <4>1. ASSUME NEW r \in Requests,
                   ValidateCommit(r) \/ AnchoredCommit(r) \/ TallySave(r)
            PROVE  r \in InFlight /\ req[r].stage # "recordingAi"
        BY <4>1 DEF ValidateCommit, AnchoredCommit, TallySave, InFlight, Settled
      <4> QED
        BY <1>1, <3>1, <3>2, <3>3, <4>1, RowStep DEF Exists
    <3>5. Heard(c)'
      BY <3>1, HeardGrows
    <3> QED
      BY <2>1, <3>0, <3>4, <3>5
  <2> QED
    BY <1>3, <2>1, HearsOnce
<1>4. ASSUME NEW q \in Requests, req'[q].stage = "validating"
      PROVE  req'[q].seen.status = "PENDING_VALIDATION"
  <2>1. CASE req'[q] = req[q]
    BY <1>4, <2>1 DEF LifeInv
  <2>2. CASE req'[q] # req[q]
    <3>1. PICK d \in Decisions : ValidateRead(q, req'[q].capsule, d)
      <4>1. /\ ~ \E d \in AnchorStates : AnchoredRead(q, req'[q].capsule, d)
            /\ ~ \E d \in Routings : AiResultRead(q, req'[q].capsule, d)
            /\ ~ TallyRead(q, req'[q].capsule)
        BY <1>1, <1>4 DEF AnchoredRead, AiResultRead, TallyRead, Reads, Ends, Blank, TypeInv, TypeOK
      <4> QED
        BY <1>1, <1>4, <2>2, <4>1, LocalsStep
    <3>2. req'[q].seen = capsule[req'[q].capsule]
      BY <1>1, <1>4, <2>2, LocalsStep
    <3>3. ~ Ends(q, "done")
      BY <1>1, <1>4, EndsTyped
    <3> QED
      BY <3>1, <3>2, <3>3 DEF ValidateRead
  <2> QED
    BY <2>1, <2>2
<1>5. ASSUME NEW q \in Requests, req'[q].stage = "recordingAi"
      PROVE  /\ capsule'[req'[q].capsule].status = "UPLOADED"
             /\ \E m \in reported' \cap served' : m.capsule = req'[q].capsule
  BY <1>3, <1>5 DEF Heard
<1>6. \A c \in Capsules : ~Heard(c)' => capsule'[c].status \in {"ABSENT", "UPLOADED"}
  BY <1>2
<1> QED
  BY <1>4, <1>5, <1>6 DEF LifeInv, Heard

\* Each step is one of the documented lifecycle, or leaves every status alone.
LEMMA LifecycleStep ==
    ASSUME SafeInv, SerialInv, LifeInv, [Next]_vars
    PROVE  [Lifecycle!Next]_([c \in Capsules |-> capsule[c].status])
<1> DEFINE st == [c \in Capsules |-> capsule[c].status]
<1>1. CASE \A c \in Capsules : capsule'[c].status = capsule[c].status
  BY <1>1
<1>2. ASSUME NEW c \in Capsules, capsule'[c].status # capsule[c].status
      PROVE  Lifecycle!Next
  <2>1. \A d \in Capsules \ {c} : capsule'[d] = capsule[d]
    BY <1>2, OneRowMoves DEF SafeInv
  <2>2. st' = [st EXCEPT ![c] = capsule'[c].status]
    BY <2>1
  <2>3. SerialStep(c)
    BY StatusStep
  <2>4. \/ Lifecycle!Submit(c) \/ Lifecycle!Route(c)
        \/ Lifecycle!Approve(c) \/ Lifecycle!Reject(c) \/ Lifecycle!Anchor(c)
    BY <1>2, <2>2, <2>3 DEF SerialStep, Lifecycle!Submit, Lifecycle!Route, Lifecycle!Approve,
       Lifecycle!Reject, Lifecycle!Anchor, Lifecycle!Move
  <2> QED
    BY <2>4 DEF Lifecycle!Next
<1> QED
  BY <1>1, <1>2

\* When handlers do not overlap, the Evidence Service together with the AI and
\* Trust Services implements the documented lifecycle: whatever requests are
\* repeated, callbacks lost or handlers broken off.
THEOREM LifecycleHolds == ASSUME MaxInFlight <= 1 PROVE PipelineSpec => KeepsLifecycle
<1>1. PipelineInit => LifeInv
  BY DEF PipelineInit, Init, Blank, NoRow, LifeInv
<1>2. PipelineInv /\ SafeInv /\ SerialInv /\ LifeInv /\ [PipelineNext]_pipelineVars
        => LifeInv' /\ [Lifecycle!Next]_([c \in Capsules |-> capsule[c].status])
  BY NextPipeline, NextLife, LifecycleStep
<1>3. PipelineInit => Lifecycle!Init
  BY DEF PipelineInit, Init, NoRow, Lifecycle!Init
<1>4. PipelineSpec => []SafeInv /\ []SerialInv
  BY ComponentHolds, Safe, SerialHolds, PTL
<1> QED
  BY <1>1, <1>2, <1>3, <1>4, PipelineHolds, PTL
  DEF PipelineSpec, KeepsLifecycle, FollowsLifecycle, Lifecycle!Spec

------------------------------------------------------------------------------
(* The Merkle tree: its recursive definitions by steps *)

\* A set of naturals has a least element.
LEMMA Least ==
    ASSUME NEW S \in SUBSET Nat, S # {}
    PROVE  \E n \in S : \A m \in S : n <= m
<1>1. PICK n \in S : \A m \in S : <<m, n>> \notin OpToRel(<, Nat)
  BY WFMin, NatLessThanWellFounded
<1>2. \A m \in S : ~ (m < n)
  BY <1>1 DEF OpToRel
<1> QED
  BY <1>2

\* g holds the levels up to the n-th.
Levels(tree, n, g) ==
    /\ DOMAIN g = 0 .. n
    /\ g[0] = tree
    /\ \A i \in 1 .. n : g[i] = NextLevel(g[i - 1])

LEMMA LevelsExist == ASSUME NEW tree, NEW n \in Nat PROVE \E g : Levels(tree, n, g)
<1> DEFINE Bad == {k \in Nat : ~ \E g : Levels(tree, k, g)}
<1> SUFFICES ASSUME Bad # {} PROVE FALSE
  OBVIOUS
<1>1. PICK k \in Bad : \A m \in Bad : k <= m
  BY Least
<1>2. k # 0
  <2>1. Levels(tree, 0, [i \in 0 .. 0 |-> tree])
    BY DEF Levels
  <2> QED
    BY <2>1
<1>3. PICK g : Levels(tree, k - 1, g)
  BY <1>1, <1>2
<1>4. Levels(tree, k, [i \in 0 .. k |-> IF i = k THEN NextLevel(g[k - 1]) ELSE g[i]])
  BY <1>2, <1>3 DEF Levels
<1> QED
  BY <1>4

\* They are determined by the batch.
LEMMA LevelsAgree ==
    ASSUME NEW tree, NEW n \in Nat, NEW m \in Nat, NEW f, NEW g,
           Levels(tree, n, f), Levels(tree, m, g), NEW i \in Nat, i <= n, i <= m
    PROVE  f[i] = g[i]
<1> DEFINE Bad == {k \in Nat : k <= n /\ k <= m /\ f[k] # g[k]}
<1> SUFFICES ASSUME Bad # {} PROVE FALSE
  OBVIOUS
<1>1. PICK k \in Bad : \A j \in Bad : k <= j
  BY Least
<1>2. k # 0
  BY <1>1 DEF Levels
<1>3. k \in 1 .. n /\ k \in 1 .. m /\ k - 1 \in Nat /\ f[k - 1] = g[k - 1]
  BY <1>1, <1>2
<1>4. f[k] = NextLevel(f[k - 1]) /\ g[k] = NextLevel(g[k - 1])
  BY <1>3 DEF Levels
<1> QED
  BY <1>1, <1>3, <1>4

LEMMA LevelDef ==
    ASSUME NEW tree
    PROVE  /\ Level(tree, 0) = tree
           /\ \A k \in Nat : Level(tree, k + 1) = NextLevel(Level(tree, k))
<1> DEFINE L(k) == (CHOOSE g : Levels(tree, k, g))[k]
           F == [n \in Nat |-> L(n)]
           up == CHOOSE f : f = [n \in Nat |-> IF n = 0 THEN tree ELSE NextLevel(f[n - 1])]
<1>1. \A n \in Nat : Levels(tree, n, CHOOSE g : Levels(tree, n, g))
  BY LevelsExist
<1>2. L(0) = tree
  BY <1>1 DEF Levels
<1>3. ASSUME NEW n \in Nat, n # 0 PROVE L(n) = NextLevel(L(n - 1))
  <2>1. L(n) = NextLevel((CHOOSE g : Levels(tree, n, g))[n - 1])
    BY <1>1, <1>3 DEF Levels
  <2>2. (CHOOSE g : Levels(tree, n, g))[n - 1] = L(n - 1)
    BY <1>1, <1>3, LevelsAgree, n - 1 \in Nat
  <2> QED
    BY <2>1, <2>2
<1>4. F = [n \in Nat |-> IF n = 0 THEN tree ELSE NextLevel(F[n - 1])]
  <2> HIDE DEF L
  <2> QED
    BY <1>2, <1>3
<1>5. up = [n \in Nat |-> IF n = 0 THEN tree ELSE NextLevel(up[n - 1])]
  BY <1>4
<1>6. \A k : Level(tree, k) = up[k]
  BY DEF Level
<1> HIDE DEF up
<1>7. up[0] = tree
  BY <1>5
<1>8. ASSUME NEW k \in Nat PROVE up[k + 1] = NextLevel(up[k])
  <2>1. k + 1 \in Nat /\ k + 1 # 0 /\ (k + 1) - 1 = k
    OBVIOUS
  <2> QED
    BY <1>5, <2>1
<1> QED
  BY <1>6, <1>7, <1>8

\* g holds the indices on the way up from a leaf.
Indices(index, n, g) ==
    /\ DOMAIN g = 0 .. n
    /\ g[0] = index
    /\ \A i \in 1 .. n : g[i] = g[i - 1] \div 2

LEMMA IndicesExist == ASSUME NEW index, NEW n \in Nat PROVE \E g : Indices(index, n, g)
<1> DEFINE Bad == {k \in Nat : ~ \E g : Indices(index, k, g)}
<1> SUFFICES ASSUME Bad # {} PROVE FALSE
  OBVIOUS
<1>1. PICK k \in Bad : \A m \in Bad : k <= m
  BY Least
<1>2. k # 0
  <2>1. Indices(index, 0, [i \in 0 .. 0 |-> index])
    BY DEF Indices
  <2> QED
    BY <2>1
<1>3. PICK g : Indices(index, k - 1, g)
  BY <1>1, <1>2
<1>4. Indices(index, k, [i \in 0 .. k |-> IF i = k THEN g[k - 1] \div 2 ELSE g[i]])
  BY <1>2, <1>3 DEF Indices
<1> QED
  BY <1>4

LEMMA IndicesAgree ==
    ASSUME NEW index, NEW n \in Nat, NEW m \in Nat, NEW f, NEW g,
           Indices(index, n, f), Indices(index, m, g), NEW i \in Nat, i <= n, i <= m
    PROVE  f[i] = g[i]
<1> DEFINE Bad == {k \in Nat : k <= n /\ k <= m /\ f[k] # g[k]}
<1> SUFFICES ASSUME Bad # {} PROVE FALSE
  OBVIOUS
<1>1. PICK k \in Bad : \A j \in Bad : k <= j
  BY Least
<1>2. k # 0
  BY <1>1 DEF Indices
<1>3. k \in 1 .. n /\ k \in 1 .. m /\ k - 1 \in Nat /\ f[k - 1] = g[k - 1]
  BY <1>1, <1>2
<1>4. f[k] = f[k - 1] \div 2 /\ g[k] = g[k - 1] \div 2
  BY <1>3 DEF Indices
<1> QED
  BY <1>1, <1>3, <1>4

LEMMA AncestorDef ==
    ASSUME NEW index
    PROVE  /\ Ancestor(index, 0) = index
           /\ \A k \in Nat : Ancestor(index, k + 1) = Ancestor(index, k) \div 2
<1> DEFINE At(k) == (CHOOSE g : Indices(index, k, g))[k]
           F == [n \in Nat |-> At(n)]
           up == CHOOSE f : f = [n \in Nat |-> IF n = 0 THEN index ELSE f[n - 1] \div 2]
<1>1. \A n \in Nat : Indices(index, n, CHOOSE g : Indices(index, n, g))
  BY IndicesExist
<1>2. At(0) = index
  BY <1>1 DEF Indices
<1>3. ASSUME NEW n \in Nat, n # 0 PROVE At(n) = At(n - 1) \div 2
  <2>1. At(n) = (CHOOSE g : Indices(index, n, g))[n - 1] \div 2
    BY <1>1, <1>3 DEF Indices
  <2>2. (CHOOSE g : Indices(index, n, g))[n - 1] = At(n - 1)
    BY <1>1, <1>3, IndicesAgree, n - 1 \in Nat
  <2> QED
    BY <2>1, <2>2
<1>4. F = [n \in Nat |-> IF n = 0 THEN index ELSE F[n - 1] \div 2]
  <2> HIDE DEF At
  <2> QED
    BY <1>2, <1>3
<1>5. up = [n \in Nat |-> IF n = 0 THEN index ELSE up[n - 1] \div 2]
  BY <1>4
<1>6. \A k : Ancestor(index, k) = up[k]
  BY DEF Ancestor
<1> HIDE DEF up
<1>7. up[0] = index
  BY <1>5
<1>8. ASSUME NEW k \in Nat PROVE up[k + 1] = up[k] \div 2
  <2>1. k + 1 \in Nat /\ k + 1 # 0 /\ (k + 1) - 1 = k
    OBVIOUS
  <2> QED
    BY <1>5, <2>1
<1> QED
  BY <1>6, <1>7, <1>8

\* g holds the hashes computed on the way up a path.
Hashings(hash, index, path, n, g) ==
    /\ DOMAIN g = 0 .. n
    /\ g[0] = hash
    /\ \A i \in 1 .. n : g[i] = Join(g[i - 1], path[i], Ancestor(index, i - 1))

LEMMA HashingsExist ==
    ASSUME NEW hash, NEW index, NEW path, NEW n \in Nat
    PROVE  \E g : Hashings(hash, index, path, n, g)
<1> DEFINE Bad == {k \in Nat : ~ \E g : Hashings(hash, index, path, k, g)}
<1> SUFFICES ASSUME Bad # {} PROVE FALSE
  OBVIOUS
<1>1. PICK k \in Bad : \A m \in Bad : k <= m
  BY Least
<1>2. k # 0
  <2>1. Hashings(hash, index, path, 0, [i \in 0 .. 0 |-> hash])
    BY DEF Hashings
  <2> QED
    BY <2>1
<1>3. PICK g : Hashings(hash, index, path, k - 1, g)
  BY <1>1, <1>2
<1>4. Hashings(hash, index, path, k,
               [i \in 0 .. k |-> IF i = k THEN Join(g[k - 1], path[k], Ancestor(index, k - 1))
                                 ELSE g[i]])
  BY <1>2, <1>3 DEF Hashings
<1> QED
  BY <1>4

LEMMA HashingsAgree ==
    ASSUME NEW hash, NEW index, NEW path, NEW n \in Nat, NEW m \in Nat, NEW f, NEW g,
           Hashings(hash, index, path, n, f), Hashings(hash, index, path, m, g),
           NEW i \in Nat, i <= n, i <= m
    PROVE  f[i] = g[i]
<1> DEFINE Bad == {k \in Nat : k <= n /\ k <= m /\ f[k] # g[k]}
<1> SUFFICES ASSUME Bad # {} PROVE FALSE
  OBVIOUS
<1>1. PICK k \in Bad : \A j \in Bad : k <= j
  BY Least
<1>2. k # 0
  BY <1>1 DEF Hashings
<1>3. k \in 1 .. n /\ k \in 1 .. m /\ k - 1 \in Nat /\ f[k - 1] = g[k - 1]
  BY <1>1, <1>2
<1>4. /\ f[k] = Join(f[k - 1], path[k], Ancestor(index, k - 1))
      /\ g[k] = Join(g[k - 1], path[k], Ancestor(index, k - 1))
  BY <1>3 DEF Hashings
<1> QED
  BY <1>1, <1>3, <1>4

LEMMA ClimbDef ==
    ASSUME NEW hash, NEW index, NEW path, NEW k \in Nat
    PROVE  /\ Climb(hash, index, path, 0) = hash
           /\ Climb(hash, index, path, k + 1) =
                 Join(Climb(hash, index, path, k), path[k + 1], Ancestor(index, k))
<1> DEFINE At(i) == (CHOOSE g : Hashings(hash, index, path, i, g))[i]
           F == [n \in Nat |-> At(n)]
           up == CHOOSE f : f = [n \in Nat |->
                   IF n = 0 THEN hash ELSE Join(f[n - 1], path[n], Ancestor(index, n - 1))]
<1>1. \A n \in Nat : Hashings(hash, index, path, n, CHOOSE g : Hashings(hash, index, path, n, g))
  BY HashingsExist
<1>2. At(0) = hash
  BY <1>1 DEF Hashings
<1>3. ASSUME NEW n \in Nat, n # 0 PROVE At(n) = Join(At(n - 1), path[n], Ancestor(index, n - 1))
  <2>1. At(n) = Join((CHOOSE g : Hashings(hash, index, path, n, g))[n - 1], path[n], Ancestor(index, n - 1))
    BY <1>1, <1>3 DEF Hashings
  <2>2. (CHOOSE g : Hashings(hash, index, path, n, g))[n - 1] = At(n - 1)
    BY <1>1, <1>3, HashingsAgree, n - 1 \in Nat
  <2> QED
    BY <2>1, <2>2
<1>4. F = [n \in Nat |-> IF n = 0 THEN hash ELSE Join(F[n - 1], path[n], Ancestor(index, n - 1))]
  <2> HIDE DEF At
  <2> QED
    BY <1>2, <1>3
<1>5. up = [n \in Nat |-> IF n = 0 THEN hash ELSE Join(up[n - 1], path[n], Ancestor(index, n - 1))]
  BY <1>4
<1>6. \A i : Climb(hash, index, path, i) = up[i]
  BY DEF Climb
<1> HIDE DEF up
<1>7. up[0] = hash
  BY <1>5
<1>8. up[k + 1] = Join(up[k], path[k + 1], Ancestor(index, k))
  <2>1. k + 1 \in Nat /\ k + 1 # 0 /\ (k + 1) - 1 = k
    OBVIOUS
  <2> QED
    BY <1>5, <2>1
<1> QED
  BY <1>6, <1>7, <1>8

------------------------------------------------------------------------------
\* A sequence, whatever its elements.
Sequence(s) == Len(s) \in Nat /\ s = [i \in 1 .. Len(s) |-> s[i]]

LEMMA SequenceOf ==
    ASSUME NEW n \in Nat, NEW f, f = [i \in 1 .. n |-> f[i]]
    PROVE  Len(f) = n /\ Sequence(f)
<1> DEFINE S == {f[i] : i \in 1 .. n}
<1>1. f \in [1 .. n -> S]
  OBVIOUS
<1>2. f \in Seq(S)
  BY <1>1
<1>3. Len(f) = n
  BY <1>1, <1>2
<1> QED
  BY <1>3 DEF Sequence

LEMMA NextLevelIs ==
    ASSUME NEW level, Sequence(level)
    PROVE  /\ Sequence(NextLevel(level))
           /\ Len(NextLevel(level)) = (Len(level) + 1) \div 2
           /\ \A i \in 1 .. Len(NextLevel(level)) :
                NextLevel(level)[i] =
                  <<level[2 * i - 1],
                    IF 2 * i <= Len(level) THEN level[2 * i] ELSE level[2 * i - 1]>>
<1> DEFINE n == (Len(level) + 1) \div 2
           up == NextLevel(level)
<1>1. n \in Nat
  BY DEF Sequence
<1>2. up = [i \in 1 .. n |->
              <<level[2 * i - 1],
                IF 2 * i <= Len(level) THEN level[2 * i] ELSE level[2 * i - 1]>>]
  BY DEF NextLevel, hashPair
<1> HIDE DEF up, n
<1>3. up = [i \in 1 .. n |-> up[i]]
  BY <1>2
<1>4. Len(up) = n /\ Sequence(up)
  BY <1>1, <1>3, SequenceOf
<1>5. \A i \in 1 .. n : up[i] =
        <<level[2 * i - 1], IF 2 * i <= Len(level) THEN level[2 * i] ELSE level[2 * i - 1]>>
  BY <1>2
<1> QED
  BY <1>4, <1>5 DEF up, n

\* Every level is a sequence with a node at least; above the leaves, nodes are pairs.
LEMMA LevelIs ==
    ASSUME NEW tree, Sequence(tree), Len(tree) > 0, NEW k \in Nat
    PROVE  Sequence(Level(tree, k)) /\ Len(Level(tree, k)) > 0
<1> DEFINE Bad == {j \in Nat : ~ (Sequence(Level(tree, j)) /\ Len(Level(tree, j)) > 0)}
<1> SUFFICES ASSUME Bad # {} PROVE FALSE
  OBVIOUS
<1>1. PICK j \in Bad : \A m \in Bad : j <= m
  BY Least
<1>2. j # 0
  BY LevelDef
<1>3. j - 1 \in Nat /\ Sequence(Level(tree, j - 1)) /\ Len(Level(tree, j - 1)) > 0
  BY <1>1, <1>2
<1>4. Level(tree, j) = NextLevel(Level(tree, j - 1))
  <2>1. (j - 1) + 1 = j
    OBVIOUS
  <2> QED
    BY <1>3, <2>1, LevelDef
<1>5. Sequence(Level(tree, j)) /\ Len(Level(tree, j)) = (Len(Level(tree, j - 1)) + 1) \div 2
  BY <1>3, <1>4, NextLevelIs
<1>6. Len(Level(tree, j - 1)) \in Nat
  BY <1>3 DEF Sequence
<1>7. Len(Level(tree, j)) > 0
  BY <1>3, <1>5, <1>6
<1> QED
  BY <1>1, <1>5, <1>7

\* A level and the next.
LEMMA LevelStep ==
    ASSUME NEW tree, Sequence(tree), Len(tree) > 0, NEW k \in Nat
    PROVE  /\ Len(Level(tree, k)) \in Nat \ {0}
           /\ Len(Level(tree, k + 1)) = (Len(Level(tree, k)) + 1) \div 2
           /\ \A i \in 1 .. Len(Level(tree, k + 1)) :
                Level(tree, k + 1)[i] =
                  <<Level(tree, k)[2 * i - 1],
                    IF 2 * i <= Len(Level(tree, k)) THEN Level(tree, k)[2 * i]
                                                     ELSE Level(tree, k)[2 * i - 1]>>
<1>1. Sequence(Level(tree, k)) /\ Len(Level(tree, k)) > 0
  BY LevelIs
<1>2. Level(tree, k + 1) = NextLevel(Level(tree, k))
  BY LevelDef
<1>3. Len(Level(tree, k)) \in Nat \ {0}
  BY <1>1 DEF Sequence
<1> QED
  BY <1>1, <1>2, <1>3, NextLevelIs, Zenon

\* Some level is a single node, and no later than there are leaves.
LEMMA LevelsShrink ==
    ASSUME NEW tree, Sequence(tree), Len(tree) > 0,
           NEW n \in Nat, \A j \in 0 .. n - 1 : Len(Level(tree, j)) > 1
    PROVE  Len(Level(tree, n)) + n <= Len(tree)
<1> DEFINE Bad == {k \in Nat : k <= n /\ ~ (Len(Level(tree, k)) + k <= Len(tree))}
<1> SUFFICES ASSUME Bad # {} PROVE FALSE
  OBVIOUS
<1>1. PICK k \in Bad : \A m \in Bad : k <= m
  BY Least
<1>2. k # 0
  BY LevelDef DEF Sequence
<1>3. k - 1 \in Nat /\ k - 1 \in 0 .. n - 1 /\ Len(Level(tree, k - 1)) + (k - 1) <= Len(tree)
  BY <1>1, <1>2
<1>4. /\ Len(Level(tree, k - 1)) \in Nat
      /\ Len(Level(tree, k)) = (Len(Level(tree, k - 1)) + 1) \div 2
  <2>1. (k - 1) + 1 = k
    OBVIOUS
  <2> QED
    BY <1>3, <2>1, LevelStep
<1>5. Len(Level(tree, k - 1)) > 1
  BY <1>3
<1>6. Len(tree) \in Nat
  BY DEF Sequence
<1> QED
  BY <1>1, <1>3, <1>4, <1>5, <1>6

LEMMA DepthIs ==
    ASSUME NEW tree, Sequence(tree), Len(tree) > 0
    PROVE  /\ Depth(tree) \in Nat
           /\ Len(Level(tree, Depth(tree))) = 1
<1> DEFINE Few == {k \in Nat : ~ (Len(Level(tree, k)) > 1)}
           IsTop(k) == /\ Len(Level(tree, k)) = 1
                       /\ \A j \in 0 .. k - 1 : Len(Level(tree, j)) > 1
<1>1. Len(tree) \in Nat
  BY DEF Sequence
<1>2. Few # {}
  <2> SUFFICES ASSUME Few = {} PROVE FALSE
    OBVIOUS
  <2>1. Len(Level(tree, Len(tree))) + Len(tree) <= Len(tree)
    BY <1>1, LevelsShrink
  <2>2. Len(Level(tree, Len(tree))) \in Nat \ {0}
    BY <1>1, LevelStep
  <2> QED
    BY <1>1, <2>1, <2>2
<1>3. PICK k \in Few : \A j \in Few : k <= j
  BY <1>2, Least
<1>4. \A j \in 0 .. k - 1 : Len(Level(tree, j)) > 1
  BY <1>3
<1>5. Len(Level(tree, k)) \in Nat \ {0}
  BY LevelStep
<1>6. Len(Level(tree, k)) = 1 /\ k \in 0 .. Len(tree)
  <2>1. ~ (Len(Level(tree, k)) > 1)
    BY <1>3
  <2>2. Len(Level(tree, k)) = 1
    <3>1. \A n \in Nat \ {0} : ~ (n > 1) => n = 1
      OBVIOUS
    <3> QED
      BY <1>5, <2>1, <3>1, Zenon
  <2>3. Len(Level(tree, k)) + k <= Len(tree)
    BY <1>4, LevelsShrink
  <2> QED
    BY <1>1, <2>2, <2>3
<1>7. Depth(tree) \in 0 .. Len(tree) /\ IsTop(Depth(tree))
  BY <1>4, <1>6 DEF Depth
<1> QED
  BY <1>1, <1>7

------------------------------------------------------------------------------
(* The proof of a leaf leads to the root *)

LEMMA AncestorIn ==
    ASSUME NEW tree, Sequence(tree), Len(tree) > 0,
           NEW index \in 0 .. Len(tree) - 1, NEW k \in Nat
    PROVE  Ancestor(index, k) \in 0 .. Len(Level(tree, k)) - 1
<1> DEFINE Bad == {j \in Nat : Ancestor(index, j) \notin 0 .. Len(Level(tree, j)) - 1}
<1> SUFFICES ASSUME Bad # {} PROVE FALSE
  OBVIOUS
<1>1. PICK j \in Bad : \A m \in Bad : j <= m
  BY Least
<1>2. j # 0
  BY LevelDef, AncestorDef
<1>3. j - 1 \in Nat /\ Ancestor(index, j - 1) \in 0 .. Len(Level(tree, j - 1)) - 1
  BY <1>1, <1>2
<1>4. /\ Len(Level(tree, j - 1)) \in Nat \ {0}
      /\ Len(Level(tree, j)) = (Len(Level(tree, j - 1)) + 1) \div 2
      /\ Ancestor(index, j) = Ancestor(index, j - 1) \div 2
  <2>1. (j - 1) + 1 = j
    OBVIOUS
  <2>2. /\ Len(Level(tree, j - 1)) \in Nat \ {0}
        /\ Len(Level(tree, j)) = (Len(Level(tree, j - 1)) + 1) \div 2
    <3> DEFINE n == j - 1
    <3>1. n \in Nat /\ n + 1 = j
      BY <1>3, <2>1
    <3> HIDE DEF n
    <3>2. /\ Len(Level(tree, n)) \in Nat \ {0}
          /\ Len(Level(tree, n + 1)) = (Len(Level(tree, n)) + 1) \div 2
      BY <3>1, LevelStep
    <3> QED
      BY <3>1, <3>2 DEF n
  <2>3. Ancestor(index, j) = Ancestor(index, j - 1) \div 2
    <3>1. Ancestor(index, (j - 1) + 1) = Ancestor(index, j - 1) \div 2
      BY <1>3, AncestorDef
    <3> QED
      BY <2>1, <3>1
  <2> QED
    BY <2>2, <2>3
<1>5. Ancestor(index, j) \in 0 .. Len(Level(tree, j)) - 1
  BY <1>3, <1>4
<1> QED
  BY <1>1, <1>5

\* A node and its sibling are the pair above them.
LEMMA Parent ==
    ASSUME NEW tree, Sequence(tree), Len(tree) > 0, NEW k \in Nat,
           NEW a \in 0 .. Len(Level(tree, k)) - 1
    PROVE  Join(Level(tree, k)[a + 1], Sibling(Level(tree, k), a), a)
             = Level(tree, k + 1)[a \div 2 + 1]
<1> DEFINE level == Level(tree, k)
           above == Level(tree, k + 1)
           p == a \div 2 + 1
<1>1. /\ Len(level) \in Nat \ {0}
      /\ Len(above) = (Len(level) + 1) \div 2
      /\ \A i \in 1 .. Len(above) :
           above[i] = <<level[2 * i - 1],
                        IF 2 * i <= Len(level) THEN level[2 * i] ELSE level[2 * i - 1]>>
  BY LevelStep
<1> HIDE DEF level, above
<1>2. a \in Nat /\ a < Len(level)
  BY <1>1 DEF level
<1>3. p \in 1 .. Len(above)
  BY <1>1, <1>2
<1>4. above[p] = <<level[2 * p - 1],
                   IF 2 * p <= Len(level) THEN level[2 * p] ELSE level[2 * p - 1]>>
  BY <1>1, <1>3
<1>5. CASE a % 2 = 1
  <2>1. 2 * p - 1 = a /\ 2 * p = a + 1 /\ 2 * p <= Len(level)
    BY <1>1, <1>2, <1>5
  <2>2. above[p] = <<level[a], level[a + 1]>>
    BY <1>4, <2>1
  <2>3. Sibling(level, a) = level[a]
    BY <1>1, <1>2, <1>5 DEF Sibling
  <2> QED
    BY <1>5, <2>2, <2>3 DEF Join, hashPair, level, above
<1>6. CASE a % 2 = 0
  <2>1. 2 * p - 1 = a + 1 /\ 2 * p = a + 2
    BY <1>2, <1>6
  <2>2. above[p] = <<level[a + 1], IF a + 2 <= Len(level) THEN level[a + 2] ELSE level[a + 1]>>
    BY <1>4, <2>1
  <2>3. Sibling(level, a) = IF a + 2 <= Len(level) THEN level[a + 2] ELSE level[a + 1]
    <3>1. CASE a + 1 < Len(level)
      BY <1>1, <1>2, <1>6, <3>1 DEF Sibling
    <3>2. CASE ~ (a + 1 < Len(level))
      BY <1>1, <1>2, <1>6, <3>2 DEF Sibling
    <3> QED
      BY <3>1, <3>2
  <2> QED
    BY <1>6, <2>2, <2>3 DEF Join, hashPair, level, above
<1> QED
  BY <1>2, <1>5, <1>6

LEMMA ProofIs ==
    ASSUME NEW tree, Sequence(tree), Len(tree) > 0, NEW index
    PROVE  /\ Len(Proof(tree, index)) = Depth(tree)
           /\ \A k \in 1 .. Depth(tree) :
                Proof(tree, index)[k] = Sibling(Level(tree, k - 1), Ancestor(index, k - 1))
<1> DEFINE path == Proof(tree, index)
<1>1. path = [k \in 1 .. Depth(tree) |-> Sibling(Level(tree, k - 1), Ancestor(index, k - 1))]
  BY DEF Proof
<1>2. Depth(tree) \in Nat
  BY DepthIs
<1> HIDE DEF path
<1>3. path = [k \in 1 .. Depth(tree) |-> path[k]]
  BY <1>1
<1>4. Len(path) = Depth(tree)
  BY <1>2, <1>3, SequenceOf
<1> QED
  BY <1>1, <1>4 DEF path

\* The proof of a leaf climbs along the nodes above it.
LEMMA ProofClimbs ==
    ASSUME NEW tree, Sequence(tree), Len(tree) > 0,
           NEW index \in 0 .. Len(tree) - 1, NEW n \in Nat, n <= Depth(tree)
    PROVE  Climb(tree[index + 1], index, Proof(tree, index), n)
             = Level(tree, n)[Ancestor(index, n) + 1]
<1> DEFINE path == Proof(tree, index)
           At(k) == Climb(tree[index + 1], index, path, k)
           Bad == {k \in Nat : k <= Depth(tree) /\ At(k) # Level(tree, k)[Ancestor(index, k) + 1]}
<1> SUFFICES ASSUME Bad # {} PROVE FALSE
  OBVIOUS
<1>1. PICK k \in Bad : \A m \in Bad : k <= m
  BY Least
<1>2. k # 0
  BY LevelDef, AncestorDef, ClimbDef, 0 \in Nat
<1>3. k - 1 \in Nat /\ k \in 1 .. Depth(tree) /\ (k - 1) + 1 = k
      /\ At(k - 1) = Level(tree, k - 1)[Ancestor(index, k - 1) + 1]
  BY <1>1, <1>2, DepthIs
<1>4. At(k) = Join(At(k - 1), path[k], Ancestor(index, k - 1))
  <2>1. \A j \in Nat : At(j + 1) = Join(At(j), path[j + 1], Ancestor(index, j))
    <3> HIDE DEF path
    <3> TAKE j \in Nat
    <3> DEFINE x == tree[index + 1]
    <3> HIDE DEF x
    <3>1. Climb(x, index, path, j + 1) = Join(Climb(x, index, path, j), path[j + 1], Ancestor(index, j))
      BY ClimbDef
    <3> QED
      BY <3>1 DEF x
  <2> HIDE DEF path, At
  <2>2. At((k - 1) + 1) = Join(At(k - 1), path[(k - 1) + 1], Ancestor(index, k - 1))
    BY <1>3, <2>1
  <2> QED
    BY <1>3, <2>2
<1>5. path[k] = Sibling(Level(tree, k - 1), Ancestor(index, k - 1))
  BY <1>3, ProofIs
<1>6. Ancestor(index, k - 1) \in 0 .. Len(Level(tree, k - 1)) - 1
  BY <1>3, AncestorIn
<1>7. Ancestor(index, k) = Ancestor(index, k - 1) \div 2
  BY <1>3, AncestorDef
<1>8. At(k) = Level(tree, (k - 1) + 1)[Ancestor(index, k - 1) \div 2 + 1]
  BY <1>3, <1>4, <1>5, <1>6, Parent
<1> QED
  BY <1>1, <1>3, <1>7, <1>8

\* verifyMerkleProof accepts what generateMerkleProof makes: the proof of every
\* leaf of every batch, of any size, verifies against the batch's root.
THEOREM ProofsVerify ==
    ASSUME NEW tree, Sequence(tree), Len(tree) > 0, NEW index \in 0 .. Len(tree) - 1
    PROVE  Verify(tree[index + 1], index, Proof(tree, index), Root(tree))
<1>1. Depth(tree) \in Nat /\ Len(Level(tree, Depth(tree))) = 1
  BY DepthIs
<1>2. Ancestor(index, Depth(tree)) = 0
  <2>1. Ancestor(index, Depth(tree)) \in 0 .. Len(Level(tree, Depth(tree))) - 1
    BY <1>1, AncestorIn
  <2> QED
    BY <1>1, <2>1
<1>3. Climb(tree[index + 1], index, Proof(tree, index), Depth(tree)) = Level(tree, Depth(tree))[1]
  BY <1>1, <1>2, ProofClimbs
<1> QED
  BY <1>3, ProofIs DEF Verify, Root

------------------------------------------------------------------------------
(* Nothing else leads to the root *)

\* A leaf hash is not the hash of two nodes.
Opaque(h) == \A x, y : h # <<x, y>>

\* The node is below the x-th of the next level, at the index if that is there.
ChildOf(level, x, node, index) ==
    \E y \in 1 .. Len(level) :
        /\ node = level[y]
        /\ index < Len(level) /\ x = index \div 2 + 1 => y = index + 1

\* What was joined into a node is the child of it that the index says.
LEMMA Child ==
    ASSUME NEW tree, Sequence(tree), Len(tree) > 0, NEW k \in Nat,
           NEW x \in 1 .. Len(Level(tree, k + 1)),
           NEW node, NEW sibling, NEW a \in Nat,
           Join(node, sibling, a) = Level(tree, k + 1)[x]
    PROVE  ChildOf(Level(tree, k), x, node, a)
<1> DEFINE level == Level(tree, k)
           above == Level(tree, k + 1)
<1>1. /\ Len(level) \in Nat \ {0}
      /\ Len(above) = (Len(level) + 1) \div 2
      /\ above[x] = <<level[2 * x - 1],
                      IF 2 * x <= Len(level) THEN level[2 * x] ELSE level[2 * x - 1]>>
  BY LevelStep
<1> HIDE DEF level, above
<1>2. x \in 1 .. Len(above) /\ Join(node, sibling, a) = above[x]
  BY DEF above
<1>3. 2 * x - 1 \in 1 .. Len(level) /\ (2 * x <= Len(level) => 2 * x \in 1 .. Len(level))
  BY <1>1, <1>2
<1>4. CASE a % 2 = 0
  <2>1. node = level[2 * x - 1]
    BY <1>1, <1>2, <1>4 DEF Join, hashPair
  <2>2. x = a \div 2 + 1 => 2 * x - 1 = a + 1
    BY <1>4
  <2> QED
    BY <1>3, <2>1, <2>2 DEF level, ChildOf
<1>5. CASE a % 2 # 0
  <2>1. node = IF 2 * x <= Len(level) THEN level[2 * x] ELSE level[2 * x - 1]
    BY <1>1, <1>2, <1>5 DEF Join, hashPair
  <2>2. x = a \div 2 + 1 => 2 * x = a + 1
    BY <1>5
  <2>3. a < Len(level) /\ x = a \div 2 + 1 => 2 * x <= Len(level)
    BY <1>1, <2>2
  <2> DEFINE y == IF 2 * x <= Len(level) THEN 2 * x ELSE 2 * x - 1
  <2>4. y \in 1 .. Len(level) /\ node = level[y]
    BY <1>3, <2>1
  <2>5. a < Len(level) /\ x = a \div 2 + 1 => y = a + 1
    BY <2>2, <2>3
  <2> QED
    BY <2>4, <2>5 DEF level, ChildOf
<1> QED
  BY <1>4, <1>5

\* Above the leaves every node is the hash of two.
LEMMA NodesArePairs ==
    ASSUME NEW tree, Sequence(tree), Len(tree) > 0, NEW k \in Nat, k # 0,
           NEW y \in 1 .. Len(Level(tree, k))
    PROVE  ~ Opaque(Level(tree, k)[y])
<1> DEFINE l == k - 1
<1>1. l \in Nat /\ l + 1 = k
  OBVIOUS
<1> HIDE DEF l
<1>2. y \in 1 .. Len(Level(tree, l + 1))
  BY <1>1
<1>3. Level(tree, l + 1)[y] =
        <<Level(tree, l)[2 * y - 1],
          IF 2 * y <= Len(Level(tree, l)) THEN Level(tree, l)[2 * y]
                                           ELSE Level(tree, l)[2 * y - 1]>>
  BY <1>1, <1>2, LevelStep
<1> QED
  BY <1>1, <1>3, Zenon DEF Opaque

LEMMA JoinIsPair == ASSUME NEW node, NEW sibling, NEW a PROVE ~ Opaque(Join(node, sibling, a))
BY DEF Opaque, Join, hashPair

LEMMA ClimbIsPair ==
    ASSUME NEW hash, NEW index, NEW path, NEW n \in Nat, n # 0
    PROVE  ~ Opaque(Climb(hash, index, path, n))
<1> DEFINE l == n - 1
<1>1. l \in Nat /\ l + 1 = n
  OBVIOUS
<1> HIDE DEF l
<1>2. Climb(hash, index, path, l + 1) =
        Join(Climb(hash, index, path, l), path[l + 1], Ancestor(index, l))
  BY <1>1, ClimbDef
<1> QED
  BY <1>1, <1>2, JoinIsPair

LEMMA RootAtTop ==
    ASSUME NEW tree, Sequence(tree), Len(tree) > 0, NEW index \in 0 .. Len(tree) - 1
    PROVE  Ancestor(index, Depth(tree)) = 0
<1>1. Depth(tree) \in Nat /\ Len(Level(tree, Depth(tree))) = 1
  BY DepthIs
<1>2. Ancestor(index, Depth(tree)) \in 0 .. Len(Level(tree, Depth(tree))) - 1
  BY <1>1, AncestorIn
<1> QED
  BY <1>1, <1>2

\* n levels below the root, the climb of a path was at a node, and if the path
\* has a sibling for every level, at the node above the index.
OnTree(tree, hash, index, path, n) ==
    \E y \in 1 .. Len(Level(tree, Depth(tree) - n)) :
        /\ Climb(hash, index, path, Len(path) - n) = Level(tree, Depth(tree) - n)[y]
        /\ Len(path) = Depth(tree) => y = Ancestor(index, Depth(tree) - n) + 1

\* Down from the root, what was climbed through are nodes of the tree, and with
\* as many siblings as there are levels, those above the index.
LEMMA ClimbedNodes ==
    ASSUME NEW tree, Sequence(tree), Len(tree) > 0, NEW index \in 0 .. Len(tree) - 1,
           NEW hash, NEW path, Len(path) \in Nat,
           Verify(hash, index, path, Root(tree)),
           NEW n \in Nat, n <= Len(path), n <= Depth(tree)
    PROVE  OnTree(tree, hash, index, path, n)
<1> DEFINE d == Depth(tree)
           m == Len(path)
           At(i) == Climb(hash, index, path, i)
           Below(i) == OnTree(tree, hash, index, path, i)
           Bad == {i \in Nat : i <= m /\ i <= d /\ ~ Below(i)}
<1>1. d \in Nat /\ m \in Nat /\ Len(Level(tree, d)) = 1 /\ Ancestor(index, d) = 0
  BY DepthIs, RootAtTop
<1>2. At(m) = Level(tree, d)[1]
  BY DEF Verify, Root
<1> SUFFICES ASSUME Bad # {} PROVE FALSE
  <2> HIDE DEF d, m, Below
  <2>1. Below(n)
    BY DEF d, m
  <2> QED
    BY <2>1 DEF Below
<1>below. \A i : Below(i) <=> \E y \in 1 .. Len(Level(tree, d - i)) :
                   /\ At(m - i) = Level(tree, d - i)[y]
                   /\ m = d => y = Ancestor(index, d - i) + 1
  BY DEF OnTree
<1> HIDE DEF d, m, At, Below
<1>3. PICK i \in Bad : \A j \in Bad : i <= j
  BY Least
<1>4. Below(0)
  <2>1. d - 0 = d /\ m - 0 = m
    BY <1>1
  <2>2. 1 \in 1 .. Len(Level(tree, d)) /\ 1 = Ancestor(index, d) + 1
    BY <1>1
  <2> QED
    BY <1>2, <1>below, <2>1, <2>2, Zenon
<1>5. i # 0
  BY <1>4
<1>6. i - 1 \in Nat /\ i <= m /\ i <= d /\ Below(i - 1)
  BY <1>1, <1>3, <1>5
<1> DEFINE k == d - i
           l == m - i
           a == Ancestor(index, k)
           b == Ancestor(index, l)
<1>7. k \in Nat /\ l \in Nat /\ d - (i - 1) = k + 1 /\ m - (i - 1) = l + 1 /\ (m = d => k = l)
  BY <1>1, <1>6
<1> HIDE DEF k, l
<1>8. At(l + 1) = Join(At(l), path[l + 1], b)
  BY <1>7, ClimbDef DEF At
<1>9. PICK x \in 1 .. Len(Level(tree, k + 1)) :
         /\ At(l + 1) = Level(tree, k + 1)[x]
         /\ m = d => x = Ancestor(index, k + 1) + 1
  <2>1. \E y \in 1 .. Len(Level(tree, d - (i - 1))) :
          /\ At(m - (i - 1)) = Level(tree, d - (i - 1))[y]
          /\ m = d => y = Ancestor(index, d - (i - 1)) + 1
    BY <1>6, <1>below, Zenon
  <2> QED
    BY <1>7, <2>1, Zenon
<1>10. /\ a \in Nat /\ a < Len(Level(tree, k)) /\ b \in Nat
       /\ Ancestor(index, k + 1) = a \div 2
  <2>1. Len(Level(tree, k)) \in Nat
    BY <1>7, LevelStep
  <2>2. a \in 0 .. Len(Level(tree, k)) - 1
    BY <1>7, AncestorIn
  <2>3. b \in 0 .. Len(Level(tree, l)) - 1
    BY <1>7, AncestorIn
  <2>4. Ancestor(index, k + 1) = a \div 2
    BY <1>7, AncestorDef
  <2> QED
    BY <2>1, <2>2, <2>3, <2>4
<1> HIDE DEF a, b
<1>11. PICK y \in 1 .. Len(Level(tree, k)) :
          /\ At(l) = Level(tree, k)[y]
          /\ b < Len(Level(tree, k)) /\ x = b \div 2 + 1 => y = b + 1
  <2> DEFINE node == At(l)
             sibling == path[l + 1]
  <2>1. Join(node, sibling, b) = Level(tree, k + 1)[x]
    BY <1>8, <1>9
  <2>2. k \in Nat /\ b \in Nat /\ x \in 1 .. Len(Level(tree, k + 1))
    BY <1>7, <1>10
  <2> HIDE DEF node, sibling
  <2>3. ChildOf(Level(tree, k), x, node, b)
    BY <2>1, <2>2, Child
  <2> QED
    BY <2>3 DEF node, ChildOf
<1>12. m = d => y = a + 1
  <2>1. m = d => a = b
    BY <1>7 DEF a, b
  <2> QED
    BY <1>9, <1>10, <1>11, <2>1
<1>13. Below(i)
  BY <1>11, <1>12, <1>below, Zenon DEF a, k, l
<1> QED
  BY <1>3, <1>13

\* Whatever path is offered, also a longer or a shorter one than the tree is
\* deep, verifyMerkleProof accepts no leaf but the one at the index.
THEOREM OnlyMembersVerify ==
    ASSUME NEW tree, Sequence(tree), Len(tree) > 0, NEW index \in 0 .. Len(tree) - 1,
           \A i \in 1 .. Len(tree) : Opaque(tree[i]),
           NEW hash, Opaque(hash), NEW path, Len(path) \in Nat,
           Verify(hash, index, path, Root(tree))
    PROVE  hash = tree[index + 1]
<1> DEFINE d == Depth(tree)
           m == Len(path)
           At(i) == Climb(hash, index, path, i)
<1>1. d \in Nat /\ m \in Nat
  BY DepthIs
<1>2. At(0) = hash
  BY ClimbDef, 0 \in Nat
<1>3. Level(tree, 0) = tree /\ Ancestor(index, 0) = index
  BY LevelDef, AncestorDef
<1>4. ASSUME NEW n \in Nat, n <= m, n <= d
      PROVE  \E y \in 1 .. Len(Level(tree, d - n)) :
               /\ At(m - n) = Level(tree, d - n)[y]
               /\ m = d => y = Ancestor(index, d - n) + 1
  <2>1. OnTree(tree, hash, index, path, n)
    BY <1>4, ClimbedNodes
  <2> QED
    BY <2>1 DEF OnTree
<1>5. \A l \in Nat : l # 0 => ~ Opaque(At(l))
  BY ClimbIsPair
<1> HIDE DEF d, m, At
<1>6. CASE m = d
  <2>1. PICK y \in 1 .. Len(Level(tree, d - d)) :
           /\ At(m - d) = Level(tree, d - d)[y]
           /\ m = d => y = Ancestor(index, d - d) + 1
    <3>1. d \in Nat /\ d <= m /\ d <= d
      BY <1>1, <1>6
    <3> QED
      BY <1>4, <3>1, Zenon
  <2>2. m - d = 0 /\ d - d = 0
    BY <1>1, <1>6
  <2> QED
    BY <1>2, <1>3, <1>6, <2>1, <2>2
<1>7. CASE m < d
  <2>1. PICK y \in 1 .. Len(Level(tree, d - m)) : At(m - m) = Level(tree, d - m)[y]
    BY <1>1, <1>4, <1>7
  <2>2. d - m \in Nat /\ d - m # 0 /\ m - m = 0
    BY <1>1, <1>7
  <2> QED
    BY <1>2, <2>1, <2>2, NodesArePairs
<1>8. CASE d < m
  <2>1. PICK y \in 1 .. Len(Level(tree, d - d)) : At(m - d) = Level(tree, d - d)[y]
    BY <1>1, <1>4, <1>8
  <2>2. m - d \in Nat /\ m - d # 0 /\ d - d = 0
    BY <1>1, <1>8
  <2>3. At(m - d) = tree[y] /\ y \in 1 .. Len(tree)
    BY <1>3, <2>1, <2>2
  <2> QED
    BY <1>5, <2>2, <2>3
<1> QED
  BY <1>1, <1>6, <1>7, <1>8

------------------------------------------------------------------------------
(* The root fixes a batch in which no hash repeats *)

LEMMA DistinctAbove ==
    ASSUME NEW level, Sequence(level), Distinct(level)
    PROVE  Distinct(NextLevel(level))
<1> DEFINE up == NextLevel(level)
<1>1. Len(level) \in Nat /\ DOMAIN level = 1 .. Len(level)
  <2>1. \A f : \A n \in Nat : f = [i \in 1 .. n |-> f[i]] => DOMAIN f = 1 .. n
    OBVIOUS
  <2> QED
    BY <2>1 DEF Sequence
<1>2. /\ DOMAIN up = 1 .. (Len(level) + 1) \div 2
      /\ \A i \in DOMAIN up : up[i][1] = level[2 * i - 1]
  BY DEF NextLevel, hashPair
<1> HIDE DEF up
<1>3. \A i, j \in DOMAIN level : level[i] = level[j] => i = j
  BY DEF Distinct
<1>4. ASSUME NEW i \in DOMAIN up, NEW j \in DOMAIN up, up[i] = up[j] PROVE i = j
  <2>1. i \in Nat /\ j \in Nat
    BY <1>1, <1>2
  <2>2. 2 * i - 1 \in DOMAIN level /\ 2 * j - 1 \in DOMAIN level
    BY <1>1, <1>2
  <2>3. level[2 * i - 1] = level[2 * j - 1]
    BY <1>2, <1>4
  <2>4. 2 * i - 1 = 2 * j - 1
    BY <1>3, <2>2, <2>3, Zenon
  <2> QED
    BY <2>1, <2>4
<1> QED
  BY <1>4 DEF Distinct, up

LEMMA LevelDistinct ==
    ASSUME NEW tree, Sequence(tree), Len(tree) > 0, Distinct(tree), NEW k \in Nat
    PROVE  Distinct(Level(tree, k))
<1> DEFINE Bad == {j \in Nat : ~ Distinct(Level(tree, j))}
<1> SUFFICES ASSUME Bad # {} PROVE FALSE
  OBVIOUS
<1>1. PICK j \in Bad : \A m \in Bad : j <= m
  BY Least
<1>2. j # 0
  BY LevelDef
<1> DEFINE i == j - 1
<1>3. i \in Nat /\ i + 1 = j /\ Distinct(Level(tree, i))
  BY <1>1, <1>2
<1> HIDE DEF i
<1>4. Level(tree, i + 1) = NextLevel(Level(tree, i))
  BY <1>3, LevelDef
<1>5. Distinct(Level(tree, i + 1))
  BY <1>3, <1>4, LevelIs, DistinctAbove
<1> QED
  BY <1>1, <1>3, <1>5

LEMMA Halves ==
    ASSUME NEW n \in Nat
    PROVE  \E w \in Nat : w = (n + 1) \div 2 /\ (n = 2 * w \/ n = 2 * w - 1)
<1>1. (n + 1) \div 2 \in Nat
  OBVIOUS
<1>2. n = 2 * ((n + 1) \div 2) \/ n = 2 * ((n + 1) \div 2) - 1
  OBVIOUS
<1> QED
  BY <1>1, <1>2

\* Two levels of distinct nodes with the same level above are the same.
LEMMA SameBelow ==
    ASSUME NEW s, NEW t, Sequence(s), Sequence(t), Distinct(s), Distinct(t),
           NextLevel(s) = NextLevel(t)
    PROVE  s = t
<1> DEFINE up == NextLevel(s)
           m == Len(s)
           n == Len(t)
<1>1. /\ m \in Nat /\ n \in Nat
      /\ s = [i \in 1 .. m |-> s[i]] /\ t = [i \in 1 .. n |-> t[i]]
  BY DEF Sequence
<1>2. /\ Len(up) = (m + 1) \div 2
      /\ \A i \in 1 .. Len(up) : up[i] =
           <<s[2 * i - 1], IF 2 * i <= m THEN s[2 * i] ELSE s[2 * i - 1]>>
  BY NextLevelIs
<1>3. /\ Len(up) = (n + 1) \div 2
      /\ \A i \in 1 .. Len(up) : up[i] =
           <<t[2 * i - 1], IF 2 * i <= n THEN t[2 * i] ELSE t[2 * i - 1]>>
  <2>1. /\ Len(NextLevel(t)) = (n + 1) \div 2
        /\ \A i \in 1 .. Len(NextLevel(t)) : NextLevel(t)[i] =
             <<t[2 * i - 1], IF 2 * i <= n THEN t[2 * i] ELSE t[2 * i - 1]>>
    BY NextLevelIs
  <2>2. up = NextLevel(t)
    OBVIOUS
  <2> HIDE DEF m, n, up
  <2> QED
    BY <2>1, <2>2, Zenon
<1>4. /\ \A i, j \in 1 .. m : s[i] = s[j] => i = j
      /\ \A i, j \in 1 .. n : t[i] = t[j] => i = j
  <2>1. DOMAIN s = 1 .. m /\ DOMAIN t = 1 .. n
    <3> HIDE DEF m, n
    <3> QED
      BY <1>1
  <2> QED
    BY <2>1 DEF Distinct
<1> DEFINE w == Len(up)
<1> HIDE DEF m, n, up
<1>5. w \in Nat /\ (m = 2 * w \/ m = 2 * w - 1) /\ (n = 2 * w \/ n = 2 * w - 1)
  <2>1. PICK x \in Nat : x = (m + 1) \div 2 /\ (m = 2 * x \/ m = 2 * x - 1)
    BY <1>1, Halves
  <2>2. PICK y \in Nat : y = (n + 1) \div 2 /\ (n = 2 * y \/ n = 2 * y - 1)
    BY <1>1, Halves
  <2>3. w = x /\ w = y
    BY <1>2, <1>3, <2>1, <2>2
  <2> QED
    BY <2>1, <2>2, <2>3
<1>6. ASSUME NEW i \in 1 .. w
      PROVE  /\ s[2 * i - 1] = t[2 * i - 1]
             /\ (IF 2 * i <= m THEN s[2 * i] ELSE s[2 * i - 1])
                  = (IF 2 * i <= n THEN t[2 * i] ELSE t[2 * i - 1])
  <2> DEFINE x == IF 2 * i <= m THEN s[2 * i] ELSE s[2 * i - 1]
             y == IF 2 * i <= n THEN t[2 * i] ELSE t[2 * i - 1]
  <2>1. up[i] = <<s[2 * i - 1], x>> /\ up[i] = <<t[2 * i - 1], y>>
    BY <1>2, <1>3, Zenon
  <2> HIDE DEF x, y
  <2>2. s[2 * i - 1] = t[2 * i - 1] /\ x = y
    BY <2>1
  <2> QED
    BY <2>2 DEF x, y
<1> HIDE DEF w
<1>7. m = n
  <2>1. ASSUME m < n PROVE FALSE
    <3>1. /\ w \in 1 .. w /\ 2 * w = n /\ 2 * w - 1 = m /\ ~ (2 * w <= m) /\ 2 * w <= n
          /\ m \in 1 .. n /\ n \in 1 .. n
      BY <1>1, <1>5, <2>1
    <3>2. s[m] = t[m] /\ s[m] = t[n]
      BY <1>6, <3>1
    <3> QED
      BY <1>1, <1>4, <2>1, <3>1, <3>2
  <2>2. ASSUME n < m PROVE FALSE
    <3>1. /\ w \in 1 .. w /\ 2 * w = m /\ 2 * w - 1 = n /\ ~ (2 * w <= n) /\ 2 * w <= m
          /\ n \in 1 .. m /\ m \in 1 .. m
      BY <1>1, <1>5, <2>2
    <3>2. s[n] = t[n] /\ s[m] = t[n]
      BY <1>6, <3>1
    <3> QED
      BY <1>1, <1>4, <2>2, <3>1, <3>2
  <2> QED
    BY <1>1, <2>1, <2>2
<1>8. ASSUME NEW j \in 1 .. m PROVE s[j] = t[j]
  <2>1. PICK i \in 1 .. w : j = 2 * i - 1 \/ (j = 2 * i /\ 2 * i <= m)
    <3>1. PICK i \in Nat : i = (j + 1) \div 2 /\ (j = 2 * i \/ j = 2 * i - 1)
      BY Halves
    <3>2. j \in Nat /\ 1 <= j /\ j <= m /\ m \in Nat
      BY <1>1
    <3>3. i \in 1 .. w /\ (j = 2 * i => 2 * i <= m)
      BY <1>5, <3>1, <3>2
    <3> QED
      BY <3>1, <3>3
  <2> QED
    BY <1>6, <1>7, <2>1
<1> QED
  BY <1>1, <1>7, <1>8

LEMMA RootFixesLower ==
    ASSUME NEW a, NEW b, Sequence(a), Sequence(b), Len(a) > 0, Len(b) > 0,
           Distinct(a), Distinct(b), \A i \in 1 .. Len(a) : Opaque(a[i]),
           Root(a) = Root(b), Depth(a) <= Depth(b)
    PROVE  a = b
<1> DEFINE d == Depth(a)
           e == Depth(b)
           Bad == {j \in Nat : j <= d /\ Level(a, d - j) # Level(b, e - j)}
<1>1. d \in Nat /\ e \in Nat /\ Len(Level(a, d)) = 1 /\ Len(Level(b, e)) = 1
  BY DepthIs
<1>2. Level(a, d)[1] = Level(b, e)[1]
  BY DEF Root
<1>3. d <= e
  OBVIOUS
<1>4. Level(a, 0) = a /\ Level(b, 0) = b
  BY LevelDef
<1> HIDE DEF d, e
<1>5. Bad = {}
  <2> SUFFICES ASSUME Bad # {} PROVE FALSE
    OBVIOUS
  <2>1. PICK j \in Bad : \A i \in Bad : j <= i
    BY Least
  <2>2. j # 0
    <3>1. Sequence(Level(a, d)) /\ Sequence(Level(b, e))
      BY <1>1, LevelIs
    <3>2. Level(a, d) = [i \in 1 .. 1 |-> Level(a, d)[i]] /\ Level(b, e) = [i \in 1 .. 1 |-> Level(b, e)[i]]
      BY <1>1, <3>1, Zenon DEF Sequence
    <3>3. Level(a, d) = Level(b, e)
      BY <1>2, <3>2
    <3>4. d - 0 = d /\ e - 0 = e
      BY <1>1
    <3> QED
      BY <2>1, <3>3, <3>4
  <2> DEFINE k == d - j
             l == e - j
  <2>3. k \in Nat /\ l \in Nat /\ d - (j - 1) = k + 1 /\ e - (j - 1) = l + 1 /\ j - 1 \in Nat /\ j - 1 <= d
    BY <1>1, <1>3, <2>1, <2>2
  <2>4. Level(a, d - (j - 1)) = Level(b, e - (j - 1))
    BY <2>1, <2>3
  <2>5. Level(a, k) # Level(b, l)
    BY <2>1
  <2> HIDE DEF k, l
  <2>6. Level(a, k + 1) = Level(b, l + 1)
    BY <2>3, <2>4, Zenon
  <2>7. Level(a, k + 1) = NextLevel(Level(a, k)) /\ Level(b, l + 1) = NextLevel(Level(b, l))
    BY <2>3, LevelDef
  <2>8. /\ Sequence(Level(a, k)) /\ Sequence(Level(b, l))
        /\ Distinct(Level(a, k)) /\ Distinct(Level(b, l))
    BY <2>3, LevelIs, LevelDistinct
  <2>9. Level(a, k) = Level(b, l)
    BY <2>6, <2>7, <2>8, SameBelow
  <2> QED
    BY <2>5, <2>9
<1>6. a = Level(b, e - d)
  <2>1. d \notin Bad
    BY <1>5
  <2>2. d - d = 0 /\ d <= d
    BY <1>1
  <2> QED
    BY <1>1, <1>4, <2>1, <2>2
<1>7. CASE e = d
  <2>1. e - d = 0
    BY <1>1, <1>7
  <2> QED
    BY <1>4, <1>6, <2>1
<1>8. CASE e # d
  <2>1. e - d \in Nat /\ e - d # 0
    BY <1>1, <1>3, <1>8
  <2>2. Len(a) \in Nat
    BY DEF Sequence
  <2>3. 1 \in 1 .. Len(Level(b, e - d))
    BY <1>6, <2>2
  <2>4. ~ Opaque(Level(b, e - d)[1])
    BY <2>1, <2>3, NodesArePairs
  <2> QED
    BY <1>6, <2>3, <2>4
<1> QED
  BY <1>7, <1>8

\* Two batches without a repeated hash have the same root only if they have the
\* same leaves in the same order.
THEOREM RootFixes ==
    ASSUME NEW a, NEW b, Sequence(a), Sequence(b), Len(a) > 0, Len(b) > 0,
           Distinct(a), Distinct(b),
           \A i \in 1 .. Len(a) : Opaque(a[i]), \A i \in 1 .. Len(b) : Opaque(b[i]),
           Root(a) = Root(b)
    PROVE  a = b
<1>1. Depth(a) \in Nat /\ Depth(b) \in Nat
  BY DepthIs
<1>2. CASE Depth(a) <= Depth(b)
  BY <1>2, RootFixesLower
<1>3. CASE Depth(b) <= Depth(a)
  <2>1. Root(b) = Root(a)
    OBVIOUS
  <2>2. b = a
    BY <1>3, <2>1, RootFixesLower
  <2> QED
    BY <2>2
<1> QED
  BY <1>1, <1>2, <1>3

------------------------------------------------------------------------------
(* Batches as they grow *)

\* Both batches are sequences of leaf hashes with one at least.
TreeInv ==
    /\ hashes \in Seq(Hashes) /\ other \in Seq(Hashes)
    /\ Len(hashes) > 0 /\ Len(other) > 0
    /\ Distinct(other)

LEMMA TreeHolds == TreeSpec => []TreeInv
<1>1. TreeInit => TreeInv
  BY DEF TreeInit, TreeInv, Distinct
<1>2. ASSUME TreeInv, NEW h \in Hashes, Queue(h) PROVE TreeInv'
  <2>1. hashes' \in Seq(Hashes) /\ Len(hashes') > 0
    BY <1>2 DEF Queue, TreeInv
  <2> QED
    BY <1>2, <2>1 DEF Queue, TreeInv, Distinct
<1>3. ASSUME TreeInv, NEW h \in Hashes, QueueOther(h) PROVE TreeInv'
  <2>1. /\ other' = Append(other, h) /\ other \in Seq(Hashes) /\ UNCHANGED hashes
        /\ \A i \in DOMAIN other : other[i] # h
    BY <1>3 DEF QueueOther, Leaves, TreeInv
  <2>2. /\ other' \in Seq(Hashes) /\ Len(other') > 0
        /\ DOMAIN other = 1 .. Len(other) /\ DOMAIN other' = 1 .. Len(other) + 1
        /\ other'[Len(other) + 1] = h /\ Len(other) \in Nat
        /\ \A i \in 1 .. Len(other) : other'[i] = other[i]
    BY <2>1
  <2>3. ASSUME NEW i \in DOMAIN other', NEW j \in DOMAIN other', other'[i] = other'[j]
        PROVE  i = j
    BY <1>3, <2>1, <2>2, <2>3 DEF TreeInv, Distinct
  <2>4. Distinct(other')
    BY <2>3 DEF Distinct
  <2> QED
    BY <1>3, <2>1, <2>2, <2>4 DEF TreeInv
<1>4. TreeInv /\ [TreeNext]_treeVars => TreeInv'
  BY <1>2, <1>3 DEF TreeInv, TreeNext, treeVars, Distinct
<1> QED
  BY <1>1, <1>4, PTL DEF TreeSpec

LEMMA SeqIsSequence == ASSUME NEW S, NEW s \in Seq(S) PROVE Sequence(s)
BY DEF Sequence

\* However the batch grew, verifyCapsule accepts the stored proof of each of its
\* leaves, and no proof of any other batch shows another leaf.
THEOREM MembershipHolds ==
    ASSUME \A h \in Hashes : Opaque(h)
    PROVE  TreeSpec => []ProofShowsMembership
<1>1. TreeInv => ProofShowsMembership
  <2> SUFFICES ASSUME TreeInv PROVE ProofShowsMembership
    OBVIOUS
  <2>1. /\ Sequence(hashes) /\ Len(hashes) > 0 /\ Len(hashes) \in Nat
        /\ Sequence(other) /\ Len(other) > 0
        /\ \A i \in 1 .. Len(hashes) : Opaque(hashes[i])
    BY SeqIsSequence DEF TreeInv
  <2>2. ASSUME NEW i \in 0 .. Len(hashes) - 1
        PROVE  Verify(hashes[i + 1], i, Proof(hashes, i), Root(hashes))
    BY <2>1, ProofsVerify
  <2>3. ASSUME NEW j \in 0 .. Len(other) - 1, NEW h \in Hashes, NEW i \in 0 .. Len(hashes) - 1,
               Verify(h, i, Proof(other, j), Root(hashes))
        PROVE  h = hashes[i + 1]
    <3>1. Len(Proof(other, j)) \in Nat
      BY <2>1, ProofIs, DepthIs
    <3> QED
      BY <2>1, <2>3, <3>1, OnlyMembersVerify
  <2> QED
    BY <2>2, <2>3 DEF ProofShowsMembership
<1> QED
  BY <1>1, TreeHolds, PTL

\* What is attested is the batch: while no hash repeats, no other batch of
\* distinct hashes, of any size, has its root.
THEOREM RootFixesHolds ==
    ASSUME \A h \in Hashes : Opaque(h)
    PROVE  TreeSpec => []RootFixesBatch
<1>1. TreeInv => RootFixesBatch
  <2> SUFFICES ASSUME TreeInv, Distinct(hashes), Root(hashes) = Root(other)
               PROVE  hashes = other
    BY DEF RootFixesBatch
  <2>1. /\ Sequence(hashes) /\ Len(hashes) > 0 /\ Sequence(other) /\ Len(other) > 0
        /\ Distinct(other)
        /\ \A i \in 1 .. Len(hashes) : Opaque(hashes[i])
        /\ \A i \in 1 .. Len(other) : Opaque(other[i])
    BY SeqIsSequence DEF TreeInv
  <2> QED
    BY <2>1, RootFixes
<1> QED
  BY <1>1, TreeHolds, PTL

------------------------------------------------------------------------------
(* The services and the tree together *)

\* The leaf hashes of a batch, if HashOf gives the hash of every capsule.
LeafHashes(HashOf, b) == [i \in 1 .. Len(batch[b].root) |-> HashOf[batch[b].root[i]]]

\* verifyCapsule finds for every anchored capsule a leaf whose stored proof
\* leads to the root of its batch, and its place in the batch shows no other hash.
ProvableBy(HashOf) ==
    \A c \in Capsules : capsule[c].status = "ANCHORED" =>
        LET tree  == LeafHashes(HashOf, leaf[c].batch)
            index == leaf[c].index - 1
        IN  /\ Verify(HashOf[c], index, Proof(tree, index), Root(tree))
            /\ \A hash \in Hashes : \A path :
                 Len(path) \in Nat /\ Verify(hash, index, path, Root(tree)) => hash = HashOf[c]

\* What the Evidence Service shows as anchored the Trust Service can prove, by
\* the tree whose root is attested, for any hashes and any interleaving.
THEOREM AnchoredIsProvable ==
    ASSUME NEW CONSTANT HashOf \in [Capsules -> Hashes], \A h \in Hashes : Opaque(h)
    PROVE  PipelineSpec => []ProvableBy(HashOf)
<1>1. PipelineInv => ProvableBy(HashOf)
  <2> SUFFICES ASSUME PipelineInv, NEW c \in Capsules, capsule[c].status = "ANCHORED"
               PROVE  LET tree  == LeafHashes(HashOf, leaf[c].batch)
                          index == leaf[c].index - 1
                      IN  /\ Verify(HashOf[c], index, Proof(tree, index), Root(tree))
                          /\ \A hash \in Hashes : \A path :
                               Len(path) \in Nat /\ Verify(hash, index, path, Root(tree))
                                 => hash = HashOf[c]
    BY DEF ProvableBy
  <2> DEFINE tree  == LeafHashes(HashOf, leaf[c].batch)
             index == leaf[c].index - 1
             root  == batch[leaf[c].batch].root
  <2>1. PICK m \in told : m.capsule = c
    BY DEF PipelineInv, ReportInv, ToldAs
  <2>2. leaf[c] # TrustP!NoLeaf
    BY <2>1 DEF PipelineInv, TrustP!TrustInv, TrustP!ToldIsStored
  <2>3. /\ leaf[c].batch \in Batches /\ leaf[c].index \in 1 .. Len(root)
        /\ root[leaf[c].index] = c
    BY <2>2 DEF PipelineInv, TrustP!TrustInv, TrustP!LeavesMatchBatch, TrustP!LeafOK
  <2>4. root \in Seq(Capsules)
    BY <2>3 DEF PipelineInv, TrustP!TrustInv, TrustP!TypeOK, TrustP!BatchRow
  <2> HIDE DEF root
  <2>5. Len(root) \in Nat /\ \A i \in 1 .. Len(root) : root[i] \in Capsules
    BY <2>4
  <2>6. tree = [i \in 1 .. Len(root) |-> HashOf[root[i]]]
    BY DEF LeafHashes, root
  <2> HIDE DEF tree
  <2>7. tree = [i \in 1 .. Len(root) |-> tree[i]]
    BY <2>6
  <2>8. Sequence(tree) /\ Len(tree) = Len(root)
    BY <2>5, <2>7, SequenceOf
  <2>9. /\ index \in 0 .. Len(tree) - 1 /\ Len(tree) > 0 /\ index + 1 = leaf[c].index
        /\ tree[index + 1] = HashOf[c]
        /\ \A i \in 1 .. Len(tree) : Opaque(tree[i])
    BY <2>3, <2>5, <2>6, <2>8
  <2> HIDE DEF index
  <2>10. Verify(HashOf[c], index, Proof(tree, index), Root(tree))
    <3>1. Verify(tree[index + 1], index, Proof(tree, index), Root(tree))
      BY <2>8, <2>9, ProofsVerify
    <3> QED
      BY <2>9, <3>1
  <2>11. ASSUME NEW hash \in Hashes, NEW path, Len(path) \in Nat,
                Verify(hash, index, path, Root(tree))
         PROVE  hash = HashOf[c]
    <3>1. hash = tree[index + 1]
      BY <2>8, <2>9, <2>11, OnlyMembersVerify
    <3> QED
      BY <2>9, <3>1
  <2> QED
    BY <2>10, <2>11 DEF tree, index
<1> QED
  BY <1>1, PipelineHolds, PTL

==============================================================================
