------------------------ MODULE EvidenceCapsule_proofs ------------------------
(***************************************************************************)
(* Proofs about EvidenceCapsule, for every set of capsules, requests,      *)
(* workload and schema, and for any number of requests in flight.          *)
(***************************************************************************)
EXTENDS EvidenceCapsule, FiniteSetTheorems, SequenceTheorems, TLAPS

------------------------------------------------------------------------------
(* What a handler's local variables are worth while others run *)

\* Stages in which the handler works on an existing capsule.
Bound == {"inserted", "validating", "approved", "anchoring", "locking",
          "recordingAi", "savingTally"}

\* Stages that carry what getCapsule returned.
Holding == Bound \ {"inserted"}

\* What a handler knows of its own locals: the capsule it works on exists, its
\* input is of the kind its endpoint takes, the row it read was a capsule's.
LocalOK(r) ==
    /\ req[r].stage \in Bound =>
         req[r].capsule \in Capsules /\ Exists(req[r].capsule)
    /\ req[r].stage = "validating" => req[r].input \in Decisions
    /\ req[r].stage = "anchoring" => req[r].input \in AnchorStates
    /\ req[r].stage \in Holding =>
         req[r].seen.status # "ABSENT" /\ req[r].seen.key \in Requests

TypeInv ==
    /\ TypeOK
    /\ \A r \in Requests : LocalOK(r)
    /\ \A c \in Capsules : Exists(c) => capsule[c].key \in Requests

USE DEF Settled, Bound, Holding

LEMMA InitTypeInv == Init => TypeInv
BY DEF Init, TypeInv, TypeOK, LocalOK, Exists, NoRow, Row, Blank, Request, Stages,
       Statuses, None

LEMMA NoRowTyped == NoRow \in Row
BY DEF NoRow, Row, Statuses, None

LEMMA BlankTyped == ASSUME NEW st \in Stages PROVE Blank(st) \in Request
BY NoRowTyped DEF Blank, Request, None

\* A request that ends leaves well-typed locals behind.
LEMMA EndsTyped ==
    ASSUME TypeInv, NEW r \in Requests, NEW st \in {"done", "failed", "rejected"},
           Ends(r, st)
    PROVE  /\ req' \in [Requests -> Request]
           /\ req'[r].stage = st
           /\ \A q \in Requests : q # r => req'[q] = req[q]
BY BlankTyped DEF Ends, TypeInv, TypeOK, Stages, Blank

LEMMA MovesTyped ==
    ASSUME TypeInv, NEW r \in Requests, NEW st \in Stages, MovesTo(r, st)
    PROVE  /\ req' \in [Requests -> Request]
           /\ req'[r].stage = st
           /\ req'[r].capsule = req[r].capsule
           /\ req'[r].input = req[r].input
           /\ req'[r].seen = req[r].seen
           /\ req'[r].logLen = req[r].logLen
           /\ \A q \in Requests : q # r => req'[q] = req[q]
<1> DEFINE new == [req[r] EXCEPT !.stage = st]
<1>1. req \in [Requests -> Request] /\ req' = [req EXCEPT ![r] = new]
  BY DEF MovesTo, TypeInv, TypeOK
<1>2. /\ new \in Request /\ new.stage = st /\ new.capsule = req[r].capsule
      /\ new.input = req[r].input /\ new.seen = req[r].seen /\ new.logLen = req[r].logLen
  BY <1>1 DEF Request
<1> HIDE DEF new
<1> QED
  BY <1>1, <1>2

LEMMA RowTyped ==
    ASSUME TypeOK, NEW c \in Capsules
    PROVE  capsule[c] \in Row /\ custody[c] \in Seq(Event) /\ Len(custody[c]) \in Nat
BY DEF TypeOK

LEMMA ReadsTyped ==
    ASSUME TypeInv, NEW r \in Requests, NEW st \in Stages, NEW c \in Capsules,
           NEW in \in Decisions \cup AnchorStates \cup Routings \cup {None},
           Reads(r, st, c, in)
    PROVE  /\ req' \in [Requests -> Request]
           /\ req'[r].stage = st
           /\ req'[r].capsule = c
           /\ req'[r].input = in
           /\ req'[r].seen = capsule[c]
           /\ req'[r].logLen = Len(custody[c])
           /\ \A q \in Requests : q # r => req'[q] = req[q]
<1> DEFINE new == [stage |-> st, capsule |-> c, slot |-> None, agent |-> None,
                   input |-> in, seen |-> capsule[c], logLen |-> Len(custody[c])]
<1>1. req' = [req EXCEPT ![r] = new]
  BY DEF Reads
<1>2. new \in Request
  BY RowTyped DEF TypeInv, Request
<1>3. req \in [Requests -> Request]
  BY DEF TypeInv, TypeOK
<1> QED
  BY <1>1, <1>2, <1>3

------------------------------------------------------------------------------
(* Type correctness *)

\* A step of r that takes no capsule away and leaves r's locals in order
\* leaves every request's locals in order.
LEMMA LocalsKept ==
    ASSUME TypeInv, NEW r \in Requests, LocalOK(r)',
           \A q \in Requests : q # r => req'[q] = req[q],
           \A c \in Capsules : Exists(c) => Exists(c)'
    PROVE  \A q \in Requests : LocalOK(q)'
BY DEF TypeInv, LocalOK, Exists

\* The rest of an invariant that a step on the tables has to keep.
LEMMA RowChanged ==
    ASSUME TypeInv, NEW c \in Capsules, NEW row \in Row, row.status # "ABSENT",
           row.key \in Requests, capsule' = [capsule EXCEPT ![c] = row]
    PROVE  /\ capsule' \in [Capsules -> Row]
           /\ \A d \in Capsules : Exists(d) => Exists(d)'
           /\ \A d \in Capsules : Exists(d)' => capsule'[d].key \in Requests
BY DEF TypeInv, TypeOK, Exists

LEMMA Logged ==
    ASSUME TypeOK, NEW c \in Capsules, NEW e \in Event, Logs(c, e)
    PROVE  /\ custody' \in [Capsules -> Seq(Event)]
           /\ custody'[c] = Append(custody[c], e)
           /\ \A d \in Capsules : d # c => custody'[d] = custody[d]
BY DEF TypeOK, Logs

LEMMA LogTyped ==
    ASSUME NEW t \in EventTypes, NEW p \in Statuses \cup {None},
           NEW n \in Statuses \cup {None}
    PROVE  Log(t, p, n) \in Event
BY DEF Log, Event

LEMMA SubmitTyped ==
    ASSUME TypeInv, NEW r \in Requests,
           \/ \E s \in Slots, a \in Agents : SubmitCheck(r, s, a)
           \/ \E s \in Slots, a \in Agents : SubmitConflict(r, s, a)
           \/ SubmitStore(r)
           \/ \E c \in Capsules : SubmitInsert(r, c)
           \/ SubmitTriggerAi(r)
    PROVE  TypeInv'
<1>1. CASE \E s \in Slots, a \in Agents : SubmitCheck(r, s, a)
  BY <1>1, NoRowTyped DEF SubmitCheck, TypeInv, TypeOK, LocalOK, Exists, Request, Stages, tables, bucket, calls
<1>2. CASE \E s \in Slots, a \in Agents : SubmitConflict(r, s, a)
  BY <1>2, EndsTyped, LocalsKept DEF SubmitConflict, TypeInv, TypeOK, LocalOK, Exists, tables, bucket, calls
<1>3. CASE SubmitStore(r)
  <2>1. req' \in [Requests -> Request] /\ req'[r].stage = "stored"
        /\ \A q \in Requests : q # r => req'[q] = req[q]
    BY <1>3, MovesTyped DEF SubmitStore, TypeInv, TypeOK, Stages, Request
  <2>2. TypeOK'
    BY <1>3, <2>1 DEF SubmitStore, TypeInv, TypeOK, tables, calls
  <2>3. \A q \in Requests : LocalOK(q)'
    BY <1>3, <2>1, LocalsKept DEF SubmitStore, LocalOK, Exists, tables
  <2> QED
    BY <1>3, <2>2, <2>3 DEF SubmitStore, TypeInv, Exists, tables
<1>4. ASSUME NEW c \in Capsules, SubmitInsert(r, c)
      PROVE  TypeInv'
  <2> DEFINE row == [status |-> "UPLOADED", slot |-> req[r].slot,
                     agent |-> req[r].agent, key |-> r,
                     flagged |-> FALSE, decision |-> None,
                     anchor |-> None, tally |-> None,
                     sync |-> "UPLOADED", attempts |-> 1]
  <2>1. req[r] \in Request
    BY DEF TypeInv, TypeOK
  <2>2. row \in Row /\ row.status # "ABSENT" /\ row.key \in Requests
    BY <2>1 DEF Row, Request, Statuses
  <2>3. capsule' = [capsule EXCEPT ![c] = row]
    BY <1>4 DEF SubmitInsert
  <2>4. /\ capsule' \in [Capsules -> Row]
        /\ \A d \in Capsules : Exists(d) => Exists(d)'
        /\ \A d \in Capsules : Exists(d)' => capsule'[d].key \in Requests
    <3> HIDE DEF row
    <3> QED BY <2>2, <2>3, RowChanged
  <2>5. custody' \in [Capsules -> Seq(Event)]
    <3>1. /\ Log("CREATED", None, "CAPTURED") \in Event
          /\ Log("UPLOADED", "CAPTURED", "UPLOADED") \in Event
          /\ Log("HASH_VERIFIED", None, None) \in Event
      BY LogTyped DEF EventTypes, Statuses
    <3>2. <<Log("CREATED", None, "CAPTURED"), Log("UPLOADED", "CAPTURED", "UPLOADED"),
            Log("HASH_VERIFIED", None, None)>> \in Seq(Event)
      BY <3>1
    <3> QED
      BY <1>4, <3>2 DEF SubmitInsert, TypeInv, TypeOK
  <2>6. /\ req' \in [Requests -> Request]
        /\ req'[r].stage = "inserted" /\ req'[r].capsule = c
        /\ \A q \in Requests : q # r => req'[q] = req[q]
    BY <1>4, <2>1 DEF SubmitInsert, TypeInv, TypeOK, Request, Stages
  <2>7. TypeOK'
    BY <1>4, <2>4, <2>5, <2>6 DEF SubmitInsert, TypeInv, TypeOK, bucket, calls
  <2>8. Exists(c)'
    BY <2>2, <2>3 DEF Exists, TypeInv, TypeOK
  <2>9. \A q \in Requests : LocalOK(q)'
    BY <2>4, <2>6, <2>8, LocalsKept DEF LocalOK
  <2> QED
    BY <2>4, <2>7, <2>9 DEF TypeInv
<1>5. CASE SubmitTriggerAi(r)
  BY <1>5, EndsTyped, LocalsKept DEF SubmitTriggerAi, TypeInv, TypeOK, LocalOK, Exists, tables, bucket, calls
<1> QED
  BY <1>1, <1>2, <1>3, <1>4, <1>5

LEMMA ValidateTyped ==
    ASSUME TypeInv, NEW r \in Requests,
           \/ \E c \in Capsules, d \in Decisions : ValidateRead(r, c, d)
           \/ ValidateCommit(r)
           \/ ValidateQueueAnchor(r)
    PROVE  TypeInv'
<1>1. ASSUME NEW c \in Capsules, NEW d \in Decisions, ValidateRead(r, c, d)
      PROVE  TypeInv'
  <2>1. CASE Reads(r, "validating", c, d)
    <3>1. /\ req' \in [Requests -> Request]
          /\ req'[r].stage = "validating" /\ req'[r].capsule = c
          /\ req'[r].input = d /\ req'[r].seen = capsule[c]
          /\ \A q \in Requests : q # r => req'[q] = req[q]
      BY <1>1, <2>1, ReadsTyped DEF Stages
    <3>2. LocalOK(r)'
      BY <1>1, <3>1 DEF ValidateRead, TypeInv, LocalOK, Exists, tables
    <3> QED
      BY <1>1, <3>1, <3>2, LocalsKept DEF ValidateRead, TypeInv, TypeOK, Exists, tables, bucket, calls
  <2>2. CASE Ends(r, "done")
    BY <1>1, <2>2, EndsTyped, LocalsKept DEF ValidateRead, TypeInv, TypeOK, LocalOK, Exists, tables, bucket, calls
  <2> QED
    BY <1>1, <2>1, <2>2 DEF ValidateRead
<1>2. CASE ValidateCommit(r)
  <2> DEFINE c == req[r].capsule
             d == req[r].input
             row == [capsule[c] EXCEPT !.status = StatusAfter(d), !.decision = d]
  <2>1. c \in Capsules /\ Exists(c) /\ d \in Decisions
    BY <1>2 DEF ValidateCommit, TypeInv, LocalOK
  <2>2. StatusAfter(d) \in Statuses \ {"ABSENT"} /\ CustodyTypeOf(d) \in EventTypes
    BY DEF StatusAfter, CustodyTypeOf, Statuses, EventTypes
  <2>3. row \in Row /\ row.status # "ABSENT" /\ row.key \in Requests
    <3>1. capsule[c] \in Row /\ capsule[c].key \in Requests
      BY <2>1 DEF TypeInv, TypeOK
    <3>2. row \in Row
      BY <3>1, <2>1, <2>2 DEF Row
    <3> QED
      BY <3>1, <3>2, <2>2 DEF Row
  <2>4. capsule' = [capsule EXCEPT ![c] = row]
    BY <1>2 DEF ValidateCommit
  <2>5. /\ capsule' \in [Capsules -> Row]
        /\ \A e \in Capsules : Exists(e) => Exists(e)'
        /\ \A e \in Capsules : Exists(e)' => capsule'[e].key \in Requests
    <3> HIDE DEF row
    <3> QED BY <2>1, <2>3, <2>4, RowChanged
  <2>6. req[r].seen.status \in Statuses
    BY DEF TypeInv, TypeOK, Request, Row
  <2>7. custody' \in [Capsules -> Seq(Event)]
    BY <1>2, <2>1, <2>2, <2>6, LogTyped, Logged DEF ValidateCommit, TypeInv
  <2>8. /\ req' \in [Requests -> Request]
        /\ \A q \in Requests : q # r => req'[q] = req[q]
        /\ \/ req'[r].stage = "approved" /\ req'[r].capsule = c
              /\ req'[r].seen = req[r].seen
           \/ req'[r].stage = "done"
    BY <1>2, EndsTyped, MovesTyped DEF ValidateCommit, Stages
  <2>9. LocalOK(r)'
    BY <1>2, <2>1, <2>5, <2>8 DEF ValidateCommit, TypeInv, LocalOK
  <2> QED
    BY <1>2, <2>5, <2>7, <2>8, <2>9, LocalsKept DEF ValidateCommit, TypeInv, TypeOK, bucket, calls
<1>3. CASE ValidateQueueAnchor(r)
  <2>1. anchorCalls' \subseteq [by : Requests, capsule : Capsules]
    BY <1>3 DEF ValidateQueueAnchor, TypeInv, TypeOK, LocalOK
  <2> QED
    BY <1>3, <2>1, EndsTyped, LocalsKept DEF ValidateQueueAnchor, TypeInv, TypeOK, LocalOK, Exists, tables, bucket
<1> QED
  BY <1>1, <1>2, <1>3

LEMMA AnchoredTyped ==
    ASSUME TypeInv, NEW r \in Requests,
           \/ \E c \in Capsules, s \in AnchorStates : AnchoredRead(r, c, s)
           \/ AnchoredCommit(r)
           \/ AnchoredLock(r)
    PROVE  TypeInv'
<1>1. ASSUME NEW c \in Capsules, NEW s \in AnchorStates, AnchoredRead(r, c, s)
      PROVE  TypeInv'
  <2>1. CASE Reads(r, "anchoring", c, s)
    BY <1>1, <2>1, ReadsTyped, LocalsKept DEF AnchoredRead, TypeInv, TypeOK, LocalOK, Exists, Stages, tables, bucket, calls
  <2>2. CASE Ends(r, "done")
    BY <1>1, <2>2, EndsTyped, LocalsKept DEF AnchoredRead, TypeInv, TypeOK, LocalOK, Exists, tables, bucket, calls
  <2> QED
    BY <1>1, <2>1, <2>2 DEF AnchoredRead
<1>2. CASE AnchoredCommit(r)
  <2> DEFINE c == req[r].capsule
             row == [capsule[c] EXCEPT !.status = "ANCHORED", !.anchor = req[r].input]
  <2>1. c \in Capsules /\ Exists(c) /\ req[r].input \in AnchorStates
    BY <1>2 DEF AnchoredCommit, TypeInv, LocalOK
  <2>2. row \in Row /\ row.status # "ABSENT" /\ row.key \in Requests
    <3>1. capsule[c] \in Row /\ capsule[c].key \in Requests
      BY <2>1 DEF TypeInv, TypeOK
    <3>2. row \in Row
      BY <3>1, <2>1 DEF Row, Statuses
    <3> QED
      BY <3>1, <3>2 DEF Row
  <2>3. capsule' = [capsule EXCEPT ![c] = row]
    BY <1>2 DEF AnchoredCommit
  <2>4. /\ capsule' \in [Capsules -> Row]
        /\ \A e \in Capsules : Exists(e) => Exists(e)'
        /\ \A e \in Capsules : Exists(e)' => capsule'[e].key \in Requests
    <3> HIDE DEF row
    <3> QED BY <2>1, <2>2, <2>3, RowChanged
  <2>5. Log("TRUST_ANCHORED", "APPROVED", "ANCHORED") \in Event
    BY LogTyped DEF EventTypes, Statuses
  <2>6. custody' \in [Capsules -> Seq(Event)]
    BY <1>2, <2>1, <2>5, Logged DEF AnchoredCommit, TypeInv
  <2>7. /\ req' \in [Requests -> Request]
        /\ \A q \in Requests : q # r => req'[q] = req[q]
        /\ req'[r].stage = "locking" /\ req'[r].capsule = c
        /\ req'[r].seen = req[r].seen
    BY <1>2, MovesTyped DEF AnchoredCommit, Stages
  <2>8. LocalOK(r)'
    BY <1>2, <2>1, <2>4, <2>7 DEF AnchoredCommit, TypeInv, LocalOK
  <2> QED
    BY <1>2, <2>4, <2>6, <2>7, <2>8, LocalsKept DEF AnchoredCommit, TypeInv, TypeOK, bucket, calls
<1>3. CASE AnchoredLock(r)
  BY <1>3, EndsTyped, LocalsKept DEF AnchoredLock, TypeInv, TypeOK, LocalOK, Exists, tables, calls
<1> QED
  BY <1>1, <1>2, <1>3

LEMMA AiResultTyped ==
    ASSUME TypeInv, NEW r \in Requests,
           \/ \E c \in Capsules, d \in Routings : AiResultRead(r, c, d)
           \/ AiResultCommit(r)
    PROVE  TypeInv'
<1>1. ASSUME NEW c \in Capsules, NEW d \in Routings, AiResultRead(r, c, d)
      PROVE  TypeInv'
  <2>1. /\ req' \in [Requests -> Request]
        /\ req'[r].stage = "recordingAi" /\ req'[r].capsule = c
        /\ req'[r].input = d /\ req'[r].seen = capsule[c]
        /\ \A q \in Requests : q # r => req'[q] = req[q]
    BY <1>1, ReadsTyped DEF AiResultRead, Stages
  <2>2. LocalOK(r)'
    BY <1>1, <2>1 DEF AiResultRead, TypeInv, LocalOK, Exists, tables
  <2> QED
    BY <1>1, <2>1, <2>2, LocalsKept DEF AiResultRead, TypeInv, TypeOK, Exists, tables, bucket, calls
<1>2. CASE AiResultCommit(r)
  <2> DEFINE c == req[r].capsule
             f == req[r].input \in {"ESCALATE", "MANUAL_REVIEW"}
             row == [capsule[c] EXCEPT !.status = "PENDING_VALIDATION", !.flagged = f]
  <2>1. c \in Capsules /\ Exists(c)
    BY <1>2 DEF AiResultCommit, TypeInv, LocalOK
  <2>2. row \in Row /\ row.status # "ABSENT" /\ row.key \in Requests
    <3>1. capsule[c] \in Row /\ capsule[c].key \in Requests
      BY <2>1 DEF TypeInv, TypeOK
    <3>2. f \in BOOLEAN
      OBVIOUS
    <3>3. row \in Row
      <4> HIDE DEF f
      <4> QED BY <3>1, <3>2 DEF Row, Statuses
    <3> QED
      BY <3>1, <3>3 DEF Row
  <2>3. capsule' = [capsule EXCEPT ![c] = row]
    BY <1>2 DEF AiResultCommit
  <2>4. /\ capsule' \in [Capsules -> Row]
        /\ \A e \in Capsules : Exists(e) => Exists(e)'
        /\ \A e \in Capsules : Exists(e)' => capsule'[e].key \in Requests
    <3> HIDE DEF row
    <3> QED BY <2>1, <2>2, <2>3, RowChanged
  <2>5. req[r].seen.status \in Statuses
    BY DEF TypeInv, TypeOK, Request, Row
  <2>6. Log("AI_COMPLETED", req[r].seen.status, "PENDING_VALIDATION") \in Event
    BY <2>5, LogTyped DEF EventTypes, Statuses
  <2>7. custody' \in [Capsules -> Seq(Event)]
    BY <1>2, <2>1, <2>6, Logged DEF AiResultCommit, TypeInv
  <2>8. /\ req' \in [Requests -> Request]
        /\ \A q \in Requests : q # r => req'[q] = req[q]
        /\ req'[r].stage = "done"
    BY <1>2, EndsTyped DEF AiResultCommit
  <2>9. LocalOK(r)'
    BY <2>8 DEF LocalOK
  <2> QED
    BY <1>2, <2>4, <2>7, <2>8, <2>9, LocalsKept DEF AiResultCommit, TypeInv, TypeOK, bucket, calls
<1> QED
  BY <1>1, <1>2

LEMMA TallyTyped ==
    ASSUME TypeInv, NEW r \in Requests,
           \/ \E c \in Capsules : TallyRead(r, c)
           \/ TallySave(r)
    PROVE  TypeInv'
<1>1. ASSUME NEW c \in Capsules, TallyRead(r, c)
      PROVE  TypeInv'
  <2>1. CASE Reads(r, "savingTally", c, None)
    <3>1. /\ req' \in [Requests -> Request]
          /\ req'[r].stage = "savingTally" /\ req'[r].capsule = c
          /\ req'[r].seen = capsule[c]
          /\ \A q \in Requests : q # r => req'[q] = req[q]
      BY <1>1, <2>1, ReadsTyped DEF Stages
    <3>2. LocalOK(r)'
      BY <1>1, <3>1 DEF TallyRead, TypeInv, LocalOK, Exists, tables
    <3> QED
      BY <1>1, <3>1, <3>2, LocalsKept DEF TallyRead, TypeInv, TypeOK, Exists, tables, bucket, calls
  <2>2. CASE Ends(r, "done")
    BY <1>1, <2>2, EndsTyped, LocalsKept DEF TallyRead, TypeInv, TypeOK, LocalOK, Exists, tables, bucket, calls
  <2> QED
    BY <1>1, <2>1, <2>2 DEF TallyRead
<1>2. CASE TallySave(r)
  <2> DEFINE c == req[r].capsule
             row == [req[r].seen EXCEPT !.tally = r]
  <2>1. /\ c \in Capsules /\ req[r].seen \in Row
        /\ req[r].seen.status # "ABSENT" /\ req[r].seen.key \in Requests
    BY <1>2 DEF TallySave, TypeInv, TypeOK, LocalOK, Request
  <2>2. row \in Row /\ row.status # "ABSENT" /\ row.key \in Requests
    <3>1. row \in Row
      BY <2>1 DEF Row
    <3> QED
      BY <2>1, <3>1 DEF Row
  <2>3. capsule' = [capsule EXCEPT ![c] = row]
    BY <1>2 DEF TallySave
  <2>4. /\ capsule' \in [Capsules -> Row]
        /\ \A e \in Capsules : Exists(e) => Exists(e)'
        /\ \A e \in Capsules : Exists(e)' => capsule'[e].key \in Requests
    <3> HIDE DEF row
    <3> QED BY <2>1, <2>2, <2>3, RowChanged
  <2>5. /\ req' \in [Requests -> Request]
        /\ \A q \in Requests : q # r => req'[q] = req[q]
        /\ req'[r].stage = "done"
    BY <1>2, EndsTyped DEF TallySave
  <2>6. LocalOK(r)'
    BY <2>5 DEF LocalOK
  <2> QED
    BY <1>2, <2>4, <2>5, <2>6, LocalsKept DEF TallySave, TypeInv, TypeOK, bucket, calls
<1> QED
  BY <1>1, <1>2

LEMMA SyncTyped ==
    ASSUME TypeInv, NEW r \in Requests, NEW c \in Capsules, NEW y \in SyncStates,
           SyncUpdate(r, c, y)
    PROVE  TypeInv'
<1> DEFINE row == [capsule[c] EXCEPT !.sync = y, !.attempts = capsule[c].attempts + 1]
<1>1. capsule[c] \in Row /\ capsule[c].key \in Requests
  BY DEF SyncUpdate, TypeInv, TypeOK
<1>2. row \in Row /\ row.status # "ABSENT" /\ row.key \in Requests
  <2>1. capsule[c].attempts + 1 \in Nat
    BY <1>1 DEF Row
  <2>2. row \in Row
    BY <1>1, <2>1 DEF Row
  <2> QED
    BY <1>1, <2>2 DEF Row, SyncUpdate, Exists
<1>3. capsule' = [capsule EXCEPT ![c] = row]
  BY DEF SyncUpdate
<1>4. /\ capsule' \in [Capsules -> Row]
      /\ \A e \in Capsules : Exists(e) => Exists(e)'
      /\ \A e \in Capsules : Exists(e)' => capsule'[e].key \in Requests
  <2> HIDE DEF row
  <2> QED BY <1>2, <1>3, RowChanged
<1>5. /\ req' \in [Requests -> Request]
      /\ \A q \in Requests : q # r => req'[q] = req[q]
      /\ req'[r].stage = "done"
  BY EndsTyped DEF SyncUpdate
<1>6. LocalOK(r)'
  BY <1>5 DEF LocalOK
<1> QED
  BY <1>4, <1>5, <1>6, LocalsKept DEF SyncUpdate, TypeInv, TypeOK, bucket, calls

LEMMA FailTyped ==
    ASSUME TypeInv, NEW r \in Requests, Fail(r) \/ Rollback(r)
    PROVE  TypeInv'
BY EndsTyped, LocalsKept DEF Fail, Rollback, TypeInv, TypeOK, LocalOK, Exists, tables, bucket, calls

LEMMA NextTyped == ASSUME TypeInv, [Next]_vars PROVE TypeInv'
<1>1. CASE UNCHANGED vars
  BY <1>1 DEF vars, TypeInv, TypeOK, LocalOK, Exists
<1>2. CASE Idle
  BY <1>2 DEF Idle, vars, TypeInv, TypeOK, LocalOK, Exists
<1>3. ASSUME NEW r \in Requests, Apps(r)
      PROVE  TypeInv'
  BY <1>3, SubmitTyped, ValidateTyped, TallyTyped, SyncTyped DEF Apps
<1>4. ASSUME NEW r \in Requests, Callbacks(r)
      PROVE  TypeInv'
  BY <1>4, AiResultTyped, AnchoredTyped DEF Callbacks, TypeInv, TypeOK
<1>5. ASSUME NEW r \in Requests, Continue(r)
      PROVE  TypeInv'
  BY <1>5, SubmitTyped, ValidateTyped, AnchoredTyped, AiResultTyped, TallyTyped, FailTyped DEF Continue
<1>6. ASSUME NEW r \in Requests, Fail(r)
      PROVE  TypeInv'
  BY <1>6, FailTyped
<1> QED
  BY <1>1, <1>2, <1>3, <1>4, <1>5, <1>6 DEF Next

\* Every variable keeps to its kind, and a handler that works on a capsule
\* always works on one that exists, however many handlers overlap.
THEOREM TypeCorrect == Spec => []TypeInv
<1> USE DEF Spec
<1> QED
  BY InitTypeInv, NextTyped, PTL

THEOREM TypeOKHolds == Spec => []TypeOK
<1>1. TypeInv => TypeOK
  BY DEF TypeInv
<1> QED
  BY <1>1, TypeCorrect, PTL

------------------------------------------------------------------------------
(* Safety *)

Anchored(log) == \E i \in 1 .. Len(log) : log[i].type = "TRUST_ANCHORED"

\* What is still true, when a handler goes on, of what it did or read before:
\* its upload is in the bucket; the image key is the row's; as long as no
\* custody event was added, the status it read is the row's; the approval it
\* saw and the anchoring it recorded are on record.
ReadOK(r) ==
    LET c == req[r].capsule
    IN  /\ req[r].stage = "stored" => r \in objects
        /\ req[r].stage \in Holding =>
             /\ req[r].logLen <= Len(custody[c])
             /\ req[r].seen.key = capsule[c].key
        /\ (req[r].stage = "savingTally" /\ req[r].logLen = Len(custody[c]))
             => req[r].seen.status = capsule[c].status
        /\ req[r].stage = "anchoring" => Approvals(custody[c]) # {}
        /\ req[r].stage = "locking" => Anchored(custody[c])

\* The inductive invariant.
SafeInv ==
    /\ TypeInv
    /\ CustodyTailIsStatus
    /\ AnchoringNeedsHumanApproval
    /\ ImageIsStored
    /\ LockFollowsAnchoring
    /\ \A r \in Requests : ReadOK(r)

LEMMA InitSafe == Init => SafeInv
<1> SUFFICES ASSUME Init PROVE SafeInv
  OBVIOUS
<1>1. TypeInv
  BY InitTypeInv
<1>2. \A c \in Capsules : ~Exists(c) /\ Len(custody[c]) = 0
  BY DEF Init, Exists, NoRow
<1>3. AnchoringNeedsHumanApproval
  BY <1>2 DEF AnchoringNeedsHumanApproval, Init, NoRow
<1>4. \A r \in Requests : ReadOK(r)
  BY DEF Init, ReadOK, Blank
<1> QED
  BY <1>1, <1>2, <1>3, <1>4 DEF SafeInv, CustodyTailIsStatus, ImageIsStored, LockFollowsAnchoring, Init

\* The rows of a capsule are never taken back: its image key stays, its
\* custody log only grows, and its status changes only when the log does.
Grows ==
    \A c \in Capsules : Exists(c) =>
        /\ Exists(c)'
        /\ capsule'[c].key = capsule[c].key
        /\ Len(custody[c]) <= Len(custody'[c])
        /\ \A i \in 1 .. Len(custody[c]) : custody'[c][i] = custody[c][i]
        /\ Len(custody'[c]) = Len(custody[c]) => capsule'[c].status = capsule[c].status

\* What a log shows, a log that grew from it shows.
LEMMA LogKept ==
    ASSUME TypeOK, TypeOK', Grows, NEW c \in Capsules, Exists(c)
    PROVE  /\ Approvals(custody[c]) # {} => Approvals(custody'[c]) # {}
           /\ Anchored(custody[c]) => Anchored(custody'[c])
<1>1. /\ Len(custody[c]) \in Nat /\ Len(custody'[c]) \in Nat
      /\ Len(custody[c]) <= Len(custody'[c])
      /\ \A i \in 1 .. Len(custody[c]) : custody'[c][i] = custody[c][i]
  BY DEF TypeOK, Grows
<1>2. 1 .. Len(custody[c]) \subseteq 1 .. Len(custody'[c])
  BY <1>1
<1> QED
  BY <1>1, <1>2 DEF Approvals, Anchored

LEMMA ReadsKept ==
    ASSUME SafeInv, TypeOK', Grows, objects \subseteq objects',
           NEW r \in Requests, ReadOK(r)',
           \A q \in Requests : q # r => req'[q] = req[q]
    PROVE  \A q \in Requests : ReadOK(q)'
<1> SUFFICES ASSUME NEW q \in Requests, q # r PROVE ReadOK(q)'
  OBVIOUS
<1>1. req'[q] = req[q] /\ ReadOK(q) /\ LocalOK(q) /\ TypeOK
  BY DEF SafeInv, TypeInv
<1>2. CASE req[q].stage \notin Holding
  BY <1>1, <1>2 DEF ReadOK
<1>3. CASE req[q].stage \in Holding
  <2> DEFINE c == req[q].capsule
  <2>1. c \in Capsules /\ Exists(c)
    BY <1>1, <1>3 DEF LocalOK
  <2>2. /\ capsule'[c].key = capsule[c].key
        /\ Len(custody[c]) \in Nat /\ Len(custody'[c]) \in Nat
        /\ req[q].logLen \in Nat
        /\ Len(custody[c]) <= Len(custody'[c])
        /\ Len(custody'[c]) = Len(custody[c]) => capsule'[c].status = capsule[c].status
    BY <2>1, <1>1 DEF Grows, TypeOK, Request
  <2>3. /\ Approvals(custody[c]) # {} => Approvals(custody'[c]) # {}
        /\ Anchored(custody[c]) => Anchored(custody'[c])
    BY <1>1, <2>1, LogKept
  <2> QED
    BY <1>1, <1>3, <2>2, <2>3 DEF ReadOK
<1> QED
  BY <1>2, <1>3

LEMMA LockKept ==
    ASSUME SafeInv, TypeOK', Grows, locked' = locked
    PROVE  LockFollowsAnchoring'
<1> SUFFICES ASSUME NEW k \in locked
             PROVE  \E c \in Capsules : Exists(c)' /\ capsule'[c].key = k /\ Anchored(custody'[c])
  BY DEF LockFollowsAnchoring, Anchored
<1>1. PICK c \in Capsules : Exists(c) /\ capsule[c].key = k /\ Anchored(custody[c])
  BY DEF SafeInv, LockFollowsAnchoring, Anchored
<1>2. Anchored(custody'[c])
  BY <1>1, LogKept DEF SafeInv, TypeInv
<1> QED
  BY <1>1, <1>2 DEF Grows

\* The part of SafeInv that speaks of capsules and logs alone.
TablesSafe == CustodyTailIsStatus /\ AnchoringNeedsHumanApproval /\ ImageIsStored

\* A step that adds nothing to the logs and keeps statuses and keys.
LEMMA StatusKept ==
    ASSUME SafeInv, custody' = custody, objects \subseteq objects',
           \A c \in Capsules : /\ capsule'[c].status = capsule[c].status
                               /\ capsule'[c].key = capsule[c].key
    PROVE  Grows /\ TablesSafe'
<1>1. Grows
  BY DEF Grows, Exists, SafeInv, TypeInv, TypeOK
<1>2. CustodyTailIsStatus'
  BY DEF CustodyTailIsStatus, Exists, SafeInv
<1>3. AnchoringNeedsHumanApproval'
  BY DEF AnchoringNeedsHumanApproval, SafeInv
<1>4. ImageIsStored'
  BY DEF ImageIsStored, SafeInv, Exists
<1> QED
  BY <1>1, <1>2, <1>3, <1>4 DEF TablesSafe

\* A transaction that sets the status of c and records it: an approval on
\* record is needed for the status and the events that claim one.
LEMMA EventAdded ==
    ASSUME SafeInv, TypeOK', NEW c \in Capsules, Exists(c), NEW e \in Event,
           Logs(c, e), e.new = capsule'[c].status, Exists(c)',
           capsule'[c].key = capsule[c].key, objects \subseteq objects',
           \A d \in Capsules : d # c => capsule'[d] = capsule[d],
           capsule'[c].status \in {"APPROVED", "ANCHORED"}
             => e.type = "VALIDATION_APPROVED" \/ Approvals(custody[c]) # {},
           e.type = "TRUST_ANCHORED" => Approvals(custody[c]) # {}
    PROVE  Grows /\ TablesSafe'
<1> DEFINE log == custody[c]
           n   == Len(log) + 1
<1>1. /\ custody'[c] = Append(log, e)
      /\ \A d \in Capsules : d # c => custody'[d] = custody[d]
      /\ log \in Seq(Event)
  BY Logged DEF SafeInv, TypeInv, TypeOK
<1>2. /\ Len(log) \in Nat /\ Len(custody'[c]) = n
      /\ custody'[c][n] = e
      /\ \A i \in 1 .. Len(log) : custody'[c][i] = log[i]
  BY <1>1
<1>3. Grows
  <2> SUFFICES ASSUME NEW d \in Capsules, Exists(d)
               PROVE  /\ Exists(d)'
                      /\ capsule'[d].key = capsule[d].key
                      /\ Len(custody[d]) <= Len(custody'[d])
                      /\ \A i \in 1 .. Len(custody[d]) : custody'[d][i] = custody[d][i]
                      /\ Len(custody'[d]) = Len(custody[d])
                           => capsule'[d].status = capsule[d].status
    BY DEF Grows
  <2>1. CASE d = c
    BY <1>2, <2>1
  <2>2. CASE d # c
    <3>1. Len(custody[d]) \in Nat
      BY DEF SafeInv, TypeInv, TypeOK
    <3> QED
      BY <1>1, <2>2, <3>1 DEF Exists
  <2> QED
    BY <2>1, <2>2
<1>4. CustodyTailIsStatus'
  <2> SUFFICES ASSUME NEW d \in Capsules, Exists(d)'
               PROVE  LastRecorded(custody'[d], capsule'[d].status)
    BY DEF CustodyTailIsStatus
  <2>1. CASE d = c
    <3>1. n \in 1 .. Len(custody'[c]) /\ n + 1 .. Len(custody'[c]) = {}
      BY <1>2
    <3> QED
      BY <1>2, <2>1, <3>1 DEF LastRecorded
  <2>2. CASE d # c
    BY <1>1, <2>2 DEF SafeInv, CustodyTailIsStatus, Exists
  <2> QED
    BY <2>1, <2>2
<1>5. AnchoringNeedsHumanApproval'
  <2> SUFFICES ASSUME NEW d \in Capsules
               PROVE  /\ capsule'[d].status \in {"APPROVED", "ANCHORED"}
                           => Approvals(custody'[d]) # {}
                      /\ \A i \in 1 .. Len(custody'[d]) :
                           custody'[d][i].type = "TRUST_ANCHORED"
                             => \E j \in Approvals(custody'[d]) : j < i
    BY DEF AnchoringNeedsHumanApproval
  <2>1. CASE d # c
    BY <1>1, <2>1 DEF SafeInv, AnchoringNeedsHumanApproval
  <2>2. CASE d = c
    <3>1. Approvals(log) \subseteq Approvals(custody'[c])
      BY <1>2 DEF Approvals
    <3>2. e.type = "VALIDATION_APPROVED" => n \in Approvals(custody'[c])
      BY <1>2 DEF Approvals
    <3>3. \A i \in 1 .. Len(log) : log[i].type = "TRUST_ANCHORED"
                                     => \E j \in Approvals(log) : j < i
      BY DEF SafeInv, AnchoringNeedsHumanApproval
    <3>4. \A j \in Approvals(log) : j < n
      BY <1>2 DEF Approvals
    <3>5. \A i \in 1 .. n : i \in 1 .. Len(log) \/ i = n
      BY <1>2
    <3> QED
      BY <1>2, <2>2, <3>1, <3>2, <3>3, <3>4, <3>5
  <2> QED
    BY <2>1, <2>2
<1>6. ImageIsStored'
  BY DEF ImageIsStored, SafeInv, Exists
<1> QED
  BY <1>3, <1>4, <1>5, <1>6 DEF TablesSafe

\* The transaction of submitCapsule.
LEMMA InsertSafe ==
    ASSUME SafeInv, TypeOK', NEW r \in Requests, NEW c \in Capsules, SubmitInsert(r, c)
    PROVE  Grows /\ TablesSafe'
<1> DEFINE log == <<Log("CREATED", None, "CAPTURED"), Log("UPLOADED", "CAPTURED", "UPLOADED"),
                    Log("HASH_VERIFIED", None, None)>>
<1>1. /\ capsule'[c].status = "UPLOADED" /\ capsule'[c].key = r
      /\ custody'[c] = log
      /\ \A d \in Capsules : d # c => capsule'[d] = capsule[d] /\ custody'[d] = custody[d]
      /\ ~Exists(c) /\ objects' = objects /\ r \in objects
  BY DEF SubmitInsert, SafeInv, TypeInv, TypeOK, ReadOK, bucket
<1>2. /\ Len(log) = 3 /\ log[1].type = "CREATED" /\ log[2].type = "UPLOADED"
      /\ log[3].type = "HASH_VERIFIED" /\ log[2].new = "UPLOADED" /\ log[3].new = None
  BY DEF Log
<1> HIDE DEF log
<1>3. Grows
  <2> SUFFICES ASSUME NEW d \in Capsules, Exists(d)
               PROVE  /\ Exists(d)'
                      /\ capsule'[d].key = capsule[d].key
                      /\ Len(custody[d]) <= Len(custody'[d])
                      /\ \A i \in 1 .. Len(custody[d]) : custody'[d][i] = custody[d][i]
                      /\ Len(custody'[d]) = Len(custody[d])
                           => capsule'[d].status = capsule[d].status
    BY DEF Grows
  <2>1. d # c /\ Len(custody[d]) \in Nat
    BY <1>1 DEF SafeInv, TypeInv, TypeOK
  <2> QED
    BY <1>1, <2>1 DEF Exists
<1>4. LastRecorded(log, "UPLOADED")
  <2>1. 2 \in 1 .. Len(log) /\ 2 + 1 .. Len(log) = {3}
    BY <1>2
  <2> QED
    BY <1>2, <2>1 DEF LastRecorded
<1>5. CustodyTailIsStatus'
  BY <1>1, <1>4 DEF CustodyTailIsStatus, SafeInv, Exists
<1>6. \A i \in 1 .. Len(log) : log[i].type # "TRUST_ANCHORED"
  <2>1. 1 .. Len(log) = {1, 2, 3}
    BY <1>2
  <2> QED
    BY <1>2, <2>1
<1>7. AnchoringNeedsHumanApproval'
  BY <1>1, <1>6 DEF AnchoringNeedsHumanApproval, SafeInv
<1>8. ImageIsStored'
  BY <1>1 DEF ImageIsStored, SafeInv, Exists
<1> QED
  BY <1>3, <1>5, <1>7, <1>8 DEF TablesSafe

\* What is left to show of a step of r that locks nothing.
LEMMA StepSafe ==
    ASSUME SafeInv, TypeInv', Grows, TablesSafe', locked' = locked,
           objects \subseteq objects', NEW r \in Requests, ReadOK(r)',
           \A q \in Requests : q # r => req'[q] = req[q]
    PROVE  SafeInv'
BY ReadsKept, LockKept DEF SafeInv, TypeInv, TablesSafe

\* A step that only ends its request.
LEMMA EndsSafe ==
    ASSUME SafeInv, TypeInv', NEW r \in Requests, NEW st \in {"done", "failed", "rejected"},
           Ends(r, st), UNCHANGED <<tables, bucket>>
    PROVE  SafeInv'
<1>1. req'[r].stage = st /\ \A q \in Requests : q # r => req'[q] = req[q]
  BY EndsTyped DEF SafeInv
<1>2. ReadOK(r)'
  BY <1>1 DEF ReadOK
<1>3. Grows /\ TablesSafe'
  BY StatusKept DEF tables, bucket
<1> QED
  BY <1>1, <1>2, <1>3, StepSafe DEF bucket

\* A step that only reads the capsule.
LEMMA ReadsSafe ==
    ASSUME SafeInv, TypeInv', NEW r \in Requests, NEW c \in Capsules,
           NEW st \in {"validating", "anchoring", "recordingAi", "savingTally"},
           NEW in \in Decisions \cup AnchorStates \cup Routings \cup {None},
           Reads(r, st, c, in), Exists(c),
           st = "anchoring" => capsule[c].status = "APPROVED",
           UNCHANGED <<tables, bucket>>
    PROVE  SafeInv'
<1>1. /\ req'[r].stage = st /\ req'[r].capsule = c
      /\ req'[r].seen = capsule[c] /\ req'[r].logLen = Len(custody[c])
      /\ \A q \in Requests : q # r => req'[q] = req[q]
  BY ReadsTyped DEF SafeInv, Stages
<1>2. Grows /\ TablesSafe'
  BY StatusKept DEF tables, bucket
<1>3. st = "anchoring" => Approvals(custody[c]) # {}
  BY DEF SafeInv, AnchoringNeedsHumanApproval
<1>4. Len(custody[c]) \in Nat
  BY DEF SafeInv, TypeInv, TypeOK
<1>5. ReadOK(r)'
  BY <1>1, <1>3, <1>4 DEF ReadOK, tables
<1> QED
  BY <1>1, <1>2, <1>5, StepSafe DEF bucket

LEMMA SubmitSafe ==
    ASSUME SafeInv, TypeInv', NEW r \in Requests,
           \/ \E s \in Slots, a \in Agents : SubmitCheck(r, s, a)
           \/ \E s \in Slots, a \in Agents : SubmitConflict(r, s, a)
           \/ SubmitStore(r)
           \/ \E c \in Capsules : SubmitInsert(r, c)
           \/ SubmitTriggerAi(r)
    PROVE  SafeInv'
<1>1. CASE \E s \in Slots, a \in Agents : SubmitCheck(r, s, a)
  <2>1. /\ req'[r].stage = "checked"
        /\ \A q \in Requests : q # r => req'[q] = req[q]
        /\ UNCHANGED <<tables, bucket>>
    BY <1>1 DEF SubmitCheck, SafeInv, TypeInv, TypeOK
  <2>2. Grows /\ TablesSafe'
    BY <2>1, StatusKept DEF tables, bucket
  <2>3. ReadOK(r)'
    BY <2>1 DEF ReadOK
  <2> QED
    BY <2>1, <2>2, <2>3, StepSafe DEF bucket
<1>2. CASE \E s \in Slots, a \in Agents : SubmitConflict(r, s, a)
  BY <1>2, EndsSafe DEF SubmitConflict
<1>3. CASE SubmitStore(r)
  <2>1. /\ req'[r].stage = "stored"
        /\ \A q \in Requests : q # r => req'[q] = req[q]
        /\ UNCHANGED tables /\ locked' = locked
        /\ objects' = objects \cup {r}
    BY <1>3, MovesTyped DEF SubmitStore, SafeInv, Stages
  <2>2. Grows /\ TablesSafe'
    BY <2>1, StatusKept DEF tables
  <2>3. ReadOK(r)'
    BY <2>1 DEF ReadOK
  <2> QED
    BY <2>1, <2>2, <2>3, StepSafe
<1>4. ASSUME NEW c \in Capsules, SubmitInsert(r, c)
      PROVE  SafeInv'
  <2>1. Grows /\ TablesSafe'
    BY <1>4, InsertSafe DEF TypeInv
  <2>2. /\ req'[r].stage = "inserted"
        /\ \A q \in Requests : q # r => req'[q] = req[q]
        /\ locked' = locked /\ objects' = objects
    BY <1>4 DEF SubmitInsert, SafeInv, TypeInv, TypeOK, Request, bucket
  <2>3. ReadOK(r)'
    BY <2>2 DEF ReadOK
  <2> QED
    BY <2>1, <2>2, <2>3, StepSafe
<1>5. CASE SubmitTriggerAi(r)
  BY <1>5, EndsSafe DEF SubmitTriggerAi
<1> QED
  BY <1>1, <1>2, <1>3, <1>4, <1>5

LEMMA ValidateSafe ==
    ASSUME SafeInv, TypeInv', NEW r \in Requests,
           \/ \E c \in Capsules, d \in Decisions : ValidateRead(r, c, d)
           \/ ValidateCommit(r)
           \/ ValidateQueueAnchor(r)
    PROVE  SafeInv'
<1>1. ASSUME NEW c \in Capsules, NEW d \in Decisions, ValidateRead(r, c, d)
      PROVE  SafeInv'
  BY <1>1, ReadsSafe, EndsSafe DEF ValidateRead
<1>2. CASE ValidateCommit(r)
  <2> DEFINE c == req[r].capsule
             d == req[r].input
             e == Log(CustodyTypeOf(d), req[r].seen.status, StatusAfter(d))
  <2>1. c \in Capsules /\ Exists(c) /\ d \in Decisions /\ TypeOK
    BY <1>2 DEF ValidateCommit, SafeInv, TypeInv, LocalOK
  <2>2. /\ capsule'[c].status = StatusAfter(d)
        /\ capsule'[c].key = capsule[c].key
        /\ \A b \in Capsules : b # c => capsule'[b] = capsule[b]
        /\ Logs(c, e) /\ objects' = objects /\ locked' = locked
    BY <1>2, <2>1 DEF ValidateCommit, TypeOK, Row, bucket
  <2>3. /\ StatusAfter(d) \in Statuses \ {"ABSENT", "ANCHORED"}
        /\ CustodyTypeOf(d) \in EventTypes \ {"TRUST_ANCHORED"}
        /\ StatusAfter(d) = "APPROVED" => CustodyTypeOf(d) = "VALIDATION_APPROVED"
    BY DEF StatusAfter, CustodyTypeOf, Statuses, EventTypes
  <2>4. req[r].seen.status \in Statuses
    BY <2>1 DEF TypeOK, Request, Row
  <2>5. /\ e \in Event
        /\ e.type = CustodyTypeOf(d) /\ e.new = StatusAfter(d)
    BY <2>3, <2>4, LogTyped DEF Log
  <2> HIDE DEF e
  <2>6. Grows /\ TablesSafe'
    BY <2>1, <2>2, <2>3, <2>5, EventAdded DEF TypeInv, Exists
  <2>7. /\ \A q \in Requests : q # r => req'[q] = req[q]
        /\ \/ /\ req'[r].stage = "approved" /\ req'[r].capsule = c
              /\ req'[r].seen = req[r].seen /\ req'[r].logLen = req[r].logLen
           \/ req'[r].stage = "done"
    BY <1>2, EndsTyped, MovesTyped DEF ValidateCommit, Stages, SafeInv
  <2>8. ReadOK(r)'
    <3>1. /\ req[r].logLen <= Len(custody[c]) /\ req[r].seen.key = capsule[c].key
      BY <1>2 DEF ValidateCommit, SafeInv, ReadOK
    <3>2. Len(custody[c]) <= Len(custody'[c])
      BY <2>1, <2>6 DEF Grows
    <3>3. req[r].logLen \in Nat /\ Len(custody[c]) \in Nat /\ Len(custody'[c]) \in Nat
      BY <2>1 DEF TypeOK, TypeInv, Request
    <3> QED
      BY <2>2, <2>7, <3>1, <3>2, <3>3 DEF ReadOK
  <2> QED
    BY <2>2, <2>6, <2>7, <2>8, StepSafe
<1>3. CASE ValidateQueueAnchor(r)
  BY <1>3, EndsSafe DEF ValidateQueueAnchor
<1> QED
  BY <1>1, <1>2, <1>3

LEMMA AnchoredSafe ==
    ASSUME SafeInv, TypeInv', NEW r \in Requests,
           \/ \E c \in Capsules, s \in AnchorStates : AnchoredRead(r, c, s)
           \/ AnchoredCommit(r)
           \/ AnchoredLock(r)
    PROVE  SafeInv'
<1>1. ASSUME NEW c \in Capsules, NEW s \in AnchorStates, AnchoredRead(r, c, s)
      PROVE  SafeInv'
  BY <1>1, ReadsSafe, EndsSafe DEF AnchoredRead
<1>2. CASE AnchoredCommit(r)
  <2> DEFINE c == req[r].capsule
             e == Log("TRUST_ANCHORED", "APPROVED", "ANCHORED")
  <2>1. c \in Capsules /\ Exists(c) /\ TypeOK /\ Approvals(custody[c]) # {}
    BY <1>2 DEF AnchoredCommit, SafeInv, TypeInv, LocalOK, ReadOK
  <2>2. /\ capsule'[c].status = "ANCHORED"
        /\ capsule'[c].key = capsule[c].key
        /\ \A b \in Capsules : b # c => capsule'[b] = capsule[b]
        /\ Logs(c, e) /\ objects' = objects /\ locked' = locked
    BY <1>2, <2>1 DEF AnchoredCommit, TypeOK, Row, bucket
  <2>3. /\ e \in Event
        /\ e.type = "TRUST_ANCHORED" /\ e.new = "ANCHORED"
    BY LogTyped DEF Log, EventTypes, Statuses
  <2> HIDE DEF e
  <2>4. Grows /\ TablesSafe'
    BY <2>1, <2>2, <2>3, EventAdded DEF TypeInv, Exists
  <2>5. /\ \A q \in Requests : q # r => req'[q] = req[q]
        /\ req'[r].stage = "locking" /\ req'[r].capsule = c
        /\ req'[r].seen = req[r].seen /\ req'[r].logLen = req[r].logLen
    BY <1>2, MovesTyped DEF AnchoredCommit, Stages, SafeInv
  <2>6. Anchored(custody'[c])
    <3>1. custody'[c] = Append(custody[c], e) /\ custody[c] \in Seq(Event)
      BY <2>1, <2>2, <2>3, Logged DEF TypeOK
    <3>2. /\ Len(custody[c]) + 1 \in 1 .. Len(custody'[c])
          /\ custody'[c][Len(custody[c]) + 1] = e
      BY <3>1
    <3> QED
      BY <2>3, <3>2 DEF Anchored
  <2>7. ReadOK(r)'
    <3>1. /\ req[r].logLen <= Len(custody[c]) /\ req[r].seen.key = capsule[c].key
      BY <1>2 DEF AnchoredCommit, SafeInv, ReadOK
    <3>2. Len(custody[c]) <= Len(custody'[c])
      BY <2>1, <2>4 DEF Grows
    <3>3. req[r].logLen \in Nat /\ Len(custody[c]) \in Nat /\ Len(custody'[c]) \in Nat
      BY <2>1 DEF TypeOK, TypeInv, Request
    <3> QED
      BY <2>2, <2>5, <2>6, <3>1, <3>2, <3>3 DEF ReadOK
  <2> QED
    BY <2>2, <2>4, <2>5, <2>7, StepSafe
<1>3. CASE AnchoredLock(r)
  <2> DEFINE c == req[r].capsule
  <2>1. /\ c \in Capsules /\ Exists(c) /\ Anchored(custody[c])
        /\ req[r].seen.key = capsule[c].key
    BY <1>3 DEF AnchoredLock, SafeInv, TypeInv, LocalOK, ReadOK
  <2>2. /\ req'[r].stage = "done" /\ \A q \in Requests : q # r => req'[q] = req[q]
        /\ UNCHANGED tables /\ objects' = objects
        /\ locked' = locked \cup {capsule[c].key}
    BY <1>3, <2>1, EndsTyped DEF AnchoredLock, SafeInv
  <2>3. Grows /\ TablesSafe'
    BY <2>2, StatusKept DEF tables
  <2>4. ReadOK(r)'
    BY <2>2 DEF ReadOK
  <2>5. \A q \in Requests : ReadOK(q)'
    BY <2>2, <2>3, <2>4, ReadsKept DEF TypeInv
  <2>6. LockFollowsAnchoring'
    BY <2>1, <2>2 DEF LockFollowsAnchoring, SafeInv, Anchored, Exists, tables
  <2> QED
    BY <2>3, <2>5, <2>6 DEF SafeInv, TablesSafe
<1> QED
  BY <1>1, <1>2, <1>3

LEMMA AiResultSafe ==
    ASSUME SafeInv, TypeInv', NEW r \in Requests,
           \/ \E c \in Capsules, d \in Routings : AiResultRead(r, c, d)
           \/ AiResultCommit(r)
    PROVE  SafeInv'
<1>1. ASSUME NEW c \in Capsules, NEW d \in Routings, AiResultRead(r, c, d)
      PROVE  SafeInv'
  BY <1>1, ReadsSafe DEF AiResultRead
<1>2. CASE AiResultCommit(r)
  <2> DEFINE c == req[r].capsule
             e == Log("AI_COMPLETED", req[r].seen.status, "PENDING_VALIDATION")
  <2>1. c \in Capsules /\ Exists(c) /\ TypeOK
    BY <1>2 DEF AiResultCommit, SafeInv, TypeInv, LocalOK
  <2>2. /\ capsule'[c].status = "PENDING_VALIDATION"
        /\ capsule'[c].key = capsule[c].key
        /\ \A b \in Capsules : b # c => capsule'[b] = capsule[b]
        /\ Logs(c, e) /\ objects' = objects /\ locked' = locked
    BY <1>2, <2>1 DEF AiResultCommit, TypeOK, Row, bucket
  <2>3. req[r].seen.status \in Statuses
    BY <2>1 DEF TypeOK, Request, Row
  <2>4. /\ e \in Event
        /\ e.type = "AI_COMPLETED" /\ e.new = "PENDING_VALIDATION"
    BY <2>3, LogTyped DEF Log, EventTypes, Statuses
  <2> HIDE DEF e
  <2>5. Grows /\ TablesSafe'
    BY <2>1, <2>2, <2>4, EventAdded DEF TypeInv, Exists
  <2>6. req'[r].stage = "done" /\ \A q \in Requests : q # r => req'[q] = req[q]
    BY <1>2, EndsTyped DEF AiResultCommit, SafeInv
  <2>7. ReadOK(r)'
    BY <2>6 DEF ReadOK
  <2> QED
    BY <2>2, <2>5, <2>6, <2>7, StepSafe
<1> QED
  BY <1>1, <1>2

LEMMA TallySafe ==
    ASSUME SafeInv, TypeInv', NEW r \in Requests,
           \/ \E c \in Capsules : TallyRead(r, c)
           \/ TallySave(r)
    PROVE  SafeInv'
<1>1. ASSUME NEW c \in Capsules, TallyRead(r, c)
      PROVE  SafeInv'
  BY <1>1, ReadsSafe, EndsSafe DEF TallyRead
<1>2. CASE TallySave(r)
  <2> DEFINE c == req[r].capsule
  <2>1. /\ c \in Capsules /\ TypeOK /\ req[r].seen \in Row
        /\ req[r].seen.status = capsule[c].status
        /\ req[r].seen.key = capsule[c].key
    BY <1>2 DEF TallySave, Refuses, SafeInv, TypeInv, TypeOK, LocalOK, ReadOK, Request
  <2>2. capsule' = [capsule EXCEPT ![c] = [req[r].seen EXCEPT !.tally = r]]
    BY <1>2 DEF TallySave
  <2>3. \A d \in Capsules : /\ capsule'[d].status = capsule[d].status
                            /\ capsule'[d].key = capsule[d].key
    BY <2>1, <2>2 DEF TypeOK, Row
  <2>4. Grows /\ TablesSafe'
    BY <1>2, <2>3, StatusKept DEF TallySave, bucket
  <2>5. req'[r].stage = "done" /\ \A q \in Requests : q # r => req'[q] = req[q]
    BY <1>2, EndsTyped DEF TallySave, SafeInv
  <2>6. ReadOK(r)'
    BY <2>5 DEF ReadOK
  <2> QED
    BY <1>2, <2>4, <2>5, <2>6, StepSafe DEF TallySave, bucket
<1> QED
  BY <1>1, <1>2

LEMMA SyncSafe ==
    ASSUME SafeInv, TypeInv', NEW r \in Requests, NEW c \in Capsules, NEW y \in SyncStates,
           SyncUpdate(r, c, y)
    PROVE  SafeInv'
<1>1. \A d \in Capsules : /\ capsule'[d].status = capsule[d].status
                          /\ capsule'[d].key = capsule[d].key
  BY DEF SyncUpdate, SafeInv, TypeInv, TypeOK, Row
<1>2. Grows /\ TablesSafe'
  BY <1>1, StatusKept DEF SyncUpdate, bucket
<1>3. req'[r].stage = "done" /\ \A q \in Requests : q # r => req'[q] = req[q]
  BY EndsTyped DEF SyncUpdate, SafeInv
<1>4. ReadOK(r)'
  BY <1>3 DEF ReadOK
<1> QED
  BY <1>2, <1>3, <1>4, StepSafe DEF SyncUpdate, bucket

LEMMA NextSafe == ASSUME SafeInv, [Next]_vars PROVE SafeInv'
<1>1. TypeInv'
  BY NextTyped DEF SafeInv
<1>2. CASE UNCHANGED vars \/ Idle
  <2>1. UNCHANGED vars
    BY <1>2 DEF Idle
  <2>2. CustodyTailIsStatus' /\ AnchoringNeedsHumanApproval'
    BY <2>1 DEF vars, SafeInv, CustodyTailIsStatus, AnchoringNeedsHumanApproval, Exists
  <2>3. ImageIsStored' /\ LockFollowsAnchoring' /\ \A r \in Requests : ReadOK(r)'
    BY <2>1 DEF vars, SafeInv, ImageIsStored, LockFollowsAnchoring, ReadOK, Exists
  <2> QED
    BY <1>1, <2>2, <2>3 DEF SafeInv
<1>3. ASSUME NEW r \in Requests, Apps(r)
      PROVE  SafeInv'
  BY <1>1, <1>3, SubmitSafe, ValidateSafe, TallySafe, SyncSafe DEF Apps
<1>4. ASSUME NEW r \in Requests, Callbacks(r)
      PROVE  SafeInv'
  BY <1>1, <1>4, AiResultSafe, AnchoredSafe DEF Callbacks, SafeInv, TypeInv, TypeOK
<1>5. ASSUME NEW r \in Requests, Continue(r)
      PROVE  SafeInv'
  BY <1>1, <1>5, SubmitSafe, ValidateSafe, AnchoredSafe, AiResultSafe, TallySafe, EndsSafe
     DEF Continue, Rollback
<1>6. ASSUME NEW r \in Requests, Fail(r)
      PROVE  SafeInv'
  BY <1>1, <1>6, EndsSafe DEF Fail
<1> QED
  BY <1>2, <1>3, <1>4, <1>5, <1>6 DEF Next

LEMMA Safe == Spec => []SafeInv
BY InitSafe, NextSafe, PTL DEF Spec

\* No overlap of handlers, the whole-row save of submitTally included, lets the
\* status drift from what the chain of custody last recorded.
THEOREM CustodyTailHolds == Spec => []CustodyTailIsStatus
BY Safe, PTL DEF SafeInv

\* No overlap of handlers approves, anchors or records the anchoring of a
\* capsule without a validator's approval recorded before.
THEOREM HumanApprovalHolds == Spec => []AnchoringNeedsHumanApproval
BY Safe, PTL DEF SafeInv

\* However submissions fail or overlap, the image of every capsule that
\* exists is in the bucket.
THEOREM ImageHolds == Spec => []ImageIsStored
BY Safe, PTL DEF SafeInv

\* Only images of capsules whose anchoring is on record are locked for good.
THEOREM LockHolds == Spec => []LockFollowsAnchoring
BY Safe, PTL DEF SafeInv

------------------------------------------------------------------------------
(* Every step at once: rows and their custody events are never taken back *)

\* One request moves at a time, and never one that has been answered.
LEMMA OneMoves ==
    ASSUME TypeInv, [Next]_vars
    PROVE  \/ UNCHANGED req
           \/ \E r \in Requests : /\ req[r].stage \notin Settled
                                  /\ \A q \in Requests : q # r => req'[q] = req[q]
<1>1. CASE UNCHANGED vars \/ Idle
  BY <1>1 DEF vars, Idle
<1>2. ASSUME NEW r \in Requests, Apps(r) \/ Callbacks(r)
      PROVE  req[r].stage \notin Settled /\ \A q \in Requests : q # r => req'[q] = req[q]
  BY <1>2 DEF Apps, Callbacks, SubmitCheck, SubmitConflict, ValidateRead, TallyRead, SyncUpdate,
              AiResultRead, AnchoredRead, Begins, Reads, Ends, TypeInv, TypeOK
<1>3. ASSUME NEW r \in Requests, Continue(r)
      PROVE  req[r].stage \notin Settled /\ \A q \in Requests : q # r => req'[q] = req[q]
  <2>1. req[r].stage \notin Settled
    BY <1>3 DEF Continue, SubmitStore, SubmitInsert, SubmitTriggerAi, ValidateCommit,
                ValidateQueueAnchor, AnchoredCommit, AnchoredLock, AiResultCommit, TallySave,
                Rollback, Refuses, Writes
  <2>2. \A q \in Requests : q # r => req'[q] = req[q]
    BY <1>3 DEF Continue, SubmitStore, SubmitInsert, SubmitTriggerAi, ValidateCommit,
                ValidateQueueAnchor, AnchoredCommit, AnchoredLock, AiResultCommit, TallySave,
                Rollback, MovesTo, Ends, TypeInv, TypeOK
  <2> QED
    BY <2>1, <2>2
<1>4. ASSUME NEW r \in Requests, Fail(r)
      PROVE  req[r].stage \notin Settled /\ \A q \in Requests : q # r => req'[q] = req[q]
  BY <1>4 DEF Fail, InFlight, Begins, Ends, TypeInv, TypeOK
<1> QED
  BY <1>1, <1>2, <1>3, <1>4 DEF Next

\* A log stays, is created with its capsule, or gets one more event.
LEMMA LogStep ==
    ASSUME TypeInv, [Next]_vars
    PROVE  \/ UNCHANGED custody
           \/ \E r \in Requests, c \in Capsules : SubmitInsert(r, c)
           \/ \E c \in Capsules, e \in Event : Logs(c, e)
<1>1. CASE UNCHANGED vars \/ Idle
  BY <1>1 DEF vars, Idle
<1>2. ASSUME NEW r \in Requests, Apps(r) \/ Callbacks(r) \/ Fail(r)
      PROVE  UNCHANGED custody
  BY <1>2 DEF Apps, Callbacks, SubmitCheck, SubmitConflict, ValidateRead, TallyRead, SyncUpdate,
              AiResultRead, AnchoredRead, Fail, tables
<1>3. ASSUME NEW r \in Requests, Continue(r)
      PROVE  \/ UNCHANGED custody
             \/ \E c \in Capsules : SubmitInsert(r, c)
             \/ \E c \in Capsules, e \in Event : Logs(c, e)
  <2>1. CASE ValidateCommit(r)
    <3> DEFINE d == req[r].input
    <3>1. req[r].capsule \in Capsules /\ d \in Decisions /\ req[r].seen.status \in Statuses
      BY <2>1 DEF ValidateCommit, TypeInv, TypeOK, LocalOK, Request, Row
    <3>2. StatusAfter(d) \in Statuses /\ CustodyTypeOf(d) \in EventTypes
      BY DEF StatusAfter, CustodyTypeOf, Statuses, EventTypes
    <3> QED
      BY <2>1, <3>1, <3>2, LogTyped DEF ValidateCommit
  <2>2. CASE AnchoredCommit(r)
    <3>1. req[r].capsule \in Capsules
      BY <2>2 DEF AnchoredCommit, TypeInv, LocalOK
    <3>2. Log("TRUST_ANCHORED", "APPROVED", "ANCHORED") \in Event
      BY LogTyped DEF EventTypes, Statuses
    <3> QED
      BY <2>2, <3>1, <3>2 DEF AnchoredCommit
  <2>3. CASE AiResultCommit(r)
    <3>1. req[r].capsule \in Capsules /\ req[r].seen.status \in Statuses
      BY <2>3 DEF AiResultCommit, TypeInv, TypeOK, LocalOK, Request, Row
    <3>2. Log("AI_COMPLETED", req[r].seen.status, "PENDING_VALIDATION") \in Event
      BY <3>1, LogTyped DEF EventTypes, Statuses
    <3> QED
      BY <2>3, <3>1, <3>2 DEF AiResultCommit
  <2> QED
    BY <1>3, <2>1, <2>2, <2>3 DEF Continue, SubmitStore, SubmitTriggerAi, ValidateQueueAnchor,
         AnchoredLock, TallySave, Rollback, tables
<1> QED
  BY <1>1, <1>2, <1>3 DEF Next

LEMMA RowsStay ==
    ASSUME TypeInv, [Next]_vars, NEW c \in Capsules, Exists(c)
    PROVE  Exists(c)'
<1>1. CASE UNCHANGED vars \/ Idle
  BY <1>1 DEF vars, Idle, Exists
<1>2. ASSUME NEW r \in Requests, Apps(r) \/ Callbacks(r) \/ Fail(r)
      PROVE  Exists(c)'
  <2>1. ASSUME NEW d \in Capsules, NEW y \in SyncStates, SyncUpdate(r, d, y)
        PROVE  Exists(c)'
    BY <2>1 DEF SyncUpdate, Exists, TypeInv, TypeOK, Row
  <2> QED
    BY <1>2, <2>1 DEF Apps, Callbacks, SubmitCheck, SubmitConflict, ValidateRead, TallyRead,
                AiResultRead, AnchoredRead, Fail, tables, Exists
<1>3. ASSUME NEW r \in Requests, Continue(r)
      PROVE  Exists(c)'
  <2>1. CASE TallySave(r)
    <3>1. req[r].seen \in Row /\ req[r].seen.status # "ABSENT"
      BY <2>1 DEF TallySave, TypeInv, TypeOK, LocalOK, Request
    <3> QED
      BY <2>1, <3>1 DEF TallySave, Exists, TypeInv, TypeOK, Row
  <2>2. CASE ValidateCommit(r)
    <3>1. StatusAfter(req[r].input) # "ABSENT"
      BY DEF StatusAfter
    <3> QED
      BY <2>2, <3>1 DEF ValidateCommit, Exists, TypeInv, TypeOK, Row
  <2>3. CASE AnchoredCommit(r) \/ AiResultCommit(r)
    BY <2>3 DEF AnchoredCommit, AiResultCommit, Exists, TypeInv, TypeOK, Row
  <2>4. CASE \E d \in Capsules : SubmitInsert(r, d)
    BY <2>4 DEF SubmitInsert, Exists, TypeInv, TypeOK
  <2> QED
    BY <1>3, <2>1, <2>2, <2>3, <2>4 DEF Continue, SubmitStore, SubmitTriggerAi,
         ValidateQueueAnchor, AnchoredLock, Rollback, tables, Exists
<1> QED
  BY <1>1, <1>2, <1>3 DEF Next

\* The events of a capsule's log stay where they are.
LEMMA LogsStay ==
    ASSUME TypeInv, TypeInv', [Next]_vars, NEW c \in Capsules, Exists(c)
    PROVE  /\ Len(custody[c]) \in Nat /\ Len(custody'[c]) \in Nat
           /\ Len(custody[c]) <= Len(custody'[c])
           /\ \A i \in 1 .. Len(custody[c]) : custody'[c][i] = custody[c][i]
           /\ Approvals(custody[c]) \subseteq Approvals(custody'[c])
<1>1. Len(custody[c]) \in Nat /\ Len(custody'[c]) \in Nat /\ custody[c] \in Seq(Event)
  BY DEF TypeInv, TypeOK
<1>2. /\ Len(custody[c]) <= Len(custody'[c])
      /\ \A i \in 1 .. Len(custody[c]) : custody'[c][i] = custody[c][i]
  <2>1. CASE UNCHANGED custody
    BY <1>1, <2>1
  <2>2. CASE \E r \in Requests, d \in Capsules : SubmitInsert(r, d)
    BY <1>1, <2>2 DEF SubmitInsert, TypeInv, TypeOK
  <2>3. ASSUME NEW d \in Capsules, NEW e \in Event, Logs(d, e)
        PROVE  /\ Len(custody[c]) <= Len(custody'[c])
               /\ \A i \in 1 .. Len(custody[c]) : custody'[c][i] = custody[c][i]
    <3>1. /\ custody'[d] = Append(custody[d], e)
          /\ \A b \in Capsules : b # d => custody'[b] = custody[b]
      BY <2>3, Logged DEF TypeInv
    <3>2. CASE c = d
      BY <1>1, <3>1, <3>2
    <3>3. CASE c # d
      BY <1>1, <3>1, <3>3
    <3> QED
      BY <3>2, <3>3
  <2> QED
    BY <2>1, <2>2, <2>3, LogStep
<1>3. 1 .. Len(custody[c]) \subseteq 1 .. Len(custody'[c])
  BY <1>1, <1>2
<1> QED
  BY <1>1, <1>2, <1>3 DEF Approvals

\* A handler that holds what getCapsule returned either held it before, or has
\* just read it, and then the tables stay.
LEMMA LocalsStep ==
    ASSUME TypeInv, [Next]_vars, NEW q \in Requests,
           req'[q].stage \in {"validating", "anchoring", "recordingAi", "savingTally"}
    PROVE  \/ req'[q] = req[q]
           \/ /\ UNCHANGED tables
              /\ req'[q].capsule \in Capsules
              /\ Exists(req'[q].capsule)
              /\ req'[q].seen = capsule[req'[q].capsule]
              /\ \/ \E d \in Decisions : ValidateRead(q, req'[q].capsule, d)
                 \/ \E s \in AnchorStates : AnchoredRead(q, req'[q].capsule, s)
                 \/ \E s \in Routings : AiResultRead(q, req'[q].capsule, s)
                 \/ TallyRead(q, req'[q].capsule)
<1>1. CASE UNCHANGED vars \/ Idle
  BY <1>1 DEF vars, Idle
<1>2. ASSUME NEW r \in Requests, q # r, Apps(r) \/ Callbacks(r) \/ Continue(r) \/ Fail(r)
      PROVE  req'[q] = req[q]
  <2>1. CASE Continue(r)
    BY <1>2, <2>1 DEF Continue, SubmitStore, SubmitInsert, SubmitTriggerAi, ValidateCommit,
         ValidateQueueAnchor, AnchoredCommit, AnchoredLock, AiResultCommit, TallySave,
         Rollback, MovesTo, Ends, TypeInv, TypeOK
  <2>2. CASE Apps(r) \/ Callbacks(r) \/ Fail(r)
    BY <1>2, <2>2 DEF Apps, Callbacks, SubmitCheck, SubmitConflict, ValidateRead, TallyRead,
         SyncUpdate, AiResultRead, AnchoredRead, Fail, Reads, Ends, TypeInv, TypeOK
  <2> QED
    BY <1>2, <2>1, <2>2
<1>3. ASSUME Continue(q) \/ Fail(q)
      PROVE  FALSE
  <2>1. CASE \E st \in {"done", "failed", "rejected"} : Ends(q, st)
    BY <2>1, EndsTyped
  <2>2. CASE \E st \in {"stored", "locking", "approved"} : MovesTo(q, st)
    BY <2>2, MovesTyped DEF Stages
  <2>3. CASE \E c \in Capsules : SubmitInsert(q, c)
    BY <2>3 DEF SubmitInsert, TypeInv, TypeOK
  <2> QED
    BY <1>3, <2>1, <2>2, <2>3 DEF Continue, Fail, SubmitStore, SubmitTriggerAi, ValidateCommit,
       ValidateQueueAnchor, AnchoredCommit, AnchoredLock, AiResultCommit, TallySave, Rollback
<1>4. ASSUME NEW c \in Capsules, NEW in \in Decisions \cup AnchorStates \cup Routings \cup {None},
             NEW st \in {"validating", "anchoring", "recordingAi", "savingTally"}, Reads(q, st, c, in)
      PROVE  req'[q].capsule = c /\ req'[q].seen = capsule[c]
  BY <1>4, ReadsTyped DEF Stages
<1>5. ~Ends(q, "done")
  BY EndsTyped
<1>6. CASE \E c \in Capsules, d \in Decisions : ValidateRead(q, c, d)
  BY <1>4, <1>5, <1>6 DEF ValidateRead
<1>7. CASE \E c \in Capsules : TallyRead(q, c)
  BY <1>4, <1>5, <1>7 DEF TallyRead
<1>8. CASE \E c \in Capsules, s \in AnchorStates : AnchoredRead(q, c, s)
  BY <1>4, <1>5, <1>8 DEF AnchoredRead
<1>9. CASE \E c \in Capsules, s \in Routings : AiResultRead(q, c, s)
  BY <1>4, <1>5, <1>9 DEF AiResultRead
<1>10. ~(\E s \in Slots, a \in Agents : SubmitCheck(q, s, a))
  BY DEF SubmitCheck, TypeInv, TypeOK
<1>11. CASE Apps(q)
  BY <1>5, <1>6, <1>7, <1>10, <1>11 DEF Apps, SubmitConflict, SyncUpdate
<1>12. CASE Callbacks(q)
  BY <1>8, <1>9, <1>12 DEF Callbacks, TypeInv, TypeOK
<1> QED
  BY <1>1, <1>2, <1>3, <1>11, <1>12 DEF Next

\* What a step may do to the row of a capsule.
LEMMA RowStep ==
    ASSUME TypeInv, [Next]_vars, NEW c \in Capsules
    PROVE  \/ /\ capsule'[c].status = capsule[c].status
              /\ capsule'[c].anchor = capsule[c].anchor
           \/ /\ ~Exists(c)
              /\ capsule'[c].status = "UPLOADED" /\ capsule'[c].anchor = None
           \/ \E r \in Requests :
                /\ req[r].capsule = c
                /\ \/ /\ ValidateCommit(r)
                      /\ capsule'[c].status = StatusAfter(req[r].input)
                      /\ capsule'[c].anchor = capsule[c].anchor
                   \/ /\ AiResultCommit(r)
                      /\ capsule'[c].status = "PENDING_VALIDATION"
                      /\ capsule'[c].anchor = capsule[c].anchor
                   \/ /\ AnchoredCommit(r)
                      /\ capsule'[c].status = "ANCHORED"
                      /\ capsule'[c].anchor = req[r].input
                   \/ /\ TallySave(r)
                      /\ capsule'[c].status = req[r].seen.status
                      /\ capsule'[c].anchor = req[r].seen.anchor
<1>1. CASE UNCHANGED vars \/ Idle
  BY <1>1 DEF vars, Idle
<1>2. CASE UNCHANGED capsule
  BY <1>2
<1>3. ASSUME NEW r \in Requests, NEW d \in Capsules, SubmitInsert(r, d)
      PROVE  \/ capsule'[c] = capsule[c]
             \/ ~Exists(c) /\ capsule'[c].status = "UPLOADED" /\ capsule'[c].anchor = None
  BY <1>3 DEF SubmitInsert, TypeInv, TypeOK
<1>4. ASSUME NEW r \in Requests, NEW d \in Capsules, NEW y \in SyncStates, SyncUpdate(r, d, y)
      PROVE  capsule'[c].status = capsule[c].status /\ capsule'[c].anchor = capsule[c].anchor
  BY <1>4 DEF SyncUpdate, TypeInv, TypeOK, Row
<1>5. ASSUME NEW r \in Requests, ValidateCommit(r)
      PROVE  \/ capsule'[c] = capsule[c]
             \/ /\ req[r].capsule = c
                /\ capsule'[c].status = StatusAfter(req[r].input)
                /\ capsule'[c].anchor = capsule[c].anchor
  BY <1>5 DEF ValidateCommit, TypeInv, TypeOK, LocalOK, Row
<1>6. ASSUME NEW r \in Requests, AiResultCommit(r)
      PROVE  \/ capsule'[c] = capsule[c]
             \/ /\ req[r].capsule = c
                /\ capsule'[c].status = "PENDING_VALIDATION"
                /\ capsule'[c].anchor = capsule[c].anchor
  BY <1>6 DEF AiResultCommit, TypeInv, TypeOK, LocalOK, Row
<1>7. ASSUME NEW r \in Requests, AnchoredCommit(r)
      PROVE  \/ capsule'[c] = capsule[c]
             \/ /\ req[r].capsule = c
                /\ capsule'[c].status = "ANCHORED"
                /\ capsule'[c].anchor = req[r].input
  BY <1>7 DEF AnchoredCommit, TypeInv, TypeOK, LocalOK, Row
<1>8. ASSUME NEW r \in Requests, TallySave(r)
      PROVE  \/ capsule'[c] = capsule[c]
             \/ /\ req[r].capsule = c
                /\ capsule'[c].status = req[r].seen.status
                /\ capsule'[c].anchor = req[r].seen.anchor
  <2>1. req[r].seen \in Row
    BY DEF TypeInv, TypeOK, Request
  <2> QED
    BY <1>8, <2>1 DEF TallySave, TypeInv, TypeOK, Row
<1>9. ASSUME NEW r \in Requests, Apps(r) \/ Callbacks(r) \/ Fail(r)
      PROVE  \/ UNCHANGED capsule
             \/ \E d \in Capsules, y \in SyncStates : SyncUpdate(r, d, y)
  BY <1>9 DEF Apps, Callbacks, Fail, SubmitCheck, SubmitConflict, ValidateRead, TallyRead,
       AiResultRead, AnchoredRead, tables
<1>10. ASSUME NEW r \in Requests, Continue(r)
       PROVE  \/ UNCHANGED capsule
              \/ \E d \in Capsules : SubmitInsert(r, d)
              \/ ValidateCommit(r) \/ AiResultCommit(r) \/ AnchoredCommit(r) \/ TallySave(r)
  BY <1>10 DEF Continue, SubmitStore, SubmitTriggerAi, ValidateQueueAnchor, AnchoredLock,
       Rollback, tables
<1> QED
  BY <1>1, <1>2, <1>3, <1>4, <1>5, <1>6, <1>7, <1>8, <1>9, <1>10 DEF Next

\* Calls that were sent stay sent.
LEMMA CallsGrow ==
    ASSUME TypeInv, [Next]_vars PROVE aiCalls \subseteq aiCalls' /\ anchorCalls \subseteq anchorCalls'
<1>1. CASE UNCHANGED vars \/ Idle
  BY <1>1 DEF vars, Idle, calls
<1>2. ASSUME NEW r \in Requests, Apps(r)
      PROVE  UNCHANGED calls
  BY <1>2 DEF Apps, SubmitCheck, SubmitConflict, ValidateRead, TallyRead, SyncUpdate, Fail
<1>3. ASSUME NEW r \in Requests, Callbacks(r) \/ Fail(r)
      PROVE  UNCHANGED calls
  BY <1>3 DEF Callbacks, AiResultRead, AnchoredRead, Fail
<1>4. ASSUME NEW r \in Requests,
             SubmitTriggerAi(r) \/ ValidateQueueAnchor(r) \/ SubmitStore(r) \/ AnchoredLock(r)
      PROVE  aiCalls \subseteq aiCalls' /\ anchorCalls \subseteq anchorCalls'
  BY <1>4 DEF SubmitTriggerAi, ValidateQueueAnchor, SubmitStore, AnchoredLock, calls
<1>5. ASSUME NEW r \in Requests,
             \/ \E c \in Capsules : SubmitInsert(r, c)
             \/ ValidateCommit(r) \/ AnchoredCommit(r) \/ AiResultCommit(r)
             \/ TallySave(r) \/ Rollback(r)
      PROVE  UNCHANGED calls
  BY <1>5 DEF SubmitInsert, ValidateCommit, AnchoredCommit, AiResultCommit, TallySave, Rollback
<1>6. UNCHANGED calls => aiCalls \subseteq aiCalls' /\ anchorCalls \subseteq anchorCalls'
  BY DEF calls
<1> QED
  BY <1>1, <1>2, <1>3, <1>4, <1>5, <1>6 DEF Next, Continue

\* Only recordAnchorCallback's read makes a handler anchor.
LEMMA AnchoringStep ==
    ASSUME TypeInv, [Next]_vars, NEW r \in Requests, NEW q \in Requests,
           \/ Apps(r) \/ Continue(r) \/ Fail(r)
           \/ \E c \in Capsules, d \in Routings : AiResultRead(r, c, d),
           req'[q].stage = "anchoring"
    PROVE  req'[q] = req[q]
<1> SUFFICES ASSUME req'[q] # req[q] PROVE FALSE
  OBVIOUS
<1>1. PICK s \in AnchorStates : AnchoredRead(q, req'[q].capsule, s)
  <2>1. /\ ~ \E d \in Decisions : ValidateRead(q, req'[q].capsule, d)
        /\ ~ \E d \in Routings : AiResultRead(q, req'[q].capsule, d)
        /\ ~ TallyRead(q, req'[q].capsule)
    BY DEF ValidateRead, AiResultRead, TallyRead, Reads, Ends, Blank, TypeInv, TypeOK
  <2> QED
    BY <2>1, LocalsStep
<1>2. Workload[q] = "anchored" /\ req[q].stage = "idle"
  BY <1>1 DEF AnchoredRead, Begins
<1>3. r = q
  <2>1. \A p \in Requests : p # r => req'[p] = req[p]
    BY DEF Apps, Continue, Fail, SubmitCheck, SubmitConflict, ValidateRead, TallyRead, SyncUpdate,
       AiResultRead, SubmitStore, SubmitInsert, SubmitTriggerAi, ValidateCommit,
       ValidateQueueAnchor, AnchoredCommit, AnchoredLock, AiResultCommit, TallySave, Rollback,
       Reads, Ends, MovesTo, TypeInv, TypeOK
  <2> QED
    BY <2>1
<1>4. ~Continue(q)
  BY <1>2 DEF Continue, SubmitStore, SubmitInsert, SubmitTriggerAi, ValidateCommit,
     ValidateQueueAnchor, AnchoredCommit, AnchoredLock, AiResultCommit, TallySave, Rollback,
     Refuses, Writes
<1>5. ~Apps(q) /\ ~ \E c \in Capsules, d \in Routings : AiResultRead(q, c, d)
  BY <1>2 DEF Apps, SubmitCheck, SubmitConflict, ValidateRead, TallyRead, SyncUpdate, AiResultRead,
     Begins
<1>6. ~Fail(q)
  BY EndsTyped DEF Fail
<1> QED
  BY <1>3, <1>4, <1>5, <1>6

------------------------------------------------------------------------------
(* Calls to the Trust Service *)

\* Requests that sent c to the Trust Service, or have committed its approval
\* and are about to.
Owing(c) ==
    {r \in Requests : \/ req[r].stage = "approved" /\ req[r].capsule = c
                      \/ [by |-> r, capsule |-> c] \in anchorCalls}

\* Every one of them has an approval of its own on record.  A request that has
\* sent its call is over, so that it sends no second one.
CallInv ==
    /\ \A m \in anchorCalls : req[m.by].stage = "done" /\ Exists(m.capsule)
    /\ \A c \in Capsules : /\ IsFiniteSet(Owing(c))
                           /\ Cardinality(Owing(c)) <= Cardinality(Approvals(custody[c]))

LEMMA UpToNext ==
    ASSUME NEW m \in Nat
    PROVE  1 .. m + 1 = (1 .. m) \cup {m + 1} /\ m + 1 \notin 1 .. m
OBVIOUS

LEMMA ApprovalsFinite ==
    ASSUME NEW log \in Seq(Event)
    PROVE  IsFiniteSet(Approvals(log)) /\ Cardinality(Approvals(log)) \in Nat
<1>1. Len(log) \in Nat
  OBVIOUS
<1>2. IsFiniteSet(1 .. Len(log))
  BY <1>1, FS_Interval
<1>3. IsFiniteSet(Approvals(log))
  BY <1>2, FS_Subset DEF Approvals
<1> QED
  BY <1>3, FS_CardinalityType

LEMMA InitCalls == Init => CallInv
<1> SUFFICES ASSUME Init PROVE CallInv
  OBVIOUS
<1>1. \A c \in Capsules : Owing(c) = {}
  BY DEF Init, Owing, Blank
<1>2. \A c \in Capsules : Cardinality(Approvals(custody[c])) \in Nat
  BY InitTypeInv, ApprovalsFinite DEF TypeInv, TypeOK
<1>3. \A c \in Capsules : IsFiniteSet(Owing(c)) /\ Cardinality(Owing(c)) = 0
  BY <1>1, FS_EmptySet
<1>4. anchorCalls = {}
  BY DEF Init
<1> QED
  BY <1>2, <1>3, <1>4 DEF CallInv

\* Who owes a call to a capsule that does not exist: nobody.
LEMMA NobodyOwes ==
    ASSUME TypeInv, CallInv, NEW c \in Capsules, ~Exists(c)
    PROVE  Owing(c) = {}
BY DEF TypeInv, LocalOK, CallInv, Owing

\* Nobody owes a call that did not before.
LEMMA CallsKept ==
    ASSUME TypeInv, TypeInv', [Next]_vars, CallInv,
           \A c \in Capsules : Owing(c)' \subseteq Owing(c),
           \A m \in anchorCalls' : req'[m.by].stage = "done" /\ Exists(m.capsule)'
    PROVE  CallInv'
<1> SUFFICES ASSUME NEW c \in Capsules
             PROVE  /\ IsFiniteSet(Owing(c)')
                    /\ Cardinality(Owing(c)') <= Cardinality(Approvals(custody'[c]))
  BY DEF CallInv
<1>1. /\ IsFiniteSet(Owing(c)') /\ Cardinality(Owing(c)') <= Cardinality(Owing(c))
      /\ Cardinality(Owing(c)') \in Nat /\ Cardinality(Owing(c)) \in Nat
  BY FS_Subset, FS_CardinalityType DEF CallInv
<1>2. /\ IsFiniteSet(Approvals(custody'[c])) /\ Cardinality(Approvals(custody'[c])) \in Nat
      /\ Cardinality(Approvals(custody[c])) \in Nat
  BY ApprovalsFinite DEF TypeInv, TypeOK
<1>3. CASE Exists(c)
  <2>1. Cardinality(Approvals(custody[c])) <= Cardinality(Approvals(custody'[c]))
    BY <1>2, <1>3, LogsStay, FS_Subset
  <2> QED
    BY <1>1, <1>2, <2>1 DEF CallInv
<1>4. CASE ~Exists(c)
  BY <1>1, <1>2, <1>4, NobodyOwes, FS_EmptySet
<1> QED
  BY <1>3, <1>4

\* The calls that were sent stay sent, by requests that are over.
LEMMA SentCalls ==
    ASSUME TypeInv, TypeInv', [Next]_vars, CallInv, NEW m \in anchorCalls
    PROVE  req'[m.by].stage = "done" /\ Exists(m.capsule)'
<1>1. m.by \in Requests /\ m.capsule \in Capsules /\ req[m.by].stage = "done" /\ Exists(m.capsule)
  BY DEF TypeInv, TypeOK, CallInv
<1>2. req'[m.by].stage = "done"
  BY <1>1, OneMoves DEF TypeInv, TypeOK
<1> QED
  BY <1>1, <1>2, RowsStay

\* A validator's approval is committed: one more call owed, one more approval.
LEMMA ApprovalOwes ==
    ASSUME TypeInv, TypeInv', [Next]_vars, CallInv, NEW r \in Requests, ValidateCommit(r),
           NEW c, c = req[r].capsule, NEW d, d = req[r].input
    PROVE  CallInv'
<1> DEFINE e == Log(CustodyTypeOf(d), req[r].seen.status, StatusAfter(d))
<1>1. /\ req[r].stage = "validating" /\ c \in Capsules /\ Exists(c)
      /\ d \in Decisions /\ req[r].seen.status \in Statuses /\ anchorCalls' = anchorCalls
  BY DEF ValidateCommit, TypeInv, TypeOK, LocalOK, Request, Row, calls
<1>2. /\ \A q \in Requests : q # r => req'[q] = req[q]
      /\ d = "APPROVED" => req'[r].stage = "approved" /\ req'[r].capsule = c
      /\ d # "APPROVED" => req'[r].stage = "done"
  BY EndsTyped, MovesTyped DEF ValidateCommit, Stages
<1>3. r \notin Owing(c)
  BY <1>1 DEF Owing, CallInv
<1>4. \A b \in Capsules : /\ Owing(b)' \subseteq Owing(b) \cup {r}
                          /\ b # c \/ d # "APPROVED" => Owing(b)' \subseteq Owing(b)
  BY <1>1, <1>2 DEF Owing
<1>5. \A m \in anchorCalls' : req'[m.by].stage = "done" /\ Exists(m.capsule)'
  BY <1>1, SentCalls
<1>6. CASE d # "APPROVED"
  BY <1>4, <1>5, <1>6, CallsKept
<1>7. CASE d = "APPROVED"
  <2> DEFINE n == Len(custody[c]) + 1
  <2>1. e \in Event /\ e.type = "VALIDATION_APPROVED"
    <3>1. StatusAfter(d) \in Statuses /\ CustodyTypeOf(d) = "VALIDATION_APPROVED"
      BY <1>7 DEF StatusAfter, CustodyTypeOf, Statuses
    <3>2. e \in Event
      BY <1>1, <3>1, LogTyped DEF EventTypes
    <3> QED
      BY <3>1, <3>2 DEF Log
  <2>2. Logs(c, e)
    BY DEF ValidateCommit
  <2>3. /\ custody'[c] = Append(custody[c], e) /\ custody[c] \in Seq(Event)
        /\ \A b \in Capsules : b # c => custody'[b] = custody[b]
    <3> HIDE DEF e
    <3> QED
      BY <1>1, <2>1, <2>2, Logged DEF TypeInv, TypeOK
  <2>4. Approvals(custody'[c]) = Approvals(custody[c]) \cup {n} /\ n \notin Approvals(custody[c])
    <3>1. /\ Len(custody[c]) \in Nat /\ Len(custody'[c]) = n /\ custody'[c][n] = e
          /\ \A i \in 1 .. Len(custody[c]) : custody'[c][i] = custody[c][i]
      <4> HIDE DEF e
      <4> QED BY <2>1, <2>3
    <3>2. 1 .. Len(custody'[c]) = (1 .. Len(custody[c])) \cup {n} /\ n \notin 1 .. Len(custody[c])
      BY <3>1, UpToNext
    <3> QED
      BY <2>1, <3>1, <3>2 DEF Approvals
  <2>5. Cardinality(Approvals(custody'[c])) = Cardinality(Approvals(custody[c])) + 1
    <3>1. IsFiniteSet(Approvals(custody[c]))
      BY <1>1, ApprovalsFinite DEF TypeInv, TypeOK
    <3> DEFINE A == Approvals(custody[c])
    <3>2. IsFiniteSet(A) /\ n \notin A
      BY <2>4, <3>1
    <3>3. Cardinality(A \cup {n}) = Cardinality(A) + 1
      <4> HIDE DEF A, n
      <4> QED BY <3>2, FS_AddElement
    <3> QED
      BY <2>4, <3>3
  <2>6. /\ IsFiniteSet(Owing(c) \cup {r})
        /\ Cardinality(Owing(c) \cup {r}) = Cardinality(Owing(c)) + 1
    BY <1>1, <1>3, FS_AddElement DEF CallInv
  <2>7. /\ IsFiniteSet(Owing(c)')
        /\ Cardinality(Owing(c)') <= Cardinality(Approvals(custody'[c]))
    <3>1. Owing(c)' \in SUBSET (Owing(c) \cup {r})
      BY <1>1, <1>4
    <3>2. IsFiniteSet(Owing(c)') /\ Cardinality(Owing(c)') <= Cardinality(Owing(c) \cup {r})
      BY <2>6, <3>1, FS_Subset
    <3>3. /\ Cardinality(Owing(c)) \in Nat /\ Cardinality(Owing(c)') \in Nat
          /\ Cardinality(Approvals(custody[c])) \in Nat
      BY <1>1, <3>2, ApprovalsFinite, FS_CardinalityType DEF CallInv, TypeInv, TypeOK
    <3> QED
      BY <1>1, <2>5, <2>6, <3>2, <3>3 DEF CallInv
  <2>8. ASSUME NEW b \in Capsules, b # c
        PROVE  /\ IsFiniteSet(Owing(b)')
               /\ Cardinality(Owing(b)') <= Cardinality(Approvals(custody'[b]))
    <3>1. custody'[b] = custody[b] /\ Owing(b)' \subseteq Owing(b)
      BY <1>4, <2>3, <2>8
    <3>2. IsFiniteSet(Owing(b)') /\ Cardinality(Owing(b)') <= Cardinality(Owing(b))
      BY <3>1, FS_Subset DEF CallInv
    <3>3. /\ Cardinality(Owing(b)) \in Nat /\ Cardinality(Owing(b)') \in Nat
          /\ Cardinality(Approvals(custody[b])) \in Nat
      BY <3>2, ApprovalsFinite, FS_CardinalityType DEF CallInv, TypeInv, TypeOK
    <3> QED
      BY <3>1, <3>2, <3>3 DEF CallInv
  <2> QED
    BY <1>5, <2>7, <2>8 DEF CallInv
<1> QED
  BY <1>6, <1>7

\* Only the commit of an approval makes a request owe a call.
LEMMA OthersOweNothing ==
    ASSUME TypeInv, [Next]_vars, \A r \in Requests : ~ValidateCommit(r)
    PROVE  \A q \in Requests : req'[q].stage = "approved"
             => req[q].stage = "approved" /\ req'[q].capsule = req[q].capsule
<1>1. CASE UNCHANGED vars \/ Idle
  BY <1>1 DEF vars, Idle
<1>2. ASSUME NEW r \in Requests, Apps(r) \/ Callbacks(r) \/ Continue(r) \/ Fail(r),
             NEW q \in Requests, req'[q].stage = "approved"
      PROVE  req[q].stage = "approved" /\ req'[q].capsule = req[q].capsule
  <2>1. CASE q # r
    <3>1. req'[q] = req[q]
      BY <1>2, <2>1 DEF Apps, Callbacks, Continue, SubmitCheck, SubmitConflict, ValidateRead,
           TallyRead, SyncUpdate, AiResultRead, AnchoredRead, SubmitStore, SubmitInsert,
           SubmitTriggerAi, ValidateCommit, ValidateQueueAnchor, AnchoredCommit, AnchoredLock,
           AiResultCommit, TallySave, Rollback, Fail, Reads, Ends, MovesTo, TypeInv, TypeOK
    <3> QED
      BY <1>2, <3>1
  <2>2. CASE q = r
    <3>1. req'[r].stage # "approved"
      <4>1. CASE \E st \in {"done", "failed", "rejected"} : Ends(r, st)
        BY <1>2, <4>1, EndsTyped
      <4>2. CASE \E st \in {"stored", "locking"} : MovesTo(r, st)
        BY <1>2, <4>2, MovesTyped DEF Stages
      <4>3. ASSUME NEW b \in Capsules, NEW in \in Decisions \cup AnchorStates \cup Routings \cup {None},
                   NEW st \in {"validating", "anchoring", "recordingAi", "savingTally"},
                   Reads(r, st, b, in)
            PROVE  req'[r].stage # "approved"
        BY <1>2, <4>3, ReadsTyped DEF Stages
      <4>4. CASE Continue(r)
        BY <1>2, <4>1, <4>2, <4>4 DEF Continue, SubmitStore, SubmitInsert, SubmitTriggerAi,
             ValidateQueueAnchor, AnchoredCommit, AnchoredLock, AiResultCommit, TallySave,
             Rollback, TypeInv, TypeOK, Request
      <4>5. CASE Apps(r) \/ Fail(r)
        <5>1. CASE \E s \in Slots, a \in Agents : SubmitCheck(r, s, a)
          BY <1>2, <5>1 DEF SubmitCheck, TypeInv, TypeOK
        <5>2. CASE \E b \in Capsules, d \in Decisions : ValidateRead(r, b, d)
          BY <4>1, <4>3, <5>2 DEF ValidateRead
        <5>3. CASE \E b \in Capsules : TallyRead(r, b)
          BY <4>1, <4>3, <5>3 DEF TallyRead
        <5> QED
          BY <4>1, <4>5, <5>1, <5>2, <5>3 DEF Apps, Fail, SubmitConflict, SyncUpdate
      <4>6. CASE Callbacks(r)
        BY <1>2, <4>1, <4>3, <4>6 DEF Callbacks, AiResultRead, AnchoredRead, TypeInv, TypeOK
      <4> QED
        BY <1>2, <4>4, <4>5, <4>6
    <3> QED
      BY <1>2, <2>2, <3>1
  <2> QED
    BY <2>1, <2>2
<1> QED
  BY <1>1, <1>2 DEF Next

LEMMA NextCalls == ASSUME TypeInv, TypeInv', CallInv, [Next]_vars PROVE CallInv'
<1>1. CASE \E r \in Requests : ValidateCommit(r)
  BY <1>1, ApprovalOwes
<1>2. CASE \A r \in Requests : ~ValidateCommit(r)
  <2>1. CASE UNCHANGED anchorCalls
    <3>1. \A c \in Capsules : Owing(c)' \subseteq Owing(c)
      BY <1>2, <2>1, OthersOweNothing DEF Owing
    <3> QED
      BY <2>1, <3>1, SentCalls, CallsKept
  <2>2. ASSUME NEW r \in Requests, ValidateQueueAnchor(r)
        PROVE  CallInv'
    <3>1. /\ req[r].stage = "approved" /\ req[r].capsule \in Capsules /\ Exists(req[r].capsule)
          /\ anchorCalls' = anchorCalls \cup {[by |-> r, capsule |-> req[r].capsule]}
          /\ UNCHANGED tables
      BY <2>2 DEF ValidateQueueAnchor, TypeInv, LocalOK
    <3>2. req'[r].stage = "done"
      BY <2>2, EndsTyped DEF ValidateQueueAnchor
    <3>3. \A m \in anchorCalls' : req'[m.by].stage = "done" /\ Exists(m.capsule)'
      BY <3>1, <3>2, SentCalls DEF Exists, tables
    <3>4. \A c \in Capsules : Owing(c)' \subseteq Owing(c)
      BY <1>2, <3>1, OthersOweNothing DEF Owing
    <3> QED
      BY <3>3, <3>4, CallsKept
  <2> QED
    BY <1>2, <2>1, <2>2 DEF Next, vars, Idle, Apps, Callbacks, Continue, SubmitCheck,
       SubmitConflict, ValidateRead, TallyRead, SyncUpdate, AiResultRead, AnchoredRead,
       SubmitStore, SubmitInsert, SubmitTriggerAi, AnchoredCommit, AnchoredLock,
       AiResultCommit, TallySave, Rollback, Fail, calls
<1> QED
  BY <1>1, <1>2

LEMMA CallsEnough ==
    ASSUME TypeInv, CallInv
    PROVE  OneAnchorCallPerApproval
<1> SUFFICES ASSUME NEW c \in Capsules
             PROVE  Cardinality({m \in anchorCalls : m.capsule = c})
                      <= Cardinality(Approvals(custody[c]))
  BY DEF OneAnchorCallPerApproval
<1> DEFINE sent == {m \in anchorCalls : m.capsule = c}
           by == [m \in sent |-> m.by]
<1>1. \A m \in sent : m = [by |-> m.by, capsule |-> c] /\ m.by \in Requests
  BY DEF TypeInv, TypeOK
<1>2. by \in Injection(sent, Owing(c))
  BY <1>1 DEF Owing, Injection, IsInjective
<1>3. IsFiniteSet(sent) /\ Cardinality(sent) <= Cardinality(Owing(c))
  <2> HIDE DEF by, sent
  <2> QED BY <1>2, FS_Injection DEF CallInv
<1>4. /\ Cardinality(sent) \in Nat /\ Cardinality(Owing(c)) \in Nat
      /\ Cardinality(Approvals(custody[c])) \in Nat
  BY <1>3, ApprovalsFinite, FS_CardinalityType DEF CallInv, TypeInv, TypeOK
<1> QED
  BY <1>3, <1>4 DEF CallInv

\* Each approval on record sends its capsule to the Trust Service at most
\* once, however validators overlap and requests fail.
THEOREM OneCallHolds == Spec => []OneAnchorCallPerApproval
<1>1. TypeInv /\ CallInv => OneAnchorCallPerApproval
  BY CallsEnough
<1>2. Init => CallInv
  BY InitCalls
<1>3. TypeInv /\ TypeInv' /\ CallInv /\ [Next]_vars => CallInv'
  BY NextCalls
<1> QED
  BY <1>1, <1>2, <1>3, TypeCorrect, PTL DEF Spec

------------------------------------------------------------------------------
(* Handlers served one after the other *)

\* At most one request is being served.
Alone == InFlight = {} \/ \E r \in Requests : InFlight = {r}

\* What the request being served read is still so: the row it read is the
\* row, and whoever filled its slot is its own agent.
Current(r) ==
    /\ req[r].stage \in {"validating", "anchoring", "recordingAi", "savingTally"}
         => req[r].seen = capsule[req[r].capsule]
    /\ req[r].stage = "anchoring" => req[r].seen.status = "APPROVED"
    /\ req[r].stage \in {"checked", "stored"}
         => \A c \in SlotRows(req[r].slot) : capsule[c].agent = req[r].agent

\* Approved capsules carry the decision, before they are anchored as well.
DecisionOK ==
    \A c \in Capsules : capsule[c].status \in {"APPROVED", "ANCHORED"}
                          => capsule[c].decision = "APPROVED"

\* The inductive invariant of handlers that do not overlap.
SerialInv ==
    /\ Alone
    /\ \A r \in Requests : Current(r)
    /\ DecisionOK
    /\ SlotHasOneAgent
    /\ CustodyChainUnbroken

LEMMA InitSerial == Init => SerialInv
<1> SUFFICES ASSUME Init PROVE SerialInv
  OBVIOUS
<1>1. InFlight = {} /\ \A r \in Requests : req[r].stage = "idle"
  BY DEF Init, InFlight, Blank
<1>2. \A c \in Capsules : capsule[c].status = "ABSENT" /\ custody[c] = <<>>
  BY DEF Init, NoRow
<1>3. \A s : SlotRows(s) = {}
  BY <1>2 DEF SlotRows, Exists
<1>4. \A c \in Capsules : 1 .. Len(custody[c]) = {}
  BY <1>2
<1> QED
  BY <1>1, <1>2, <1>3, <1>4 DEF SerialInv, Alone, Current, DecisionOK, SlotHasOneAgent,
     CustodyChainUnbroken

\* A request begins only when no other is being served.
LEMMA BeginsAlone ==
    ASSUME MaxInFlight <= 1, Alone, NEW r \in Requests, NEW e, Begins(r, e)
    PROVE  InFlight = {}
<1>1. ASSUME NEW q \in Requests, InFlight = {q} PROVE FALSE
  <2>1. Cardinality(InFlight) = 1
    BY <1>1, FS_Singleton
  <2> QED
    BY <2>1, BoundAssumption DEF Begins
<1> QED
  BY <1>1 DEF Alone

\* The step of a request, its predecessor among them, is the only one.
LEMMA StepAlone ==
    ASSUME MaxInFlight <= 1, TypeInv, Alone, NEW r \in Requests,
           r \in InFlight \/ InFlight = {},
           \A q \in Requests : q # r => req'[q] = req[q]
    PROVE  /\ Alone'
           /\ \A q \in Requests : q # r => req[q].stage \in Settled \cup {"idle"}
<1>1. \A q \in Requests : q # r => q \notin InFlight
  BY DEF Alone
<1>2. \A q \in Requests : q # r => req[q].stage \in Settled \cup {"idle"}
  BY <1>1 DEF InFlight
<1>3. InFlight' \subseteq {r}
  BY <1>2 DEF InFlight
<1> QED
  BY <1>2, <1>3 DEF Alone

\* So a step of r has only r's own reads and the tables to answer for.
LEMMA StepCurrent ==
    ASSUME MaxInFlight <= 1, TypeInv, SerialInv, NEW r \in Requests,
           r \in InFlight \/ InFlight = {},
           \A q \in Requests : q # r => req'[q] = req[q],
           Current(r)', DecisionOK', SlotHasOneAgent', CustodyChainUnbroken'
    PROVE  SerialInv'
<1>1. Alone' /\ \A q \in Requests : q # r => req[q].stage \in Settled \cup {"idle"}
  BY StepAlone DEF SerialInv
<1>2. \A q \in Requests : Current(q)'
  BY <1>1 DEF Current
<1> QED
  BY <1>1, <1>2 DEF SerialInv

\* A step that leaves slot and agent of every row alone.
LEMMA SlotsKept ==
    ASSUME SlotHasOneAgent,
           \A c \in Capsules : /\ Exists(c)' <=> Exists(c)
                               /\ capsule'[c].slot = capsule[c].slot
                               /\ capsule'[c].agent = capsule[c].agent
    PROVE  SlotHasOneAgent'
BY DEF SlotHasOneAgent, SlotRows

\* What LastRecorded says of the events before the j-th.
LEMMA RecordedBefore ==
    ASSUME NEW log \in Seq(Event), NEW j \in 1 .. Len(log), NEW st
    PROVE  LastRecorded(SubSeq(log, 1, j - 1), st)
             <=> \E i \in 1 .. j - 1 : /\ log[i].new = st
                                       /\ \A k \in i + 1 .. j - 1 : log[k].new = None
<1>1. Len(log) \in Nat /\ j - 1 \in Nat /\ \A i \in 1 .. j - 1 : log[i] \in Event
  OBVIOUS
<1> DEFINE m == j - 1
           sub == SubSeq(log, 1, m)
<1>2. Len(sub) = m /\ \A i \in 1 .. m : sub[i] = log[i]
  <2>1. m \in Nat /\ \A i \in 1 .. m : log[i] \in Event
    BY <1>1
  <2>2. /\ Len(sub) = IF 1 <= m THEN m - 1 + 1 ELSE 0
        /\ \A i \in 1 .. m - 1 + 1 : sub[i] = log[1 + i - 1]
    <3> HIDE DEF m
    <3> QED BY <2>1, SubSeqProperties
  <2>3. Len(sub) = m /\ m - 1 + 1 = m
    <3> HIDE DEF sub, m
    <3> QED BY <2>1, <2>2
  <2>4. \A i \in 1 .. m : 1 + i - 1 = i
    <3> HIDE DEF m
    <3> QED BY <2>1
  <2> QED
    <3> HIDE DEF sub, m
    <3> QED BY <2>2, <2>3, <2>4
<1>3. \A i \in 1 .. m : \A k \in i + 1 .. m : k \in 1 .. m
  <2> HIDE DEF m
  <2> QED BY <1>1
<1> QED
  <2> HIDE DEF sub, m
  <2>1. LastRecorded(sub, st) <=> \E i \in 1 .. m : /\ log[i].new = st
                                       /\ \A k \in i + 1 .. m : log[k].new = None
    BY <1>2, <1>3 DEF LastRecorded
  <2> QED
    BY <2>1 DEF sub, m

\* A chain stays unbroken when the event added starts where the log ends.
LEMMA ChainExtended ==
    ASSUME TypeOK, TypeOK', CustodyChainUnbroken, NEW c \in Capsules, NEW e \in Event,
           Logs(c, e), e.prev # None => LastRecorded(custody[c], e.prev)
    PROVE  CustodyChainUnbroken'
<1>1. /\ custody'[c] = Append(custody[c], e)
      /\ \A d \in Capsules : d # c => custody'[d] = custody[d]
  BY Logged
<1> DEFINE old == custody[c]
           new == custody'[c]
           n == Len(old) + 1
<1>2. /\ old \in Seq(Event) /\ new \in Seq(Event) /\ Len(old) \in Nat /\ Len(new) = n
      /\ new[n] = e /\ \A i \in 1 .. Len(old) : new[i] = old[i]
  BY <1>1 DEF TypeOK
<1> SUFFICES ASSUME NEW j \in 1 .. Len(new), new[j].prev # None
             PROVE  LastRecorded(SubSeq(new, 1, j - 1), new[j].prev)
  BY <1>1 DEF CustodyChainUnbroken
<1>3. CASE j = n
  <2>1. LastRecorded(old, e.prev)
    BY <1>2, <1>3
  <2>2. \E i \in 1 .. j - 1 : /\ new[i].new = e.prev
                              /\ \A k \in i + 1 .. j - 1 : new[k].new = None
    <3>1. j - 1 = Len(old)
      BY <1>2, <1>3
    <3> QED
      <4> HIDE DEF old, new, n
      <4>1. PICK i \in 1 .. Len(old) : /\ old[i].new = e.prev
                                       /\ \A k \in i + 1 .. Len(old) : old[k].new = None
        BY <2>1 DEF LastRecorded
      <4>2. new[i] = old[i] /\ \A k \in i + 1 .. Len(old) : k \in 1 .. Len(old)
        BY <1>2
      <4>3. \A k \in i + 1 .. Len(old) : new[k].new = None
        BY <1>2, <4>1, <4>2
      <4> QED
        BY <3>1, <4>1, <4>2, <4>3
  <2> QED
    BY <1>2, <1>3, <2>2, RecordedBefore
<1>4. CASE j # n
  <2>1. j \in 1 .. Len(old) /\ new[j] = old[j]
    BY <1>2, <1>4
  <2>2. LastRecorded(SubSeq(old, 1, j - 1), old[j].prev)
    BY <2>1 DEF CustodyChainUnbroken
  <2>3. \E i \in 1 .. j - 1 : /\ old[i].new = old[j].prev
                              /\ \A k \in i + 1 .. j - 1 : old[k].new = None
    <3> HIDE DEF old, new, n
    <3>1. old \in Seq(Event)
      BY <1>2
    <3> DEFINE p == old[j].prev
    <3> HIDE DEF p
    <3>2. LastRecorded(SubSeq(old, 1, j - 1), p)
            <=> \E i \in 1 .. j - 1 : /\ old[i].new = p
                                      /\ \A k \in i + 1 .. j - 1 : old[k].new = None
      BY <3>1, <2>1, RecordedBefore
    <3> QED
      BY <2>2, <3>2 DEF p
  <2>4. \E i \in 1 .. j - 1 : /\ new[i].new = new[j].prev
                              /\ \A k \in i + 1 .. j - 1 : new[k].new = None
    <3> HIDE DEF old, new, n
    <3>1. /\ Len(old) \in Nat /\ j \in 1 .. Len(old) /\ new[j] = old[j]
          /\ \A i \in 1 .. Len(old) : new[i] = old[i]
      BY <1>2, <2>1
    <3>2. /\ \A i \in 1 .. j - 1 : i \in 1 .. Len(old)
          /\ \A i \in 1 .. j - 1 : \A k \in i + 1 .. j - 1 : k \in 1 .. Len(old)
      BY <3>1
    <3>3. PICK i \in 1 .. j - 1 : /\ old[i].new = old[j].prev
                                 /\ \A k \in i + 1 .. j - 1 : old[k].new = None
      BY <2>3
    <3>4. new[i].new = new[j].prev /\ \A k \in i + 1 .. j - 1 : new[k].new = None
      BY <3>1, <3>2, <3>3
    <3> QED
      BY <3>4
  <2> QED
    BY <1>2, <2>4, RecordedBefore
<1> QED
  BY <1>3, <1>4

\* A handler's last stages rest on nothing it read.
LEMMA EndsCurrent ==
    ASSUME TypeInv, NEW r \in Requests,
           \/ \E st \in {"done", "failed", "rejected"} : Ends(r, st)
           \/ \E st \in {"approved", "locking"} : MovesTo(r, st)
           \/ req'[r].stage = "inserted"
    PROVE  Current(r)'
<1>1. req'[r].stage \in {"done", "failed", "rejected", "approved", "locking", "inserted"}
  BY EndsTyped, MovesTyped DEF Stages
<1> QED
  BY <1>1 DEF Current

LEMMA ReadsCurrent ==
    ASSUME TypeInv, NEW r \in Requests, NEW c \in Capsules,
           NEW st \in {"validating", "anchoring", "recordingAi", "savingTally"},
           NEW in \in Decisions \cup AnchorStates \cup Routings \cup {None},
           Reads(r, st, c, in), UNCHANGED tables,
           st = "anchoring" => capsule[c].status = "APPROVED"
    PROVE  Current(r)'
<1>1. req'[r].stage = st /\ req'[r].capsule = c /\ req'[r].seen = capsule[c]
  BY ReadsTyped DEF Stages
<1> QED
  BY <1>1 DEF Current, tables

\* A step that leaves the tables alone.
LEMMA TablesKept ==
    ASSUME MaxInFlight <= 1, TypeInv, SerialInv, UNCHANGED tables, NEW r \in Requests,
           r \in InFlight \/ InFlight = {},
           \A q \in Requests : q # r => req'[q] = req[q], Current(r)'
    PROVE  SerialInv'
<1>1. DecisionOK' /\ SlotHasOneAgent' /\ CustodyChainUnbroken'
  BY DEF SerialInv, DecisionOK, SlotHasOneAgent, SlotRows, Exists, CustodyChainUnbroken, tables
<1> QED
  BY <1>1, StepCurrent

\* A step that writes the row of a capsule and keeps its slot and agent.
LEMMA RowWritten ==
    ASSUME TypeInv, SerialInv, NEW c \in Capsules, Exists(c), NEW row,
           capsule' = [capsule EXCEPT ![c] = row],
           row.status # "ABSENT", row.slot = capsule[c].slot, row.agent = capsule[c].agent,
           row.status \in {"APPROVED", "ANCHORED"} => row.decision = "APPROVED"
    PROVE  DecisionOK' /\ SlotHasOneAgent'
<1>1. capsule'[c] = row /\ \A d \in Capsules : d # c => capsule'[d] = capsule[d]
  BY DEF TypeInv, TypeOK
<1>2. DecisionOK'
  BY <1>1 DEF SerialInv, DecisionOK
<1>3. \A d \in Capsules : /\ Exists(d)' <=> Exists(d)
                          /\ capsule'[d].slot = capsule[d].slot
                          /\ capsule'[d].agent = capsule[d].agent
  BY <1>1 DEF Exists
<1> QED
  BY <1>2, <1>3, SlotsKept DEF SerialInv

\* Reads, calls and moves.
LEMMA QuietSerial ==
    ASSUME MaxInFlight <= 1, TypeInv, SerialInv, NEW r \in Requests,
           \/ \E s \in Slots, a \in Agents : SubmitCheck(r, s, a)
           \/ \E s \in Slots, a \in Agents : SubmitConflict(r, s, a)
           \/ \E c \in Capsules, d \in Decisions : ValidateRead(r, c, d)
           \/ \E c \in Capsules, s \in AnchorStates : AnchoredRead(r, c, s)
           \/ \E c \in Capsules, d \in Routings : AiResultRead(r, c, d)
           \/ \E c \in Capsules : TallyRead(r, c)
           \/ SubmitStore(r) \/ SubmitTriggerAi(r) \/ ValidateQueueAnchor(r)
           \/ AnchoredLock(r) \/ Rollback(r) \/ Fail(r)
    PROVE  SerialInv'
<1>1. UNCHANGED tables
  BY DEF SubmitCheck, SubmitConflict, ValidateRead, AnchoredRead, AiResultRead, TallyRead,
         SubmitStore, SubmitTriggerAi, ValidateQueueAnchor, AnchoredLock, Rollback, Fail
<1>2. r \in InFlight \/ InFlight = {}
  <2>1. CASE \E e : Begins(r, e)
    BY <2>1, BeginsAlone DEF SerialInv
  <2>2. CASE SubmitStore(r) \/ SubmitTriggerAi(r) \/ ValidateQueueAnchor(r) \/ AnchoredLock(r)
             \/ Rollback(r)
    BY <2>2 DEF SubmitStore, SubmitTriggerAi, ValidateQueueAnchor, AnchoredLock, Rollback,
                Refuses, Writes, InFlight
  <2> QED
    BY <2>1, <2>2 DEF SubmitCheck, SubmitConflict, ValidateRead, AnchoredRead, AiResultRead,
       TallyRead, Fail
<1>3. \A q \in Requests : q # r => req'[q] = req[q]
  BY DEF SubmitCheck, SubmitConflict, ValidateRead, AnchoredRead, AiResultRead, TallyRead,
         SubmitStore, SubmitTriggerAi, ValidateQueueAnchor, AnchoredLock, Rollback, Fail,
         Reads, Ends, MovesTo, TypeInv, TypeOK
<1>4. Current(r)'
  <2>1. CASE \E s \in Slots, a \in Agents : SubmitCheck(r, s, a)
    <3>1. PICK s \in Slots, a \in Agents : SubmitCheck(r, s, a)
      BY <2>1
    <3>2. req'[r].stage = "checked" /\ req'[r].slot = s /\ req'[r].agent = a
      BY <3>1 DEF SubmitCheck, TypeInv, TypeOK
    <3>3. \A c \in SlotRows(s) : capsule[c].agent = a
      BY <3>1 DEF SubmitCheck, NoDuplicate, SerialInv, SlotHasOneAgent, SlotRows
    <3> QED
      BY <1>1, <3>2, <3>3 DEF Current, SlotRows, Exists, tables
  <2>2. CASE SubmitStore(r)
    <3>1. /\ req[r].stage = "checked" /\ req'[r].stage = "stored"
          /\ req'[r].slot = req[r].slot /\ req'[r].agent = req[r].agent
      BY <2>2 DEF SubmitStore, MovesTo, TypeInv, TypeOK, Request
    <3> QED
      BY <1>1, <3>1 DEF SerialInv, Current, SlotRows, Exists, tables
  <2>3. ASSUME NEW c \in Capsules, NEW in, NEW st,
               \/ in \in Decisions /\ st = "validating" /\ ValidateRead(r, c, in)
               \/ in \in AnchorStates /\ st = "anchoring" /\ AnchoredRead(r, c, in)
               \/ in \in Routings /\ st = "recordingAi" /\ AiResultRead(r, c, in)
               \/ in = None /\ st = "savingTally" /\ TallyRead(r, c)
        PROVE  Current(r)'
    <3>1. CASE Ends(r, "done")
      BY <3>1, EndsCurrent
    <3>2. CASE Reads(r, st, c, in) /\ (st = "anchoring" => capsule[c].status = "APPROVED")
      BY <1>1, <2>3, <3>2, ReadsCurrent
    <3> QED
      BY <2>3, <3>1, <3>2 DEF ValidateRead, AnchoredRead, AiResultRead, TallyRead
  <2> QED
    BY <2>1, <2>2, <2>3, EndsCurrent DEF SubmitConflict, SubmitTriggerAi, ValidateQueueAnchor,
       AnchoredLock, Rollback, Fail
<1> QED
  BY <1>1, <1>2, <1>3, <1>4, TablesKept

\* What a handler has when it writes: an existing capsule whose row is the one
\* it read, and the status that row carries recorded last.
LEMMA WriterKnows ==
    ASSUME SafeInv, SerialInv, NEW r \in Requests,
           req[r].stage \in {"validating", "anchoring", "recordingAi", "savingTally"}
    PROVE  /\ req[r].capsule \in Capsules /\ Exists(req[r].capsule)
           /\ req[r].seen = capsule[req[r].capsule]
           /\ LastRecorded(custody[req[r].capsule], req[r].seen.status)
           /\ r \in InFlight
BY DEF SafeInv, TypeInv, LocalOK, SerialInv, Current, CustodyTailIsStatus, InFlight

LEMMA InsertSerial ==
    ASSUME MaxInFlight <= 1, SafeInv, SafeInv', SerialInv,
           NEW r \in Requests, NEW c \in Capsules, SubmitInsert(r, c)
    PROVE  SerialInv'
<1>1. /\ req'[r].stage = "inserted" /\ r \in InFlight
      /\ \A q \in Requests : q # r => req'[q] = req[q]
  BY DEF SubmitInsert, SafeInv, TypeInv, TypeOK, InFlight
<1>2. Current(r)'
  BY <1>1, EndsCurrent DEF SafeInv
<1>3. /\ capsule'[c].status = "UPLOADED" /\ capsule'[c].slot = req[r].slot
      /\ capsule'[c].agent = req[r].agent
      /\ \A d \in Capsules : d # c => capsule'[d] = capsule[d]
  BY DEF SubmitInsert, SafeInv, TypeInv, TypeOK
<1>4. DecisionOK'
  BY <1>3 DEF SerialInv, DecisionOK
<1>5. SlotHasOneAgent'
  <2>1. \A d \in SlotRows(req[r].slot) : capsule[d].agent = req[r].agent
    BY DEF SubmitInsert, SerialInv, Current
  <2>2. \A s : SlotRows(s)' \subseteq SlotRows(s) \cup {c}
    BY <1>3 DEF SlotRows, Exists
  <2>3. \A s : c \in SlotRows(s)' => s = req[r].slot
    BY <1>3 DEF SlotRows
  <2>4. ASSUME NEW s \in Slots, NEW d \in SlotRows(s)'
        PROVE  \/ d = c /\ s = req[r].slot
               \/ d \in SlotRows(s) /\ capsule'[d].agent = capsule[d].agent
    <3>1. d \in Capsules
      BY DEF SlotRows
    <3>2. d = c \/ d \in SlotRows(s)
      BY <2>2
    <3> QED
      BY <1>3, <2>3, <3>1, <3>2
  <2> QED
    BY <1>3, <2>1, <2>4 DEF SerialInv, SlotHasOneAgent
<1>6. CustodyChainUnbroken'
  <2> DEFINE log == <<Log("CREATED", None, "CAPTURED"), Log("UPLOADED", "CAPTURED", "UPLOADED"),
                      Log("HASH_VERIFIED", None, None)>>
  <2>1. custody'[c] = log /\ \A d \in Capsules : d # c => custody'[d] = custody[d]
    BY DEF SubmitInsert, SafeInv, TypeInv, TypeOK
  <2>2. log \in Seq(Event) /\ Len(log) = 3
    <3>1. custody'[c] \in Seq(Event)
      BY DEF SafeInv, TypeInv, TypeOK
    <3> QED BY <2>1, <3>1
  <2>3. log[1].new = "CAPTURED" /\ log[1].prev = None /\ log[2].prev = "CAPTURED" /\ log[3].prev = None
    BY DEF Log
  <2>4. ASSUME NEW j \in 1 .. Len(log), log[j].prev # None
        PROVE  LastRecorded(SubSeq(log, 1, j - 1), log[j].prev)
    <3>1. j = 2
      <4> HIDE DEF log
      <4> QED BY <2>2, <2>3, <2>4
    <3>2. \E i \in 1 .. j - 1 : /\ log[i].new = log[j].prev
                                /\ \A k \in i + 1 .. j - 1 : log[k].new = None
      <4> HIDE DEF log
      <4> QED BY <2>3, <3>1
    <3> QED
      <4> HIDE DEF log
      <4> QED BY <2>2, <3>2, RecordedBefore
  <2> QED
    <3> HIDE DEF log
    <3> QED BY <2>1, <2>4 DEF SerialInv, CustodyChainUnbroken
<1> QED
  BY <1>1, <1>2, <1>4, <1>5, <1>6, StepCurrent DEF SafeInv

LEMMA CommitSerial ==
    ASSUME MaxInFlight <= 1, SafeInv, SafeInv', SerialInv, NEW r \in Requests,
           ValidateCommit(r) \/ AnchoredCommit(r) \/ AiResultCommit(r)
    PROVE  SerialInv'
<1>1. /\ req[r].capsule \in Capsules /\ Exists(req[r].capsule) /\ r \in InFlight
      /\ req[r].seen = capsule[req[r].capsule]
      /\ LastRecorded(custody[req[r].capsule], req[r].seen.status)
  BY WriterKnows DEF ValidateCommit, AnchoredCommit, AiResultCommit
<1>2. /\ \A q \in Requests : q # r => req'[q] = req[q]
      /\ Current(r)'
  <2>1. \A q \in Requests : q # r => req'[q] = req[q]
    BY DEF ValidateCommit, AnchoredCommit, AiResultCommit, MovesTo, Ends, SafeInv, TypeInv, TypeOK
  <2>2. Current(r)'
    BY EndsCurrent DEF ValidateCommit, AnchoredCommit, AiResultCommit, SafeInv
  <2> QED
    BY <2>1, <2>2
<1>3. PICK c \in Capsules : c = req[r].capsule
  BY <1>1
<1>4. TypeOK /\ TypeOK' /\ TypeInv /\ CustodyChainUnbroken
  BY DEF SafeInv, TypeInv, SerialInv
<1>5. req[r].seen.status \in Statuses /\ capsule[c] \in Row
  BY <1>3, <1>4 DEF TypeOK, Request, Row
<1>6. CASE ValidateCommit(r)
  <2> DEFINE d == req[r].input
             row == [capsule[c] EXCEPT !.status = StatusAfter(d), !.decision = d]
             e == Log(CustodyTypeOf(d), req[r].seen.status, StatusAfter(d))
  <2>1. d \in Decisions
    BY <1>6 DEF ValidateCommit, SafeInv, TypeInv, LocalOK
  <2>2. /\ StatusAfter(d) \in Statuses \ {"ABSENT"} /\ CustodyTypeOf(d) \in EventTypes
        /\ StatusAfter(d) # "ANCHORED" /\ (StatusAfter(d) = "APPROVED" => d = "APPROVED")
    BY <2>1 DEF StatusAfter, CustodyTypeOf, Statuses, EventTypes, Decisions
  <2>3. capsule' = [capsule EXCEPT ![c] = row]
    BY <1>3, <1>6 DEF ValidateCommit
  <2>4. /\ row.status = StatusAfter(d) /\ row.decision = d
        /\ row.slot = capsule[c].slot /\ row.agent = capsule[c].agent
    BY <1>5 DEF Row
  <2>5. DecisionOK' /\ SlotHasOneAgent'
    <3> HIDE DEF row
    <3> QED BY <1>1, <1>3, <1>4, <2>2, <2>3, <2>4, RowWritten
  <2>6. e \in Event /\ e.prev = req[r].seen.status /\ Logs(c, e)
    BY <1>3, <1>5, <1>6, <2>2, LogTyped DEF ValidateCommit, Log
  <2>7. CustodyChainUnbroken'
    <3> HIDE DEF e
    <3> QED BY <1>1, <1>3, <1>4, <2>6, ChainExtended
  <2> QED
    BY <1>1, <1>2, <1>4, <2>5, <2>7, StepCurrent
<1>7. CASE AnchoredCommit(r)
  <2> DEFINE row == [capsule[c] EXCEPT !.status = "ANCHORED", !.anchor = req[r].input]
             e == Log("TRUST_ANCHORED", "APPROVED", "ANCHORED")
  <2>1. capsule[c].status = "APPROVED" /\ capsule[c].decision = "APPROVED"
    BY <1>1, <1>3, <1>7 DEF AnchoredCommit, SerialInv, Current, DecisionOK
  <2>2. capsule' = [capsule EXCEPT ![c] = row]
    BY <1>3, <1>7 DEF AnchoredCommit
  <2>3. /\ row.status = "ANCHORED" /\ row.decision = "APPROVED"
        /\ row.slot = capsule[c].slot /\ row.agent = capsule[c].agent
    BY <1>5, <2>1 DEF Row
  <2>4. DecisionOK' /\ SlotHasOneAgent'
    <3> HIDE DEF row
    <3> QED BY <1>1, <1>3, <1>4, <2>2, <2>3, RowWritten
  <2>5. e \in Event /\ e.prev = "APPROVED" /\ Logs(c, e)
    BY <1>3, <1>7, LogTyped DEF AnchoredCommit, Log, EventTypes, Statuses
  <2>6. CustodyChainUnbroken'
    <3> HIDE DEF e
    <3> QED BY <1>1, <1>3, <1>4, <2>1, <2>5, ChainExtended
  <2> QED
    BY <1>1, <1>2, <1>4, <2>4, <2>6, StepCurrent
<1>8. CASE AiResultCommit(r)
  <2> DEFINE f == req[r].input \in {"ESCALATE", "MANUAL_REVIEW"}
             row == [capsule[c] EXCEPT !.status = "PENDING_VALIDATION", !.flagged = f]
             e == Log("AI_COMPLETED", req[r].seen.status, "PENDING_VALIDATION")
  <2>1. capsule' = [capsule EXCEPT ![c] = row]
    BY <1>3, <1>8 DEF AiResultCommit
  <2>2. /\ row.status = "PENDING_VALIDATION"
        /\ row.slot = capsule[c].slot /\ row.agent = capsule[c].agent
    <3> HIDE DEF f
    <3> QED BY <1>5 DEF Row
  <2>3. DecisionOK' /\ SlotHasOneAgent'
    <3> HIDE DEF row
    <3> QED BY <1>1, <1>3, <1>4, <2>1, <2>2, RowWritten
  <2>4. e \in Event /\ e.prev = req[r].seen.status /\ Logs(c, e)
    BY <1>3, <1>5, <1>8, LogTyped DEF AiResultCommit, Log, EventTypes, Statuses
  <2>5. CustodyChainUnbroken'
    <3> HIDE DEF e
    <3> QED BY <1>1, <1>3, <1>4, <2>4, ChainExtended
  <2> QED
    BY <1>1, <1>2, <1>4, <2>3, <2>5, StepCurrent
<1> QED
  BY <1>6, <1>7, <1>8

LEMMA SaveSerial ==
    ASSUME MaxInFlight <= 1, SafeInv, SerialInv, NEW r \in Requests,
           TallySave(r) \/ \E c \in Capsules, y \in SyncStates : SyncUpdate(r, c, y)
    PROVE  SerialInv'
<1>1. /\ \A q \in Requests : q # r => req'[q] = req[q]
      /\ Current(r)' /\ UNCHANGED custody
  <2>1. \A q \in Requests : q # r => req'[q] = req[q]
    BY DEF TallySave, SyncUpdate, Ends, SafeInv, TypeInv, TypeOK
  <2>2. Current(r)'
    BY EndsCurrent DEF TallySave, SyncUpdate, SafeInv
  <2> QED
    BY <2>1, <2>2 DEF TallySave, SyncUpdate
<1>2. CustodyChainUnbroken'
  BY <1>1 DEF SerialInv, CustodyChainUnbroken
<1>3. CASE TallySave(r)
  <2>1. PICK c \in Capsules : c = req[r].capsule
    BY <1>3, WriterKnows DEF TallySave
  <2> DEFINE row == [req[r].seen EXCEPT !.tally = r]
  <2>2. Exists(c) /\ req[r].seen = capsule[c] /\ r \in InFlight
    BY <1>3, <2>1, WriterKnows DEF TallySave
  <2>3. capsule' = [capsule EXCEPT ![c] = row]
    BY <1>3, <2>1 DEF TallySave
  <2>4. /\ row.status = capsule[c].status /\ row.decision = capsule[c].decision
        /\ row.slot = capsule[c].slot /\ row.agent = capsule[c].agent
    BY <2>2 DEF SafeInv, TypeInv, TypeOK, Row
  <2>5. DecisionOK' /\ SlotHasOneAgent'
    <3>1. row.status \in {"APPROVED", "ANCHORED"} => row.decision = "APPROVED"
      BY <2>4 DEF SerialInv, DecisionOK
    <3>2. row.status # "ABSENT"
      BY <2>2, <2>4 DEF Exists
    <3> HIDE DEF row
    <3> QED BY <2>2, <2>3, <2>4, <3>1, <3>2, RowWritten DEF SafeInv
  <2> QED
    BY <1>1, <1>2, <2>2, <2>5, StepCurrent DEF SafeInv
<1>4. ASSUME NEW c \in Capsules, NEW y \in SyncStates, SyncUpdate(r, c, y)
      PROVE  SerialInv'
  <2> DEFINE n == capsule[c].attempts + 1
             row == [capsule[c] EXCEPT !.sync = y, !.attempts = n]
  <2>1. InFlight = {} /\ Exists(c)
    BY <1>4, BeginsAlone DEF SyncUpdate, SerialInv
  <2>2. capsule' = [capsule EXCEPT ![c] = row]
    BY <1>4 DEF SyncUpdate
  <2>3. /\ row.status = capsule[c].status /\ row.decision = capsule[c].decision
        /\ row.slot = capsule[c].slot /\ row.agent = capsule[c].agent
    <3> HIDE DEF n
    <3> QED BY DEF SafeInv, TypeInv, TypeOK, Row
  <2>4. DecisionOK' /\ SlotHasOneAgent'
    <3>1. row.status \in {"APPROVED", "ANCHORED"} => row.decision = "APPROVED"
      BY <2>3 DEF SerialInv, DecisionOK
    <3>2. row.status # "ABSENT"
      BY <2>1, <2>3 DEF Exists
    <3> HIDE DEF row
    <3> QED BY <2>1, <2>2, <2>3, <3>1, <3>2, RowWritten DEF SafeInv
  <2> QED
    BY <1>1, <1>2, <2>1, <2>4, StepCurrent DEF SafeInv
<1> QED
  BY <1>3, <1>4

LEMMA NextSerial ==
    ASSUME MaxInFlight <= 1, SafeInv, SafeInv', SerialInv, [Next]_vars
    PROVE  SerialInv'
<1>1. CASE UNCHANGED vars \/ Idle
  BY <1>1 DEF vars, Idle, SerialInv, Alone, InFlight, Current, SlotRows, Exists, DecisionOK,
              SlotHasOneAgent, CustodyChainUnbroken
<1>2. ASSUME NEW r \in Requests, Apps(r) \/ Fail(r)
      PROVE  SerialInv'
  BY <1>2, QuietSerial, SaveSerial DEF Apps, SafeInv
<1>3. ASSUME NEW r \in Requests, Callbacks(r)
      PROVE  SerialInv'
  BY <1>3, QuietSerial DEF Callbacks, SafeInv, TypeInv, TypeOK
<1>4. ASSUME NEW r \in Requests, Continue(r)
      PROVE  SerialInv'
  BY <1>4, QuietSerial, InsertSerial, CommitSerial, SaveSerial DEF Continue, SafeInv
<1> QED
  BY <1>1, <1>2, <1>3, <1>4 DEF Next

LEMMA SerialHolds == ASSUME MaxInFlight <= 1 PROVE Spec => []SerialInv
<1>1. Init => SerialInv
  BY InitSerial
<1>2. SafeInv /\ SafeInv' /\ SerialInv /\ [Next]_vars => SerialInv'
  BY NextSerial
<1> QED
  BY <1>1, <1>2, Safe, PTL DEF Spec

\* Served one after the other, handlers anchor only capsules whose latest
\* human decision was to approve them.  Overlapping handlers may anchor a
\* capsule whose approval was overtaken by a later decision.
THEOREM AnchoredWasApprovedHolds ==
    ASSUME MaxInFlight <= 1 PROVE Spec => []AnchoredWasApproved
<1>1. SerialInv => AnchoredWasApproved
  BY DEF SerialInv, DecisionOK, AnchoredWasApproved
<1> QED
  BY <1>1, SerialHolds, PTL

\* Served one after the other, checkDuplicate keeps a slot to one agent.  Two
\* overlapping submissions may both pass it.
THEOREM OneAgentHolds == ASSUME MaxInFlight <= 1 PROVE Spec => []SlotHasOneAgent
BY SerialHolds, PTL DEF SerialInv

\* Served one after the other, handlers log no status change that does not
\* start where the one before it ended.
THEOREM ChainHolds == ASSUME MaxInFlight <= 1 PROVE Spec => []CustodyChainUnbroken
BY SerialHolds, PTL DEF SerialInv

------------------------------------------------------------------------------
(* What other services read of the tables *)

\* Figures are entered for rows only, and a capsule that is about to be decided
\* on or anchored was routed to a validator once, which cannot be undone.
RoutedInv ==
    /\ \A c \in Capsules :
         /\ capsule[c].status \in View!Routed \cup {"ABSENT", "UPLOADED"}
         /\ ~Exists(c) => capsule[c].tally = None
    /\ \A r \in Requests : req[r].stage \in {"validating", "anchoring"} =>
         capsule[req[r].capsule].status \in View!Routed
    /\ \A r \in Requests : req[r].stage = "savingTally" => req[r].seen.status \in TallyStatuses

LEMMA InitRouted == Init => RoutedInv
BY DEF Init, RoutedInv, NoRow, Blank

\* What a step may do to a row, as its readers see it.
RowSubmitted(c) == ~Exists(c) /\ capsule'[c].status = "UPLOADED"

RowRouted(c) == Exists(c) /\ capsule'[c].status = "PENDING_VALIDATION"

RowDecided(c) ==
    /\ capsule[c].status \in View!Routed
    /\ capsule'[c].status \in {"PENDING_VALIDATION", "APPROVED", "REJECTED"}

RowAnchored(c) == capsule[c].status \in View!Routed /\ capsule'[c].status = "ANCHORED"

RowTallied(c) ==
    /\ capsule[c].status \in View!Tallied
    /\ capsule'[c].status = capsule[c].status
    /\ capsule'[c].tally \in Requests

\* Rows change one at a time.
OneRow(c) == \A d \in Capsules : d # c => capsule'[d] = capsule[d]

RowsSeen ==
    \/ \A c \in Capsules : /\ capsule'[c].status = capsule[c].status
                           /\ capsule'[c].tally = capsule[c].tally
    \/ \E c \in Capsules : /\ OneRow(c) /\ capsule'[c].tally = capsule[c].tally
                           /\ RowSubmitted(c) \/ RowRouted(c) \/ RowDecided(c) \/ RowAnchored(c)
    \/ \E c \in Capsules : OneRow(c) /\ RowTallied(c)

LEMMA RowsMove ==
    ASSUME SafeInv, RoutedInv, [Next]_vars PROVE RowsSeen
<1>1. TypeOK /\ TypeInv
  BY DEF SafeInv, TypeInv
<1>2. CASE UNCHANGED capsule
  BY <1>2 DEF RowsSeen
<1>3. ASSUME NEW r \in Requests, NEW c \in Capsules, SubmitInsert(r, c) PROVE RowsSeen
  <2>1. OneRow(c) /\ capsule'[c].tally = None /\ RowSubmitted(c)
    BY <1>1, <1>3 DEF SubmitInsert, TypeOK, OneRow, RowSubmitted
  <2> QED
    BY <2>1 DEF RowsSeen, RoutedInv, RowSubmitted
<1>4. ASSUME NEW r \in Requests, NEW c \in Capsules, NEW y \in SyncStates, SyncUpdate(r, c, y)
      PROVE  RowsSeen
  BY <1>1, <1>4 DEF SyncUpdate, TypeOK, Row, RowsSeen
<1>5. ASSUME NEW r \in Requests, ValidateCommit(r) PROVE RowsSeen
  <2> DEFINE c == req[r].capsule
  <2>1. c \in Capsules /\ capsule[c].status \in View!Routed
    BY <1>1, <1>5 DEF ValidateCommit, TypeInv, LocalOK, RoutedInv
  <2>2. /\ OneRow(c) /\ capsule'[c].tally = capsule[c].tally
        /\ capsule'[c].status = StatusAfter(req[r].input)
    BY <1>1, <1>5, <2>1 DEF ValidateCommit, TypeOK, Row, OneRow
  <2> QED
    BY <2>1, <2>2 DEF RowsSeen, RowDecided, StatusAfter
<1>6. ASSUME NEW r \in Requests, AiResultCommit(r) PROVE RowsSeen
  <2> DEFINE c == req[r].capsule
  <2>1. c \in Capsules /\ Exists(c)
    BY <1>1, <1>6 DEF AiResultCommit, TypeInv, LocalOK
  <2>2. /\ OneRow(c) /\ capsule'[c].tally = capsule[c].tally
        /\ capsule'[c].status = "PENDING_VALIDATION"
    BY <1>1, <1>6, <2>1 DEF AiResultCommit, TypeOK, Row, OneRow
  <2> QED
    BY <2>1, <2>2 DEF RowsSeen, RowRouted
<1>7. ASSUME NEW r \in Requests, AnchoredCommit(r) PROVE RowsSeen
  <2> DEFINE c == req[r].capsule
  <2>1. c \in Capsules /\ capsule[c].status \in View!Routed
    BY <1>1, <1>7 DEF AnchoredCommit, TypeInv, LocalOK, RoutedInv
  <2>2. /\ OneRow(c) /\ capsule'[c].tally = capsule[c].tally
        /\ capsule'[c].status = "ANCHORED"
    BY <1>1, <1>7, <2>1 DEF AnchoredCommit, TypeOK, Row, OneRow
  <2> QED
    BY <2>1, <2>2 DEF RowsSeen, RowAnchored
<1>8. ASSUME NEW r \in Requests, TallySave(r) PROVE RowsSeen
  <2> DEFINE c == req[r].capsule
  <2>1. /\ c \in Capsules /\ req[r].seen \in Row
        /\ req[r].seen.status = capsule[c].status
    BY <1>1, <1>8 DEF TallySave, Refuses, SafeInv, TypeInv, TypeOK, LocalOK, ReadOK, Request
  <2>2. capsule[c].status \in View!Tallied
    BY <1>8, <2>1 DEF TallySave, RoutedInv, TallyStatuses, View!Routed, View!Tallied
  <2>3. /\ OneRow(c) /\ capsule'[c].status = capsule[c].status /\ capsule'[c].tally = r
    BY <1>1, <1>8, <2>1 DEF TallySave, TypeOK, Row, OneRow
  <2> QED
    BY <2>1, <2>2, <2>3 DEF RowsSeen, RowTallied
<1>9. ASSUME NEW r \in Requests, Apps(r) \/ Callbacks(r) \/ Fail(r)
      PROVE  \/ UNCHANGED capsule
             \/ \E c \in Capsules, y \in SyncStates : SyncUpdate(r, c, y)
  BY <1>9 DEF Apps, Callbacks, Fail, SubmitCheck, SubmitConflict, ValidateRead, TallyRead,
       AiResultRead, AnchoredRead, tables
<1>10. ASSUME NEW r \in Requests, Continue(r)
       PROVE  \/ UNCHANGED capsule
              \/ \E c \in Capsules : SubmitInsert(r, c)
              \/ ValidateCommit(r) \/ AiResultCommit(r) \/ AnchoredCommit(r) \/ TallySave(r)
  BY <1>10 DEF Continue, SubmitStore, SubmitTriggerAi, ValidateQueueAnchor, AnchoredLock,
       Rollback, tables
<1> QED
  BY <1>2, <1>3, <1>4, <1>5, <1>6, <1>7, <1>8, <1>9, <1>10 DEF Next, Idle, vars

\* Only a row that was routed is decided on, anchored or read as such, and it
\* stays one that was routed.
LEMMA NextRouted ==
    ASSUME SafeInv, RoutedInv, [Next]_vars PROVE RoutedInv'
<1>1. TypeInv /\ RowsSeen
  BY RowsMove DEF SafeInv
<1>2. ASSUME NEW c \in Capsules
      PROVE  /\ capsule'[c].status \in View!Routed \cup {"ABSENT", "UPLOADED"}
             /\ capsule[c].status \in View!Routed => capsule'[c].status \in View!Routed
             /\ ~Exists(c)' => capsule'[c].tally = None
  <2>1. capsule[c].status \in View!Routed \cup {"ABSENT", "UPLOADED"}
    BY DEF RoutedInv
  <2>2. /\ capsule'[c].status \in View!Routed \cup {"ABSENT", "UPLOADED"}
        /\ capsule[c].status \in View!Routed => capsule'[c].status \in View!Routed
    BY <1>1, <2>1 DEF RowsSeen, OneRow, RowSubmitted, RowRouted, RowDecided, RowAnchored, RowTallied,
       Exists, View!Routed
  <2>3. Exists(c) => Exists(c)'
    BY RowsStay, <1>1
  <2>4. ~Exists(c) /\ ~Exists(c)' => capsule'[c].tally = capsule[c].tally
    BY <1>1 DEF RowsSeen, OneRow, RowSubmitted, RowRouted, RowDecided, RowAnchored, RowTallied,
       Exists, View!Routed, View!Tallied
  <2> QED
    BY <2>2, <2>3, <2>4 DEF RoutedInv
<1>3. ASSUME NEW r \in Requests, req'[r].stage \in {"validating", "anchoring"}
      PROVE  capsule'[req'[r].capsule].status \in View!Routed
  <2>1. CASE req'[r] = req[r]
    <3>1. req[r].capsule \in Capsules /\ capsule[req[r].capsule].status \in View!Routed
      BY <1>1, <1>3, <2>1 DEF RoutedInv, TypeInv, LocalOK
    <3> QED
      BY <1>2, <2>1, <3>1
  <2>2. CASE req'[r] # req[r]
    <3>1. PICK c \in Capsules :
            /\ c = req'[r].capsule /\ UNCHANGED tables
            /\ \/ \E d \in Decisions : ValidateRead(r, c, d)
               \/ \E s \in AnchorStates : AnchoredRead(r, c, s)
               \/ \E s \in Routings : AiResultRead(r, c, s)
               \/ TallyRead(r, c)
      BY <1>1, <1>3, <2>2, LocalsStep
    <3>2. req \in [Requests -> Request]
      BY <1>1 DEF TypeInv, TypeOK
    <3>3. /\ ~ \E s \in Routings : AiResultRead(r, c, s)
          /\ ~ TallyRead(r, c)
      BY <1>3, <3>2 DEF AiResultRead, TallyRead, Reads, Ends, Blank
    <3>4. capsule[c].status \in {"PENDING_VALIDATION", "APPROVED"}
      BY <1>3, <3>1, <3>2, <3>3 DEF ValidateRead, AnchoredRead, Ends, Blank
    <3> QED
      BY <3>1, <3>4 DEF tables, View!Routed
  <2> QED
    BY <2>1, <2>2
<1>4. ASSUME NEW r \in Requests, req'[r].stage = "savingTally"
      PROVE  req'[r].seen.status \in TallyStatuses
  <2>1. CASE req'[r] = req[r]
    BY <1>4, <2>1 DEF RoutedInv
  <2>2. CASE req'[r] # req[r]
    <3>1. PICK c \in Capsules :
            /\ req'[r].seen = capsule[c]
            /\ \/ \E d \in Decisions : ValidateRead(r, c, d)
               \/ \E s \in AnchorStates : AnchoredRead(r, c, s)
               \/ \E s \in Routings : AiResultRead(r, c, s)
               \/ TallyRead(r, c)
      BY <1>1, <1>4, <2>2, LocalsStep
    <3>2. req \in [Requests -> Request]
      BY <1>1 DEF TypeInv, TypeOK
    <3>3. TallyRead(r, c)
      BY <1>4, <3>1, <3>2 DEF ValidateRead, AnchoredRead, AiResultRead, Reads, Ends, Blank
    <3> QED
      BY <1>4, <3>1, <3>2, <3>3 DEF TallyRead, Ends, Blank
  <2> QED
    BY <2>1, <2>2
<1> QED
  BY <1>2, <1>3, <1>4 DEF RoutedInv

LEMMA StatusSet ==
    ASSUME TypeOK, TypeOK', NEW c \in Capsules, OneRow(c), capsule'[c].tally = capsule[c].tally,
           NEW status, capsule'[c].status = status
    PROVE  View!SetStatus(c, status)
BY DEF TypeOK, OneRow, View!SetStatus

LEMMA StepServes ==
    ASSUME SafeInv, SafeInv', RoutedInv, [Next]_vars
    PROVE  [View!EvidenceNext]_(View!evidenceVars)
<1>1. TypeOK /\ TypeOK' /\ RowsSeen
  BY RowsMove DEF SafeInv, TypeInv
<1>2. CASE \A c \in Capsules : /\ capsule'[c].status = capsule[c].status
                              /\ capsule'[c].tally = capsule[c].tally
  BY <1>2 DEF View!evidenceVars
<1>3. ASSUME NEW c \in Capsules, OneRow(c), capsule'[c].tally = capsule[c].tally,
             RowSubmitted(c) \/ RowRouted(c) \/ RowDecided(c) \/ RowAnchored(c)
      PROVE  View!EvidenceNext
  <2>1. [d \in Capsules |-> capsule[d].status][c] = capsule[c].status
    OBVIOUS
  <2>2. CASE RowSubmitted(c)
    <3>1. View!SetStatus(c, "UPLOADED")
      BY <1>1, <1>3, <2>2, StatusSet DEF RowSubmitted
    <3>2. View!Submit(c)
      BY <2>1, <2>2, <3>1 DEF RowSubmitted, Exists, View!Submit
    <3> QED
      BY <3>2 DEF View!EvidenceNext, View!Moves
  <2>3. CASE RowRouted(c)
    <3>1. View!SetStatus(c, "PENDING_VALIDATION")
      BY <1>1, <1>3, <2>3, StatusSet DEF RowRouted
    <3>2. View!Route(c)
      BY <2>1, <2>3, <3>1 DEF RowRouted, Exists, View!Route
    <3> QED
      BY <3>2 DEF View!EvidenceNext, View!Moves
  <2>4. CASE RowDecided(c)
    <3>1. PICK status \in {"PENDING_VALIDATION", "APPROVED", "REJECTED"} : capsule'[c].status = status
      BY <2>4 DEF RowDecided
    <3>2. View!SetStatus(c, status)
      BY <1>1, <1>3, <3>1, StatusSet
    <3>3. View!Decide(c)
      BY <2>1, <2>4, <3>2 DEF RowDecided, View!Decide
    <3> QED
      BY <3>3 DEF View!EvidenceNext, View!Moves
  <2>5. CASE RowAnchored(c)
    <3>1. View!SetStatus(c, "ANCHORED")
      BY <1>1, <1>3, <2>5, StatusSet DEF RowAnchored
    <3>2. View!Anchor(c)
      BY <2>1, <2>5, <3>1 DEF RowAnchored, View!Anchor
    <3> QED
      BY <3>2 DEF View!EvidenceNext, View!Moves
  <2> QED
    BY <1>3, <2>2, <2>3, <2>4, <2>5
<1>4. ASSUME NEW c \in Capsules, OneRow(c), RowTallied(c)
      PROVE  View!EvidenceNext
  <2>1. PICK r \in Requests : capsule'[c].tally = r /\ r # None
    BY <1>4, NoneIsNoRequest DEF RowTallied
  <2>2. View!EnterTally(<<r, c>>)
    BY <1>1, <1>4, <2>1 DEF TypeOK, OneRow, RowTallied, View!EnterTally
  <2> QED
    BY <2>1, <2>2 DEF View!EvidenceNext
<1> QED
  BY <1>1, <1>2, <1>3, <1>4 DEF RowsSeen

\* To those who read its tables, the Evidence Service with any number of
\* overlapping handlers is what the Reporting Service and the reconciliation
\* are proved against.
THEOREM ServesReadersHolds == Spec => ServesReaders
<1>1. Init => View!EvidenceInit
  BY DEF Init, NoRow, View!EvidenceInit
<1>2. SafeInv /\ RoutedInv /\ [Next]_vars => RoutedInv'
  BY NextRouted
<1>3. SafeInv /\ SafeInv' /\ RoutedInv /\ [Next]_vars => [View!EvidenceNext]_(View!evidenceVars)
  BY StepServes
<1> QED
  BY <1>1, <1>2, <1>3, InitRouted, Safe, PTL DEF Spec, ServesReaders, View!EvidenceSpec

==============================================================================
