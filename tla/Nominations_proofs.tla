------------------------- MODULE Nominations_proofs -------------------------
(***************************************************************************)
(* Proofs about ElectionCalendar and Nominations, for every set of         *)
(* elections, candidates and requests, however the requests overlap.       *)
(***************************************************************************)
EXTENDS Nominations, SequenceTheorems, TLAPS

-----------------------------------------------------------------------------
(* Elections: types and the inductive invariant *)

ElectionRow == [status : Statuses, active : BOOLEAN]

Requests == Updates \cup Openings

ClearRow == [stage : {"clear"}, election : Elections, checked : BOOLEAN, found : SUBSET Elections]
FindRow == [stage : {"find"}, election : Elections, checked : BOOLEAN, cleared : SUBSET Elections]
LoadRow == [stage : {"load"}, election : Elections, cleared : SUBSET Elections,
            entity : ElectionRow]
WriteRow == [stage : {"write"}, election : Elections, cleared : SUBSET Elections,
             entity : ElectionRow, loaded : ElectionRow]

CalendarTypeOK ==
    /\ election \in [Elections -> ElectionRow]
    /\ request \in [Requests -> ClearRow \cup FindRow \cup LoadRow \cup WriteRow \cup {Idle, Over}]
    /\ opened \in [Elections -> Requests \cup {Nobody}]
    /\ during \in [Requests -> SUBSET Requests]

Running(r) == request[r] \notin {Idle, Over}

\* A request not begun has left no trace; requests in progress overlap; the
\* flag of an active election was given by a request.
HistoryInv ==
    /\ \A r \in Requests : request[r] = Idle =>
         during[r] = {} /\ \A e \in Elections : opened[e] # r
    /\ \A p, q \in Requests : Running(p) /\ Running(q) => Overlapped(p, q)
    /\ \A e \in Elections : election[e].active => opened[e] # Nobody

\* The elections whose flag an opening takes away, as far as it knows them.
Taken(r) == IF request[r].stage = "clear" THEN request[r].found ELSE Cleared(r)

\* An active election that an opening does not take the flag from, though it
\* is of the same tenant, was opened while the opening was in progress.
OpeningInv ==
    \A q \in Requests \ Updates, a \in Elections :
        /\ Running(q)
        /\ TenantOf[a] = TenantOf[request[q].election]
        /\ election[a].active /\ opened[a] \notin Updates
        /\ a \notin Taken(q)
        => Overlapped(opened[a], q)

CalendarInv == CalendarTypeOK /\ HistoryInv /\ OpeningInv /\ OneActiveUnlessUpdated

-----------------------------------------------------------------------------
(* Elections: lemmas *)

\* The columns of a merged row.
LEMMA MergedElection ==
    ASSUME NEW entity \in ElectionRow, NEW loaded \in ElectionRow, NEW stored \in ElectionRow
    PROVE  /\ Merged(entity, loaded, stored) \in ElectionRow
           /\ Merged(entity, loaded, stored).active =
                IF entity.active # loaded.active THEN entity.active ELSE stored.active
<1>1. DOMAIN stored = {"status", "active"}
  BY DEF ElectionRow
<1>2. Merged(entity, loaded, stored) =
        [status |-> IF entity.status # loaded.status THEN entity.status ELSE stored.status,
         active |-> IF entity.active # loaded.active THEN entity.active ELSE stored.active]
  BY <1>1 DEF Merged
<1> QED
  BY <1>2 DEF ElectionRow

\* The stage tells the kind of a request's row.
LEMMA RequestKinds ==
    ASSUME CalendarTypeOK, NEW r \in Requests
    PROVE  /\ request[r].stage = "clear" => request[r] \in ClearRow /\ Running(r)
           /\ request[r].stage = "find" => request[r] \in FindRow /\ Running(r)
           /\ request[r].stage = "load" => request[r] \in LoadRow /\ Running(r)
           /\ request[r].stage = "write" => request[r] \in WriteRow /\ Running(r)
           /\ Running(r) => request[r].stage \in {"clear", "find", "load", "write"}
           /\ Running(r) => request[r].election \in Elections
           /\ Cleared(r) \subseteq Elections
BY DEF CalendarTypeOK, ClearRow, FindRow, LoadRow, WriteRow, Idle, Over, Running, Cleared

LEMMA RunningRows ==
    ASSUME NEW n \in ClearRow \cup FindRow \cup LoadRow \cup WriteRow
    PROVE  n # Idle /\ n # Over
BY DEF ClearRow, FindRow, LoadRow, WriteRow, Idle, Over

LEMMA SeenElection ==
    ASSUME CalendarTypeOK, NEW r \in Requests, NEW e \in Elections
    PROVE  /\ Seen(r, e) \in ElectionRow
           /\ Seen(r, e).active <=> election[e].active /\ e \notin Cleared(r)
BY DEF CalendarTypeOK, Seen, ElectionRow

\* Overlapped and SavedTogether, for a history given as a value.
Together(p, q, history) == p = q \/ p \in history[q] \/ q \in history[p]

\* What has overlapped stays so.
LEMMA TogetherStays ==
    ASSUME NEW R, NEW before, NEW after, NEW p \in R, NEW q \in R,
           \A r \in R : before[r] \subseteq after[r],
           Together(p, q, before)
    PROVE  Together(p, q, after)
BY DEF Together

-----------------------------------------------------------------------------
(* Elections: the steps *)

LEMMA BeginStep ==
    ASSUME CalendarInv, NEW r \in Requests,
           NEW n \in ClearRow \cup LoadRow,
           Begin(r, n),
           n \in LoadRow => r \in Updates,
           n \in ClearRow => \A a \in Elections :
             TenantOf[a] = TenantOf[n.election] /\ election[a].active => a \in n.found
    PROVE  CalendarInv'
<1> USE DEF CalendarInv
<1>1. /\ request[r] = Idle /\ request' = [request EXCEPT ![r] = n]
      /\ during' = [during EXCEPT ![r] = InProgress(request)]
      /\ election' = election /\ opened' = opened
  BY DEF Begin
<1>2. /\ request'[r] = n /\ \A q \in Requests \ {r} : request'[q] = request[q]
      /\ during'[r] = {q \in Requests : Running(q)}
      /\ \A q \in Requests \ {r} : during'[q] = during[q]
      /\ during[r] = {}
  BY <1>1 DEF CalendarTypeOK, InProgress, HistoryInv, Running
<1>3. CalendarTypeOK'
  BY <1>1, <1>2 DEF CalendarTypeOK
<1>4. \A q \in Requests : during[q] \subseteq during'[q]
  BY <1>2
<1>5. ASSUME NEW p \in Requests, NEW q \in Requests, Running(p)', Running(q)'
      PROVE  Together(p, q, during')
  <2>1. CASE p = q
    BY <2>1 DEF Together
  <2>2. CASE p # q /\ p = r
    BY <1>2, <1>5, <2>2 DEF Together, Running
  <2>3. CASE p # q /\ q = r
    BY <1>2, <1>5, <2>3 DEF Together, Running
  <2>4. CASE p # r /\ q # r
    <3>1. Running(p) /\ Running(q)
      BY <1>2, <1>5, <2>4 DEF Running
    <3> QED
      BY <1>4, <3>1, TogetherStays DEF HistoryInv, Overlapped, Together
  <2> QED
    BY <2>1, <2>2, <2>3, <2>4
<1>6. HistoryInv'
  <2>1. \A q \in Requests : request'[q] = Idle => q # r /\ request[q] = Idle
    BY <1>2, RunningRows
  <2> QED
    BY <1>1, <1>2, <1>5, <2>1 DEF HistoryInv, Overlapped, Together
<1>7. ASSUME NEW q \in Requests \ Updates, NEW a \in Elections,
             Running(q)', TenantOf[a] = TenantOf[request'[q].election],
             election[a].active, opened[a] \notin Updates, a \notin Taken(q)'
      PROVE  Together(opened[a], q, during')
  <2>1. CASE q = r
    <3>1. n \in ClearRow
      BY <2>1
    <3>2. Taken(r)' = n.found
      BY <1>2, <3>1 DEF Taken, ClearRow
    <3> QED
      BY <1>2, <1>7, <2>1, <3>1, <3>2
  <2>2. CASE q # r
    <3>1. Running(q) /\ request'[q] = request[q] /\ Taken(q)' = Taken(q)
      BY <1>2, <1>7, <2>2 DEF Running, Taken, Cleared
    <3>2. Together(opened[a], q, during)
      BY <1>7, <3>1 DEF OpeningInv, Overlapped, Together
    <3>3. opened[a] \in Requests
      BY <1>7 DEF CalendarTypeOK, HistoryInv
    <3> QED
      BY <1>4, <3>2, <3>3, TogetherStays
  <2> QED
    BY <2>1, <2>2
<1>8. OpeningInv'
  BY <1>1, <1>7 DEF OpeningInv, Overlapped, Together
<1>9. OneActiveUnlessUpdated'
  <2> SUFFICES ASSUME NEW a \in Elections, NEW b \in Elections,
                      a # b, TenantOf[a] = TenantOf[b], election[a].active, election[b].active,
                      {opened[a], opened[b]} \cap Updates = {}
               PROVE  Together(opened[a], opened[b], during')
    BY <1>1 DEF OneActiveUnlessUpdated, Overlapped, Together
  <2>1. Together(opened[a], opened[b], during)
    BY DEF OneActiveUnlessUpdated, Overlapped, Together
  <2>2. opened[a] \in Requests /\ opened[b] \in Requests
    BY DEF CalendarTypeOK, HistoryInv
  <2> QED
    BY <1>4, <2>1, <2>2, TogetherStays
<1> QED
  BY <1>3, <1>6, <1>8, <1>9
\* A request goes on or ends, and no election changes.
LEMMA ProceedStep ==
    ASSUME CalendarInv, NEW r \in Requests, NEW n \in FindRow \cup LoadRow \cup WriteRow \cup {Over},
           Running(r), Proceed(r, n),
           n # Over => /\ n.election = request[r].election
                       /\ \A a \in Taken(r) : election[a].active => a \in n.cleared
    PROVE  CalendarInv'
<1> USE DEF CalendarInv
<1>1. /\ request' = [request EXCEPT ![r] = n]
      /\ election' = election /\ opened' = opened /\ during' = during
  BY DEF Proceed
<1>2. /\ request'[r] = n /\ \A q \in Requests \ {r} : request'[q] = request[q]
      /\ request[r] # Idle /\ n # Idle
  <2>1. Over # Idle
    BY DEF Over, Idle
  <2> QED
    BY <1>1, <2>1, RunningRows DEF CalendarTypeOK, Running
<1>3. CalendarTypeOK'
  BY <1>1 DEF CalendarTypeOK
<1>4. HistoryInv'
  <2>1. \A q \in Requests : Running(q)' => Running(q)
    BY <1>2 DEF Running
  <2> QED
    BY <1>1, <1>2, <2>1 DEF HistoryInv, Overlapped
<1>5. ASSUME NEW q \in Requests \ Updates, NEW a \in Elections,
             Running(q)', TenantOf[a] = TenantOf[request'[q].election],
             election[a].active, opened[a] \notin Updates, a \notin Taken(q)'
      PROVE  Overlapped(opened[a], q)
  <2>1. CASE q = r
    <3>1. n \in FindRow \cup LoadRow \cup WriteRow /\ n # Over
      BY <1>2, <1>5, <2>1 DEF Running
    <3>2. Taken(r)' = n.cleared
      BY <1>2, <3>1 DEF Taken, Cleared, FindRow, LoadRow, WriteRow
    <3>3. a \notin Taken(r)
      BY <1>5, <2>1, <3>1, <3>2
    <3> QED
      BY <1>2, <1>5, <2>1, <3>1, <3>3 DEF OpeningInv
  <2>2. CASE q # r
    <3>1. Running(q) /\ request'[q] = request[q] /\ Taken(q)' = Taken(q)
      BY <1>2, <1>5, <2>2 DEF Running, Taken, Cleared
    <3> QED
      BY <1>5, <3>1 DEF OpeningInv
  <2> QED
    BY <2>1, <2>2
<1>6. OpeningInv'
  BY <1>1, <1>5 DEF OpeningInv, Overlapped
<1>7. OneActiveUnlessUpdated'
  BY <1>1 DEF OneActiveUnlessUpdated, Overlapped
<1> QED
  BY <1>3, <1>4, <1>6, <1>7

LEMMA ReadSteps ==
    ASSUME CalendarInv, NEW r \in Requests, NEW e \in Elections,
           \/ \E to \in {"CANCELLED"} \cup {step[2] : step \in Allowed} :
                r \in Updates /\ UpdateRead(r, e, to)
           \/ \E checked \in BOOLEAN : OpenBegin(r, e, checked)
    PROVE  CalendarInv'
<1>1. ASSUME NEW to \in {"CANCELLED"} \cup {step[2] : step \in Allowed},
             r \in Updates, UpdateRead(r, e, to)
      PROVE  CalendarInv'
  <2> DEFINE n == [stage |-> "load", election |-> e, cleared |-> {},
                   entity |-> [status |-> to, active |-> ActiveFlag(to, election[e].active)]]
  <2>1. to \in Statuses /\ election[e].active \in BOOLEAN
    BY DEF Statuses, Allowed, CalendarInv, CalendarTypeOK, ElectionRow
  <2>2. n \in LoadRow
    BY <2>1 DEF LoadRow, ElectionRow, ActiveFlag
  <2>3. n \notin ClearRow
    BY DEF ClearRow
  <2>4. Begin(r, n)
    BY <1>1 DEF UpdateRead
  <2> HIDE DEF n
  <2> QED
    BY <1>1, <2>2, <2>3, <2>4, BeginStep
<1>2. ASSUME NEW checked \in BOOLEAN, OpenBegin(r, e, checked)
      PROVE  CalendarInv'
  <2> DEFINE n == [stage |-> "clear", election |-> e, checked |-> checked,
                   found |-> {x \in Elections : /\ TenantOf[x] = TenantOf[e]
                                                /\ election[x].active}]
  <2>1. n \in ClearRow /\ n \notin LoadRow
    BY DEF ClearRow, LoadRow
  <2>2. \A a \in Elections : TenantOf[a] = TenantOf[n.election] /\ election[a].active => a \in n.found
    OBVIOUS
  <2>3. Begin(r, n)
    BY <1>2 DEF OpenBegin
  <2> HIDE DEF n
  <2> QED
    BY <2>1, <2>2, <2>3, BeginStep
<1> QED
  BY <1>1, <1>2

LEMMA OpeningSteps ==
    ASSUME CalendarInv, NEW r \in Requests,
           OpenClear(r) \/ OpenFind(r) \/ SaveLoad(r) \/ RollBack(r)
    PROVE  CalendarInv'
<1> USE DEF CalendarInv
<1>1. CASE OpenClear(r)
  <2> DEFINE n == [stage |-> "find", election |-> request[r].election,
                   checked |-> request[r].checked,
                   cleared |-> {x \in request[r].found : election[x].active}]
  <2>1. request[r] \in ClearRow /\ Running(r)
    BY <1>1, RequestKinds DEF OpenClear
  <2>2. n \in FindRow /\ n.election = request[r].election
        /\ n.cleared = {x \in request[r].found : election[x].active}
    BY <2>1 DEF ClearRow, FindRow
  <2>3. Taken(r) = request[r].found
    BY <1>1 DEF OpenClear, Taken
  <2>4. Proceed(r, n)
    BY <1>1 DEF OpenClear
  <2> HIDE DEF n
  <2> QED
    BY <2>1, <2>2, <2>3, <2>4, ProceedStep
<1>2. CASE OpenFind(r)
  <2> DEFINE n == [stage |-> "load", election |-> request[r].election, cleared |-> request[r].cleared,
                   entity |-> [status |-> "ACTIVE", active |-> TRUE]]
  <2>1. request[r] \in FindRow /\ Running(r) /\ request[r].stage = "find"
    BY <1>2, RequestKinds DEF OpenFind
  <2>2. n \in LoadRow /\ n.election = request[r].election /\ n.cleared = request[r].cleared
    BY <2>1 DEF FindRow, LoadRow, ElectionRow, Statuses
  <2>3. Taken(r) = request[r].cleared
    BY <2>1 DEF Taken, Cleared
  <2>4. Proceed(r, n)
    BY <1>2 DEF OpenFind
  <2> HIDE DEF n
  <2> QED
    BY <2>1, <2>2, <2>3, <2>4, ProceedStep
<1>3. CASE SaveLoad(r)
  <2> DEFINE n == [stage |-> "write", election |-> request[r].election, cleared |-> request[r].cleared,
                   entity |-> request[r].entity, loaded |-> Seen(r, request[r].election)]
  <2>1. request[r] \in LoadRow /\ Running(r) /\ request[r].stage = "load"
    BY <1>3, RequestKinds DEF SaveLoad
  <2>2. Seen(r, request[r].election) \in ElectionRow
    BY <2>1, SeenElection DEF LoadRow
  <2>3. n \in WriteRow /\ n.election = request[r].election /\ n.cleared = request[r].cleared
    BY <2>1, <2>2 DEF LoadRow, WriteRow
  <2>4. Taken(r) = request[r].cleared
    BY <2>1 DEF Taken, Cleared
  <2>5. Proceed(r, n)
    BY <1>3 DEF SaveLoad
  <2> HIDE DEF n
  <2> QED
    BY <2>1, <2>3, <2>4, <2>5, ProceedStep
<1>4. CASE RollBack(r)
  BY <1>4, ProceedStep DEF RollBack, InProgress, Running
<1> QED
  BY <1>1, <1>2, <1>3, <1>4

\* The commit: whoever is active after it was so before, but for the election
\* that got its flag from this request.
LEMMA CommitFlags ==
    ASSUME CalendarInv, NEW r \in Requests, SaveWrite(r)
    PROVE  /\ election' \in [Elections -> ElectionRow]
           /\ request[r] \in WriteRow /\ Running(r) /\ request[r].stage = "write"
           /\ \A a \in Elections : election'[a].active =>
                \/ opened'[a] = r /\ a = request[r].election
                \/ opened'[a] = opened[a] /\ election[a].active /\ a \notin Taken(r)
           /\ \A a \in Elections : opened'[a] \in {r, opened[a]}
<1> USE DEF CalendarInv
<1> DEFINE q == request[r]
           e == q.election
           merged == Merged(q.entity, q.loaded, Seen(r, e))
<1>1. q \in WriteRow /\ Running(r) /\ q.stage = "write"
  BY RequestKinds DEF SaveWrite
<1>2. e \in Elections /\ q.entity \in ElectionRow /\ q.loaded \in ElectionRow
  BY <1>1 DEF WriteRow
<1>3. \A x \in Elections : Seen(r, x) \in ElectionRow
        /\ (Seen(r, x).active <=> election[x].active /\ x \notin Cleared(r))
  BY SeenElection
<1>4. Taken(r) = Cleared(r)
  BY <1>1 DEF Taken
<1>5. merged \in ElectionRow
      /\ merged.active = IF q.entity.active # q.loaded.active THEN q.entity.active ELSE Seen(r, e).active
  BY <1>2, <1>3, MergedElection
<1>6. q.entity.active \in BOOLEAN /\ q.loaded.active \in BOOLEAN
  BY <1>2 DEF ElectionRow
<1>7. /\ election' = [x \in Elections |-> IF x = e THEN merged ELSE Seen(r, x)]
      /\ opened' = IF q.entity.active /\ ~q.loaded.active THEN [opened EXCEPT ![e] = r] ELSE opened
  BY DEF SaveWrite
<1> HIDE DEF merged
<1>8. election' \in [Elections -> ElectionRow]
  BY <1>3, <1>5, <1>7
<1>9. opened \in [Elections -> Requests \cup {Nobody}]
  BY DEF CalendarTypeOK
<1>10. \A a \in Elections : opened'[a] \in {r, opened[a]} /\ (a # e => opened'[a] = opened[a])
  BY <1>2, <1>7, <1>9
<1> HIDE DEF q, e
<1>11. ASSUME election'[e].active
       PROVE  \/ opened'[e] = r
              \/ opened'[e] = opened[e] /\ election[e].active /\ e \notin Taken(r)
  BY <1>2, <1>3, <1>4, <1>5, <1>6, <1>7, <1>9, <1>11
<1>12. ASSUME NEW a \in Elections, a # e, election'[a].active
       PROVE  opened'[a] = opened[a] /\ election[a].active /\ a \notin Taken(r)
  BY <1>3, <1>4, <1>7, <1>10, <1>12
<1> QED
  BY <1>1, <1>8, <1>10, <1>11, <1>12 DEF q, e
LEMMA CommitStep ==
    ASSUME CalendarInv, NEW r \in Requests, SaveWrite(r)
    PROVE  CalendarInv'
<1> USE DEF CalendarInv
<1>1. /\ election' \in [Elections -> ElectionRow]
      /\ Running(r)
      /\ \A a \in Elections : election'[a].active =>
           \/ opened'[a] = r /\ a = request[r].election
           \/ opened'[a] = opened[a] /\ election[a].active /\ a \notin Taken(r)
      /\ \A a \in Elections : opened'[a] \in {r, opened[a]}
  BY CommitFlags
<1>2. request' = [request EXCEPT ![r] = Over] /\ during' = during
  BY DEF SaveWrite
<1>3. /\ request'[r] = Over /\ Over # Idle
      /\ \A q \in Requests \ {r} : request'[q] = request[q]
  BY <1>2 DEF CalendarTypeOK, Over, Idle
<1>4. opened' \in [Elections -> Requests \cup {Nobody}]
  BY DEF SaveWrite, CalendarTypeOK
<1>5. CalendarTypeOK'
  BY <1>1, <1>2, <1>4 DEF CalendarTypeOK
<1>6. \A q \in Requests : Running(q)' => q # r /\ Running(q) /\ request'[q] = request[q]
                                         /\ Taken(q)' = Taken(q)
  BY <1>3 DEF Running, Taken, Cleared
<1>7. HistoryInv'
  <2>1. \A q \in Requests : request'[q] = Idle => during'[q] = {} /\ \A e \in Elections : opened'[e] # q
    BY <1>1, <1>2, <1>3 DEF HistoryInv
  <2>2. \A p, q \in Requests : Running(p)' /\ Running(q)' => Overlapped(p, q)'
    BY <1>2, <1>6 DEF HistoryInv, Overlapped
  <2>3. \A e \in Elections : election'[e].active => opened'[e] # Nobody
    BY <1>1, NobodyAsksForElections DEF HistoryInv, Requests
  <2> QED
    BY <2>1, <2>2, <2>3 DEF HistoryInv
<1>8. ASSUME NEW q \in Requests \ Updates, NEW a \in Elections,
             Running(q)', TenantOf[a] = TenantOf[request'[q].election],
             election'[a].active, opened'[a] \notin Updates, a \notin Taken(q)'
      PROVE  Overlapped(opened'[a], q)
  <2>1. q # r /\ Running(q) /\ request'[q] = request[q] /\ Taken(q)' = Taken(q)
    BY <1>6, <1>8
  <2>2. CASE opened'[a] = r
    BY <1>1, <2>1, <2>2 DEF HistoryInv
  <2>3. CASE opened'[a] = opened[a] /\ election[a].active
    BY <1>8, <2>1, <2>3 DEF OpeningInv
  <2> QED
    BY <1>1, <1>8, <2>2, <2>3
<1>9. OpeningInv'
  BY <1>2, <1>8 DEF OpeningInv, Overlapped
\* The request's own election beside one it left alone.
<1>10. ASSUME NEW a \in Elections, NEW b \in Elections, a # b, TenantOf[a] = TenantOf[b],
              election'[b].active, r \notin Updates, opened'[b] \notin Updates,
              opened'[a] = r, a = request[r].election
       PROVE  Overlapped(opened'[b], r)
  <2>1. opened'[b] = opened[b] /\ election[b].active /\ b \notin Taken(r)
    BY <1>1, <1>10
  <2> QED
    BY <1>1, <1>10, <2>1 DEF OpeningInv
<1>11. ASSUME NEW a \in Elections, NEW b \in Elections, a # b, TenantOf[a] = TenantOf[b],
              election'[a].active, election'[b].active,
              {opened'[a], opened'[b]} \cap Updates = {}
       PROVE  Overlapped(opened'[a], opened'[b])
  <2>1. opened'[a] \notin Updates /\ opened'[b] \notin Updates
    BY <1>11
  <2>2. CASE opened'[a] = r /\ a = request[r].election
    BY <1>10, <1>11, <2>1, <2>2 DEF Overlapped
  <2>3. CASE opened'[b] = r /\ b = request[r].election
    BY <1>10, <1>11, <2>1, <2>3 DEF Overlapped
  <2>4. CASE /\ opened'[a] = opened[a] /\ election[a].active
             /\ opened'[b] = opened[b] /\ election[b].active
    BY <1>11, <2>4 DEF OneActiveUnlessUpdated
  <2> QED
    BY <1>1, <1>11, <2>2, <2>3, <2>4
<1>12. OneActiveUnlessUpdated'
  BY <1>2, <1>11 DEF OneActiveUnlessUpdated, Overlapped
<1> QED
  BY <1>5, <1>7, <1>9, <1>12

LEMMA CalendarStays ==
    ASSUME CalendarInv, UNCHANGED calendarVars
    PROVE  CalendarInv'
BY DEF CalendarInv, calendarVars, CalendarTypeOK, HistoryInv, OpeningInv, OneActiveUnlessUpdated,
       Overlapped, Running, Taken, Cleared

LEMMA CalendarStarts ==
    ASSUME ElectionsInit
    PROVE  CalendarInv
<1>1. PICK reached \in [Elections -> Statuses] : CalendarInit(reached)
  BY DEF ElectionsInit
<1>2. /\ \A e \in Elections : election[e] = [status |-> reached[e], active |-> FALSE]
      /\ election \in [Elections -> ElectionRow]
  BY <1>1 DEF CalendarInit, ElectionRow
<1>3. /\ request = [r \in Requests |-> Idle]
      /\ opened = [e \in Elections |-> Nobody]
      /\ during = [r \in Requests |-> {}]
  BY <1>1 DEF CalendarInit, Requests
<1>4. CalendarTypeOK
  BY <1>2, <1>3 DEF CalendarTypeOK
<1>5. HistoryInv
  BY <1>2, <1>3, NobodyAsksForElections DEF HistoryInv, Running, Requests
<1>6. OpeningInv /\ OneActiveUnlessUpdated
  BY <1>2 DEF OpeningInv, OneActiveUnlessUpdated
<1> QED
  BY <1>4, <1>5, <1>6 DEF CalendarInv

LEMMA CalendarStep ==
    ASSUME CalendarInv, CalendarNext
    PROVE  CalendarInv'
<1>1. ASSUME NEW r \in Updates, NEW e \in Elections,
             NEW to \in {"CANCELLED"} \cup {step[2] : step \in Allowed}, UpdateRead(r, e, to)
      PROVE  CalendarInv'
  BY <1>1, ReadSteps DEF Requests
<1>2. ASSUME NEW r \in Openings, NEW e \in Elections, NEW checked \in BOOLEAN,
             OpenBegin(r, e, checked)
      PROVE  CalendarInv'
  BY <1>2, ReadSteps DEF Requests
<1>3. ASSUME NEW r \in Requests, OpenClear(r) \/ OpenFind(r) \/ RollBack(r) \/ SaveLoad(r)
      PROVE  CalendarInv'
  BY <1>3, OpeningSteps
<1>4. ASSUME NEW r \in Requests, SaveWrite(r)
      PROVE  CalendarInv'
  BY <1>4, CommitStep
<1> QED
  BY <1>1, <1>2, <1>3, <1>4 DEF CalendarNext, Requests

\* One election of a tenant is active, unless a status update or openings that
\* overlapped made it two.
THEOREM OneActiveHolds == ElectionsSpec => []OneActiveUnlessUpdated
<1>1. ElectionsInit => CalendarInv
  BY CalendarStarts
<1>2. CalendarInv /\ [ElectionsNext]_<<calendarVars, nominationVars>> => CalendarInv'
  BY CalendarStep, CalendarStays DEF ElectionsNext
<1>3. CalendarInv => OneActiveUnlessUpdated
  BY DEF CalendarInv
<1> QED
  BY <1>1, <1>2, <1>3, PTL DEF ElectionsSpec
-----------------------------------------------------------------------------
(* Candidates: types and the inductive invariant *)

CandidateRow ==
    [status : {"NONE", "PENDING_NOMINATION", "ELECTED", "NOT_ELECTED"} \cup Targets,
     won : {"undecided", "won", "lost"},
     seat : {"none", "nomination", "general"},
     person : Persons \cup {Nobody}]

\* The rows a request holds in memory.
Images == UNION {[S -> CandidateRow] : S \in SUBSET Rows}

Inserts == Registers \cup Promotes

InsertRow == [stage : {"insert"}, seat : {"nomination", "general"}, person : Persons \cup {Nobody}]
SiblingsRow == [stage : {"siblings"}, subject : Rows, entries : Nat, winner : CandidateRow]
SavingRow == [stage : {"load", "write"}, subject : Rows,
              to : {"NONE", "PENDING_NOMINATION", "ELECTED", "NOT_ELECTED"} \cup Targets,
              entity : Images, entries : SUBSET Nat, todo : SUBSET Rows,
              now : Rows, loaded : CandidateRow, done : Images]
EntryRow == [to : {"NONE", "PENDING_NOMINATION", "ELECTED", "NOT_ELECTED"} \cup Targets,
             by : {Nobody} \cup Savers \cup Inserts]

NominationTypeOK ==
    /\ row \in [Rows -> CandidateRow]
    /\ log \in [Rows -> Seq(EntryRow)]
    /\ apply \in [Inserts -> InsertRow \cup {Idle, Over}]
    /\ save \in [Savers -> SiblingsRow \cup SavingRow \cup {Idle, Over}]
    /\ decidedBy \in [Rows -> Savers \cup {Nobody}]
    /\ alongside \in [Savers -> SUBSET Savers]

Stored(c) == row[c].seat # "none"

SkippedOnce(c) == \E x \in Entries(c) : x.to \in Skipped

\* What a stored candidate comes with.
RowsInv ==
    /\ \A c \in Rows :
         /\ ~Stored(c) => row[c] = NoRow
         /\ Stored(c) => log[c] # <<>>
         /\ row[c].status \in Skipped => SkippedOnce(c)
         /\ row[c].won = "won" => decidedBy[c] \in Savers /\ row[c].seat = "nomination"
    /\ \A r \in Inserts : apply[r] # Over => ~Stored(r)

SavesNow(t) == save[t] \notin {Idle, Over}

\* Requests in progress overlap, and no row is locked by two of them.
SaversInv ==
    /\ \A t \in Savers : save[t] = Idle => alongside[t] = {}
    /\ \A p, q \in Savers : SavesNow(p) /\ SavesNow(q) => Together(p, q, alongside)
    /\ \A p, q \in Savers : p # q => Held(p) \cap Held(q) = {}

\* A declaration that has read its winner.
SiblingsOK(s) ==
    s.stage = "siblings" =>
        /\ s.winner.won = "won" /\ s.winner.seat = "nomination"
        /\ row[s.subject].seat = "nomination"

\* What a request saves, what of it is done, and how that is related to what
\* is stored: the rows written are locked.
ShapeOK(s) ==
    /\ s.subject \in DOMAIN s.entity
    /\ s.todo \subseteq DOMAIN s.entity
    /\ DOMAIN s.done \subseteq DOMAIN s.entity \ s.todo
    /\ s.stage = "write" => /\ s.now \in DOMAIN s.entity \ (s.todo \cup DOMAIN s.done)
                            /\ s.loaded.seat = row[s.now].seat

EntityOK(t, s) ==
    /\ s.entity[s.subject].status = s.to
    /\ t \notin Changes => s.entity[s.subject].won = "won"
    /\ \A c \in DOMAIN s.entity :
         /\ Stored(c)
         /\ s.entity[c].seat = row[c].seat
         /\ s.entity[c].won = "won" => s.entity[c].seat = "nomination"
         /\ c # s.subject => s.entity[c].won = "lost" /\ s.entity[c].status = "NOT_ELECTED"

DoneOK(s) ==
    \A c \in DOMAIN s.done :
        /\ s.done[c].won \in {s.entity[c].won, row[c].won}
        /\ s.done[c].status \in {s.entity[c].status, row[c].status}
        /\ s.done[c].seat = row[c].seat

SavingOK(t, s) ==
    s.stage \in {"load", "write"} => ShapeOK(s) /\ EntityOK(t, s) /\ DoneOK(s)

\* A status the request may leave its subject with: the one its entry will
\* tell, that of a loser, or another's whose entry it overlaps.
Fine(t, s, status) ==
    \/ status \in {s.to, "NOT_ELECTED"}
    \/ \E x \in Entries(s.subject) : x.by \in Savers \ {t} /\ Together(x.by, t, alongside)

SubjectOK(t, s) ==
    s.stage \in {"load", "write"} /\ s.subject \notin s.todo =>
        IF s.subject \in DOMAIN s.done THEN Fine(t, s, s.done[s.subject].status)
        ELSE IF s.stage = "write" /\ s.now = s.subject
               THEN s.loaded.status = s.to => Fine(t, s, row[s.subject].status)
               ELSE Fine(t, s, row[s.subject].status)

\* Another winner than the declared one was passed over, or decided by a
\* request the declaration overlaps, or is yet to lose.
LosersOK(t, s) ==
    s.stage \in {"load", "write"} /\ t \notin Changes =>
        \A a \in Rows \ {s.subject} :
            row[a].won = "won" /\ ~SkippedOnce(a) =>
                \/ Together(decidedBy[a], t, alongside)
                \/ a \in s.todo
                \/ s.stage = "write" /\ s.now = a /\ s.loaded.won # "lost"
                \/ a \in DOMAIN s.done /\ s.done[a].won # "won"

SaverOK(t, s) == SiblingsOK(s) /\ SavingOK(t, s) /\ SubjectOK(t, s) /\ LosersOK(t, s)

\* HistoryEndsInStatus, where the newest entry too is a saver's.
EndsInStatus(c) ==
    \/ Last(log[c]).to = row[c].status
    \/ row[c].status = "NOT_ELECTED"
    \/ \E x \in Entries(c) \ {Last(log[c])} :
         /\ x.by \in Savers /\ Last(log[c]).by \in Savers
         /\ Together(x.by, Last(log[c]).by, alongside)

NominationInv ==
    /\ NominationTypeOK /\ RowsInv /\ SaversInv
    /\ \A t \in Savers : SaverOK(t, save[t])
    /\ OneWinnerUnlessChanged
    /\ \A c \in Rows : Stored(c) => EndsInStatus(c)
-----------------------------------------------------------------------------
(* Candidates: lemmas about the operators *)

LEMMA MergedCandidate ==
    ASSUME NEW entity \in CandidateRow, NEW loaded \in CandidateRow, NEW stored \in CandidateRow
    PROVE  LET m == Merged(entity, loaded, stored) IN
           /\ m \in CandidateRow
           /\ m.won = IF entity.won # loaded.won THEN entity.won ELSE stored.won
           /\ m.status = IF entity.status # loaded.status THEN entity.status ELSE stored.status
           /\ m.seat = IF entity.seat # loaded.seat THEN entity.seat ELSE stored.seat
<1>1. DOMAIN stored = {"status", "won", "seat", "person"}
  BY DEF CandidateRow
<1>2. Merged(entity, loaded, stored) =
        [status |-> IF entity.status # loaded.status THEN entity.status ELSE stored.status,
         won |-> IF entity.won # loaded.won THEN entity.won ELSE stored.won,
         seat |-> IF entity.seat # loaded.seat THEN entity.seat ELSE stored.seat,
         person |-> IF entity.person # loaded.person THEN entity.person ELSE stored.person]
  BY <1>1 DEF Merged
<1> QED
  BY <1>2 DEF CandidateRow

LEMMA ImageFacts ==
    ASSUME NEW f \in Images
    PROVE  /\ DOMAIN f \subseteq Rows
           /\ \A c \in DOMAIN f : f[c] \in CandidateRow
           /\ f = [c \in DOMAIN f |-> f[c]]
BY DEF Images

LEMMA ImageMade ==
    ASSUME NEW S \in SUBSET Rows, NEW f \in [S -> CandidateRow]
    PROVE  f \in Images
BY DEF Images

\* One more row is done.
LEMMA PutRow ==
    ASSUME NEW f \in Images, NEW c \in Rows, NEW v \in CandidateRow
    PROVE  [x \in {c} \cup DOMAIN f |-> IF x = c THEN v ELSE f[x]] \in Images
<1> DEFINE g == [x \in {c} \cup DOMAIN f |-> IF x = c THEN v ELSE f[x]]
<1>1. DOMAIN f \subseteq Rows /\ \A x \in DOMAIN f : f[x] \in CandidateRow
  BY ImageFacts
<1>2. g \in [{c} \cup DOMAIN f -> CandidateRow]
  BY <1>1
<1>3. {c} \cup DOMAIN f \in SUBSET Rows
  BY <1>1
<1> HIDE DEF g
<1>4. g \in Images
  BY <1>2, <1>3, ImageMade
<1> QED
  BY <1>4 DEF g

LEMMA EmptyImage == [x \in {} |-> NoRow] \in Images /\ DOMAIN [x \in {} |-> NoRow] = {}
BY DEF Images

LEMMA RowsTyped ==
    /\ NoRow \in CandidateRow
    /\ \A seat \in {"nomination", "general"}, person \in Persons \cup {Nobody} :
         Candidate(seat, person) \in CandidateRow
BY DEF NoRow, Candidate, CandidateRow

LEMMA Appended ==
    ASSUME NEW history \in Seq(EntryRow), NEW entry \in EntryRow
    PROVE  /\ Append(history, entry) \in Seq(EntryRow)
           /\ Append(history, entry) # <<>>
           /\ Last(Append(history, entry)) = entry
           /\ ToSet(Append(history, entry)) = ToSet(history) \cup {entry}
<1>1. /\ Append(history, entry) \in Seq(EntryRow)
      /\ Len(Append(history, entry)) = Len(history) + 1
      /\ \A i \in 1 .. Len(history) : Append(history, entry)[i] = history[i]
      /\ Append(history, entry)[Len(history) + 1] = entry
  OBVIOUS
<1>2. /\ DOMAIN Append(history, entry) = 1 .. (Len(history) + 1)
      /\ DOMAIN history = 1 .. Len(history)
      /\ Len(history) \in Nat
  BY <1>1
<1>3. Last(Append(history, entry)) = entry
  BY <1>1 DEF Last
<1>4. ToSet(Append(history, entry)) = ToSet(history) \cup {entry}
  BY <1>1, <1>2 DEF ToSet
<1> QED
  BY <1>1, <1>3, <1>4

LEMMA FirstEntry ==
    ASSUME NEW entry \in EntryRow
    PROVE  /\ <<entry>> \in Seq(EntryRow) /\ <<entry>> # <<>>
           /\ Last(<<entry>>) = entry /\ ToSet(<<entry>>) = {entry}
BY DEF Last, ToSet

\* The stage tells the kind of a request's row.
LEMMA SaverKinds ==
    ASSUME NominationTypeOK, NEW t \in Savers
    PROVE  /\ save[t].stage = "siblings" => save[t] \in SiblingsRow /\ SavesNow(t)
           /\ save[t].stage \in {"load", "write"} => save[t] \in SavingRow /\ SavesNow(t)
           /\ Held(t) \subseteq Rows
<1>1. save[t] \in SiblingsRow \cup SavingRow \cup {Idle, Over}
  BY DEF NominationTypeOK
<1>2. /\ save[t].stage = "siblings" => save[t] \in SiblingsRow /\ SavesNow(t)
      /\ save[t].stage \in {"load", "write"} => save[t] \in SavingRow /\ SavesNow(t)
  BY <1>1 DEF SiblingsRow, SavingRow, Idle, Over, SavesNow
<1>3. save[t] \in SavingRow => DOMAIN save[t].done \subseteq Rows
  BY ImageFacts DEF SavingRow
<1> QED
  BY <1>2, <1>3 DEF Held

LEMMA SavingRows ==
    ASSUME NEW n \in SiblingsRow \cup SavingRow
    PROVE  n # Idle /\ n # Over
BY DEF SiblingsRow, SavingRow, Idle, Over
-----------------------------------------------------------------------------
(* Candidates: the steps of one request *)

\* What holds of a request's row goes on holding while the candidates do not
\* change and requests begin.
LEMMA SaverKeeps ==
    ASSUME NominationInv, NEW q \in Savers,
           UNCHANGED <<row, log, decidedBy>>,
           \A p \in Savers : alongside[p] \subseteq alongside'[p],
           SaverOK(q, save'[q])
    PROVE  SaverOK(q, save[q])'
<1>1. row' = row /\ log' = log /\ decidedBy' = decidedBy
  OBVIOUS
<1>2. \A p \in Savers : Together(p, q, alongside) => Together(p, q, alongside')
  BY TogetherStays
<1>3. SiblingsOK(save[q])'
  BY <1>1 DEF SaverOK, SiblingsOK
<1>4. SavingOK(q, save[q])'
  <2>1. CASE save'[q].stage \in {"load", "write"}
    <3>1. ShapeOK(save'[q]) /\ EntityOK(q, save'[q]) /\ DoneOK(save'[q])
      BY <2>1 DEF SaverOK, SavingOK
    <3>2. ShapeOK(save[q])'
      BY <1>1, <3>1 DEF ShapeOK
    <3>3. EntityOK(q, save[q])'
      BY <1>1, <3>1 DEF EntityOK, Stored
    <3>4. DoneOK(save[q])'
      BY <1>1, <3>1 DEF DoneOK
    <3> QED
      BY <3>2, <3>3, <3>4 DEF SavingOK
  <2>2. CASE save'[q].stage \notin {"load", "write"}
    BY <2>2 DEF SavingOK
  <2> QED
    BY <2>1, <2>2
<1>5. SubjectOK(q, save[q])'
  <2>1. \A status : Fine(q, save'[q], status) =>
          \/ status \in {save'[q].to, "NOT_ELECTED"}
          \/ \E x \in Entries(save'[q].subject) :
               x.by \in Savers \ {q} /\ Together(x.by, q, alongside')
    BY <1>2 DEF Fine
  <2> QED
    BY <1>1, <2>1 DEF SaverOK, SubjectOK, Fine, Entries
<1>6. LosersOK(q, save[q])'
  <2>1. \A a \in Rows : row[a].won = "won" => decidedBy[a] \in Savers
    BY DEF NominationInv, RowsInv
  <2> QED
    BY <1>1, <1>2, <2>1 DEF SaverOK, LosersOK, SkippedOnce, Entries
<1> QED
  BY <1>3, <1>4, <1>5, <1>6 DEF SaverOK

\* One request goes on, and no candidate changes.
LEMMA SaverStep ==
    ASSUME NominationInv, NEW t \in Savers,
           NEW n \in SiblingsRow \cup SavingRow \cup {Over},
           save' = [save EXCEPT ![t] = n],
           UNCHANGED <<row, log, apply, decidedBy>>,
           \/ save[t] = Idle /\ alongside' = [alongside EXCEPT ![t] = InProgress(save)]
           \/ SavesNow(t) /\ alongside' = alongside,
           n.stage \in {"load", "write"} => \A q \in Savers \ {t} : DOMAIN n.done \cap Held(q) = {},
           SaverOK(t, n)
    PROVE  NominationInv'
<1> USE DEF NominationInv
<1>1. /\ save'[t] = n /\ n # Idle
      /\ \A q \in Savers \ {t} : save'[q] = save[q]
  <2>1. Over # Idle
    BY DEF Over, Idle
  <2> QED
    BY <2>1, SavingRows DEF NominationTypeOK
<1>2. InProgress(save) = {q \in Savers : SavesNow(q)}
  BY DEF InProgress, SavesNow, NominationTypeOK
<1>3. alongside' \in [Savers -> SUBSET Savers]
  BY <1>2 DEF NominationTypeOK
<1>4. \A q \in Savers : alongside[q] \subseteq alongside'[q]
  BY DEF NominationTypeOK, SaversInv
<1>5. NominationTypeOK'
  BY <1>3 DEF NominationTypeOK
<1>6. RowsInv'
  BY DEF RowsInv, Stored, SkippedOnce, Entries
<1>7. ASSUME NEW p \in Savers, NEW q \in Savers, SavesNow(p)', SavesNow(q)'
      PROVE  Together(p, q, alongside')
  <2>1. CASE p = q
    BY <2>1 DEF Together
  <2>2. CASE p # q /\ SavesNow(p) /\ SavesNow(q)
    BY <1>4, <2>2, TogetherStays DEF SaversInv
  <2>3. CASE p # q /\ save[t] = Idle /\ (p = t \/ q = t)
    <3>1. alongside'[t] = {x \in Savers : SavesNow(x)}
      <4>1. Idle \in {Idle, Over}
        OBVIOUS
      <4> QED
        BY <1>2, <2>3, <4>1 DEF SavesNow, NominationTypeOK
    <3> QED
      BY <1>1, <1>7, <2>3, <3>1 DEF Together, SavesNow
  <2> QED
    BY <1>1, <1>7, <2>1, <2>2, <2>3 DEF SavesNow
<1>8. SaversInv'
  <2>1. \A q \in Savers : save'[q] = Idle => alongside'[q] = {}
    BY <1>1 DEF SaversInv, NominationTypeOK
  <2>2. \A q \in Savers \ {t} : Held(q)' = Held(q)
    BY <1>1 DEF Held
  <2>3. \A q \in Savers \ {t} : Held(t)' \cap Held(q) = {}
    BY <1>1 DEF Held
  <2>4. \A p, q \in Savers : p # q => Held(p)' \cap Held(q)' = {}
    BY <2>2, <2>3 DEF SaversInv
  <2> QED
    BY <1>7, <2>1, <2>4 DEF SaversInv
<1>9. \A q \in Savers : SaverOK(q, save'[q])
  BY <1>1
<1>10. \A q \in Savers : SaverOK(q, save[q])'
  BY <1>4, <1>9, SaverKeeps
<1>11. OneWinnerUnlessChanged'
  <2> SUFFICES ASSUME NEW a \in Rows, NEW b \in Rows, a # b, row[a].won = "won", row[b].won = "won",
                      ~\E x \in Entries(a) \cup Entries(b) : x.to \in Skipped,
                      {decidedBy[a], decidedBy[b]} \cap Changes = {}
               PROVE  Together(decidedBy[a], decidedBy[b], alongside')
    BY DEF OneWinnerUnlessChanged, SavedTogether, Together, Entries
  <2>1. Together(decidedBy[a], decidedBy[b], alongside)
    BY DEF OneWinnerUnlessChanged, SavedTogether, Together
  <2> QED
    BY <1>4, <2>1, TogetherStays DEF RowsInv
<1>12. ASSUME NEW c \in Rows, Stored(c)'
       PROVE  EndsInStatus(c)'
  <2>1. EndsInStatus(c)
    BY <1>12 DEF Stored
  <2>2. \A p, q \in Savers : Together(p, q, alongside) => Together(p, q, alongside')
    BY <1>4, TogetherStays
  <2> QED
    BY <2>1, <2>2 DEF EndsInStatus, Entries
<1> QED
  BY <1>5, <1>6, <1>8, <1>10, <1>11, <1>12

\* A registration or promotion goes on, and inserts nothing.
LEMMA ApplyStep ==
    ASSUME NominationInv, NEW r \in Inserts, NEW n \in InsertRow,
           apply[r] = Idle, apply' = [apply EXCEPT ![r] = n],
           UNCHANGED <<row, log, save, decidedBy, alongside>>
    PROVE  NominationInv'
<1> USE DEF NominationInv
<1>1. NominationTypeOK'
  BY DEF NominationTypeOK
<1>2. RowsInv'
  <2>1. \A q \in Inserts : apply'[q] # Over => apply[q] # Over
    <3>1. Idle # Over
      BY DEF Idle, Over
    <3> QED
      BY <3>1 DEF NominationTypeOK
  <2> QED
    BY <2>1 DEF RowsInv, Stored, SkippedOnce, Entries
<1>3. SaversInv'
  BY DEF SaversInv, SavesNow, Held
<1>4. \A t \in Savers : SaverOK(t, save[t])'
  <2>1. \A t \in Savers : SaverOK(t, save'[t])
    OBVIOUS
  <2> QED
    BY <2>1, SaverKeeps
<1>5. OneWinnerUnlessChanged'
  BY DEF OneWinnerUnlessChanged, SavedTogether, Entries
<1>6. \A c \in Rows : Stored(c)' => EndsInStatus(c)'
  BY DEF EndsInStatus, Stored, Entries
<1> QED
  BY <1>1, <1>2, <1>3, <1>4, <1>5, <1>6

LEMMA ApplySteps ==
    ASSUME NominationInv,
           \/ \E r \in Registers, seat \in {"nomination", "general"}, person \in Persons :
                RegisterCheck(r, seat, person)
           \/ \E p \in Promotes, c \in Rows : PromoteRead(p, c)
    PROVE  NominationInv'
<1>1. ASSUME NEW r \in Registers, NEW seat \in {"nomination", "general"}, NEW person \in Persons,
             RegisterCheck(r, seat, person)
      PROVE  NominationInv'
  BY <1>1, ApplyStep DEF RegisterCheck, InsertRow, Inserts
<1>2. ASSUME NEW p \in Promotes, NEW c \in Rows, PromoteRead(p, c)
      PROVE  NominationInv'
  <2>1. row[c].person \in Persons \cup {Nobody}
    BY DEF NominationInv, NominationTypeOK, CandidateRow
  <2> QED
    BY <1>2, <2>1, ApplyStep DEF PromoteRead, InsertRow, Inserts
<1> QED
  BY <1>1, <1>2

\* A request that has read all it saves, and saved nothing.
LEMMA SavingMade ==
    ASSUME NominationInv, NEW t \in Savers, NEW c \in Rows,
           NEW entity \in Images, NEW entries \in SUBSET Nat,
           c \in DOMAIN entity,
           t \notin Changes => entity[c].won = "won",
           \A x \in DOMAIN entity :
             /\ Stored(x) /\ entity[x].seat = row[x].seat
             /\ entity[x].won = "won" => entity[x].seat = "nomination"
             /\ x # c => entity[x].won = "lost" /\ entity[x].status = "NOT_ELECTED",
           t \notin Changes => \A a \in Rows :
             row[a].won = "won" /\ ~SkippedOnce(a) => a \in DOMAIN entity
    PROVE  /\ Saving(c, entity, entries) \in SavingRow
           /\ DOMAIN Saving(c, entity, entries).done = {}
           /\ SaverOK(t, Saving(c, entity, entries))
<1> DEFINE n == Saving(c, entity, entries)
<1>1. /\ n.stage = "load" /\ n.subject = c /\ n.to = entity[c].status /\ n.entity = entity
      /\ n.entries = entries /\ n.todo = DOMAIN entity /\ n.done = [x \in {} |-> NoRow]
      /\ DOMAIN n.done = {}
  BY EmptyImage DEF Saving
<1>2. n \in SavingRow
  BY ImageFacts, EmptyImage, RowsTyped DEF Saving, SavingRow, CandidateRow
<1> HIDE DEF n
<1>3. SiblingsOK(n) /\ SavingOK(t, n) /\ SubjectOK(t, n)
  BY <1>1 DEF SiblingsOK, SavingOK, ShapeOK, EntityOK, DoneOK, SubjectOK
<1>4. LosersOK(t, n)
  BY <1>1 DEF LosersOK
<1>5. DOMAIN n.done = {} /\ SaverOK(t, n)
  BY <1>1, <1>3, <1>4 DEF SaverOK
<1> QED
  BY <1>2, <1>5 DEF n

LEMMA DeclareReadStep ==
    ASSUME NominationInv, NEW d \in Declares, NEW c \in Rows, DeclareRead(d, c)
    PROVE  NominationInv'
<1> DEFINE winner == [row[c] EXCEPT !.won = "won", !.status = "ELECTED"]
           n == [stage |-> "siblings", subject |-> c, entries |-> Len(log[c]), winner |-> winner]
<1>1. row[c] \in CandidateRow /\ Len(log[c]) \in Nat
  BY DEF NominationInv, NominationTypeOK
<1>2. winner \in CandidateRow /\ winner.won = "won" /\ winner.seat = row[c].seat
  BY <1>1 DEF CandidateRow
<1> HIDE DEF winner
<1>3. n \in SiblingsRow
  BY <1>1, <1>2 DEF SiblingsRow
<1>4. SaverOK(d, n)
  BY <1>2 DEF DeclareRead, SaverOK, SiblingsOK, SavingOK, SubjectOK, LosersOK
<1>5. d \in Savers /\ n.stage = "siblings" /\ StartSave(d, n)
  BY DEF DeclareRead, Savers, winner
<1> HIDE DEF n
<1> QED
  BY <1>3, <1>4, <1>5, SaverStep DEF StartSave

LEMMA DeclareSiblingsStep ==
    ASSUME NominationInv, NEW d \in Declares, DeclareSiblings(d)
    PROVE  NominationInv'
<1> USE DEF NominationInv
<1> DEFINE c == save[d].subject
           entity == [x \in {c} \cup Losers(c) |->
                        IF x = c THEN save[d].winner
                                 ELSE [row[x] EXCEPT !.won = "lost", !.status = "NOT_ELECTED"]]
           entries == {save[d].entries}
           n == Saving(c, entity, entries)
<1>1. d \in Savers /\ save[d].stage = "siblings" /\ save[d] \in SiblingsRow /\ SavesNow(d)
  BY SaverKinds DEF DeclareSiblings, Savers
<1>2. c \in Rows /\ entries \in SUBSET Nat /\ save[d].winner \in CandidateRow
  BY <1>1 DEF SiblingsRow
<1>3. /\ save[d].winner.won = "won" /\ save[d].winner.seat = "nomination"
      /\ row[c].seat = "nomination"
  BY <1>1 DEF SaverOK, SiblingsOK
<1>4. \A x \in Losers(c) :
        LET e == [row[x] EXCEPT !.won = "lost", !.status = "NOT_ELECTED"] IN
        /\ x \in Rows \ {c} /\ row[x].seat = "nomination"
        /\ e \in CandidateRow /\ e.won = "lost" /\ e.status = "NOT_ELECTED"
        /\ e.seat = "nomination"
  BY DEF Losers, NominationTypeOK, CandidateRow
<1>5. {c} \cup Losers(c) \in SUBSET Rows
  BY <1>2, <1>4
<1>6. entity \in [{c} \cup Losers(c) -> CandidateRow]
  BY <1>2, <1>4
<1>7. /\ DOMAIN entity = {c} \cup Losers(c)
      /\ entity[c].won = "won" /\ entity[c].seat = "nomination"
      /\ \A x \in Losers(c) : /\ entity[x].won = "lost" /\ entity[x].status = "NOT_ELECTED"
                              /\ entity[x].seat = "nomination"
  BY <1>3, <1>4
<1>8. \A a \in Rows : row[a].won = "won" /\ ~SkippedOnce(a) => a \in {c} \cup Losers(c)
  BY DEF RowsInv, Losers
<1>9. save' = [save EXCEPT ![d] = n] /\ UNCHANGED <<row, log, apply, decidedBy, alongside>>
  BY DEF DeclareSiblings
<1> HIDE DEF c, entity, entries
<1>10. entity \in Images
  BY <1>5, <1>6, ImageMade
<1>11. /\ n \in SavingRow /\ DOMAIN n.done = {} /\ SaverOK(d, n)
  <2>1. \A x \in DOMAIN entity :
          /\ Stored(x) /\ entity[x].seat = row[x].seat
          /\ entity[x].won = "won" => entity[x].seat = "nomination"
          /\ x # c => entity[x].won = "lost" /\ entity[x].status = "NOT_ELECTED"
    BY <1>3, <1>4, <1>7 DEF Stored
  <2> QED
    BY <1>1, <1>2, <1>7, <1>8, <1>10, <2>1, SavingMade
<1> HIDE DEF n
<1> QED
  BY <1>1, <1>9, <1>11, SaverStep

LEMMA ChangeFindStep ==
    ASSUME NominationInv, NEW h \in Changes, NEW c \in Rows, NEW to \in Targets, ChangeFind(h, c, to)
    PROVE  NominationInv'
<1> USE DEF NominationInv
<1> DEFINE e == [row[c] EXCEPT !.status = to]
           entity == [x \in {c} |-> e]
           n == Saving(c, entity, {})
<1>1. row[c] \in CandidateRow /\ h \in Savers
  BY DEF NominationTypeOK, Savers
<1>2. e \in CandidateRow /\ e.won = row[c].won /\ e.seat = row[c].seat
  BY <1>1 DEF CandidateRow
<1>3. Stored(c) /\ (row[c].won = "won" => row[c].seat = "nomination")
  BY DEF ChangeFind, RowsInv
<1>4. StartSave(h, n)
  BY DEF ChangeFind
<1> HIDE DEF e
<1>5. /\ entity \in [{c} -> CandidateRow] /\ {c} \in SUBSET Rows
      /\ DOMAIN entity = {c} /\ entity[c] = e
  BY <1>2
<1> HIDE DEF entity
<1>6. entity \in Images
  BY <1>5, ImageMade
<1>7. /\ n \in SavingRow /\ DOMAIN n.done = {} /\ SaverOK(h, n)
  <2>1. \A x \in DOMAIN entity :
          /\ Stored(x) /\ entity[x].seat = row[x].seat
          /\ entity[x].won = "won" => entity[x].seat = "nomination"
          /\ x # c => entity[x].won = "lost" /\ entity[x].status = "NOT_ELECTED"
    BY <1>2, <1>3, <1>5
  <2> QED
    BY <1>1, <1>5, <1>6, <2>1, SavingMade
<1> HIDE DEF n
<1> QED
  BY <1>1, <1>4, <1>7, SaverStep DEF StartSave

LEMMA RollBackStep ==
    ASSUME NominationInv, NEW t \in Savers, SaveRollBack(t)
    PROVE  NominationInv'
<1>1. SaverOK(t, Over) /\ Over.stage \notin {"load", "write"}
  BY DEF Over, SaverOK, SiblingsOK, SavingOK, SubjectOK, LosersOK
<1>2. SavesNow(t) /\ save' = [save EXCEPT ![t] = Over]
  BY DEF SaveRollBack, InProgress, SavesNow
<1> QED
  BY <1>1, <1>2, SaverStep DEF SaveRollBack

\* A row that is stored as it should be is passed.
LEMMA RowPassed ==
    ASSUME NominationInv, NEW t \in Savers, NEW c \in Rows, SaveRowLoad(t, c),
           save[t].entity[c] = row[c]
    PROVE  NominationInv'
<1> USE DEF NominationInv
<1> DEFINE s == save[t]
           n == [s EXCEPT !.todo = @ \ {c}]
<1>1. s.stage = "load" /\ s \in SavingRow /\ SavesNow(t)
  BY SaverKinds DEF SaveRowLoad
<1>2. SaverOK(t, s)
  OBVIOUS
<1>3. /\ n \in SavingRow
      /\ n.stage = "load" /\ n.subject = s.subject /\ n.to = s.to /\ n.entity = s.entity
      /\ n.done = s.done /\ n.todo = s.todo \ {c}
  BY <1>1 DEF SavingRow
<1>4. /\ save' = [save EXCEPT ![t] = n] /\ UNCHANGED <<row, log, apply, decidedBy, alongside>>
      /\ c \in s.todo /\ (s.subject \in s.todo => c = s.subject)
      /\ s.entity[c] = row[c]
  BY DEF SaveRowLoad
<1>5. Held(t) = DOMAIN s.done
  BY <1>1 DEF Held
<1> HIDE DEF s, n
<1>6. SiblingsOK(n) /\ SavingOK(t, n)
  <2>1. ShapeOK(s) /\ EntityOK(t, s) /\ DoneOK(s)
    BY <1>1, <1>2 DEF SaverOK, SavingOK
  <2>2. ShapeOK(n)
    BY <1>1, <1>3, <2>1 DEF ShapeOK
  <2>3. EntityOK(t, n) /\ DoneOK(n)
    BY <1>3, <2>1 DEF EntityOK, DoneOK
  <2> QED
    BY <1>3, <2>2, <2>3 DEF SiblingsOK, SavingOK
<1>7. SubjectOK(t, n)
  <2>1. CASE s.subject \in s.todo
    <3>1. row[n.subject].status = n.to /\ n.subject \notin DOMAIN n.done
      <4>1. ShapeOK(s) /\ EntityOK(t, s) /\ c = s.subject /\ c \in s.todo
        BY <1>1, <1>2, <1>4, <2>1 DEF SaverOK, SavingOK
      <4>2. c \notin DOMAIN s.done
        BY <4>1 DEF ShapeOK
      <4>3. row[c].status = s.to
        BY <1>4, <4>1 DEF EntityOK
      <4> QED
        BY <1>3, <4>1, <4>2, <4>3
    <3> QED
      BY <1>3, <3>1 DEF SubjectOK, Fine
  <2>2. CASE s.subject \notin s.todo
    BY <1>1, <1>2, <1>3, <2>2 DEF SaverOK, SubjectOK, Fine
  <2> QED
    BY <2>1, <2>2
<1>8. LosersOK(t, n)
  <2>1. ASSUME c # s.subject
        PROVE  row[c].won = "lost"
    <3>1. ShapeOK(s) /\ EntityOK(t, s)
      BY <1>1, <1>2 DEF SaverOK, SavingOK
    <3>2. c \in DOMAIN s.entity
      BY <1>4, <3>1 DEF ShapeOK
    <3> QED
      BY <1>4, <2>1, <3>1, <3>2 DEF EntityOK
  <2> QED
    BY <1>1, <1>2, <1>3, <2>1 DEF SaverOK, LosersOK
<1> QED
  BY <1>1, <1>3, <1>4, <1>5, <1>6, <1>7, <1>8, SaverStep DEF SaversInv, SaverOK

LEMMA RowLoaded ==
    ASSUME NominationInv, NEW t \in Savers, NEW c \in Rows, SaveRowLoad(t, c),
           save[t].entity[c] # row[c]
    PROVE  NominationInv'
<1> USE DEF NominationInv
<1> DEFINE s == save[t]
           n == [s EXCEPT !.stage = "write", !.todo = @ \ {c}, !.now = c, !.loaded = row[c]]
<1>1. s.stage = "load" /\ s \in SavingRow /\ SavesNow(t)
  BY SaverKinds DEF SaveRowLoad
<1>2. SaverOK(t, s)
  OBVIOUS
<1>3. row[c] \in CandidateRow
  BY DEF NominationTypeOK
<1>4. /\ n \in SavingRow
      /\ n.stage = "write" /\ n.subject = s.subject /\ n.to = s.to /\ n.entity = s.entity
      /\ n.done = s.done /\ n.todo = s.todo \ {c} /\ n.now = c /\ n.loaded = row[c]
  BY <1>1, <1>3 DEF SavingRow
<1>5. /\ save' = [save EXCEPT ![t] = n] /\ UNCHANGED <<row, log, apply, decidedBy, alongside>>
      /\ c \in s.todo /\ (s.subject \in s.todo => c = s.subject)
  BY DEF SaveRowLoad
<1>6. Held(t) = DOMAIN s.done
  BY <1>1 DEF Held
<1> HIDE DEF s, n
<1>7. SiblingsOK(n) /\ SavingOK(t, n)
  <2>1. ShapeOK(s) /\ EntityOK(t, s) /\ DoneOK(s)
    BY <1>1, <1>2 DEF SaverOK, SavingOK
  <2>2. ShapeOK(n)
    BY <1>1, <1>4, <1>5, <2>1 DEF ShapeOK
  <2>3. EntityOK(t, n) /\ DoneOK(n)
    BY <1>4, <2>1 DEF EntityOK, DoneOK
  <2> QED
    BY <1>4, <2>2, <2>3 DEF SiblingsOK, SavingOK
<1>8. SubjectOK(t, n)
  <2>1. CASE s.subject \in s.todo
    <3>1. n.now = n.subject /\ n.subject \notin DOMAIN n.done
      BY <1>1, <1>2, <1>4, <1>5, <2>1 DEF SaverOK, SavingOK, ShapeOK
    <3> QED
      BY <1>4, <3>1 DEF SubjectOK, Fine
  <2>2. CASE s.subject \notin s.todo
    BY <1>1, <1>2, <1>4, <1>5, <2>2 DEF SaverOK, SubjectOK, Fine
  <2> QED
    BY <2>1, <2>2
<1>9. LosersOK(t, n)
  BY <1>1, <1>2, <1>4 DEF SaverOK, LosersOK
<1> QED
  BY <1>1, <1>4, <1>5, <1>6, <1>7, <1>8, <1>9, SaverStep DEF SaversInv, SaverOK

LEMMA RowWritten ==
    ASSUME NominationInv, NEW t \in Savers, SaveRowWrite(t)
    PROVE  NominationInv'
<1> USE DEF NominationInv
<1> DEFINE s == save[t]
           c == s.now
           stored == Merged(s.entity[c], s.loaded, row[c])
           done == [x \in {c} \cup DOMAIN s.done |-> IF x = c THEN stored ELSE s.done[x]]
           n == [s EXCEPT !.stage = "load", !.now = s.subject, !.loaded = NoRow, !.done = done]
<1>1. s.stage = "write" /\ s \in SavingRow /\ SavesNow(t)
  BY SaverKinds DEF SaveRowWrite
<1>2. SaverOK(t, s)
  OBVIOUS
<1>3. /\ c \in Rows /\ s.done \in Images /\ s.loaded \in CandidateRow /\ s.entity \in Images
      /\ row[c] \in CandidateRow
  BY <1>1 DEF SavingRow, NominationTypeOK
<1>4. /\ c \in DOMAIN s.entity \ (s.todo \cup DOMAIN s.done)
      /\ s.loaded.seat = row[c].seat /\ s.entity[c].seat = row[c].seat
  BY <1>1, <1>2 DEF SaverOK, SavingOK, ShapeOK, EntityOK
<1>5. s.entity[c] \in CandidateRow
  BY <1>3, <1>4, ImageFacts
<1>6. /\ stored \in CandidateRow
      /\ stored.won = IF s.entity[c].won # s.loaded.won THEN s.entity[c].won ELSE row[c].won
      /\ stored.status = IF s.entity[c].status # s.loaded.status THEN s.entity[c].status ELSE row[c].status
      /\ stored.seat = row[c].seat
  <2> DEFINE e == s.entity[c]
             l == s.loaded
             w == row[c]
  <2>1. stored = Merged(e, l, w) /\ e \in CandidateRow /\ l \in CandidateRow /\ w \in CandidateRow
    BY <1>3, <1>5
  <2>2. l.seat = w.seat /\ e.seat = w.seat
    BY <1>4
  <2> HIDE DEF stored, e, l, w
  <2>3. /\ stored \in CandidateRow
        /\ stored.won = IF e.won # l.won THEN e.won ELSE w.won
        /\ stored.status = IF e.status # l.status THEN e.status ELSE w.status
        /\ stored.seat = w.seat
    BY <2>1, <2>2, MergedCandidate
  <2> QED
    BY <2>3 DEF e, l, w
<1>7. done = [x \in {s.now} \cup DOMAIN s.done |->
                IF x = s.now THEN Merged(s.entity[x], s.loaded, row[x]) ELSE s.done[x]]
  OBVIOUS
<1>8. /\ save' = [save EXCEPT ![t] = n] /\ UNCHANGED <<row, log, apply, decidedBy, alongside>>
      /\ \A q \in Savers \ {t} : c \notin Held(q)
  BY <1>7 DEF SaveRowWrite
<1> HIDE DEF stored
<1>9. /\ done \in Images
      /\ DOMAIN done = {c} \cup DOMAIN s.done
      /\ done[c] = stored
      /\ \A x \in DOMAIN s.done : done[x] = s.done[x]
  BY <1>3, <1>4, <1>6, PutRow
<1> HIDE DEF done
<1>10. /\ n \in SavingRow
       /\ n.stage = "load" /\ n.subject = s.subject /\ n.to = s.to /\ n.entity = s.entity
       /\ n.done = done /\ n.todo = s.todo
  BY <1>1, <1>9, RowsTyped DEF SavingRow
<1>11. Held(t) = DOMAIN s.done
  BY <1>1 DEF Held
<1> HIDE DEF c, n
<1>12. SiblingsOK(n)
  BY <1>10 DEF SiblingsOK
<1>13. SavingOK(t, n)
  <2>1. ShapeOK(s) /\ EntityOK(t, s) /\ DoneOK(s)
    BY <1>1, <1>2 DEF SaverOK, SavingOK
  <2>2. ShapeOK(n)
    BY <1>4, <1>9, <1>10, <2>1 DEF ShapeOK
  <2>3. EntityOK(t, n)
    BY <1>10, <2>1 DEF EntityOK
  <2>4. /\ done[c].won \in {s.entity[c].won, row[c].won}
        /\ done[c].status \in {s.entity[c].status, row[c].status}
        /\ done[c].seat = row[c].seat
    BY <1>6, <1>9
  <2>5. DoneOK(n)
    BY <1>9, <1>10, <2>1, <2>4 DEF DoneOK
  <2> QED
    BY <2>2, <2>3, <2>5 DEF SavingOK
<1>14. SubjectOK(t, n)
  <2> SUFFICES ASSUME s.subject \notin s.todo
               PROVE  IF s.subject \in DOMAIN done THEN Fine(t, s, done[s.subject].status)
                      ELSE Fine(t, s, row[s.subject].status)
    BY <1>10 DEF SubjectOK, Fine
  <2>1. CASE s.subject = c
    <3>1. s.entity[c].status = s.to
      BY <1>1, <1>2, <2>1 DEF SaverOK, SavingOK, EntityOK
    <3>2. s.loaded.status = s.to => Fine(t, s, row[c].status)
      BY <1>1, <1>2, <1>4, <2>1 DEF SaverOK, SubjectOK, c
    <3>3. Fine(t, s, stored.status)
      BY <1>6, <3>1, <3>2 DEF Fine
    <3> QED
      BY <1>9, <2>1, <3>3
  <2>2. CASE s.subject # c
    BY <1>1, <1>2, <1>9, <2>2 DEF SaverOK, SubjectOK, c
  <2> QED
    BY <2>1, <2>2
<1>15. LosersOK(t, n)
  <2>1. ASSUME c # s.subject, s.loaded.won # "lost"
        PROVE  stored.won = "lost"
    <3>1. s.entity[c].won = "lost"
      BY <1>1, <1>2, <1>4, <2>1 DEF SaverOK, SavingOK, EntityOK
    <3> QED
      BY <1>6, <2>1, <3>1
  <2> QED
    BY <1>1, <1>2, <1>9, <1>10, <2>1 DEF SaverOK, LosersOK, c
<1>16. \A q \in Savers \ {t} : DOMAIN n.done \cap Held(q) = {}
  BY <1>8, <1>9, <1>10, <1>11 DEF SaversInv
<1> QED
  BY <1>1, <1>8, <1>10, <1>12, <1>13, <1>14, <1>15, <1>16, SaverStep DEF SaverOK

-----------------------------------------------------------------------------
(* Candidates: the steps that change them *)

LEMMA InsertStep ==
    ASSUME NominationInv, NEW r \in Inserts, Insert(r)
    PROVE  NominationInv'
<1> USE DEF NominationInv
<1> DEFINE new == Candidate(apply[r].seat, apply[r].person)
           entry == Entry("PENDING_NOMINATION", r)
<1>1. apply[r] \in InsertRow /\ r \in Rows /\ ~Stored(r)
  BY DEF Insert, NominationTypeOK, Inserts, Rows, RowsInv
<1>2. /\ new \in CandidateRow
      /\ new.seat # "none" /\ new.won = "undecided" /\ new.status = "PENDING_NOMINATION"
  BY <1>1, RowsTyped DEF InsertRow, Candidate
<1>3. entry \in EntryRow /\ entry.to = "PENDING_NOMINATION"
  BY <1>1 DEF Entry, EntryRow
<1>4. /\ row' = [row EXCEPT ![r] = new] /\ log' = [log EXCEPT ![r] = <<entry>>]
      /\ apply' = [apply EXCEPT ![r] = Over] /\ UNCHANGED <<save, decidedBy, alongside>>
  BY DEF Insert, Inserted
<1> HIDE DEF new, entry
<1>5. /\ row'[r] = new /\ \A c \in Rows \ {r} : row'[c] = row[c]
      /\ log'[r] = <<entry>> /\ \A c \in Rows \ {r} : log'[c] = log[c]
      /\ apply'[r] = Over /\ \A q \in Inserts \ {r} : apply'[q] = apply[q]
  BY <1>1, <1>4 DEF NominationTypeOK
<1>6. <<entry>> \in Seq(EntryRow) /\ <<entry>> # <<>> /\ Last(<<entry>>) = entry
  BY <1>3, FirstEntry
<1>7. NominationTypeOK'
  BY <1>2, <1>4, <1>6 DEF NominationTypeOK
<1>8. \A c \in Rows \ {r} : /\ Stored(c)' = Stored(c)
                            /\ SkippedOnce(c)' = SkippedOnce(c)
                            /\ EndsInStatus(c)' = EndsInStatus(c)
                            /\ Entries(c)' = Entries(c)
  BY <1>4, <1>5 DEF Stored, SkippedOnce, EndsInStatus, Entries
<1>9. RowsInv'
  <2>1. "PENDING_NOMINATION" \notin Skipped
    BY DEF Skipped
  <2>2. Stored(r)' /\ row'[r].status \notin Skipped /\ row'[r].won # "won" /\ log'[r] # <<>>
    BY <1>2, <1>5, <1>6, <2>1 DEF Stored
  <2>3. \A c \in Rows \ {r} :
          /\ ~Stored(c)' => row'[c] = NoRow
          /\ Stored(c)' => log'[c] # <<>>
          /\ row'[c].status \in Skipped => SkippedOnce(c)'
          /\ row'[c].won = "won" => decidedBy[c] \in Savers /\ row'[c].seat = "nomination"
    BY <1>5, <1>8 DEF RowsInv
  <2>4. \A q \in Inserts : apply'[q] # Over => ~Stored(q)'
    <3>1. \A q \in Inserts : q \in Rows
      BY DEF Inserts, Rows
    <3> QED
      BY <1>5, <1>8, <3>1 DEF RowsInv
  <2> QED
    BY <1>4, <2>2, <2>3, <2>4 DEF RowsInv
<1>10. SaversInv'
  BY <1>4 DEF SaversInv, SavesNow, Held
<1>11. ASSUME NEW t \in Savers
       PROVE  SaverOK(t, save[t])'
  <2>1. SaverOK(t, save[t]) /\ save' = save /\ alongside' = alongside /\ decidedBy' = decidedBy
    BY <1>4
  <2>2. CASE save[t].stage \in {"load", "write"}
    <3>1. save[t] \in SavingRow
      BY <2>2, SaverKinds
    <3>2. DOMAIN save[t].entity \subseteq Rows /\ DOMAIN save[t].done \subseteq Rows
      BY <3>1, ImageFacts DEF SavingRow
    <3>3. r \notin DOMAIN save[t].entity
      BY <1>1, <2>1, <2>2 DEF SaverOK, SavingOK, EntityOK
    <3>4. SiblingsOK(save[t])'
      BY <2>1, <2>2 DEF SiblingsOK
    <3>5. SavingOK(t, save[t])'
      <4>1. ShapeOK(save[t]) /\ EntityOK(t, save[t]) /\ DoneOK(save[t])
        BY <2>1, <2>2 DEF SaverOK, SavingOK
      <4>2. ShapeOK(save[t])'
        BY <1>5, <2>1, <3>2, <3>3, <4>1 DEF ShapeOK
      <4>3. EntityOK(t, save[t])'
        BY <1>5, <1>8, <2>1, <3>2, <3>3, <4>1 DEF EntityOK
      <4>4. DoneOK(save[t])'
        <5>1. \A c \in DOMAIN save[t].done : row'[c] = row[c]
          BY <1>5, <3>2, <3>3, <4>1 DEF ShapeOK
        <5> QED
          BY <2>1, <4>1, <5>1 DEF DoneOK
      <4> QED
        BY <4>2, <4>3, <4>4 DEF SavingOK
    <3>6. SubjectOK(t, save[t])'
      <4>1. save[t].subject \in Rows \ {r}
        BY <2>1, <2>2, <3>2, <3>3 DEF SaverOK, SavingOK, ShapeOK
      <4> QED
        BY <1>5, <1>8, <2>1, <4>1 DEF SaverOK, SubjectOK, Fine
    <3>7. LosersOK(t, save[t])'
      BY <1>2, <1>5, <1>8, <2>1 DEF SaverOK, LosersOK
    <3> QED
      BY <3>4, <3>5, <3>6, <3>7 DEF SaverOK
  <2>3. CASE save[t].stage = "siblings"
    <3>1. save[t].subject \in Rows
      BY <2>3, SaverKinds DEF SiblingsRow
    <3>2. save[t].subject # r
      BY <1>1, <2>1, <2>3 DEF SaverOK, SiblingsOK, Stored
    <3> QED
      BY <1>5, <2>1, <2>3, <3>1, <3>2 DEF SaverOK, SiblingsOK, SavingOK, SubjectOK, LosersOK
  <2> QED
    BY <2>1, <2>2, <2>3 DEF SaverOK, SiblingsOK, SavingOK, SubjectOK, LosersOK
<1>12. OneWinnerUnlessChanged'
  BY <1>2, <1>4, <1>5, <1>8 DEF OneWinnerUnlessChanged, SavedTogether
<1>13. \A c \in Rows : Stored(c)' => EndsInStatus(c)'
  BY <1>2, <1>3, <1>5, <1>6, <1>8 DEF EndsInStatus
<1> QED
  BY <1>7, <1>9, <1>10, <1>11, <1>12, <1>13

\* What a commit does to each candidate.
LEMMA CommitFacts ==
    ASSUME NominationInv, NEW t \in Savers, SaveCommit(t)
    PROVE  LET s == save[t] IN
           /\ SavesNow(t) /\ s.subject \in Rows /\ Stored(s.subject)
           /\ Entry(s.to, t) \in EntryRow
           /\ row' \in [Rows -> CandidateRow]
           /\ log' \in [Rows -> Seq(EntryRow)]
           /\ \A c \in Rows :
                /\ row'[c].seat = row[c].seat
                /\ ~Stored(c) => row'[c] = row[c]
                /\ c \notin Held(t) => row'[c] = row[c]
                /\ c # s.subject => /\ row'[c].status \in {"NOT_ELECTED", row[c].status}
                                    /\ row'[c].won \in {"lost", row[c].won}
                                    /\ log'[c] = log[c]
                /\ Entries(c) \subseteq Entries(c)'
                /\ decidedBy'[c] = IF row'[c].won # row[c].won THEN t ELSE decidedBy[c]
                /\ row'[c].won = "won" /\ row[c].won # "won" => row[c].seat = "nomination"
           /\ row'[s.subject].status \in {s.to, row[s.subject].status}
           /\ Last(log'[s.subject]) = Entry(s.to, t) /\ log'[s.subject] # <<>>
           /\ ToSet(log'[s.subject]) = Entries(s.subject) \cup {Entry(s.to, t)}
           /\ Fine(t, s, row'[s.subject].status)
           /\ t \notin Changes => \A a \in Rows \ {s.subject} :
                row[a].won = "won" /\ row'[a].won = "won" /\ ~SkippedOnce(a) =>
                  Together(decidedBy[a], t, alongside)
<1> USE DEF NominationInv
<1> DEFINE s == save[t]
           entry == Entry(s.to, t)
<1>1. s.stage = "load" /\ s.todo = {} /\ s \in SavingRow /\ SavesNow(t)
  BY SaverKinds DEF SaveCommit
<1>2. SavingOK(t, s) /\ SubjectOK(t, s) /\ LosersOK(t, s)
  BY DEF SaverOK
<1>3. /\ s.subject \in Rows /\ s.done \in Images /\ s.entity \in Images
      /\ entry \in EntryRow /\ log[s.subject] \in Seq(EntryRow)
  BY <1>1 DEF SavingRow, NominationTypeOK, Entry, EntryRow
<1>4. /\ row' = [c \in Rows |-> IF c \in DOMAIN s.done THEN s.done[c] ELSE row[c]]
      /\ log' = [log EXCEPT ![s.subject] = Append(@, entry)]
      /\ decidedBy' = [c \in Rows |->
           IF c \in DOMAIN s.done /\ s.done[c].won # row[c].won THEN t ELSE decidedBy[c]]
  BY DEF SaveCommit, Logged
<1>5. /\ DOMAIN s.done \subseteq Rows /\ DOMAIN s.entity \subseteq Rows
      /\ \A c \in DOMAIN s.done : s.done[c] \in CandidateRow
  BY <1>3, ImageFacts
<1>6. Held(t) = DOMAIN s.done
  BY <1>1 DEF Held
<1> HIDE DEF s, entry
<1>7. /\ DOMAIN s.done \subseteq DOMAIN s.entity
      /\ Stored(s.subject)
      /\ s.entity[s.subject].status = s.to
      /\ \A c \in DOMAIN s.done :
           /\ Stored(c)
           /\ s.done[c].seat = row[c].seat
           /\ s.done[c].won \in {s.entity[c].won, row[c].won}
           /\ s.done[c].status \in {s.entity[c].status, row[c].status}
           /\ c # s.subject => s.entity[c].won = "lost" /\ s.entity[c].status = "NOT_ELECTED"
           /\ s.done[c].won = "won" /\ row[c].won # "won" => row[c].seat = "nomination"
  BY <1>1, <1>2 DEF SavingOK, ShapeOK, EntityOK, DoneOK
<1>8. /\ Append(log[s.subject], entry) \in Seq(EntryRow)
      /\ Append(log[s.subject], entry) # <<>>
      /\ Last(Append(log[s.subject], entry)) = entry
      /\ ToSet(Append(log[s.subject], entry)) = ToSet(log[s.subject]) \cup {entry}
  BY <1>3, Appended
<1>9. /\ log' \in [Rows -> Seq(EntryRow)]
      /\ log'[s.subject] = Append(log[s.subject], entry)
      /\ \A c \in Rows : c # s.subject => log'[c] = log[c]
  BY <1>3, <1>4, <1>8 DEF NominationTypeOK
<1>10. row' \in [Rows -> CandidateRow]
  BY <1>4, <1>5 DEF NominationTypeOK
<1>11. /\ Last(log'[s.subject]) = entry /\ log'[s.subject] # <<>>
       /\ ToSet(log'[s.subject]) = Entries(s.subject) \cup {entry}
       /\ \A c \in Rows : Entries(c) \subseteq Entries(c)'
  <2>1. \A c \in Rows : Entries(c)' = ToSet(log'[c])
    BY DEF Entries
  <2> QED
    BY <1>3, <1>8, <1>9, <2>1 DEF Entries
<1>12. ASSUME NEW c \in Rows
       PROVE  /\ row'[c].seat = row[c].seat
              /\ ~Stored(c) => row'[c] = row[c]
              /\ c \notin Held(t) => row'[c] = row[c]
              /\ c # s.subject => /\ row'[c].status \in {"NOT_ELECTED", row[c].status}
                                  /\ row'[c].won \in {"lost", row[c].won}
              /\ decidedBy'[c] = IF row'[c].won # row[c].won THEN t ELSE decidedBy[c]
              /\ row'[c].won = "won" /\ row[c].won # "won" => row[c].seat = "nomination"
  BY <1>4, <1>6, <1>7
<1>13. row'[s.subject].status \in {s.to, row[s.subject].status}
  BY <1>3, <1>4, <1>7
<1>14. Fine(t, s, row'[s.subject].status)
  BY <1>1, <1>2, <1>3, <1>4 DEF SubjectOK
<1>15. ASSUME t \notin Changes, NEW a \in Rows \ {s.subject},
              row[a].won = "won", row'[a].won = "won", ~SkippedOnce(a)
       PROVE  Together(decidedBy[a], t, alongside)
  <2>1. ~(a \in DOMAIN s.done /\ s.done[a].won # "won")
    BY <1>4, <1>15
  <2> QED
    BY <1>1, <1>2, <1>15, <2>1 DEF LosersOK
<1> QED
  BY <1>1, <1>3, <1>7, <1>9, <1>10, <1>11, <1>12, <1>13, <1>14, <1>15 DEF s, entry

\* A commit and what another request has read and locked.
LEMMA CommitBeside ==
    ASSUME NominationInv, NEW t \in Savers, SaveCommit(t), NEW q \in Savers \ {t}
    PROVE  SaverOK(q, save[q])'
<1> USE DEF NominationInv
<1> DEFINE s == save[t]
<1>1. /\ save' = [save EXCEPT ![t] = Over] /\ alongside' = alongside
  BY DEF SaveCommit
<1>2. /\ save'[q] = save[q] /\ SaverOK(q, save[q])
  BY <1>1 DEF NominationTypeOK
<1>3. /\ SavesNow(t) /\ s.subject \in Rows
      /\ \A c \in Rows :
           /\ row'[c].seat = row[c].seat
           /\ c \notin Held(t) => row'[c] = row[c]
           /\ c # s.subject => row'[c].status \in {"NOT_ELECTED", row[c].status}
           /\ Entries(c) \subseteq Entries(c)'
           /\ decidedBy'[c] = IF row'[c].won # row[c].won THEN t ELSE decidedBy[c]
      /\ row'[s.subject].status \in {s.to, row[s.subject].status}
      /\ ToSet(log'[s.subject]) = Entries(s.subject) \cup {Entry(s.to, t)}
  BY CommitFacts
<1> HIDE DEF s
<1>4. Held(q) \cap Held(t) = {}
  BY DEF SaversInv
<1>5. /\ \A c \in Rows : Stored(c)' <=> Stored(c)
      /\ \A c \in Rows : SkippedOnce(c) => SkippedOnce(c)'
  BY <1>3 DEF Stored, SkippedOnce
<1>6. CASE save[q].stage = "siblings"
  <2>1. save[q].subject \in Rows
    BY <1>6, SaverKinds DEF SiblingsRow
  <2> QED
    BY <1>2, <1>3, <1>6, <2>1 DEF SaverOK, SiblingsOK, SavingOK, SubjectOK, LosersOK
<1>7. CASE save[q].stage \in {"load", "write"}
  <2>1. save[q] \in SavingRow /\ SavesNow(q)
    BY <1>7, SaverKinds
  <2>2. /\ DOMAIN save[q].entity \subseteq Rows /\ DOMAIN save[q].done \subseteq Rows
        /\ save[q].subject \in Rows /\ save[q].now \in Rows
    BY <2>1, ImageFacts DEF SavingRow
  <2>3. \A c \in DOMAIN save[q].done : row'[c] = row[c]
    BY <1>3, <1>4, <1>7, <2>2 DEF Held
  <2>4. SiblingsOK(save[q])'
    BY <1>2, <1>7 DEF SiblingsOK
  <2>5. SavingOK(q, save[q])'
    <3>1. ShapeOK(save[q]) /\ EntityOK(q, save[q]) /\ DoneOK(save[q])
      BY <1>2, <1>7 DEF SaverOK, SavingOK
    <3>2. ShapeOK(save[q])'
      BY <1>2, <1>3, <2>2, <3>1 DEF ShapeOK
    <3>3. EntityOK(q, save[q])'
      <4>1. \A c \in DOMAIN save[q].entity : Stored(c)' /\ save[q].entity[c].seat = row'[c].seat
        BY <1>3, <1>5, <2>2, <3>1 DEF EntityOK
      <4> QED
        BY <1>2, <3>1, <4>1 DEF EntityOK
    <3>4. DoneOK(save[q])'
      BY <1>2, <2>3, <3>1 DEF DoneOK
    <3> QED
      BY <3>2, <3>3, <3>4 DEF SavingOK
  <2>6. Together(t, q, alongside)
    BY <1>3, <2>1 DEF SaversInv
  <2>7. SubjectOK(q, save[q])'
    <3> DEFINE z == save[q]
    <3>1. \A status : Fine(q, z, status) =>
            \/ status \in {z.to, "NOT_ELECTED"}
            \/ \E x \in ToSet(log'[z.subject]) : x.by \in Savers \ {q} /\ Together(x.by, q, alongside')
      BY <1>1, <1>3, <2>2 DEF Fine, Entries
    <3>2. Fine(q, z, row[z.subject].status) =>
            \/ row'[z.subject].status \in {z.to, "NOT_ELECTED"}
            \/ \E x \in ToSet(log'[z.subject]) : x.by \in Savers \ {q} /\ Together(x.by, q, alongside')
      <4>1. CASE z.subject = s.subject
        <5>1. Entry(s.to, t) \in ToSet(log'[z.subject]) /\ Entry(s.to, t).by = t
          BY <1>3, <4>1 DEF Entry
        <5> QED
          BY <1>1, <2>6, <5>1
      <4>2. CASE z.subject # s.subject
        BY <1>3, <2>2, <3>1, <4>2
      <4> QED
        BY <4>1, <4>2
    <3>3. z.subject \in DOMAIN z.done => row'[z.subject] = row[z.subject]
      BY <2>3
    <3>4. SubjectOK(q, z)
      BY <1>2 DEF SaverOK
    <3> HIDE DEF z
    <3>5. ASSUME save'[q] = z
          PROVE  SubjectOK(q, save[q])'
      BY <1>7, <3>1, <3>2, <3>4, <3>5 DEF SubjectOK, Fine, Entries
    <3> QED
      BY <1>2, <3>5 DEF z
  <2>8. LosersOK(q, save[q])'
    <3> SUFFICES ASSUME q \notin Changes, NEW a \in Rows \ {save[q].subject},
                        row'[a].won = "won", ~SkippedOnce(a)'
                 PROVE  \/ Together(decidedBy'[a], q, alongside)
                        \/ a \in save[q].todo
                        \/ save[q].stage = "write" /\ save[q].now = a /\ save[q].loaded.won # "lost"
                        \/ a \in DOMAIN save[q].done /\ save[q].done[a].won # "won"
      BY <1>1, <1>2 DEF LosersOK
    <3>1. CASE row[a].won # "won"
      BY <1>3, <2>6, <3>1
    <3>2. CASE row[a].won = "won"
      <4>1. decidedBy'[a] = decidedBy[a] /\ ~SkippedOnce(a)
        BY <1>3, <1>5, <3>2
      <4> QED
        BY <1>2, <1>7, <3>2, <4>1 DEF SaverOK, LosersOK
    <3> QED
      BY <3>1, <3>2
  <2> QED
    BY <2>4, <2>5, <2>7, <2>8 DEF SaverOK
<1> QED
  BY <1>2, <1>6, <1>7 DEF SaverOK, SiblingsOK, SavingOK, SubjectOK, LosersOK

LEMMA SaveCommitStep ==
    ASSUME NominationInv, NEW t \in Savers, SaveCommit(t)
    PROVE  NominationInv'
<1> USE DEF NominationInv
<1> DEFINE s == save[t]
           entry == Entry(s.to, t)
<1>1. /\ save' = [save EXCEPT ![t] = Over] /\ UNCHANGED <<apply, alongside>>
      /\ save'[t] = Over /\ \A q \in Savers \ {t} : save'[q] = save[q]
  BY DEF SaveCommit, NominationTypeOK
<1>2. /\ s.subject \in Rows /\ Stored(s.subject) /\ entry \in EntryRow
      /\ row' \in [Rows -> CandidateRow] /\ log' \in [Rows -> Seq(EntryRow)]
  BY CommitFacts
<1>3. \A c \in Rows :
        /\ row'[c].seat = row[c].seat
        /\ ~Stored(c) => row'[c] = row[c]
        /\ c # s.subject => /\ row'[c].status \in {"NOT_ELECTED", row[c].status}
                            /\ row'[c].won \in {"lost", row[c].won}
                            /\ log'[c] = log[c]
        /\ Entries(c) \subseteq Entries(c)'
        /\ decidedBy'[c] = IF row'[c].won # row[c].won THEN t ELSE decidedBy[c]
        /\ row'[c].won = "won" /\ row[c].won # "won" => row[c].seat = "nomination"
  BY CommitFacts
<1>4. /\ row'[s.subject].status \in {s.to, row[s.subject].status}
      /\ Last(log'[s.subject]) = entry /\ log'[s.subject] # <<>>
      /\ ToSet(log'[s.subject]) = Entries(s.subject) \cup {entry}
      /\ Fine(t, s, row'[s.subject].status)
      /\ t \notin Changes => \A a \in Rows \ {s.subject} :
           row[a].won = "won" /\ row'[a].won = "won" /\ ~SkippedOnce(a) =>
             Together(decidedBy[a], t, alongside)
  BY CommitFacts
<1>5. entry.to = s.to /\ entry.by = t
  BY DEF Entry
<1> HIDE DEF s, entry
<1>6. NominationTypeOK'
  <2>1. decidedBy' \in [Rows -> Savers \cup {Nobody}]
    BY DEF SaveCommit, NominationTypeOK
  <2> QED
    BY <1>1, <1>2, <2>1 DEF NominationTypeOK
<1>7. \A c \in Rows : /\ Stored(c)' <=> Stored(c)
                      /\ SkippedOnce(c) => SkippedOnce(c)'
  BY <1>3 DEF Stored, SkippedOnce
<1>8. RowsInv'
  <2>1. "NOT_ELECTED" \notin Skipped
    BY DEF Skipped
  <2>2. ASSUME NEW c \in Rows, row'[c].status \in Skipped
        PROVE  SkippedOnce(c)'
    <3>1. CASE row[c].status \in Skipped
      BY <1>7, <3>1 DEF RowsInv
    <3>2. CASE row[c].status \notin Skipped
      <4>1. c = s.subject /\ entry.to \in Skipped /\ entry \in ToSet(log'[c])
        BY <1>3, <1>4, <1>5, <2>1, <2>2, <3>2
      <4> QED
        BY <4>1 DEF SkippedOnce, Entries
    <3> QED
      BY <3>1, <3>2
  <2>3. \A c \in Rows : Stored(c) => log'[c] # <<>>
    BY <1>3, <1>4 DEF RowsInv
  <2>4. \A c \in Rows : row'[c].won = "won" => decidedBy'[c] \in Savers /\ row'[c].seat = "nomination"
    BY <1>3 DEF RowsInv
  <2>5. \A c \in Rows : ~Stored(c) => row'[c] = NoRow
    BY <1>3 DEF RowsInv
  <2>6. \A r \in Inserts : apply[r] # Over => ~Stored(r)'
    BY <1>7 DEF RowsInv, Rows, Inserts
  <2> QED
    BY <1>1, <1>7, <2>2, <2>3, <2>4, <2>5, <2>6 DEF RowsInv
<1>9. SaversInv'
  <2>1. Over # Idle /\ Over.stage \notin {"load", "write"}
    BY DEF Over, Idle
  <2>2. \A q \in Savers : SavesNow(q)' => SavesNow(q)
    BY <1>1 DEF SavesNow
  <2>3. Held(t)' = {} /\ \A q \in Savers \ {t} : Held(q)' = Held(q)
    BY <1>1, <2>1 DEF Held
  <2> QED
    BY <1>1, <2>1, <2>2, <2>3 DEF SaversInv
<1>10. SaverOK(t, save[t])'
  <2>1. save'[t].stage \notin {"siblings", "load", "write"}
    BY <1>1 DEF Over
  <2>2. SiblingsOK(save[t])' /\ SavingOK(t, save[t])'
    BY <2>1 DEF SiblingsOK, SavingOK
  <2>3. SubjectOK(t, save[t])' /\ LosersOK(t, save[t])'
    BY <2>1 DEF SubjectOK, LosersOK
  <2> QED
    BY <2>2, <2>3 DEF SaverOK
<1>11. \A q \in Savers : SaverOK(q, save[q])'
  BY <1>10, CommitBeside
\* The declared winner beside another, who was not made to lose.
<1>12. ASSUME NEW a \in Rows, NEW b \in Rows, a # b, row'[a].won = "won", row'[b].won = "won",
              ~SkippedOnce(a)', t \notin Changes, decidedBy'[b] = t, row[b].won # "won"
       PROVE  Together(decidedBy'[a], t, alongside)
  <2>1. b = s.subject
    BY <1>3, <1>12
  <2>2. CASE row[a].won # "won"
    BY <1>3, <1>12, <2>1, <2>2
  <2>3. CASE row[a].won = "won"
    BY <1>3, <1>4, <1>7, <1>12, <2>1, <2>3
  <2> QED
    BY <2>2, <2>3
<1>13. ASSUME NEW a \in Rows, NEW b \in Rows, a # b, row'[a].won = "won", row'[b].won = "won",
              ~SkippedOnce(a)', ~SkippedOnce(b)',
              decidedBy'[a] \notin Changes, decidedBy'[b] \notin Changes
       PROVE  Together(decidedBy'[a], decidedBy'[b], alongside)
  <2>1. CASE row[b].won # "won"
    BY <1>3, <1>12, <1>13, <2>1
  <2>2. CASE row[a].won # "won"
    <3>1. decidedBy'[a] = t
      BY <1>3, <1>13, <2>2
    <3>2. Together(decidedBy'[b], t, alongside)
      BY <1>12, <1>13, <2>2, <3>1
    <3> QED
      BY <3>1, <3>2 DEF Together
  <2>3. CASE row[a].won = "won" /\ row[b].won = "won"
    <3>1. decidedBy'[a] = decidedBy[a] /\ decidedBy'[b] = decidedBy[b]
      BY <1>3, <1>13, <2>3
    <3>2. ~\E x \in Entries(a) \cup Entries(b) : x.to \in Skipped
      BY <1>7, <1>13 DEF SkippedOnce
    <3> QED
      BY <1>13, <2>3, <3>1, <3>2 DEF OneWinnerUnlessChanged, SavedTogether, Together
  <2> QED
    BY <2>1, <2>2, <2>3
<1>14. OneWinnerUnlessChanged'
  <2> SUFFICES ASSUME NEW a \in Rows, NEW b \in Rows, a # b,
                      row'[a].won = "won", row'[b].won = "won",
                      ~\E x \in Entries(a)' \cup Entries(b)' : x.to \in Skipped,
                      {decidedBy'[a], decidedBy'[b]} \cap Changes = {}
               PROVE  Together(decidedBy'[a], decidedBy'[b], alongside')
    BY DEF OneWinnerUnlessChanged, SavedTogether, Together
  <2>1. ~SkippedOnce(a)' /\ ~SkippedOnce(b)'
    BY DEF SkippedOnce
  <2> QED
    BY <1>1, <1>13, <2>1
<1>15. ASSUME NEW c \in Rows, Stored(c)'
       PROVE  EndsInStatus(c)'
  <2>1. CASE c = s.subject
    <3>1. CASE row'[c].status \in {s.to, "NOT_ELECTED"}
      BY <1>4, <1>5, <2>1, <3>1 DEF EndsInStatus
    <3>2. CASE row'[c].status \notin {s.to, "NOT_ELECTED"}
      <4>1. PICK x \in Entries(c) : x.by \in Savers \ {t} /\ Together(x.by, t, alongside)
        BY <1>4, <2>1, <3>2 DEF Fine
      <4>2. /\ x \in ToSet(log'[c]) /\ x # entry /\ Last(log'[c]) = entry
        BY <1>4, <1>5, <2>1, <4>1
      <4> QED
        BY <1>1, <1>5, <4>1, <4>2 DEF EndsInStatus, Entries
    <3> QED
      BY <3>1, <3>2
  <2>2. CASE c # s.subject
    <3>1. EndsInStatus(c) /\ log'[c] = log[c] /\ row'[c].status \in {"NOT_ELECTED", row[c].status}
      BY <1>3, <1>7, <1>15, <2>2
    <3> QED
      BY <1>1, <3>1 DEF EndsInStatus, Entries
  <2> QED
    BY <2>1, <2>2
<1> QED
  BY <1>6, <1>8, <1>9, <1>11, <1>14, <1>15

-----------------------------------------------------------------------------
(* Candidates: the theorems *)

LEMMA NominationStarts ==
    ASSUME ElectionsInit
    PROVE  NominationInv
<1>1. /\ row = [c \in Rows |-> IF c \in Nominees THEN Candidate("nomination", c) ELSE NoRow]
      /\ log = [c \in Rows |->
           IF c \in Nominees THEN <<Entry("PENDING_NOMINATION", Nobody)>> ELSE <<>>]
      /\ apply = [r \in Inserts |-> Idle]
      /\ save = [t \in Savers |-> Idle]
      /\ decidedBy = [c \in Rows |-> Nobody]
      /\ alongside = [t \in Savers |-> {}]
  BY DEF ElectionsInit, NominationInit, Inserts
<1>2. Entry("PENDING_NOMINATION", Nobody) \in EntryRow
      /\ Entry("PENDING_NOMINATION", Nobody).to = "PENDING_NOMINATION"
  BY DEF Entry, EntryRow
<1> DEFINE entry == Entry("PENDING_NOMINATION", Nobody)
<1>3. <<entry>> \in Seq(EntryRow) /\ <<entry>> # <<>> /\ Last(<<entry>>) = entry
  BY <1>2, FirstEntry
<1>4. \A c \in Nominees : /\ Candidate("nomination", c) \in CandidateRow
                          /\ Candidate("nomination", c).status = "PENDING_NOMINATION"
                          /\ Candidate("nomination", c).won = "undecided"
                          /\ Candidate("nomination", c).seat = "nomination"
  BY RowsTyped, NomineesArePersons DEF Candidate
<1>5. /\ NoRow \in CandidateRow /\ NoRow.seat = "none" /\ NoRow.won = "undecided"
      /\ NoRow.status = "NONE"
  BY RowsTyped DEF NoRow
<1> HIDE DEF entry
<1>6. \A c \in Rows :
        /\ row[c] \in CandidateRow /\ row[c].won = "undecided"
        /\ row[c].status \in {"NONE", "PENDING_NOMINATION"}
        /\ Stored(c) <=> c \in Nominees
        /\ ~Stored(c) => row[c] = NoRow
        /\ Stored(c) => /\ log[c] = <<entry>>
                        /\ row[c].status = "PENDING_NOMINATION"
  BY <1>1, <1>4, <1>5 DEF Stored, entry
<1>7. NominationTypeOK
  <2>1. row \in [Rows -> CandidateRow]
    BY <1>1, <1>6
  <2>2. log \in [Rows -> Seq(EntryRow)]
    BY <1>1, <1>3 DEF entry
  <2> QED
    BY <1>1, <2>1, <2>2 DEF NominationTypeOK
<1>8. RowsInv
  <2>1. \A r \in Inserts : r \notin Nominees /\ r \in Rows
    BY NamesDiffer DEF Inserts, Rows
  <2> QED
    BY <1>3, <1>6, <2>1 DEF RowsInv, Skipped
<1>9. SaversInv
  BY <1>1 DEF SaversInv, SavesNow, Held, Idle
<1>10. \A t \in Savers : SaverOK(t, save[t])
  BY <1>1 DEF Idle, SaverOK, SiblingsOK, SavingOK, SubjectOK, LosersOK
<1>11. OneWinnerUnlessChanged
  BY <1>6 DEF OneWinnerUnlessChanged
<1>12. \A c \in Rows : Stored(c) => EndsInStatus(c)
  BY <1>2, <1>3, <1>6 DEF EndsInStatus, entry
<1> QED
  BY <1>7, <1>8, <1>9, <1>10, <1>11, <1>12 DEF NominationInv

LEMMA NominationStays ==
    ASSUME NominationInv, UNCHANGED nominationVars
    PROVE  NominationInv'
<1> USE DEF NominationInv, nominationVars
<1>1. NominationTypeOK' /\ RowsInv' /\ SaversInv'
  BY DEF NominationTypeOK, RowsInv, SaversInv, SavesNow, Held, Stored, SkippedOnce, Entries
<1>2. \A t \in Savers : SaverOK(t, save[t])'
  BY SaverKeeps
<1>3. OneWinnerUnlessChanged'
  BY DEF OneWinnerUnlessChanged, SavedTogether, Entries
<1>4. \A c \in Rows : Stored(c)' => EndsInStatus(c)'
  BY DEF Stored, EndsInStatus, Entries
<1> QED
  BY <1>1, <1>2, <1>3, <1>4

LEMMA NominationStep ==
    ASSUME NominationInv, NominationNext
    PROVE  NominationInv'
<1>1. CASE \/ \E r \in Registers, seat \in {"nomination", "general"}, person \in Persons :
                RegisterCheck(r, seat, person)
           \/ \E p \in Promotes, c \in Rows : PromoteRead(p, c)
  BY <1>1, ApplySteps
<1>2. ASSUME NEW r \in Inserts, Insert(r)
      PROVE  NominationInv'
  BY <1>2, InsertStep
<1>3. ASSUME NEW d \in Declares, DeclareSiblings(d)
      PROVE  NominationInv'
  BY <1>3, DeclareSiblingsStep
<1>4. ASSUME NEW d \in Declares, NEW c \in Rows, DeclareRead(d, c)
      PROVE  NominationInv'
  BY <1>4, DeclareReadStep
<1>5. ASSUME NEW h \in Changes, NEW c \in Rows, NEW to \in Targets, ChangeFind(h, c, to)
      PROVE  NominationInv'
  BY <1>5, ChangeFindStep
<1>6. ASSUME NEW t \in Savers, SaveRowWrite(t)
      PROVE  NominationInv'
  BY <1>6, RowWritten
<1>7. ASSUME NEW t \in Savers, SaveCommit(t)
      PROVE  NominationInv'
  BY <1>7, SaveCommitStep
<1>8. ASSUME NEW t \in Savers, SaveRollBack(t)
      PROVE  NominationInv'
  BY <1>8, RollBackStep
<1>9. ASSUME NEW t \in Savers, NEW c \in Rows, SaveRowLoad(t, c)
      PROVE  NominationInv'
  BY <1>9, RowPassed, RowLoaded
<1> QED
  BY <1>1, <1>2, <1>3, <1>4, <1>5, <1>6, <1>7, <1>8, <1>9 DEF NominationNext, Inserts

\* The inductive invariant of the candidates holds.
THEOREM NominationInvHolds == ElectionsSpec => []NominationInv
<1>1. ElectionsInit => NominationInv
  BY NominationStarts
<1>2. NominationInv /\ [ElectionsNext]_<<calendarVars, nominationVars>> => NominationInv'
  BY NominationStep, NominationStays DEF ElectionsNext
<1> QED
  BY <1>1, <1>2, PTL DEF ElectionsSpec

\* An office has a second winner only if one of the two had been withdrawn or
\* disqualified, or a status change decided, or the declarations overlap.
THEOREM OneWinnerHolds == ElectionsSpec => []OneWinnerUnlessChanged
<1>1. NominationInv => OneWinnerUnlessChanged
  BY DEF NominationInv
<1> QED
  BY <1>1, NominationInvHolds, PTL

\* The newest entry of a candidate's history tells the status, but for the
\* losers and for requests that overlap.
THEOREM HistoryHolds == ElectionsSpec => []HistoryEndsInStatus
<1>1. ASSUME NominationInv
      PROVE  HistoryEndsInStatus
  <2>1. \A c \in Rows : row[c] # NoRow => EndsInStatus(c)
    BY <1>1 DEF NominationInv, RowsInv
  <2> QED
    BY <2>1 DEF HistoryEndsInStatus, EndsInStatus, SavedTogether, Together
<1> QED
  BY <1>1, NominationInvHolds, PTL

==============================================================================
