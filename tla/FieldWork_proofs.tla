-------------------------- MODULE FieldWork_proofs --------------------------
(***************************************************************************)
(* Proofs about FieldWork, for every set of agents, plans, stations,       *)
(* distances and positions, and any number of fetches at once.  The desks  *)
(* that TLC checks apart are one here: the portal edits assignments, the   *)
(* phone changes hands, and forms are captured and judged all the while.   *)
(***************************************************************************)
EXTENDS FieldWork, SequenceTheorems, WellFoundedInduction, TLAPS

-----------------------------------------------------------------------------
(* Types *)

Assignments ==
    [agent : Agents, election : {p.election : p \in Plans}, stations : SUBSET Stations,
     radius : Int, status : {"ACTIVE", "SUSPENDED", "COMPLETED"}]

Known == Assignments \cup {NoAssignment}

Users == Agents \cup {NoAgent}

Fixed == Fixes \cup {NoFix}

FetchRow ==
    [stage : {"asked", "served", "show", "drop", "restore"}, agent : Users,
     answer : Known, alone : BOOLEAN]

PhoneVerdicts == {"UNASSIGNED", "OUT_OF_RANGE", "NO_STATION_GPS", "NO_GPS", "WARNING", "WITHIN_RANGE"}

Outcomes == {"NONE", "SKIPPED", "PASS", "WARNING", "REJECT"}

FormRow ==
    [stage : {"tapped", "saved", "queued", "sent"}, agent : Users, station : Stations,
     gps : Fixed, shown : PhoneVerdicts, judged : Fixed, by : Known,
     outcome : Outcomes, sender : Users, used : Known]

FieldTypeOK ==
    /\ duty \in Seq(Assignments \cup {Removed})
    /\ user \in Users
    /\ store \in Known /\ disk \in Known
    /\ fetch \in [Fetches -> FetchRow \cup {NoFetch}]
    /\ coords \in Fixed /\ attach \in Fixed
    /\ form \in FormRow \cup {NoForm}
    /\ told \in BOOLEAN

-----------------------------------------------------------------------------
(* The inductive invariant *)

OwnedBy(agent, a) == a = NoAssignment \/ a.agent = agent

\* An answer is for the agent who asked; a fetch that is still alone finds the
\* other half of its work as it left it; and once the phone was told, what is
\* under way was begun by the present user.
FetchInv ==
    \A f \in Fetches : fetch[f] # NoFetch =>
        /\ fetch[f].stage \in {"served", "show", "drop"} =>
             OwnedBy(fetch[f].agent, fetch[f].answer)
        /\ fetch[f].stage \in {"show", "drop"} /\ fetch[f].alone =>
             /\ \A g \in Fetches \ {f} : fetch[g] = NoFetch
             /\ fetch[f].stage = "show" => disk = fetch[f].answer
             /\ fetch[f].stage = "drop" => store = NoAssignment
        /\ told => fetch[f].agent = user /\ OwnedBy(user, fetch[f].answer)

OwnInv == told => OwnedBy(user, store) /\ OwnedBy(user, disk)

\* What the two validations said, they said of what the form holds.
FormInv ==
    form # NoForm =>
        /\ form.shown = PhoneVerdict(form.by, form.station, form.judged)
        /\ CanProceed(form.shown)
        /\ form.outcome # "NONE" =>
             /\ form.stage \in {"queued", "sent"}
             /\ form.outcome = ServerVerdict(form.used, form.station, form.gps)

FieldInv == FieldTypeOK /\ FetchInv /\ OwnInv /\ FormInv

-----------------------------------------------------------------------------
(* Lemmas about the operators *)

\* A nonempty set of positions of a sequence has a greatest.
LEMMA SetHasMax ==
    ASSUME NEW n \in Nat, NEW S \in SUBSET (1 .. n), S # {}
    PROVE  \E i \in S : \A j \in S : j <= i
<1> DEFINE T == {n - i : i \in S}
<1>1. T \subseteq Nat /\ T # {}
  <2>1. \A i \in S : n - i \in Nat
    OBVIOUS
  <2>2. T # {}
    OBVIOUS
  <2> QED
    BY <2>1, <2>2
<1> HIDE DEF T
<1>2. PICK x \in T : \A y \in T : <<y, x>> \notin OpToRel(<, Nat)
  BY <1>1, WFMin, NatLessThanWellFounded
<1>3. \A y \in T : ~ (y < x)
  BY <1>1, <1>2 DEF OpToRel
<1>4. PICK i \in S : x = n - i
  BY DEF T
<1>5. \A j \in S : ~ (n - j < n - i)
  BY <1>3, <1>4 DEF T
<1> QED
  BY <1>5

\* The newest active assignment of an agent is the agent's.
LEMMA NewestIsOwn ==
    ASSUME FieldTypeOK, NEW agent
    PROVE  Newest(agent) \in Known /\ OwnedBy(agent, Newest(agent))
<1>1. CASE Active(agent) = {}
  BY <1>1 DEF Newest, Known, OwnedBy
<1>2. CASE Active(agent) # {}
  <2>1. Len(duty) \in Nat /\ DOMAIN duty = 1 .. Len(duty)
        /\ \A i \in DOMAIN duty : duty[i] \in Assignments \cup {Removed}
    BY DEF FieldTypeOK
  <2>2. Active(agent) \in SUBSET (1 .. Len(duty))
    BY <2>1 DEF Active
  <2>3. PICK i \in Active(agent) : \A j \in Active(agent) : j <= i
    BY <1>2, <2>1, <2>2, SetHasMax
  <2> DEFINE m == CHOOSE k \in Active(agent) : \A j \in Active(agent) : j <= k
  <2>4. m \in Active(agent)
    BY <2>3
  <2> HIDE DEF m
  <2>5. duty[m] \in Assignments /\ duty[m].agent = agent
    BY <2>1, <2>4 DEF Active, Removed
  <2> QED
    BY <1>2, <2>5 DEF Newest, Known, OwnedBy, m
<1> QED
  BY <1>1, <1>2

\* The two geo-fences on the same assignment, station and position: the server
\* refuses nothing that the phone let pass, and flags nothing it found within
\* range, but for the gaps named in VerdictsAgree.
LEMMA FencesAgree ==
    ASSUME NEW a \in Known, NEW s \in Stations, NEW fix \in Fixed,
           CanProceed(PhoneVerdict(a, s, fix)), a.radius # 0
    PROVE  /\ ServerVerdict(a, s, fix) = "REJECT" =>
                /\ PhoneVerdict(a, s, fix) = "WARNING"
                /\ fix.vague \/ 4 * a.radius < GEOFENCE_REJECT_METERS
           /\ ServerVerdict(a, s, fix) = "WARNING" => PhoneVerdict(a, s, fix) # "WITHIN_RANGE"
<1>1. CASE a = NoAssignment \/ s \notin a.stations \/ s \notin Mapped \/ fix = NoFix
  BY <1>1 DEF ServerVerdict
<1>2. CASE ~(a = NoAssignment \/ s \notin a.stations \/ s \notin Mapped \/ fix = NoFix)
  <2>1. a.radius \in Int /\ Distance[fix.place][s] \in Nat /\ fix.vague \in BOOLEAN
    BY <1>2, DistanceIsTotal DEF Known, Assignments, Fixed, Fixes
  <2>2. CASE fix.vague
    BY <1>2, <2>1, <2>2 DEF ServerVerdict, PhoneVerdict, HardLimit
  <2>3. CASE ~fix.vague
    BY <1>2, <2>1, <2>3 DEF ServerVerdict, PhoneVerdict, HardLimit, WarnRadius, CanProceed,
       GEOFENCE_REJECT_METERS
  <2> QED
    BY <2>2, <2>3
<1> QED
  BY <1>1, <1>2

LEMMA VerdictsInRange ==
    ASSUME NEW a, NEW s, NEW fix
    PROVE  PhoneVerdict(a, s, fix) \in PhoneVerdicts /\ ServerVerdict(a, s, fix) \in Outcomes \ {"NONE"}
BY DEF PhoneVerdict, ServerVerdict, PhoneVerdicts, Outcomes
-----------------------------------------------------------------------------
(* Steps of the portal *)

LEMMA PortalStep ==
    ASSUME FieldInv, Portal
    PROVE  FieldInv'
<1>1. UNCHANGED <<user, screen, cacheVars, captureVars>> /\ duty' \in Seq(Assignments \cup {Removed})
  <2>1. duty \in Seq(Assignments \cup {Removed})
    BY DEF FieldInv, FieldTypeOK
  <2>2. ASSUME NEW plan \in Plans, Assign(plan)
        PROVE  duty' \in Seq(Assignments \cup {Removed})
    <3>1. Assignment(plan) \in Assignments
      BY PlansAreTyped DEF Assignment, Assignments
    <3> QED
      BY <2>1, <2>2, <3>1 DEF Assign
  <2>3. ASSUME NEW i \in DOMAIN duty, NEW changed \in Assignments \cup {Removed}, Edit(i, changed)
        PROVE  duty' \in Seq(Assignments \cup {Removed})
    <3>1. i \in 1 .. Len(duty) /\ duty' = [duty EXCEPT ![i] = changed]
      BY <2>1, <2>3 DEF Edit
    <3> QED
      BY <2>1, <3>1, ExceptSeq
  <2>4. ASSUME NEW i \in DOMAIN duty, duty[i].status # "NONE"
        PROVE  duty[i] \in Assignments
    BY <2>1, <2>4, ElementOfSeq DEF Removed
  <2>5. ASSUME NEW i \in DOMAIN duty, UpdateDuty(i) \/ RemoveDuty(i)
        PROVE  duty' \in Seq(Assignments \cup {Removed})
    <3>1. duty[i] \in Assignments
      BY <2>4, <2>5 DEF UpdateDuty, RemoveDuty, Edit
    <3>2. ASSUME NEW status \in {"ACTIVE", "SUSPENDED", "COMPLETED"}
          PROVE  [duty[i] EXCEPT !.status = status] \in Assignments
      BY <3>1 DEF Assignments
    <3>3. ASSUME NEW radius \in Radii
          PROVE  [duty[i] EXCEPT !.radius = radius] \in Assignments
      BY <3>1, PlansAreTyped DEF Assignments
    <3> QED
      BY <2>3, <2>5, <3>2, <3>3 DEF UpdateDuty, RemoveDuty
  <2>6. UNCHANGED <<user, screen, cacheVars, captureVars>>
    BY DEF Portal, Assign, UpdateDuty, RemoveDuty, Edit
  <2> QED
    BY <2>2, <2>5, <2>6 DEF Portal
<1>2. UNCHANGED <<user, store, disk, fetch, told, coords, attach, form>>
  BY <1>1 DEF cacheVars, captureVars
<1> QED
  BY <1>1, <1>2 DEF FieldInv, FieldTypeOK, FetchInv, OwnInv, FormInv

-----------------------------------------------------------------------------
(* Steps of the fetches *)

\* Fetches leave the form, the portal and the signing alone.
LEMMA FormStays ==
    ASSUME FormInv, form' = form
    PROVE  FormInv'
BY DEF FormInv

LEMMA TypesStay ==
    ASSUME FieldTypeOK, UNCHANGED <<portalVars, user, captureVars>>,
           store' \in Known, disk' \in Known, told' \in BOOLEAN,
           fetch' \in [Fetches -> FetchRow \cup {NoFetch}]
    PROVE  FieldTypeOK'
BY DEF FieldTypeOK, portalVars, captureVars

\* A fetch or a hydration begins: its answer, if it has one, is the copy.
LEMMA BeginStep ==
    ASSUME FieldInv, NEW f \in Fetches, FetchAsk(f) \/ Hydrate(f)
    PROVE  FieldInv'
<1>1. PICK n \in FetchRow :
        /\ BeginFetch(f, n)
        /\ n.stage \in {"asked", "restore"} /\ n.agent = user
        /\ n.answer \in {NoAssignment, disk}
  <2>1. user \in Users /\ disk \in Known
    BY DEF FieldInv, FieldTypeOK
  <2>2. [stage |-> "asked", agent |-> user, answer |-> NoAssignment, alone |-> FALSE] \in FetchRow
        /\ [stage |-> "restore", agent |-> user, answer |-> disk, alone |-> FALSE] \in FetchRow
    BY <2>1 DEF FetchRow, Known
  <2> QED
    BY <2>2 DEF FetchAsk, Hydrate
<1>2. UNCHANGED <<portalVars, user, screen, store, disk, told, captureVars>>
  BY DEF FetchAsk, Hydrate
<1>3. fetch \in [Fetches -> FetchRow \cup {NoFetch}]
  BY DEF FieldInv, FieldTypeOK
<1>4. /\ fetch' \in [Fetches -> FetchRow \cup {NoFetch}] /\ fetch'[f] = n
      /\ \A g \in Fetches \ {f} :
           \/ fetch[g] = NoFetch /\ fetch'[g] = NoFetch
           \/ /\ fetch[g] # NoFetch
              /\ fetch'[g].stage = fetch[g].stage /\ fetch'[g].agent = fetch[g].agent
              /\ fetch'[g].answer = fetch[g].answer /\ ~fetch'[g].alone
  <2>1. \A g \in Fetches : fetch[g] # NoFetch =>
          /\ [fetch[g] EXCEPT !.alone = FALSE] \in FetchRow
          /\ [fetch[g] EXCEPT !.alone = FALSE].stage = fetch[g].stage
          /\ [fetch[g] EXCEPT !.alone = FALSE].agent = fetch[g].agent
          /\ [fetch[g] EXCEPT !.alone = FALSE].answer = fetch[g].answer
          /\ ~[fetch[g] EXCEPT !.alone = FALSE].alone
    BY <1>3 DEF FetchRow
  <2> QED
    BY <1>1, <1>3, <2>1 DEF BeginFetch
<1>5. FieldTypeOK' /\ FormInv'
  BY <1>2, <1>4, TypesStay, FormStays DEF FieldInv, FieldTypeOK, captureVars
<1>6. OwnInv'
  BY <1>2 DEF FieldInv, OwnInv, OwnedBy
<1>7. FetchInv'
  <2>1. told' = told /\ user' = user
    BY <1>2
  <2>2. told => OwnedBy(user, n.answer)
    BY <1>1 DEF FieldInv, OwnInv, OwnedBy
  <2> QED
    BY <1>1, <1>4, <2>1, <2>2 DEF FieldInv, FetchInv
<1> QED
  BY <1>5, <1>6, <1>7 DEF FieldInv

\* A fetch gets on: the row of f becomes n, the other rows stay.
LEMMA FetchMoves ==
    ASSUME FieldInv, NEW f \in Fetches, NEW n \in FetchRow,
           fetch[f] # NoFetch, fetch' = [fetch EXCEPT ![f] = n],
           n.agent = fetch[f].agent,
           UNCHANGED <<portalVars, user, told, captureVars>>,
           store' \in Known, disk' \in Known,
           n.stage \in {"served", "show", "drop"} => OwnedBy(n.agent, n.answer),
           n.stage \in {"show", "drop"} /\ n.alone =>
             /\ \A g \in Fetches \ {f} : fetch[g] = NoFetch
             /\ n.stage = "show" => disk' = n.answer
             /\ n.stage = "drop" => store' = NoAssignment,
           told => OwnedBy(user, n.answer) /\ OwnedBy(user, store') /\ OwnedBy(user, disk')
    PROVE  FieldInv'
<1>1. /\ fetch' \in [Fetches -> FetchRow \cup {NoFetch}] /\ fetch'[f] = n
      /\ \A g \in Fetches \ {f} : fetch'[g] = fetch[g]
  BY DEF FieldInv, FieldTypeOK
<1>2. FieldTypeOK' /\ FormInv'
  BY <1>1, TypesStay, FormStays DEF FieldInv, FieldTypeOK, captureVars
<1>3. OwnInv'
  BY DEF OwnInv, OwnedBy
<1>4. ASSUME NEW g \in Fetches, fetch'[g] # NoFetch
      PROVE  /\ fetch'[g].stage \in {"served", "show", "drop"} =>
                  OwnedBy(fetch'[g].agent, fetch'[g].answer)
             /\ fetch'[g].stage \in {"show", "drop"} /\ fetch'[g].alone =>
                  /\ \A h \in Fetches \ {g} : fetch'[h] = NoFetch
                  /\ fetch'[g].stage = "show" => disk' = fetch'[g].answer
                  /\ fetch'[g].stage = "drop" => store' = NoAssignment
             /\ told => fetch'[g].agent = user /\ OwnedBy(user, fetch'[g].answer)
  <2>1. CASE g = f
    BY <1>1, <2>1 DEF FieldInv, FetchInv
  <2>2. CASE g # f
    BY <1>1, <1>4, <2>2 DEF FieldInv, FetchInv
  <2> QED
    BY <2>1, <2>2
<1>5. FetchInv'
  BY <1>4 DEF FetchInv
<1> QED
  BY <1>2, <1>3, <1>5 DEF FieldInv
\* What is known of the row of a fetch under way.
LEMMA FetchFacts ==
    ASSUME FieldInv, NEW f \in Fetches, fetch[f].stage # "none"
    PROVE  /\ fetch \in [Fetches -> FetchRow \cup {NoFetch}]
           /\ fetch[f] \in FetchRow /\ fetch[f] # NoFetch
           /\ store \in Known /\ disk \in Known
           /\ told => OwnedBy(user, store) /\ OwnedBy(user, disk)
           /\ told => fetch[f].agent = user /\ OwnedBy(user, fetch[f].answer)
           /\ fetch[f].stage \in {"served", "show", "drop"} =>
                OwnedBy(fetch[f].agent, fetch[f].answer)
BY DEF FieldInv, FieldTypeOK, FetchInv, OwnInv, NoFetch

LEMMA ServeStep ==
    ASSUME FieldInv, NEW f \in Fetches, FetchServe(f)
    PROVE  FieldInv'
<1> DEFINE n == [fetch[f] EXCEPT !.stage = "served", !.answer = Newest(fetch[f].agent)]
<1>1. fetch[f] \in FetchRow /\ fetch[f] # NoFetch
      /\ (told => fetch[f].agent = user /\ OwnedBy(user, store) /\ OwnedBy(user, disk))
      /\ store \in Known /\ disk \in Known
  BY FetchFacts DEF FetchServe
<1>2. Newest(fetch[f].agent) \in Known /\ OwnedBy(fetch[f].agent, Newest(fetch[f].agent))
  BY NewestIsOwn DEF FieldInv
<1>3. n \in FetchRow /\ n.agent = fetch[f].agent /\ n.stage = "served"
      /\ n.answer = Newest(fetch[f].agent)
  BY <1>1, <1>2 DEF FetchRow
<1>4. fetch' = [fetch EXCEPT ![f] = n]
  <2>1. fetch \in [Fetches -> FetchRow \cup {NoFetch}]
    BY DEF FieldInv, FieldTypeOK
  <2> QED
    BY <1>1, <2>1 DEF FetchServe, FetchRow
<1> HIDE DEF n
<1> QED
  BY <1>1, <1>2, <1>3, <1>4, FetchMoves DEF FetchServe

LEMMA ArriveStep ==
    ASSUME FieldInv, NEW f \in Fetches, FetchArrive(f)
    PROVE  FieldInv'
<1> DEFINE alone == Fetching = {f}
           answer == fetch[f].answer
<1>1. PICK stage \in {"show", "drop"} :
        /\ fetch' = [fetch EXCEPT ![f].stage = stage, ![f].alone = alone]
        /\ stage = "drop" => store' = NoAssignment /\ disk' = disk
        /\ stage = "show" => disk' = answer /\ store' = store
  BY DEF FetchArrive
<1>2. /\ fetch \in [Fetches -> FetchRow \cup {NoFetch}]
      /\ fetch[f] \in FetchRow /\ fetch[f] # NoFetch
      /\ store \in Known /\ disk \in Known
      /\ told => OwnedBy(user, store) /\ OwnedBy(user, disk)
      /\ told => fetch[f].agent = user /\ OwnedBy(user, answer)
      /\ OwnedBy(fetch[f].agent, answer)
  BY FetchFacts DEF FetchArrive
<1> DEFINE n == [fetch[f] EXCEPT !.stage = stage, !.alone = alone]
<1> HIDE DEF alone
<1>3. alone \in BOOLEAN /\ (alone => \A g \in Fetches \ {f} : fetch[g] = NoFetch)
  BY DEF alone, Fetching
<1>4. n \in FetchRow /\ n.agent = fetch[f].agent /\ n.stage = stage
      /\ n.answer = answer /\ n.alone = alone
  BY <1>2, <1>3 DEF FetchRow
<1>5. fetch' = [fetch EXCEPT ![f] = n]
  BY <1>1, <1>2 DEF FetchRow
<1> HIDE DEF n
<1>6. answer \in Known /\ OwnedBy(user, NoAssignment) /\ NoAssignment \in Known
  BY <1>2 DEF FetchRow, OwnedBy, Known
<1> HIDE DEF answer
<1>7. store' \in Known /\ disk' \in Known
      /\ (told => OwnedBy(user, store') /\ OwnedBy(user, disk'))
  <2>1. CASE stage = "drop"
    BY <1>1, <1>2, <1>6, <2>1
  <2>2. CASE stage = "show"
    BY <1>1, <1>2, <1>6, <2>2
  <2> QED
    BY <2>1, <2>2
<1>8. UNCHANGED <<portalVars, user, told, captureVars>>
  BY DEF FetchArrive
<1> QED
  BY <1>1, <1>2, <1>3, <1>4, <1>5, <1>7, <1>8, FetchMoves

LEMMA FailStep ==
    ASSUME FieldInv, NEW f \in Fetches, FetchFail(f)
    PROVE  FieldInv'
<1> DEFINE n == [fetch[f] EXCEPT !.stage = "restore", !.answer = disk]
<1>1. /\ fetch \in [Fetches -> FetchRow \cup {NoFetch}]
      /\ fetch[f] \in FetchRow /\ fetch[f] # NoFetch
      /\ store \in Known /\ disk \in Known
      /\ told => OwnedBy(user, store) /\ OwnedBy(user, disk)
  BY FetchFacts DEF FetchFail
<1>2. n \in FetchRow /\ n.agent = fetch[f].agent /\ n.stage = "restore" /\ n.answer = disk
  BY <1>1 DEF FetchRow
<1>3. fetch' = [fetch EXCEPT ![f] = n]
  BY <1>1 DEF FetchFail, FetchRow
<1> HIDE DEF n
<1> QED
  BY <1>1, <1>2, <1>3, FetchMoves DEF FetchFail

\* The fetch ends: the store and the copy are as it leaves them.
LEMMA FetchEnds ==
    ASSUME FieldInv, NEW f \in Fetches, fetch[f] # NoFetch,
           EndFetch(f), store' \in Known, disk' \in Known, told' \in BOOLEAN,
           \A g \in Fetches \ {f} : told' => fetch[g] = NoFetch \/ told,
           told' => OwnedBy(user, store') /\ OwnedBy(user, disk'),
           \A g \in Fetches \ {f} :
             fetch[g] # NoFetch /\ fetch[g].alone => fetch[g].stage \notin {"show", "drop"}
    PROVE  FieldInv'
<1>1. /\ fetch' \in [Fetches -> FetchRow \cup {NoFetch}] /\ fetch'[f] = NoFetch
      /\ \A g \in Fetches \ {f} : fetch'[g] = fetch[g]
  BY DEF FieldInv, FieldTypeOK, EndFetch
<1>2. FieldTypeOK' /\ FormInv'
  BY <1>1, TypesStay, FormStays DEF FieldInv, FieldTypeOK, captureVars, EndFetch
<1>3. user' = user
  BY DEF EndFetch
<1>4. OwnInv'
  BY <1>3 DEF OwnInv, OwnedBy
<1>5. FetchInv'
  BY <1>1, <1>3 DEF FieldInv, FetchInv
<1> QED
  BY <1>2, <1>4, <1>5 DEF FieldInv

\* A fetch alone at its end has the copy, or the store, as it left it.
LEMMA EndSteps ==
    ASSUME FieldInv, NEW f \in Fetches, FetchShow(f) \/ FetchDrop(f) \/ Restore(f)
    PROVE  FieldInv'
<1> DEFINE answer == fetch[f].answer
<1>1. /\ fetch[f] \in FetchRow /\ fetch[f] # NoFetch
      /\ store \in Known /\ disk \in Known
      /\ told => OwnedBy(user, store) /\ OwnedBy(user, disk)
      /\ told => fetch[f].agent = user /\ OwnedBy(user, answer)
      /\ fetch[f].stage \in {"show", "drop"} => OwnedBy(fetch[f].agent, answer)
  BY FetchFacts DEF FetchShow, FetchDrop, Restore
<1>2. told \in BOOLEAN /\ fetch[f].alone \in BOOLEAN /\ answer \in Known /\ NoAssignment \in Known
  BY <1>1 DEF FieldInv, FieldTypeOK, FetchRow, Known
<1>3. \A g \in Fetches \ {f} :
        fetch[g] # NoFetch /\ fetch[g].alone => fetch[g].stage \notin {"show", "drop"}
  BY <1>1 DEF FieldInv, FetchInv
<1>4. OwnedBy(user, NoAssignment)
  BY DEF OwnedBy
<1>5. CASE FetchShow(f)
  <2>1. store' = answer /\ disk' = disk /\ EndFetch(f) /\ told' = (told \/ (fetch[f].alone /\ fetch[f].agent = user))
    BY <1>5 DEF FetchShow, Told
  <2>2. fetch[f].alone => (\A g \in Fetches \ {f} : fetch[g] = NoFetch) /\ disk = answer
    BY <1>1, <1>5 DEF FieldInv, FetchInv, FetchShow
  <2>3. OwnedBy(fetch[f].agent, answer)
    BY <1>1, <1>5 DEF FetchShow
  <2> HIDE DEF answer
  <2>4. told' => OwnedBy(user, store') /\ OwnedBy(user, disk')
    BY <1>1, <2>1, <2>2, <2>3
  <2> QED
    BY <1>1, <1>2, <1>3, <2>1, <2>2, <2>4, FetchEnds
<1>6. CASE FetchDrop(f)
  <2>1. store' = store /\ disk' = NoAssignment /\ EndFetch(f) /\ told' = (told \/ (fetch[f].alone /\ fetch[f].agent = user))
    BY <1>6 DEF FetchDrop, Told
  <2>2. fetch[f].alone => (\A g \in Fetches \ {f} : fetch[g] = NoFetch) /\ store = NoAssignment
    BY <1>1, <1>6 DEF FieldInv, FetchInv, FetchDrop
  <2> HIDE DEF answer
  <2>3. told' => OwnedBy(user, store') /\ OwnedBy(user, disk')
    BY <1>1, <1>4, <2>1, <2>2
  <2> QED
    BY <1>1, <1>2, <1>3, <2>1, <2>2, <2>3, FetchEnds
<1>7. CASE Restore(f)
  <2>1. store' \in {store, answer} /\ disk' = disk /\ told' = told /\ EndFetch(f)
    BY <1>7 DEF Restore
  <2> HIDE DEF answer
  <2> QED
    BY <1>1, <1>2, <1>3, <2>1, FetchEnds
<1> QED
  BY <1>5, <1>6, <1>7
-----------------------------------------------------------------------------
(* Steps of the capture screen and of the submission *)

LEMMA CaptureMoves ==
    ASSUME FieldInv, UNCHANGED <<portalVars, user, cacheVars>>,
           coords' \in Fixed, attach' \in Fixed,
           form' \in FormRow \cup {NoForm}, FormInv'
    PROVE  FieldInv'
<1>1. UNCHANGED <<duty, user, store, disk, fetch, told>>
  BY DEF portalVars, cacheVars
<1> QED
  BY <1>1 DEF FieldInv, FieldTypeOK, FetchInv, OwnInv

LEMMA CaptureFacts ==
    ASSUME FieldInv
    PROVE  /\ user \in Users /\ store \in Known /\ coords \in Fixed /\ attach \in Fixed
           /\ form \in FormRow \cup {NoForm}
           /\ NoFix \in Fixed /\ NoAssignment \in Known
           /\ form.stage # "none" => form \in FormRow /\ form # NoForm
BY DEF FieldInv, FieldTypeOK, Fixed, Known, NoForm

\* Steps that leave the form, or let go of it.
LEMMA ScreenSteps ==
    ASSUME FieldInv,
           \/ OpenCapture \/ CaptureAnother \/ LeaveReview \/ Back \/ LoseFix
           \/ \E fix \in Positions : Locate(fix)
    PROVE  FieldInv'
<1>1. form' \in {form, NoForm}
  BY DEF OpenCapture, CaptureAnother, LeaveReview, Back, Leave, LoseFix, Locate
<1>2. coords' \in Fixed /\ attach' \in Fixed
  BY CaptureFacts, PositionsAreFixes
  DEF OpenCapture, CaptureAnother, LeaveReview, Back, LoseFix, Locate, Fixed
<1>3. UNCHANGED <<portalVars, user, cacheVars>>
  BY DEF OpenCapture, CaptureAnother, LeaveReview, Back, LoseFix, Locate
<1>4. FormInv' /\ form' \in FormRow \cup {NoForm}
  BY <1>1, CaptureFacts DEF FieldInv, FormInv
<1> QED
  BY <1>2, <1>3, <1>4, CaptureMoves

LEMMA TapStep ==
    ASSUME FieldInv, NEW station \in Stations, Tap(station)
    PROVE  FieldInv'
<1> DEFINE verdict == PhoneVerdict(store, station, coords)
           n == [stage |-> "tapped", agent |-> user, station |-> station, gps |-> NoFix,
                 shown |-> verdict, judged |-> coords, by |-> store,
                 outcome |-> "NONE", sender |-> NoAgent, used |-> NoAssignment]
<1>1. form' = n /\ CanProceed(verdict) /\ UNCHANGED <<portalVars, user, cacheVars, coords, attach>>
  BY DEF Tap
<1>2. verdict \in PhoneVerdicts
  BY VerdictsInRange
<1>3. n \in FormRow
  <2> HIDE DEF verdict
  <2> QED
    BY <1>2, CaptureFacts DEF FormRow, Outcomes, Users
<1>4. n.shown = verdict /\ n.by = store /\ n.station = station /\ n.judged = coords
      /\ n.outcome = "NONE"
  OBVIOUS
<1> HIDE DEF n
<1>5. FormInv'
  BY <1>1, <1>4 DEF FormInv
<1> QED
  BY <1>1, <1>3, <1>5, CaptureFacts, CaptureMoves

\* Shoot, Done: the form gets on before anybody judges it.
LEMMA FormSteps ==
    ASSUME FieldInv, Shoot \/ Done
    PROVE  FieldInv'
<1>1. PICK stage \in {"saved", "queued"}, gps \in Fixed :
        /\ form' = [form EXCEPT !.stage = stage, !.gps = gps]
        /\ form.stage \in {"tapped", "saved"}
  <2>1. CASE Shoot
    BY <2>1, CaptureFacts DEF Shoot
  <2>2. CASE Done
    <3>1. form \in FormRow
      BY <2>2, CaptureFacts DEF Done
    <3>2. form.gps \in Fixed /\ [form EXCEPT !.stage = "queued"] = [form EXCEPT !.stage = "queued", !.gps = form.gps]
      BY <3>1 DEF FormRow
    <3> QED
      BY <2>2, <3>2 DEF Done
  <2> QED
    BY <2>1, <2>2
<1>2. form \in FormRow /\ form # NoForm
  BY <1>1, CaptureFacts
<1>3. /\ form' \in FormRow
      /\ form'.shown = form.shown /\ form'.by = form.by /\ form'.station = form.station
      /\ form'.judged = form.judged /\ form'.outcome = form.outcome
  BY <1>1, <1>2 DEF FormRow
<1>4. form.outcome = "NONE"
  BY <1>1, <1>2 DEF FieldInv, FormInv
<1>5. FormInv'
  BY <1>2, <1>3, <1>4 DEF FieldInv, FormInv
<1>6. UNCHANGED <<portalVars, user, cacheVars, coords, attach>>
  BY DEF Shoot, Done
<1> QED
  BY <1>3, <1>5, <1>6, CaptureFacts, CaptureMoves

LEMMA SubmitStep ==
    ASSUME FieldInv, Submit
    PROVE  FieldInv'
<1>1. PICK used \in Known : Judged(used)
  BY NewestIsOwn, CaptureFacts DEF Submit, FieldInv
<1>2. form \in FormRow /\ form # NoForm /\ user \in Users
  BY CaptureFacts DEF Submit
<1> DEFINE verdict == ServerVerdict(used, form.station, form.gps)
           stage == IF verdict = "REJECT" THEN "queued" ELSE "sent"
<1>3. verdict \in Outcomes
  BY VerdictsInRange
<1>4. form' = [form EXCEPT !.stage = stage, !.outcome = verdict, !.sender = user, !.used = used]
  BY <1>1 DEF Judged
<1> HIDE DEF verdict
<1>5. /\ form' \in FormRow /\ form'.stage \in {"queued", "sent"}
      /\ form'.outcome = verdict /\ form'.used = used
      /\ form'.shown = form.shown /\ form'.by = form.by /\ form'.station = form.station
      /\ form'.judged = form.judged /\ form'.gps = form.gps
  BY <1>2, <1>3, <1>4 DEF FormRow
<1>6. FormInv'
  BY <1>2, <1>5 DEF FieldInv, FormInv, verdict
<1>7. UNCHANGED <<portalVars, user, cacheVars, coords, attach>>
  BY DEF Submit
<1> QED
  BY <1>5, <1>6, <1>7, CaptureFacts, CaptureMoves

-----------------------------------------------------------------------------
(* Signing in and out *)

LEMMA SigningStep ==
    ASSUME FieldInv, Signing
    PROVE  FieldInv'
<1>1. NoAgent \in Users /\ Agents \subseteq Users
  BY DEF Users
<1>2. ASSUME NEW agent \in Users, user' = agent, ~told', told' \in BOOLEAN,
             UNCHANGED <<portalVars, store, disk, fetch, captureVars>>
      PROVE  FieldInv'
  <2>1. UNCHANGED <<duty, coords, attach, form>>
    BY <1>2 DEF portalVars, captureVars
  <2> QED
    BY <1>2, <2>1 DEF FieldInv, FieldTypeOK, FetchInv, OwnInv, FormInv
<1>3. CASE (\E agent \in Agents : SignIn(agent)) \/ SignOut
  BY <1>1, <1>2, <1>3 DEF SignIn, SignOut
<1>4. CASE Restart
  <2>1. /\ \/ user' = user /\ told' = told
           \/ user' = NoAgent /\ told' = FALSE
        /\ store' = NoAssignment /\ disk' = disk /\ fetch' = [f \in Fetches |-> NoFetch]
        /\ coords' = NoFix /\ attach' = NoFix /\ form' \in {form, NoForm} /\ duty' = duty
    BY <1>4 DEF Restart, Leave, portalVars
  <2>2. FieldTypeOK'
    BY <1>1, <2>1, CaptureFacts DEF FieldInv, FieldTypeOK
  <2>3. FetchInv' /\ FormInv'
    BY <2>1 DEF FieldInv, FetchInv, FormInv
  <2>4. OwnInv'
    BY <2>1 DEF FieldInv, OwnInv, OwnedBy
  <2> QED
    BY <2>2, <2>3, <2>4 DEF FieldInv
<1> QED
  BY <1>3, <1>4 DEF Signing

-----------------------------------------------------------------------------
(* Theorems *)

LEMMA InitField == FieldInit => FieldInv
<1> SUFFICES ASSUME FieldInit
             PROVE  FieldInv
  OBVIOUS
<1>1. FieldTypeOK
  <2>1. duty \in Seq(Assignments \cup {Removed})
    BY DEF FieldInit
  <2> QED
    BY <2>1 DEF FieldInit, FieldTypeOK, Users, Known, Fixed
<1>2. FetchInv /\ OwnInv /\ FormInv
  BY DEF FieldInit, FetchInv, OwnInv, FormInv
<1> QED
  BY <1>1, <1>2 DEF FieldInv

LEMMA NextField == FieldInv /\ [FieldNext]_fieldVars => FieldInv'
<1> SUFFICES ASSUME FieldInv, [FieldNext]_fieldVars
             PROVE  FieldInv'
  OBVIOUS
<1>1. CASE FetchNext
  <2> PICK f \in Fetches :
        \/ FetchAsk(f) \/ FetchServe(f) \/ FetchArrive(f) \/ FetchFail(f) \/ Hydrate(f)
        \/ FetchShow(f) \/ FetchDrop(f) \/ Restore(f)
    BY <1>1 DEF FetchNext
  <2> QED
    BY BeginStep, ServeStep, ArriveStep, FailStep, EndSteps
<1>2. CASE Capturing
  BY <1>2, ScreenSteps, TapStep, FormSteps, SubmitStep DEF Capturing
<1>3. CASE UNCHANGED fieldVars
  BY <1>3 DEF fieldVars, portalVars, cacheVars, captureVars, FieldInv, FieldTypeOK,
     FetchInv, OwnInv, FormInv
<1> QED
  BY <1>1, <1>2, <1>3, PortalStep, SigningStep DEF FieldNext

THEOREM FieldInvHolds == FieldSpec => []FieldInv
BY InitField, NextField, PTL DEF FieldSpec

\* Signing out clears neither the store nor the copy on the disk, and a fetch
\* of the agent before may still end; yet once the present user's own fetch
\* was answered with no other under way, both hold the user's assignment or
\* none (assignmentStore.ts).
THEOREM OwnAssignmentHolds == FieldSpec => []OwnAssignment
<1>1. FieldInv => OwnAssignment
  BY DEF FieldInv, OwnInv, OwnedBy, OwnAssignment
<1> QED
  BY <1>1, FieldInvHolds, PTL

\* Whatever the radii, the register and the distances are: a form that the
\* phone let pass is not refused by the server, nor flagged if it was within
\* range, but for the gaps that VerdictsAgree names.
THEOREM VerdictsHold == FieldSpec => []VerdictsAgree
<1>1. ASSUME FieldInv, form.stage \in {"queued", "sent"},
             form.used = form.by, form.gps = form.judged, form.used.radius # 0
      PROVE  /\ form.outcome = "REJECT" =>
                  form.shown = "WARNING"
                  /\ (form.judged.vague \/ 4 * form.used.radius < GEOFENCE_REJECT_METERS)
             /\ form.outcome = "WARNING" => form.shown # "WITHIN_RANGE"
  <2>1. form \in FormRow /\ form # NoForm
    BY <1>1, CaptureFacts
  <2>2. form.used \in Known /\ form.station \in Stations /\ form.gps \in Fixed
    BY <2>1 DEF FormRow
  <2>3. /\ form.shown = PhoneVerdict(form.used, form.station, form.gps)
        /\ CanProceed(form.shown)
        /\ form.outcome # "NONE" => form.outcome = ServerVerdict(form.used, form.station, form.gps)
    BY <1>1, <2>1 DEF FieldInv, FormInv
  <2> QED
    BY <1>1, <2>2, <2>3, FencesAgree
<1>2. FieldInv => VerdictsAgree
  BY <1>1 DEF VerdictsAgree
<1> QED
  BY <1>2, FieldInvHolds, PTL

==============================================================================
