----------------------------- MODULE FieldWork -----------------------------
(***************************************************************************)
(* An agent's day: the portal keeps agent_assignments                      *)
(* (services/identity/src/assignments), the phone a copy of the agent's    *)
(* (apps/agent-mobile/src/store/assignmentStore.ts), by which the geo-fence *)
(* judges a form as it is photographed; the Evidence Service judges it     *)
(* again, by the assignments of the moment, when it arrives.               *)
(*                                                                         *)
(* One phone, which may change hands; one form; agents of one tenant.      *)
(* Assignments never expire: no code sets expires_at.                      *)
(***************************************************************************)
EXTENDS GeoFence, Integers, Sequences

CONSTANTS
    Agents,    \* who may sign in
    Plans,     \* the assignments the portal may make
    Radii,     \* the radii it may change them to
    MaxDuties,   \* most assignments ever made
    MaxEdits,  \* most changes to them
    Fetches,   \* fetches and hydrations in progress at once
    Positions, \* the positions that GPS may find, with their accuracy
    NoAgent     \* no one is signed in

ASSUME PositionsAreFixes == Positions \subseteq Fixes

\* The columns have types; no code checks that a radius is positive.
ASSUME PlansAreTyped ==
    /\ \A p \in Plans : p.agent \in Agents /\ p.stations \subseteq Stations /\ p.radius \in Int
    /\ Radii \subseteq Int

VARIABLES
    duty,      \* agent_assignments, in the order they were made
    edits,    \* changes made to them, up to MaxEdits
    user,     \* who is signed in
    screen,   \* the screen shown
    store,    \* the assignment in the store, in memory
    disk,     \* its copy in AsyncStorage
    fetch,    \* fetches and hydrations in progress
    coords,   \* the position the capture screen knows
    attach,   \* the position that goes with the next form
    form,     \* the form
    told      \* the phone has been told of its user's assignment (history)

portalVars == <<duty, edits>>
cacheVars == <<store, disk, fetch, told>>
captureVars == <<coords, attach, form>>
fieldVars == <<portalVars, user, screen, cacheVars, captureVars>>

Removed == [status |-> "NONE"]
NoFetch == [stage |-> "none"]
NoForm == [stage |-> "none"]

Active(agent) ==
    {i \in DOMAIN duty : duty[i].status = "ACTIVE" /\ duty[i].agent = agent}

\* getMyAssignment, and getActiveAssignment of the Evidence Service.
Newest(agent) ==
    IF Active(agent) = {} THEN NoAssignment
    ELSE duty[CHOOSE i \in Active(agent) : \A j \in Active(agent) : j <= i]

FieldInit ==
    /\ duty = <<>> /\ edits = 0
    /\ user = NoAgent /\ screen = "login"
    /\ store = NoAssignment /\ disk = NoAssignment
    /\ fetch = [f \in Fetches |-> NoFetch]
    /\ coords = NoFix /\ attach = NoFix
    /\ form = NoForm
    /\ told = FALSE

-----------------------------------------------------------------------------
(* The portal.  The unique index on agent, election and status refuses a   *)
(* second row of any status, not only of ACTIVE.                           *)

Unique(rows) ==
    \A i, j \in DOMAIN rows :
        /\ rows[i].status # "NONE" /\ rows[i].status = rows[j].status
        /\ rows[i].agent = rows[j].agent /\ rows[i].election = rows[j].election
        => i = j

Assignment(plan) ==
    [agent |-> plan.agent, election |-> plan.election, stations |-> plan.stations,
     radius |-> plan.radius, status |-> "ACTIVE"]

Assign(plan) ==
    /\ Len(duty) < MaxDuties
    /\ duty' = Append(duty, Assignment(plan))
    /\ Unique(duty')
    /\ UNCHANGED <<edits, user, screen, cacheVars, captureVars>>

Edit(i, changed) ==
    /\ edits < MaxEdits
    /\ duty[i].status # "NONE"
    /\ changed # duty[i]
    /\ duty' = [duty EXCEPT ![i] = changed]
    /\ Unique(duty')
    /\ edits' = edits + 1
    /\ UNCHANGED <<user, screen, cacheVars, captureVars>>

UpdateDuty(i) ==
    \/ \E status \in {"ACTIVE", "SUSPENDED", "COMPLETED"} :
         Edit(i, [duty[i] EXCEPT !.status = status])
    \/ \E radius \in Radii : Edit(i, [duty[i] EXCEPT !.radius = radius])

RemoveDuty(i) == Edit(i, Removed)

-----------------------------------------------------------------------------
(* fetchAssignment and hydrate.  A fetch ends in one step after its answer *)
(* has come: "show" is the write to the store that follows the one to      *)
(* AsyncStorage, "drop" the removal that follows the store's.              *)

Fetching == {f \in Fetches : fetch[f] # NoFetch}

\* Whatever begins now is no longer alone, nor is what was there before.
BeginFetch(f, what) ==
    fetch' = [g \in Fetches |->
        IF g = f THEN what
        ELSE IF fetch[g] = NoFetch THEN NoFetch ELSE [fetch[g] EXCEPT !.alone = FALSE]]

FetchAsk(f) ==
    /\ screen = "home" /\ fetch[f] = NoFetch
    /\ BeginFetch(f, [stage |-> "asked", agent |-> user, answer |-> NoAssignment, alone |-> FALSE])
    /\ UNCHANGED <<portalVars, user, screen, store, disk, told, captureVars>>

FetchServe(f) ==
    /\ fetch[f].stage = "asked"
    /\ fetch' = [fetch EXCEPT ![f].stage = "served", ![f].answer = Newest(fetch[f].agent)]
    /\ UNCHANGED <<portalVars, user, screen, store, disk, told, captureVars>>

\* 404 says that there is no assignment.
FetchArrive(f) ==
    /\ fetch[f].stage = "served"
    /\ \/ /\ fetch[f].answer = NoAssignment
          /\ store' = NoAssignment
          /\ fetch' = [fetch EXCEPT ![f].stage = "drop", ![f].alone = Fetching = {f}]
          /\ UNCHANGED disk
       \/ /\ fetch[f].answer # NoAssignment
          /\ disk' = fetch[f].answer
          /\ fetch' = [fetch EXCEPT ![f].stage = "show", ![f].alone = Fetching = {f}]
          /\ UNCHANGED store
    /\ UNCHANGED <<portalVars, user, screen, told, captureVars>>

\* Any failure, that to remove the copy included, falls back to the copy.
FetchFail(f) ==
    /\ fetch[f].stage \in {"asked", "served", "drop"}
    /\ fetch' = [fetch EXCEPT ![f].stage = "restore", ![f].answer = disk]
    /\ UNCHANGED <<portalVars, user, screen, store, disk, told, captureVars>>

\* On mounting the home screen.
Hydrate(f) ==
    /\ screen = "home" /\ fetch[f] = NoFetch
    /\ BeginFetch(f, [stage |-> "restore", agent |-> user, answer |-> disk, alone |-> FALSE])
    /\ UNCHANGED <<portalVars, user, screen, store, disk, told, captureVars>>

EndFetch(f) ==
    /\ fetch' = [fetch EXCEPT ![f] = NoFetch]
    /\ UNCHANGED <<portalVars, user, screen, captureVars>>

Told(f) == told' = (told \/ (fetch[f].alone /\ fetch[f].agent = user))

FetchShow(f) ==
    /\ fetch[f].stage = "show"
    /\ store' = fetch[f].answer
    /\ Told(f)
    /\ EndFetch(f) /\ UNCHANGED disk

\* Mutant: the store is cleared and the copy stays.
FetchForget(f) ==
    /\ fetch[f].stage = "drop"
    /\ Told(f)
    /\ EndFetch(f) /\ UNCHANGED <<store, disk>>

FetchDrop(f) ==
    /\ fetch[f].stage = "drop"
    /\ disk' = NoAssignment
    /\ Told(f)
    /\ EndFetch(f) /\ UNCHANGED store

Restore(f) ==
    /\ fetch[f].stage = "restore"
    /\ store' = IF fetch[f].answer = NoAssignment THEN store ELSE fetch[f].answer
    /\ EndFetch(f) /\ UNCHANGED <<disk, told>>

-----------------------------------------------------------------------------
(* Signing in and out.  Nothing of the assignment, of the session or of    *)
(* the forms is cleared: clear() and resetSession() are not called here.   *)

SignIn(agent) ==
    /\ user = NoAgent
    /\ user' = agent /\ screen' = "home" /\ told' = FALSE
    /\ UNCHANGED <<portalVars, store, disk, fetch, captureVars>>

SignOut ==
    /\ screen = "home"
    /\ user' = NoAgent /\ screen' = "login" /\ told' = FALSE
    /\ UNCHANGED <<portalVars, store, disk, fetch, captureVars>>

\* Which form is on the screen is known to the screen alone: left before Done,
\* the form is not sent.
Leave == form' = IF form.stage \in {"tapped", "saved"} THEN NoForm ELSE form

\* The app is killed and started again; a token that is still good signs in.
Restart ==
    /\ \/ user' = user /\ UNCHANGED told
       \/ user' = NoAgent /\ told' = FALSE
    /\ screen' = IF user' = NoAgent THEN "login" ELSE "home"
    /\ store' = NoAssignment
    /\ fetch' = [f \in Fetches |-> NoFetch]
    /\ coords' = NoFix /\ attach' = NoFix
    /\ Leave
    /\ UNCHANGED <<portalVars, disk>>

-----------------------------------------------------------------------------
(* The capture screen. *)

\* From the home screen with an assignment, from the review with or without.
OpenCapture ==
    /\ screen = "home" /\ store # NoAssignment
    /\ screen' = "capture" /\ coords' = NoFix
    /\ UNCHANGED <<portalVars, user, cacheVars, attach, form>>

CaptureAnother ==
    /\ screen = "review"
    /\ screen' = "capture" /\ coords' = NoFix /\ attach' = NoFix
    /\ UNCHANGED <<portalVars, user, cacheVars, form>>

LeaveReview ==
    /\ screen = "review"
    /\ screen' = "home" /\ coords' = NoFix /\ attach' = NoFix
    /\ UNCHANGED <<portalVars, user, cacheVars, form>>

\* With the hardware's button, that leaves the session as it is.
Back ==
    /\ screen \in {"capture", "review"} /\ form.stage # "tapped"
    /\ screen' = "home" /\ coords' = NoFix
    /\ Leave
    /\ UNCHANGED <<portalVars, user, cacheVars, attach>>

\* A position goes to the session as well; that it was lost does not.
Locate(fix) ==
    /\ screen = "capture"
    /\ coords' = fix /\ attach' = fix
    /\ UNCHANGED <<portalVars, user, screen, cacheVars, form>>

LoseFix ==
    /\ screen = "capture"
    /\ coords' = NoFix
    /\ UNCHANGED <<portalVars, user, screen, cacheVars, attach, form>>

\* The station was selected now or earlier, by whatever assignment there was.
Tap(station) ==
    LET verdict == PhoneVerdict(store, station, coords) IN
    /\ screen = "capture" /\ form = NoForm
    /\ CanProceed(verdict)
    /\ form' = [stage |-> "tapped", agent |-> user, station |-> station, gps |-> NoFix,
                shown |-> verdict, judged |-> coords, by |-> store,
                outcome |-> "NONE", sender |-> NoAgent, used |-> NoAssignment]
    /\ UNCHANGED <<portalVars, user, screen, cacheVars, coords, attach>>

\* The picture is there: captureFirstPage takes the session as it is now.
Shoot ==
    /\ form.stage = "tapped"
    /\ form' = [form EXCEPT !.stage = "saved", !.gps = attach]
    /\ UNCHANGED <<portalVars, user, screen, cacheVars, coords, attach>>

Done ==
    /\ screen = "capture" /\ form.stage = "saved"
    /\ form' = [form EXCEPT !.stage = "queued"]
    /\ screen' = "review"
    /\ UNCHANGED <<portalVars, user, cacheVars, coords, attach>>

-----------------------------------------------------------------------------
(* The form arrives under the name of whoever is signed in.  A query for   *)
(* the assignment that fails is taken for none.  A refused form is sent    *)
(* again.                                                                  *)

Judged(assignment) ==
    LET verdict == ServerVerdict(assignment, form.station, form.gps) IN
    form' = [form EXCEPT !.stage = IF verdict = "REJECT" THEN "queued" ELSE "sent",
                         !.outcome = verdict, !.sender = user, !.used = assignment]

Submit ==
    /\ user # NoAgent /\ form.stage = "queued"
    /\ Judged(Newest(user)) \/ Judged(NoAssignment)
    /\ UNCHANGED <<portalVars, user, screen, cacheVars, coords, attach>>

-----------------------------------------------------------------------------

Portal ==
    \/ \E plan \in Plans : Assign(plan)
    \/ \E i \in DOMAIN duty : UpdateDuty(i) \/ RemoveDuty(i)

FetchNext ==
    \E f \in Fetches :
        \/ FetchAsk(f) \/ FetchServe(f) \/ FetchArrive(f) \/ FetchFail(f) \/ Hydrate(f)
        \/ FetchShow(f) \/ FetchDrop(f) \/ Restore(f)

Capturing ==
    \/ OpenCapture \/ CaptureAnother \/ LeaveReview \/ Back \/ LoseFix
    \/ \E fix \in Positions : Locate(fix)
    \/ \E station \in Stations : Tap(station)
    \/ Shoot \/ Done \/ Submit

Signing == (\E agent \in Agents : SignIn(agent)) \/ SignOut \/ Restart

FieldNext ==
    Portal \/ FetchNext \/ Capturing \/ Signing

FieldSpec == FieldInit /\ [][FieldNext]_fieldVars

-----------------------------------------------------------------------------
(* Properties. *)

\* Once a fetch of the present user has been answered, with no other fetch or
\* hydration under way from the answer to its end, neither the store nor the
\* copy that every failure falls back to holds another agent's assignment,
\* although signing out clears neither.
OwnAssignment ==
    told => \A a \in {store, disk} \ {NoAssignment} : a.agent = user

\* What the phone said of a form's location holds when the form arrives: none
\* is refused, and none that was WITHIN_RANGE is flagged, unless the assignment
\* is not the one the phone judged by, the position sent is not the one it
\* judged, or it let the form pass with a WARNING because the position was
\* vague or because four times the radius is less than its own limit of
\* 2000 m, or it took a radius of 0 for none.
VerdictsAgree ==
    /\ form.stage \in {"queued", "sent"}
    /\ \/ form.outcome = "REJECT"
       \/ form.outcome = "WARNING" /\ form.shown = "WITHIN_RANGE"
    => \/ form.used # form.by
       \/ form.gps # form.judged
       \/ /\ form.shown = "WARNING"
          /\ form.judged.vague \/ 4 * form.used.radius < GEOFENCE_REJECT_METERS
       \/ form.used.radius = 0

=============================================================================
