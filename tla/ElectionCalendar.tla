--------------------------- MODULE ElectionCalendar ---------------------------
(***************************************************************************)
(* The elections of the Candidate Service: the status of each, and the     *)
(* flag of the one that is active.  activateElection and openVoting are    *)
(* transactions that first take the flag from the other elections of the   *)
(* tenant; every other operation reads an election and saves it.           *)
(*                                                                         *)
(* Isolation is READ COMMITTED: a statement sees what was committed before *)
(* it, and waits for a row that another transaction changed.               *)
(***************************************************************************)
EXTENDS Naturals, FiniteSets

CONSTANTS
    Elections,
    TenantOf,    \* the tenant of each election
    Updates,     \* requests that read an election and save it
    Openings     \* requests that open an election in a transaction

VARIABLES
    election,    \* candidate_elections: status and is_active
    request,     \* how far each request is, and what it read
    opened,      \* the request that gave an election its flag (history)
    during       \* the requests in progress when one began (history)

calendarVars == <<election, request, opened, during>>

Nobody == "NOBODY"

ASSUME NobodyAsksForElections == Nobody \notin Updates \cup Openings

Idle == [stage |-> "idle"]
Over == [stage |-> "over"]

Statuses == {"PLANNING", "NOMINATION", "CAMPAIGN", "ACTIVE", "TALLYING",
             "RESULTS_PUBLISHED", "CLOSED", "CANCELLED"}

\* reached: how far in its calendar each election is; none is active.
CalendarInit(reached) ==
    /\ election = [e \in Elections |-> [status |-> reached[e], active |-> FALSE]]
    /\ request = [r \in Updates \cup Openings |-> Idle]
    /\ opened = [e \in Elections |-> Nobody]
    /\ during = [r \in Updates \cup Openings |-> {}]

-----------------------------------------------------------------------------

\* Saving an entity loads the stored row again and writes the columns in which
\* the entity differs from what was loaded.
Merged(entity, loaded, stored) ==
    [f \in DOMAIN stored |-> IF entity[f] # loaded[f] THEN entity[f] ELSE stored[f]]

InProgress(requests) == {r \in DOMAIN requests : requests[r] \notin {Idle, Over}}

Begin(r, read) ==
    /\ request[r] = Idle
    /\ request' = [request EXCEPT ![r] = read]
    /\ during' = [during EXCEPT ![r] = InProgress(request)]
    /\ UNCHANGED <<election, opened>>

Allowed == {<<"PLANNING", "NOMINATION">>, <<"NOMINATION", "CAMPAIGN">>,
            <<"CAMPAIGN", "ACTIVE">>, <<"ACTIVE", "TALLYING">>,
            <<"TALLYING", "RESULTS_PUBLISHED">>, <<"TALLYING", "ACTIVE">>,
            <<"RESULTS_PUBLISHED", "CLOSED">>}

Ended == {"TALLYING", "RESULTS_PUBLISHED", "CLOSED", "CANCELLED"}

ActiveFlag(to, asRead) ==
    IF to = "ACTIVE" THEN TRUE ELSE IF to \in Ended THEN FALSE ELSE asRead

\* updateElectionStatus and the operations named after a step; cancelElection
\* refuses more, so its updates are among these.
UpdateRead(r, e, to) ==
    /\ to = "CANCELLED" \/ <<election[e].status, to>> \in Allowed
    /\ Begin(r, [stage |-> "load", election |-> e, cleared |-> {},
                 entity |-> [status |-> to, active |-> ActiveFlag(to, election[e].active)]])

\* The bulk update of an opening finds the rows it must change ...
OpenBegin(r, e, checked) ==
    Begin(r, [stage |-> "clear", election |-> e, checked |-> checked,
              found |-> {x \in Elections : /\ TenantOf[x] = TenantOf[e]
                                           /\ election[x].active}])

Cleared(r) ==
    IF request[r].stage \in {"find", "load", "write"} THEN request[r].cleared ELSE {}

LockedFor(r) == UNION {Cleared(q) : q \in DOMAIN request \ {r}}

Proceed(r, next) ==
    /\ request' = [request EXCEPT ![r] = next]
    /\ UNCHANGED <<election, opened, during>>

\* Mutant: the other elections keep the flag.
OpenClearNothing(r) ==
    /\ request[r].stage = "clear"
    /\ Proceed(r, [stage |-> "find", election |-> request[r].election,
                   checked |-> request[r].checked, cleared |-> {}])

\* ... waits for those that are locked, and changes what is still active.
OpenClear(r) ==
    /\ request[r].stage = "clear"
    /\ request[r].found \cap LockedFor(r) = {}
    /\ Proceed(r, [stage |-> "find", election |-> request[r].election,
                   checked |-> request[r].checked,
                   cleared |-> {x \in request[r].found : election[x].active}])

\* What a transaction sees of a row: its own changes as well.
Seen(r, e) ==
    IF e \in Cleared(r) THEN [election[e] EXCEPT !.active = FALSE] ELSE election[e]

\* openVoting asserts the transition, activateElection opens anything.
OpenFind(r) ==
    LET e == request[r].election IN
    /\ request[r].stage = "find"
    /\ request[r].checked => <<Seen(r, e).status, "ACTIVE">> \in Allowed
    /\ Proceed(r, [stage |-> "load", election |-> e, cleared |-> request[r].cleared,
                   entity |-> [status |-> "ACTIVE", active |-> TRUE]])

SaveLoad(r) ==
    LET q == request[r] IN
    /\ q.stage = "load"
    /\ Proceed(r, [stage |-> "write", election |-> q.election, cleared |-> q.cleared,
                   entity |-> q.entity, loaded |-> Seen(r, q.election)])

\* The changed columns are written, and the transaction commits.
SaveWrite(r) ==
    LET q == request[r]
        e == q.election
    IN  /\ q.stage = "write"
        /\ e \notin LockedFor(r)
        /\ election' = [x \in Elections |->
             IF x = e THEN Merged(q.entity, q.loaded, Seen(r, e)) ELSE Seen(r, x)]
        /\ opened' = IF q.entity.active /\ ~q.loaded.active
                       THEN [opened EXCEPT ![e] = r] ELSE opened
        /\ request' = [request EXCEPT ![r] = Over]
        /\ UNCHANGED during

\* A refusal, a deadlock or a lost connection rolls back.
RollBack(r) ==
    /\ r \in InProgress(request)
    /\ Proceed(r, Over)

CalendarNext ==
    \/ \E r \in Updates, e \in Elections,
            to \in {"CANCELLED"} \cup {step[2] : step \in Allowed} : UpdateRead(r, e, to)
    \/ \E r \in Openings, e \in Elections, checked \in BOOLEAN : OpenBegin(r, e, checked)
    \/ \E r \in Openings : OpenClear(r) \/ OpenFind(r) \/ RollBack(r)
    \/ \E r \in Updates \cup Openings : SaveLoad(r) \/ SaveWrite(r)

-----------------------------------------------------------------------------

Overlapped(p, q) == p = q \/ p \in during[q] \/ q \in during[p]

\* "Only one election is active at a time": a second one of the tenant is
\* active only if a status update gave one of the two its flag (it takes no
\* flag away), or the two openings were in progress at the same time.
OneActiveUnlessUpdated ==
    \A a, b \in Elections :
        /\ a # b /\ TenantOf[a] = TenantOf[b]
        /\ election[a].active /\ election[b].active
        => \/ {opened[a], opened[b]} \cap Updates # {}
           \/ Overlapped(opened[a], opened[b])

=============================================================================
