------------------------------ MODULE Nominations ------------------------------
(***************************************************************************)
(* The candidates of the Candidate Service, for one office: a party's      *)
(* nomination for it and the general election the winner is promoted to.   *)
(*                                                                         *)
(* Requests overlap at their awaits.  A declaration and a status change    *)
(* save candidates as they read them, each row loaded again and written in *)
(* turn, in a transaction that keeps its rows locked until it commits.     *)
(* The row a request inserts is named by the request.                      *)
(***************************************************************************)
EXTENDS ElectionCalendar, Sequences, SequencesExt

CONSTANTS
    Primary,     \* the nomination election
    Nominees,    \* its candidates at the start
    Persons,     \* who may stand, they among them
    Registers,   \* requests that register a candidate
    Promotes,    \* requests that promote a winner
    Declares,    \* requests that declare a winner
    Changes,     \* requests that change a candidate's status
    Targets      \* the statuses these ask for

ASSUME NomineesArePersons == Nominees \subseteq Persons

\* Requests and rows have names of their own.
ASSUME NamesDiffer ==
    /\ Nominees \cap (Registers \cup Promotes) = {}
    /\ (Declares \cup Changes) \cap ({Nobody} \cup Registers \cup Promotes) = {}

VARIABLES
    row,         \* candidate_candidates
    log,         \* candidate_status_log, by candidate, in the order of commits
    apply,       \* how far each registration or promotion is
    save,        \* how far each declaration or change is, and what it read
    decidedBy,   \* the request that decided nomination_won (history)
    alongside    \* declarations and changes in progress at its begin (history)

nominationVars == <<row, log, apply, save, decidedBy, alongside>>

Rows == Nominees \cup Registers \cup Promotes
Savers == Declares \cup Changes

NoRow == [status |-> "NONE", won |-> "undecided", seat |-> "none", person |-> Nobody]

Candidate(seat, person) ==
    [status |-> "PENDING_NOMINATION", won |-> "undecided", seat |-> seat, person |-> person]

Entry(to, by) == [to |-> to, by |-> by]

NominationInit ==
    /\ row = [c \in Rows |-> IF c \in Nominees THEN Candidate("nomination", c) ELSE NoRow]
    /\ log = [c \in Rows |->
         IF c \in Nominees THEN <<Entry("PENDING_NOMINATION", Nobody)>> ELSE <<>>]
    /\ apply = [r \in Registers \cup Promotes |-> Idle]
    /\ save = [t \in Savers |-> Idle]
    /\ decidedBy = [c \in Rows |-> Nobody]
    /\ alongside = [t \in Savers |-> {}]

-----------------------------------------------------------------------------
(* registerCandidate and promoteNominationWinner. *)

Standing(seat, person) ==
    {c \in Rows : row[c].seat = seat /\ row[c].person = person}

\* The status of the election is not looked at.
RegisterCheck(r, seat, person) ==
    /\ apply[r] = Idle
    /\ Standing(seat, person) = {}
    /\ apply' = [apply EXCEPT ![r] = [stage |-> "insert", seat |-> seat, person |-> person]]
    /\ UNCHANGED <<row, log, save, decidedBy, alongside>>

\* The party's earlier promotion is looked for under the nomination's position
\* id, which no candidate of the general election has: nothing is found.
PromoteRead(p, c) ==
    /\ apply[p] = Idle
    /\ row[c].seat = "nomination" /\ row[c].won = "won"
    /\ apply' = [apply EXCEPT ![p] =
         [stage |-> "insert", seat |-> "general", person |-> row[c].person]]
    /\ UNCHANGED <<row, log, save, decidedBy, alongside>>

Inserted(r) ==
    /\ row' = [row EXCEPT ![r] = Candidate(apply[r].seat, apply[r].person)]
    /\ log' = [log EXCEPT ![r] = <<Entry("PENDING_NOMINATION", r)>>]
    /\ apply' = [apply EXCEPT ![r] = Over]
    /\ UNCHANGED <<save, decidedBy, alongside>>

\* The unique index on election, position and national id has the last word.
Insert(r) ==
    /\ apply[r] \notin {Idle, Over}
    /\ Standing(apply[r].seat, apply[r].person) = {}
    /\ Inserted(r)

-----------------------------------------------------------------------------
(* declareNominationWinner and updateCandidateStatus. *)

StartSave(t, read) ==
    /\ save[t] = Idle
    /\ save' = [save EXCEPT ![t] = read]
    /\ alongside' = [alongside EXCEPT ![t] = InProgress(save)]
    /\ UNCHANGED <<row, log, apply, decidedBy>>

Decided == {"RESULTS_PUBLISHED", "TALLYING", "CLOSED"}

DeclareRead(d, c) ==
    /\ election[Primary].status \in Decided
    /\ row[c].seat = "nomination"
    /\ StartSave(d, [stage |-> "siblings", subject |-> c, entries |-> Len(log[c]),
                     winner |-> [row[c] EXCEPT !.won = "won", !.status = "ELECTED"]])

Skipped == {"WITHDRAWN", "DISQUALIFIED"}

\* Mutant: only the candidates without a decision lose.
LosersUndecided(c) ==
    {s \in Rows \ {c} : /\ row[s].seat = "nomination"
                        /\ row[s].status \notin Skipped
                        /\ row[s].won = "undecided"}

Losers(c) ==
    {s \in Rows \ {c} : row[s].seat = "nomination" /\ row[s].status \notin Skipped}

\* entries: how long the history was that the entity was read with, if it was.
\* Saving it is refused when there are more, for they would lose their candidate.
Saving(c, entity, entries) ==
    [stage |-> "load", subject |-> c, to |-> entity[c].status, entity |-> entity,
     entries |-> entries, todo |-> DOMAIN entity, now |-> c, loaded |-> NoRow,
     done |-> [x \in {} |-> NoRow]]

DeclareSiblings(d) ==
    LET c == save[d].subject
        entity == [x \in {c} \cup Losers(c) |->
          IF x = c THEN save[d].winner
                   ELSE [row[x] EXCEPT !.won = "lost", !.status = "NOT_ELECTED"]]
    IN  /\ save[d].stage = "siblings"
        /\ save' = [save EXCEPT ![d] = Saving(c, entity, {save[d].entries})]
        /\ UNCHANGED <<row, log, apply, decidedBy, alongside>>

\* PATCH checks no transition; the operations that do check before they begin.
ChangeFind(h, c, to) ==
    /\ row[c] # NoRow
    /\ StartSave(h, Saving(c, [x \in {c} |-> [row[c] EXCEPT !.status = to]], {}))

-----------------------------------------------------------------------------
(* Saving row after row, and the commit. *)

Held(t) == IF save[t].stage \in {"load", "write"} THEN DOMAIN save[t].done ELSE {}

\* The winner is saved first, the losers follow.  A row that is stored as it
\* should be is not written, and so not locked.
SaveRowLoad(t, c) ==
    LET s == save[t] IN
    /\ s.stage = "load" /\ c \in s.todo
    /\ s.subject \in s.todo => c = s.subject /\ \A n \in s.entries : Len(log[c]) = n
    /\ save' = [save EXCEPT ![t] =
         IF s.entity[c] = row[c]
           THEN [s EXCEPT !.todo = @ \ {c}]
           ELSE [s EXCEPT !.stage = "write", !.todo = @ \ {c}, !.now = c, !.loaded = row[c]]]
    /\ UNCHANGED <<row, log, apply, decidedBy, alongside>>

SaveRowWrite(t) ==
    LET s == save[t] IN
    /\ s.stage = "write"
    /\ \A q \in Savers \ {t} : s.now \notin Held(q)
    /\ save' = [save EXCEPT ![t] =
         [s EXCEPT !.stage = "load", !.now = s.subject, !.loaded = NoRow,
                   !.done = [x \in {s.now} \cup DOMAIN s.done |->
                     IF x = s.now THEN Merged(s.entity[x], s.loaded, row[x])
                                  ELSE s.done[x]]]]
    /\ UNCHANGED <<row, log, apply, decidedBy, alongside>>

\* Mutant: a declaration writes no history.
LoggedByChanges(t) ==
    IF t \in Changes
      THEN [log EXCEPT ![save[t].subject] = Append(@, Entry(save[t].to, t))] ELSE log

\* Only the candidate a request is about gets an entry.
Logged(t) == [log EXCEPT ![save[t].subject] = Append(@, Entry(save[t].to, t))]

SaveCommit(t) ==
    LET s == save[t] IN
    /\ s.stage = "load" /\ s.todo = {}
    /\ row' = [c \in Rows |-> IF c \in DOMAIN s.done THEN s.done[c] ELSE row[c]]
    /\ log' = Logged(t)
    /\ decidedBy' = [c \in Rows |->
         IF c \in DOMAIN s.done /\ s.done[c].won # row[c].won THEN t ELSE decidedBy[c]]
    /\ save' = [save EXCEPT ![t] = Over]
    /\ UNCHANGED <<apply, alongside>>

SaveRollBack(t) ==
    /\ t \in InProgress(save)
    /\ save' = [save EXCEPT ![t] = Over]
    /\ UNCHANGED <<row, log, apply, decidedBy, alongside>>

NominationNext ==
    \/ \E r \in Registers, seat \in {"nomination", "general"}, person \in Persons :
         RegisterCheck(r, seat, person)
    \/ \E p \in Promotes, c \in Rows : PromoteRead(p, c)
    \/ \E r \in Registers \cup Promotes : Insert(r)
    \/ \E d \in Declares : DeclareSiblings(d) \/ \E c \in Rows : DeclareRead(d, c)
    \/ \E h \in Changes, c \in Rows, to \in Targets : ChangeFind(h, c, to)
    \/ \E t \in Savers :
         \/ SaveRowWrite(t) \/ SaveCommit(t) \/ SaveRollBack(t)
         \/ \E c \in Rows : SaveRowLoad(t, c)

\* Of the elections, the candidates read the status.
ElectionsInit ==
    /\ \E reached \in [Elections -> Statuses] : CalendarInit(reached)
    /\ NominationInit

ElectionsNext ==
    \/ CalendarNext /\ UNCHANGED nominationVars
    \/ NominationNext /\ UNCHANGED calendarVars

ElectionsSpec == ElectionsInit /\ [][ElectionsNext]_<<calendarVars, nominationVars>>

-----------------------------------------------------------------------------
(* Properties. *)

SavedTogether(s, t) == s = t \/ s \in alongside[t] \/ t \in alongside[s]

Entries(c) == ToSet(log[c])

\* "nominationWon=FALSE on all other candidates": an office has two winners
\* only if one of them had been withdrawn or disqualified, so that a
\* declaration passed him over, or a status change wrote back the decision it
\* had read, or the declarations that decided for them overlap.
OneWinnerUnlessChanged ==
    \A a, b \in Rows :
        a # b /\ row[a].won = "won" /\ row[b].won = "won"
        => \/ \E x \in Entries(a) \cup Entries(b) : x.to \in Skipped
           \/ {decidedBy[a], decidedBy[b]} \cap Changes # {}
           \/ SavedTogether(decidedBy[a], decidedBy[b])

\* "Immutable audit trail of every candidate status transition": the newest
\* entry tells a candidate's status, except that losing leaves no entry and
\* that requests that overlap may log in another order than they write.
HistoryEndsInStatus ==
    \A c \in Rows \ {x \in Rows : row[x] = NoRow} :
        \/ Last(log[c]).to = row[c].status
        \/ row[c].status = "NOT_ELECTED"
        \/ \E x \in Entries(c) \ {Last(log[c])} :
             x.by \in Savers /\ SavedTogether(x.by, Last(log[c]).by)

=============================================================================
