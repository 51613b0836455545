----------------------------- MODULE MCFieldWork -----------------------------
(***************************************************************************)
(* FieldWork for TLC, and the batches of MCMerkleTree.  A behaviour        *)
(* exercises one desk: how the phone comes by an assignment, what becomes  *)
(* of a form, or the tree.  A form is judged by what the store and the     *)
(* table of assignments hold, however it came there.                       *)
(***************************************************************************)
EXTENDS FieldWork, MCMerkleTree

CONSTANTS
    e1, e2,              \* elections
    ann, ben,            \* agents
    school, hall,        \* stations
    gate, village, town  \* places

VARIABLE desk

vars == <<fieldVars, treeVars, desk>>

MCDistance ==
    [p \in Places |-> [s \in Stations |->
        CASE p = gate -> 400 [] p = village -> 1500 [] p = town -> 3000]]

At(place, vague) == [place |-> place, vague |-> vague]

MCPositions == {At(gate, FALSE), At(village, FALSE), At(town, FALSE), At(town, TRUE)}

Plan(agent, e, stations, radius) ==
    [agent |-> agent, election |-> e, stations |-> stations, radius |-> radius]

MCPlans == {Plan(ann, e1, {school, hall}, 300), Plan(ann, e2, {school}, 500),
            Plan(ann, e2, {school}, 0), Plan(ben, e1, {school}, 1000)}

\* A day of ann's that has begun: the portal made some assignments, and her
\* phone has a copy of one of them, or none.
OnDuty ==
    /\ \E some \in {<<>>} \cup {<<p>> : p \in MCPlans} \cup {<<p, q>> : p, q \in MCPlans} :
         /\ duty = [i \in DOMAIN some |-> Assignment(some[i])]
         /\ Unique(duty)
    /\ store \in {NoAssignment} \cup {Assignment(p) : p \in {q \in MCPlans : q.agent = ann}}
    /\ disk = store
    /\ edits = 0 /\ user = ann /\ screen = "home"
    /\ fetch = [f \in Fetches |-> NoFetch]
    /\ coords = NoFix /\ attach = NoFix
    /\ form = NoForm
    /\ told = FALSE

NoTree == hashes = <<>> /\ other = <<>>

Init ==
    \/ desk = "assignments" /\ FieldInit /\ NoTree
    \/ desk = "forms" /\ OnDuty /\ NoTree
    \/ desk = "tree" /\ FieldInit /\ MCTreeInit

\* The desk of forms closes when its form is accepted.
Next ==
    /\ \/ desk = "assignments" /\ (Portal \/ FetchNext \/ Signing) /\ UNCHANGED treeVars
       \/ /\ desk = "forms" /\ form.stage # "sent"
          /\ (Portal \/ Capturing \/ Signing) /\ UNCHANGED treeVars
       \/ desk = "tree" /\ MCTreeNext /\ UNCHANGED fieldVars
    /\ UNCHANGED desk

Symmetry == Permutations(Fetches)

Spec == Init /\ [][Next]_vars

=============================================================================
