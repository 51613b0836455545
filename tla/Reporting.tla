------------------------------ MODULE Reporting ------------------------------
(***************************************************************************)
(* The Reporting Service: snapshots of the results, recomputed on demand   *)
(* from the evidence tables while these still change, verified and         *)
(* published by officials of the Election Authority.                       *)
(*                                                                         *)
(* A scope (the nation, a county, ..., a station) is the set of stations   *)
(* it consists of, and the figures of a snapshot are represented by the    *)
(* capsules they were added up from.  A request awaits between reading and *)
(* writing; officials work with what they read.                            *)
(***************************************************************************)
EXTENDS EvidenceView, Naturals, FiniteSets

CONSTANTS
    Stations,
    StationOf,   \* the station of each capsule
    Levels,      \* each level divides the stations into scopes
    BATCH,       \* how many snapshots one statement stores
    Computes,    \* requests to compute snapshots
    Verifies,    \* requests to verify a snapshot
    Publishes    \* requests to publish one

ASSUME AreasAssumption ==
    /\ StationOf \in [Capsules -> Stations]
    /\ Levels \subseteq SUBSET SUBSET Stations
ASSUME RequestsAreFinite == IsFiniteSet(Capsules) /\ IsFiniteSet(Publishes)

VARIABLES
    snapshot,     \* reporting_result_snapshots, by scope
    publication,  \* reporting_publications, by the request that made them
    compute, verify, publish,  \* how far each request is
    reviewed,     \* figures an official verified, by scope (history)
    recomputed    \* figures stored over a verified row, by scope (history)

reportingVars ==
    <<snapshot, publication, compute, verify, publish, reviewed, recomputed>>

Scopes == UNION Levels

NoFigures == [counted |-> {}, rejected |-> {}, total |-> 0]

NoSnapshot == [status |-> "NONE", figures |-> NoFigures]

NoPublication == [scope |-> {}, figures |-> NoFigures, version |-> 0, knew |-> {}]

Idle == [stage |-> "idle"]

ReportingInit ==
    /\ snapshot = [s \in Scopes |-> NoSnapshot]
    /\ publication = [p \in Publishes |-> NoPublication]
    /\ compute = [k \in Computes |-> Idle]
    /\ verify = [v \in Verifies |-> Idle]
    /\ publish = [p \in Publishes |-> Idle]
    /\ reviewed = [s \in Scopes |-> {}]
    /\ recomputed = [s \in Scopes |-> {}]

-----------------------------------------------------------------------------
(* computeSnapshots. *)

REPORTING_STATUSES == {"ANCHORED", "PUBLISHED"}

\* One query reads the capsules of the requested area.
Aggregate(area) ==
    {c \in Capsules : capsule[c] # "ABSENT" /\ StationOf[c] \in area}

StationsOf(capsules) == {StationOf[c] : c \in capsules}

BuildSnapshot(rows) ==
    LET reporting == {c \in rows : capsule[c] \in REPORTING_STATUSES}
    IN  [counted  |-> reporting,
         rejected |-> StationsOf({c \in rows : capsule[c] = "REJECTED"}),
         total    |-> Cardinality(StationsOf(rows))]

InScope(rows, s) == {c \in rows : StationOf[c] \in s}

\* Without a level every level is computed, wider scopes than the requested
\* area included.  Nothing is written if there are no capsules.
ComputeRead(k, area, levels) ==
    LET rows == Aggregate(area) IN
    /\ compute[k] = Idle
    /\ rows # {}
    /\ compute' = [compute EXCEPT ![k] =
         [figures |-> [s \in {x \in UNION levels : InScope(rows, x) # {}} |->
                         BuildSnapshot(InScope(rows, s))]]]
    /\ UNCHANGED <<snapshot, publication, verify, publish, reviewed, recomputed>>

Batches(scopes) ==
    {b \in SUBSET scopes :
        Cardinality(b) = BATCH \/ (b = scopes /\ Cardinality(b) \in 1 .. BATCH)}

\* On conflict the figures are updated, the number of stations in the scope
\* and the publication status are not.
Upserted(row, figures) ==
    IF row = NoSnapshot
      THEN [status |-> "DRAFT", figures |-> figures]
      ELSE [row EXCEPT !.figures = [figures EXCEPT !.total = row.figures.total]]

\* One statement stores a batch of snapshots; the next follows, or the request
\* fails in between.
ComputeUpsert(k) ==
    /\ compute[k] # Idle
    /\ \E batch \in Batches(DOMAIN compute[k].figures) :
         LET new(s) == Upserted(snapshot[s], compute[k].figures[s]) IN
         /\ snapshot' = [s \in Scopes |-> IF s \in batch THEN new(s) ELSE snapshot[s]]
         /\ recomputed' = [s \in Scopes |->
              IF s \in batch /\ snapshot[s].status \in {"VERIFIED", "PUBLISHED"}
                THEN recomputed[s] \cup {new(s).figures} ELSE recomputed[s]]
         /\ compute' = [compute EXCEPT ![k].figures =
                          [s \in DOMAIN @ \ batch |-> @[s]]]
    /\ UNCHANGED <<publication, verify, publish, reviewed>>

-----------------------------------------------------------------------------
(* verifySnapshot and publishResults.  Saving the entity that was read       *)
(* writes back every column in which the stored row differs from it.         *)

VerifyRead(v, s) ==
    /\ verify[v] = Idle
    /\ snapshot[s].status = "DRAFT"
    /\ verify' = [verify EXCEPT ![v] = [stage |-> "save", scope |-> s, row |-> snapshot[s]]]
    /\ UNCHANGED <<snapshot, publication, compute, publish, reviewed, recomputed>>

\* Mutant: only the columns that were assigned are written.
VerifySavePartial(v) ==
    /\ verify[v] # Idle /\ verify[v].stage = "save"
    /\ LET s == verify[v].scope IN
         /\ snapshot' = [snapshot EXCEPT ![s].status = "VERIFIED"]
         /\ reviewed' = [reviewed EXCEPT ![s] = @ \cup {verify[v].row.figures}]
    /\ verify' = [verify EXCEPT ![v].stage = "done"]
    /\ UNCHANGED <<publication, compute, publish, recomputed>>

VerifySave(v) ==
    /\ verify[v] # Idle /\ verify[v].stage = "save"
    /\ LET s == verify[v].scope IN
         /\ snapshot' = [snapshot EXCEPT ![s] = [verify[v].row EXCEPT !.status = "VERIFIED"]]
         /\ reviewed' = [reviewed EXCEPT ![s] = @ \cup {verify[v].row.figures}]
    /\ verify' = [verify EXCEPT ![v].stage = "done"]
    /\ UNCHANGED <<publication, compute, publish, recomputed>>

\* A published snapshot may be published again, as a new version.
PublishRead(p, s) ==
    /\ publish[p] = Idle
    /\ snapshot[s].status \in {"VERIFIED", "PUBLISHED"}
    /\ publish' = [publish EXCEPT ![p] = [stage |-> "count", scope |-> s, row |-> snapshot[s]]]
    /\ UNCHANGED <<snapshot, publication, compute, verify, reviewed, recomputed>>

PublicationsOf(s) == {p \in Publishes : publication[p].scope = s}

\* Mutant: the number of earlier publications is not looked up.
PublishCountNone(p) ==
    /\ publish[p] # Idle /\ publish[p].stage = "count"
    /\ publish' = [publish EXCEPT ![p] =
         [stage |-> "save", scope |-> @.scope, row |-> @.row,
          version |-> 1, knew |-> PublicationsOf(@.scope)]]
    /\ UNCHANGED <<snapshot, publication, compute, verify, reviewed, recomputed>>

\* "knew" is history: the publications there were when the number was taken.
PublishCount(p) ==
    /\ publish[p] # Idle /\ publish[p].stage = "count"
    /\ publish' = [publish EXCEPT ![p] =
         [stage |-> "save", scope |-> @.scope, row |-> @.row,
          version |-> Cardinality(PublicationsOf(@.scope)) + 1,
          knew |-> PublicationsOf(@.scope)]]
    /\ UNCHANGED <<snapshot, publication, compute, verify, reviewed, recomputed>>

\* One transaction: the row that was read, now PUBLISHED, and the record.
PublishSave(p) ==
    /\ publish[p] # Idle /\ publish[p].stage = "save"
    /\ LET r == publish[p] IN
         /\ snapshot' = [snapshot EXCEPT ![r.scope] = [r.row EXCEPT !.status = "PUBLISHED"]]
         /\ publication' = [publication EXCEPT ![p] =
              [scope |-> r.scope, figures |-> r.row.figures,
               version |-> r.version, knew |-> r.knew]]
    /\ publish' = [publish EXCEPT ![p] = [stage |-> "done"]]
    /\ UNCHANGED <<compute, verify, reviewed, recomputed>>

ReportingNext ==
    \/ \E k \in Computes : ComputeUpsert(k)
    \/ \E k \in Computes, area \in Scopes, levels \in {Levels} \cup {{l} : l \in Levels} :
         ComputeRead(k, area, levels)
    \/ \E v \in Verifies : VerifySave(v) \/ \E s \in Scopes : VerifyRead(v, s)
    \/ \E p \in Publishes :
         PublishCount(p) \/ PublishSave(p) \/ \E s \in Scopes : PublishRead(p, s)

-----------------------------------------------------------------------------
(* Properties. *)

\* "Only VERIFIED snapshots may be published": what is published was read by
\* an official who verified it, or was stored by a recomputation over a row
\* that was already verified; no stale save or overlap publishes anything else.
UnreviewedNeedsRecompute ==
    \A p \in Publishes :
        LET s == publication[p].scope IN
        s # {} => publication[p].figures \in reviewed[s] \cup recomputed[s]

\* Two publications of a snapshot carry the same version only if neither knew
\* of the other when it took its number.
SameVersionNeedsOverlap ==
    \A p, q \in Publishes :
        /\ p # q /\ publication[p].scope # {}
        /\ publication[p].scope = publication[q].scope
        /\ publication[p].version = publication[q].version
        => p \notin publication[q].knew /\ q \notin publication[p].knew

=============================================================================
