--------------------------- MODULE Results_proofs ---------------------------
(***************************************************************************)
(* Proofs about Reporting and Reconciliation, for every set of capsules,   *)
(* stations, forms and requests, however the requests overlap with each    *)
(* other and with the Evidence Service.                                    *)
(***************************************************************************)
EXTENDS Results, FiniteSetTheorems, WellFoundedInduction, TLAPS

-----------------------------------------------------------------------------
(* Reporting: its rows, and what its requests hold *)

Figures == [counted : SUBSET Capsules, rejected : SUBSET Stations, total : Nat]

SnapshotRow == [status : {"NONE", "DRAFT", "VERIFIED", "PUBLISHED"}, figures : Figures]

Publication == [scope   : Scopes \cup {{}}, figures : Figures,
                version : Nat, knew : SUBSET Publishes]

Computing == UNION {[figures : [D -> Figures]] : D \in SUBSET Scopes}

Verifying == [stage : {"save", "done"}, scope : Scopes, row : SnapshotRow]

Counting == [stage : {"count"}, scope : Scopes, row : SnapshotRow]

Saving == [stage : {"save"}, scope : Scopes, row : SnapshotRow,
           version : Nat, knew : SUBSET Publishes]

ReportingTypeOK ==
    /\ snapshot \in [Scopes -> SnapshotRow]
    /\ publication \in [Publishes -> Publication]
    /\ compute \in [Computes -> Computing \cup {Idle}]
    /\ verify \in [Verifies -> Verifying \cup {Idle}]
    /\ publish \in [Publishes -> Counting \cup Saving \cup {Idle, [stage |-> "done"]}]
    /\ reviewed \in [Scopes -> SUBSET Figures]
    /\ recomputed \in [Scopes -> SUBSET Figures]

Answered(s, figures) == figures \in reviewed[s] \cup recomputed[s]

\* What is shown as verified, or is about to be published, somebody answers for.
ReviewedInv ==
    /\ \A s \in Scopes : snapshot[s].status \in {"VERIFIED", "PUBLISHED"} =>
         Answered(s, snapshot[s].figures)
    /\ \A p \in Publishes : publish[p].stage \in {"count", "save"} =>
         Answered(publish[p].scope, publish[p].row.figures)
    /\ \A p \in Publishes : publication[p].scope # {} =>
         Answered(publication[p].scope, publication[p].figures)

\* A version is one more than the publications known when it was taken, of
\* which each knew only such as are known now.
Numbered(scope, version, knew) ==
    scope # {} =>
        /\ version = Cardinality(knew) + 1
        /\ \A q \in knew : publication[q].scope = scope /\ publication[q].knew \subseteq knew

VersionInv ==
    /\ \A p \in Publishes :
         /\ publish[p].stage \in {"idle", "count", "save"} => publication[p] = NoPublication
         /\ publish[p].stage = "save" =>
              Numbered(publish[p].scope, publish[p].version, publish[p].knew)
         /\ Numbered(publication[p].scope, publication[p].version, publication[p].knew)
         /\ publication[p].scope # {} => p \notin publication[p].knew

ReportingInv == ReportingTypeOK /\ ReviewedInv /\ VersionInv
LEMMA InitReporting == ReportingInit => ReportingInv
<1> SUFFICES ASSUME ReportingInit PROVE ReportingInv
  OBVIOUS
<1>1. NoFigures \in Figures
  BY DEF NoFigures, Figures
<1>2. NoSnapshot \in SnapshotRow /\ NoSnapshot.figures = NoFigures /\ NoSnapshot.status = "NONE"
  BY <1>1 DEF NoSnapshot, SnapshotRow
<1>3. /\ NoPublication \in Publication /\ NoPublication.figures = NoFigures
      /\ NoPublication.scope = {} /\ NoPublication.knew = {}
  BY <1>1 DEF NoPublication, Publication
<1>4. ReportingTypeOK
  BY <1>2, <1>3 DEF ReportingInit, ReportingTypeOK
<1>5. ReviewedInv
  BY <1>2, <1>3 DEF ReportingInit, ReviewedInv, Idle
<1>6. VersionInv
  BY <1>3 DEF ReportingInit, VersionInv, Numbered, Idle
<1> QED
  BY <1>4, <1>5, <1>6 DEF ReportingInv

LEMMA ReportingWaits ==
    ASSUME ReportingInv, UNCHANGED reportingVars
    PROVE  ReportingInv'
<1>1. ReportingTypeOK'
  BY DEF ReportingInv, ReportingTypeOK, reportingVars
<1>2. ReviewedInv' /\ VersionInv'
  BY DEF ReportingInv, ReviewedInv, Answered, VersionInv, Numbered, reportingVars
<1> QED
  BY <1>1, <1>2 DEF ReportingInv

LEMMA Built ==
    ASSUME NEW rows \in SUBSET Capsules
    PROVE  BuildSnapshot(rows) \in Figures
<1> DEFINE counted == {c \in rows : capsule[c] \in REPORTING_STATUSES}
           rejected == StationsOf({c \in rows : capsule[c] = "REJECTED"})
           total == Cardinality(StationsOf(rows))
<1>1. BuildSnapshot(rows) = [counted |-> counted, rejected |-> rejected, total |-> total]
  BY DEF BuildSnapshot
<1>2. counted \subseteq Capsules
  OBVIOUS
<1>3. rejected \subseteq Stations
  BY AreasAssumption DEF StationsOf
<1>4. total \in Nat
  <2>1. IsFiniteSet(rows)
    BY RequestsAreFinite, FS_Subset
  <2>2. [c \in rows |-> StationOf[c]] \in Surjection(rows, StationsOf(rows))
    BY DEF Surjection, StationsOf
  <2>3. IsFiniteSet(StationsOf(rows))
    BY <2>1, <2>2, FS_Surjection
  <2> QED
    BY <2>3, FS_CardinalityType
<1> HIDE DEF counted, rejected, total
<1> QED
  BY <1>1, <1>2, <1>3, <1>4 DEF Figures

\* A computation holds the figures of some scopes.
LEMMA Computed ==
    ASSUME ReportingTypeOK, NEW k \in Computes, compute[k] # Idle
    PROVE  /\ compute[k] = [figures |-> compute[k].figures]
           /\ DOMAIN compute[k].figures \subseteq Scopes
           /\ \A s \in DOMAIN compute[k].figures : compute[k].figures[s] \in Figures
<1>1. PICK D \in SUBSET Scopes : compute[k] \in [figures : [D -> Figures]]
  BY DEF ReportingTypeOK, Computing
<1> QED
  BY <1>1

LEMMA ComputingTyped ==
    ASSUME NEW D \in SUBSET Scopes, NEW f \in [D -> Figures]
    PROVE  [figures |-> f] \in Computing /\ [figures |-> f] # Idle
<1>1. [figures |-> f] \in [figures : [D -> Figures]]
  OBVIOUS
<1> QED
  BY <1>1 DEF Computing, Idle

LEMMA ComputeReads ==
    ASSUME ReportingInv, NEW k \in Computes, NEW area,
           NEW levels \in {Levels} \cup {{l} : l \in Levels}, ComputeRead(k, area, levels)
    PROVE  ReportingInv'
<1> DEFINE rows == Aggregate(area)
           D == {x \in UNION levels : InScope(rows, x) # {}}
           f == [s \in D |-> BuildSnapshot(InScope(rows, s))]
<1>1. D \in SUBSET Scopes
  BY DEF Scopes
<1>2. f \in [D -> Figures]
  <2>1. \A s : InScope(rows, s) \in SUBSET Capsules
    BY DEF InScope, Aggregate
  <2> HIDE DEF rows
  <2> QED
    BY <2>1, Built
<1>3. compute' = [compute EXCEPT ![k] = [figures |-> f]]
  BY DEF ComputeRead
<1> HIDE DEF f, D, rows
<1>4. [figures |-> f] \in Computing
  BY <1>1, <1>2, ComputingTyped
<1>5. /\ snapshot' = snapshot /\ publication' = publication /\ verify' = verify
      /\ publish' = publish /\ reviewed' = reviewed /\ recomputed' = recomputed
  BY DEF ComputeRead
<1>6. ReportingTypeOK'
  BY <1>3, <1>4, <1>5 DEF ReportingInv, ReportingTypeOK
<1>7. ReviewedInv' /\ VersionInv'
  BY <1>5 DEF ReportingInv, ReviewedInv, Answered, VersionInv, Numbered
<1> QED
  BY <1>6, <1>7 DEF ReportingInv

\* What a conflicting insert makes of a row.
LEMMA UpsertedRow ==
    ASSUME NEW row \in SnapshotRow, NEW figures \in Figures
    PROVE  LET new == Upserted(row, figures) IN
           /\ new \in SnapshotRow
           /\ new.status \in {"VERIFIED", "PUBLISHED"} =>
                row.status \in {"VERIFIED", "PUBLISHED"}
<1>1. CASE row = NoSnapshot
  BY <1>1 DEF Upserted, SnapshotRow
<1>2. CASE row # NoSnapshot
  <2> DEFINE fs == [figures EXCEPT !.total = row.figures.total]
  <2>1. fs \in Figures
    BY DEF Figures, SnapshotRow
  <2>2. Upserted(row, figures) = [row EXCEPT !.figures = fs]
    BY <1>2 DEF Upserted
  <2> HIDE DEF fs
  <2> QED
    BY <2>1, <2>2 DEF SnapshotRow
<1> QED
  BY <1>1, <1>2

LEMMA ComputeUpserts ==
    ASSUME ReportingInv, NEW k \in Computes, ComputeUpsert(k)
    PROVE  ReportingInv'
<1>1. ReportingTypeOK /\ ReviewedInv /\ VersionInv /\ compute[k] # Idle
  BY DEF ReportingInv, ComputeUpsert
<1> DEFINE held == compute[k].figures
           new(s) == Upserted(snapshot[s], held[s])
<1>2. PICK batch \in Batches(DOMAIN held) :
        /\ snapshot' = [s \in Scopes |-> IF s \in batch THEN new(s) ELSE snapshot[s]]
        /\ recomputed' = [s \in Scopes |->
              IF s \in batch /\ snapshot[s].status \in {"VERIFIED", "PUBLISHED"}
                THEN recomputed[s] \cup {new(s).figures} ELSE recomputed[s]]
        /\ compute' = [compute EXCEPT ![k].figures = [s \in DOMAIN @ \ batch |-> @[s]]]
  BY DEF ComputeUpsert
<1>3. batch \subseteq DOMAIN held /\ DOMAIN held \subseteq Scopes
  BY <1>1, Computed DEF Batches
<1>4. ASSUME NEW s \in batch
      PROVE  /\ new(s) \in SnapshotRow
             /\ new(s).status \in {"VERIFIED", "PUBLISHED"} =>
                  snapshot[s].status \in {"VERIFIED", "PUBLISHED"}
  <2>1. held[s] \in Figures /\ snapshot[s] \in SnapshotRow
    BY <1>1, <1>3, Computed DEF ReportingTypeOK
  <2> HIDE DEF held
  <2> QED
    BY <2>1, UpsertedRow
<1> DEFINE D == DOMAIN held \ batch
           rest == [s \in D |-> held[s]]
<1>5. compute' = [compute EXCEPT ![k] = [figures |-> rest]]
  <2>1. compute[k] = [figures |-> held]
    BY <1>1, Computed
  <2>2. [compute[k] EXCEPT !.figures = rest] = [figures |-> rest]
    <3> HIDE DEF rest, held
    <3> QED BY <2>1
  <2>3. compute' = [compute EXCEPT ![k] = [compute[k] EXCEPT !.figures = rest]]
    BY <1>2
  <2> QED
    BY <2>2, <2>3
<1>6. rest \in [D -> Figures] /\ D \in SUBSET Scopes
  BY <1>1, <1>3, Computed
<1>7. publication' = publication /\ verify' = verify /\ publish' = publish /\ reviewed' = reviewed
  BY DEF ComputeUpsert
<1> HIDE DEF rest, D, held, new
<1>8. [figures |-> rest] \in Computing
  BY <1>6, ComputingTyped
<1>9. ReportingTypeOK'
  <2>1. compute' \in [Computes -> Computing \cup {Idle}]
    BY <1>1, <1>5, <1>8 DEF ReportingTypeOK
  <2>2. snapshot' \in [Scopes -> SnapshotRow]
    BY <1>1, <1>2, <1>4 DEF ReportingTypeOK
  <2>3. recomputed' \in [Scopes -> SUBSET Figures]
    BY <1>1, <1>2, <1>4 DEF ReportingTypeOK, SnapshotRow
  <2> QED
    BY <1>1, <1>7, <2>1, <2>2, <2>3 DEF ReportingTypeOK
<1>10. ReviewedInv'
  <2>1. \A s \in Scopes : recomputed[s] \subseteq recomputed'[s]
    BY <1>2
  <2>2. ASSUME NEW s \in Scopes, snapshot'[s].status \in {"VERIFIED", "PUBLISHED"}
        PROVE  snapshot'[s].figures \in reviewed[s] \cup recomputed'[s]
    BY <1>1, <1>2, <1>4, <2>1, <2>2 DEF ReviewedInv, Answered
  <2>3. \A p \in Publishes : publish[p].stage \in {"count", "save"} => publish[p].scope \in Scopes
    BY <1>1 DEF ReportingTypeOK, Counting, Saving, Idle
  <2>4. \A p \in Publishes : publication[p].scope # {} => publication[p].scope \in Scopes
    BY <1>1 DEF ReportingTypeOK, Publication
  <2> QED
    BY <1>1, <1>7, <2>1, <2>2, <2>3, <2>4 DEF ReviewedInv, Answered
<1>11. VersionInv'
  BY <1>1, <1>7 DEF VersionInv, Numbered
<1> QED
  BY <1>9, <1>10, <1>11 DEF ReportingInv

LEMMA VerifyReads ==
    ASSUME ReportingInv, NEW v \in Verifies, NEW s \in Scopes,
           VerifyRead(v, s)
    PROVE  ReportingInv'
<1>1. ReportingTypeOK /\ ReviewedInv /\ VersionInv
  BY DEF ReportingInv
<1> DEFINE job == [stage |-> "save", scope |-> s, row |-> snapshot[s]]
<1>2. job \in Verifying /\ verify' = [verify EXCEPT ![v] = job]
  BY <1>1 DEF VerifyRead, Verifying, ReportingTypeOK
<1> HIDE DEF job
<1>3. /\ snapshot' = snapshot /\ publication' = publication /\ compute' = compute
      /\ publish' = publish /\ reviewed' = reviewed /\ recomputed' = recomputed
  BY DEF VerifyRead
<1>4. ReportingTypeOK'
  BY <1>1, <1>2, <1>3 DEF ReportingTypeOK
<1>5. ReviewedInv' /\ VersionInv'
  BY <1>1, <1>3 DEF ReviewedInv, Answered, VersionInv, Numbered
<1> QED
  BY <1>4, <1>5 DEF ReportingInv

LEMMA VerifySaves ==
    ASSUME ReportingInv, NEW v \in Verifies, VerifySave(v)
    PROVE  ReportingInv'
<1>1. ReportingTypeOK /\ ReviewedInv /\ VersionInv
  BY DEF ReportingInv
<1>2. verify[v] \in Verifying /\ verify[v] # Idle /\ verify[v].stage = "save"
  BY <1>1 DEF VerifySave, ReportingTypeOK
<1>3. PICK s \in Scopes, row \in SnapshotRow : s = verify[v].scope /\ row = verify[v].row
  BY <1>2 DEF Verifying
<1>4. row.figures \in Figures
  BY <1>3 DEF SnapshotRow
<1> DEFINE new == [row EXCEPT !.status = "VERIFIED"]
           job == [verify[v] EXCEPT !.stage = "done"]
<1>5. new \in SnapshotRow /\ new.figures = row.figures
  BY <1>3 DEF SnapshotRow
<1>6. job \in Verifying /\ job.row = row
  BY <1>2, <1>3 DEF Verifying
<1>7. /\ snapshot' = [snapshot EXCEPT ![s] = new]
      /\ reviewed' = [reviewed EXCEPT ![s] = reviewed[s] \cup {row.figures}]
      /\ verify' = [verify EXCEPT ![v] = job]
  BY <1>1, <1>3 DEF VerifySave, ReportingTypeOK
<1>8. /\ publication' = publication /\ compute' = compute
      /\ publish' = publish /\ recomputed' = recomputed
  BY DEF VerifySave
<1> HIDE DEF new, job
<1>9. ReportingTypeOK'
  BY <1>1, <1>4, <1>5, <1>6, <1>7, <1>8 DEF ReportingTypeOK
<1>10. ReviewedInv'
  <2>1. \A x \in Scopes : reviewed[x] \subseteq reviewed'[x]
    BY <1>1, <1>7 DEF ReportingTypeOK
  <2>2. new.figures \in reviewed'[s]
    BY <1>1, <1>5, <1>7 DEF ReportingTypeOK
  <2>3. \A p \in Publishes : publish[p].stage \in {"count", "save"} => publish[p].scope \in Scopes
    BY <1>1 DEF ReportingTypeOK, Counting, Saving, Idle
  <2>4. \A p \in Publishes : publication[p].scope # {} => publication[p].scope \in Scopes
    BY <1>1 DEF ReportingTypeOK, Publication
  <2>5. ASSUME NEW x \in Scopes, snapshot'[x].status \in {"VERIFIED", "PUBLISHED"}
        PROVE  snapshot'[x].figures \in reviewed'[x] \cup recomputed[x]
    <3>1. CASE x = s
      BY <1>1, <1>7, <2>2, <3>1 DEF ReportingTypeOK
    <3>2. CASE x # s
      BY <1>1, <1>7, <2>1, <2>5, <3>2 DEF ReportingTypeOK, ReviewedInv, Answered
    <3> QED
      BY <3>1, <3>2
  <2> QED
    BY <1>1, <1>8, <2>1, <2>3, <2>4, <2>5 DEF ReviewedInv, Answered
<1>11. VersionInv'
  BY <1>1, <1>8 DEF VersionInv, Numbered
<1> QED
  BY <1>9, <1>10, <1>11 DEF ReportingInv

\* Jobs of a publisher, taken apart.
LEMMA PublishJobs ==
    /\ \A j \in Counting : j.stage = "count" /\ j.scope \in Scopes /\ j.row \in SnapshotRow
    /\ \A j \in Saving : /\ j.stage = "save" /\ j.scope \in Scopes /\ j.row \in SnapshotRow
                         /\ j.version \in Nat /\ j.knew \in SUBSET Publishes
BY DEF Counting, Saving

LEMMA PublishReads ==
    ASSUME ReportingInv, NEW p \in Publishes, NEW s \in Scopes,
           PublishRead(p, s)
    PROVE  ReportingInv'
<1>1. ReportingTypeOK /\ ReviewedInv /\ VersionInv
  BY DEF ReportingInv
<1> DEFINE job == [stage |-> "count", scope |-> s, row |-> snapshot[s]]
<1>2. /\ job \in Counting /\ job.row = snapshot[s] /\ job.scope = s /\ job.stage = "count"
      /\ publish' = [publish EXCEPT ![p] = job]
  BY <1>1 DEF PublishRead, Counting, ReportingTypeOK
<1> HIDE DEF job
<1>3. /\ snapshot' = snapshot /\ publication' = publication /\ compute' = compute
      /\ verify' = verify /\ reviewed' = reviewed /\ recomputed' = recomputed
  BY DEF PublishRead
<1>4. publish[p].stage = "idle" /\ Answered(s, snapshot[s].figures)
  BY <1>1 DEF PublishRead, Idle, ReviewedInv
<1>5. /\ publish'[p] = job
      /\ \A q \in Publishes : q # p => publish'[q] = publish[q]
  BY <1>1, <1>2 DEF ReportingTypeOK
<1>6. ReportingTypeOK'
  BY <1>1, <1>2, <1>3 DEF ReportingTypeOK
<1>7. ReviewedInv'
  BY <1>1, <1>2, <1>3, <1>4, <1>5 DEF ReviewedInv, Answered
<1>8. VersionInv'
  BY <1>1, <1>2, <1>3, <1>4, <1>5 DEF VersionInv, Numbered
<1> QED
  BY <1>6, <1>7, <1>8 DEF ReportingInv

LEMMA PublishCounts ==
    ASSUME ReportingInv, NEW p \in Publishes, PublishCount(p)
    PROVE  ReportingInv'
<1>1. ReportingTypeOK /\ ReviewedInv /\ VersionInv
  BY DEF ReportingInv
<1>2. PICK old : old = publish[p]
  OBVIOUS
<1>3. old \in Counting /\ old.stage = "count" /\ old.scope \in Scopes /\ old.row \in SnapshotRow
  BY <1>1, <1>2, PublishJobs DEF PublishCount, ReportingTypeOK
<1>4. PICK knew : knew = PublicationsOf(old.scope)
  OBVIOUS
<1>5. knew \in SUBSET Publishes /\ Cardinality(knew) + 1 \in Nat
  <2>1. knew \in SUBSET Publishes
    BY <1>4 DEF PublicationsOf
  <2>2. IsFiniteSet(knew)
    BY <2>1, RequestsAreFinite, FS_Subset
  <2>3. Cardinality(knew) \in Nat
    BY <2>2, FS_CardinalityType
  <2> QED
    BY <2>1, <2>3
<1>6. PICK version \in Nat : version = Cardinality(knew) + 1
  BY <1>5
<1> DEFINE job == [stage |-> "save", scope |-> old.scope, row |-> old.row,
                   version |-> version, knew |-> knew]
<1>7. /\ job \in Saving /\ job.stage = "save" /\ job.scope = old.scope /\ job.row = old.row
      /\ job.version = version /\ job.knew = knew
  BY <1>3, <1>5 DEF Saving
<1>8. publish' = [publish EXCEPT ![p] = job]
  BY <1>2, <1>4, <1>6 DEF PublishCount
<1> HIDE DEF job
<1>9. /\ snapshot' = snapshot /\ publication' = publication /\ compute' = compute
      /\ verify' = verify /\ reviewed' = reviewed /\ recomputed' = recomputed
  BY DEF PublishCount
<1>10. /\ publish'[p] = job
       /\ \A q \in Publishes : q # p => publish'[q] = publish[q]
  BY <1>1, <1>8 DEF ReportingTypeOK
<1>11. ReportingTypeOK'
  BY <1>1, <1>7, <1>8, <1>9 DEF ReportingTypeOK
<1>12. ReviewedInv'
  BY <1>1, <1>2, <1>3, <1>7, <1>9, <1>10 DEF ReviewedInv, Answered
<1>13. Numbered(old.scope, version, knew)
  <2> SUFFICES ASSUME old.scope # {}, NEW q \in knew
               PROVE  publication[q].scope = old.scope /\ publication[q].knew \subseteq knew
    BY <1>6 DEF Numbered
  <2>1. q \in Publishes /\ publication[q].scope = old.scope
    BY <1>4 DEF PublicationsOf
  <2>2. ASSUME NEW x \in publication[q].knew PROVE x \in knew
    <3>1. x \in Publishes
      BY <1>1, <2>1, <2>2 DEF ReportingTypeOK, Publication
    <3>2. publication[x].scope = old.scope
      BY <1>1, <2>1, <2>2 DEF VersionInv, Numbered
    <3> QED
      BY <1>4, <3>1, <3>2 DEF PublicationsOf
  <2> QED
    BY <2>1, <2>2
<1>14. VersionInv'
  BY <1>1, <1>2, <1>3, <1>7, <1>9, <1>10, <1>13 DEF VersionInv, Numbered
<1> QED
  BY <1>11, <1>12, <1>14 DEF ReportingInv

LEMMA PublishSaves ==
    ASSUME ReportingInv, NEW p \in Publishes, PublishSave(p)
    PROVE  ReportingInv'
<1>1. ReportingTypeOK /\ ReviewedInv /\ VersionInv
  BY DEF ReportingInv
<1>2. PICK old : old = publish[p]
  OBVIOUS
<1>3. /\ old.stage = "save" /\ old.scope \in Scopes /\ old.row \in SnapshotRow
      /\ old.version \in Nat /\ old.knew \in SUBSET Publishes
  BY <1>1, <1>2, PublishJobs DEF PublishSave, ReportingTypeOK
<1>4. old.row.figures \in Figures /\ Answered(old.scope, old.row.figures)
  BY <1>1, <1>2, <1>3 DEF ReviewedInv, SnapshotRow
<1> DEFINE new == [old.row EXCEPT !.status = "PUBLISHED"]
           made == [scope |-> old.scope, figures |-> old.row.figures,
                    version |-> old.version, knew |-> old.knew]
<1>5. new \in SnapshotRow /\ new.figures = old.row.figures
  BY <1>3 DEF SnapshotRow
<1>6. /\ made \in Publication /\ made.scope = old.scope /\ made.figures = old.row.figures
      /\ made.version = old.version /\ made.knew = old.knew
  BY <1>3, <1>4 DEF Publication
<1>7. /\ snapshot' = [snapshot EXCEPT ![old.scope] = new]
      /\ publication' = [publication EXCEPT ![p] = made]
      /\ publish' = [publish EXCEPT ![p] = [stage |-> "done"]]
  BY <1>2 DEF PublishSave
<1> HIDE DEF new, made
<1>8. /\ compute' = compute /\ verify' = verify /\ reviewed' = reviewed
      /\ recomputed' = recomputed
  BY DEF PublishSave
<1>9. /\ publish'[p].stage = "done" /\ publication'[p] = made
      /\ \A q \in Publishes : q # p => publish'[q] = publish[q] /\ publication'[q] = publication[q]
  BY <1>1, <1>7 DEF ReportingTypeOK
<1>10. ReportingTypeOK'
  BY <1>1, <1>5, <1>6, <1>7, <1>8 DEF ReportingTypeOK
<1>11. \A s \in Scopes : snapshot'[s] = IF s = old.scope THEN new ELSE snapshot[s]
  BY <1>1, <1>7 DEF ReportingTypeOK
<1>12. ReviewedInv'
  BY <1>1, <1>4, <1>5, <1>6, <1>8, <1>9, <1>11 DEF ReviewedInv, Answered
<1>13. VersionInv'
  <2>1. publication[p].scope = {}
    BY <1>1, <1>2, <1>3 DEF VersionInv, NoPublication
  <2>2. ASSUME NEW s \in Scopes, NEW n \in Nat, NEW K \in SUBSET Publishes, Numbered(s, n, K)
        PROVE  /\ s # {} => n = Cardinality(K) + 1
               /\ s # {} => p \notin K
               /\ s # {} => \A q \in K : publication'[q].scope = s /\ publication'[q].knew \subseteq K
    BY <1>9, <2>1, <2>2 DEF Numbered
  <2>3. Numbered(old.scope, old.version, old.knew)
    BY <1>1, <1>2, <1>3 DEF VersionInv
  <2>4. Numbered(made.scope, made.version, made.knew)' /\ (made.scope # {} => p \notin made.knew)
    BY <1>3, <1>6, <2>2, <2>3 DEF Numbered
  <2>5. ASSUME NEW q \in Publishes, q # p
        PROVE  /\ publish[q].stage = "save" =>
                    Numbered(publish[q].scope, publish[q].version, publish[q].knew)'
               /\ Numbered(publication[q].scope, publication[q].version, publication[q].knew)'
    <3>1. publish[q].stage = "save" =>
              /\ publish[q].scope \in Scopes /\ publish[q].version \in Nat
              /\ publish[q].knew \in SUBSET Publishes
      BY <1>1, PublishJobs DEF ReportingTypeOK, Idle
    <3>2. /\ publication[q].scope \in Scopes \cup {{}} /\ publication[q].version \in Nat
          /\ publication[q].knew \in SUBSET Publishes
      BY <1>1 DEF ReportingTypeOK, Publication
    <3> QED
      BY <1>1, <1>9, <2>2, <2>5, <3>1, <3>2 DEF VersionInv, Numbered
  <2> QED
    BY <1>1, <1>9, <2>4, <2>5 DEF VersionInv, Numbered
<1> QED
  BY <1>10, <1>12, <1>13 DEF ReportingInv

LEMMA ReportingStep ==
    ASSUME ReportingInv, ReportingNext
    PROVE  ReportingInv'
BY ComputeReads, ComputeUpserts, VerifyReads, VerifySaves, PublishReads, PublishCounts,
   PublishSaves DEF ReportingNext

-----------------------------------------------------------------------------
(* The sums that forms are compared by: what FoldFunction adds up *)

\* A set of naturals has a least element.
LEMMA Least ==
    ASSUME NEW S \in SUBSET Nat, S # {}
    PROVE  \E n \in S : \A m \in S : n <= m
<1>1. PICK n \in S : \A m \in S : <<m, n>> \notin OpToRel(<, Nat)
  BY WFMin, NatLessThanWellFounded
<1>2. \A m \in S : ~ (m < n)
  BY <1>1 DEF OpToRel
<1> QED
  BY <1>2

\* Induction over the subsets of a finite set, as the absence of a least
\* counterexample.
LEMMA LeastSubset ==
    ASSUME NEW S, IsFiniteSet(S), NEW Bad \in SUBSET SUBSET S, Bad # {}
    PROVE  \E s \in Bad : \A y \in s : s \ {y} \notin Bad
<1>1. \A s \in Bad : IsFiniteSet(s) /\ Cardinality(s) \in Nat
  BY FS_Subset, FS_CardinalityType
<1> DEFINE sizes == {Cardinality(s) : s \in Bad}
<1>2. sizes \in SUBSET Nat /\ sizes # {}
  BY <1>1
<1>3. PICK n \in sizes : \A m \in sizes : n <= m
  BY <1>2, Least
<1>4. PICK s \in Bad : Cardinality(s) = n
  OBVIOUS
<1>5. ASSUME NEW y \in s, s \ {y} \in Bad PROVE FALSE
  <2>1. Cardinality(s \ {y}) = n - 1
    BY <1>1, <1>4, <1>5, FS_RemoveElement
  <2>2. n <= Cardinality(s \ {y})
    BY <1>3, <1>5
  <2> QED
    BY <1>1, <1>4, <2>1, <2>2
<1> QED
  BY <1>5

Pick(s) == CHOOSE x \in s : TRUE

LEMMA PickIn == ASSUME NEW s, s # {} PROVE Pick(s) \in s
BY DEF Pick

\* h adds the values of g over the members of a family of sets, picking one
\* element after another.
Sums(Family, g, h) ==
    /\ DOMAIN h = Family
    /\ \A s \in Family : h[s] = IF s = {} THEN 0 ELSE g[Pick(s)] + h[s \ {Pick(s)}]

UpTo(S, n) == {s \in SUBSET S : Cardinality(s) <= n}

Adding(Family, g, h) == h = [s \in Family |-> IF s = {} THEN 0 ELSE g[Pick(s)] + h[s \ {Pick(s)}]]

LEMMA SumsUpTo ==
    ASSUME NEW S, IsFiniteSet(S), NEW g, NEW n \in Nat
    PROVE  \E h : Adding(UpTo(S, n), g, h)
<1> DEFINE Bad == {k \in Nat : ~ \E h : Adding(UpTo(S, k), g, h)}
<1> SUFFICES ASSUME Bad # {} PROVE FALSE
  OBVIOUS
<1>1. PICK k \in Bad : \A m \in Bad : k <= m
  BY Least
<1>2. \A s \in SUBSET S : IsFiniteSet(s) /\ Cardinality(s) \in Nat
  BY FS_Subset, FS_CardinalityType
<1>3. k # 0
  <2>1. UpTo(S, 0) = {{}}
    BY <1>2, FS_EmptySet DEF UpTo
  <2>2. Adding(UpTo(S, 0), g, [s \in UpTo(S, 0) |-> 0])
    BY <2>1 DEF Adding
  <2> QED
    BY <2>2
<1>4. k - 1 \in Nat /\ k - 1 \notin Bad
  BY <1>1, <1>3
<1>5. PICK h : Adding(UpTo(S, k - 1), g, h)
  BY <1>4
<1> DEFINE next == [s \in UpTo(S, k) |-> IF s = {} THEN 0 ELSE g[Pick(s)] + h[s \ {Pick(s)}]]
<1>6. ASSUME NEW s \in UpTo(S, k), s # {}
      PROVE  s \ {Pick(s)} \in UpTo(S, k - 1) /\ s \ {Pick(s)} \in UpTo(S, k)
  <2>1. Pick(s) \in s
    BY <1>6, PickIn
  <2>2. Cardinality(s \ {Pick(s)}) = Cardinality(s) - 1
    BY <1>2, <2>1, FS_RemoveElement DEF UpTo
  <2> QED
    BY <1>2, <1>4, <2>2 DEF UpTo
<1>7. ASSUME NEW s \in UpTo(S, k - 1) PROVE s \in UpTo(S, k) => next[s] = h[s]
  BY <1>5 DEF Adding
<1>8. Adding(UpTo(S, k), g, next)
  <2>1. \A s \in UpTo(S, k) : s # {} => next[s \ {Pick(s)}] = h[s \ {Pick(s)}]
    BY <1>6, <1>7
  <2> QED
    BY <2>1 DEF Adding
<1> QED
  BY <1>1, <1>8

LEMMA SumsExist ==
    ASSUME NEW S, IsFiniteSet(S), NEW g
    PROVE  \E h : Adding(SUBSET S, g, h)
<1>1. Cardinality(S) \in Nat
  BY FS_CardinalityType
<1>2. UpTo(S, Cardinality(S)) = SUBSET S
  BY FS_Subset DEF UpTo
<1> QED
  BY <1>1, <1>2, SumsUpTo

FoldOf(S, g) == FoldFunctionOnSet(LAMBDA x, y : x + y, 0, g, S)

LEMMA FoldIs ==
    ASSUME NEW S, IsFiniteSet(S), NEW g
    PROVE  \E h : Adding(SUBSET S, g, h) /\ FoldOf(S, g) = h[S]
<1> DEFINE h == CHOOSE h : Adding(SUBSET S, g, h)
<1>1. Adding(SUBSET S, g, h)
  BY SumsExist
<1>2. FoldOf(S, g) = h[S]
  BY DEF FoldOf, FoldFunctionOnSet, MapThenFoldSet, Adding, Pick
<1> QED
  BY <1>1, <1>2

AgreeOn(S, f, g) == \A i \in S : f[i] = g[i]

\* The sum over a set does not depend on the larger set it is part of.
LEMMA SumsAgree ==
    ASSUME NEW S, NEW T, IsFiniteSet(S), T \subseteq S, NEW f, NEW g, NEW h, NEW j,
           Adding(SUBSET S, f, h), Adding(SUBSET T, g, j), AgreeOn(T, f, g)
    PROVE  h[T] = j[T]
<1> DEFINE Bad == {s \in SUBSET T : h[s] # j[s]}
<1> SUFFICES ASSUME Bad # {} PROVE FALSE
  OBVIOUS
<1>1. PICK s \in Bad : \A y \in s : s \ {y} \notin Bad
  <2>1. IsFiniteSet(T) /\ Bad \in SUBSET SUBSET T
    BY FS_Subset
  <2> QED
    BY <2>1, LeastSubset
<1>2. h[s] = (IF s = {} THEN 0 ELSE f[Pick(s)] + h[s \ {Pick(s)}])
  BY DEF Adding
<1>3. j[s] = (IF s = {} THEN 0 ELSE g[Pick(s)] + j[s \ {Pick(s)}])
  BY DEF Adding
<1>4. CASE s = {}
  BY <1>2, <1>3, <1>4
<1>5. CASE s # {}
  <2>1. Pick(s) \in s
    BY <1>5, PickIn
  <2>2. h[s \ {Pick(s)}] = j[s \ {Pick(s)}]
    BY <1>1, <2>1
  <2> QED
    BY <1>2, <1>3, <1>5, <2>1, <2>2 DEF AgreeOn
<1> QED
  BY <1>4, <1>5

\* The sum of g over a set on which it counts.
Sum(S, g) == Total([i \in S |-> g[i]])

LEMMA SumIs ==
    ASSUME NEW S, IsFiniteSet(S), NEW g
    PROVE  \E h : Adding(SUBSET S, [i \in S |-> g[i]], h) /\ Sum(S, g) = h[S]
<1> DEFINE f == [i \in S |-> g[i]]
<1>1. Sum(S, g) = FoldOf(S, f)
  BY DEF Sum, Total, FoldFunction, FoldOf
<1> HIDE DEF f
<1>2. \E h : Adding(SUBSET S, f, h) /\ FoldOf(S, f) = h[S]
  BY FoldIs
<1> QED
  BY <1>1, <1>2 DEF f

LEMMA SumOfNone == ASSUME NEW g PROVE Sum({}, g) = 0
<1>1. PICK h : Adding(SUBSET {}, [i \in {} |-> g[i]], h) /\ Sum({}, g) = h[{}]
  BY SumIs, FS_EmptySet
<1> QED
  BY <1>1 DEF Adding

LEMMA SumPicks ==
    ASSUME NEW S, IsFiniteSet(S), NEW g, S # {}
    PROVE  Pick(S) \in S /\ Sum(S, g) = g[Pick(S)] + Sum(S \ {Pick(S)}, g)
<1> DEFINE T == S \ {Pick(S)}
           f == [i \in S |-> g[i]]
           e == [i \in T |-> g[i]]
<1>1. Pick(S) \in S /\ T \subseteq S /\ IsFiniteSet(T)
  BY PickIn, FS_Subset
<1>2. PICK h : Adding(SUBSET S, f, h) /\ Sum(S, g) = h[S]
  BY SumIs
<1>3. PICK j : Adding(SUBSET T, e, j) /\ Sum(T, g) = j[T]
  BY <1>1, SumIs
<1>4. h[S] = f[Pick(S)] + h[T]
  BY <1>1, <1>2 DEF Adding
<1>5. f[Pick(S)] = g[Pick(S)] /\ AgreeOn(T, f, e)
  BY <1>1 DEF AgreeOn
<1> HIDE DEF T, f, e
<1>6. h[T] = j[T]
  BY <1>1, <1>2, <1>3, <1>5, SumsAgree
<1> QED
  BY <1>1, <1>2, <1>3, <1>4, <1>5, <1>6 DEF T

Counts(S, g) == \A i \in S : g[i] \in Nat

LEMMA SumCounts ==
    ASSUME NEW S, IsFiniteSet(S), NEW g, Counts(S, g)
    PROVE  Sum(S, g) \in Nat
<1> DEFINE Bad == {s \in SUBSET S : Sum(s, g) \notin Nat}
<1> SUFFICES ASSUME Bad # {} PROVE FALSE
  OBVIOUS
<1>1. PICK s \in Bad : \A y \in s : s \ {y} \notin Bad
  BY LeastSubset
<1>2. s # {}
  BY SumOfNone
<1>3. IsFiniteSet(s)
  BY FS_Subset
<1>4. Pick(s) \in s /\ Sum(s, g) = g[Pick(s)] + Sum(s \ {Pick(s)}, g)
  BY <1>2, <1>3, SumPicks
<1>5. g[Pick(s)] \in Nat /\ Sum(s \ {Pick(s)}, g) \in Nat
  BY <1>1, <1>4 DEF Counts
<1> QED
  BY <1>4, <1>5

\* Any member of the set may be the first that is added.
LEMMA SumTakes ==
    ASSUME NEW S, IsFiniteSet(S), NEW g, Counts(S, g), NEW y \in S
    PROVE  Sum(S, g) = g[y] + Sum(S \ {y}, g)
<1> DEFINE Good(s) == \A x \in s : Sum(s, g) = g[x] + Sum(s \ {x}, g)
           Bad == {s \in SUBSET S : ~ Good(s)}
<1> SUFFICES ASSUME Bad # {} PROVE FALSE
  OBVIOUS
<1>1. PICK s \in Bad : \A x \in s : s \ {x} \notin Bad
  BY LeastSubset
<1>2. IsFiniteSet(s) /\ s \subseteq S /\ s # {}
  BY FS_Subset
<1>3. PICK p \in s : Sum(s, g) = g[p] + Sum(s \ {p}, g)
  BY <1>2, SumPicks
<1>4. ASSUME NEW x \in s, x # p PROVE Sum(s, g) = g[x] + Sum(s \ {x}, g)
  <2> DEFINE rest == (s \ {p}) \ {x}
  <2>1. (s \ {x}) \ {p} = rest
    OBVIOUS
  <2>2. Sum(s \ {p}, g) = g[x] + Sum(rest, g)
    BY <1>1, <1>4
  <2>3. Sum(s \ {x}, g) = g[p] + Sum(rest, g)
    BY <1>1, <1>4, <2>1
  <2>4. Sum(rest, g) \in Nat
    BY <1>2, FS_Subset, SumCounts DEF Counts
  <2>5. g[p] \in Nat /\ g[x] \in Nat
    BY <1>2 DEF Counts
  <2> HIDE DEF rest
  <2> QED
    BY <1>3, <2>2, <2>3, <2>4, <2>5
<1> QED
  BY <1>1, <1>3, <1>4

\* Equal values add up to the same.
LEMMA SumSame ==
    ASSUME NEW S, NEW f, NEW g, AgreeOn(S, f, g)
    PROVE  Sum(S, f) = Sum(S, g)
<1>1. [i \in S |-> f[i]] = [i \in S |-> g[i]]
  BY DEF AgreeOn
<1> QED
  BY <1>1 DEF Sum

\* Nothing but zeros adds up to zero, and the other way round.
Zeros(S, g) == \A i \in S : g[i] = 0

LEMMA SumOfZeros ==
    ASSUME NEW S, IsFiniteSet(S), NEW g, Counts(S, g)
    PROVE  Sum(S, g) = 0 <=> Zeros(S, g)
<1>1. ASSUME Sum(S, g) = 0, NEW y \in S PROVE g[y] = 0
  <2>1. Sum(S, g) = g[y] + Sum(S \ {y}, g)
    BY SumTakes
  <2>2. Sum(S \ {y}, g) \in Nat /\ g[y] \in Nat
    BY FS_Subset, SumCounts DEF Counts
  <2> QED
    BY <1>1, <2>1, <2>2
<1>2. ASSUME Zeros(S, g) PROVE Sum(S, g) = 0
  <2> DEFINE Bad == {s \in SUBSET S : Sum(s, g) # 0}
  <2> SUFFICES ASSUME Bad # {} PROVE FALSE
    OBVIOUS
  <2>1. PICK s \in Bad : \A y \in s : s \ {y} \notin Bad
    BY LeastSubset
  <2>2. PICK y \in s : Sum(s, g) = g[y] + Sum(s \ {y}, g)
    <3>1. s # {} /\ IsFiniteSet(s)
      BY SumOfNone, FS_Subset
    <3> QED
      BY <3>1, SumPicks
  <2>3. Sum(s \ {y}, g) = 0 /\ g[y] = 0
    BY <1>2, <2>1 DEF Zeros
  <2> QED
    BY <2>2, <2>3
<1> QED
  BY <1>1, <1>2 DEF Zeros

\* A sum is that of a part and that of the rest.
LEMMA SumSplits ==
    ASSUME NEW S, IsFiniteSet(S), NEW g, Counts(S, g), NEW D \in SUBSET S
    PROVE  Sum(S, g) = Sum(D, g) + Sum(S \ D, g)
<1> DEFINE Bad == {d \in SUBSET S : Sum(S, g) # Sum(d, g) + Sum(S \ d, g)}
<1> SUFFICES ASSUME Bad # {} PROVE FALSE
  OBVIOUS
<1>1. PICK d \in Bad : \A y \in d : d \ {y} \notin Bad
  BY LeastSubset
<1>2. ASSUME NEW s \in SUBSET S
      PROVE  IsFiniteSet(s) /\ Counts(s, g) /\ Sum(s, g) \in Nat
  <2>1. IsFiniteSet(s) /\ Counts(s, g)
    BY FS_Subset DEF Counts
  <2> QED
    BY <2>1, SumCounts
<1>3. CASE d = {}
  <2>1. S \ d = S /\ Sum(d, g) = 0
    BY <1>3, SumOfNone
  <2> QED
    BY <1>2, <2>1
<1>4. CASE d # {}
  <2>1. PICK y \in d : TRUE
    BY <1>4
  <2>2. Sum(S, g) = Sum(d \ {y}, g) + Sum(S \ (d \ {y}), g)
    BY <1>1, <2>1
  <2>3. Sum(d, g) = g[y] + Sum(d \ {y}, g)
    BY <1>2, SumTakes
  <2>4. Sum(S \ (d \ {y}), g) = g[y] + Sum(S \ d, g)
    <3> DEFINE e == S \ (d \ {y})
    <3>1. e \in SUBSET S /\ y \in e /\ e \ {y} = S \ d
      OBVIOUS
    <3>2. Sum(e, g) = g[y] + Sum(e \ {y}, g)
      BY <1>2, <3>1, SumTakes
    <3> QED
      BY <3>1, <3>2
  <2>5. g[y] \in Nat /\ Sum(d \ {y}, g) \in Nat /\ Sum(S \ d, g) \in Nat
    BY <1>2 DEF Counts
  <2>6. Sum(S, g) = Sum(d, g) + Sum(S \ d, g)
    BY <2>2, <2>3, <2>4, <2>5
  <2> QED
    BY <2>6
<1> QED
  BY <1>3, <1>4

Adds(S, f, g, h) == \A i \in S : h[i] = f[i] + g[i]

\* The sum of sums.
LEMMA SumAdds ==
    ASSUME NEW S, IsFiniteSet(S), NEW f, NEW g, NEW h,
           Counts(S, f), Counts(S, g), Adds(S, f, g, h)
    PROVE  Sum(S, h) = Sum(S, f) + Sum(S, g)
<1> DEFINE Bad == {s \in SUBSET S : Sum(s, h) # Sum(s, f) + Sum(s, g)}
<1> SUFFICES ASSUME Bad # {} PROVE FALSE
  OBVIOUS
<1>1. PICK s \in Bad : \A y \in s : s \ {y} \notin Bad
  BY LeastSubset
<1>2. IsFiniteSet(s) /\ Counts(s, f) /\ Counts(s, g) /\ Counts(s, h)
  BY FS_Subset DEF Counts, Adds
<1>3. s # {}
  BY SumOfNone
<1>4. PICK y \in s : TRUE
  BY <1>3
<1>5. /\ Sum(s, f) = f[y] + Sum(s \ {y}, f)
      /\ Sum(s, g) = g[y] + Sum(s \ {y}, g)
      /\ Sum(s, h) = h[y] + Sum(s \ {y}, h)
  BY <1>2, SumTakes
<1>6. IsFiniteSet(s \ {y}) /\ Counts(s \ {y}, f) /\ Counts(s \ {y}, g)
  BY <1>2, FS_Subset DEF Counts
<1>7. Sum(s \ {y}, f) \in Nat /\ Sum(s \ {y}, g) \in Nat
  BY <1>6, SumCounts
<1>8. f[y] \in Nat /\ g[y] \in Nat /\ h[y] = f[y] + g[y]
  BY <1>4 DEF Counts, Adds
<1>9. Sum(s \ {y}, h) = Sum(s \ {y}, f) + Sum(s \ {y}, g)
  BY <1>1, <1>4
<1>10. Sum(s, h) = Sum(s, f) + Sum(s, g)
  BY <1>5, <1>7, <1>8, <1>9
<1> QED
  BY <1>10

\* The cells of a table of counts, by rows and by columns.
Table(P, K, v) == \A x \in P : Counts(K, v[x])

RowSums(P, K, v) == [x \in P |-> Sum(K, v[x])]

ColumnSums(P, K, v) == [k \in K |-> Sum(P, [x \in P |-> v[x][k]])]

\* Columns count, and a row more adds its cells to them.
LEMMA ColumnGrows ==
    ASSUME NEW P, IsFiniteSet(P), NEW K, NEW v, Table(P, K, v), NEW y \in P
    PROVE  Adds(K, v[y], ColumnSums(P \ {y}, K, v), ColumnSums(P, K, v))
<1> SUFFICES ASSUME NEW k \in K
             PROVE  Sum(P, [x \in P |-> v[x][k]])
                      = v[y][k] + Sum(P \ {y}, [x \in P \ {y} |-> v[x][k]])
  BY DEF Adds, ColumnSums
<1> DEFINE g == [x \in P |-> v[x][k]]
<1>1. Counts(P, g) /\ g[y] = v[y][k]
  BY DEF Counts, Table
<1>2. AgreeOn(P \ {y}, g, [x \in P \ {y} |-> v[x][k]])
  BY DEF AgreeOn
<1> HIDE DEF g
<1>3. Sum(P, g) = g[y] + Sum(P \ {y}, g)
  BY <1>1, SumTakes
<1>4. Sum(P \ {y}, g) = Sum(P \ {y}, [x \in P \ {y} |-> v[x][k]])
  BY <1>2, SumSame
<1> QED
  BY <1>1, <1>3, <1>4 DEF g

LEMMA ColumnsCount ==
    ASSUME NEW P, IsFiniteSet(P), NEW K, NEW v, Table(P, K, v)
    PROVE  Counts(K, ColumnSums(P, K, v))
<1> SUFFICES ASSUME NEW k \in K PROVE Sum(P, [x \in P |-> v[x][k]]) \in Nat
  BY DEF Counts, ColumnSums
<1>1. Counts(P, [x \in P |-> v[x][k]])
  BY DEF Counts, Table
<1> QED
  BY <1>1, SumCounts

\* The rows add up to what the columns add up to.
LEMMA SumSwaps ==
    ASSUME NEW P, IsFiniteSet(P), NEW K, IsFiniteSet(K), NEW v, Table(P, K, v)
    PROVE  Sum(P, RowSums(P, K, v)) = Sum(K, ColumnSums(P, K, v))
<1> DEFINE rows == RowSums(P, K, v)
           Columns(s) == Sum(K, ColumnSums(s, K, v))
           Bad == {s \in SUBSET P : Sum(s, rows) # Columns(s)}
<1> SUFFICES ASSUME Bad # {} PROVE FALSE
  <2>1. P \in SUBSET P
    OBVIOUS
  <2> QED
    BY <2>1
<1>1. PICK s \in Bad : \A y \in s : s \ {y} \notin Bad
  <2> HIDE DEF rows, Columns
  <2> QED
    BY LeastSubset
<1>2. ASSUME NEW t \in SUBSET P PROVE IsFiniteSet(t) /\ Table(t, K, v)
  BY FS_Subset DEF Table
<1>3. \A x \in P : rows[x] = Sum(K, v[x]) /\ rows[x] \in Nat
  BY SumCounts DEF RowSums, Table
<1>4. CASE s = {}
  <2>1. Zeros(K, ColumnSums(s, K, v))
    BY <1>4, SumOfNone DEF ColumnSums, Zeros
  <2>2. Counts(K, ColumnSums(s, K, v))
    BY <1>2, ColumnsCount
  <2>3. Columns(s) = 0
    BY <2>1, <2>2, SumOfZeros
  <2>4. Sum(s, rows) = 0
    BY <1>4, SumOfNone
  <2> QED
    BY <2>3, <2>4
<1>5. CASE s # {}
  <2>1. PICK y \in s : TRUE
    BY <1>5
  <2>2. Counts(s, rows) /\ IsFiniteSet(s)
    BY <1>2, <1>3 DEF Counts
  <2>3. Sum(s, rows) = Sum(K, v[y]) + Sum(s \ {y}, rows)
    <3> HIDE DEF rows
    <3>1. Sum(s, rows) = rows[y] + Sum(s \ {y}, rows)
      BY <2>2, SumTakes
    <3> QED
      BY <1>3, <3>1
  <2>4. Sum(s \ {y}, rows) = Columns(s \ {y})
    <3> HIDE DEF rows, Columns
    <3> QED
      BY <1>1, <2>1
  <2>5. Columns(s) = Sum(K, v[y]) + Columns(s \ {y})
    <3>1. Adds(K, v[y], ColumnSums(s \ {y}, K, v), ColumnSums(s, K, v))
      BY <1>2, ColumnGrows
    <3>2. Counts(K, ColumnSums(s \ {y}, K, v)) /\ Counts(K, v[y])
      <4>1. IsFiniteSet(s \ {y}) /\ Table(s \ {y}, K, v)
        BY <1>2
      <4>2. Counts(K, v[y])
        BY DEF Table
      <4> QED
        BY <4>1, <4>2, ColumnsCount
    <3> QED
      BY <3>1, <3>2, SumAdds
  <2>6. Sum(s, rows) = Columns(s)
    BY <2>3, <2>4, <2>5
  <2> HIDE DEF rows, Columns
  <2> QED
    BY <2>6
<1> QED
  BY <1>4, <1>5

-----------------------------------------------------------------------------
(* A Form B that matches its Form As in what it lists *)

\* The Form B was compared with these Form As, and no listed column differed.
Agrees(b, forms) ==
    /\ forms \subseteq Sheets
    /\ Deltas(Form[b], [x \in forms |-> Form[x]]) = {}

\* The Form B gives every candidate of these Form As the votes they give.
Exact(b, forms) ==
    \A c \in forms : \A k \in DOMAIN Form[c].votes :
        VotesFor(Form[b], k) = Total([x \in forms |-> VotesFor(Form[x], k)])

Listed(forms) == UNION {DOMAIN Form[x].votes : x \in forms}

\* The votes of the forms, candidates they do not list included.
Votes(forms, K) == [x \in forms |-> [k \in K |-> VotesFor(Form[x], k)]]

LEMMA CandidatesAreFinite ==
    ASSUME NEW forms \in SUBSET Sheets, NEW b \in FormBs
    PROVE  IsFiniteSet(forms) /\ IsFiniteSet(DOMAIN Form[b].votes \cup Listed(forms))
<1>1. IsFiniteSet(forms)
  BY SheetsAreFinite, FS_Subset
<1> DEFINE lists == {DOMAIN Form[x].votes : x \in forms}
<1>2. IsFiniteSet(lists)
  <2> DEFINE list == [x \in forms |-> DOMAIN Form[x].votes]
  <2>1. list \in Surjection(forms, lists)
    BY DEF Surjection
  <2> QED
    BY <1>1, <2>1, FS_Surjection
<1>3. \A s \in lists : IsFiniteSet(s)
  BY FiguresAreCounts
<1>4. IsFiniteSet(UNION lists)
  BY <1>2, <1>3, FS_UNION
<1> QED
  BY <1>1, <1>4, FiguresAreCounts, FS_Union DEF Listed

\* A form adds up to its valid votes over any candidates that include its own.
LEMMA VotesAddUp ==
    ASSUME NEW f \in Sheets \cup FormBs, NEW K, IsFiniteSet(K),
           DOMAIN Form[f].votes \subseteq K, CandidateSum(Form[f]) = Form[f].valid
    PROVE  /\ Counts(K, [k \in K |-> VotesFor(Form[f], k)])
           /\ Sum(K, [k \in K |-> VotesFor(Form[f], k)]) = Form[f].valid
<1> DEFINE D == DOMAIN Form[f].votes
           g == [k \in K |-> VotesFor(Form[f], k)]
<1>1. Form[f].votes \in [D -> Nat] /\ Form[f].valid \in Nat
  BY FiguresAreCounts
<1>2. Counts(K, g) /\ Zeros(K \ D, g) /\ AgreeOn(D, g, Form[f].votes)
  BY <1>1 DEF Counts, Zeros, AgreeOn, VotesFor
<1>3. Sum(D, Form[f].votes) = Form[f].valid
  <2>1. [k \in D |-> Form[f].votes[k]] = Form[f].votes
    BY <1>1
  <2> QED
    BY <2>1 DEF Sum, CandidateSum
<1> HIDE DEF D, g
<1>4. D \in SUBSET K
  BY DEF D
<1>5. Sum(K, g) = Sum(D, g) + Sum(K \ D, g)
  BY <1>2, <1>4, SumSplits
<1>6. Sum(D, g) = Form[f].valid
  BY <1>2, <1>3, SumSame
<1>7. Sum(K \ D, g) = 0
  <2>1. IsFiniteSet(K \ D) /\ Counts(K \ D, g)
    BY <1>2, FS_Subset DEF Counts
  <2> QED
    BY <1>2, <2>1, SumOfZeros
<1>8. Sum(K, g) = Form[f].valid
  BY <1>1, <1>5, <1>6, <1>7
<1> QED
  BY <1>2, <1>8 DEF g

\* The candidates that the Form B leaves out have nothing: what it lists takes
\* up all its valid votes, which are those of the Form As.
LEMMA AgreementIsExact ==
    ASSUME NEW b \in FormBs, NEW forms, Agrees(b, forms),
           CandidateSum(Form[b]) = Form[b].valid,
           \A c \in forms : TallyStatus(Form[c]) = "VALID"
    PROVE  Exact(b, forms)
<1> DEFINE D == DOMAIN Form[b].votes
           K == D \cup Listed(forms)
           v == Votes(forms, K)
           column == ColumnSums(forms, K, v)
           own == [k \in K |-> VotesFor(Form[b], k)]
<1>1. /\ forms \in SUBSET Sheets /\ IsFiniteSet(forms) /\ IsFiniteSet(K)
  BY CandidatesAreFinite DEF Agrees
<1>2. \A x \in forms : DOMAIN Form[x].votes \subseteq K
  BY DEF Listed
<1>3. \A k \in K : column[k] = Total([x \in forms |-> VotesFor(Form[x], k)])
  <2>1. ASSUME NEW k \in K PROVE Sum(forms, [x \in forms |-> v[x][k]])
                                   = Total([x \in forms |-> VotesFor(Form[x], k)])
    <3>1. [x \in forms |-> [y \in forms |-> v[y][k]][x]] = [x \in forms |-> VotesFor(Form[x], k)]
      BY DEF Votes
    <3> QED
      BY <3>1 DEF Sum
  <2> QED
    BY <2>1 DEF ColumnSums
<1>4. Form[b].valid = Total([x \in forms |-> Form[x].valid])
  <2> DEFINE below == [x \in forms |-> Form[x]]
  <2>1. [f \in DOMAIN below |-> below[f]["valid"]] = [x \in forms |-> Form[x].valid]
    OBVIOUS
  <2>2. Form[b].valid = Total([f \in DOMAIN below |-> below[f]["valid"]])
    BY DEF Agrees, Deltas
  <2> QED
    BY <2>1, <2>2
<1>5. \A k \in D : Form[b].votes[k] = Total([x \in forms |-> VotesFor(Form[x], k)])
  <2> DEFINE below == [x \in forms |-> Form[x]]
  <2>1. \A k : [f \in DOMAIN below |-> VotesFor(below[f], k)] = [x \in forms |-> VotesFor(Form[x], k)]
    OBVIOUS
  <2>2. \A k \in D : Form[b].votes[k] = Total([f \in DOMAIN below |-> VotesFor(below[f], k)])
    BY DEF Agrees, Deltas
  <2> QED
    BY <2>1, <2>2
<1> HIDE DEF K, column
<1>6. Table(forms, K, v) /\ \A x \in forms : Sum(K, v[x]) = Form[x].valid
  <2>1. ASSUME NEW x \in forms PROVE Counts(K, v[x]) /\ Sum(K, v[x]) = Form[x].valid
    <3>1. v[x] = [k \in K |-> VotesFor(Form[x], k)]
      BY DEF Votes
    <3>2. CandidateSum(Form[x]) = Form[x].valid
      BY DEF TallyStatus
    <3>3. x \in Sheets \cup FormBs /\ DOMAIN Form[x].votes \subseteq K
      BY <1>1, <1>2
    <3> HIDE DEF v
    <3> QED
      BY <1>1, <3>1, <3>2, <3>3, VotesAddUp
  <2> QED
    BY <2>1 DEF Table
<1>7. Sum(K, column) = Form[b].valid
  <2>1. RowSums(forms, K, v) = [x \in forms |-> Form[x].valid]
    BY <1>6 DEF RowSums
  <2>2. Sum(forms, RowSums(forms, K, v)) = Total([x \in forms |-> Form[x].valid])
    <3>1. [y \in forms |-> [x \in forms |-> Form[x].valid][y]] = [x \in forms |-> Form[x].valid]
      OBVIOUS
    <3> QED
      BY <2>1, <3>1 DEF Sum
  <2> HIDE DEF v
  <2>3. Sum(forms, RowSums(forms, K, v)) = Sum(K, column)
    BY <1>1, <1>6, SumSwaps DEF column
  <2> QED
    BY <1>4, <2>2, <2>3
<1>8. Counts(K, column)
  <2> HIDE DEF v
  <2> QED
    BY <1>1, <1>6, ColumnsCount DEF column
<1>9. Counts(K, own) /\ Sum(K, own) = Form[b].valid
  <2>1. D \subseteq K
    BY DEF K
  <2> QED
    BY <1>1, <2>1, VotesAddUp
<1>10. AgreeOn(D, own, column) /\ Zeros(K \ D, own)
  <2>1. D \subseteq K
    BY DEF K
  <2> QED
    BY <1>3, <1>5, <2>1 DEF AgreeOn, Zeros, VotesFor
<1> HIDE DEF own
<1>11. Zeros(K \ D, column)
  <2>1. /\ D \in SUBSET K /\ IsFiniteSet(D) /\ IsFiniteSet(K \ D)
        /\ Counts(D, column) /\ Counts(K \ D, column) /\ Counts(K \ D, own)
    <3>1. D \in SUBSET K
      BY DEF K
    <3> QED
      BY <1>1, <1>8, <1>9, <3>1, FS_Subset DEF Counts
  <2> HIDE DEF D
  <2>2. Sum(K, column) = Sum(D, column) + Sum(K \ D, column)
    BY <1>1, <1>8, <2>1, SumSplits
  <2>3. Sum(K, own) = Sum(D, own) + Sum(K \ D, own)
    BY <1>1, <1>9, <2>1, SumSplits
  <2>4. Sum(D, own) = Sum(D, column) /\ Sum(K \ D, own) = 0
    BY <1>10, <2>1, SumSame, SumOfZeros
  <2>5. Sum(D, column) \in Nat /\ Sum(K \ D, column) \in Nat
    BY <2>1, SumCounts
  <2>6. Sum(K \ D, column) = 0
    BY <1>7, <1>9, <2>2, <2>3, <2>4, <2>5
  <2> QED
    BY <2>1, <2>6, SumOfZeros
<1>12. \A k \in K : VotesFor(Form[b], k) = column[k]
  <2>1. \A k \in K : own[k] = VotesFor(Form[b], k)
    BY DEF own
  <2> QED
    BY <1>10, <1>11, <2>1 DEF AgreeOn, Zeros
<1> QED
  BY <1>2, <1>3, <1>12 DEF Exact

-----------------------------------------------------------------------------
(* Reconciliation: its rows, and what its requests hold *)

TaskStages == {"idle", "insertB", "readB", "updateB", "alertB",
               "readC", "updateC", "alertC", "done", "died"}

\* The kinds of alerts on a form that does not match the forms below it.
MismatchTypes ==
    {"FORM_B_MISMATCH", "FORM_C_MISMATCH", "FORM_C_CANDIDATE_MISMATCH", "CANDIDATE_SUM_MISMATCH"}

Task == [stage : TaskStages, form : FormBs \cup FormCs \cup {"none"},
         read : SUBSET (Sheets \cup FormBs), present : SUBSET FormBs,
         todo : SUBSET MismatchTypes]

Alerts == [form : FormBs \cup FormCs, type : MismatchTypes \cup {"INTERNAL_MISMATCH"},
           status : {"OPEN", "CLOSED"}]

ReconTypeOK ==
    /\ formB \in [FormBs -> [status : {"NONE", "PENDING", "MATCHED", "DISCREPANCY"},
                             present : SUBSET (Sheets \cup FormBs)]]
    /\ formC \in [FormCs -> [status : {"NONE", "DRAFT", "VERIFIED", "DISCREPANCY"},
                             present : SUBSET FormBs]]
    /\ alerts \subseteq Alerts
    /\ task \in [Tasks -> Task]

\* What a request works on, and what it read.
TaskOK(t) ==
    /\ task[t].stage \in {"insertB", "readB", "updateB", "alertB"} => task[t].form \in FormBs
    /\ task[t].stage \in {"readC", "updateC", "alertC"} => task[t].form \in FormCs
    /\ task[t].stage = "updateC" =>
         task[t].read = {x \in task[t].present : Area[x] \in Constituencies[Area[task[t].form]]}
    /\ task[t].stage = "alertC" => task[t].todo # {}

ReconInv ==
    /\ ReconTypeOK
    /\ \A t \in Tasks : TaskOK(t)
    /\ DiscrepancyIsAlerted
    /\ VerifiedCoversForms

LEMMA InitRecon == ReconInit => ReconInv
<1> SUFFICES ASSUME ReconInit PROVE ReconInv
  OBVIOUS
<1>1. IdleTask \in Task /\ IdleTask.stage = "idle"
  BY DEF IdleTask, Task, TaskStages
<1>2. ReconTypeOK
  BY <1>1 DEF ReconInit, ReconTypeOK, NoForm
<1>3. \A t \in Tasks : TaskOK(t)
  BY <1>1 DEF ReconInit, TaskOK
<1>4. DiscrepancyIsAlerted /\ VerifiedCoversForms
  BY DEF ReconInit, DiscrepancyIsAlerted, VerifiedCoversForms, NoForm
<1> QED
  BY <1>2, <1>3, <1>4 DEF ReconInv

\* What keeps a form in DISCREPANCY from being overlooked.
Noticed(f) ==
    \/ \E a \in alerts : a.form = f /\ a.type # "INTERNAL_MISMATCH"
    \/ \E t \in Tasks : task[t].form = f /\ task[t].stage \in {"alertB", "alertC", "died"}

Covers(f, present) ==
    Form[f].valid = Total([b \in {x \in present : Area[x] \in Constituencies[Area[f]]} |->
                             Form[b].valid])

\* A step of one request, which writes one form at most.
LEMMA ReconMoves ==
    ASSUME ReconInv, NEW t \in Tasks, NEW j \in Task, task' = [task EXCEPT ![t] = j],
           ReconTypeOK', TaskOK(t)',
           \A f \in FormBs \cup FormCs : Noticed(f) => Noticed(f)',
           \A f \in FormBs : formB'[f].status = "DISCREPANCY" =>
              formB[f].status = "DISCREPANCY" \/ Noticed(f)',
           \A f \in FormCs : formC'[f].status = "DISCREPANCY" =>
              formC[f].status = "DISCREPANCY" \/ Noticed(f)',
           \A f \in FormCs : formC'[f].status = "VERIFIED" =>
              formC'[f] = formC[f] \/ Covers(f, formC'[f].present)
    PROVE  ReconInv'
<1>1. \A u \in Tasks : TaskOK(u)'
  BY DEF ReconInv, ReconTypeOK, TaskOK
<1>2. DiscrepancyIsAlerted'
  <2>1. ASSUME NEW f \in FormBs \cup FormCs,
               (IF f \in FormBs THEN formB[f] ELSE formC[f]).status = "DISCREPANCY"
        PROVE  Noticed(f)
    BY <2>1 DEF ReconInv, DiscrepancyIsAlerted, Noticed
  <2>2. ASSUME NEW f \in FormBs \cup FormCs,
               (IF f \in FormBs THEN formB'[f] ELSE formC'[f]).status = "DISCREPANCY"
        PROVE  Noticed(f)'
    BY <2>1, <2>2
  <2> QED
    BY <2>2 DEF DiscrepancyIsAlerted, Noticed
<1>3. VerifiedCoversForms'
  BY DEF ReconInv, VerifiedCoversForms, Covers
<1> QED
  BY <1>1, <1>2, <1>3 DEF ReconInv

LEMMA TaskTyped ==
    ASSUME ReconInv, NEW t \in Tasks
    PROVE  task[t] \in Task /\ TaskOK(t)
BY DEF ReconInv, ReconTypeOK

\* A step of a request that was not about to alert, and writes no form.
LEMMA TaskMoves ==
    ASSUME ReconInv, NEW t \in Tasks, NEW j \in Task, task' = [task EXCEPT ![t] = j], TaskOK(t)',
           UNCHANGED formC, alerts \subseteq alerts', ReconTypeOK',
           \A f \in FormBs : formB'[f].status = "DISCREPANCY" => formB[f].status = "DISCREPANCY",
           \/ task[t].stage \notin {"alertB", "alertC", "died"}
           \/ j.stage \in {"alertB", "alertC", "died"} /\ j.form = task[t].form
           \/ \E a \in alerts' : a.form = task[t].form /\ a.type # "INTERNAL_MISMATCH"
    PROVE  ReconInv'
<1>1. task'[t] = j /\ \A u \in Tasks : u # t => task'[u] = task[u]
  BY DEF ReconInv, ReconTypeOK
<1>2. ASSUME NEW f, Noticed(f) PROVE Noticed(f)'
  BY <1>1, <1>2 DEF Noticed
<1> QED
  BY <1>2, ReconMoves

\* A request moves on and keeps what it holds.
LEMMA TaskGoes ==
    ASSUME ReconInv, NEW t \in Tasks, NEW st \in TaskStages, Goto(t, st)
    PROVE  \E j \in Task : /\ task' = [task EXCEPT ![t] = j] /\ task'[t] = j
                           /\ j.stage = st /\ j.form = task[t].form /\ j.read = task[t].read
                           /\ j.present = task[t].present /\ j.todo = task[t].todo
<1> DEFINE j == [task[t] EXCEPT !.stage = st]
<1>1. task[t] \in Task /\ task \in [Tasks -> Task]
  BY DEF ReconInv, ReconTypeOK
<1>2. /\ j \in Task /\ j.stage = st /\ j.form = task[t].form /\ j.read = task[t].read
      /\ j.present = task[t].present /\ j.todo = task[t].todo
  BY <1>1 DEF Task
<1>3. task' = [task EXCEPT ![t] = j]
  BY <1>1 DEF Goto
<1> HIDE DEF j
<1> QED
  BY <1>1, <1>2, <1>3

\* The forms of the requests, in the shapes that the handlers give them.
LEMMA TaskShapes ==
    ASSUME NEW j \in Task
    PROVE  /\ \A st \in TaskStages : [j EXCEPT !.stage = st] \in Task
           /\ \A st \in TaskStages : [j EXCEPT !.stage = st].stage = st
           /\ \A st \in TaskStages : [j EXCEPT !.stage = st].form = j.form
           /\ [IdleTask EXCEPT !.stage = "done"] \in Task
           /\ [IdleTask EXCEPT !.stage = "done"].stage = "done"
BY DEF Task, IdleTask, TaskStages

LEMMA TaskBegins ==
    ASSUME ReconInv, NEW t \in Tasks, NEW st \in {"insertB", "readB", "readC"},
           NEW f \in FormBs \cup FormCs, Begin(t, st, f),
           st = "readC" => f \in FormCs, st # "readC" => f \in FormBs
    PROVE  \E j \in Task : /\ task' = [task EXCEPT ![t] = j] /\ TaskOK(t)'
                           /\ task[t].stage = "idle" /\ j.stage = st /\ j.form = f
<1> DEFINE j == [IdleTask EXCEPT !.stage = st, !.form = f]
<1>1. j \in Task /\ j.stage = st /\ j.form = f
  BY DEF IdleTask, Task, TaskStages
<1>2. task' = [task EXCEPT ![t] = j] /\ task[t].stage = "idle"
  BY DEF Begin
<1> HIDE DEF j
<1>3. task'[t] = j
  BY <1>2 DEF ReconInv, ReconTypeOK
<1>4. TaskOK(t)'
  BY <1>1, <1>3 DEF TaskOK
<1> QED
  BY <1>1, <1>2, <1>4

LEMMA TaskEnds ==
    ASSUME ReconInv, NEW t \in Tasks, End(t)
    PROVE  \E j \in Task : task' = [task EXCEPT ![t] = j] /\ TaskOK(t)' /\ j.stage = "done"
<1> DEFINE j == [IdleTask EXCEPT !.stage = "done"]
<1>1. j \in Task /\ j.stage = "done" /\ task' = [task EXCEPT ![t] = j]
  BY TaskTyped, TaskShapes DEF End
<1> HIDE DEF j
<1>2. task'[t] = j
  BY <1>1 DEF ReconInv, ReconTypeOK
<1>3. TaskOK(t)'
  BY <1>1, <1>2 DEF TaskOK
<1> QED
  BY <1>1, <1>3

\* A request that writes nothing, or nothing but the header of a new Form B.
LEMMA SubmitSteps ==
    ASSUME ReconInv, NEW t \in Tasks,
           \/ \E b \in FormBs : SubmitBCheck(t, b) \/ RequestB(t, b)
           \/ \E f \in FormCs : RequestC(t, f)
           \/ SubmitBInsert(t) \/ SubmitBRefused(t)
    PROVE  ReconInv'
<1>1. ReconTypeOK /\ task[t] \in Task /\ TaskOK(t)
  BY TaskTyped DEF ReconInv
<1>2. ASSUME NEW j \in Task, task' = [task EXCEPT ![t] = j], TaskOK(t)',
             UNCHANGED <<formB, formC, alerts>>, task[t].stage \notin {"alertB", "alertC", "died"}
      PROVE  ReconInv'
  <2>1. ReconTypeOK'
    BY <1>1, <1>2 DEF ReconTypeOK
  <2> QED
    BY <1>2, <2>1, TaskMoves
<1>3. ASSUME NEW b \in FormBs, SubmitBCheck(t, b)
      PROVE  ReconInv'
  <2>1. CASE Begin(t, "insertB", b)
    BY <1>2, <1>3, <2>1, TaskBegins DEF SubmitBCheck
  <2>2. CASE task[t].stage = "idle" /\ End(t)
    BY <1>2, <1>3, <2>2, TaskEnds DEF SubmitBCheck
  <2> QED
    BY <1>3, <2>1, <2>2 DEF SubmitBCheck
<1>4. ASSUME NEW b \in FormBs, RequestB(t, b)
      PROVE  ReconInv'
  BY <1>2, <1>4, TaskBegins DEF RequestB
<1>5. ASSUME NEW f \in FormCs, RequestC(t, f)
      PROVE  ReconInv'
  BY <1>2, <1>5, TaskBegins DEF RequestC
<1>6. CASE SubmitBRefused(t)
  BY <1>2, <1>6, TaskEnds DEF SubmitBRefused
<1>7. CASE SubmitBInsert(t)
  <2>1. PICK b \in FormBs : b = task[t].form
    BY <1>1, <1>7 DEF SubmitBInsert, TaskOK
  <2>2. PICK j \in Task : task' = [task EXCEPT ![t] = j] /\ j.stage = "readB" /\ j.form = b
    BY <1>7, <2>1, TaskGoes DEF SubmitBInsert, TaskStages
  <2>3. TaskOK(t)'
    BY <1>1, <2>2 DEF TaskOK, ReconTypeOK
  <2>4. formB' = [formB EXCEPT ![b].status = "PENDING"]
    BY <1>7, <2>1 DEF SubmitBInsert
  <2>5. /\ alerts \subseteq alerts' /\ alerts' \subseteq Alerts
    BY <1>1, <1>7, <2>1 DEF SubmitBInsert, Alert, Alerts, ReconTypeOK
  <2>6. ReconTypeOK'
    <3>1. task' \in [Tasks -> Task] /\ formC' = formC
      BY <1>1, <1>7, <2>2 DEF SubmitBInsert, ReconTypeOK
    <3>2. formB' \in [FormBs -> [status : {"NONE", "PENDING", "MATCHED", "DISCREPANCY"},
                                 present : SUBSET (Sheets \cup FormBs)]]
      BY <1>1, <2>4 DEF ReconTypeOK
    <3> QED
      BY <1>1, <2>5, <3>1, <3>2 DEF ReconTypeOK
  <2>7. \A x \in FormBs : formB'[x].status = "DISCREPANCY" => formB[x].status = "DISCREPANCY"
    BY <1>1, <2>4 DEF ReconTypeOK
  <2> QED
    BY <1>7, <2>2, <2>3, <2>5, <2>6, <2>7, TaskMoves DEF SubmitBInsert
<1> QED
  BY <1>3, <1>4, <1>5, <1>6, <1>7

LEMMA SubmitCStep ==
    ASSUME ReconInv, NEW t \in Tasks, NEW f \in FormCs, SubmitC(t, f)
    PROVE  ReconInv'
<1>1. ReconTypeOK
  BY DEF ReconInv
<1>2. PICK j \in Task : /\ task' = [task EXCEPT ![t] = j] /\ TaskOK(t)'
                        /\ task[t].stage = "idle" /\ j.stage = "readC"
  BY TaskBegins DEF SubmitC
<1>3. formC' = [formC EXCEPT ![f].status = "DRAFT"] /\ UNCHANGED <<formB, alerts>>
  BY DEF SubmitC
<1>4. ReconTypeOK'
  BY <1>1, <1>2, <1>3 DEF ReconTypeOK
<1>5. \A g \in FormCs : g # f => formC'[g] = formC[g]
  BY <1>1, <1>3 DEF ReconTypeOK
<1>6. formC'[f].status = "DRAFT"
  BY <1>1, <1>3 DEF ReconTypeOK
<1>7. \A u \in Tasks : u # t => task'[u] = task[u]
  BY <1>1, <1>2 DEF ReconTypeOK
<1>8. \A g : Noticed(g) => Noticed(g)'
  BY <1>2, <1>3, <1>7 DEF Noticed
<1> QED
  BY <1>2, <1>3, <1>4, <1>5, <1>6, <1>8, ReconMoves

LEMMA FormBSteps ==
    ASSUME ReconInv, NEW t \in Tasks, ReadFormAs(t) \/ UpdateFormB(t) \/ AlertFormB(t)
    PROVE  ReconInv'
<1>1. ReconTypeOK /\ task[t] \in Task /\ TaskOK(t)
  BY TaskTyped DEF ReconInv
<1>2. CASE ReadFormAs(t)
  <2> DEFINE j == [task[t] EXCEPT !.read = FormAsFor(task[t].form), !.stage = "updateB"]
  <2>1. FormAsFor(task[t].form) \subseteq Sheets \cup FormBs
    BY DEF FormAsFor
  <2>2. j \in Task /\ j.stage = "updateB" /\ j.form = task[t].form
    BY <1>1, <2>1 DEF Task, TaskStages
  <2>3. task' = [task EXCEPT ![t] = j]
    BY <1>1, <1>2 DEF ReadFormAs, ReconTypeOK
  <2> HIDE DEF j
  <2>4. TaskOK(t)'
    BY <1>1, <1>2, <2>2, <2>3 DEF ReadFormAs, TaskOK, ReconTypeOK
  <2>5. ReconTypeOK'
    <3>1. task' \in [Tasks -> Task]
      BY <1>1, <2>2, <2>3 DEF ReconTypeOK
    <3> QED
      BY <1>1, <1>2, <3>1 DEF ReadFormAs, ReconTypeOK
  <2> QED
    BY <1>2, <2>2, <2>3, <2>4, <2>5, TaskMoves DEF ReadFormAs
<1>3. CASE UpdateFormB(t)
  <2> DEFINE mismatch == DeltasOf(t) # {}
             row == [status  |-> IF mismatch THEN "DISCREPANCY" ELSE "MATCHED",
                     present |-> task[t].read]
  <2>1. PICK b \in FormBs : b = task[t].form /\ task[t].stage = "updateB"
    BY <1>1, <1>3 DEF UpdateFormB, TaskOK
  <2>2. /\ row \in [status : {"NONE", "PENDING", "MATCHED", "DISCREPANCY"},
                    present : SUBSET (Sheets \cup FormBs)]
        /\ row.status = "DISCREPANCY" => mismatch
        /\ formB' = [formB EXCEPT ![b] = row]
    BY <1>1, <1>3, <2>1 DEF UpdateFormB, Task
  <2>3. PICK j \in Task : /\ task' = [task EXCEPT ![t] = j] /\ TaskOK(t)'
                          /\ mismatch => j.stage = "alertB" /\ j.form = b
    <3>1. CASE mismatch
      <4>1. Goto(t, "alertB")
        BY <1>3, <3>1 DEF UpdateFormB
      <4>2. PICK j \in Task : /\ task' = [task EXCEPT ![t] = j] /\ task'[t] = j
                              /\ j.stage = "alertB" /\ j.form = b
        BY <2>1, <4>1, TaskGoes DEF TaskStages
      <4> QED
        BY <4>2 DEF TaskOK
    <3>2. CASE ~mismatch
      <4>1. End(t)
        BY <1>3, <3>2 DEF UpdateFormB
      <4> QED
        BY <3>2, <4>1, TaskEnds
    <3> QED
      BY <3>1, <3>2
  <2> HIDE DEF mismatch, row
  <2>4. formC' = formC /\ alerts' = alerts
    BY <1>3 DEF UpdateFormB
  <2>5. ReconTypeOK'
    BY <1>1, <2>2, <2>3, <2>4 DEF ReconTypeOK
  <2>6. task'[t] = j /\ \A u \in Tasks : u # t => task'[u] = task[u]
    BY <1>1, <2>3 DEF ReconTypeOK
  <2>7. \A f : Noticed(f) => Noticed(f)'
    BY <2>1, <2>4, <2>6 DEF Noticed
  <2>8. \A f \in FormBs : formB'[f].status = "DISCREPANCY" =>
           formB[f].status = "DISCREPANCY" \/ Noticed(f)'
    BY <1>1, <2>2, <2>3, <2>6 DEF Noticed, ReconTypeOK
  <2> QED
    BY <2>3, <2>4, <2>5, <2>7, <2>8, ReconMoves
<1>4. CASE AlertFormB(t)
  <2>1. PICK b \in FormBs : b = task[t].form
    BY <1>1, <1>4 DEF AlertFormB, TaskOK
  <2>2. Alert(b, "FORM_B_MISMATCH") \in Alerts
    BY DEF Alert, Alerts, MismatchTypes
  <2>3. /\ alerts' = alerts \cup {Alert(b, "FORM_B_MISMATCH")} /\ formB' = formB /\ formC' = formC
    BY <1>4, <2>1 DEF AlertFormB
  <2>4. PICK j \in Task : task' = [task EXCEPT ![t] = j] /\ TaskOK(t)'
    BY <1>4, TaskEnds DEF AlertFormB
  <2>5. ReconTypeOK'
    BY <1>1, <2>2, <2>3, <2>4 DEF ReconTypeOK
  <2>6. \E a \in alerts' : a.form = b /\ a.type # "INTERNAL_MISMATCH"
    <3>1. /\ Alert(b, "FORM_B_MISMATCH") \in alerts'
          /\ Alert(b, "FORM_B_MISMATCH").form = b
          /\ Alert(b, "FORM_B_MISMATCH").type = "FORM_B_MISMATCH"
      BY <2>3 DEF Alert
    <3> QED
      BY <3>1
  <2> QED
    BY <2>1, <2>3, <2>4, <2>5, <2>6, TaskMoves
<1> QED
  BY <1>2, <1>3, <1>4

\* What the checks of a Form C raise, and what it means that they raise nothing.
LEMMA AlertsOfC ==
    ASSUME NEW t \in Tasks
    PROVE  /\ AlertTypesC(t) \subseteq MismatchTypes
           /\ AlertTypesC(t) = {} =>
                Form[task[t].form].valid = Total([b \in task[t].read |-> Form[b].valid])
<1> DEFINE delta == DeltasOf(t)
           below == [x \in task[t].read |-> Form[x]]
           form == Form[task[t].form]
<1>1. AlertTypesC(t) \subseteq MismatchTypes
  BY DEF AlertTypesC, Broken, MismatchTypes
<1>2. ASSUME AlertTypesC(t) = {} PROVE "valid" \notin delta
  BY <1>2 DEF AlertTypesC, Broken
<1>3. ASSUME "valid" \notin delta
      PROVE  form["valid"] = Total([f \in DOMAIN below |-> below[f]["valid"]])
  BY <1>3 DEF DeltasOf, Deltas
<1>4. [f \in DOMAIN below |-> below[f]["valid"]] = [b \in task[t].read |-> Form[b].valid]
  OBVIOUS
<1> QED
  BY <1>1, <1>2, <1>3, <1>4

LEMMA FormCSteps ==
    ASSUME ReconInv, NEW t \in Tasks, ReadFormBs(t) \/ UpdateFormC(t) \/ AlertFormC(t)
    PROVE  ReconInv'
<1>1. ReconTypeOK /\ task[t] \in Task /\ TaskOK(t)
  BY TaskTyped DEF ReconInv
<1>2. CASE ReadFormBs(t)
  <2> DEFINE j == [task[t] EXCEPT !.read = FormBsFor(task[t].form), !.present = InsertedBs,
                                  !.stage = "updateC"]
  <2>1. FormBsFor(task[t].form) \subseteq FormBs /\ InsertedBs \subseteq FormBs
    BY DEF FormBsFor, InsertedBs
  <2>2. /\ j \in Task /\ j.stage = "updateC" /\ j.form = task[t].form
        /\ j.read = FormBsFor(task[t].form) /\ j.present = InsertedBs
    BY <1>1, <2>1 DEF Task, TaskStages
  <2>3. task' = [task EXCEPT ![t] = j]
    BY <1>1, <1>2 DEF ReadFormBs, ReconTypeOK
  <2> HIDE DEF j
  <2>4. TaskOK(t)'
    BY <1>1, <1>2, <2>2, <2>3 DEF ReadFormBs, TaskOK, ReconTypeOK, FormBsFor
  <2>5. ReconTypeOK'
    <3>1. task' \in [Tasks -> Task]
      BY <1>1, <2>2, <2>3 DEF ReconTypeOK
    <3> QED
      BY <1>1, <1>2, <3>1 DEF ReadFormBs, ReconTypeOK
  <2> QED
    BY <1>2, <2>2, <2>3, <2>4, <2>5, TaskMoves DEF ReadFormBs
<1>3. CASE UpdateFormC(t)
  <2> DEFINE types == AlertTypesC(t)
             row == [status  |-> IF types = {} THEN "VERIFIED" ELSE "DISCREPANCY",
                     present |-> task[t].present]
             alerting == [IdleTask EXCEPT !.stage = "alertC", !.form = task[t].form,
                                          !.todo = types]
  <2>1. PICK f \in FormCs : f = task[t].form /\ task[t].stage = "updateC"
    BY <1>1, <1>3 DEF UpdateFormC, TaskOK
  <2>2. /\ row \in [status : {"NONE", "DRAFT", "VERIFIED", "DISCREPANCY"}, present : SUBSET FormBs]
        /\ row.status = "DISCREPANCY" => types # {}
        /\ row.status = "VERIFIED" => types = {}
        /\ row.present = task[t].present
        /\ formC' = [formC EXCEPT ![f] = row]
    BY <1>1, <1>3, <2>1 DEF UpdateFormC, Task
  <2>3. types \subseteq MismatchTypes /\ (types = {} => Covers(f, task[t].present))
    BY <1>1, <2>1, AlertsOfC DEF TaskOK, Covers
  <2>4. PICK j \in Task : /\ task' = [task EXCEPT ![t] = j] /\ TaskOK(t)'
                          /\ types # {} => j.stage = "alertC" /\ j.form = f
    <3>1. CASE types # {}
      <4>1. task' = [task EXCEPT ![t] = alerting]
        BY <1>3, <3>1 DEF UpdateFormC
      <4>2. /\ alerting \in Task /\ alerting.stage = "alertC" /\ alerting.form = f
            /\ alerting.todo = types
        BY <2>1, <2>3 DEF IdleTask, Task, TaskStages
      <4> HIDE DEF alerting
      <4>3. task'[t] = alerting
        BY <1>1, <4>1 DEF ReconTypeOK
      <4>4. TaskOK(t)'
        BY <3>1, <4>2, <4>3 DEF TaskOK
      <4> QED
        BY <4>1, <4>2, <4>4
    <3>2. CASE types = {}
      <4>1. End(t)
        BY <1>3, <3>2 DEF UpdateFormC
      <4> QED
        BY <3>2, <4>1, TaskEnds
    <3> QED
      BY <3>1, <3>2
  <2> HIDE DEF types, row
  <2>5. formB' = formB /\ alerts' = alerts
    BY <1>3 DEF UpdateFormC
  <2>6. ReconTypeOK'
    BY <1>1, <2>2, <2>4, <2>5 DEF ReconTypeOK
  <2>7. /\ task'[t] = j /\ \A u \in Tasks : u # t => task'[u] = task[u]
        /\ formC'[f] = row /\ \A g \in FormCs : g # f => formC'[g] = formC[g]
    BY <1>1, <2>2, <2>4 DEF ReconTypeOK
  <2>8. \A g : Noticed(g) => Noticed(g)'
    BY <2>1, <2>5, <2>7 DEF Noticed
  <2>9. \A g \in FormCs : formC'[g].status = "DISCREPANCY" =>
           formC[g].status = "DISCREPANCY" \/ Noticed(g)'
    BY <2>2, <2>4, <2>7 DEF Noticed
  <2>10. \A g \in FormCs : formC'[g].status = "VERIFIED" =>
           formC'[g] = formC[g] \/ Covers(g, formC'[g].present)
    BY <2>2, <2>3, <2>7
  <2> QED
    BY <2>4, <2>5, <2>6, <2>8, <2>9, <2>10, ReconMoves
<1>4. CASE AlertFormC(t)
  <2>1. PICK type : type = CHOOSE x \in task[t].todo : TRUE
    OBVIOUS
  <2>2. type \in task[t].todo /\ type \in MismatchTypes /\ task[t].stage = "alertC"
    BY <1>1, <1>4, <2>1 DEF AlertFormC, TaskOK, Task
  <2>3. PICK f \in FormCs : f = task[t].form
    BY <1>1, <2>2 DEF TaskOK
  <2>4. /\ alerts' = alerts \cup {Alert(f, type)} /\ formB' = formB /\ formC' = formC
    BY <1>4, <2>1, <2>3 DEF AlertFormC
  <2>5. Alert(f, type) \in Alerts /\ type # "INTERNAL_MISMATCH"
    BY <2>2 DEF Alert, Alerts, MismatchTypes
  <2>6. PICK j \in Task : task' = [task EXCEPT ![t] = j] /\ TaskOK(t)'
    <3>1. CASE task[t].todo = {type}
      BY <1>4, <2>1, <3>1, TaskEnds DEF AlertFormC
    <3>2. CASE task[t].todo # {type}
      <4> DEFINE j == [task[t] EXCEPT !.todo = task[t].todo \ {type}]
      <4>1. j \in Task /\ j.todo # {} /\ j.stage = "alertC" /\ j.form = f
        BY <1>1, <2>2, <2>3, <3>2 DEF Task
      <4>2. task' = [task EXCEPT ![t] = j]
        BY <1>1, <1>4, <2>1, <3>2 DEF AlertFormC, ReconTypeOK
      <4> HIDE DEF j
      <4>3. TaskOK(t)'
        BY <1>1, <4>1, <4>2 DEF TaskOK, ReconTypeOK
      <4> QED
        BY <4>1, <4>2, <4>3
    <3> QED
      BY <3>1, <3>2
  <2>7. ReconTypeOK'
    BY <1>1, <2>4, <2>5, <2>6 DEF ReconTypeOK
  <2>8. \E a \in alerts' : a.form = f /\ a.type # "INTERNAL_MISMATCH"
    BY <2>4, <2>5 DEF Alert
  <2> QED
    BY <2>3, <2>4, <2>6, <2>7, <2>8, TaskMoves
<1> QED
  BY <1>2, <1>3, <1>4

LEMMA DiesStep ==
    ASSUME ReconInv, NEW t \in Tasks, TaskDies(t)
    PROVE  ReconInv'
<1>1. ReconTypeOK /\ task[t] \in Task /\ TaskOK(t)
  BY TaskTyped DEF ReconInv
<1>2. CASE task[t].stage \in {"alertB", "alertC"}
  <2> DEFINE j == [IdleTask EXCEPT !.stage = "died", !.form = task[t].form]
  <2>1. j \in Task /\ j.stage = "died" /\ j.form = task[t].form
    BY <1>1 DEF Task, IdleTask, TaskStages
  <2>2. task' = [task EXCEPT ![t] = j]
    BY <1>2 DEF TaskDies, Leave
  <2> HIDE DEF j
  <2>3. ReconTypeOK'
    BY <1>1, <2>1, <2>2 DEF ReconTypeOK, TaskDies
  <2>4. TaskOK(t)'
    BY <1>1, <2>1, <2>2 DEF TaskOK, ReconTypeOK
  <2> QED
    BY <2>1, <2>2, <2>3, <2>4, TaskMoves DEF TaskDies
<1>3. CASE task[t].stage \notin {"alertB", "alertC"}
  <2>1. End(t) /\ UNCHANGED <<formB, formC, alerts>> /\ task[t].stage # "died"
    BY <1>3 DEF TaskDies
  <2>2. PICK j \in Task : task' = [task EXCEPT ![t] = j] /\ TaskOK(t)'
    BY <2>1, TaskEnds
  <2>3. ReconTypeOK'
    BY <1>1, <2>1, <2>2 DEF ReconTypeOK
  <2> QED
    BY <1>3, <2>1, <2>2, <2>3, TaskMoves
<1> QED
  BY <1>2, <1>3

\* Closing an alert does not take it away.
LEMMA ResolveStep ==
    ASSUME ReconInv, NEW a \in alerts, ResolveAlert(a)
    PROVE  ReconInv'
<1>1. PICK b : b = [a EXCEPT !.status = "CLOSED"]
  OBVIOUS
<1>2. b \in Alerts /\ b.form = a.form /\ b.type = a.type
  BY <1>1 DEF ReconInv, ReconTypeOK, Alerts
<1>3. alerts' = (alerts \ {a}) \cup {b} /\ formB' = formB /\ formC' = formC /\ task' = task
  BY <1>1 DEF ResolveAlert
<1>4. ReconTypeOK'
  BY <1>2, <1>3 DEF ReconInv, ReconTypeOK
<1>5. \A f : Noticed(f) => Noticed(f)'
  BY <1>2, <1>3 DEF Noticed
<1>6. DiscrepancyIsAlerted'
  BY <1>3, <1>5 DEF ReconInv, DiscrepancyIsAlerted, Noticed
<1>7. VerifiedCoversForms'
  BY <1>3 DEF ReconInv, VerifiedCoversForms
<1>8. \A t \in Tasks : TaskOK(t)'
  BY <1>3 DEF ReconInv, TaskOK
<1> QED
  BY <1>4, <1>6, <1>7, <1>8 DEF ReconInv

LEMMA ReconStep == ASSUME ReconInv, ReconNext PROVE ReconInv'
BY SubmitSteps, SubmitCStep, FormBSteps, FormCSteps, DiesStep, ResolveStep
DEF ReconNext, TaskStep

LEMMA ReconWaits == ASSUME ReconInv, UNCHANGED reconVars PROVE ReconInv'
<1>1. ReconTypeOK' /\ \A t \in Tasks : TaskOK(t)'
  BY DEF ReconInv, ReconTypeOK, TaskOK, reconVars
<1>2. DiscrepancyIsAlerted' /\ VerifiedCoversForms'
  BY DEF ReconInv, DiscrepancyIsAlerted, VerifiedCoversForms, reconVars
<1> QED
  BY <1>1, <1>2 DEF ReconInv

-----------------------------------------------------------------------------
(* What a Form B was last compared with, and its alert on itself *)

\* A form that breaks a rule has its alert, open or closed.
Flagged(b) ==
    FormErrors(Form[b]) = {} \/ \E a \in alerts : a.form = b /\ a.type = "INTERNAL_MISMATCH"

RowOK(b) ==
    /\ formB[b].status = "MATCHED" => Agrees(b, formB[b].present)
    /\ formB[b].status # "NONE" => Flagged(b)

\* A request reconciles what is on record, with Form As.
ReconcilesB(t) ==
    /\ task[t].stage \in {"readB", "updateB", "alertB"} => formB[task[t].form].status # "NONE"
    /\ task[t].stage = "updateB" => task[t].read \subseteq Sheets

ComparedInv == (\A b \in FormBs : RowOK(b)) /\ \A t \in Tasks : ReconcilesB(t)

LEMMA InitCompared == ReconInit => ComparedInv
BY DEF ReconInit, ComparedInv, RowOK, ReconcilesB, NoForm, IdleTask

\* The other requests stand still, and the rows that are written are in order.
Alone(t) == \A u \in Tasks : u # t => task'[u] = task[u]

Writes == \A b \in FormBs : \/ formB'[b] = formB[b]
                            \/ RowOK(b)' /\ formB'[b].status # "NONE"

LEMMA ComparedMoves ==
    ASSUME ReconInv, ComparedInv, NEW t \in Tasks, ReconcilesB(t)', Alone(t),
           alerts \subseteq alerts', Writes
    PROVE  ComparedInv'
<1>1. \A b \in FormBs : Flagged(b) => Flagged(b)'
  BY DEF Flagged
<1>2. \A b \in FormBs : RowOK(b)'
  BY <1>1 DEF ComparedInv, RowOK, Writes
<1>3. \A b \in FormBs : formB[b].status # "NONE" => formB'[b].status # "NONE"
  BY DEF Writes
<1>4. \A u \in Tasks : TaskOK(u)
  BY DEF ReconInv
<1>5. ASSUME NEW u \in Tasks, u # t PROVE ReconcilesB(u)'
  BY <1>3, <1>4, <1>5 DEF ComparedInv, ReconcilesB, TaskOK, Alone
<1> QED
  BY <1>2, <1>5 DEF ComparedInv

\* A step that leaves the Form Bs alone, of a request that has none at hand.
LEMMA ComparedWaits ==
    ASSUME ReconInv, ComparedInv, NEW t \in Tasks, NEW j, task' = [task EXCEPT ![t] = j],
           j.stage \notin {"readB", "updateB", "alertB"}, UNCHANGED formB, alerts \subseteq alerts'
    PROVE  ComparedInv'
<1>1. task'[t] = j /\ Alone(t)
  BY DEF ReconInv, ReconTypeOK, Alone
<1>2. ReconcilesB(t)'
  BY <1>1 DEF ReconcilesB
<1>3. Writes
  BY DEF Writes
<1> QED
  BY <1>1, <1>2, <1>3, ComparedMoves

LEMMA ComparedEnds ==
    ASSUME ReconInv, ComparedInv, NEW t \in Tasks, End(t), UNCHANGED formB, alerts \subseteq alerts'
    PROVE  ComparedInv'
<1>1. PICK j \in Task : task' = [task EXCEPT ![t] = j] /\ j.stage = "done"
  BY TaskEnds
<1> QED
  BY <1>1, ComparedWaits

LEMMA ComparedSubmits ==
    ASSUME ReconInv, ComparedInv, NEW t \in Tasks, NEW b \in FormBs,
           SubmitBCheck(t, b) \/ RequestB(t, b)
    PROVE  ComparedInv'
<1>1. UNCHANGED <<formB, alerts>>
  BY DEF SubmitBCheck, RequestB
<1>2. CASE End(t)
  BY <1>1, <1>2, ComparedEnds
<1>3. CASE SubmitBCheck(t, b) /\ Begin(t, "insertB", b)
  <2>1. PICK j \in Task : task' = [task EXCEPT ![t] = j] /\ j.stage = "insertB"
    BY <1>3, TaskBegins
  <2> QED
    BY <1>1, <2>1, ComparedWaits
<1>4. CASE RequestB(t, b)
  <2>1. PICK j \in Task : task' = [task EXCEPT ![t] = j] /\ j.stage = "readB" /\ j.form = b
    BY <1>4, TaskBegins DEF RequestB
  <2>2. formB[b].status # "NONE"
    BY <1>4 DEF RequestB, InsertedBs
  <2>3. task'[t] = j /\ Alone(t)
    BY <2>1 DEF ReconInv, ReconTypeOK, Alone
  <2>4. ReconcilesB(t)'
    BY <1>1, <2>1, <2>2, <2>3 DEF ReconcilesB
  <2>5. Writes
    BY <1>1 DEF Writes
  <2> QED
    BY <1>1, <2>3, <2>4, <2>5, ComparedMoves
<1> QED
  BY <1>2, <1>3, <1>4 DEF SubmitBCheck

\* The header and the alert of a new Form B are one transaction.
LEMMA ComparedInserts ==
    ASSUME ReconInv, ComparedInv, NEW t \in Tasks, SubmitBInsert(t)
    PROVE  ComparedInv'
<1>1. PICK b \in FormBs : b = task[t].form
  BY TaskTyped DEF SubmitBInsert, TaskOK
<1>2. PICK j \in Task : /\ task' = [task EXCEPT ![t] = j] /\ task'[t] = j
                        /\ j.stage = "readB" /\ j.form = b
  BY <1>1, TaskGoes DEF SubmitBInsert, TaskStages
<1>3. Alone(t)
  BY <1>2 DEF ReconInv, ReconTypeOK, Alone
<1>4. formB'[b].status = "PENDING" /\ \A c \in FormBs : c # b => formB'[c] = formB[c]
  BY <1>1 DEF SubmitBInsert, ReconInv, ReconTypeOK
<1>5. Flagged(b)' /\ alerts \subseteq alerts'
  <2>1. CASE FormErrors(Form[b]) = {}
    BY <1>1, <2>1 DEF SubmitBInsert, Flagged
  <2>2. CASE FormErrors(Form[b]) # {}
    <3>1. alerts' = alerts \cup {Alert(b, "INTERNAL_MISMATCH")}
      BY <1>1, <2>2 DEF SubmitBInsert
    <3>2. /\ Alert(b, "INTERNAL_MISMATCH").form = b
          /\ Alert(b, "INTERNAL_MISMATCH").type = "INTERNAL_MISMATCH"
      BY DEF Alert
    <3> QED
      BY <3>1, <3>2 DEF Flagged
  <2> QED
    BY <2>1, <2>2
<1>6. RowOK(b)' /\ ReconcilesB(t)'
  BY <1>2, <1>4, <1>5 DEF RowOK, ReconcilesB
<1>7. Writes
  BY <1>4, <1>6 DEF Writes
<1> QED
  BY <1>3, <1>5, <1>6, <1>7, ComparedMoves

LEMMA ComparedReads ==
    ASSUME ReconInv, ComparedInv, NEW t \in Tasks, ReadFormAs(t)
    PROVE  ComparedInv'
<1>1. task[t].stage = "readB" /\ task[t] \in Task /\ UNCHANGED <<formB, alerts>>
  BY TaskTyped DEF ReadFormAs
<1>2. /\ task'[t].form = task[t].form
      /\ task'[t].read = FormAsFor(task[t].form)
      /\ Alone(t)
  BY <1>1 DEF ReadFormAs, ReconInv, ReconTypeOK, Task, Alone
<1>3. FormAsFor(task[t].form) \subseteq Sheets
  BY DEF FormAsFor
<1>4. ReconcilesB(t)'
  BY <1>1, <1>2, <1>3 DEF ReconcilesB, ComparedInv
<1>5. Writes
  BY <1>1 DEF Writes
<1> QED
  BY <1>1, <1>2, <1>4, <1>5, ComparedMoves

\* A row becomes MATCHED because no listed column differed.
LEMMA ComparedUpdates ==
    ASSUME ReconInv, ComparedInv, NEW t \in Tasks, UpdateFormB(t)
    PROVE  ComparedInv'
<1>1. PICK b \in FormBs : b = task[t].form /\ task[t].stage = "updateB"
  BY TaskTyped DEF UpdateFormB, TaskOK
<1>2. formB[b].status # "NONE" /\ task[t].read \subseteq Sheets /\ Flagged(b)
  BY <1>1 DEF ComparedInv, ReconcilesB, RowOK
<1>3. /\ formB'[b].status = IF DeltasOf(t) # {} THEN "DISCREPANCY" ELSE "MATCHED"
      /\ formB'[b].present = task[t].read
      /\ \A c \in FormBs : c # b => formB'[c] = formB[c]
      /\ alerts' = alerts
  BY <1>1 DEF UpdateFormB, ReconInv, ReconTypeOK
<1>4. Flagged(b)'
  BY <1>2, <1>3 DEF Flagged
<1>5. RowOK(b)' /\ formB'[b].status # "NONE"
  <2>1. formB'[b].status = "MATCHED" => Agrees(b, formB'[b].present)
    BY <1>1, <1>2, <1>3 DEF Agrees, DeltasOf
  <2> QED
    BY <1>3, <1>4, <2>1 DEF RowOK
<1>6. ReconcilesB(t)' /\ Alone(t)
  <2>1. PICK j \in Task : /\ task' = [task EXCEPT ![t] = j]
                          /\ j.stage # "done" => j.stage = "alertB" /\ j.form = b
    <3>1. CASE Goto(t, "alertB")
      BY <1>1, <3>1, TaskGoes DEF TaskStages
    <3>2. CASE End(t)
      BY <3>2, TaskEnds
    <3> QED
      BY <3>1, <3>2 DEF UpdateFormB
  <2>2. task'[t] = j /\ Alone(t)
    BY <2>1 DEF ReconInv, ReconTypeOK, Alone
  <2> QED
    BY <1>5, <2>1, <2>2 DEF ReconcilesB
<1>7. Writes
  BY <1>1, <1>3, <1>5 DEF Writes
<1> QED
  BY <1>3, <1>6, <1>7, ComparedMoves

\* A Form C is reconciled without a Form B at hand.
LEMMA ComparedFormC ==
    ASSUME ReconInv, ComparedInv, NEW t \in Tasks,
           \/ \E f \in FormCs : SubmitC(t, f) \/ RequestC(t, f)
           \/ ReadFormBs(t) \/ UpdateFormC(t) \/ AlertFormC(t)
    PROVE  ComparedInv'
<1>1. UNCHANGED formB /\ alerts \subseteq alerts'
  BY DEF SubmitC, RequestC, ReadFormBs, UpdateFormC, AlertFormC
<1>2. task[t] \in Task
  BY TaskTyped
<1>3. CASE End(t)
  BY <1>1, <1>3, ComparedEnds
<1>4. CASE ~ End(t)
  <2>1. \E j : task' = [task EXCEPT ![t] = j] /\ j.stage \in {"readC", "updateC", "alertC"}
    <3>1. ASSUME NEW f \in FormCs, Begin(t, "readC", f)
          PROVE  \E j : task' = [task EXCEPT ![t] = j] /\ j.stage = "readC"
      BY <3>1, TaskBegins
    <3>2. CASE ReadFormBs(t)
      <4> DEFINE j == [task[t] EXCEPT !.read = FormBsFor(task[t].form),
                                      !.present = InsertedBs, !.stage = "updateC"]
      <4>1. j.stage = "updateC"
        BY <1>2 DEF Task
      <4>2. task' = [task EXCEPT ![t] = j]
        BY <3>2 DEF ReadFormBs, ReconInv, ReconTypeOK
      <4> QED
        BY <4>1, <4>2
    <3>3. CASE UpdateFormC(t)
      BY <1>4, <3>3 DEF UpdateFormC, IdleTask
    <3>4. CASE AlertFormC(t)
      <4> DEFINE type == CHOOSE x \in task[t].todo : TRUE
                 j == [task[t] EXCEPT !.todo = @ \ {type}]
      <4>1. task' = [task EXCEPT ![t].todo = @ \ {type}] /\ task[t].stage = "alertC"
        BY <1>4, <3>4 DEF AlertFormC
      <4>2. j.stage = "alertC"
        BY <1>2, <4>1 DEF Task
      <4>3. task' = [task EXCEPT ![t] = j]
        BY <4>1 DEF ReconInv, ReconTypeOK
      <4> QED
        BY <4>2, <4>3
    <3> QED
      BY <3>1, <3>2, <3>3, <3>4 DEF SubmitC, RequestC
  <2> QED
    BY <1>1, <2>1, ComparedWaits
<1> QED
  BY <1>3, <1>4

LEMMA ComparedDies ==
    ASSUME ReconInv, ComparedInv, NEW t \in Tasks, TaskDies(t)
    PROVE  ComparedInv'
<1>1. UNCHANGED <<formB, alerts>> /\ (End(t) \/ Leave(t))
  BY DEF TaskDies
<1>2. CASE Leave(t)
  <2>1. \E j : task' = [task EXCEPT ![t] = j] /\ j.stage = "died"
    <3> DEFINE j == [IdleTask EXCEPT !.stage = "died", !.form = task[t].form]
    <3>1. task' = [task EXCEPT ![t] = j] /\ j.stage = "died"
      BY <1>2 DEF Leave, IdleTask
    <3> HIDE DEF j
    <3> QED
      BY <3>1
  <2> QED
    BY <1>1, <2>1, ComparedWaits
<1> QED
  BY <1>1, <1>2, ComparedEnds

\* A closed alert still says what it is about.
LEMMA ComparedResolves ==
    ASSUME ReconInv, ComparedInv, NEW a \in alerts, ResolveAlert(a)
    PROVE  ComparedInv'
<1>1. PICK c : c = [a EXCEPT !.status = "CLOSED"]
  OBVIOUS
<1>2. c.form = a.form /\ c.type = a.type
  BY <1>1 DEF ReconInv, ReconTypeOK, Alerts
<1>3. alerts' = (alerts \ {a}) \cup {c} /\ formB' = formB /\ task' = task
  BY <1>1 DEF ResolveAlert
<1>4. \A b \in FormBs : Flagged(b) => Flagged(b)'
  BY <1>2, <1>3 DEF Flagged
<1> QED
  BY <1>3, <1>4 DEF ComparedInv, RowOK, ReconcilesB

LEMMA ComparedStep ==
    ASSUME ReconInv, ComparedInv, [ReconNext]_reconVars
    PROVE  ComparedInv'
<1>1. CASE UNCHANGED reconVars
  BY <1>1 DEF ComparedInv, RowOK, Flagged, ReconcilesB, reconVars
<1>2. ASSUME NEW t \in Tasks, TaskStep(t) PROVE ComparedInv'
  <2>1. CASE SubmitBRefused(t) \/ AlertFormB(t)
    <3>1. End(t) /\ UNCHANGED formB /\ alerts \subseteq alerts'
      BY <2>1 DEF SubmitBRefused, AlertFormB
    <3> QED
      BY <3>1, ComparedEnds
  <2> QED
    BY <1>2, <2>1, ComparedSubmits, ComparedInserts, ComparedReads, ComparedUpdates,
       ComparedFormC, ComparedDies
    DEF TaskStep
<1> QED
  BY <1>1, <1>2, ComparedResolves DEF ReconNext

-----------------------------------------------------------------------------
(* The theorems. *)

ResultsInv == ReportingInv /\ ReconInv /\ ComparedInv

LEMMA NextResults == ASSUME ResultsInv, [ResultsNext]_resultsVars PROVE ResultsInv'
<1>1. ReportingInv'
  <2>1. CASE UNCHANGED reportingVars
    BY <2>1, ReportingWaits DEF ResultsInv
  <2>2. CASE ReportingNext
    BY <2>2, ReportingStep DEF ResultsInv
  <2> QED
    BY <2>1, <2>2 DEF ResultsNext, resultsVars
<1>2. ReconInv'
  <2>1. CASE UNCHANGED reconVars
    BY <2>1, ReconWaits DEF ResultsInv
  <2>2. CASE ReconNext
    BY <2>2, ReconStep DEF ResultsInv
  <2> QED
    BY <2>1, <2>2 DEF ResultsNext, resultsVars
<1>3. ComparedInv'
  <2>1. [ReconNext]_reconVars
    BY DEF ResultsNext, resultsVars
  <2> QED
    BY <2>1, ComparedStep DEF ResultsInv
<1> QED
  BY <1>1, <1>2, <1>3 DEF ResultsInv

LEMMA ResultsHold == ResultsSpec => []ResultsInv
<1>1. ResultsInit => ResultsInv
  BY InitReporting, InitRecon, InitCompared DEF ResultsInit, ResultsInv
<1>2. ResultsInv /\ [ResultsNext]_resultsVars => ResultsInv'
  BY NextResults
<1> QED
  BY <1>1, <1>2, PTL DEF ResultsSpec

\* What publishResults publishes was verified by an official, or recomputed
\* over a row that already was.
THEOREM UnreviewedHolds == ResultsSpec => []UnreviewedNeedsRecompute
<1>1. ResultsInv => UnreviewedNeedsRecompute
  BY DEF ResultsInv, ReportingInv, ReviewedInv, Answered, UnreviewedNeedsRecompute
<1> QED
  BY <1>1, ResultsHold, PTL

\* Publications of a snapshot carry different versions, but for those that
\* counted before either was stored.
THEOREM SameVersionHolds == ResultsSpec => []SameVersionNeedsOverlap
<1>1. ASSUME ResultsInv, NEW p \in Publishes, NEW q \in Publishes, publication[p].scope # {},
             publication[p].scope = publication[q].scope,
             publication[p].version = publication[q].version
      PROVE  p \notin publication[q].knew
  <2> SUFFICES ASSUME p \in publication[q].knew PROVE FALSE
    OBVIOUS
  <2> DEFINE P == publication[p].knew
             Q == publication[q].knew
  <2>1. /\ p \notin P /\ P \subseteq Q
        /\ publication[p].version = Cardinality(P) + 1
        /\ publication[q].version = Cardinality(Q) + 1
    BY <1>1 DEF ResultsInv, ReportingInv, VersionInv, Numbered
  <2>2. Q \in SUBSET Publishes
    BY <1>1 DEF ResultsInv, ReportingInv, ReportingTypeOK, Publication
  <2> HIDE DEF P, Q
  <2>3. IsFiniteSet(Q)
    BY <2>2, RequestsAreFinite, FS_Subset
  <2>4. P \subseteq Q \ {p} /\ p \in Q
    BY <2>1 DEF Q
  <2>5. /\ IsFiniteSet(Q \ {p}) /\ Cardinality(Q \ {p}) = Cardinality(Q) - 1
    BY <2>3, <2>4, FS_RemoveElement
  <2>6. IsFiniteSet(P) /\ Cardinality(P) <= Cardinality(Q \ {p})
    BY <2>4, <2>5, FS_Subset
  <2>7. Cardinality(P) \in Nat /\ Cardinality(Q) \in Nat
    BY <2>3, <2>6, FS_CardinalityType
  <2>8. Cardinality(P) + 1 = Cardinality(Q) + 1
    BY <1>1, <2>1
  <2>9. Cardinality(P) <= Cardinality(Q) - 1
    BY <2>5, <2>6
  <2> QED
    BY <2>7, <2>8, <2>9
<1>2. ResultsInv => SameVersionNeedsOverlap
  BY <1>1 DEF SameVersionNeedsOverlap
<1> QED
  BY <1>2, ResultsHold, PTL

\* A form left in DISCREPANCY has its alert, or a request that is about to
\* raise it or failed just before; no other reconciliation hides it.
THEOREM DiscrepancyHolds == ResultsSpec => []DiscrepancyIsAlerted
<1>1. ResultsInv => DiscrepancyIsAlerted
  BY DEF ResultsInv, ReconInv
<1> QED
  BY <1>1, ResultsHold, PTL

\* A Form C is shown as VERIFIED only when its valid votes are the sum of the
\* Form Bs of its scope that it was compared with.
THEOREM VerifiedCoversHolds == ResultsSpec => []VerifiedCoversForms
<1>1. ResultsInv => VerifiedCoversForms
  BY DEF ResultsInv, ReconInv
<1> QED
  BY <1>1, ResultsHold, PTL

\* A MATCHED Form B without an alert on itself gives every candidate, listed or
\* not, what its Form As give, if these are valid: whatever they are, however
\* many, and whichever requests reconcile it at the same time.
THEOREM MatchedHolds == ResultsSpec => []MatchedIsExact
<1>1. ASSUME ResultsInv, NEW b \in FormBs, formB[b].status = "MATCHED",
             ~\E a \in alerts : a.form = b /\ a.type = "INTERNAL_MISMATCH",
             \A c \in formB[b].present : TallyStatus(Form[c]) = "VALID"
      PROVE  Exact(b, formB[b].present)
  <2>1. Agrees(b, formB[b].present) /\ FormErrors(Form[b]) = {}
    BY <1>1 DEF ResultsInv, ComparedInv, RowOK, Flagged
  <2>2. CandidateSum(Form[b]) = Form[b].valid
    BY <2>1 DEF FormErrors, Broken
  <2> QED
    BY <1>1, <2>1, <2>2, AgreementIsExact
<1>2. ResultsInv => MatchedIsExact
  BY <1>1 DEF MatchedIsExact, Exact
<1> QED
  BY <1>2, ResultsHold, PTL

=============================================================================
