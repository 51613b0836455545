\* Two stations with a capsule each; two requests of each kind to report, three to reconcile.
CONSTANTS
    c1 = c1
    c2 = c2
    a1 = a1
    a2 = a2
    a3 = a3
    s1 = s1
    s2 = s2
    b1 = b1
    b2 = b2
    b3 = b3
    f1 = f1
    none = none
    Capsules = {c1, c2}
    Sheets = {a1, a2, a3}
    CapsuleOf <- MCCapsuleOf
    NoSheet = none
    Stations = {s1, s2}
    StationOf <- MCStationOf
    Levels <- MCLevels
    BATCH = 2
    Computes = {k1, k2}
    Verifies = {v1}
    Publishes = {p1, p2}
    Tasks = {t1, t2, t3}
    FormBs = {b1, b2, b3}
    FormCs = {f1}
    Form <- MCForm
    Area <- MCArea
    Constituencies <- MCConstituencies
    WithElection = {c1, c2}
SYMMETRY Symmetry
SPECIFICATION Spec
INVARIANTS  SameVersionNeedsOverlap DiscrepancyIsAlerted MatchedIsExact VerifiedCoversForms
CHECK_DEADLOCK FALSE
