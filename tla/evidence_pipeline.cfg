SPECIFICATION PipelineSpec
CONSTANTS
    Capsules = {c1}
    Slots = {s1}
    Agents = {a1}
    Submits = {p1}
    Validates = {v1}
    Anchoreds = {n1, n2}
    AiResults = {x1, x2}
    Requests <- MCRequests
    Workload <- MCWorkload
    Routings = {"ESCALATE"}
    AnchorStates = {"DUAL_ANCHORED", "FAILED"}
    SyncStates = {}
    CustodyTypes <- MCCustodyTypes
    MaxInFlight = 1
    AiCalls = {k1, k2}
    MaxAttempts = 1
    TrustCalls = {t1, t2}
    Batches = {b1, b2}
    MaxStops = 1
SYMMETRY Symmetry
INVARIANTS
    AiReportsOnce
    AnchoredIsVerifiable
    OnlyApprovedOnLedger
PROPERTY KeepsLifecycle
