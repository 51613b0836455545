SPECIFICATION Spec
CONSTANTS
    Capsules = {c1, c2}
    Slots = {s1}
    Agents = {a1, a2}
    Submits = {p1, p2}
    Validates = {v1, v2, v3}
    Anchoreds = {n1}
    AiResults = {x1, x2}
    Tallies = {t1}
    Syncs = {y1}
    Requests <- MCRequests
    Workload <- MCWorkload
    Routings = {"ESCALATE"}
    AnchorStates = {"DUAL_ANCHORED", "FAILED"}
    SyncStates = {"COMPLETE"}
    CustodyTypes <- EntityCustodyTypes
    MaxInFlight = 1
SYMMETRY Symmetry
INVARIANTS
    CustodyChainUnbroken
    AnchoredWasApproved
    SlotHasOneAgent
