SPECIFICATION Spec
CONSTANTS
    Capsules = {c1}
    Slots = {s1}
    Agents = {a1}
    Submits = {p1}
    Validates = {v1, v2}
    Anchoreds = {n1}
    AiResults = {x1, x2}
    Tallies = {t1}
    Syncs = {}
    Requests <- MCRequests
    Workload <- MCWorkload
    Routings = {"APPROVE_FOR_REVIEW", "ESCALATE"}
    AnchorStates = {"DUAL_ANCHORED"}
    SyncStates = {"COMPLETE"}
    CustodyTypes <- EntityCustodyTypes
    MaxInFlight = 3
SYMMETRY Symmetry
INVARIANTS
    TypeOK
    CustodyTailIsStatus
    AnchoringNeedsHumanApproval
    ImageIsStored
    LockFollowsAnchoring
    OneAnchorCallPerApproval
 
