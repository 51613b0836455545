SPECIFICATION Spec
CONSTANTS
    Capsules = {c1}
    Slots = {s1}
    Agents = {a1}
    Submits = {p1}
    Validates = {v1}
    Anchoreds = {n1}
    AiResults = {x1}
    Tallies = {}
    Syncs = {}
    Requests <- MCRequests
    Workload <- MCWorkload
    Routings = {"ESCALATE"}
    AnchorStates = {"DUAL_ANCHORED"}
    SyncStates = {"COMPLETE"}
    CustodyTypes <- MigratedCustodyTypes
    MaxInFlight = 1
SYMMETRY Symmetry
INVARIANT SchemaAcceptsHandlers
