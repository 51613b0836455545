SPECIFICATION FairSpec
CONSTANTS
    Capsules = {c1, c2}
    Calls = {k1, k2, k3}
    Batches = {b1, b2, b3}
    Outcomes = {"DUAL_ANCHORED", "FAILED"}
    MaxStops = 1
INVARIANTS
    LeavesMatchBatch
    ToldIsStored
    HederaClaimIsTrue
    AcceptedIsHeld
PROPERTY AcceptedIsTold
