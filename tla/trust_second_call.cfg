SPECIFICATION Spec
CONSTANTS
    Capsules = {c1}
    Calls = {k1, k2}
    Batches = {b1, b2}
    Outcomes = {"DUAL_ANCHORED"}
    MaxStops = 0
INVARIANT SecondCallIsHarmless
