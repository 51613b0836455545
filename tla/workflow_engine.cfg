\* Two starts for one capsule, one deadline check at a time, one process stop.
CONSTANTS
    r1 = r1
    r2 = r2
    c1 = c1
    Requests = {r1, r2}
    Capsules = {c1}
    CapsuleOf <- MCCapsuleOf
    Checks = {k1}
    SlaBatch = 2
    PublishServed = TRUE
SPECIFICATION FairSpec
INVARIANTS StatusIsTrue AnchorNeedsValidator DoubleStartNeedsOverlap OneBreachPerExecution
PROPERTY OverdueIsEscalated
CHECK_DEADLOCK FALSE
