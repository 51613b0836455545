\* Two agents, two assignments of three, two stations, three places; batches of up to five leaves.
CONSTANTS
    e1 = e1
    e2 = e2
    ann = ann
    ben = ben
    school = school
    hall = hall
    gate = gate
    village = village
    town = town
    Agents = {ann, ben}
    NoAgent = NoAgent
    Stations = {school, hall}
    Mapped = {school}
    Places = {gate, village, town}
    Distance <- MCDistance
    Positions <- MCPositions
    NoFix = NoFix
    NoAssignment = NoAssignment
    Plans <- MCPlans
    Radii = {0}
    MaxDuties = 2
    MaxEdits = 1
    Fetches = {f1, f2}
    h1 = h1
    h2 = h2
    h3 = h3
    h4 = h4
    h5 = h5
    Hashes = {h1, h2, h3, h4, h5}
SYMMETRY Symmetry
SPECIFICATION Spec
INVARIANTS
    OwnAssignment
    VerdictsAgree
    ProofShowsMembership
    RootFixesBatch
CHECK_DEADLOCK FALSE
