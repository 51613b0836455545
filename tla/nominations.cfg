\* Three elections of two tenants; two candidates for one nomination and a third person who may stand, two declarations.
CONSTANTS
    e1 = e1
    e2 = e2
    e3 = e3
    Elections = {e1, e2, e3}
    TenantOf <- MCTenantOf
    Updates = {u1}
    Openings = {o1, o2}
    Primary = e3
    Nominees = {a, b}
    Persons = {a, b, c}
    Registers = {r1}
    Promotes = {p1}
    Declares = {d1, d2}
    Changes = {h1}
    Targets = {"WITHDRAWN", "NOMINATED"}
SYMMETRY Symmetry
SPECIFICATION Spec
INVARIANTS OneWinnerUnlessChanged HistoryEndsInStatus OneActiveUnlessUpdated
CHECK_DEADLOCK FALSE
