SPECIFICATION Spec
CONSTANTS
    Images = {i1, i2}
    Stations = {s1}
    StreamOf <- MCStreamOf
    Devices = {d1, d2}
    Tenants = {o1}
    Times = {c1, c2}
INVARIANT GenuineIsAccepted
