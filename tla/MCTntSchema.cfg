SPECIFICATION Spec
CONSTANTS
    Names = {A, B}
    Numbers = {1, 2}
    IndexNames = {p, q}
    IndexNumbers = {0}
    Addrs = {a1, a2, a3, a4}
    MaxLoads = 3
SYMMETRY Symmetry
INVARIANTS NoDanglingEntry CurrentResolves
PROPERTIES FlushEmpties
