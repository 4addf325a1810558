SPECIFICATION Spec
CONSTANTS
    Names = {n1, n2}
    Setters = {s1}
    Purgers = {p1}
    Pruners = {q1, q2}
    Servers = {TRUE, FALSE}
    MaxFaults = 1
SYMMETRY Slots
INVARIANTS
    TypeOK
    UntrackedIsAdopted
