SPECIFICATION Spec
CONSTANTS
    Names = {n1}
    Setters = {}
    Purgers = {p1}
    Pruners = {q1}
    Servers = {FALSE}
    MaxFaults = 0
SYMMETRY Slots
INVARIANT PurgeRemovesSettled
