SPECIFICATION Spec
CONSTANTS
    Nil = Nil
    c1 = c1
    c2 = c2
    p1 = p1
    v1 = v1
    Ctrs = {c1, c2}
    Pods = {p1}
    Vols = {v1}
    Locks = {l1, l2, l3}
    Procs = {a, b}
    AnonVolume <- MCAnonVolume
    FaultSets <- MCExecOnly
SYMMETRY MCSymmetry
INVARIANTS
    LocksDistinct
