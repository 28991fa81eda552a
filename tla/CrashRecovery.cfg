SPECIFICATION RecoverySpec
CONSTANTS
    Handlers = {h1, h2}
    PKeys = {p1, p2}
    UKeys = {a, b}
    RecIds = {r1, r2}
    KeyIds = {k1, k2}
    OpIds = {o1, o2, o3}
    Nil = Nil
    Keep = Keep
    EmptyPk = EmptyPk
    Statements = {"write", "update", "delete"}
    Faults = {"args", "set_value", "late_write"}
    SharedTargets = FALSE
    Recording = TRUE
    MaxCrashes = 1
CONSTRAINT NoFailedRepair
SYMMETRY IdSymmetry
INVARIANTS
    RecoveryTypeOK
    RepairedIndex
    RepairIsAlone
