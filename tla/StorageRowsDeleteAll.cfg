SPECIFICATION Spec
CONSTANTS
    Handlers = {h1, h2}
    PKeys = {p1, p2}
    UKeys = {a, b}
    RecIds = {r1, r2}
    KeyIds = {k1, k2}
    OpIds = {o1, o2}
    Nil = Nil
    Keep = Keep
    EmptyPk = EmptyPk
    Statements = {"write", "delete_all"}
    Faults = {}
    SharedTargets = FALSE
    Recording = TRUE
SYMMETRY IdSymmetry
INVARIANT UniqueKey
