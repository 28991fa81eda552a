SPECIFICATION Spec
CONSTANTS
    Handlers = {h1, h2}
    PKeys = {p1, p2}
    UKeys = {a, b, c}
    RecIds = {r1, r2}
    KeyIds = {k1, k2, k3}
    OpIds = {o1, o2}
    Nil = Nil
    Keep = Keep
    EmptyPk = EmptyPk
    Statements = {"write", "update", "delete", "truncate"}
    Faults = {"args", "index_add", "set_value", "late_write", "table_delete"}
    SharedTargets = FALSE
    Recording = TRUE
SYMMETRY IdSymmetry
INVARIANTS
    TypeOK
    UniqueKey
    RowHasKey
    NoOrphanKey
    KeyInv
