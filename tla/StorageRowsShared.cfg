SPECIFICATION FairSpec
CONSTANTS
    Handlers = {h1, h2}
    PKeys = {p1}
    UKeys = {a}
    RecIds = {r1}
    KeyIds = {k1}
    OpIds = {o1, o2}
    Nil = Nil
    Keep = Keep
    EmptyPk = EmptyPk
    Statements = {"write", "update", "delete", "delete_all", "truncate"}
    Faults = {"args", "index_add", "table_add", "set_value", "late_write",
              "late_update", "table_delete", "index_update", "truncate"}
    SharedTargets = TRUE
    Recording = TRUE
INVARIANTS
    ChangeIsLogged
    LogIsLive
PROPERTY
    MutexReleased
