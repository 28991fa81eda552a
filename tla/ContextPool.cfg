SPECIFICATION PoolSpec
CONSTANTS
    Calls = {s1, s2}
    Contexts = {c1, c2, c3}
    Nil = Nil
SYMMETRY PoolSymmetry
INVARIANTS
    PoolTypeOK
    ContextOwned
    CountIsOpen
    NotIncreasedContinually
    CancelIsOwn
