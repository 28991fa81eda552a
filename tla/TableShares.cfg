SPECIFICATION SharesSpec
CONSTANTS
    Sessions = {s1, s2, s3}
    Tables = {t1, t2}
    Shares = {x1, x2}
    LongTerms = {l1, l2}
    Databases = {d1, d2, d3, d4}
    Nil = Nil
    Locked = TRUE
SYMMETRY ShareSymmetry
INVARIANTS
    SharesTypeOK
    ShareCounted
    OneCounter
    TableKeepsDatabase
