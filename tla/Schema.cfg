SPECIFICATION Spec
CONSTANTS
    Names = {t1, t2}
    Keys = {1, 2, 3, 4, 5, 6, 7}
    Parts <- MCParts
    Unique = {3, 5}
    Lexicon = {6}
    Foreign = {7}
    Ids = {1, 2, 3}
    Rows <- MCRows
    Columns = {c, d}
    MaxKeys = 2
    MaxMishaps = 1
    WrapperKeys = {1, 2}
    StorageKeys = {3, 4, 5, 6, 7}
    Pks = {1, 2}
SYMMETRY Alike
VIEW Seen
INVARIANTS
    SchemaTypeOK
    IndexAnswers
    UniqueChecked
    TableOpens
    NothingLeft
CHECK_DEADLOCK FALSE
