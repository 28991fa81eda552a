SPECIFICATION AutoIncSpec
CONSTANTS
    Handlers = {h1, h2}
    Nil = Nil
    MaxValue = 15
    Limit = 2
    MaxRows = 3
    Explicit = {1, 3}
    Created = {0, 2}
SYMMETRY HandlerSymmetry
INVARIANTS
    AutoIncTypeOK
    CounterAhead
    GeneratedIsNew
