SPECIFICATION Spec
CONSTANTS
    c1 = c1  c2 = c2  f1 = f1  h1 = h1  h2 = h2
    Client = {c1, c2}
    File = {f1}
    Handler = {h1, h2}
    MaxOpenFiles = 2
    MaxCalls = 3
    maxTries = 2
    Careful = TRUE
    None = None
SYMMETRY Symmetry
INVARIANTS TypeOK ExecutedOnce LiveCanRead SomeoneMoves
CHECK_DEADLOCK FALSE
