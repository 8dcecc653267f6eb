SPECIFICATION Spec
CONSTANTS
    w1 = w1  w2 = w2  q1 = q1  q2 = q2  d1 = d1
    Thread = {w1, w2, d1}
    Kind <- MCKind
    FileEntry = {e1, e2}
    None = None
INVARIANTS OneWriterPerName
CHECK_DEADLOCK FALSE
