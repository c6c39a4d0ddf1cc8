CONSTANTS
    c1 = c1
    c2 = c2
    c3 = c3
    n1 = n1
    n2 = n2
    n3 = n3
    t1 = t1
    q1 = q1
    q2 = q2
    Nobody = Nobody
    Column = {c1, c2, c3}
    Name = {n1, n2, n3}
    Task = {t1}
    Request = {q1, q2}
    Shift = 3
    MaxPosition = 5
SPECIFICATION BoardSpec
SYMMETRY Symmetry
INVARIANTS
    BoardConsistent
PROPERTIES
    DeleteKeepsOrder
CHECK_DEADLOCK FALSE
