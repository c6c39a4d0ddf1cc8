SPECIFICATION ChecksSpec
CONSTANTS
    t1 = t1
    t2 = t2
    t3 = t3
    c1 = c1
    c2 = c2
    Nobody = Nobody
    Task = {t1, t2, t3}
    Client = {c1, c2}
    MaxEdges = 3
    Node = {t1, t2, t3}
INVARIANTS
    TypeOK
    CirclesWereMissed
    ResultCorrect
PROPERTIES
    Terminates
CHECK_DEADLOCK FALSE
