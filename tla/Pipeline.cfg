SPECIFICATION FairSpec
CONSTANTS
    u1 = u1
    u2 = u2
    n1 = n1
    n2 = n2
    w1 = w1
    w2 = w2
    User = {u1}
    Note = {n1}
    Owner <- OneEach
    Worker = {w1, w2}
    Preference <- InstantOrHourly
INVARIANTS
    TypeOK
    Accounted
PROPERTIES
    ImplementsContract
    DispatchedUnlessWedged
    DeliveriesEnd
