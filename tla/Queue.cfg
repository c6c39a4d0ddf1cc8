SPECIFICATION Spec
CONSTANTS
    u1 = u1
    u2 = u2
    m1 = m1
    m2 = m2
    s1 = s1
    s2 = s2
    NoUser = NoUser
    User = {u1, u2}
    Mutation = {m1, m2}
    Slot = {s1, s2}
    Answer = {"ok", "conflict", "late", "hidden"}
SYMMETRY QueueSymmetry
CONSTRAINTS
    NotTorn
    AppliedOnce
INVARIANTS
    QueueConsistent
PROPERTIES
    ConflictsWait
    LeftIsFinal
    ImplementsOutbox
