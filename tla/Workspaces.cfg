SPECIFICATION Spec
CONSTANTS
    u1 = u1
    u2 = u2
    u3 = u3
    i1 = i1
    i2 = i2
    q1 = q1
    q2 = q2
    w1 = w1
    w2 = w2
    NoUser = NoUser
    User = {u1, u2, u3}
    Invitation = {i1}
    Request = {q1, q2}
    Role = {"member"}
    Worker = {w1}
CONSTRAINTS
    BeforeSplit
    FirstEmails
SYMMETRY WorkspaceSymmetry
INVARIANTS
    TypeOK
    
PROPERTIES
    JoinsActive
    RevokedStaysOut
    ImplementsContract
