CONSTANTS
    u1 = u1
    e1 = e1
    e2 = e2
    s1 = s1
    s2 = s2
    s3 = s3
    t1 = t1
    t2 = t2
    q1 = q1
    q2 = q2
    Nobody = Nobody
    MaxRows = 3
    User = {u1}
    Email = {e1, e2}
    Session = {s1, s2, s3}
    Token = {t1, t2}
    Request = {q1, q2}
SPECIFICATION Spec
SYMMETRY Symmetry
INVARIANTS
    SessionsConsistent
    RefreshReplaces
    TokensConsistent
    AccountsConsistent
CHECK_DEADLOCK FALSE
