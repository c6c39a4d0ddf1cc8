SPECIFICATION PartsSpec
CONSTANTS
    i1 = i1
    c1 = c1
    c2 = c2
    x = x
    y = y
    e1 = e1
    e2 = e2
    p1 = p1
    w1 = w1
    w2 = w2
    f1 = f1
    q1 = q1
    q2 = q2
    Item = {i1}
    Client = {c1, c2}
    Title = {x, y}
    NoItem = NoItem
    MaxVersion = 3
    MaxNumber = 2
    Entry = {e1, e2}
    Person = {p1}
    Work = {w1, w2}
    Call = {q1, q2}
    Field = {f1}
    Choice = {x, y}
    Setter = {q1, q2}
    File = {e1, e2}
    Parent = {p1}
    Size = {1, 2}
    Quota = 3
    Upload = {q1, q2}
    Nothing = NoItem
SYMMETRY Symmetry
INVARIANTS
    ItemsConsistent
    ProductivityConsistent
    AttachmentsConsistent
PROPERTIES
    ImplementsContract
CHECK_DEADLOCK FALSE
