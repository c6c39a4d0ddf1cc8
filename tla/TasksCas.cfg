SPECIFICATION Spec
CONSTANTS
    t1 = t1
    t2 = t2
    c1 = c1
    c2 = c2
    c3 = c3
    k1 = k1
    k2 = k2
    x1 = x1
    x2 = x2
    NoTask = NoTask
    Unset = Unset
    Task = {t1}
    Client = {c1, c2}
    Column = {k1, k2}
    Title = {x1, x2}
    DoneColumn = {k2}
    Kind <- CompareAndSetKinds
    MaxVersion = 3
SYMMETRY ClientSymmetry
INVARIANTS
    VersionNamesState
    CompletedIffDone
PROPERTIES
    EveryWriteIsVersioned
    NoSilentOverwrite
    NotifiedOncePerCompletion
    ImplementsContract
