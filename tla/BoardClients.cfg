SPECIFICATION BoardSpec
CONSTANTS
    t1 = t1
    c1 = c1
    b1 = b1
    k1 = k1
    k2 = k2
    x1 = x1
    e1 = e1
    NoTask = NoTask
    Unset = Unset
    Event = Event
    Task = {t1}
    Client = {c1, b1}
    Mover = {b1}
    Column = {k1, k2}
    Title = {x1}
    DoneColumn = {k2}
    Kind <- Lifecycle
    Editor = {e1}
    App = {"mobile", "web"}
    MaxVersion = 2
INVARIANTS
    BoardHonest
