CONSTANTS
    h1 = h1
    h2 = h2
    a1 = a1
    a2 = a2
    w1 = w1
    w2 = w2
    Hook = {h1}
    Activity = {a1, a2}
    Worker = {w1, w2}
    Events <- AllOrFirst
    MaxAttempts = 2
SPECIFICATION FairSpec
INVARIANTS
    AttemptsCounted
PROPERTIES
    FinalIsFinal
    ActivitiesEnd
