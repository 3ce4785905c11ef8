CONSTANTS
    t1 = t1
    t2 = t2
    typeA = typeA
    typeB = typeB
    Unreadable = unreadable
    Subscriptions = {s1, s2}
    Tenants = {t1}
    Types = {typeA, typeB}
    Kinds <- OneKind
    Filters <- OneFilter
    Preparers = {p1, p2}
    Agents = {a1, a2}
    QueueCapacity = 2
    OwnCapacity = 1
    Budget = 1
    MaxSubscriptions = 1
    ReuseIds = FALSE
    Postgres = TRUE
    MaxSequence = 2
    MaxRevision = 3
SPECIFICATION Spec
INVARIANTS OwnCapacityHolds SubscriptionCapHolds
PROPERTIES  WritersDetectEachOther PositionNeverFalls LossIsReported
CONSTRAINT Scenarios
SYMMETRY Symmetry
