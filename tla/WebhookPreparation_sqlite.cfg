CONSTANTS
    t1 = t1
    t2 = t2
    typeA = typeA
    typeB = typeB
    Unreadable = unreadable
    Subscriptions = {s1}
    Tenants = {t1, t2}
    Types = {typeA, typeB}
    Kinds <- AllKinds
    Filters <- BothFilters
    Preparers = {p1}
    Agents = {a1}
    QueueCapacity = 1
    OwnCapacity = 2
    Budget = 2
    MaxSubscriptions = 1
    ReuseIds = FALSE
    Postgres = FALSE
    MaxSequence = 2
    MaxRevision = 3
SPECIFICATION Spec
INVARIANTS NoOrphans QueueCapacityHolds
PROPERTIES StartsAtEnd
