CONSTANTS
    t1 = t1
    t2 = t2
    typeA = typeA
    typeB = typeB
    Unreadable = unreadable
    Subscriptions = {s1}
    Tenants = {t1}
    Types = {typeA, typeB}
    Kinds <- OneKind
    Filters <- OneFilter
    Preparers = {p1}
    Agents = {a1}
    QueueCapacity = 2
    OwnCapacity = 2
    Budget = 2
    MaxSubscriptions = 1
    ReuseIds = FALSE
    Postgres = TRUE
    MaxSequence = 1
    MaxRevision = 3
SPECIFICATION Spec
INVARIANTS NoOrphans
