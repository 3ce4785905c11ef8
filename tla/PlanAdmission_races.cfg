SPECIFICATION FairSpec
CONSTANTS
    r1 = r1
    r2 = r2
    r3 = r3
    alice = alice
    m1 = m1
    m2 = m2
    k1 = k1
    k2 = k2
    NoUser = NoUser
    AnyModel = AnyModel
    Requests <- ThreeRequests
    Users <- OneUser
    UserOf <- OfUser
    Models <- TwoModels
    ModelOf <- OfModel
    Members = 2
    Providers <- Configurations
INVARIANTS
    CountersExact
    WithinLimits
    EveryKeyTried
PROPERTIES
    CooldownsEarned
    Drains
