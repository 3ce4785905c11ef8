CONSTANTS
    Requests = {q1, q2}
    Callers <- OrgCallers
    Elsewhere <- Applications
    None = none
    Quotas <- OrgQuotas
    Unlimited = unlimited
    NoRecord = norecord
    OrgShare = FALSE
    OrgMembers = 2
    TeamShare = FALSE
    TeamMembers = 2
    DaysPerMonth = 2
    DaysPerYear = 2
    Costs = {1}
    MaxRecords = 2
    MaxDay = 1
SPECIFICATION Spec
INVARIANTS TypeOK NoUndercount RefusedOnceSpent CountedAtMostTwice
SYMMETRY Symmetry
