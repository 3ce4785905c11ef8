CONSTANTS
    Requests = {q1, q2}
    Callers <- TeamCallers
    Elsewhere <- TeamCallers
    None = none
    Quotas <- TeamQuotas
    Unlimited = unlimited
    NoRecord = norecord
    OrgShare = FALSE
    OrgMembers = 2
    TeamShare = TRUE
    TeamMembers = 2
    DaysPerMonth = 2
    DaysPerYear = 2
    Costs = {1}
    MaxRecords = 2
    MaxDay = 1
SPECIFICATION Spec
INVARIANT NeverOvercounts
SYMMETRY Symmetry
