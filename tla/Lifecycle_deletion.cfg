CONSTANTS
    tenant = tenant
    org = org
    member = member
    q1 = q1
    q2 = q2
    w1 = w1
    w2 = w2
    Tenant = tenant
    Children = {org, member}
    Members = {member}
    Requests = {q1, q2}
    Workers = {w1, w2}
    LockOrder <- LockOrderMC
    OwnRow <- OwnRowMC
    PurgeOrder <- PurgeOrderMC
    Audits <- AuditsMC
    Namesakes = {"namesake"}
    TeamRows <- TeamRowsMC
    OwnedAlerts <- OwnedAlertsMC
    DetachAudits <- DetachAuditsMC
    Traffics <- TrafficsMC
SPECIFICATION FairSpec
INVARIANTS ExportCovers PurgedIsEmpty 
PROPERTIES Implements 
