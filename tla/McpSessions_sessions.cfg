CONSTANTS
    Requests = {r1, r2}
    Connectors <- ConnectorIds
    Sessions <- SessionIds
    Faults = 2
    None = None
SPECIFICATION FairSpec
INVARIANTS
    CredentialsCurrent
    OneSession
PROPERTIES
    GivenUpForCause
    Drains
