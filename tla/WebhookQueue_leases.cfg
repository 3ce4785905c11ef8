CONSTANTS
    Deliveries = {d1}
    Workers = {w1, w2}
    MaxAttempts = 3
    ClaimBatch = 1
SPECIFICATION FairSpec
INVARIANTS TypeOK AttemptIsExclusive SendsWithinAttempts OutcomeIsTruthful
PROPERTIES LateResultHarmless NeverReopened ClosesEventually
