CONSTANTS
    Deliveries = {d1}
    Workers = {w1}
    MaxAttempts = 2
    ClaimBatch = 1
SPECIFICATION Spec
PROPERTIES AcknowledgementIsFinal
