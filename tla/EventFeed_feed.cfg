CONSTANTS
    Writers = {rc1, rc2, ser}
    Serializable = {ser}
    NoWriter = none
    Resources = {r1}
    Purgers = {p1, p2}
    Consumers = {c1}
    PageLimit = 1
    PurgeBatch = 1
    Postgres = TRUE
    MaxVersion = 3
    MaxSequence = 3
SPECIFICATION Spec
    
PROPERTIES PrefixClosed ConditionHoldsAtCommit
SYMMETRY Symmetry
