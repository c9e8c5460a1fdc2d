SPECIFICATION Spec
CONSTANTS
    s1 = s1
    s2 = s2
    s3 = s3
    Ids <- Three
    None = None
    Modes <- Lifecycles
    MaxProcs = 2
INVARIANTS TypeOK SerialOneOwner
PROPERTIES DeadNoticed DeletedStops
CHECK_DEADLOCK FALSE
