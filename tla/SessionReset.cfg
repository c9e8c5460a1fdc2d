SPECIFICATION Spec
CONSTANTS
    s1 = s1
    s2 = s2
    s3 = s3
    Ids <- Three
    None = None
    Modes <- Reset
    MaxProcs = 2
PROPERTY Decoupled
CHECK_DEADLOCK FALSE
