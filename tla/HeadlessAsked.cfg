SPECIFICATION Spec
CONSTANTS
    Placeholder = Placeholder
    Convs = {c1, c2}
    Prompts = {p1, p2}
    Tabs = {t1}
    MaxCalls = 1
    None = None
INVARIANT AskedIsInterrupted
CHECK_DEADLOCK FALSE
