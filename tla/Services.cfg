SPECIFICATION Spec
CONSTANTS
    NoId = NoId
    p1 = p1
    p2 = p2
    p3 = p3
    c1 = c1
    c2 = c2
    Instances <- MCInstances
    CliTypes = {"x", "y"}
    Races <- MCRaces
    MaxTurns = 2
    MaxWire = 4
    Subs = {"a", "b"}
    Parent = "p"
    NoOne = "-"
    Families <- MCFamilies
    MaxAsks = 1
    Programs = {"claude-code", "antigravity", "codex", "grok", "opencode"}
    Quoted <- MCQuoted
    Daemons <- MCDaemons
    Fleets <- MCFleets
    Requests <- MCRequests
    MaxSpawns = 3
    MaxHops = 3
    MaxLoad = 3
    MaxTrouble = 1
    Versions = {1, 2, 3}
    Bins <- MCBins
    Updates = {"u"}
    Hosts = {"m"}
    Overlap = FALSE
    MaxUpdates = 2
    Placed = {"s", "t"}
    NodePaths <- MCNodePaths
    Dirs <- MCDirs
    WorkDir <- MCWorkDir
    MaxRequests = 4
    Parties = 1
    PerHour = 2
    Raw = 1
    Kept = 2
    Work = {0, 1}
    RAM = {0, 1, 2}
    MaxClock = 6
    MaxSamples = 3
    Writers = 1
    Sessions = {1, 2, 3}
    Paths <- MCPaths
    Dir <- MCDir
    Cwd <- MCCwd
    Pane <- MCPane
    Supervisors = {2}
    MaxQueue = 1
    MaxChanges = 2
    MaxKeys = 2
    MaxCmds = 2
    Placeholder = "placeholder"
    Conversations = {c1, c2}
    Prompts = {p1, p2, p3}
    Tabs = {"tab"}
    MaxCalls = 1
INVARIANTS TypesOK RowTrue FleetTrue LoadTrue
PROPERTIES SafeUpdates DeleteSpares
SYMMETRY Symmetry
CHECK_DEADLOCK FALSE
