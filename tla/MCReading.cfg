CONSTANTS
    Payloads <- MCPayloads
    Read <- ReadTable
    Columns <- MCColumns
    NoId = "none"
    Window = 2
    Keep = 3
    MaxTime = 4
    Bridges = {"a"}
    Connectors = {"b", "c"}
    Apps = {"p"}
    UserOf <- MCUserOf
    NoUser = "nobody"
    MaxAt = 2
    Bounded = TRUE
    MaxLog = 3
    Members = {"u", "v"}
    Fields = {"name", "mute"}
    Merging = {"mute"}
    Said = {1, 2}
    Stories <- MCStories
    History = 5
    Batch = 2
    Counts = {4}
    Knowns <- MCKnowns
    Repeats = TRUE
    Copies = 1
    Chats = 5
    MaxBatches = 3
SPECIFICATION MCSpec
INVARIANTS
    TablesRead
    ArrivesAsSent
    RightTarget
    PortalFollows
    HistoryWhole
PROPERTIES
    NewestEditStands
CHECK_DEADLOCK FALSE
