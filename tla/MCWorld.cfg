CONSTANTS
    Tasks = {s, t}
    Rooms = {"lobby", "den"}
    Lobby = "lobby"
    Avatars = {"x", "y"}
    ActorOf <- MCActor
    WorldOwners = {"x"}
    Anyone = "*"
    Names = {"north", "n"}
    Authored <- MCAuthored
    Elsewhere = "elsewhere"
    None = None
    Workers = {w1, w2}
    Visitors = {"v#1", "w"}
    Roots = {"v", "w", "world"}
    RootOf <- MCRootOf
    WorldRoot = "world"
    Configured = {}
    Halls = {"lobby"}
    Tags = {"nb", "en"}
    Unreadable = Unreadable
    Ids = {1, 2, 3}
    MaxInbox = 2
    PendingSpan = 1
    DecidedSpan = 0
    MaxClock = 2
    NoOne = NoOne
    Keys = {a, b, c}
    Values = {v1, v2}
    Epochs = {0}
    Ages = {1, 2}
    Forever = 9
    Capacities = {Nothing, 1}
    MaxTime = 2
    MaxSeq = 3
    Nothing = Nothing
SYMMETRY Alike
SPECIFICATION MCSpec
CHECK_DEADLOCK FALSE
INVARIANTS
    AclSound
    
    EntitledEnter
    IndexesAgree
PROPERTIES
    OccupantsKept
    IndexMended
    PendingWaits
    LangGrows
    YoungStay
    ImplementsLine
