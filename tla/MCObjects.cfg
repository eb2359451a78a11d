CONSTANTS
    Rooms = {"lobby", "den"}
    Lobby = "lobby"
    Ids = {"mailbox", "box"}
    Mailbox = "mailbox"
    Handles = {x, y}
    Dids = {d, e}
    Cids = {"c"}
    Builtin = "builtin"
    Verbs <- MCVerbs
    Needs <- MCNeeds
    Prints <- MCPrints
    WorldOwner = "world"
    WorldDid = "world"
    Envelopes <- MCEnvelopes
    LockSecs = 1
    AskSecs = 1
    MaxInbox = 2
    MaxTime = 2
    MaxOut = 2
    MaxId = 3
    None = None
    Actors = {"alice", "bob"}
    Absent = Absent
    Lost = Lost
    MixedCase = {"Room"}
    Chars = {"a", "b"}
    MaxPattern = 4
    MaxWord = 4
    ListPatterns <- MCListPatterns
    Capabilities <- MCCapabilities
    Grants <- MCGrants
    Tokens <- MCTokens
    MaxText = 5
    Names <- MCNames
SYMMETRY Alike
SPECIFICATION MCSpec
INVARIANTS
    LockWhole
    InboxSound
    CleanIsStored
    GlobAgrees
    CompileFaithful
    ParserIsGrammar
    SymbolsSound
PROPERTIES
    NothingSeized
    RequestsKept
CHECK_DEADLOCK FALSE
