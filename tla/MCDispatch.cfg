CONSTANTS
    Clients = {"a", "b"}
    Reachable = {"a"}
    Rooms = {hall, cellar}
    Requests = {"enter", "go", "say", "address", "broadcast", "kick"}
    MaxEvents = 2
    MaxRequests = 3
    None = None
    Senders = {"v"}
    DidDocuments = {"d1", "d2"}
    Lanes = {"inbox", "avatar"}
    Absent = Absent
    Actors = {"a", "b", "c"}
    OwnerOf <- MCOwner
    DidOf <- MCDid
    WorldRoot = "W"
    Places = {"lobby", "den"}
    Texts = {"t"}
    Things = {"o"}
    Nil = Nil
    Handlers = {h1, h2}
    Startup = startup
    Ids = {"i", "j"}
    Aliases = {"a", "b"}
    Legacy <- MCLegacy
    Elsewhere <- MCElsewhere
    Missing = Missing
SYMMETRY Alike
SPECIFICATION MCSpec
INVARIANTS
    
    EventsCovered
    PublishedSignerAccepted
    RegistryFollows
    BasesPublished
PROPERTIES
    
    ReentryKeepsProfile
