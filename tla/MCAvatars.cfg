CONSTANTS
    Dids = {"alice", "bob", "alice0"}
    Owners = {"a", "b"}
    Senders <- MCSenders
    Rooms = {"lobby", "den"}
    Lobby = "lobby"
    Handles <- MCHandles
    FragmentHandle <- MCFragmentHandle
    DidHandle <- MCDidHandle
    EntryAllowed <- MCEntryAllowed
    Commands = {"say", "go", "kick", "deny", "acl", "dig", "save", "load"}
    Knockers = {"alice"}
    Archive <- MCFormer
    None = None
    AdminCommands = {"save", "load-root"}
    Slices = {"moves", "knock", "state", "root"}
SPECIFICATION MCSpec
INVARIANTS
    OneAvatarPerDid
    HandlesAgree
    LookupSound
    SavedSound
    AnsweredNamed
PROPERTIES
    NoEviction
    
    ImplementsMembership
