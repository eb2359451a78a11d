CONSTANTS
    Dids = {"alice"}
    Owners = {"a", "b"}
    Senders <- MCOneSender
    Rooms = {"lobby", "den"}
    Lobby = "lobby"
    Handles <- MCHandles
    FragmentHandle <- MCFragmentHandle
    DidHandle <- MCDidHandle
    EntryAllowed <- MCEntryAllowed
    Commands = {"go", "dig"}
    Knockers = {}
    Archive <- MCNoArchive
    None = None
    AdminCommands = {"save", "load"}
SPECIFICATION AdminSpec
INVARIANTS
    OneAvatarPerDid
