CONSTANTS
    Dids = {"alice", "alice0"}
    Owners = {"a", "b"}
    Senders <- MCOneSender
    Rooms = {"lobby", "den"}
    Lobby = "lobby"
    Handles <- MCHandles
    FragmentHandle <- MCFragmentHandle
    DidHandle <- MCDidHandle
    EntryAllowed <- MCEntryAllowed
    Commands = {"say"}
    Knockers = {}
    Archive <- MCFormer
    None = None
    AdminCommands = {"load"}
    Slices = {"load"}
SPECIFICATION MCFairSpec
PROPERTIES
    StaleLeaves
