CONSTANTS
    Clients = {"a", "b"}
    Reachable = {"a"}
    Rooms = {"lobby"}
    Requests = {"enter", "kick"}
    MaxEvents = 2
    MaxRequests = 3
    None = None
SPECIFICATION FairSpec
PROPERTIES
    RosterKnown
