CONSTANTS
    Tasks = {t}
    Rooms = {"lobby", "den"}
    Lobby = "lobby"
    Avatars = {"x", "y"}
    ActorOf <- MCActor
    WorldOwners = {"x"}
    Anyone = "*"
    Names = {"north", "n"}
    Authored <- MCAuthored
    Elsewhere = "elsewhere"
    None = None
SPECIFICATION RoomSpec
INVARIANTS
    OwnerEnters
