--------------------------- MODULE MCRoomCommands ---------------------------
(* Values of RoomCommands's constants for TLC: both avatars belong to one     *)
(* actor, and authors give rooms no exit, or one of two names.               *)
EXTENDS RoomCommands

MCActor == [c \in Avatars |-> "a"]
North == [names |-> {"north", "n"}, to |-> "den"]
MCAuthored == {{}, {North}}
=============================================================================
