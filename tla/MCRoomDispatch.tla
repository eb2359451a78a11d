--------------------------- MODULE MCRoomDispatch ---------------------------
(***************************************************************************)
(* Instances of RoomDispatch for TLC.                                       *)
(***************************************************************************)
EXTENDS RoomDispatch
=============================================================================
