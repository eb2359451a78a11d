---------------------------- MODULE MCAvatarAdmin ----------------------------
(* Instances of AvatarAdmin for TLC, with the values of MCAvatarPresence.    *)
EXTENDS AvatarAdmin, MCAvatarPresence
=============================================================================
