-------------------------- MODULE MCAvatarPresence --------------------------
(***************************************************************************)
(* Instances of AvatarPresence for TLC.  The world is named by one IPNS     *)
(* name, so the DIDs that senders derive have different fragments; "alice0" *)
(* is the DID of alice's avatar under the name the world had when the state *)
(* in Former was saved, and holds the handle alice would get.               *)
(***************************************************************************)
EXTENDS AvatarPresence

MCHandles == {"alice", "bob", "did:alice", "did:bob", "did:alice0"}

MCFragmentHandle == [d \in Dids |-> IF d = "bob" THEN "bob" ELSE "alice"]

MCDidHandle == [d \in Dids |-> CASE d = "alice"  -> "did:alice"
                                 [] d = "bob"    -> "did:bob"
                                 [] d = "alice0" -> "did:alice0"]

\* Two owners with avatars of their own, and one owner that derives the same
\* avatar DID as another (the fragments of their DIDs are the same).
MCSenders == {<<"a", "alice">>, <<"b", "bob">>, <<"b", "alice">>}
MCOneSender == {<<"a", "alice">>}

\* b's avatar is let in, the one that shares alice's DID is not.
MCEntryAllowed == Senders \ {<<"b", "alice">>}

\* A state saved under the world's former name.
Former ==
    [live |-> {"lobby"},
     avatars |-> {[room |-> "lobby", handle |-> "alice", did |-> "alice0",
                   owner |-> "a", stale |-> FALSE]},
     h2d |-> [h \in MCHandles |-> IF h = "alice" THEN "alice0" ELSE None],
     d2h |-> [d \in Dids |-> IF d = "alice0" THEN "alice" ELSE None]]

MCFormer == {Former}
MCNoArchive == {}
=============================================================================
