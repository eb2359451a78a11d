----------------------------- MODULE AvatarAdmin -----------------------------
(***************************************************************************)
(* AvatarPresence with the administration API beside it.  The HTTP handlers *)
(* of status.rs run in tasks of their own, so POST /world/save, /world/load *)
(* and /world/load-root take the world's locks one after the other while    *)
(* the avatar lane is in the middle of a request.  One such handler runs at *)
(* a time here.  Whether the lane may save or load as well is up to         *)
(* Commands, as before.                                                     *)
(***************************************************************************)
EXTENDS AvatarPresence

CONSTANT AdminCommands  \* the endpoints this instance exercises

ASSUME AdminAssumption == AdminCommands \subseteq {"save", "load", "load-root"}

VARIABLES
    adminPc,    \* where the HTTP handler is
    adminDoc,   \* the state document it collects or installs
    adminAcl,   \* the refusals it has copied from the rooms that exist
    adminSnap,  \* the index its rebuild computed and has not written
    answered    \* the last document POST /world/save wrote, None before

adminVars == <<adminPc, adminDoc, adminAcl, adminSnap, answered>>
allVars == <<vars, adminVars>>

AdminInit ==
    /\ Init
    /\ adminPc = "idle"
    /\ adminDoc = EmptyDraft
    /\ adminAcl = {}
    /\ adminSnap = NoIndex
    /\ answered = None

-----------------------------------------------------------------------------
(* POST /world/save: save_encrypted_state                                   *)

AdminSave ==
    /\ adminPc = "idle" /\ "save" \in AdminCommands
    /\ adminDoc' = [EmptyDraft EXCEPT !.live = live, !.avatars = avatars]
    /\ adminPc' = "saveH2d"
    /\ UNCHANGED <<vars, adminAcl, adminSnap, answered>>

AdminSaveH2d ==
    /\ adminPc = "saveH2d"
    /\ adminDoc' = [adminDoc EXCEPT !.h2d = h2d]
    /\ adminPc' = "saveD2h"
    /\ UNCHANGED <<vars, adminAcl, adminSnap, answered>>

\* Broken variant of AdminSaveD2h: handles of DIDs that are away are left out,
\* and whoever is away by now was perhaps there when the rooms were copied.
AdminSaveD2hOfPresent ==
    /\ adminPc = "saveD2h"
    /\ answered' = [adminDoc EXCEPT !.d2h = [d \in Dids |-> IF IsPresent(d) THEN d2h[d]
                                                                            ELSE None]]
    /\ adminDoc' = EmptyDraft
    /\ adminPc' = "idle"
    /\ UNCHANGED <<vars, adminAcl, adminSnap>>

AdminSaveD2h ==
    /\ adminPc = "saveD2h"
    /\ answered' = [adminDoc EXCEPT !.d2h = d2h]
    /\ adminDoc' = EmptyDraft
    /\ adminPc' = "idle"
    /\ UNCHANGED <<vars, adminAcl, adminSnap>>

-----------------------------------------------------------------------------
(* POST /world/load: load_encrypted_state                                   *)

\* The document is fetched and decrypted, the ACLs of the rooms that exist are
\* copied, and the objects are fetched: nothing is locked meanwhile.
AdminLoadFetch ==
    /\ adminPc = "idle" /\ "load" \in AdminCommands
    /\ adminDoc' \in Archive \cup ({answered} \ {None})
    /\ adminAcl' = barred
    /\ adminPc' = "loadRooms"
    /\ UNCHANGED <<vars, adminSnap, answered>>

\* What has happened to the ACLs since is lost.
AdminLoadRooms ==
    /\ adminPc = "loadRooms"
    /\ live' = adminDoc.live
    /\ avatars' = Restored(adminDoc.avatars)
    /\ \E owner \in [Rooms -> Dids \cup {None}] :
        barred' = {p \in adminAcl : p[1] \in adminDoc.live /\ p[2] # owner[p[1]]}
    /\ adminAcl' = {}
    /\ adminPc' = "loadH2d"
    /\ UNCHANGED <<h2d, d2h, index, saved, laneVars, sideVars, adminDoc, adminSnap, answered>>

AdminLoadH2d ==
    /\ adminPc = "loadH2d"
    /\ h2d' = adminDoc.h2d
    /\ adminPc' = "loadD2h"
    /\ UNCHANGED <<live, avatars, barred, d2h, index, saved, laneVars, sideVars,
                   adminDoc, adminAcl, adminSnap, answered>>

AdminLoadD2h ==
    /\ adminPc = "loadD2h"
    /\ d2h' = adminDoc.d2h
    /\ adminDoc' = EmptyDraft
    /\ adminPc' = "rebuild"
    /\ UNCHANGED <<live, avatars, barred, h2d, index, saved, laneVars, sideVars,
                   adminAcl, adminSnap, answered>>

AdminRebuildRead ==
    /\ adminPc = "rebuild"
    /\ adminSnap' \in IndexOf(avatars)
    /\ adminPc' = "reindex"
    /\ UNCHANGED <<vars, adminDoc, adminAcl, answered>>

AdminRebuildWrite ==
    /\ adminPc = "reindex"
    /\ index' = adminSnap
    /\ adminSnap' = NoIndex
    /\ adminPc' = "idle"
    /\ UNCHANGED <<live, avatars, barred, h2d, d2h, saved, laneVars, sideVars,
                   adminDoc, adminAcl, answered>>

-----------------------------------------------------------------------------
(* POST /world/load-root: load_from_world_cid                               *)

\* Broken variant of AdminLoadRoom: the avatars of the room are not kept, as
\* those of a room read from YAML are none.
AdminLoadRoomEmpty ==
    /\ adminPc = "idle" /\ "load-root" \in AdminCommands
    /\ \E r \in Rooms, refused \in SUBSET Dids :
        /\ live' = live \cup {r}
        /\ barred' = {p \in barred : p[1] # r} \cup ({r} \X refused)
        /\ avatars' = avatars \ At(r)
    /\ UNCHANGED <<h2d, d2h, index, saved, laneVars, sideVars, adminVars>>

\* Each room of the index is replaced under a lock of its own, with the ACL
\* read from its own CID, and keeps its avatars.  A room that cannot be read
\* is skipped and an ACL that cannot be read ends the loop, so any of its
\* rooms may be the last.
AdminLoadRoom ==
    /\ adminPc = "idle" /\ "load-root" \in AdminCommands
    /\ \E r \in Rooms, refused \in SUBSET Dids :
        /\ live' = live \cup {r}
        /\ barred' = {p \in barred : p[1] # r} \cup ({r} \X refused)
    /\ UNCHANGED <<avatars, h2d, d2h, index, saved, laneVars, sideVars, adminVars>>

-----------------------------------------------------------------------------
AdminLoad == AdminLoadFetch \/ AdminLoadRooms \/ AdminLoadH2d \/ AdminLoadD2h \/ AdminRebuildRead
                \/ AdminRebuildWrite \/ AdminLoadRoom
AdminSaving == AdminSave \/ AdminSaveH2d \/ AdminSaveD2h

AdminNext ==
    \/ Next /\ UNCHANGED adminVars
    \/ AdminSaving
    \/ AdminLoad

AdminSpec == AdminInit /\ [][AdminNext]_allVars

\* The presence ticker's task keeps being scheduled.
AdminFairSpec == AdminSpec /\ WF_allVars(Prune /\ UNCHANGED adminVars)

-----------------------------------------------------------------------------
\* A document saved while the lane registers, moves and expels avatars names
\* everyone in it, once: the rooms are copied before the registry, which only
\* grows (save_encrypted_state).
AnsweredNamed ==
    answered # None => Single(answered.avatars) /\ Registered(answered.avatars, answered.d2h)
=============================================================================
