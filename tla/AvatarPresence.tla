--------------------------- MODULE AvatarPresence ---------------------------
(***************************************************************************)
(* Who is where in a running world: the avatars of its rooms, the world's   *)
(* handle registry and the runtime index from an avatar's DID to its room.  *)
(*                                                                          *)
(* Requests arrive on the avatar lane, one tokio task that takes one        *)
(* message at a time.  Beside it the inbox lane serves "@world knock", and  *)
(* the presence ticker prunes stale avatars, each in a task of its own, and *)
(* every lock of the World is released between two steps of a handler.      *)
(* Each action below is therefore one critical section of the code, and     *)
(* what a handler holds in locals across an await is state.                 *)
(*                                                                          *)
(* An avatar's DID is <world ipns>#<fragment>, the fragment being that of   *)
(* the sender's DID: senders are pairs of an owner (a root DID) and the     *)
(* avatar DID derived from it, and two owners may derive the same one.      *)
(***************************************************************************)
EXTENDS Naturals, FiniteSets

CONSTANTS
    Dids,           \* avatar DIDs
    Owners,         \* root DIDs of the people behind them
    Senders,        \* the <<owner, avatar DID>> pairs that send requests
    Rooms,          \* every room id that can ever exist
    Lobby,          \* the default room, created at startup
    Handles,        \* candidate handles
    FragmentHandle, \* [Dids -> Handles]: the handle made of the DID's fragment
    DidHandle,      \* [Dids -> Handles]: the whole DID used as a handle
    EntryAllowed,   \* the senders the world's entry ACL lets in
    Commands,       \* the in-world commands this instance exercises
    Knockers,       \* the avatar DIDs that send "@world knock" to the inbox
    Archive,        \* states that earlier runs of this world saved
    None            \* no room, no handle, no DID, no saved state, no request

ASSUME DomainAssumption ==
    /\ Senders \subseteq Owners \X Dids
    /\ EntryAllowed \subseteq Senders
    /\ Lobby \in Rooms
    /\ Knockers \subseteq Dids
    /\ Commands \subseteq {"say", "go", "kick", "deny", "acl", "dig", "save", "load"}

\* None is none of the values it stands in for; a request is a record.
ASSUME NoneAssumption ==
    /\ None \notin Rooms
    /\ None \notin Handles
    /\ None \notin Dids

\* A handle that is a whole DID holds a ':' and names one DID only; a handle
\* made of a fragment is nanoid-compatible and holds none.
ASSUME HandleAssumption ==
    /\ FragmentHandle \in [Dids -> Handles]
    /\ DidHandle \in [Dids -> Handles]
    /\ \A d, e \in Dids : DidHandle[d] = DidHandle[e] => d = e
    /\ \A d, e \in Dids : FragmentHandle[d] = DidHandle[e] => d = e

VARIABLES
    live,       \* rooms that exist (keys of World.rooms)
    avatars,    \* the avatars of all rooms
    barred,     \* <<room, did>> pairs that RoomAcl::can_enter refuses
    h2d, d2h,   \* handle_to_did and did_to_handle
    index,      \* avatar_room_index
    saved,      \* the last state document written by save, None before
    pc,         \* where the avatar lane's handler is
    job,        \* the request it handles
    found,      \* the room avatar_room_for_did has come up with
    grip,       \* the handle the handler carries across awaits
    snap,       \* the index the lane's rebuild computed and has not written
    draft,      \* the parts of a state document collected so far
    knock,      \* the inbox lane's handler: its step, DID, room and index
    prunePc, pruneSnap  \* the same for the presence ticker's task

worldVars == <<live, avatars, barred, h2d, d2h, index, saved>>
laneVars == <<pc, job, found, grip, snap, draft>>
sideVars == <<knock, prunePc, pruneSnap>>
vars == <<live, avatars, barred, h2d, d2h, index, saved,
          pc, job, found, grip, snap, draft, knock, prunePc, pruneSnap>>

\* world/src/actor.rs, Avatar: inbox is the handle, stale abstracts last_seen_at
\* to the one thing the code asks of it, age > stale_after.
Avatar == [room : Rooms, handle : Handles, did : Dids, owner : Owners, stale : BOOLEAN]

Job == [op : {"enter", "ping", "message"}, owner : Owners, did : Dids, room : Rooms]

Index == [Dids -> Rooms \cup {None}]
HandleToDid == [Handles -> Dids \cup {None}]
DidToHandle == [Dids -> Handles \cup {None}]

NoIndex == [d \in Dids |-> None]
NoHandles == [h \in Handles |-> None]
NoDids == [d \in Dids |-> None]
EmptyDraft == [live |-> {}, avatars |-> {}, h2d |-> NoHandles, d2h |-> NoDids]

Knock == [step : {"idle", "find", "repair", "touch", "sender", "rebuild", "reindex"},
          did : Dids \cup {None}, room : Rooms \cup {None}, snap : Index]
NoKnock == [step |-> "idle", did |-> None, room |-> None, snap |-> NoIndex]

\* schema.rs, RuntimeStateDoc: the parts of a saved state that concern presence.
StateDoc == [live : SUBSET Rooms, avatars : SUBSET Avatar, h2d : HandleToDid, d2h : DidToHandle]

-----------------------------------------------------------------------------
(* What a world, running or saved, should look like                         *)

\* No DID has two avatars.
Single(S) == \A a, b \in S : a.did = b.did => a = b

\* The two maps of the handle registry are each other's inverse.
Inverses(names, holders) ==
    /\ \A d \in Dids : names[d] # None => holders[names[d]] = d
    /\ \A h \in Handles : holders[h] # None => names[holders[h]] = h

\* A handle is a DID's fragment or the whole DID (enter requests none other).
Proper(names) == \A d \in Dids : names[d] \in {None, FragmentHandle[d], DidHandle[d]}

\* Every avatar goes by the handle registered for its DID.
Registered(S, names) == \A a \in S : names[a.did] = a.handle

Housed(S, rooms) == \A a \in S : a.room \in rooms

SoundDoc(doc) ==
    /\ doc \in StateDoc
    /\ Lobby \in doc.live
    /\ Single(doc.avatars)
    /\ Housed(doc.avatars, doc.live)
    /\ Registered(doc.avatars, doc.d2h)
    /\ Inverses(doc.d2h, doc.h2d)
    /\ Proper(doc.d2h)

\* Earlier runs saved sound states, as this one does (SavedSound).
ASSUME ArchiveAssumption == \A doc \in Archive : SoundDoc(doc)

-----------------------------------------------------------------------------
(* Rooms as sets of avatars                                                 *)

At(r) == {a \in avatars : a.room = r}
IsIn(r, d) == \E a \in avatars : a.room = r /\ a.did = d
IsPresent(d) == \E a \in avatars : a.did = d

\* Room::add_avatar inserts under the handle: whoever was there is replaced.
AddAvatar(S, a) == {b \in S : ~ (b.room = a.room /\ b.handle = a.handle)} \cup {a}

\* What rebuild_avatar_room_index can compute from the rooms.
IndexOf(S) ==
    {f \in Index : \A d \in Dids :
        IF \E a \in S : a.did = d THEN \E a \in S : a.did = d /\ a.room = f[d]
                                  ELSE f[d] = None}

-----------------------------------------------------------------------------
Init ==
    /\ live = {Lobby}
    /\ avatars = {}
    /\ barred = {}
    /\ h2d = NoHandles
    /\ d2h = NoDids
    /\ index = NoIndex
    /\ saved = None
    /\ pc = "idle"
    /\ job = None
    /\ found = None
    /\ grip = None
    /\ snap = NoIndex
    /\ draft = EmptyDraft
    /\ knock = NoKnock
    /\ prunePc = "idle"
    /\ pruneSnap = NoIndex

\* The handler returns (with a response or an error): the lane is free.
Return ==
    /\ pc' = "idle"
    /\ job' = None
    /\ found' = None
    /\ grip' = None

\* It goes on to its next step.
Continue(step) ==
    /\ pc' = step
    /\ UNCHANGED <<job, found, grip>>

-----------------------------------------------------------------------------
(* The avatar lane takes a request                                          *)

Receive ==
    /\ pc = "idle"
    /\ \E s \in Senders, r \in Rooms, op \in {"enter", "ping", "message"} :
        /\ op # "enter" => r = Lobby       \* their room is not used
        /\ job' = [op |-> op, owner |-> s[1], did |-> s[2], room |-> r]
        /\ pc' = IF op = "enter" THEN "entry" ELSE "lookup"
    /\ UNCHANGED <<worldVars, found, grip, snap, draft, sideVars>>

\* ensure_avatar: the entry ACL is asked only when this owner has no avatar.
CheckEntry ==
    /\ pc = "entry"
    /\ IF \/ \E a \in avatars : a.owner = job.owner
          \/ <<job.owner, job.did>> \in EntryAllowed
       THEN Continue("lookup")
       ELSE Return
    /\ UNCHANGED <<worldVars, snap, draft, sideVars>>

-----------------------------------------------------------------------------
(* avatar_room_for_did: index, validation, scan, repair                     *)

Located == IF job.op = "enter" THEN "join" ELSE "touch"

LookupIndex ==
    /\ pc = "lookup"
    /\ found' = index[job.did]
    /\ pc' = IF index[job.did] = None THEN "scan" ELSE "validate"
    /\ UNCHANGED <<worldVars, job, grip, snap, draft, sideVars>>

LookupValidate ==
    /\ pc = "validate"
    /\ Continue(IF IsIn(found, job.did) THEN Located ELSE "scan")
    /\ UNCHANGED <<worldVars, snap, draft, sideVars>>

\* Broken variant of LookupScan: an index entry that fails validation is taken
\* to mean that the DID is absent.
LookupScanTrustsIndex ==
    /\ pc = "scan"
    /\ found' = None
    /\ pc' = "repair"
    /\ UNCHANGED <<worldVars, job, grip, snap, draft, sideVars>>

LookupScan ==
    /\ pc = "scan"
    /\ \/ \E a \in avatars : a.did = job.did /\ found' = a.room
       \/ ~ IsPresent(job.did) /\ found' = None
    /\ pc' = "repair"
    /\ UNCHANGED <<worldVars, job, grip, snap, draft, sideVars>>

LookupRepair ==
    /\ pc = "repair"
    /\ index' = [index EXCEPT ![job.did] = found]
    /\ IF found = None /\ job.op # "enter"
       THEN Return                  \* "avatar is not present; enter required"
       ELSE Continue(Located)
    /\ UNCHANGED <<live, avatars, barred, h2d, d2h, saved, snap, draft, sideVars>>

-----------------------------------------------------------------------------
(* join_room, under one write lock on the rooms up to register_handle       *)

\* Broken variant of Admitted: the room's ACL is not asked.
AdmittedAnyone == job.room \in live

Admitted == job.room \in live /\ <<job.room, job.did>> \notin barred

CanMove == found # None /\ found # job.room /\ IsIn(found, job.did)

JoinRefused ==
    /\ ~ Admitted
    /\ Return
    /\ UNCHANGED avatars

\* Move from the previous room, keeping the handle.
MoveIn ==
    /\ Admitted /\ CanMove
    /\ \E a \in At(found) :
        /\ a.did = job.did
        /\ avatars' = AddAvatar(avatars \ {a},
                [a EXCEPT !.room = job.room, !.owner = job.owner, !.stale = FALSE])
    /\ Continue("rebuild")

\* Already here: refresh endpoint, owner and presence of that avatar.
RefreshPresent ==
    /\ Admitted /\ ~ CanMove
    /\ \E a \in At(job.room) :
        /\ a.did = job.did
        /\ avatars' = (avatars \ {a}) \cup {[a EXCEPT !.owner = job.owner, !.stale = FALSE]}
    /\ Continue("rebuild")

\* Not in the world: the lock is released to register a handle.
BeginRegister ==
    /\ Admitted /\ ~ CanMove /\ ~ IsIn(job.room, job.did)
    /\ Continue("register")
    /\ UNCHANGED avatars

Join ==
    /\ pc = "join"
    /\ JoinRefused \/ MoveIn \/ RefreshPresent \/ BeginRegister
    /\ UNCHANGED <<live, barred, h2d, d2h, index, saved, snap, draft, sideVars>>

\* Broken variant of FreeHandle: nobody else is thought to hold the fragment.
FreeHandleUnchecked(d) == FragmentHandle[d]

\* register_handle for a DID that has none: the fragment if nobody else
\* holds it, otherwise the whole DID.
FreeHandle(d) ==
    IF h2d[FragmentHandle[d]] \in {None, d} THEN FragmentHandle[d] ELSE DidHandle[d]

AssignedHandle(d) == IF d2h[d] # None THEN d2h[d] ELSE FreeHandle(d)

Register ==
    /\ pc = "register"
    /\ grip' = AssignedHandle(job.did)
    /\ IF d2h[job.did] # None
       THEN UNCHANGED <<h2d, d2h>>
       ELSE /\ h2d' = [h2d EXCEPT ![AssignedHandle(job.did)] = job.did]
            /\ d2h' = [d2h EXCEPT ![job.did] = AssignedHandle(job.did)]
    /\ pc' = "add"
    /\ UNCHANGED <<live, avatars, barred, index, saved, job, found, snap, draft, sideVars>>

Newcomer == [room |-> job.room, handle |-> grip, did |-> job.did,
             owner |-> job.owner, stale |-> FALSE]

\* The lock is taken again; nothing but the room's existence is checked again.
Add ==
    /\ pc = "add"
    /\ IF job.room \in live
       THEN avatars' = AddAvatar(avatars, Newcomer) /\ Continue("rebuild")
       ELSE Return /\ UNCHANGED avatars
    /\ UNCHANGED <<live, barred, h2d, d2h, index, saved, snap, draft, sideVars>>

-----------------------------------------------------------------------------
(* rebuild_avatar_room_index: the lock on rooms is gone before the write    *)

RebuildRead ==
    /\ pc \in {"rebuild", "loadRebuild"}
    /\ snap' \in IndexOf(avatars)
    /\ Continue(IF pc = "rebuild" THEN "reindex" ELSE "loadReindex")
    /\ UNCHANGED <<worldVars, draft, sideVars>>

RebuildWrite ==
    /\ pc \in {"reindex", "loadReindex"}
    /\ index' = snap
    /\ snap' = NoIndex
    /\ IF pc = "reindex" THEN Return ELSE Continue("rebuild")
    /\ UNCHANGED <<live, avatars, barred, h2d, d2h, saved, draft, sideVars>>

-----------------------------------------------------------------------------
(* ping and messages                                                        *)

\* touch_avatar_presence_for_did: every avatar of that DID in the room.
Touched(r, d) ==
    {IF a.room = r /\ a.did = d THEN [a EXCEPT !.stale = FALSE] ELSE a : a \in avatars}

\* A ping (and a room poll) ends here.
Touch ==
    /\ pc = "touch"
    /\ avatars' = Touched(found, job.did)
    /\ IF job.op = "ping" THEN Return ELSE Continue("sender")
    /\ UNCHANGED <<live, barred, h2d, d2h, index, saved, snap, draft, sideVars>>

\* send_message: the command runs under the handle of the sender's avatar.  A
\* command whose target is a DID (of the world, a room, the avatar itself) does
\* not need one: without it, it runs under the handle last seen or the DID.
CheckSender ==
    /\ pc = "sender"
    /\ \/ \E a \in At(found) :
            /\ a.did = job.did
            /\ grip' = a.handle
            /\ pc' = "command"
            /\ UNCHANGED <<job, found>>
       \/ ~ IsIn(found, job.did) /\ Return
       \/ /\ ~ IsIn(found, job.did)
          /\ grip' \in {d2h[job.did], DidHandle[job.did]} \ {None}
          /\ pc' = "command"
          /\ UNCHANGED <<job, found>>
    /\ UNCHANGED <<worldVars, snap, draft, sideVars>>

\* A RoomCommand returns at once, an ActorCommand rebuilds the index first.
Finish == Return \/ Continue("rebuild")

\* Chatter, say, emote, look and every command that leaves presence alone,
\* refused commands included.
Say ==
    /\ pc = "command" /\ "say" \in Commands
    /\ Finish
    /\ UNCHANGED <<worldVars, snap, draft, sideVars>>

\* Broken variant of Go: the avatar is cloned into the destination.
GoCopies ==
    /\ pc = "command" /\ "go" \in Commands
    /\ \E dest \in Rooms :
        \/ /\ dest \in live
           /\ \E a \in At(found) :
                /\ a.handle = grip
                /\ avatars' = AddAvatar(avatars, [a EXCEPT !.room = dest])
        \/ /\ dest \notin live \/ \A a \in At(found) : a.handle # grip
           /\ UNCHANGED avatars
    /\ Continue("rebuild")
    /\ UNCHANGED <<live, barred, h2d, d2h, index, saved, snap, draft, sideVars>>

\* execute_avatar_move, one write lock: whoever is under the sender's handle
\* leaves for the destination; a destination outside this world, or one that
\* is gone, puts it back.
Go ==
    /\ pc = "command" /\ "go" \in Commands
    /\ \E dest \in Rooms :
        \/ /\ dest \in live
           /\ \E a \in At(found) :
                /\ a.handle = grip
                /\ avatars' = AddAvatar(avatars \ {a}, [a EXCEPT !.room = dest])
        \/ /\ dest \notin live \/ \A a \in At(found) : a.handle # grip
           /\ UNCHANGED avatars
    /\ Continue("rebuild")
    /\ UNCHANGED <<live, barred, h2d, d2h, index, saved, snap, draft, sideVars>>

\* room_command, Kick: by handle, in the room the command is sent to, which
\* need not be the sender's.
Kick ==
    /\ pc = "command" /\ "kick" \in Commands
    /\ \E r \in live, h \in Handles :
        avatars' = {a \in avatars : ~ (a.room = r /\ a.handle = h)}
    /\ Finish
    /\ UNCHANGED <<live, barred, h2d, d2h, index, saved, snap, draft, sideVars>>

\* room_command, Deny: the ACL and every avatar of that DID in the room, one lock.
Deny ==
    /\ pc = "command" /\ "deny" \in Commands
    /\ \E r \in live, d \in Dids :
        /\ barred' = barred \cup {<<r, d>>}
        /\ avatars' = {a \in avatars : ~ (a.room = r /\ a.did = d)}
    /\ Finish
    /\ UNCHANGED <<live, h2d, d2h, index, saved, snap, draft, sideVars>>

\* Every other command that changes a room's ACL leaves its avatars where they
\* are: invite, set owner, set cid or content, @world room acl and owner.
SetAcl ==
    /\ pc = "command" /\ "acl" \in Commands
    /\ \E r \in live, refused \in SUBSET Dids :
        barred' = {p \in barred : p[1] # r} \cup ({r} \X refused)
    /\ Finish
    /\ UNCHANGED <<live, avatars, h2d, d2h, index, saved, snap, draft, sideVars>>

\* Dig: the destination is created, open to everyone, unless it exists.
Dig ==
    /\ pc = "command" /\ "dig" \in Commands
    /\ \E r \in Rooms : live' = live \cup {r}
    /\ Finish
    /\ UNCHANGED <<avatars, barred, h2d, d2h, index, saved, snap, draft, sideVars>>

-----------------------------------------------------------------------------
(* @world.save and @world.load run on the lane too                          *)

Save ==
    /\ pc = "command" /\ "save" \in Commands
    /\ draft' = [EmptyDraft EXCEPT !.live = live, !.avatars = avatars]
    /\ Continue("saveH2d")
    /\ UNCHANGED <<worldVars, snap, sideVars>>

SaveH2d ==
    /\ pc = "saveH2d"
    /\ draft' = [draft EXCEPT !.h2d = h2d]
    /\ Continue("saveD2h")
    /\ UNCHANGED <<worldVars, snap, sideVars>>

\* Broken variant of SaveD2h: only the handles of those present are kept.
SaveD2hOfPresent ==
    /\ pc = "saveD2h"
    /\ saved' = [draft EXCEPT !.d2h = [d \in Dids |-> IF IsPresent(d) THEN d2h[d] ELSE None]]
    /\ draft' = EmptyDraft
    /\ Continue("rebuild")
    /\ UNCHANGED <<live, avatars, barred, h2d, d2h, index, snap, sideVars>>

SaveD2h ==
    /\ pc = "saveD2h"
    /\ saved' = [draft EXCEPT !.d2h = d2h]
    /\ draft' = EmptyDraft
    /\ Continue("rebuild")
    /\ UNCHANGED <<live, avatars, barred, h2d, d2h, index, snap, sideVars>>

\* Restored avatars are as fresh as new ones.
Restored(S) == {[a EXCEPT !.stale = FALSE] : a \in S}

\* load_encrypted_state replaces the rooms, then each map, one lock at a time.
\* The ACLs of rooms that exist are kept, with their owner allowed again; the
\* other rooms are open.
LoadRooms ==
    /\ pc = "command" /\ "load" \in Commands
    /\ \E doc \in Archive \cup ({saved} \ {None}), owner \in [Rooms -> Dids \cup {None}] :
        /\ live' = doc.live
        /\ avatars' = Restored(doc.avatars)
        /\ barred' = {p \in barred : p[1] \in doc.live /\ p[2] # owner[p[1]]}
        /\ draft' = doc
    /\ Continue("loadH2d")
    /\ UNCHANGED <<h2d, d2h, index, saved, snap, sideVars>>

LoadH2d ==
    /\ pc = "loadH2d"
    /\ h2d' = draft.h2d
    /\ Continue("loadD2h")
    /\ UNCHANGED <<live, avatars, barred, d2h, index, saved, snap, draft, sideVars>>

\* Broken variant of LoadD2h: DIDs that the document does not name keep theirs.
LoadD2hMerged ==
    /\ pc = "loadD2h"
    /\ d2h' = [d \in Dids |-> IF draft.d2h[d] # None THEN draft.d2h[d] ELSE d2h[d]]
    /\ draft' = EmptyDraft
    /\ Continue("loadRebuild")
    /\ UNCHANGED <<live, avatars, barred, h2d, index, saved, snap, sideVars>>

LoadD2h ==
    /\ pc = "loadD2h"
    /\ d2h' = draft.d2h
    /\ draft' = EmptyDraft
    /\ Continue("loadRebuild")
    /\ UNCHANGED <<live, avatars, barred, h2d, index, saved, snap, sideVars>>

-----------------------------------------------------------------------------
(* The inbox lane: the only command it takes is "@world knock".  It is looked *)
(* up, touched and indexed like any message, and has no effect of its own:    *)
(* handle_actor_command refuses the target "world"                            *)

KnockReceive ==
    /\ knock.step = "idle"
    /\ \E d \in Knockers : knock' = [knock EXCEPT !.step = "find", !.did = d]
    /\ UNCHANGED <<worldVars, laneVars, prunePc, pruneSnap>>

\* avatar_room_for_did in one step: whether the index was found right, or the
\* rooms were searched and the index is to be repaired, is left open.
KnockFind ==
    /\ knock.step = "find"
    /\ \/ \E a \in avatars, next \in {"repair", "touch"} :
            /\ a.did = knock.did
            /\ knock' = [knock EXCEPT !.step = next, !.room = a.room]
       \/ ~ IsPresent(knock.did) /\ knock' = [knock EXCEPT !.step = "repair"]
    /\ UNCHANGED <<worldVars, laneVars, prunePc, pruneSnap>>

KnockRepair ==
    /\ knock.step = "repair"
    /\ index' = [index EXCEPT ![knock.did] = knock.room]
    /\ knock' = IF knock.room = None THEN NoKnock ELSE [knock EXCEPT !.step = "touch"]
    /\ UNCHANGED <<live, avatars, barred, h2d, d2h, saved, laneVars, prunePc, pruneSnap>>

KnockTouch ==
    /\ knock.step = "touch"
    /\ avatars' = Touched(knock.room, knock.did)
    /\ knock' = [knock EXCEPT !.step = "sender"]
    /\ UNCHANGED <<live, barred, h2d, d2h, index, saved, laneVars, prunePc, pruneSnap>>

\* send_message, unless the message is not addressed to this world: here the
\* sender must be present.
KnockSender ==
    /\ knock.step = "sender"
    /\ \/ IsIn(knock.room, knock.did) /\ knock' = [knock EXCEPT !.step = "rebuild"]
       \/ knock' = NoKnock
    /\ UNCHANGED <<worldVars, laneVars, prunePc, pruneSnap>>

KnockRebuildRead ==
    /\ knock.step = "rebuild"
    /\ \E f \in IndexOf(avatars) : knock' = [knock EXCEPT !.step = "reindex", !.snap = f]
    /\ UNCHANGED <<worldVars, laneVars, prunePc, pruneSnap>>

KnockRebuildWrite ==
    /\ knock.step = "reindex"
    /\ index' = knock.snap
    /\ knock' = NoKnock
    /\ UNCHANGED <<live, avatars, barred, h2d, d2h, saved, laneVars, prunePc, pruneSnap>>

-----------------------------------------------------------------------------
(* The presence ticker's task, and time                                     *)

\* Broken variant of PruneSweep: a stale avatar takes its whole room along.
PruneSweepRooms ==
    /\ prunePc = "idle"
    /\ \E a \in avatars : a.stale
    /\ avatars' = {a \in avatars : \A b \in At(a.room) : ~ b.stale}
    /\ prunePc' = "rebuild"
    /\ UNCHANGED <<live, barred, h2d, d2h, index, saved, laneVars, knock, pruneSnap>>

\* Broken variant of PruneSweep: only rooms in which everyone is stale are swept.
PruneSweepDeserted ==
    /\ prunePc = "idle"
    /\ \E a \in avatars : a.stale
    /\ avatars' = {a \in avatars : \E b \in At(a.room) : ~ b.stale}
    /\ prunePc' = "rebuild"
    /\ UNCHANGED <<live, barred, h2d, d2h, index, saved, laneVars, knock, pruneSnap>>

\* prune_stale_avatars, under one write lock on rooms; without a stale avatar
\* it changes nothing.
PruneSweep ==
    /\ prunePc = "idle"
    /\ \E a \in avatars : a.stale
    /\ avatars' = {a \in avatars : ~ a.stale}
    /\ prunePc' = "rebuild"
    /\ UNCHANGED <<live, barred, h2d, d2h, index, saved, laneVars, knock, pruneSnap>>

PruneRead ==
    /\ prunePc = "rebuild"
    /\ pruneSnap' \in IndexOf(avatars)
    /\ prunePc' = "reindex"
    /\ UNCHANGED <<worldVars, laneVars, knock>>

PruneWrite ==
    /\ prunePc = "reindex"
    /\ index' = pruneSnap
    /\ pruneSnap' = NoIndex
    /\ prunePc' = "idle"
    /\ UNCHANGED <<live, avatars, barred, h2d, d2h, saved, laneVars, knock>>

\* stale_after passes without a touch.
GoStale ==
    /\ \E a \in avatars :
        /\ ~ a.stale
        /\ avatars' = (avatars \ {a}) \cup {[a EXCEPT !.stale = TRUE]}
    /\ UNCHANGED <<live, barred, h2d, d2h, index, saved, laneVars, sideVars>>

-----------------------------------------------------------------------------
Lookup == LookupIndex \/ LookupValidate \/ LookupScan \/ LookupRepair
Enter == CheckEntry \/ Join \/ Register \/ Add
Rebuild == RebuildRead \/ RebuildWrite
Command == Say \/ Go \/ Kick \/ Deny \/ SetAcl \/ Dig
SaveLoad == Save \/ SaveH2d \/ SaveD2h \/ LoadRooms \/ LoadH2d \/ LoadD2h

Lane == Receive \/ Enter \/ Lookup \/ Rebuild \/ Touch \/ CheckSender \/ Command \/ SaveLoad
InboxLane == KnockReceive \/ KnockFind \/ KnockRepair \/ KnockTouch \/ KnockSender
                \/ KnockRebuildRead \/ KnockRebuildWrite
Prune == PruneSweep \/ PruneRead \/ PruneWrite

Next == Lane \/ InboxLane \/ Prune \/ GoStale

Spec == Init /\ [][Next]_vars

\* The ticker keeps ticking and its task keeps being scheduled.
FairSpec == Spec /\ WF_vars(Prune)

-----------------------------------------------------------------------------
(* Invariants                                                               *)

LaneSteps == {"idle", "entry", "lookup", "validate", "scan", "repair", "join", "register",
              "add", "rebuild", "reindex", "touch", "sender", "command", "saveH2d", "saveD2h",
              "loadH2d", "loadD2h", "loadRebuild", "loadReindex"}

\* Every variable holds a value of its type.
TypeOK ==
    /\ live \subseteq Rooms
    /\ avatars \subseteq Avatar
    /\ barred \subseteq Rooms \X Dids
    /\ h2d \in HandleToDid
    /\ d2h \in DidToHandle
    /\ index \in Index
    /\ saved \in StateDoc \cup {None}
    /\ pc \in LaneSteps
    /\ job \in Job \cup {None}
    /\ found \in Rooms \cup {None}
    /\ grip \in Handles \cup {None}
    /\ snap \in Index
    /\ draft \in StateDoc
    /\ knock \in Knock
    /\ prunePc \in {"idle", "rebuild", "reindex"}
    /\ pruneSnap \in Index

\* Unique room membership (join_room, "Enforce unique room membership per DID"):
\* a DID has one avatar in the whole world, although the room it was in was
\* looked up through an index that may be stale, before the lock was taken.
OneAvatarPerDid == Single(avatars)

\* Handles are world-unique: whoever is present goes by the handle that
\* did_to_handle gives its DID, and the two maps stay each other's inverse,
\* except while load_encrypted_state replaces them one by one.
HandlesAgree ==
    pc \notin {"loadH2d", "loadD2h"} =>
        Registered(avatars, d2h) /\ Inverses(d2h, h2d) /\ Proper(d2h)

\* avatar_room_for_did never loses a present avatar, whatever the index says:
\* what a handler acts on is the room the DID is in, if it is in one.
LookupSound ==
    pc \in {"repair", "join", "touch", "sender"} =>
        (IsPresent(job.did) => IsIn(found, job.did))

\* A newcomer is still absent when it is added, although the rooms were
\* unlocked while its handle was registered.
NewcomerAbsent == pc \in {"register", "add"} => ~ IsPresent(job.did)

\* save_encrypted_state collects the document under several locks, and yet
\* what it writes is the state of a sound world.
SavedSound == saved # None => SoundDoc(saved)

-----------------------------------------------------------------------------
(* Action properties                                                        *)

\* Nobody is displaced: a DID loses its avatar by going stale, or by a command
\* that only expels or a load, and never by a step that gives someone a place.
Expelling == pc = "command" /\ (avatars' \subseteq avatars \/ pc' = "loadH2d")

NobodyDisplaced ==
    \A a \in avatars : (\A b \in avatars' : b.did # a.did) => a.stale \/ Expelling

NoEviction == [][NobodyDisplaced]_vars

\* An avatar keeps its handle wherever it goes and however it enters again;
\* a DID keeps the handle it was given; only a load gives others.
HandleForLife ==
    [][/\ pc # "command" \/ pc' # "loadH2d" =>
            \A a \in avatars, b \in avatars' : a.did = b.did => a.handle = b.handle
       /\ pc # "loadD2h" => \A d \in Dids : d2h[d] # None => d2h'[d] = d2h[d]]_vars

\* Entering never puts a DID into a room whose ACL refuses it; being moved by a
\* command (an exit asks no ACL) or restored by a load is another matter.
EnterRespectsRoomAcl ==
    [][pc # "command" => \A b \in avatars' :
            <<b.room, b.did>> \in barred' => IsIn(b.room, b.did)]_vars

-----------------------------------------------------------------------------
(* Liveness                                                                 *)

IsStale(d) == \E a \in avatars : a.did = d /\ a.stale

\* spec/avatar-presence-v1.yaml: a stale avatar is refreshed or leaves.
StaleLeaves == \A d \in Dids : IsStale(d) ~> ~ IsStale(d)

-----------------------------------------------------------------------------
(* What it all amounts to                                                   *)

\* Where each DID is, if S is all avatars.
PlaceIn(S) ==
    [d \in Dids |-> IF \E a \in S : a.did = d THEN (CHOOSE a \in S : a.did = d).room ELSE None]

\* The names count as loaded with the rooms, and the state as saved when its
\* rooms are copied, although both are done lock by lock.
Called == IF pc \in {"loadH2d", "loadD2h"} THEN draft.d2h ELSE d2h

Copy(S, names) == [place |-> PlaceIn(S), called |-> names]
CopyOf(doc) == Copy(doc.avatars, doc.d2h)

\* No saved state is None, nor what others see of it.
ASSUME SavedAssumption ==
    /\ None \notin StateDoc
    /\ None \notin [place : [Dids -> Rooms \cup {None}], called : DidToHandle]

Kept ==
    IF pc \in {"saveH2d", "saveD2h"} THEN Copy(draft.avatars, d2h)
    ELSE IF saved = None THEN None ELSE CopyOf(saved)

Members == INSTANCE Membership WITH
    NamesOf <- [d \in Dids |-> {FragmentHandle[d], DidHandle[d]}],
    Past <- {CopyOf(doc) : doc \in Archive},
    place <- PlaceIn(avatars), called <- Called, refused <- barred, kept <- Kept

\* To those who rely on it, the world is who is where under which name: no
\* lookup through a stale index, unlocked moment, sweep, save or load that
\* takes several locks shows (AvatarPresence implements Membership).
ImplementsMembership == Members!Spec
=============================================================================
