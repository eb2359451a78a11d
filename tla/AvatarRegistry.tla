--------------------------- MODULE AvatarRegistry ---------------------------
(***************************************************************************)
(* What a world tells of its avatars: the profile each of them carries, and *)
(* the avatar registry, from which the world reads whose avatar a caller is *)
(* (world_core.rs, ensure_avatar, refresh_avatar_registry_entry_for_did,    *)
(* handle_avatar_command; actor.rs).                                        *)
(*                                                                          *)
(* The lane enters an avatar in several steps, or does one command; beside  *)
(* it avatars are pruned, and the administration saves and loads, in two    *)
(* steps each.  The steps within join_room are in AvatarPresence; here it is *)
(* one.  Of a registry entry only the owner is kept; that its other fields  *)
(* differ from the avatar's is a choice.                                    *)
(***************************************************************************)
CONSTANTS
    Actors,     \* senders
    OwnerOf,    \* the DID of a sender without its fragment
    DidOf,      \* the avatar DID derived from a sender's fragment
    WorldRoot,  \* the world's DID without a fragment: the base of every avatar DID
    Places,     \* rooms
    Texts,      \* descriptions that avatars give themselves
    Things,     \* objects that shortcuts stand for
    Nil

Skeleton == "skeleton avatar"
Unset == "(unset)"
Dids == {DidOf[a] : a \in Actors}
Owners == {OwnerOf[a] : a \in Actors}

Avatar == [room : Places, owner : Owners, text : Texts \cup {Skeleton, Unset}, thing : Things \cup {Nil}]
Profile == [text : Texts \cup {Skeleton, Unset}, thing : Things \cup {Nil}]
Entry ==
    [step : {"join", "capture", "insert", "describe"}, actor : Actors, room : Places,
     isNew : BOOLEAN, owner : Owners \cup {Nil}, sound : BOOLEAN,
     before : Profile \cup {Nil}, calm : BOOLEAN]

ASSUME NilAssumption == Nil \notin Owners \cup Avatar \cup Profile \cup Entry

VARIABLES
    present,    \* the avatar of every DID
    registry,   \* avatar_registry, its owners
    rooted,     \* the registry in the root that was put last
    entering,   \* the entry that the lane is at
    post,       \* the save or load that the administration is at
    kept,       \* the state document that was saved last
    missed      \* DIDs whose entry was not refreshed: a put failed, or a load came

profileVars == <<present, registry, rooted, entering, post, kept, missed>>

ProfilesInit ==
    /\ present = [d \in Dids |-> Nil] /\ registry = [d \in Dids |-> Nil]
    /\ rooted = registry /\ kept = Nil
    /\ entering = Nil /\ post = Nil
    /\ missed = {}

-----------------------------------------------------------------------------
(* ensure_avatar                                                            *)

EnteringAt(step) == entering # Nil /\ entering.step = step
Who == DidOf[entering.actor]

\* Broken variant of IsNew: only the room that is entered is searched.
IsNewHere(a, r) == \A d \in Dids : present[d] # Nil /\ present[d].owner = OwnerOf[a]
                        => present[d].room # r

\* resolve_avatar_did_for_owner finds none, by whatever DID.
IsNew(a, r) == \A d \in Dids : present[d] # Nil => present[d].owner # OwnerOf[a]

\* What the actor's own avatar carries when it is in the world.
Carried(a) ==
    LET p == present[DidOf[a]] IN
    IF p # Nil /\ p.owner = OwnerOf[a] THEN [text |-> p.text, thing |-> p.thing] ELSE Nil

\* Not in the code: before, what the avatar carried, and calm and sound, whether
\* nobody disturbed it since the entry began, and since it was captured.
EnsureAvatar(a, r) ==
    /\ entering = Nil
    /\ entering' = [step |-> "join", actor |-> a, room |-> r, isNew |-> IsNew(a, r),
                    owner |-> Nil, sound |-> FALSE, before |-> Carried(a), calm |-> TRUE]
    /\ UNCHANGED <<present, registry, rooted, post, kept, missed>>

Finish(e) == entering' = IF e.isNew THEN [e EXCEPT !.step = "describe"] ELSE Nil

\* Broken variant of NeedsRefresh: a change of owner is overlooked.
OwnerOverlooked(old, o) == old = Nil

\* A newcomer is always registered anew, others when something has changed.
NeedsRefresh(old, o) == old = Nil \/ old.owner # o

JoinRoom ==
    LET old == present[Who]
        o   == OwnerOf[entering.actor]
    IN  /\ EnteringAt("join")
        /\ present' = [present EXCEPT ![Who] =
                IF old = Nil
                THEN [room |-> entering.room, owner |-> o, text |-> Unset, thing |-> Nil]
                ELSE [old EXCEPT !.room = entering.room, !.owner = o]]
        /\ \/ entering' = [entering EXCEPT !.step = "capture"]
           \/ ~ NeedsRefresh(old, o) /\ Finish(entering)
        /\ UNCHANGED <<registry, rooted, post, kept, missed>>

\* refresh_avatar_registry_entry_for_did: the avatar is copied, unless it is gone ...
CaptureAvatar ==
    /\ EnteringAt("capture")
    /\ IF present[Who] = Nil THEN Finish(entering)
       ELSE entering' = [entering EXCEPT !.step = "insert", !.owner = present[Who].owner,
                                         !.sound = TRUE]
    /\ UNCHANGED <<present, registry, rooted, post, kept, missed>>

\* ... its document is put, and the copy becomes the entry; the root is saved
\* after it, if that goes well ...
InsertEntry ==
    /\ EnteringAt("insert")
    /\ registry' = [registry EXCEPT ![Who] = entering.owner]
    /\ rooted' \in {rooted, registry'}
    /\ missed' = IF entering.sound THEN missed \ {Who} ELSE missed
    /\ Finish(entering)
    /\ UNCHANGED <<present, post, kept>>

\* ... or the document is not put, and the entry stays as it was.
RefreshFails ==
    /\ EnteringAt("insert")
    /\ missed' = missed \cup {Who}
    /\ Finish(entering)
    /\ UNCHANGED <<present, registry, rooted, post, kept>>

DescribeSkeleton ==
    /\ EnteringAt("describe")
    /\ present' = IF present[Who] # Nil /\ present[Who].room = entering.room
                  THEN [present EXCEPT ![Who].text = Skeleton] ELSE present
    /\ entering' = Nil
    /\ UNCHANGED <<registry, rooted, post, kept, missed>>

RoomRefuses == EnteringAt("join") /\ entering' = Nil
               /\ UNCHANGED <<present, registry, rooted, post, kept, missed>>

-----------------------------------------------------------------------------
(* handle_avatar_command, which is told the avatar's DID, not the sender's  *)

Commanded(d) ==
    /\ entering = Nil /\ present[d] # Nil
    /\ UNCHANGED <<registry, rooted, entering, post, kept, missed>>

Describe(d, t) == Commanded(d) /\ present' = [present EXCEPT ![d].text = t]
Use(d, o)      == Commanded(d) /\ present' = [present EXCEPT ![d].thing = o]
Unuse(d)       == Commanded(d) /\ present' = [present EXCEPT ![d].thing = Nil]
Walk(d, r)     == Commanded(d) /\ present' = [present EXCEPT ![d].room = r]

\* "prop": the owner of the avatar it is about is compared with the base of the
\* caller's avatar DID, which is the world's.
Prop(d, about, t) ==
    /\ Commanded(d)
    /\ present[about] # Nil /\ present[about].room = present[d].room
    /\ present[about].owner = WorldRoot
    /\ present' = [present EXCEPT ![about].text = t]

-----------------------------------------------------------------------------
(* Beside the lane                                                          *)

Disturbed(ds) ==
    IF entering # Nil THEN [entering EXCEPT !.calm = @ /\ Who \notin ds] ELSE Nil

\* Pruned, or kicked by another's command: the registry is not told.
LeaveWorld(d) ==
    /\ present[d] # Nil
    /\ present' = [present EXCEPT ![d] = Nil]
    /\ entering' = Disturbed({d})
    /\ UNCHANGED <<registry, rooted, post, kept, missed>>

\* save_encrypted_state: rooms and registry are read one after the other.
\* Shortcuts are not in the document.
SaveAvatars ==
    /\ post = Nil
    /\ post' = [op |-> "save", avatars |-> [d \in Dids |->
            IF present[d] = Nil THEN Nil ELSE [present[d] EXCEPT !.thing = Nil]]]
    /\ UNCHANGED <<present, registry, rooted, entering, kept, missed>>
SaveRegistry ==
    /\ post # Nil /\ post.op = "save"
    /\ kept' = [avatars |-> post.avatars, registry |-> registry]
    /\ rooted' = registry
    /\ post' = Nil
    /\ UNCHANGED <<present, registry, entering, missed>>

\* load_encrypted_state, likewise.
LoadAvatars ==
    /\ post = Nil /\ kept # Nil
    /\ present' = kept.avatars
    /\ post' = [op |-> "load", avatars |-> Nil]
    /\ missed' = Dids
    /\ entering' = IF entering = Nil THEN Nil ELSE [Disturbed(Dids) EXCEPT !.sound = FALSE]
    /\ UNCHANGED <<registry, rooted, kept>>
LoadRegistry ==
    /\ post # Nil /\ post.op = "load"
    /\ registry' = kept.registry /\ rooted' = registry'
    /\ post' = Nil /\ missed' = Dids
    /\ UNCHANGED <<present, entering, kept>>

\* load_from_world_cid installs the registry of a root and leaves the avatars.
LoadRoot ==
    /\ post = Nil
    /\ registry' = rooted /\ missed' = Dids
    /\ UNCHANGED <<present, rooted, entering, post, kept>>

EnterStep == JoinRoom \/ RoomRefuses \/ CaptureAvatar \/ InsertEntry \/ RefreshFails
                \/ DescribeSkeleton
AvatarCommand(d) ==
    \/ \E t \in Texts : Describe(d, t) \/ (\E about \in Dids : Prop(d, about, t))
    \/ \E o \in Things : Use(d, o)
    \/ Unuse(d)
    \/ \E r \in Places : Walk(d, r)
Administered == SaveAvatars \/ SaveRegistry \/ LoadAvatars \/ LoadRegistry \/ LoadRoot

ProfilesNext ==
    \/ \E a \in Actors, r \in Places : EnsureAvatar(a, r)
    \/ EnterStep
    \/ \E d \in Dids : AvatarCommand(d) \/ LeaveWorld(d)
    \/ Administered

ProfilesSpec == ProfilesInit /\ [][ProfilesNext]_profileVars

-----------------------------------------------------------------------------
ProfilesTypeOK ==
    /\ present \in [Dids -> Avatar \cup {Nil}]
    /\ registry \in [Dids -> Owners \cup {Nil}]
    /\ rooted \in [Dids -> Owners \cup {Nil}]
    /\ entering \in Entry \cup {Nil}
    /\ post = Nil \/ (post = [op |-> "load", avatars |-> Nil] /\ kept # Nil)
        \/ post \in [op : {"save"}, avatars : [Dids -> Avatar \cup {Nil}]]
    /\ kept = Nil \/ kept \in [avatars : [Dids -> Avatar \cup {Nil}], registry : [Dids -> Owners \cup {Nil}]]
    /\ missed \subseteq Dids

\* The world asks the registry whose avatar a caller is (world_core.rs:5611).
\* While no entry of the avatar is under way it answers with the owner that the
\* avatar has, whoever entered under its DID before, unless the last refresh
\* failed or a load replaced the entry since.
RegistryFollows ==
    \A d \in Dids \ missed :
        present[d] # Nil /\ (entering # Nil => Who # d) => registry[d] = present[d].owner

\* An actor that enters while its avatar is in the world, from whichever room,
\* finds it with the description and the shortcuts it had, unless it was pruned
\* or loaded meanwhile: only an avatar that is new, or another owner's, is made
\* a skeleton (ensure_avatar).
ReentryKeepsProfile ==
    [][/\ entering # Nil /\ entering.before # Nil
       /\ entering.calm /\ (entering' # Nil => entering'.calm)
       => /\ present'[Who] # Nil
          /\ present'[Who].text = entering.before.text
          /\ present'[Who].thing = entering.before.thing]_profileVars
=============================================================================
