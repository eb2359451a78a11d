---------------------------- MODULE RoomCommands ----------------------------
(***************************************************************************)
(* What avatars and the world's owner do to rooms: who may enter, the exits, *)
(* the documents rooms are made from (world_core.rs, room_command, the dig   *)
(* and room commands of handle_world_command; core/src/room_actor.rs;        *)
(* world/src/room.rs, RoomAcl).                                              *)
(*                                                                          *)
(* A command reads the room under one lock and is decided, and carried out   *)
(* under later ones, with fetches between: errands of several avatars are    *)
(* under way at once.  Exits know the names they answer to and where they    *)
(* lead; titles and descriptions are left out.  A save puts a snapshot of    *)
(* the room, without avatars and rights, or fails; what becomes of it is     *)
(* WorldPublish's matter, and presence is AvatarPresence's.                  *)
(***************************************************************************)
EXTENDS FiniteSets

CONSTANTS
    Tasks,          \* the handlers under way at once
    Rooms, Lobby,
    Avatars,        \* by their DID URL
    ActorOf,        \* the DID of the actor an avatar belongs to
    WorldOwners,    \* the avatars that pass for the world's owner
    Anyone,         \* the wildcard of a list
    Names,          \* what exits answer to
    Authored,       \* the exits of room documents that authors give
    Elsewhere,      \* a room of another world
    None

Actors == {ActorOf[c] : c \in Avatars}
Identities == Avatars \cup Actors
Exits == [names : SUBSET Names, to : Rooms \cup {Elsewhere}]

\* No two exits answer to the same name.
Apart(S) == \A e, f \in S : e.names \cap f.names # {} => e = f

ASSUME RoomsAssumption == Lobby \in Rooms /\ Elsewhere \notin Rooms /\ None \notin Rooms
ASSUME NobodyAssumption ==
    /\ Anyone \notin Identities /\ None \notin Identities \cup {Anyone}
    /\ WorldOwners \subseteq Avatars
ASSUME AuthoredAssumption == \A S \in Authored : S \subseteq Exits /\ Apart(S)

VARIABLES
    rooms,          \* the rooms there are, None for those there are not
    exitIndex,      \* exit_reverse_index: exits with the rooms they leave
    stored,         \* the exits in the document that room_cids has of a room
    errand,         \* what each task is about
    alone           \* a task has had no other beside it since it began

roomVars == <<rooms, exitIndex, stored, errand, alone>>

RoomAcl == [owner : Identities \cup {None}, allow : SUBSET (Identities \cup {Anyone}),
            deny : SUBSET (Identities \cup {Anyone})]
Room == [acl : RoomAcl, exits : SUBSET Exits, avatars : SUBSET Avatars]

\* The commands that change something, with whom or which exit they are about:
\* invite and deny take any word, the wildcard too, others a DID, of which a
\* room's owner by the world's owner's word is to have a fragment.
About(verbs, people, exits) == [verb : verbs, who : people, exit : exits]
Nobody == {None}
Plain == {e \in Exits : Cardinality(e.names) = 1}
Command ==
    About({"invite", "deny"}, Identities \cup {Anyone}, {None})
    \cup About({"owner", "allow", "world-deny"}, Identities, {None})
    \cup About({"kick", "world-owner"}, Avatars, {None})
    \cup About({"cid", "content", "open", "close"}, Nobody, {None})
    \cup About({"dig", "world-dig", "bury"}, Nobody, Plain)
    \cup About({"exit"}, Nobody, UNION Authored)

RoomVerbs == {"invite", "deny", "kick", "dig", "bury", "owner", "cid", "content", "exit"}
WorldVerbs == {"world-owner", "open", "close", "allow", "world-deny", "world-dig"}
Documents == {"cid", "content", "exit"}

Errand == [at : {"fetch", "act", "scan", "mend", "put", "save"}, room : Rooms, ask : Command,
           caller : Avatars \cup {None}, owner : Identities \cup {None}, there : SUBSET Avatars,
           exits : SUBSET Exits, found : SUBSET (Rooms \X Exits), changed : SUBSET Rooms]

ASSUME NoneAssumption == None \notin Room \cup Errand

-----------------------------------------------------------------------------
Live == {r \in Rooms : rooms[r] # None}

open == [owner |-> None, allow |-> {Anyone}, deny |-> {}]
NewRoom(owner) == [acl |-> [open EXCEPT !.owner = owner], exits |-> {}, avatars |-> {}]

can_enter(acl, c) == c \notin acl.deny /\ (Anyone \in acl.allow \/ c \in acl.allow)

RoomInit ==
    /\ rooms = [r \in Rooms |-> IF r = Lobby THEN NewRoom(None) ELSE None]
    /\ exitIndex = {}
    /\ stored = [r \in Rooms |-> None]
    /\ errand = [t \in Tasks |-> None]
    /\ alone = {}

\* Every exit with the room it leaves.
IncomingExits == UNION {{r} \X rooms[r].exits : r \in Live}

-----------------------------------------------------------------------------
(* The decision (room_actor.rs), on the room as the caller found it         *)

\* The caller's actor counts only where the caller stands.
is_owner(c, r) ==
    \/ rooms[r].acl.owner = c
    \/ c \in rooms[r].avatars /\ rooms[r].acl.owner = ActorOf[c]

is_owner_or_unclaimed(c, r) == rooms[r].acl.owner = None \/ is_owner(c, r)

execute_room_actor_command(c, r, ask) ==
    /\ r \in Live
    /\ IF ask.verb \in Documents \cup {"owner"} THEN is_owner_or_unclaimed(c, r)
                                              ELSE is_owner(c, r)

\* A handler carries along what it found, as far as it could make use of it.
Start(t, c, r, ask) ==
    /\ errand[t] = None
    /\ errand' = [errand EXCEPT ![t] =
            [at |-> IF ask.verb \in Documents THEN "fetch" ELSE "act",
             room |-> r, ask |-> ask, caller |-> IF ask.verb = "dig" THEN c ELSE None,
             owner |-> IF ask.verb = "deny" THEN rooms[r].acl.owner ELSE None,
             there |-> IF ask.verb \in Documents THEN rooms[r].avatars ELSE {},
             exits |-> {}, found |-> {}, changed |-> {}]]
    /\ alone' = IF \A s \in Tasks : errand[s] = None THEN {t} ELSE {}
    /\ UNCHANGED <<rooms, exitIndex, stored>>

Ask(t, c, r, ask) ==
    ask.verb \in RoomVerbs /\ execute_room_actor_command(c, r, ask) /\ Start(t, c, r, ask)

\* The world's owner needs no rights in the room, which may not exist.
AskWorld(t, c, r, ask) ==
    ask.verb \in WorldVerbs /\ c \in WorldOwners /\ Start(t, c, r, ask)

-----------------------------------------------------------------------------
(* Carrying it out                                                          *)

At(t, step) == errand[t] # None /\ errand[t].at = step
Is(t, verbs) == errand[t].ask.verb \in verbs
Done(t) == errand' = [errand EXCEPT ![t] = None]
Goes(t, step) == errand' = [errand EXCEPT ![t].at = step]
Changed(t, step, S) == errand' = [errand EXCEPT ![t] = [@ EXCEPT !.at = step, !.changed = S]]

Admitted(acl, who) == [acl EXCEPT !.allow = acl.allow \cup {who}, !.deny = acl.deny \ {who}]
Barred(acl, who) == [acl EXCEPT !.deny = acl.deny \cup {who}, !.allow = acl.allow \ {who}]
Owned(acl, who) == [Admitted(acl, who) EXCEPT !.owner = who]

\* Broken variant of OwnerNow: the owner the caller found when the command came.
OwnerAsked(t) == errand[t].owner

OwnerNow(t) == rooms[errand[t].room].acl.owner

\* A command that changes the rights in a room, and who is in it: the same for
\* the room's owner and the world's, but that only the former's deny puts out
\* who is denied, and only a room's command mends the exit index.
Rights(t) ==
    LET r == errand[t].room
        who == errand[t].ask.who
        acl == rooms[r].acl
        here == rooms[r].avatars
        Becomes(a, S) == rooms' = [rooms EXCEPT ![r] = [@ EXCEPT !.acl = a, !.avatars = S]]
    IN  /\ At(t, "act") /\ Is(t, (RoomVerbs \cup WorldVerbs) \ (Documents \cup {"dig", "world-dig", "bury"}))
        /\ \/ r \notin Live /\ UNCHANGED rooms /\ Done(t)
           \/ /\ r \in Live
              /\ \/ Is(t, {"invite"}) /\ Becomes(Admitted(acl, who), here) /\ Changed(t, "scan", {r})
                 \/ Is(t, {"owner"}) /\ Becomes(Owned(acl, who), here) /\ Changed(t, "scan", {r})
                 \/ Is(t, {"deny", "world-deny"}) /\ OwnerNow(t) = who /\ UNCHANGED rooms /\ Done(t)
                 \/ Is(t, {"deny"}) /\ OwnerNow(t) # who
                    /\ Becomes(Barred(acl, who), here \ {who}) /\ Changed(t, "scan", {r})
                 \/ Is(t, {"kick"}) /\ Becomes(acl, here \ {who}) /\ Done(t)
                 \/ Is(t, {"world-deny"}) /\ OwnerNow(t) # who
                    /\ Becomes(Barred(acl, who), here) /\ Changed(t, "save", {r})
                 \/ Is(t, {"allow"}) /\ Becomes(Admitted(acl, who), here) /\ Changed(t, "save", {r})
                 \/ Is(t, {"world-owner"}) /\ Becomes(Owned(acl, who), here) /\ Changed(t, "save", {r})
                 \/ Is(t, {"open"}) /\ Becomes([acl EXCEPT !.allow = @ \cup {Anyone}], here)
                    /\ Changed(t, "save", {r})
                 \/ Is(t, {"close"}) /\ Becomes([acl EXCEPT !.allow = @ \ {Anyone}], here)
                    /\ Changed(t, "save", {r})
        /\ UNCHANGED <<exitIndex, stored, alone>>

\* Broken variant of Answering: other names an exit has are not looked at.
AnsweringByName(S, e) == {f \in S : f.names = e.names}

\* ExitData::matches: the exits of S that answer to what e is called.
Answering(S, e) == {f \in S : e.names \cap f.names # {}}

\* Dig makes the room the exit leads to where there is none, the caller's when
\* a room was told to, nobody's when the world was; and the exit, unless
\* one answers to its name.
Dig(t) ==
    LET m == errand[t]
        r == m.room
        new == {m.ask.exit.to} \ (Live \cup {Elsewhere})
        maker == IF Is(t, {"dig"}) THEN m.caller ELSE None
        made == [q \in Rooms |-> IF q \in new THEN NewRoom(maker) ELSE rooms[q]]
        dug == made[r] # None /\ Answering(made[r].exits, m.ask.exit) = {}
    IN  /\ At(t, "act") /\ Is(t, {"dig", "world-dig"})
        /\ rooms' = IF dug THEN [made EXCEPT ![r].exits = @ \cup {m.ask.exit}] ELSE made
        /\ Changed(t, "scan", {r} \cup ({m.ask.exit.to} \ {Elsewhere}))
        /\ UNCHANGED <<exitIndex, stored, alone>>

Bury(t) ==
    LET m == errand[t]
        gone == IF m.room \in Live THEN Answering(rooms[m.room].exits, m.ask.exit) ELSE {}
    IN  /\ At(t, "act") /\ Is(t, {"bury"})
        /\ \/ gone = {} /\ UNCHANGED rooms /\ Done(t)
           \/ /\ gone # {}
              /\ rooms' = [rooms EXCEPT ![m.room].exits = @ \ gone]
              /\ Changed(t, "scan", {m.room})
        /\ UNCHANGED <<exitIndex, stored, alone>>

\* The document is fetched, or published and taken as it is; for an exit the
\* document the room had is fetched, and the exit put in, in the place of the one
\* that has its id if one has.  What cannot be had or read ends the errand.
Fetch(t) ==
    LET m == errand[t] IN
    /\ At(t, "fetch")
    /\ \/ Done(t)
       \/ /\ Is(t, {"cid", "content"})
          /\ \E S \in Authored :
                errand' = [errand EXCEPT ![t] = [@ EXCEPT !.at = "act", !.exits = S]]
       \/ /\ Is(t, {"exit"}) /\ stored[m.room] # None
          /\ \E old \in {{}} \cup {{e} : e \in stored[m.room]} :
                LET edited == (stored[m.room] \ old) \cup {m.ask.exit} IN
                Apart(edited) /\ errand' = [errand EXCEPT ![t] = [@ EXCEPT !.at = "act", !.exits = edited]]
    /\ UNCHANGED <<rooms, exitIndex, stored, alone>>

\* Broken variant of Staying: who was there when the command came.
StayingAsked(t) == errand[t].there

Staying(t) == IF errand[t].room \in Live THEN rooms[errand[t].room].avatars ELSE {}

\* The room is replaced by the one the document makes, open and nobody's, with
\* the avatars there are.  Only an exit's replacement mends the exit index.
Swap(t) ==
    LET m == errand[t] IN
    /\ At(t, "act") /\ Is(t, Documents)
    /\ rooms' = [rooms EXCEPT ![m.room] =
            [acl |-> open, exits |-> m.exits, avatars |-> Staying(t)]]
    /\ Goes(t, IF Is(t, {"exit"}) THEN "scan" ELSE "put")
    /\ UNCHANGED <<exitIndex, stored, alone>>

\* rebuild_exit_reverse_index: the rooms are read under their lock, and the
\* index written under its own.
Scan(t) ==
    /\ At(t, "scan")
    /\ errand' = [errand EXCEPT ![t] = [@ EXCEPT !.at = "mend", !.found = IncomingExits]]
    /\ UNCHANGED <<rooms, exitIndex, stored, alone>>

\* Broken variant of Mended: entries of the index are added only.
MendedAdds(t) == exitIndex \cup errand[t].found

Mended(t) == errand[t].found

Mend(t) ==
    /\ At(t, "mend")
    /\ exitIndex' = Mended(t)
    /\ errand' = [errand EXCEPT ![t] =
            [@ EXCEPT !.at = IF Is(t, {"exit"}) THEN "put" ELSE "save", !.found = {}]]
    /\ UNCHANGED <<rooms, stored, alone>>

\* room_cids is given the document.
Put(t) ==
    /\ At(t, "put")
    /\ stored' = [stored EXCEPT ![errand[t].room] = errand[t].exits]
    /\ Done(t)
    /\ UNCHANGED <<rooms, exitIndex, alone>>

\* save_rooms_and_world_index: a snapshot of each changed room, the one the command
\* was given in first, until one fails.
Save(t) ==
    LET m == errand[t] IN
    /\ At(t, "save")
    /\ \E S \in {{}} \cup (IF m.room \in Live THEN {{m.room}, m.changed} ELSE {}) :
        stored' = [r \in Rooms |-> IF r \in S THEN rooms[r].exits ELSE stored[r]]
    /\ Done(t)
    /\ UNCHANGED <<rooms, exitIndex, alone>>

\* join_room and leave_room, which look at the rights under the rooms' lock.
Enter(c, r) ==
    /\ r \in Live /\ c \notin rooms[r].avatars /\ can_enter(rooms[r].acl, c)
    /\ rooms' = [q \in Rooms |->
            IF q = r THEN [rooms[q] EXCEPT !.avatars = @ \cup {c}]
            ELSE IF q \in Live THEN [rooms[q] EXCEPT !.avatars = @ \ {c}] ELSE None]
    /\ UNCHANGED <<exitIndex, stored, errand, alone>>

Commands(t) ==
    /\ errand[t] = None
    /\ \E c \in Avatars, r \in Rooms, ask \in Command :
            Ask(t, c, r, ask) \/ AskWorld(t, c, r, ask)

Handling(t) ==
    Rights(t) \/ Dig(t) \/ Bury(t) \/ Fetch(t) \/ Swap(t) \/ Scan(t) \/ Mend(t) \/ Put(t)
        \/ Save(t)

RoomNext ==
    \/ \E t \in Tasks : Commands(t) \/ Handling(t)
    \/ \E c \in Avatars, r \in Rooms : Enter(c, r)

RoomSpec == RoomInit /\ [][RoomNext]_roomVars

-----------------------------------------------------------------------------
RoomTypeOK ==
    /\ rooms \in [Rooms -> Room \cup {None}]
    /\ exitIndex \subseteq Rooms \X Exits
    /\ stored \in [Rooms -> (SUBSET Exits) \cup {None}]
    /\ errand \in [Tasks -> Errand \cup {None}]
    /\ alone \subseteq Tasks

\* Nobody is both let in and kept out by name, and a room never denies its
\* owner, however the commands of owners old and new and of the world's owner
\* interleave (room.rs, RoomAcl; each command mends the lists by hand).
AclOf(acl) ==
    /\ \A who \in Identities : ~(who \in acl.allow /\ who \in acl.deny)
    /\ acl.owner \notin acl.deny
AclSound == \A r \in Live : AclOf(rooms[r].acl)

\* No two exits of a room answer to one name, as long as authors give none
\* that do: go takes the first that answers.
ExitsApart == \A r \in Live : Apart(rooms[r].exits)

\* Nobody is put out of a room but by its owner's kick or deny, or by entering
\* another: not by a new document, however long it was in fetching.
OccupantsKept ==
    [][\A r \in Live : \A c \in rooms[r].avatars :
        \/ rooms'[r] # None /\ c \in rooms'[r].avatars
        \/ \E q \in Live \ {r} : c \in rooms'[q].avatars
        \/ \E t \in Tasks : /\ At(t, "act") /\ errand'[t] # errand[t]
                            /\ Is(t, {"kick", "deny"}) /\ errand[t].ask.who = c]_roomVars

\* A command that had no other beside it, and does not replace the room by a
\* document, leaves the exit index as the exits are.
IndexMended ==
    [][\A t \in alone :
        (At(t, "save") /\ errand'[t] = None /\ Is(t, RoomVerbs \cup {"world-dig"}))
            => exitIndex' = IncomingExits']_roomVars

\* The owner of a room may always enter it (world/README.md: "The room owner is
\* always granted access regardless of the deny list").
OwnerEnters ==
    \A r \in Live : rooms[r].acl.owner # None => can_enter(rooms[r].acl, rooms[r].acl.owner)
=============================================================================
