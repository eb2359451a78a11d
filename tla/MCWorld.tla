------------------------------ MODULE MCWorld ------------------------------
(***************************************************************************)
(* Instances of RoomCommands, WorldEntry and TtlCache for TLC.  A behaviour  *)
(* is one of these modules' in one of its slices, while the variables of    *)
(* the others stay as they were.                                            *)
(***************************************************************************)
EXTENDS MCRoomCommands, WorldEntry, TtlCache, TLC

VARIABLE slice

MCRootOf == [d \in Known |-> IF d = "v#1" THEN "v" ELSE d]

Slices == {"rights", "exits", "knocks", "owner", "langs", "cache"}

\* Rooms without exits, and what the lobby's owner and the world's do to its
\* rights, of which y is the object.
Only(P(_)) == \A t \in Tasks : errand[t] # None => P(errand[t])
OfRights(m) ==
    /\ m.ask.exit = None /\ m.room = Lobby /\ m.ask.verb # "cid"
    /\ m.ask.verb \notin {"owner", "world-owner"} => m.ask.who \in {None, "y"}
    /\ m.ask.who \notin {Anyone, "a"}
Rightly ==
    /\ \A r \in Live : rooms[r].exits = {} /\ rooms[r].avatars \subseteq {"y"}
    /\ \A r \in Rooms : stored[r] = None
    /\ Only(OfRights)

\* Rooms without avatars: x digs to the den, in the lobby, and what is buried is
\* what answers to n.
OfExits(m) ==
    /\ m.room = Lobby /\ m.ask.verb \in {"dig", "bury", "world-dig", "exit", "cid", "owner"}
    /\ m.caller # "y" /\ m.ask.who \in {None, "x"}
    /\ m.ask.verb \in {"dig", "world-dig"} => m.ask.exit.to = "den"
    /\ m.ask.verb = "bury" => m.ask.exit.to = Elsewhere
    /\ m.ask.verb \in {"bury", "world-dig"} => "n" \in m.ask.exit.names
OneLong ==
    \A s, t \in Tasks : Only(LAMBDA m : TRUE) /\ errand[s] # None /\ errand[t] # None
        /\ {errand[s].ask.verb, errand[t].ask.verb}
                \subseteq Documents \cup {"owner", "world-dig"} => s = t
Leading ==
    /\ \A r \in Live : rooms[r].avatars = {}
    /\ stored["den"] = None
    /\ Only(OfExits) /\ OneLong

\* Knocks without owners and languages, decided by one handler and taken by all;
\* owners without knocks and languages; languages while the world is its own owner.
Working(P(_)) == \A t \in Busy : P(work[t])
Mute == lang = NoOne /\ config = NoOne
Unvisited == inbox = Inbox!New(PendingSpan, MaxInbox) /\ clock = 0
Knocking ==
    /\ owner = WorldRoot /\ Mute /\ kept = NoOne
    /\ Working(LAMBDA m : m.op \in {"knock", "accept", "reject", "delete"} /\ m.id # 3)
    /\ Cardinality({t \in Busy : work[t].op \in {"reject", "delete"}}) < 2
Owning == Unvisited /\ Mute /\ Working(LAMBDA m : m.op \in {"owner", "save", "load"})
Speaking ==
    /\ Unvisited /\ owner = WorldRoot /\ allowed = Configured \cup {WorldRoot}
    /\ Working(LAMBDA m : m.op \in {"attr", "tag", "save", "load"}
                          /\ (m.op = "attr" => m.lang \in {{}, Unreadable}))

InSlice ==
    CASE slice = "rights" -> Rightly
      [] slice = "exits"  -> Leading
      [] slice = "knocks" -> Knocking
      [] slice = "owner"  -> Owning
      [] slice = "langs"  -> Speaking
      [] slice = "cache"  -> TRUE

Alike == Permutations(Tasks) \cup Permutations(Workers)
            \cup Permutations(Keys) \cup Permutations(Values)

MCInit ==
    /\ RoomInit /\ EntryInit /\ Init /\ slice \in Slices
    /\ slice # "cache" => cache = New(1, Nothing)
MCNext ==
    /\ \/ slice \in {"rights", "exits"} /\ RoomNext /\ UNCHANGED <<entryVars, vars>>
       \/ slice \in {"knocks", "owner", "langs"} /\ EntryNext /\ UNCHANGED <<roomVars, vars>>
       \/ slice = "cache" /\ Next /\ UNCHANGED <<roomVars, entryVars>>
    /\ UNCHANGED slice
    /\ InSlice'
MCSpec == MCInit /\ [][MCNext]_<<roomVars, entryVars, vars, slice>>
=============================================================================
