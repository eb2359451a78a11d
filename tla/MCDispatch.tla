----------------------------- MODULE MCDispatch -----------------------------
(***************************************************************************)
(* Instances of RoomDispatch, SenderDocs, AvatarRegistry and AgentDaemon for *)
(* TLC.  A behaviour is one of these modules', while the variables of the    *)
(* others stay as they were; the registry is looked at with two avatar DIDs  *)
(* and no saves, and with one DID of two owners, saves and loads, and the    *)
(* daemon with one request beside the startup, about an agent of an earlier   *)
(* version's, and with two requests about a new one and one alias.           *)
(***************************************************************************)
EXTENDS MCRoomDispatch, SenderDocs, AvatarRegistry, AgentDaemon, TLC

VARIABLE slice

MCOwner == [a |-> "A", b |-> "W", c |-> "A"]
MCDid == [a |-> "x", b |-> "x", c |-> "y"]

\* One agent is an earlier version's.
MCLegacy == [i \in Ids |-> IF i = "i" THEN "a" ELSE Missing]
MCElsewhere == {[alias |-> "a", base |-> Missing]}

Slices == {"dispatch", "docs", "entries", "loads", "one", "two"}

Unbound(d) == present[d] # Nil => present[d].thing = Nil
Bland(d) == Unbound(d) /\ (present[d] # Nil => present[d].text = Unset)
InLobby(m) == m # Nil => m.room = "lobby"
OneRequest ==
    \A s, t \in Handlers : call[s] # Missing /\ call[t] # Missing => s = t
OneAlias ==
    /\ cfg.alias = "a" /\ file.alias = "a"
    /\ \A t \in Handlers : call[t] # Missing =>
        call[t].id # "i" /\ (call[t].next # Missing => call[t].next.alias = "a")
InSlice ==
    CASE slice \in {"dispatch", "docs"} -> TRUE
      [] slice = "entries" -> kept = Nil /\ post = Nil /\ Bland("y")
      [] slice = "loads"   -> present["y"] = Nil /\ Unbound("x") /\ InLobby(present["x"]) /\ InLobby(entering)
                                /\ (entering # Nil => entering.actor # "c")
      [] slice = "one"     -> OneRequest /\ agents["j"] = Missing
      [] slice = "two"     -> OneAlias /\ agents["i"] = "a"

\* Only the dispatch knows these rooms, and tells them apart by who is there;
\* the daemon's handlers are as good as one another.
Alike == Permutations(Rooms) \cup Permutations(Handlers)

\* What does not move in a slice starts in one state.
MCInit ==
    /\ Init /\ DocsInit /\ ProfilesInit /\ DaemonInit /\ slice \in Slices
    /\ slice # "docs" => published = [s \in Senders |-> Absent]
    /\ slice \notin {"one", "two"} => keys = {} /\ cfg.alias = "a"
    /\ InSlice
MCNext ==
    /\ \/ slice = "dispatch" /\ Next /\ UNCHANGED <<docVars, profileVars, daemonVars>>
       \/ slice = "docs" /\ DocsNext /\ UNCHANGED <<vars, profileVars, daemonVars>>
       \/ slice \in {"entries", "loads"} /\ ProfilesNext /\ UNCHANGED <<vars, docVars, daemonVars>>
       \/ slice \in {"one", "two"} /\ DaemonNext /\ UNCHANGED <<vars, docVars, profileVars>>
    /\ UNCHANGED slice
    /\ InSlice'
MCSpec == MCInit /\ [][MCNext]_<<vars, docVars, profileVars, daemonVars, slice>>
=============================================================================
