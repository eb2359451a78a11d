------------------------------ MODULE MCAvatars ------------------------------
(***************************************************************************)
(* One instance of AvatarAdmin, looked at in slices, each with its part of  *)
(* the state left free and the rest as it was at the start:                 *)
(*   moves  everyone who sends, and everything commands do to rooms, rights *)
(*          and avatars                                                     *)
(*   knock  two avatars, with the inbox lane beside the avatar lane         *)
(*   state  alice alone, who saves and loads, also what was saved under the *)
(*          world's former name                                             *)
(*   root   alice, while the administration saves and loads roots           *)
(*   load   alice, while the administration loads a state                   *)
(***************************************************************************)
EXTENDS MCAvatarAdmin

CONSTANT Slices     \* the slices of an instance

VARIABLE slice

OnlyAlice == job # None => <<job.owner, job.did>> = <<"a", "alice">>
BobEntersLobby == [op |-> "enter", owner |-> "b", did |-> "bob", room |-> Lobby]
RefusedAtMost(S) == \A p \in barred : p[2] \in S

InSlice ==
    CASE slice = "moves" -> RefusedAtMost({"alice"})
      [] slice = "knock" -> /\ OnlyAlice \/ job = BobEntersLobby
                            /\ \A a \in avatars : a.did = "bob" => a.room = Lobby
      [] slice = "state" -> OnlyAlice
      [] slice = "root"  -> OnlyAlice /\ RefusedAtMost({})
      [] slice = "load"  -> OnlyAlice

\* What every slice has.
Presence ==
    Receive \/ Enter \/ Lookup \/ Rebuild \/ Touch \/ CheckSender \/ Go \/ Dig
        \/ Prune \/ GoStale

MCInit == AdminInit /\ slice \in Slices
MCNext ==
    /\ \/ /\ \/ Presence
             \/ slice = "load" /\ Say
             \/ slice = "moves" /\ (Kick \/ Say \/ Deny \/ SetAcl)
             \/ slice = "knock" /\ InboxLane
             \/ slice = "state" /\ SaveLoad
          /\ UNCHANGED adminVars
       \/ slice = "root" /\ (AdminSaving \/ AdminLoadRoom)
       \/ slice = "load" /\ AdminLoad
    /\ UNCHANGED slice
    /\ InSlice'
MCSpec == MCInit /\ [][MCNext]_<<allVars, slice>>

\* The presence ticker's task keeps being scheduled, as in AdminFairSpec.
MCFairSpec == MCSpec /\ WF_<<allVars, slice>>(Prune /\ UNCHANGED <<adminVars, slice>>)
=============================================================================
