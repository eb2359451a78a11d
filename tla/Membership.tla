----------------------------- MODULE Membership -----------------------------
(***************************************************************************)
(* What presence promises to those who rely on it, whatever locks a handler *)
(* takes and releases on its way: every DID is in one place or in none, has *)
(* one name that nobody else has, enters only where it is admitted, and     *)
(* otherwise just walks or leaves.  Saving is one step, which keeps all of  *)
(* this as it is at that moment, and loading is one step, which brings back *)
(* all of what was kept at one moment.                                      *)
(***************************************************************************)
CONSTANTS
    Dids, Rooms,
    NamesOf,    \* [Dids -> sets of names]: what a DID may be called
    Past,       \* what earlier runs have kept
    None        \* no room, no name, nothing kept

VARIABLES
    place,      \* where each DID is
    called,     \* the name it was given
    refused,    \* <<room, DID>> pairs: who may not enter where
    kept        \* places and names as last saved

memberVars == <<place, called, refused, kept>>

Init ==
    /\ place = [d \in Dids |-> None]
    /\ called = [d \in Dids |-> None]
    /\ refused = {}
    /\ kept = None

\* A DID is given a name, once.
Name(d, n) ==
    /\ called[d] = None
    /\ \A e \in Dids : called[e] # n
    /\ called' = [called EXCEPT ![d] = n]
    /\ UNCHANGED <<place, refused, kept>>

Enter(d, r) ==
    /\ place[d] = None
    /\ called[d] # None
    /\ <<r, d>> \notin refused
    /\ place' = [place EXCEPT ![d] = r]
    /\ UNCHANGED <<called, refused, kept>>

Walk(d, r) ==
    /\ place[d] # None
    /\ place' = [place EXCEPT ![d] = r]
    /\ UNCHANGED <<called, refused, kept>>

Leave(S) ==
    /\ place' = [d \in Dids |-> IF d \in S THEN None ELSE place[d]]
    /\ UNCHANGED <<called, refused, kept>>

\* Who is denied a room is put out of it, and out of no other.
Deny(r, d) ==
    /\ refused' = refused \cup {<<r, d>>}
    /\ place' = [e \in Dids |-> IF e = d /\ place[d] = r THEN None ELSE place[e]]
    /\ UNCHANGED <<called, kept>>

\* The rights to a room change: those inside stay.
Admit(r, S) ==
    /\ refused' = {p \in refused : p[1] # r} \cup ({r} \X S)
    /\ UNCHANGED <<place, called, kept>>

Save ==
    /\ kept' = [place |-> place, called |-> called]
    /\ UNCHANGED <<place, called, refused>>

Load ==
    /\ \E k \in Past \cup ({kept} \ {None}) : place' = k.place /\ called' = k.called
    /\ refused' \subseteq refused
    /\ UNCHANGED kept

Next ==
    \/ \E S \in SUBSET Dids : Leave(S) \/ (\E r \in Rooms : Admit(r, S))
    \/ \E d \in Dids, r \in Rooms : Enter(d, r) \/ Walk(d, r) \/ Deny(r, d)
    \/ \E d \in Dids : \E n \in NamesOf[d] : Name(d, n)
    \/ Save
    \/ Load

Spec == Init /\ [][Next]_memberVars
=============================================================================
