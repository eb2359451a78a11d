----------------------- MODULE AvatarPresence_proofs ------------------------
(***************************************************************************)
(* Proofs about AvatarPresence, for any owners, DIDs, rooms, handles, entry *)
(* ACL, selection of commands and archive of sound states.                  *)
(*                                                                          *)
(* TypeInv is inductive by itself.  Inv adds what the other invariants need *)
(* to be inductive: what a handler that has released the locks still knows. *)
(* The last part is about AvatarAdmin, where such a handler runs beside the *)
(* avatar lane.                                                             *)
(***************************************************************************)
EXTENDS AvatarAdmin, TLAPS

\* The lane has a request while it works, and a handle before it adds an avatar.
TypeInv ==
    /\ TypeOK
    /\ pc # "idle" => job \in Job
    /\ pc = "add" => grip \in Handles

\* Types hold initially.
LEMMA TypeInit == Init => TypeInv
  BY DomainAssumption
  DEF Init, TypeInv, TypeOK, Avatar, StateDoc, HandleToDid, DidToHandle, Index,
      NoIndex, NoHandles, NoDids, EmptyDraft, Knock, NoKnock, LaneSteps

\* Adding a well-typed avatar leaves well-typed avatars.
LEMMA AddAvatarType ==
  ASSUME NEW S \in SUBSET Avatar, NEW a \in Avatar
  PROVE  AddAvatar(S, a) \in SUBSET Avatar
  BY DEF AddAvatar

\* A handle assigned to a DID is a handle.
LEMMA AssignedHandleType ==
  ASSUME TypeOK, NEW d \in Dids
  PROVE  AssignedHandle(d) \in Handles
  BY HandleAssumption DEF TypeOK, AssignedHandle, FreeHandle, DidToHandle

\* The steps of the lane that take a request, look for its avatar and let it in.
LEMMA TypeEnter ==
  ASSUME TypeInv, Receive \/ Enter \/ Lookup
  PROVE  TypeInv'
<1> USE DEF TypeInv, TypeOK, worldVars, sideVars, Return, Continue, LaneSteps
<1>1. CASE Receive
  BY <1>1, DomainAssumption DEF Receive, Job
<1>2. CASE CheckEntry
  BY <1>2 DEF CheckEntry
<1>3. CASE Join
  <2> USE DEF Join, Job
  <2>1. CASE JoinRefused
    BY <1>3, <2>1 DEF JoinRefused
  <2>2. CASE MoveIn
    <3>1. PICK a \in At(found) : avatars' = AddAvatar(avatars \ {a},
                [a EXCEPT !.room = job.room, !.owner = job.owner, !.stale = FALSE])
      BY <2>2 DEF MoveIn
    <3>2. [a EXCEPT !.room = job.room, !.owner = job.owner, !.stale = FALSE] \in Avatar
      BY <1>3, <3>1 DEF At, Avatar
    <3>3. avatars' \in SUBSET Avatar
      BY <3>1, <3>2, AddAvatarType
    <3> QED
      BY <1>3, <2>2, <3>3 DEF MoveIn
  <2>3. CASE RefreshPresent
    BY <1>3, <2>3 DEF RefreshPresent, At, Avatar
  <2>4. CASE BeginRegister
    BY <1>3, <2>4 DEF BeginRegister
  <2> QED
    BY <1>3, <2>1, <2>2, <2>3, <2>4 DEF Join
<1>4. CASE Register
  <2>1. job \in Job /\ AssignedHandle(job.did) \in Handles
    BY <1>4, AssignedHandleType DEF Register, Job
  <2> QED
    BY <1>4, <2>1 DEF Register, HandleToDid, DidToHandle, Job
<1>5. CASE Add
  <2>1. Newcomer \in Avatar
    BY <1>5 DEF Add, Newcomer, Avatar, Job
  <2>2. AddAvatar(avatars, Newcomer) \in SUBSET Avatar
    BY <2>1, AddAvatarType
  <2> QED
    BY <1>5, <2>2 DEF Add
<1>6. CASE LookupIndex
  BY <1>6 DEF LookupIndex, Index, Job
<1>7. CASE LookupValidate
  BY <1>7 DEF LookupValidate, Located
<1>8. CASE LookupScan
  BY <1>8 DEF LookupScan, Avatar
<1>9. CASE LookupRepair
  BY <1>9 DEF LookupRepair, Located, Index, Job
<1> QED
  BY <1>1, <1>2, <1>3, <1>4, <1>5, <1>6, <1>7, <1>8, <1>9 DEF Enter, Lookup

\* Restamping avatars leaves well-typed avatars.
LEMMA TouchedType ==
  ASSUME avatars \subseteq Avatar, NEW r, NEW d
  PROVE  Touched(r, d) \subseteq Avatar
  BY DEF Touched, Avatar

\* The inbox lane.
LEMMA TypeInbox ==
  ASSUME TypeInv, InboxLane
  PROVE  TypeInv'
<1> USE DEF TypeInv, TypeOK, worldVars, laneVars
<1>1. CASE KnockReceive
  BY <1>1, DomainAssumption DEF KnockReceive, Knock
<1>2. CASE KnockFind
  <2>1. knock' \in Knock
    <3>1. CASE ~ IsPresent(knock.did) /\ knock' = [knock EXCEPT !.step = "repair"]
      BY <3>1 DEF Knock
    <3>2. CASE \E a \in avatars, next \in {"repair", "touch"} :
                  knock' = [knock EXCEPT !.step = next, !.room = a.room]
      BY <3>2 DEF Knock, Avatar
    <3> QED
      BY <1>2, <3>1, <3>2 DEF KnockFind
  <2> QED
    BY <1>2, <2>1 DEF KnockFind
<1>3. CASE KnockRepair
  <2>1. knock' \in Knock
    BY <1>3 DEF KnockRepair, Knock, NoKnock, NoIndex, Index
  <2>2. index' \in Index
    BY <1>3 DEF KnockRepair, Knock, Index
  <2> QED
    BY <1>3, <2>1, <2>2 DEF KnockRepair
<1>4. CASE KnockTouch
  <2>1. avatars' \subseteq Avatar
    BY <1>4, TouchedType DEF KnockTouch
  <2>2. knock' \in Knock
    BY <1>4 DEF KnockTouch, Knock
  <2> QED
    BY <1>4, <2>1, <2>2 DEF KnockTouch
<1>5. CASE KnockSender
  BY <1>5 DEF KnockSender, Knock, NoKnock, NoIndex, Index
<1>6. CASE KnockRebuildRead
  BY <1>6 DEF KnockRebuildRead, IndexOf, Knock
<1>7. CASE KnockRebuildWrite
  BY <1>7 DEF KnockRebuildWrite, Knock, NoKnock, NoIndex, Index
<1> QED
  BY <1>1, <1>2, <1>3, <1>4, <1>5, <1>6, <1>7 DEF InboxLane

\* Every other step of the lane, the presence ticker's task and time.
LEMMA TypeRest ==
  ASSUME TypeInv, Rebuild \/ Touch \/ CheckSender \/ Command \/ SaveLoad \/ Prune \/ GoStale
  PROVE  TypeInv'
<1> USE DEF TypeInv, TypeOK, worldVars, laneVars, sideVars, Return, Continue, Finish, LaneSteps
<1>1. CASE Rebuild
  BY <1>1 DEF Rebuild, RebuildRead, RebuildWrite, IndexOf, NoIndex, Index
<1>2. CASE Touch
  BY <1>2, TouchedType DEF Touch
<1>3. CASE CheckSender
  <2>1. job.did \in Dids
    BY <1>3 DEF CheckSender, Job
  <2>2. grip' \in Handles \cup {None}
    BY <1>3, <2>1, HandleAssumption DEF CheckSender, At, Avatar, DidToHandle
  <2> QED
    BY <1>3, <2>2 DEF CheckSender
<1>4. CASE Say
  BY <1>4 DEF Say
<1>5. CASE Go
  <2>1. CASE UNCHANGED avatars
    BY <1>5, <2>1 DEF Go
  <2>2. CASE ~ UNCHANGED avatars
    <3>1. PICK dest \in Rooms, a \in At(found) :
            avatars' = AddAvatar(avatars \ {a}, [a EXCEPT !.room = dest])
      BY <1>5, <2>2 DEF Go
    <3>2. [a EXCEPT !.room = dest] \in Avatar
      BY <3>1 DEF At, Avatar
    <3>3. avatars' \in SUBSET Avatar
      BY <3>1, <3>2, AddAvatarType
    <3> QED
      BY <1>5, <3>3 DEF Go
  <2> QED
    BY <2>1, <2>2
<1>6. CASE Kick
  BY <1>6 DEF Kick
<1>7. CASE Deny
  BY <1>7 DEF Deny
<1>8. CASE SetAcl
  BY <1>8 DEF SetAcl
<1>9. CASE Dig
  BY <1>9 DEF Dig
<1>10. CASE Save
  BY <1>10 DEF Save, EmptyDraft, StateDoc, NoHandles, NoDids, HandleToDid, DidToHandle
<1>11. CASE SaveH2d
  BY <1>11 DEF SaveH2d, StateDoc
<1>12. CASE SaveD2h
  BY <1>12 DEF SaveD2h, EmptyDraft, StateDoc, NoHandles, NoDids, HandleToDid, DidToHandle
<1>13. CASE LoadRooms
  <2>1. PICK doc \in Archive \cup ({saved} \ {None}), owner \in [Rooms -> Dids \cup {None}] :
          /\ live' = doc.live
          /\ avatars' = Restored(doc.avatars)
          /\ barred' = {p \in barred : p[1] \in doc.live /\ p[2] # owner[p[1]]}
          /\ draft' = doc
    BY <1>13 DEF LoadRooms
  <2>2. doc \in StateDoc
    BY ArchiveAssumption DEF SoundDoc
  <2>3. avatars' \subseteq Avatar
    <3>1. doc.avatars \subseteq Avatar
      BY <2>2 DEF StateDoc
    <3>2. \A a \in doc.avatars : [a EXCEPT !.stale = FALSE] \in Avatar
      BY <3>1 DEF Avatar
    <3> QED
      BY <2>1, <3>2 DEF Restored
  <2>4. barred' \subseteq Rooms \X Dids
    BY <2>1
  <2>5. live' \subseteq Rooms /\ draft' \in StateDoc
    BY <2>1, <2>2 DEF StateDoc
  <2> QED
    BY <1>13, <2>3, <2>4, <2>5 DEF LoadRooms
<1>14. CASE LoadH2d
  BY <1>14 DEF LoadH2d, StateDoc
<1>15. CASE LoadD2h
  BY <1>15 DEF LoadD2h, StateDoc, EmptyDraft, NoHandles, NoDids, HandleToDid, DidToHandle
<1>16. CASE Prune
  BY <1>16 DEF Prune, PruneSweep, PruneRead, PruneWrite, IndexOf, NoIndex, Index
<1>17. CASE GoStale
  BY <1>17 DEF GoStale, Avatar
<1> QED
  BY <1>1, <1>2, <1>3, <1>4, <1>5, <1>6, <1>7, <1>8, <1>9, <1>10, <1>11, <1>12, <1>13,
     <1>14, <1>15, <1>16, <1>17 DEF Command, SaveLoad

\* TypeInv is inductive.
LEMMA TypeStep == TypeInv /\ [Next]_vars => TypeInv'
<1> SUFFICES ASSUME TypeInv, [Next]_vars PROVE TypeInv'
  OBVIOUS
<1>1. CASE Receive \/ Enter \/ Lookup
  BY <1>1, TypeEnter
<1>2. CASE Rebuild \/ Touch \/ CheckSender \/ Command \/ SaveLoad \/ Prune \/ GoStale
  BY <1>2, TypeRest
<1>3. CASE InboxLane
  BY <1>3, TypeInbox
<1>4. CASE UNCHANGED vars
  BY <1>4 DEF TypeInv, TypeOK, vars
<1> QED
  BY <1>1, <1>2, <1>3, <1>4 DEF Next, Lane

\* Every reachable state is well typed.
THEOREM TypeCorrect == Spec => []TypeOK
<1>1. Init => TypeInv
  BY TypeInit
<1>2. TypeInv /\ [Next]_vars => TypeInv'
  BY TypeStep
<1>3. TypeInv => TypeOK
  BY DEF TypeInv
<1> QED
  BY <1>1, <1>2, <1>3, PTL DEF Spec

-----------------------------------------------------------------------------
(* The inductive invariant                                                  *)

\* Everyone is in a room that exists, and the lobby exists.
Housing == Lobby \in live /\ Housed(avatars, live)

\* A handler that saves has copied a sound set of avatars, named by a registry
\* that has not changed since: nobody but the lane registers handles.
Saving ==
    /\ pc \in {"saveH2d", "saveD2h"} =>
            /\ Lobby \in draft.live
            /\ Single(draft.avatars)
            /\ Housed(draft.avatars, draft.live)
            /\ Registered(draft.avatars, d2h)
    /\ pc = "saveD2h" => draft.h2d = h2d

\* A handler that loads has yet to install the names of those it has restored.
Loading ==
    /\ pc \in {"loadH2d", "loadD2h"} => SoundDoc(draft) /\ Registered(avatars, draft.d2h)
    /\ pc = "loadD2h" => h2d = draft.h2d

\* The handle about to be used is the registered one.
Naming == pc = "add" => d2h[job.did] = grip

Finder == LookupSound /\ NewcomerAbsent

Inv ==
    /\ TypeInv
    /\ OneAvatarPerDid
    /\ HandlesAgree
    /\ Finder
    /\ SavedSound
    /\ Housing
    /\ Saving
    /\ Loading
    /\ Naming

\* Everything but what the lane has found and who may be away.
Settled == OneAvatarPerDid /\ HandlesAgree /\ SavedSound /\ Housing /\ Saving /\ Loading /\ Naming

LEMMA InvInit == Init => Inv
<1> SUFFICES ASSUME Init PROVE Inv
  OBVIOUS
<1>1. TypeInv
  BY TypeInit
<1> QED
  BY <1>1
  DEF Init, Inv, OneAvatarPerDid, Single, HandlesAgree, Registered, Inverses, Proper, Finder, LookupSound,
      NewcomerAbsent, SavedSound, Housing, Housed, Saving, Loading, Naming, NoHandles, NoDids

\* Two avatars that go by one registered handle are one.
LEMMA HandleUnique ==
  ASSUME NEW S, NEW names, NEW holders,
         S \subseteq Avatar, Single(S), Registered(S, names), Inverses(names, holders),
         NEW d \in Dids, names[d] # None,
         NEW a \in S, a.handle = names[d]
  PROVE  a.did = d
  BY NoneAssumption DEF Avatar, Single, Registered, Inverses

\* An avatar added under the handle registered for its DID, which has no other
\* avatar, displaces nobody and keeps the set sound.
LEMMA AddSound ==
  ASSUME NEW S, NEW names, NEW holders, NEW rooms,
         S \subseteq Avatar, Single(S), Registered(S, names), Inverses(names, holders),
         Housed(S, rooms),
         NEW a \in Avatar, a.room \in rooms, names[a.did] = a.handle,
         \A b \in S : b.did # a.did
  PROVE  /\ AddAvatar(S, a) = S \cup {a}
         /\ Single(AddAvatar(S, a))
         /\ Registered(AddAvatar(S, a), names)
         /\ Housed(AddAvatar(S, a), rooms)
<1>1. \A b \in S : b.handle # a.handle
  <2> SUFFICES ASSUME NEW b \in S, b.handle = a.handle PROVE FALSE
    OBVIOUS
  <2>1. a.did \in Dids /\ names[a.did] # None
    BY NoneAssumption DEF Avatar
  <2>2. b.did = a.did
    BY <2>1, HandleUnique
  <2> QED
    BY <2>2
<1>2. AddAvatar(S, a) = S \cup {a}
  BY <1>1 DEF AddAvatar
<1> QED
  BY <1>2 DEF Single, Registered, Housed

-----------------------------------------------------------------------------
(* Steps that leave the world as it is, but for the index and the ACLs      *)

Quiet == UNCHANGED <<live, avatars, h2d, d2h, saved, draft>>

\* The steps of a handler between which the shared state may be unsettled.
Critical == {"add", "saveH2d", "saveD2h", "loadH2d", "loadD2h"}

LEMMA QuietSettled ==
  ASSUME Inv, Quiet, pc' \in Critical => pc' = pc /\ UNCHANGED <<job, grip>>,
         pc \in {"loadH2d", "loadD2h"} => pc' = pc
  PROVE  Settled'
  BY DEF Inv, Quiet, Critical, Settled, OneAvatarPerDid, HandlesAgree, SavedSound,
         Housing, Saving, Loading, Naming

\* Looking an avatar up, whatever the index says, and letting it in or not.
LEMMA QuietEnter ==
  ASSUME Inv, TypeInv',
         Receive \/ CheckEntry \/ Lookup \/ (Join /\ (JoinRefused \/ BeginRegister))
  PROVE  Inv'
<1>1. Settled'
  <2>1. Quiet
    BY DEF Quiet, Receive, CheckEntry, Lookup, LookupIndex, LookupValidate, LookupScan,
           LookupRepair, Join, JoinRefused, BeginRegister, worldVars
  <2>2. pc' \notin Critical /\ pc \notin Critical
    BY DEF Critical, Receive, CheckEntry, Lookup, LookupIndex, LookupValidate, LookupScan,
           LookupRepair, Join, JoinRefused, BeginRegister, Return, Continue, Located
  <2> QED
    BY <2>1, <2>2, QuietSettled DEF Critical
<1>2. Finder'
  <2> USE DEF Inv, Finder, LookupSound, NewcomerAbsent, IsPresent, IsIn, Return, Continue
  <2>1. CASE Receive
    BY <2>1 DEF Receive
  <2>2. CASE CheckEntry
    BY <2>2 DEF CheckEntry
  <2>3. CASE LookupIndex
    BY <2>3 DEF LookupIndex
  <2>4. CASE LookupValidate
    BY <2>4 DEF LookupValidate, Located, worldVars
  <2>5. CASE LookupScan
    BY <2>5 DEF LookupScan, worldVars
  <2>6. CASE LookupRepair
    BY <2>6 DEF LookupRepair, Located
  <2>7. CASE Join /\ JoinRefused
    BY <2>7 DEF Join, JoinRefused
  <2>8. CASE Join /\ BeginRegister
    <3>1. ~ IsPresent(job.did)
      BY <2>8, NoneAssumption DEF Join, BeginRegister, CanMove, TypeInv, TypeOK, Avatar
    <3> QED
      BY <2>8, <3>1 DEF Join, BeginRegister
  <2> QED
    BY <2>1, <2>2, <2>3, <2>4, <2>5, <2>6, <2>7, <2>8 DEF Lookup
<1> QED
  BY <1>1, <1>2 DEF Inv, Settled

\* Rebuilding the index from an old look at the rooms, checking the sender,
\* commands that move nobody, and the ticker's rebuild.
LEMMA QuietRest ==
  ASSUME Inv, TypeInv', Rebuild \/ CheckSender \/ Say \/ SetAcl \/ PruneRead \/ PruneWrite
  PROVE  Inv'
<1>1. Settled'
  <2>1. Quiet
    BY DEF Quiet, Rebuild, RebuildRead, RebuildWrite, CheckSender, Say, SetAcl, PruneRead,
           PruneWrite, worldVars, laneVars
  <2>2. /\ pc' \in Critical => pc' = pc /\ UNCHANGED <<job, grip>>
        /\ pc \in {"loadH2d", "loadD2h"} => pc' = pc
    BY DEF Critical, Rebuild, RebuildRead, RebuildWrite, CheckSender, Say, SetAcl, PruneRead,
           PruneWrite, laneVars, Return, Continue, Finish
  <2> QED
    BY <2>1, <2>2, QuietSettled
<1>2. Finder'
  BY DEF Inv, Finder, LookupSound, NewcomerAbsent, IsPresent, IsIn, Rebuild, RebuildRead,
         RebuildWrite, CheckSender, Say, SetAcl, PruneRead, PruneWrite, worldVars, laneVars,
         Return, Continue, Finish
<1> QED
  BY <1>1, <1>2 DEF Inv, Settled

\* The inbox lane's steps, but for the one that touches.
KnockQuiet == KnockReceive \/ KnockFind \/ KnockRepair \/ KnockSender
                \/ KnockRebuildRead \/ KnockRebuildWrite

\* Repairing and rebuilding the index beside the lane.
LEMMA QuietInbox ==
  ASSUME Inv, TypeInv', KnockQuiet
  PROVE  Inv'
<1>1. Quiet /\ UNCHANGED laneVars
  BY DEF Quiet, KnockQuiet, KnockReceive, KnockFind, KnockRepair, KnockSender, KnockRebuildRead,
         KnockRebuildWrite, worldVars, laneVars
<1>2. Settled'
  BY <1>1, QuietSettled DEF laneVars
<1>3. Finder'
  BY <1>1 DEF Quiet, laneVars, Inv, Finder, LookupSound, NewcomerAbsent, IsPresent, IsIn
<1> QED
  BY <1>2, <1>3 DEF Inv, Settled

-----------------------------------------------------------------------------
(* Steps after which every avatar is one there was, removed or restamped    *)

\* T is made of avatars of S, perhaps restamped.
Traced(T, S) ==
    \A b \in T : \E a \in S : a.did = b.did /\ a.handle = b.handle /\ a.room = b.room

LEMMA TracedSound ==
  ASSUME NEW S, NEW T, Traced(T, S), NEW names, NEW rooms
  PROVE  /\ Registered(S, names) => Registered(T, names)
         /\ Housed(S, rooms) => Housed(T, rooms)
  BY DEF Traced, Registered, Housed

\* Such a step keeps the invariant, if what the lane knows of a DID that stays
\* remains true.
LEMMA TracedStep ==
  ASSUME Inv, TypeInv', Traced(avatars', avatars), Single(avatars'),
         UNCHANGED <<live, h2d, d2h, saved, draft>>,
         pc' \in Critical => pc' = pc /\ UNCHANGED <<job, grip>>,
         pc \in {"loadH2d", "loadD2h"} => pc' = pc,
         Finder'
  PROVE  Inv'
<1>1. OneAvatarPerDid' /\ SavedSound' /\ Saving' /\ Naming'
  BY DEF Inv, OneAvatarPerDid, SavedSound, Saving, Naming, Critical
<1>2. HandlesAgree'
  BY TracedSound DEF Inv, HandlesAgree, Critical
<1>3. Housing'
  BY TracedSound DEF Inv, Housing
<1>4. Loading'
  BY TracedSound DEF Inv, Loading, Critical
<1> QED
  BY <1>1, <1>2, <1>3, <1>4 DEF Inv

\* The ticker removes stale avatars while the lane is anywhere.
LEMMA SweepStep ==
  ASSUME Inv, TypeInv', PruneSweep
  PROVE  Inv'
<1>1. Traced(avatars', avatars) /\ Single(avatars')
  BY DEF PruneSweep, Traced, Inv, OneAvatarPerDid, Single
<1>2. Finder'
  <2>1. UNCHANGED <<pc, job, found>> /\ avatars' \subseteq avatars
    BY DEF PruneSweep, laneVars
  <2>2. IsPresent(job.did)' => IsPresent(job.did)
    BY <2>1 DEF IsPresent
  <2>3. ASSUME IsPresent(job.did)', IsIn(found, job.did) PROVE IsIn(found, job.did)'
    \* The one avatar of the DID is in the room found, and it has stayed.
    BY <2>1, <2>3 DEF IsPresent, IsIn, Inv, OneAvatarPerDid, Single
  <2> QED
    BY <2>1, <2>2, <2>3 DEF Inv, Finder, LookupSound, NewcomerAbsent
<1> QED
  BY <1>1, <1>2, TracedStep DEF PruneSweep, laneVars

LEMMA RemoveStep ==
  ASSUME Inv, TypeInv', Kick \/ Deny
  PROVE  Inv'
<1>1. Traced(avatars', avatars) /\ Single(avatars')
  BY DEF Kick, Deny, Traced, Inv, OneAvatarPerDid, Single
<1>2. pc = "command" /\ pc' \in {"idle", "rebuild"} /\ UNCHANGED <<live, h2d, d2h, saved, draft>>
  BY DEF Kick, Deny, Finish, Return, Continue
<1>3. Finder'
  BY <1>2 DEF Finder, LookupSound, NewcomerAbsent
<1> QED
  BY <1>1, <1>2, <1>3, TracedStep DEF Critical

\* Presence stamps go up and down: who is where stays the same.
SameButStamp(a, b) ==
    /\ b \in Avatar
    /\ a.did = b.did /\ a.handle = b.handle /\ a.room = b.room

\* One avatar replaced by a restamped copy.
LEMMA RestampOne ==
  ASSUME NEW S, NEW a \in S, NEW b, S \subseteq Avatar, Single(S), SameButStamp(a, b)
  PROVE  LET T == (S \ {a}) \cup {b}
         IN  Traced(T, S) /\ Traced(S, T) /\ Single(T)
  BY DEF Traced, Single, SameButStamp

LEMMA StampTraced ==
  ASSUME Inv, Touch \/ KnockTouch \/ GoStale \/ (Join /\ RefreshPresent)
  PROVE  Traced(avatars', avatars) /\ Single(avatars') /\ Traced(avatars, avatars')
<1>1. avatars \subseteq Avatar /\ Single(avatars)
  BY DEF Inv, TypeInv, TypeOK, OneAvatarPerDid
<1>2. ASSUME NEW r, NEW d, avatars' = Touched(r, d)
      PROVE  Traced(avatars', avatars) /\ Single(avatars') /\ Traced(avatars, avatars')
  <2> DEFINE Fresh(a) == IF a.room = r /\ a.did = d THEN [a EXCEPT !.stale = FALSE] ELSE a
  <2>1. avatars' = {Fresh(a) : a \in avatars}
    BY <1>2 DEF Touched
  <2>2. \A a \in avatars : SameButStamp(a, Fresh(a))
    BY <1>1 DEF SameButStamp, Avatar
  <2> HIDE DEF Fresh
  <2>3. Traced(avatars', avatars) /\ Traced(avatars, avatars')
    BY <2>1, <2>2 DEF Traced, SameButStamp
  <2>4. Single(avatars')
    <3> SUFFICES ASSUME NEW b \in avatars', NEW c \in avatars', b.did = c.did PROVE b = c
      BY DEF Single
    <3>1. PICK p \in avatars : b = Fresh(p)
      BY <2>1
    <3>2. PICK q \in avatars : c = Fresh(q)
      BY <2>1
    <3>3. p.did = q.did
      BY <3>1, <3>2, <2>2 DEF SameButStamp
    <3> QED
      BY <3>1, <3>2, <3>3, <1>1 DEF Single
  <2> QED
    BY <2>3, <2>4
<1>3. CASE GoStale
  <2>1. PICK a \in avatars : avatars' = (avatars \ {a}) \cup {[a EXCEPT !.stale = TRUE]}
    BY <1>3 DEF GoStale
  <2>2. SameButStamp(a, [a EXCEPT !.stale = TRUE])
    BY <1>1 DEF SameButStamp, Avatar
  <2> QED
    BY <1>1, <2>1, <2>2, RestampOne
<1>4. CASE Join /\ RefreshPresent
  <2>1. PICK a \in avatars : avatars' = (avatars \ {a}) \cup
                                {[a EXCEPT !.owner = job.owner, !.stale = FALSE]}
    BY <1>4 DEF RefreshPresent, At
  <2>2. job.owner \in Owners
    BY <1>4 DEF Join, Inv, TypeInv, Job
  <2>3. SameButStamp(a, [a EXCEPT !.owner = job.owner, !.stale = FALSE])
    BY <1>1, <2>2 DEF SameButStamp, Avatar
  <2> QED
    BY <1>1, <2>1, <2>3, RestampOne
<1> QED
  BY <1>2, <1>3, <1>4 DEF Touch, KnockTouch

LEMMA StampStep ==
  ASSUME Inv, TypeInv', Touch \/ KnockTouch \/ GoStale \/ (Join /\ RefreshPresent)
  PROVE  Inv'
<1>1. Traced(avatars', avatars) /\ Single(avatars') /\ Traced(avatars, avatars')
  BY StampTraced
<1>2. UNCHANGED <<live, h2d, d2h, saved, draft>>
  BY DEF Touch, KnockTouch, GoStale, Join, laneVars
<1>3. \A d : IsPresent(d)' => IsPresent(d)
  BY <1>1 DEF Traced, IsPresent
<1>4. \A r, d : IsIn(r, d) => IsIn(r, d)'
  BY <1>1 DEF Traced, IsIn
<1>5. CASE GoStale \/ KnockTouch
  <2>1. UNCHANGED laneVars
    BY <1>5 DEF GoStale, KnockTouch
  <2>2. Finder'
    BY <1>3, <1>4, <2>1 DEF Inv, Finder, LookupSound, NewcomerAbsent, laneVars
  <2> QED
    BY <1>1, <1>2, <2>1, <2>2, TracedStep DEF laneVars
<1>6. CASE Touch \/ (Join /\ RefreshPresent)
  <2>1. pc \notin Critical /\ pc' \in {"idle", "sender", "rebuild"}
    BY <1>6 DEF Touch, Join, RefreshPresent, Return, Continue, Critical
  <2>2. Finder'
    BY <1>3, <1>4, <1>6, <2>1
    DEF Inv, Finder, LookupSound, NewcomerAbsent, Touch, Join, RefreshPresent, Return, Continue
  <2> QED
    BY <1>1, <1>2, <2>1, <2>2, TracedStep DEF Critical
<1> QED
  BY <1>5, <1>6

-----------------------------------------------------------------------------
(* Steps that add an avatar to a room                                       *)

\* An avatar moves: it leaves the set and is added again in another room.
LEMMA MoveSound ==
  ASSUME Inv, pc \notin {"loadH2d", "loadD2h"},
         NEW a \in avatars, NEW b \in Avatar,
         b.did = a.did, b.handle = a.handle, b.room \in live
  PROVE  LET T == AddAvatar(avatars \ {a}, b)
         IN  Single(T) /\ Registered(T, d2h) /\ Housed(T, live)
<1>1. /\ avatars \subseteq Avatar /\ Single(avatars) /\ Registered(avatars, d2h)
      /\ Inverses(d2h, h2d) /\ Housed(avatars, live)
  BY DEF Inv, TypeInv, TypeOK, OneAvatarPerDid, HandlesAgree, Housing
<1>2. \A c \in avatars \ {a} : c.did # b.did
  BY <1>1 DEF Single
<1>3. Single(avatars \ {a}) /\ Registered(avatars \ {a}, d2h) /\ Housed(avatars \ {a}, live)
  BY <1>1 DEF Single, Registered, Housed
<1>4. d2h[b.did] = b.handle
  BY <1>1 DEF Registered
<1> QED
  BY <1>1, <1>2, <1>3, <1>4, AddSound

\* What a step that only gives the rooms other sound avatars has to show.
LEMMA GatherStep ==
  ASSUME Inv, TypeInv', Single(avatars'), Registered(avatars', d2h), Housed(avatars', live),
         UNCHANGED <<live, h2d, d2h, saved, draft>>,
         pc \notin {"loadH2d", "loadD2h"}, pc' = "rebuild"
  PROVE  Inv'
  BY DEF Inv, OneAvatarPerDid, HandlesAgree, Finder, LookupSound, NewcomerAbsent, SavedSound,
         Housing, Saving, Loading, Naming

LEMMA GoStep ==
  ASSUME Inv, TypeInv', Go
  PROVE  Inv'
<1>1. UNCHANGED <<live, h2d, d2h, saved, draft>> /\ pc = "command" /\ pc' = "rebuild"
  BY DEF Go, Continue
<1>2. CASE UNCHANGED avatars
  BY <1>1, <1>2, GatherStep DEF Inv, OneAvatarPerDid, HandlesAgree, Housing
<1>3. CASE ~ UNCHANGED avatars
  <2>1. PICK dest \in live, a \in At(found) :
          avatars' = AddAvatar(avatars \ {a}, [a EXCEPT !.room = dest])
    BY <1>3 DEF Go
  <2>2. a \in avatars /\ a \in Avatar /\ dest \in Rooms
    BY DEF At, Inv, TypeInv, TypeOK
  <2> DEFINE b == [a EXCEPT !.room = dest]
  <2>3. b \in Avatar /\ b.did = a.did /\ b.handle = a.handle /\ b.room \in live
    BY <2>2 DEF Avatar
  <2> HIDE DEF b
  <2>4. avatars' = AddAvatar(avatars \ {a}, b)
    BY <2>1 DEF b
  <2>5. Single(avatars') /\ Registered(avatars', d2h) /\ Housed(avatars', live)
    BY <1>1, <2>2, <2>3, <2>4, MoveSound
  <2> QED
    BY <1>1, <2>5, GatherStep
<1> QED
  BY <1>2, <1>3

LEMMA MoveInStep ==
  ASSUME Inv, TypeInv', Join, MoveIn
  PROVE  Inv'
<1>1. /\ UNCHANGED <<live, h2d, d2h, saved, draft>> /\ pc = "join" /\ pc' = "rebuild"
      /\ job.room \in live /\ job.owner \in Owners /\ job.room \in Rooms
  BY DEF Join, MoveIn, Continue, Admitted, Inv, TypeInv, Job
<1>2. PICK a \in At(found) : avatars' = AddAvatar(avatars \ {a},
              [a EXCEPT !.room = job.room, !.owner = job.owner, !.stale = FALSE])
  BY DEF MoveIn
<1>3. a \in avatars /\ a \in Avatar
  BY DEF At, Inv, TypeInv, TypeOK
<1> DEFINE b == [a EXCEPT !.room = job.room, !.owner = job.owner, !.stale = FALSE]
<1>4. b \in Avatar /\ b.did = a.did /\ b.handle = a.handle /\ b.room \in live
  BY <1>1, <1>3 DEF Avatar
<1> HIDE DEF b
<1>5. avatars' = AddAvatar(avatars \ {a}, b)
  BY <1>2 DEF b
<1>6. Single(avatars') /\ Registered(avatars', d2h) /\ Housed(avatars', live)
  BY <1>1, <1>3, <1>4, <1>5, MoveSound
<1> QED
  BY <1>1, <1>6, GatherStep

\* The newcomer is absent and its handle is registered, so it displaces nobody.
LEMMA AddStep ==
  ASSUME Inv, TypeInv', Add
  PROVE  Inv'
<1>1. UNCHANGED <<live, h2d, d2h, saved, draft>> /\ pc = "add"
  BY DEF Add
<1>2. CASE job.room \notin live
  <2>1. Quiet /\ pc' = "idle"
    BY <1>2 DEF Add, Quiet, Return
  <2>2. Settled'
    BY <1>1, <2>1, QuietSettled DEF Critical
  <2> QED
    BY <2>1, <2>2 DEF Inv, Settled, Finder, LookupSound, NewcomerAbsent
<1>3. CASE job.room \in live
  <2>1. avatars' = AddAvatar(avatars, Newcomer) /\ pc' = "rebuild"
    BY <1>3 DEF Add, Continue
  <2>2. Newcomer \in Avatar /\ Newcomer.did = job.did /\ Newcomer.room \in live
        /\ Newcomer.handle = grip
    BY <1>1, <1>3 DEF Newcomer, Avatar, Job, Inv, TypeInv
  <2>3. /\ avatars \subseteq Avatar /\ Single(avatars) /\ Registered(avatars, d2h)
        /\ Inverses(d2h, h2d) /\ Housed(avatars, live)
    BY <1>1 DEF Inv, TypeInv, TypeOK, OneAvatarPerDid, HandlesAgree, Housing
  <2>4. \A c \in avatars : c.did # Newcomer.did
    BY <1>1, <2>2 DEF Inv, Finder, NewcomerAbsent, IsPresent
  <2>5. d2h[Newcomer.did] = Newcomer.handle
    BY <1>1, <2>2 DEF Inv, Naming
  <2>6. Single(avatars') /\ Registered(avatars', d2h) /\ Housed(avatars', live)
    BY <2>1, <2>2, <2>3, <2>4, <2>5, AddSound
  <2> QED
    BY <1>1, <2>1, <2>6, GatherStep
<1> QED
  BY <1>2, <1>3

-----------------------------------------------------------------------------
(* The handle registry, new rooms, saving and loading                       *)

\* The whole DID is a handle nobody else can have, so an assigned handle is
\* free or already its own.
LEMMA FreeHandleFree ==
  ASSUME Inv, pc = "register", NEW d \in Dids, d2h[d] = None
  PROVE  /\ FreeHandle(d) \in {FragmentHandle[d], DidHandle[d]}
         /\ FreeHandle(d) \in Handles
         /\ h2d[FreeHandle(d)] = None
<1>1. Inverses(d2h, h2d) /\ Proper(d2h) /\ h2d \in HandleToDid /\ d2h \in DidToHandle
  BY DEF Inv, HandlesAgree, TypeInv, TypeOK
<1>2. FragmentHandle[d] \in Handles /\ DidHandle[d] \in Handles
  BY HandleAssumption
<1>3. \A h \in Handles : h2d[h] # d
  BY <1>1, NoneAssumption DEF Inverses, HandleToDid
<1>4. ASSUME h2d[DidHandle[d]] # None PROVE FALSE
  <2> DEFINE e == h2d[DidHandle[d]]
  <2>1. e \in Dids /\ d2h[e] = DidHandle[d]
    BY <1>1, <1>2, <1>4 DEF Inverses, HandleToDid
  <2>2. e = d
    BY <2>1, <1>1, <1>2, HandleAssumption, NoneAssumption DEF Proper
  <2> QED
    BY <1>2, <1>3, <2>2
<1> QED
  BY <1>1, <1>2, <1>3, <1>4 DEF FreeHandle, HandleToDid

LEMMA RegisterStep ==
  ASSUME Inv, TypeInv', Register
  PROVE  Inv'
<1>1. /\ UNCHANGED <<live, avatars, saved, draft, job>> /\ pc = "register" /\ pc' = "add"
      /\ job.did \in Dids /\ grip' = AssignedHandle(job.did)
  BY DEF Register, Inv, TypeInv, Job
<1>2. OneAvatarPerDid' /\ Finder' /\ SavedSound' /\ Housing' /\ Saving' /\ Loading'
  BY <1>1 DEF Inv, OneAvatarPerDid, Finder, LookupSound, NewcomerAbsent, IsPresent, SavedSound,
              Housing, Saving, Loading
<1>3. /\ Registered(avatars, d2h) /\ Inverses(d2h, h2d) /\ Proper(d2h)
      /\ h2d \in HandleToDid /\ d2h \in DidToHandle /\ avatars \subseteq Avatar
      /\ \A a \in avatars : a.did # job.did
  BY <1>1 DEF Inv, HandlesAgree, TypeInv, TypeOK, Finder, NewcomerAbsent, IsPresent
<1>4. CASE d2h[job.did] # None
  BY <1>1, <1>2, <1>3, <1>4 DEF Register, Inv, HandlesAgree, Naming, AssignedHandle
<1>5. CASE d2h[job.did] = None
  <2> DEFINE h == FreeHandle(job.did)
  <2>1. h \in {FragmentHandle[job.did], DidHandle[job.did]} /\ h \in Handles /\ h2d[h] = None
    BY <1>1, <1>5, FreeHandleFree
  <2>2. grip' = h /\ h2d' = [h2d EXCEPT ![h] = job.did] /\ d2h' = [d2h EXCEPT ![job.did] = h]
    BY <1>1, <1>5 DEF Register, AssignedHandle
  <2> HIDE DEF h
  <2>3. \A d \in Dids : d2h'[d] = IF d = job.did THEN h ELSE d2h[d]
    BY <1>3, <2>2 DEF DidToHandle
  <2>4. \A k \in Handles : h2d'[k] = IF k = h THEN job.did ELSE h2d[k]
    BY <1>3, <2>2 DEF HandleToDid
  <2>5. \A d \in Dids : d2h[d] # None => d2h[d] \in Handles
    BY <1>3 DEF DidToHandle
  <2>6. Inverses(d2h', h2d')
    <3>1. ASSUME NEW d \in Dids, d2h'[d] # None PROVE h2d'[d2h'[d]] = d
      BY <1>1, <1>3, <2>1, <2>3, <2>4, <2>5, <3>1, NoneAssumption DEF Inverses
    <3>2. ASSUME NEW k \in Handles, h2d'[k] # None PROVE d2h'[h2d'[k]] = k
      <4>1. CASE k = h
        BY <1>1, <2>1, <2>3, <2>4, <4>1
      <4>2. CASE k # h
        <5>1. h2d[k] \in Dids /\ d2h[h2d[k]] = k /\ h2d'[k] = h2d[k]
          BY <1>3, <2>4, <3>2, <4>2 DEF Inverses, HandleToDid
        <5>2. h2d[k] # job.did
          BY <1>5, <5>1, NoneAssumption
        <5> QED
          BY <2>3, <5>1, <5>2
      <4> QED
        BY <4>1, <4>2
    <3> QED
      BY <3>1, <3>2 DEF Inverses
  <2>7. Proper(d2h') /\ Registered(avatars', d2h') /\ Naming'
    BY <1>1, <1>3, <2>1, <2>2, <2>3 DEF Proper, Registered, Avatar, Naming
  <2> QED
    BY <1>2, <2>6, <2>7 DEF Inv, HandlesAgree
<1> QED
  BY <1>4, <1>5

LEMMA DigStep ==
  ASSUME Inv, TypeInv', Dig
  PROVE  Inv'
<1>1. /\ UNCHANGED <<avatars, h2d, d2h, saved, draft>> /\ live \subseteq live'
      /\ pc = "command" /\ pc' \in {"idle", "rebuild"}
  BY DEF Dig, Finish, Return, Continue
<1> QED
  BY <1>1 DEF Inv, OneAvatarPerDid, HandlesAgree, Finder, LookupSound, NewcomerAbsent, SavedSound,
              Housing, Housed, Saving, Loading, Naming

\* What is written is sound, because only the lane changes the registry.
LEMMA SaveStep ==
  ASSUME Inv, TypeInv', Save \/ SaveH2d \/ SaveD2h
  PROVE  Inv'
<1>1. UNCHANGED <<live, avatars, h2d, d2h>> /\ pc \in {"command", "saveH2d", "saveD2h"}
      /\ pc' \in {"saveH2d", "saveD2h", "rebuild"}
  BY DEF Save, SaveH2d, SaveD2h, Continue, worldVars
<1>2. OneAvatarPerDid' /\ HandlesAgree' /\ Finder' /\ Housing' /\ Loading' /\ Naming'
  BY <1>1 DEF Inv, OneAvatarPerDid, HandlesAgree, Finder, LookupSound, NewcomerAbsent,
              Housing, Loading, Naming
<1>3. SavedSound' /\ Saving'
  <2>1. CASE Save
    BY <2>1 DEF Save, Continue, worldVars, EmptyDraft, Inv, SavedSound, Saving, OneAvatarPerDid,
                Housing, HandlesAgree
  <2>2. CASE SaveH2d
    BY <2>2 DEF SaveH2d, Continue, worldVars, Inv, TypeInv, TypeOK, StateDoc, SavedSound, Saving
  <2>3. CASE SaveD2h
    <3>1. pc = "saveD2h" /\ saved' = [draft EXCEPT !.d2h = d2h] /\ pc' = "rebuild"
      BY <2>3 DEF SaveD2h, Continue
    <3>2. draft \in StateDoc /\ d2h \in DidToHandle
      BY DEF Inv, TypeInv, TypeOK
    <3>3. /\ saved' \in StateDoc /\ saved'.live = draft.live /\ saved'.avatars = draft.avatars
          /\ saved'.h2d = draft.h2d /\ saved'.d2h = d2h
      BY <3>1, <3>2 DEF StateDoc
    <3>4. Registered(draft.avatars, d2h) /\ Inverses(d2h, draft.h2d) /\ Proper(d2h)
      BY <3>1 DEF Inv, Saving, HandlesAgree
    <3>5. Lobby \in draft.live /\ Single(draft.avatars) /\ Housed(draft.avatars, draft.live)
      BY <3>1 DEF Inv, Saving
    <3>6. SoundDoc(saved')
      BY <3>3, <3>4, <3>5 DEF SoundDoc
    <3> QED
      BY <3>1, <3>6 DEF SavedSound, Saving
  <2> QED
    BY <2>1, <2>2, <2>3
<1> QED
  BY <1>2, <1>3 DEF Inv

\* Restoring avatars loses nothing but their age.
LEMMA RestoredSound ==
  ASSUME NEW doc, SoundDoc(doc)
  PROVE  LET T == Restored(doc.avatars)
         IN  Single(T) /\ Registered(T, doc.d2h) /\ Housed(T, doc.live)
<1> DEFINE Fresh(a) == [a EXCEPT !.stale = FALSE]
           T == Restored(doc.avatars)
<1>1. doc.avatars \subseteq Avatar
  BY DEF SoundDoc, StateDoc
<1>2. \A a \in doc.avatars : SameButStamp(a, Fresh(a))
  BY <1>1 DEF SameButStamp, Avatar
<1>3. T = {Fresh(a) : a \in doc.avatars}
  BY DEF Restored
<1> HIDE DEF Fresh, T
<1>4. Traced(T, doc.avatars)
  BY <1>2, <1>3 DEF Traced, SameButStamp
<1>5. Single(T)
  <2> SUFFICES ASSUME NEW b \in T, NEW c \in T, b.did = c.did PROVE b = c
    BY DEF Single
  <2>1. PICK p \in doc.avatars : b = Fresh(p)
    BY <1>3
  <2>2. PICK q \in doc.avatars : c = Fresh(q)
    BY <1>3
  <2>3. p.did = q.did
    BY <2>1, <2>2, <1>2 DEF SameButStamp
  <2> QED
    BY <2>1, <2>2, <2>3 DEF SoundDoc, Single
<1>6. Registered(T, doc.d2h) /\ Housed(T, doc.live)
  <2>1. Registered(doc.avatars, doc.d2h) /\ Housed(doc.avatars, doc.live)
    BY DEF SoundDoc
  <2> QED
    BY <1>4, <2>1, TracedSound
<1> QED
  BY <1>5, <1>6 DEF T

LEMMA LoadStep ==
  ASSUME Inv, TypeInv', LoadRooms \/ LoadH2d \/ LoadD2h
  PROVE  Inv'
<1>1. CASE LoadRooms
  <2>1. PICK doc \in Archive \cup ({saved} \ {None}) :
          /\ live' = doc.live
          /\ avatars' = Restored(doc.avatars)
          /\ draft' = doc
    BY <1>1 DEF LoadRooms
  <2>2. SoundDoc(doc)
    BY ArchiveAssumption DEF Inv, SavedSound
  <2>3. Single(avatars') /\ Registered(avatars', doc.d2h) /\ Housed(avatars', live')
    BY <2>1, <2>2, RestoredSound
  <2>4. Lobby \in live'
    BY <2>1, <2>2 DEF SoundDoc
  <2>5. pc' = "loadH2d" /\ UNCHANGED <<h2d, d2h, saved>>
    BY <1>1 DEF LoadRooms, Continue
  <2> QED
    BY <2>1, <2>2, <2>3, <2>4, <2>5
    DEF Inv, OneAvatarPerDid, HandlesAgree, Finder, LookupSound, NewcomerAbsent, SavedSound,
        Housing, Saving, Loading, Naming
<1>2. CASE LoadH2d
  BY <1>2 DEF LoadH2d, Continue, Inv, OneAvatarPerDid, HandlesAgree, Finder, LookupSound,
              NewcomerAbsent, SavedSound, Housing, Saving, Loading, Naming
<1>3. CASE LoadD2h
  BY <1>3 DEF LoadD2h, Continue, Inv, OneAvatarPerDid, HandlesAgree, Finder, LookupSound,
              NewcomerAbsent, SavedSound, Housing, Saving, Loading, Naming, SoundDoc
<1> QED
  BY <1>1, <1>2, <1>3

-----------------------------------------------------------------------------
(* The theorems                                                             *)

LEMMA InvStep == Inv /\ [Next]_vars => Inv'
<1> SUFFICES ASSUME Inv, [Next]_vars PROVE Inv'
  OBVIOUS
<1>1. TypeInv'
  BY TypeStep DEF Inv
<1>2. CASE Receive \/ CheckEntry \/ Lookup
  BY <1>1, <1>2, QuietEnter
<1>3. CASE Join
  <2>1. CASE JoinRefused \/ BeginRegister
    BY <1>1, <1>3, <2>1, QuietEnter
  <2>2. CASE MoveIn
    BY <1>1, <1>3, <2>2, MoveInStep
  <2>3. CASE RefreshPresent
    BY <1>1, <1>3, <2>3, StampStep
  <2> QED
    BY <1>3, <2>1, <2>2, <2>3 DEF Join
<1>4. CASE Register
  BY <1>1, <1>4, RegisterStep
<1>5. CASE Add
  BY <1>1, <1>5, AddStep
<1>6. CASE Rebuild \/ CheckSender \/ Say \/ SetAcl \/ PruneRead \/ PruneWrite
  BY <1>1, <1>6, QuietRest
<1>7. CASE Touch \/ KnockTouch \/ GoStale
  BY <1>1, <1>7, StampStep
<1>8. CASE Go
  BY <1>1, <1>8, GoStep
<1>9. CASE Kick \/ Deny
  BY <1>1, <1>9, RemoveStep
<1>10. CASE Dig
  BY <1>1, <1>10, DigStep
<1>11. CASE Save \/ SaveH2d \/ SaveD2h
  BY <1>1, <1>11, SaveStep
<1>12. CASE LoadRooms \/ LoadH2d \/ LoadD2h
  BY <1>1, <1>12, LoadStep
<1>13. CASE PruneSweep
  BY <1>1, <1>13, SweepStep
<1>14. CASE KnockQuiet
  BY <1>1, <1>14, QuietInbox
<1>15. CASE UNCHANGED vars
  <2>1. UNCHANGED <<live, avatars, h2d, d2h, saved, draft, pc, job, found, grip>>
    BY <1>15 DEF vars
  <2> QED
    BY <1>1, <2>1 DEF Inv, OneAvatarPerDid, HandlesAgree, Finder, LookupSound, NewcomerAbsent,
        IsPresent, IsIn, SavedSound, Housing, Saving, Loading, Naming
<1> QED
  BY <1>2, <1>3, <1>4, <1>5, <1>6, <1>7, <1>8, <1>9, <1>10, <1>11, <1>12, <1>13, <1>14, <1>15
  DEF Next, Lane, Enter, Command, SaveLoad, Prune, InboxLane, KnockQuiet

\* Inv holds in every reachable state.
THEOREM InvAlways == Spec => []Inv
<1>1. Init => Inv
  BY InvInit
<1>2. Inv /\ [Next]_vars => Inv'
  BY InvStep
<1> QED
  BY <1>1, <1>2, PTL DEF Spec

\* A DID never has two avatars, for any number of owners, DIDs and rooms and
\* however the ticker's sweeps and the inbox lane's steps fall between the
\* avatar lane's.
THEOREM UniqueMembership == Spec => []OneAvatarPerDid
<1>1. Inv => OneAvatarPerDid
  BY DEF Inv
<1> QED
  BY <1>1, InvAlways, PTL

\* The handle registry and the rooms agree except in the middle of a load.
THEOREM HandlesAlwaysAgree == Spec => []HandlesAgree
<1>1. Inv => HandlesAgree
  BY DEF Inv
<1> QED
  BY <1>1, InvAlways, PTL

\* A stale index never makes a lookup miss an avatar that is present.
THEOREM LookupAlwaysSound == Spec => []LookupSound
<1>1. Inv => LookupSound
  BY DEF Inv, Finder
<1> QED
  BY <1>1, InvAlways, PTL

\* Whoever is being registered and added is still absent.
THEOREM NewcomerAlwaysAbsent == Spec => []NewcomerAbsent
<1>1. Inv => NewcomerAbsent
  BY DEF Inv, Finder
<1> QED
  BY <1>1, InvAlways, PTL

\* What the lane saves is a sound state, although it is collected piecemeal.
THEOREM SavedAlwaysSound == Spec => []SavedSound
<1>1. Inv => SavedSound
  BY DEF Inv
<1> QED
  BY <1>1, InvAlways, PTL

-----------------------------------------------------------------------------
(* Nobody is displaced                                                      *)

\* A step after which every DID that was present still is.
LEMMA KeptStep ==
  ASSUME \A a \in avatars : \E b \in avatars' : b.did = a.did
  PROVE  NobodyDisplaced
  BY DEF NobodyDisplaced

\* Adding keeps those who were there, the newcomer's handle being its own.
LEMMA AddKeeps ==
  ASSUME Inv, Add
  PROVE  NobodyDisplaced
<1>1. CASE job.room \notin live
  BY <1>1, KeptStep DEF Add
<1>2. CASE job.room \in live
  <2>1. pc = "add" /\ avatars' = AddAvatar(avatars, Newcomer)
    BY <1>2 DEF Add
  <2>2. Newcomer \in Avatar /\ Newcomer.did = job.did /\ Newcomer.room \in live
        /\ Newcomer.handle = grip
    BY <1>2, <2>1 DEF Newcomer, Avatar, Job, Inv, TypeInv
  <2>3. /\ avatars \subseteq Avatar /\ Single(avatars) /\ Registered(avatars, d2h)
        /\ Inverses(d2h, h2d) /\ Housed(avatars, live)
    BY <2>1 DEF Inv, TypeInv, TypeOK, OneAvatarPerDid, HandlesAgree, Housing
  <2>4. \A c \in avatars : c.did # Newcomer.did
    BY <2>1, <2>2 DEF Inv, Finder, NewcomerAbsent, IsPresent
  <2>5. d2h[Newcomer.did] = Newcomer.handle
    BY <2>1, <2>2 DEF Inv, Naming
  <2>6. AddAvatar(avatars, Newcomer) = avatars \cup {Newcomer}
    BY <2>2, <2>3, <2>4, <2>5, AddSound
  <2> QED
    BY <2>1, <2>6, KeptStep
<1> QED
  BY <1>1, <1>2

\* A move keeps those who were there, in the destination too.
LEMMA MoveKeeps ==
  ASSUME Inv, pc \notin {"loadH2d", "loadD2h"},
         NEW a \in avatars, NEW b \in Avatar,
         b.did = a.did, b.handle = a.handle, b.room \in live,
         avatars' = AddAvatar(avatars \ {a}, b)
  PROVE  NobodyDisplaced
<1>1. /\ avatars \subseteq Avatar /\ Single(avatars) /\ Registered(avatars, d2h)
      /\ Inverses(d2h, h2d) /\ Housed(avatars, live)
  BY DEF Inv, TypeInv, TypeOK, OneAvatarPerDid, HandlesAgree, Housing
<1>2. /\ \A c \in avatars \ {a} : c.did # b.did
      /\ Single(avatars \ {a}) /\ Registered(avatars \ {a}, d2h) /\ Housed(avatars \ {a}, live)
      /\ d2h[b.did] = b.handle
  BY <1>1 DEF Single, Registered, Housed
<1>3. AddAvatar(avatars \ {a}, b) = (avatars \ {a}) \cup {b}
  BY <1>1, <1>2, AddSound
<1> QED
  BY <1>3, KeptStep

LEMMA NobodyDisplacedStep ==
  ASSUME Inv, [Next]_vars
  PROVE  NobodyDisplaced
<1>1. CASE UNCHANGED avatars
  BY <1>1, KeptStep
<1>2. CASE Touch \/ KnockTouch \/ GoStale \/ (Join /\ RefreshPresent)
  <2>1. Traced(avatars, avatars')
    BY <1>2, StampTraced
  <2> QED
    BY <2>1, KeptStep DEF Traced
<1>3. CASE Add
  BY <1>3, AddKeeps
<1>4. CASE Join /\ MoveIn
  <2>1. job.room \in live /\ job.owner \in Owners /\ job.room \in Rooms /\ pc = "join"
    BY <1>4 DEF Join, MoveIn, Admitted, Inv, TypeInv, Job
  <2>2. PICK a \in At(found) : avatars' = AddAvatar(avatars \ {a},
                [a EXCEPT !.room = job.room, !.owner = job.owner, !.stale = FALSE])
    BY <1>4 DEF MoveIn
  <2>3. a \in avatars /\ a \in Avatar
    BY DEF At, Inv, TypeInv, TypeOK
  <2> DEFINE b == [a EXCEPT !.room = job.room, !.owner = job.owner, !.stale = FALSE]
  <2>4. b \in Avatar /\ b.did = a.did /\ b.handle = a.handle /\ b.room \in live
    BY <2>1, <2>3 DEF Avatar
  <2> HIDE DEF b
  <2>5. avatars' = AddAvatar(avatars \ {a}, b)
    BY <2>2 DEF b
  <2> QED
    BY <2>1, <2>3, <2>4, <2>5, MoveKeeps
<1>5. CASE Go /\ ~ UNCHANGED avatars
  <2>1. PICK dest \in live, a \in At(found) :
          avatars' = AddAvatar(avatars \ {a}, [a EXCEPT !.room = dest])
    BY <1>5 DEF Go
  <2>2. a \in avatars /\ a \in Avatar /\ dest \in Rooms /\ pc = "command"
    BY <1>5 DEF Go, At, Inv, TypeInv, TypeOK
  <2> DEFINE b == [a EXCEPT !.room = dest]
  <2>3. b \in Avatar /\ b.did = a.did /\ b.handle = a.handle /\ b.room \in live
    BY <2>2 DEF Avatar
  <2> HIDE DEF b
  <2>4. avatars' = AddAvatar(avatars \ {a}, b)
    BY <2>1 DEF b
  <2> QED
    BY <2>2, <2>3, <2>4, MoveKeeps
<1>6. CASE Kick \/ Deny
  BY <1>6 DEF Kick, Deny, NobodyDisplaced, Expelling
<1>7. CASE LoadRooms
  BY <1>7 DEF LoadRooms, Continue, NobodyDisplaced, Expelling
<1>8. CASE PruneSweep
  BY <1>8 DEF PruneSweep, NobodyDisplaced
<1> QED
  BY <1>1, <1>2, <1>3, <1>4, <1>5, <1>6, <1>7, <1>8
  DEF Next, Lane, Receive, Enter, CheckEntry, Join, JoinRefused, BeginRegister, Register, Lookup,
      LookupIndex, LookupValidate, LookupScan, LookupRepair, Rebuild, RebuildRead, RebuildWrite,
      CheckSender, Command, Say, SetAcl, Dig, SaveLoad, Save, SaveH2d, SaveD2h, LoadH2d, LoadD2h,
      Prune, PruneRead, PruneWrite, InboxLane, KnockReceive, KnockFind, KnockRepair, KnockSender,
      KnockRebuildRead, KnockRebuildWrite, worldVars, vars

\* An avatar leaves the world because it is stale, or is expelled or replaced
\* by a load, and never because another one takes its handle.
THEOREM NobodyIsEvicted == Spec => NoEviction
<1>1. Inv /\ [Next]_vars => [NobodyDisplaced]_vars
  BY NobodyDisplacedStep
<1> QED
  BY <1>1, InvAlways, PTL DEF Spec, NoEviction

-----------------------------------------------------------------------------
(* Handles are for life                                                     *)

\* An avatar of a DID that stays goes by the same handle.
SameHandles ==
    \A a \in avatars, b \in avatars' : a.did = b.did => a.handle = b.handle

\* The registry only grows.
RegistryGrows == \A d \in Dids : d2h[d] # None => d2h'[d] = d2h[d]

\* Only a registration changes the registry, outside of loads, and only for a
\* DID that had no handle.
LEMMA RegistryStep ==
  ASSUME Inv, [Next]_vars, pc # "loadD2h"
  PROVE  RegistryGrows
<1>1. CASE UNCHANGED d2h
  BY <1>1 DEF RegistryGrows
<1>2. CASE Register
  <2>1. d2h \in DidToHandle
    BY DEF Inv, TypeInv, TypeOK
  <2> QED
    BY <1>2, <2>1 DEF Register, RegistryGrows, DidToHandle
<1> QED
  BY <1>1, <1>2
  DEF Next, Lane, Receive, Enter, CheckEntry, Join, Add, Lookup, LookupIndex, LookupValidate,
      LookupScan, LookupRepair, Rebuild, RebuildRead, RebuildWrite, Touch, CheckSender, Command, Say,
      Go, Kick, Deny, SetAcl, Dig, SaveLoad, Save, SaveH2d, SaveD2h, LoadRooms, LoadH2d, LoadD2h,
      Prune, PruneSweep, PruneRead, PruneWrite, GoStale, InboxLane, KnockReceive, KnockFind,
      KnockRepair, KnockTouch, KnockSender, KnockRebuildRead, KnockRebuildWrite, worldVars, vars

\* What the lane does in the middle of a load: the rooms stay as they are until
\* both maps are installed.
LEMMA LoadingStep ==
  ASSUME Inv, [Next]_vars, pc \in {"loadH2d", "loadD2h"}
  PROVE  UNCHANGED avatars \/ (UNCHANGED draft /\ pc' = pc)
<1> USE DEF worldVars, laneVars
<1>1. CASE Lane
  BY <1>1
  DEF Lane, Receive, Enter, CheckEntry, Join, Register, Add, Lookup, LookupIndex, LookupValidate,
      LookupScan, LookupRepair, Rebuild, RebuildRead, RebuildWrite, Touch, CheckSender, Command, Say,
      Go, Kick, Deny, SetAcl, Dig, SaveLoad, Save, SaveH2d, SaveD2h, LoadRooms, LoadH2d, LoadD2h
<1>2. CASE InboxLane \/ Prune \/ GoStale
  BY <1>2
  DEF Prune, PruneSweep, PruneRead, PruneWrite, GoStale, InboxLane, KnockReceive, KnockFind,
      KnockRepair, KnockTouch, KnockSender, KnockRebuildRead, KnockRebuildWrite
<1>3. CASE UNCHANGED vars
  BY <1>3 DEF vars
<1> QED
  BY <1>1, <1>2, <1>3 DEF Next

\* A load begins with the rooms.
LEMMA LoadBegins ==
  ASSUME Inv, [Next]_vars, pc \notin {"loadH2d", "loadD2h"}, pc' \in {"loadH2d", "loadD2h"}
  PROVE  pc = "command" /\ pc' = "loadH2d"
<1> USE DEF Return, Continue, Finish, laneVars
<1>1. CASE Lane
  BY <1>1
  DEF Lane, Receive, Enter, CheckEntry, Join, JoinRefused, MoveIn, RefreshPresent, BeginRegister,
      Register, Add, Lookup, LookupIndex, LookupValidate, LookupScan, LookupRepair, Located, Rebuild,
      RebuildRead, RebuildWrite, Touch, CheckSender, Command, Say, Go, Kick, Deny, SetAcl, Dig,
      SaveLoad, Save, SaveH2d, SaveD2h, LoadRooms, LoadH2d, LoadD2h
<1>2. CASE InboxLane \/ Prune \/ GoStale
  BY <1>2
  DEF Prune, PruneSweep, PruneRead, PruneWrite, GoStale, InboxLane, KnockReceive, KnockFind,
      KnockRepair, KnockTouch, KnockSender, KnockRebuildRead, KnockRebuildWrite
<1>3. CASE UNCHANGED vars
  BY <1>3 DEF vars
<1> QED
  BY <1>1, <1>2, <1>3 DEF Next

\* Two avatars that are named by one registry, or by one that has grown, go by
\* one handle if they are of one DID.
LEMMA NamedAlike ==
  ASSUME NEW S, NEW T, NEW names, NEW later, S \subseteq Avatar,
         Registered(S, names), Registered(T, later),
         \A d \in Dids : names[d] # None => later[d] = names[d]
  PROVE  \A a \in S, b \in T : a.did = b.did => a.handle = b.handle
  BY NoneAssumption DEF Registered, Avatar

LEMMA SameHandlesStep ==
  ASSUME Inv, [Next]_vars, ~ (pc = "command" /\ pc' = "loadH2d")
  PROVE  SameHandles
<1>1. Inv' /\ avatars \subseteq Avatar
  BY InvStep DEF Inv, TypeInv, TypeOK
<1>2. CASE pc \in {"loadH2d", "loadD2h"}
  <2>1. CASE UNCHANGED avatars
    BY <2>1 DEF SameHandles, Inv, OneAvatarPerDid, Single
  <2>2. CASE UNCHANGED draft /\ pc' = pc
    <3>1. Registered(avatars, draft.d2h) /\ Registered(avatars', draft.d2h)
      BY <1>1, <1>2, <2>2 DEF Inv, Loading
    <3> QED
      BY <1>1, <3>1, NamedAlike DEF SameHandles
  <2> QED
    BY <1>2, <2>1, <2>2, LoadingStep
<1>3. CASE pc \notin {"loadH2d", "loadD2h"}
  <2>1. pc' \notin {"loadH2d", "loadD2h"}
    BY <1>3, LoadBegins
  <2>2. Registered(avatars, d2h) /\ Registered(avatars', d2h')
    BY <1>1, <1>3, <2>1 DEF Inv, HandlesAgree
  <2>3. \A d \in Dids : d2h[d] # None => d2h'[d] = d2h[d]
    BY <1>3, RegistryStep DEF RegistryGrows
  <2> QED
    BY <1>1, <2>2, <2>3, NamedAlike DEF SameHandles
<1> QED
  BY <1>2, <1>3

\* Whoever leaves, is pruned, moves, saves and enters again is called what it
\* was called: handles, and the names of those present, change by a load only.
THEOREM HandlesAreForLife == Spec => HandleForLife
<1>1. Inv /\ [Next]_vars =>
        [/\ pc # "command" \/ pc' # "loadH2d" =>
                \A a \in avatars, b \in avatars' : a.did = b.did => a.handle = b.handle
         /\ pc # "loadD2h" => \A d \in Dids : d2h[d] # None => d2h'[d] = d2h[d]]_vars
  BY SameHandlesStep, RegistryStep DEF SameHandles, RegistryGrows
<1> QED
  BY <1>1, InvAlways, PTL DEF Spec, HandleForLife

-----------------------------------------------------------------------------
(* Entering asks the room                                                   *)

\* The entry that has been admitted still is when its avatar is added: rights
\* are changed by the lane's own commands only, and by loads.
StillAdmitted == pc \in {"register", "add"} => <<job.room, job.did>> \notin barred

LEMMA StillAdmittedStep ==
  ASSUME StillAdmitted, [Next]_vars
  PROVE  StillAdmitted'
<1> USE DEF StillAdmitted, Return, Continue, Finish, worldVars, laneVars
<1>1. CASE Join
  BY <1>1 DEF Join, JoinRefused, MoveIn, RefreshPresent, BeginRegister, Admitted
<1>2. CASE Lane /\ ~ Join
  BY <1>2
  DEF Lane, Receive, Enter, CheckEntry, Register, Add, Lookup, LookupIndex, LookupValidate,
      LookupScan, LookupRepair, Located, Rebuild, RebuildRead, RebuildWrite, Touch, CheckSender,
      Command, Say, Go, Kick, Deny, SetAcl, Dig, SaveLoad, Save, SaveH2d, SaveD2h, LoadRooms,
      LoadH2d, LoadD2h
<1>3. CASE InboxLane \/ Prune \/ GoStale
  <2>1. UNCHANGED <<pc, job, barred>>
    BY <1>3
    DEF Prune, PruneSweep, PruneRead, PruneWrite, GoStale, InboxLane, KnockReceive, KnockFind,
        KnockRepair, KnockTouch, KnockSender, KnockRebuildRead, KnockRebuildWrite
  <2> QED
    BY <2>1
<1>4. CASE UNCHANGED vars
  BY <1>4 DEF vars
<1> QED
  BY <1>1, <1>2, <1>3, <1>4 DEF Next

\* Whoever is in a room that refuses its DID was in it before.
Respected == \A b \in avatars' : <<b.room, b.did>> \in barred' => IsIn(b.room, b.did)

LEMMA RespectedStep ==
  ASSUME Inv, StillAdmitted, [Next]_vars, pc # "command"
  PROVE  Respected
<1>1. CASE Traced(avatars', avatars)
  BY <1>1 DEF Traced, Respected, IsIn
<1>2. CASE Touch \/ KnockTouch \/ GoStale \/ (Join /\ RefreshPresent)
  BY <1>1, <1>2, StampTraced
<1>3. CASE Join /\ MoveIn
  <2>1. PICK a \in avatars : avatars' = AddAvatar(avatars \ {a},
                [a EXCEPT !.room = job.room, !.owner = job.owner, !.stale = FALSE]) /\ a.did = job.did
    BY <1>3 DEF MoveIn, At
  <2>2. a \in Avatar /\ <<job.room, job.did>> \notin barred /\ barred' = barred
    BY <1>3 DEF Join, MoveIn, Admitted, Inv, TypeInv, TypeOK
  <2> DEFINE b == [a EXCEPT !.room = job.room, !.owner = job.owner, !.stale = FALSE]
  <2>3. b.room = job.room /\ b.did = job.did
    BY <2>1, <2>2 DEF Avatar
  <2> HIDE DEF b
  <2>4. avatars' \subseteq avatars \cup {b}
    BY <2>1 DEF AddAvatar, b
  <2> QED
    BY <2>2, <2>3, <2>4 DEF Respected, IsIn
<1>4. CASE Add
  <2>1. avatars' \subseteq avatars \cup {Newcomer} /\ barred' = barred
    BY <1>4 DEF Add, AddAvatar
  <2>2. <<Newcomer.room, Newcomer.did>> \notin barred
    BY <1>4 DEF Add, Newcomer, StillAdmitted
  <2> QED
    BY <2>1, <2>2 DEF Respected, IsIn
<1>5. CASE UNCHANGED avatars \/ PruneSweep
  BY <1>1, <1>5 DEF Traced, PruneSweep
<1> QED
  BY <1>2, <1>3, <1>4, <1>5
  DEF Next, Lane, Receive, Enter, CheckEntry, Join, JoinRefused, BeginRegister, Register, Lookup,
      LookupIndex, LookupValidate, LookupScan, LookupRepair, Rebuild, RebuildRead, RebuildWrite,
      CheckSender, Command, Say, Go, Kick, Deny, SetAcl, Dig, SaveLoad, Save, SaveH2d, SaveD2h,
      LoadRooms, LoadH2d, LoadD2h, Prune, PruneRead, PruneWrite, InboxLane, KnockReceive, KnockFind,
      KnockRepair, KnockSender, KnockRebuildRead, KnockRebuildWrite, worldVars, vars

\* Nobody enters a room that refuses it, although the room is asked before its
\* lock is released and the avatar is added after.
THEOREM EntryAsksTheRoom == Spec => EnterRespectsRoomAcl
<1>1. Init => StillAdmitted
  BY DEF Init, StillAdmitted
<1>2. StillAdmitted /\ [Next]_vars => StillAdmitted'
  BY StillAdmittedStep
<1>3. Inv /\ StillAdmitted /\ [Next]_vars =>
        [pc # "command" => \A b \in avatars' :
            <<b.room, b.did>> \in barred' => IsIn(b.room, b.did)]_vars
  BY RespectedStep DEF Respected
<1> QED
  BY <1>1, <1>2, <1>3, InvAlways, PTL DEF Spec, EnterRespectsRoomAcl

-----------------------------------------------------------------------------
(* Membership                                                               *)

\* The room of an avatar is where its DID is.
LEMMA PlaceIs ==
  ASSUME NEW S, S \subseteq Avatar, Single(S)
  PROVE  /\ \A a \in S : PlaceIn(S)[a.did] = a.room
         /\ \A d \in Dids : (\A a \in S : a.did # d) => PlaceIn(S)[d] = None
         /\ \A d \in Dids : PlaceIn(S)[d] # None => \E a \in S : a.did = d
<1>1. ASSUME NEW a \in S PROVE PlaceIn(S)[a.did] = a.room
  <2>1. a.did \in Dids
    BY DEF Avatar
  <2>2. (CHOOSE b \in S : b.did = a.did) = a
    BY DEF Single
  <2> QED
    BY <2>1, <2>2 DEF PlaceIn
<1>2. ASSUME NEW d \in Dids, \A a \in S : a.did # d PROVE PlaceIn(S)[d] = None
  BY <1>2 DEF PlaceIn
<1>3. ASSUME NEW d \in Dids, PlaceIn(S)[d] # None PROVE \E a \in S : a.did = d
  BY <1>3 DEF PlaceIn
<1> QED
  BY <1>1, <1>2, <1>3

\* Two functions of DIDs that agree everywhere are one.
LEMMA PlaceEqual ==
  ASSUME NEW S, NEW f, f = [d \in Dids |-> f[d]], \A d \in Dids : PlaceIn(S)[d] = f[d]
  PROVE  PlaceIn(S) = f
<1>1. PlaceIn(S) = [d \in Dids |-> PlaceIn(S)[d]]
  BY DEF PlaceIn
<1>2. [d \in Dids |-> PlaceIn(S)[d]] = [d \in Dids |-> f[d]]
  OBVIOUS
<1> QED
  BY <1>1, <1>2

\* Restamped avatars are where they were.
LEMMA SamePlaces ==
  ASSUME NEW S, NEW T, S \subseteq Avatar, T \subseteq Avatar, Single(S), Single(T),
         Traced(T, S), Traced(S, T)
  PROVE  PlaceIn(T) = PlaceIn(S)
<1>1. ASSUME NEW d \in Dids PROVE PlaceIn(T)[d] = PlaceIn(S)[d]
  <2>1. CASE \E a \in S : a.did = d
    <3>1. PICK a \in S : a.did = d
      BY <2>1
    <3>2. PICK b \in T : a.did = b.did /\ a.room = b.room
      BY DEF Traced
    <3> QED
      BY <3>1, <3>2, PlaceIs
  <2>2. CASE \A a \in S : a.did # d
    <3>1. \A b \in T : b.did # d
      BY <2>2 DEF Traced
    <3> QED
      BY <2>2, <3>1, PlaceIs
  <2> QED
    BY <2>1, <2>2
<1>2. PlaceIn(S) = [d \in Dids |-> PlaceIn(S)[d]]
  BY DEF PlaceIn
<1> QED
  BY <1>1, <1>2, PlaceEqual

\* Those who are left are where they were.
LEMMA FewerPlaces ==
  ASSUME NEW S, NEW T, S \subseteq Avatar, Single(S), T \subseteq S,
         NEW gone, \A a \in S : a \in T <=> a.did \notin gone
  PROVE  PlaceIn(T) = [d \in Dids |-> IF d \in gone THEN None ELSE PlaceIn(S)[d]]
<1> DEFINE f == [d \in Dids |-> IF d \in gone THEN None ELSE PlaceIn(S)[d]]
<1>1. T \subseteq Avatar /\ Single(T)
  BY DEF Single
<1>2. ASSUME NEW d \in Dids PROVE PlaceIn(T)[d] = IF d \in gone THEN None ELSE PlaceIn(S)[d]
  <2>1. CASE \E a \in T : a.did = d
    <3>1. PICK a \in T : a.did = d
      BY <2>1
    <3> QED
      BY <1>1, <3>1, PlaceIs
  <2>2. CASE \A a \in T : a.did # d
    <3>1. PlaceIn(T)[d] = None
      BY <1>1, <2>2, PlaceIs
    <3>2. d \notin gone => \A a \in S : a.did # d
      BY <2>2
    <3> QED
      BY <3>1, <3>2, PlaceIs
  <2> QED
    BY <2>1, <2>2
<1>3. f = [d \in Dids |-> f[d]] /\ \A d \in Dids : f[d] = IF d \in gone THEN None ELSE PlaceIn(S)[d]
  OBVIOUS
<1> HIDE DEF f
<1>4. PlaceIn(T) = f
  BY <1>2, <1>3, PlaceEqual
<1> QED
  BY <1>4 DEF f

\* One avatar is put into a room, and the others stay where they were.
LEMMA PutPlace ==
  ASSUME NEW S, S \subseteq Avatar, Single(S), NEW b \in Avatar,
         NEW T, T = {c \in S : c.did # b.did} \cup {b}
  PROVE  PlaceIn(T) = [PlaceIn(S) EXCEPT ![b.did] = b.room]
<1> DEFINE f == [PlaceIn(S) EXCEPT ![b.did] = b.room]
<1>1. T \subseteq Avatar /\ Single(T) /\ b.did \in Dids /\ b \in T
  BY DEF Single, Avatar
<1>2. PlaceIn(S) = [d \in Dids |-> PlaceIn(S)[d]]
  BY DEF PlaceIn
<1>3. f = [d \in Dids |-> f[d]] /\ f[b.did] = b.room
      /\ \A d \in Dids : d # b.did => f[d] = PlaceIn(S)[d]
  BY <1>1, <1>2
<1> HIDE DEF f
<1>4. ASSUME NEW d \in Dids PROVE PlaceIn(T)[d] = f[d]
  <2>1. CASE d = b.did
    BY <1>1, <1>3, <2>1, PlaceIs
  <2>2. CASE d # b.did /\ \E a \in S : a.did = d
    <3>1. PICK a \in S : a.did = d
      BY <2>2
    <3>2. a \in T
      BY <2>2, <3>1
    <3> QED
      BY <1>1, <1>3, <2>2, <3>1, <3>2, PlaceIs
  <2>3. CASE d # b.did /\ \A a \in S : a.did # d
    <3>1. \A a \in T : a.did # d
      BY <2>3
    <3> QED
      BY <1>1, <1>3, <2>3, <3>1, PlaceIs
  <2> QED
    BY <2>1, <2>2, <2>3
<1>5. PlaceIn(T) = f
  BY <1>3, <1>4, PlaceEqual
<1> QED
  BY <1>5 DEF f

\* What others see of a sound state is not None.
LEMMA CopyIsOne ==
  ASSUME NEW doc, SoundDoc(doc)
  PROVE  CopyOf(doc) # None
<1>1. doc.avatars \subseteq Avatar /\ Single(doc.avatars) /\ doc.d2h \in DidToHandle
  BY DEF SoundDoc, StateDoc
<1>2. \A d \in Dids : PlaceIn(doc.avatars)[d] \in Rooms \cup {None}
  <2> SUFFICES ASSUME NEW d \in Dids, PlaceIn(doc.avatars)[d] # None
               PROVE  PlaceIn(doc.avatars)[d] \in Rooms
    OBVIOUS
  <2>1. PICK a \in doc.avatars : a.did = d
    BY <1>1, PlaceIs
  <2> QED
    BY <1>1, <2>1, PlaceIs DEF Avatar
<1>3. PlaceIn(doc.avatars) = [d \in Dids |-> PlaceIn(doc.avatars)[d]]
  BY DEF PlaceIn
<1>4. PlaceIn(doc.avatars) \in [Dids -> Rooms \cup {None}]
  BY <1>2, <1>3
<1> QED
  BY <1>1, <1>4, SavedAssumption DEF CopyOf, Copy

\* Restored avatars are where they were saved.
LEMMA RestoredPlaces ==
  ASSUME NEW doc, SoundDoc(doc)
  PROVE  PlaceIn(Restored(doc.avatars)) = PlaceIn(doc.avatars)
<1> DEFINE Fresh(a) == [a EXCEPT !.stale = FALSE]
           S == doc.avatars
           T == Restored(S)
<1>1. S \subseteq Avatar /\ Single(S)
  BY DEF SoundDoc, StateDoc
<1>2. \A a \in S : SameButStamp(a, Fresh(a))
  BY <1>1 DEF SameButStamp, Avatar
<1>3. T = {Fresh(a) : a \in S}
  BY DEF Restored
<1>4. Single(T)
  BY RestoredSound
<1> HIDE DEF Fresh, T, S
<1>5. T \subseteq Avatar /\ Traced(T, S) /\ Traced(S, T)
  BY <1>2, <1>3 DEF Traced, SameButStamp
<1>6. PlaceIn(T) = PlaceIn(S)
  BY <1>1, <1>4, <1>5, SamePlaces
<1> QED
  BY <1>6 DEF T, S

-----------------------------------------------------------------------------
\* The steps of a handler whose place or names are not those of the moment.
Halfway == {"saveH2d", "saveD2h", "loadH2d", "loadD2h"}

\* A step beside saves, loads and registrations.
Beside ==
    /\ UNCHANGED <<d2h, saved, draft>>
    /\ pc' = pc \/ (pc \notin Halfway /\ pc' \notin Halfway)

LEMMA BesideSame ==
  ASSUME Beside
  PROVE  UNCHANGED <<Called, Kept>>
  BY DEF Beside, Called, Kept, Halfway

LEMMA BesideStep ==
  ASSUME [Next]_vars, ~ Register, ~ SaveLoad
  PROVE  Beside
<1> USE DEF Beside, Halfway, Return, Continue, Finish, worldVars, laneVars
<1>1. CASE Lane
  BY <1>1
  DEF Lane, Receive, Enter, CheckEntry, Join, JoinRefused, MoveIn, RefreshPresent, BeginRegister,
      Add, Lookup, LookupIndex, LookupValidate, LookupScan, LookupRepair, Located, Rebuild,
      RebuildRead, RebuildWrite, Touch, CheckSender, Command, Say, Go, Kick, Deny, SetAcl, Dig
<1>2. CASE InboxLane \/ Prune \/ GoStale
  BY <1>2
  DEF Prune, PruneSweep, PruneRead, PruneWrite, GoStale, InboxLane, KnockReceive, KnockFind,
      KnockRepair, KnockTouch, KnockSender, KnockRebuildRead, KnockRebuildWrite
<1>3. CASE UNCHANGED vars
  BY <1>3 DEF vars
<1> QED
  BY <1>1, <1>2, <1>3 DEF Next

\* Steps that change neither an avatar nor a right.
LEMMA StaySame ==
  ASSUME Beside, UNCHANGED <<avatars, barred>>
  PROVE  UNCHANGED Members!memberVars
  BY BesideSame DEF Members!memberVars

LEMMA StampMembers ==
  ASSUME Inv, Inv', Beside, Touch \/ KnockTouch \/ GoStale \/ (Join /\ RefreshPresent)
  PROVE  UNCHANGED Members!memberVars
<1>1. Traced(avatars', avatars) /\ Single(avatars') /\ Traced(avatars, avatars')
  BY StampTraced
<1>2. avatars \subseteq Avatar /\ avatars' \subseteq Avatar /\ Single(avatars)
  BY DEF Inv, TypeInv, TypeOK, OneAvatarPerDid
<1>3. PlaceIn(avatars') = PlaceIn(avatars)
  BY <1>1, <1>2, SamePlaces
<1>4. barred' = barred
  BY DEF Touch, KnockTouch, GoStale, Join
<1> QED
  BY <1>3, <1>4, BesideSame DEF Members!memberVars

\* Sweeps and kicks: some leave.
LEMMA LeaveMembers ==
  ASSUME Inv, Beside, PruneSweep \/ Kick
  PROVE  \E S \in SUBSET Dids : Members!Leave(S)
<1>1. avatars' \subseteq avatars /\ barred' = barred
  BY DEF PruneSweep, Kick
<1>2. avatars \subseteq Avatar /\ Single(avatars)
  BY DEF Inv, TypeInv, TypeOK, OneAvatarPerDid
<1> DEFINE gone == {d \in Dids : \E a \in avatars \ avatars' : a.did = d}
<1>3. \A a \in avatars : a \in avatars' <=> a.did \notin gone
  BY <1>2 DEF Avatar, Single
<1>4. gone \in SUBSET Dids
  OBVIOUS
<1> HIDE DEF gone
<1>5. PlaceIn(avatars') = [d \in Dids |-> IF d \in gone THEN None ELSE PlaceIn(avatars)[d]]
  BY <1>1, <1>2, <1>3, FewerPlaces
<1> QED
  BY <1>1, <1>4, <1>5, BesideSame DEF Members!Leave

\* A denial puts one DID out of one room.
LEMMA DenyMembers ==
  ASSUME Inv, Beside, Deny
  PROVE  \E d \in Dids, r \in Rooms : Members!Deny(r, d)
<1>1. PICK r \in live, d \in Dids :
        /\ barred' = barred \cup {<<r, d>>}
        /\ avatars' = {a \in avatars : ~ (a.room = r /\ a.did = d)}
  BY DEF Deny
<1>2. avatars \subseteq Avatar /\ Single(avatars) /\ r \in Rooms
  BY DEF Inv, TypeInv, TypeOK, OneAvatarPerDid
<1> DEFINE gone == {e \in Dids : e = d /\ PlaceIn(avatars)[d] = r}
<1>3. \A a \in avatars : a \in avatars' <=> a.did \notin gone
  <2> SUFFICES ASSUME NEW a \in avatars PROVE a \in avatars' <=> a.did \notin gone
    OBVIOUS
  <2>1. a.did \in Dids /\ PlaceIn(avatars)[a.did] = a.room
    BY <1>2, PlaceIs DEF Avatar
  <2> QED
    BY <1>1, <2>1
<1>4. \A e \in Dids : e \in gone <=> e = d /\ PlaceIn(avatars)[d] = r
  OBVIOUS
<1>5. avatars' \subseteq avatars
  BY <1>1
<1> HIDE DEF gone
<1>6. PlaceIn(avatars') = [e \in Dids |-> IF e \in gone THEN None ELSE PlaceIn(avatars)[e]]
  BY <1>2, <1>3, <1>5, FewerPlaces
<1>7. PlaceIn(avatars') = [e \in Dids |-> IF e = d /\ PlaceIn(avatars)[d] = r THEN None
                                          ELSE PlaceIn(avatars)[e]]
  BY <1>4, <1>6
<1>8. Members!Deny(r, d)
  BY <1>1, <1>7, BesideSame DEF Members!Deny
<1> QED
  BY <1>2, <1>8

\* The other commands about rights leave everyone in place.
LEMMA AdmitMembers ==
  ASSUME Inv, Beside, SetAcl
  PROVE  \E S \in SUBSET Dids, r \in Rooms : Members!Admit(r, S)
<1>1. live \subseteq Rooms /\ avatars' = avatars
  BY DEF SetAcl, Inv, TypeInv, TypeOK
<1> QED
  BY <1>1, BesideSame DEF SetAcl, Members!Admit

\* Who moves, in an entry or by an exit, was somewhere before, and takes no
\* one's place.
LEMMA MoveMembers ==
  ASSUME Inv, Beside, pc \notin {"loadH2d", "loadD2h"}, barred' = barred,
         NEW a \in avatars, NEW b \in Avatar,
         b.did = a.did, b.handle = a.handle, b.room \in live,
         avatars' = AddAvatar(avatars \ {a}, b)
  PROVE  \E d \in Dids, r \in Rooms : Members!Walk(d, r)
<1>1. /\ avatars \subseteq Avatar /\ Single(avatars) /\ Registered(avatars, d2h)
      /\ Inverses(d2h, h2d) /\ Housed(avatars, live)
  BY DEF Inv, TypeInv, TypeOK, OneAvatarPerDid, HandlesAgree, Housing
<1>2. /\ \A c \in avatars \ {a} : c.did # b.did
      /\ Single(avatars \ {a}) /\ Registered(avatars \ {a}, d2h) /\ Housed(avatars \ {a}, live)
      /\ d2h[b.did] = b.handle
  BY <1>1 DEF Single, Registered, Housed
<1>3. AddAvatar(avatars \ {a}, b) = (avatars \ {a}) \cup {b}
  BY <1>1, <1>2, AddSound
<1>4. avatars' = {c \in avatars : c.did # b.did} \cup {b}
  BY <1>2, <1>3
<1>5. PlaceIn(avatars') = [PlaceIn(avatars) EXCEPT ![b.did] = b.room]
  BY <1>1, <1>4, PutPlace
<1>6. PlaceIn(avatars)[b.did] # None /\ b.did \in Dids /\ b.room \in Rooms
  BY <1>1, PlaceIs, NoneAssumption DEF Avatar
<1>7. Members!Walk(b.did, b.room)
  BY <1>5, <1>6, BesideSame DEF Members!Walk
<1> QED
  BY <1>6, <1>7

LEMMA GoMembers ==
  ASSUME Inv, Beside, Go, ~ UNCHANGED avatars
  PROVE  \E d \in Dids, r \in Rooms : Members!Walk(d, r)
<1>1. PICK dest \in live, a \in At(found) :
        avatars' = AddAvatar(avatars \ {a}, [a EXCEPT !.room = dest])
  BY DEF Go
<1>2. a \in avatars /\ a \in Avatar /\ dest \in Rooms /\ pc = "command" /\ barred' = barred
  BY DEF Go, At, Inv, TypeInv, TypeOK
<1> DEFINE b == [a EXCEPT !.room = dest]
<1>3. b \in Avatar /\ b.did = a.did /\ b.handle = a.handle /\ b.room \in live
  BY <1>2 DEF Avatar
<1> HIDE DEF b
<1>4. avatars' = AddAvatar(avatars \ {a}, b)
  BY <1>1 DEF b
<1> QED
  BY <1>2, <1>3, <1>4, MoveMembers

LEMMA MoveInMembers ==
  ASSUME Inv, Beside, Join, MoveIn
  PROVE  \E d \in Dids, r \in Rooms : Members!Walk(d, r)
<1>1. /\ job.room \in live /\ job.owner \in Owners /\ job.room \in Rooms /\ pc = "join"
      /\ barred' = barred
  BY DEF Join, MoveIn, Admitted, Inv, TypeInv, Job
<1>2. PICK a \in At(found) : avatars' = AddAvatar(avatars \ {a},
              [a EXCEPT !.room = job.room, !.owner = job.owner, !.stale = FALSE])
  BY DEF MoveIn
<1>3. a \in avatars /\ a \in Avatar
  BY DEF At, Inv, TypeInv, TypeOK
<1> DEFINE b == [a EXCEPT !.room = job.room, !.owner = job.owner, !.stale = FALSE]
<1>4. b \in Avatar /\ b.did = a.did /\ b.handle = a.handle /\ b.room \in live
  BY <1>1, <1>3 DEF Avatar
<1> HIDE DEF b
<1>5. avatars' = AddAvatar(avatars \ {a}, b)
  BY <1>2 DEF b
<1> QED
  BY <1>1, <1>3, <1>4, <1>5, MoveMembers

\* Who is added was away, has been given its name, and is still admitted.
LEMMA AddMembers ==
  ASSUME Inv, StillAdmitted, Beside, Add, job.room \in live
  PROVE  \E d \in Dids, r \in Rooms : Members!Enter(d, r)
<1>1. pc = "add" /\ avatars' = AddAvatar(avatars, Newcomer) /\ barred' = barred
  BY DEF Add
<1>2. Newcomer \in Avatar /\ Newcomer.did = job.did /\ Newcomer.room = job.room
      /\ Newcomer.handle = grip /\ job.did \in Dids /\ job.room \in Rooms
  BY <1>1 DEF Newcomer, Avatar, Job, Inv, TypeInv
<1>3. /\ avatars \subseteq Avatar /\ Single(avatars) /\ Registered(avatars, d2h)
      /\ Inverses(d2h, h2d) /\ Housed(avatars, live)
  BY <1>1 DEF Inv, TypeInv, TypeOK, OneAvatarPerDid, HandlesAgree, Housing
<1>4. \A c \in avatars : c.did # Newcomer.did
  BY <1>1, <1>2 DEF Inv, Finder, NewcomerAbsent, IsPresent
<1>5. d2h[Newcomer.did] = Newcomer.handle /\ grip # None
  BY <1>1, <1>2, NoneAssumption DEF Inv, Naming, TypeInv
<1>6. AddAvatar(avatars, Newcomer) = avatars \cup {Newcomer}
  BY <1>2, <1>3, <1>4, <1>5, AddSound
<1>7. avatars' = {c \in avatars : c.did # Newcomer.did} \cup {Newcomer}
  BY <1>1, <1>4, <1>6
<1>8. PlaceIn(avatars') = [PlaceIn(avatars) EXCEPT ![Newcomer.did] = Newcomer.room]
  BY <1>2, <1>3, <1>7, PutPlace
<1>9. PlaceIn(avatars)[job.did] = None
  BY <1>2, <1>3, <1>4, PlaceIs
<1>10. Called[job.did] # None
  BY <1>1, <1>2, <1>5 DEF Called
<1>11. <<job.room, job.did>> \notin barred
  BY <1>1 DEF StillAdmitted
<1>12. Members!Enter(job.did, job.room)
  BY <1>1, <1>2, <1>8, <1>9, <1>10, <1>11, BesideSame DEF Members!Enter
<1> QED
  BY <1>2, <1>12

\* A registration gives a DID a name, or finds the one it has.
LEMMA RegisterMembers ==
  ASSUME Inv, Register
  PROVE  \/ UNCHANGED Members!memberVars
         \/ \E d \in Dids : \E n \in {FragmentHandle[d], DidHandle[d]} : Members!Name(d, n)
<1>1. /\ UNCHANGED <<avatars, barred, saved, draft>> /\ pc = "register" /\ pc' = "add"
      /\ job.did \in Dids
  BY DEF Register, Inv, TypeInv, Job
<1>2. UNCHANGED Kept /\ Called = d2h /\ Called' = d2h'
  BY <1>1 DEF Kept, Called
<1>3. CASE d2h[job.did] # None
  <2>1. d2h' = d2h
    BY <1>3 DEF Register
  <2> QED
    BY <1>1, <1>2, <2>1 DEF Members!memberVars
<1>4. CASE d2h[job.did] = None
  <2> DEFINE h == FreeHandle(job.did)
  <2>1. h \in {FragmentHandle[job.did], DidHandle[job.did]} /\ h \in Handles /\ h2d[h] = None
    BY <1>1, <1>4, FreeHandleFree
  <2>2. d2h' = [d2h EXCEPT ![job.did] = h]
    BY <1>1, <1>4 DEF Register, AssignedHandle
  <2> HIDE DEF h
  <2>3. \A e \in Dids : d2h[e] # h
    BY <1>1, <2>1, NoneAssumption DEF Inv, HandlesAgree, Inverses
  <2>4. Members!Name(job.did, h)
    BY <1>1, <1>2, <1>4, <2>2, <2>3 DEF Members!Name
  <2> QED
    BY <1>1, <2>1, <2>4
<1> QED
  BY <1>3, <1>4

\* A save counts when it has copied the rooms: the names it has yet to copy
\* stay as they are.
LEMMA SaveMembers ==
  ASSUME Inv, Save \/ SaveH2d \/ SaveD2h
  PROVE  Members!Save \/ UNCHANGED Members!memberVars
<1>1. UNCHANGED <<avatars, barred, d2h>> /\ draft \in StateDoc
  BY DEF Save, SaveH2d, SaveD2h, worldVars, Inv, TypeInv, TypeOK
<1>2. CASE Save
  <2>1. pc = "command" /\ pc' = "saveH2d" /\ draft'.avatars = avatars
    BY <1>2 DEF Save, Continue, EmptyDraft
  <2>2. Called = d2h /\ Called' = d2h /\ Kept' = Copy(avatars, d2h)
    BY <1>1, <2>1 DEF Called, Kept
  <2> QED
    BY <1>1, <2>2 DEF Members!Save, Copy
<1>3. CASE SaveH2d
  <2>1. /\ pc = "saveH2d" /\ pc' = "saveD2h" /\ saved' = saved
        /\ draft'.avatars = draft.avatars
    BY <1>1, <1>3 DEF SaveH2d, Continue, worldVars, StateDoc
  <2> QED
    BY <1>1, <2>1 DEF Called, Kept, Members!memberVars
<1>4. CASE SaveD2h
  <2>1. pc = "saveD2h" /\ pc' = "rebuild" /\ saved' = [draft EXCEPT !.d2h = d2h]
    BY <1>4 DEF SaveD2h, Continue
  <2>2. saved'.avatars = draft.avatars /\ saved'.d2h = d2h /\ saved' \in StateDoc
    BY <1>1, <2>1 DEF StateDoc, Inv, TypeInv, TypeOK
  <2>3. saved' # None
    BY <2>2, SavedAssumption
  <2> QED
    BY <1>1, <2>1, <2>2, <2>3 DEF Called, Kept, CopyOf, Members!memberVars
<1> QED
  BY <1>2, <1>3, <1>4

\* A load counts when it has installed the rooms.
LEMMA LoadMembers ==
  ASSUME Inv, LoadRooms \/ LoadH2d \/ LoadD2h
  PROVE  Members!Load \/ UNCHANGED Members!memberVars
<1>1. CASE LoadRooms
  <2>1. PICK doc \in Archive \cup ({saved} \ {None}) :
          /\ avatars' = Restored(doc.avatars)
          /\ barred' \subseteq barred
          /\ draft' = doc
    BY <1>1 DEF LoadRooms
  <2>2. pc = "command" /\ pc' = "loadH2d" /\ saved' = saved
    BY <1>1 DEF LoadRooms, Continue
  <2>3. SoundDoc(doc)
    BY ArchiveAssumption DEF Inv, SavedSound
  <2>4. PlaceIn(avatars') = PlaceIn(doc.avatars)
    BY <2>1, <2>3, RestoredPlaces
  <2>5. Called' = doc.d2h /\ Kept' = Kept
    BY <2>1, <2>2 DEF Called, Kept
  <2>6. CopyOf(doc).place = PlaceIn(doc.avatars) /\ CopyOf(doc).called = doc.d2h
    BY DEF CopyOf, Copy
  <2>7. CopyOf(doc) \in {CopyOf(k) : k \in Archive} \cup ({Kept} \ {None})
    <3>1. CASE doc \in Archive
      BY <3>1
    <3>2. CASE doc = saved /\ doc # None
      <4>1. Kept = CopyOf(doc)
        BY <2>2, <3>2 DEF Kept
      <4>2. CopyOf(doc) # None
        BY <2>3, CopyIsOne
      <4> QED
        BY <4>1, <4>2
    <3> QED
      BY <2>1, <3>1, <3>2
  <2> QED
    BY <2>1, <2>4, <2>5, <2>6, <2>7 DEF Members!Load
<1>2. CASE LoadH2d
  BY <1>2 DEF LoadH2d, Continue, Called, Kept, Members!memberVars
<1>3. CASE LoadD2h
  BY <1>3 DEF LoadD2h, Continue, Called, Kept, Members!memberVars
<1> QED
  BY <1>1, <1>2, <1>3

LEMMA MembersStep ==
  ASSUME Inv, StillAdmitted, [Next]_vars
  PROVE  [Members!Next]_(Members!memberVars)
<1>1. Inv'
  BY InvStep
<1>2. CASE Register
  BY <1>2, RegisterMembers DEF Members!Next
<1>3. CASE Save \/ SaveH2d \/ SaveD2h
  BY <1>3, SaveMembers DEF Members!Next
<1>4. CASE LoadRooms \/ LoadH2d \/ LoadD2h
  BY <1>4, LoadMembers DEF Members!Next
<1>5. CASE ~ Register /\ ~ SaveLoad
  <2>1. Beside
    BY <1>5, BesideStep
  <2>2. CASE UNCHANGED <<avatars, barred>>
    BY <2>1, <2>2, StaySame
  <2>3. CASE Touch \/ KnockTouch \/ GoStale \/ (Join /\ RefreshPresent)
    BY <1>1, <2>1, <2>3, StampMembers
  <2>4. CASE PruneSweep \/ Kick
    BY <2>1, <2>4, LeaveMembers DEF Members!Next
  <2>5. CASE Deny
    BY <2>1, <2>5, DenyMembers DEF Members!Next
  <2>6. CASE SetAcl
    BY <2>1, <2>6, AdmitMembers DEF Members!Next
  <2>7. CASE Go
    <3>1. barred' = barred
      BY <2>7 DEF Go
    <3>2. CASE ~ UNCHANGED avatars
      BY <2>1, <2>7, <3>2, GoMembers DEF Members!Next
    <3> QED
      BY <2>2, <3>1, <3>2
  <2>8. CASE Join /\ MoveIn
    BY <2>1, <2>8, MoveInMembers DEF Members!Next
  <2>9. CASE Add
    <3>1. CASE job.room \in live
      BY <2>1, <2>9, <3>1, AddMembers DEF Members!Next
    <3>2. CASE job.room \notin live
      BY <2>2, <2>9, <3>2 DEF Add
    <3> QED
      BY <3>1, <3>2
  <2> QED
    BY <1>5, <2>2, <2>3, <2>4, <2>5, <2>6, <2>7, <2>8, <2>9
    DEF Next, Lane, Receive, Enter, CheckEntry, Join, JoinRefused, BeginRegister, Lookup,
        LookupIndex, LookupValidate, LookupScan, LookupRepair, Rebuild, RebuildRead, RebuildWrite,
        CheckSender, Command, Say, Dig, Prune, PruneRead, PruneWrite, InboxLane, KnockReceive,
        KnockFind, KnockRepair, KnockSender, KnockRebuildRead, KnockRebuildWrite, worldVars, vars
<1> QED
  BY <1>2, <1>3, <1>4, <1>5 DEF SaveLoad

\* To those outside, each DID just enters where it is admitted, walks, leaves
\* and keeps its name; saves and loads take place at one moment (AvatarPresence
\* implements Membership).
THEOREM PresenceImplementsMembership == Spec => ImplementsMembership
<1>1. Init => Members!Init
  <2> SUFFICES ASSUME Init PROVE Members!Init
    OBVIOUS
  <2>1. PlaceIn(avatars) = [d \in Dids |-> None]
    BY DEF Init, PlaceIn
  <2> QED
    BY <2>1 DEF Init, Members!Init, Called, Kept, NoDids
<1>2. Init => StillAdmitted
  BY DEF Init, StillAdmitted
<1>3. StillAdmitted /\ [Next]_vars => StillAdmitted'
  BY StillAdmittedStep
<1>4. Inv /\ StillAdmitted /\ [Next]_vars => [Members!Next]_(Members!memberVars)
  BY MembersStep
<1> QED
  BY <1>1, <1>2, <1>3, <1>4, InvAlways, PTL DEF Spec, ImplementsMembership, Members!Spec

-----------------------------------------------------------------------------
(* A save beside the lane                                                   *)

\* The lane does not load a state.
NotLoading == pc \notin {"loadH2d", "loadD2h"}

LEMMA NoLoadBegins ==
  ASSUME "load" \notin Commands, NotLoading, [Next]_vars
  PROVE  NotLoading'
<1> USE DEF NotLoading, Return, Continue, Finish, worldVars, laneVars
<1>1. CASE Lane
  BY <1>1
  DEF Lane, Receive, Enter, CheckEntry, Join, JoinRefused, MoveIn, RefreshPresent, BeginRegister,
      Register, Add, Lookup, LookupIndex, LookupValidate, LookupScan, LookupRepair, Located, Rebuild,
      RebuildRead, RebuildWrite, Touch, CheckSender, Command, Say, Go, Kick, Deny, SetAcl, Dig,
      SaveLoad, Save, SaveH2d, SaveD2h, LoadRooms, LoadH2d, LoadD2h
<1>2. CASE InboxLane \/ Prune \/ GoStale
  <2>1. UNCHANGED pc
    BY <1>2
    DEF Prune, PruneSweep, PruneRead, PruneWrite, GoStale, InboxLane, KnockReceive, KnockFind,
        KnockRepair, KnockTouch, KnockSender, KnockRebuildRead, KnockRebuildWrite
  <2> QED
    BY <2>1
<1>3. CASE UNCHANGED vars
  BY <1>3 DEF vars
<1> QED
  BY <1>1, <1>2, <1>3 DEF Next

\* The avatars a document has are named by the registry, as it is by now.
NamedBy(doc, names) == Single(doc.avatars) /\ Registered(doc.avatars, names)

\* Inductive: what POST /world/save has collected, and what it has written.
Collected ==
  /\ adminPc \in {"idle", "saveH2d", "saveD2h"}
  /\ adminDoc \in StateDoc
  /\ adminPc # "idle" => NamedBy(adminDoc, d2h)
  /\ AnsweredNamed

AdminInv == Inv /\ NotLoading /\ Collected

LEMMA AdminInvInit == AdminInit => AdminInv
<1> SUFFICES ASSUME AdminInit PROVE AdminInv
  OBVIOUS
<1>1. Inv
  BY InvInit DEF AdminInit
<1>2. NotLoading
  BY DEF AdminInit, Init, NotLoading
<1>3. EmptyDraft \in StateDoc
  BY <1>1 DEF AdminInit, Init, Inv, TypeInv, TypeOK
<1> QED
  BY <1>1, <1>2, <1>3 DEF AdminInv, AdminInit, Collected, AnsweredNamed

\* A registry that has grown names whom it named.
LEMMA StaysNamed ==
  ASSUME NEW doc \in StateDoc, NEW names, NEW later, NamedBy(doc, names),
         \A d \in Dids : names[d] # None => later[d] = names[d]
  PROVE  NamedBy(doc, later)
  BY NoneAssumption DEF NamedBy, Registered, StateDoc, Avatar

\* The lane, the ticker and the inbox lane go on while the handler waits.
LEMMA LaneBeside ==
  ASSUME "load" \notin Commands, AdminInv, Next, UNCHANGED adminVars
  PROVE  AdminInv'
<1>1. Inv' /\ NotLoading'
  BY InvStep, NoLoadBegins DEF AdminInv
<1>2. \A d \in Dids : d2h[d] # None => d2h'[d] = d2h[d]
  BY RegistryStep DEF AdminInv, NotLoading, RegistryGrows
<1>3. adminPc # "idle" => NamedBy(adminDoc, d2h')
  BY <1>2, StaysNamed DEF AdminInv, Collected
<1> QED
  BY <1>1, <1>3 DEF AdminInv, Collected, AnsweredNamed, adminVars, NamedBy, Registered

\* The handler's steps: the rooms first, then the registry.
LEMMA SavingBeside ==
  ASSUME AdminInv, AdminSaving
  PROVE  AdminInv'
<1>1. UNCHANGED vars
  BY DEF AdminSaving, AdminSave, AdminSaveH2d, AdminSaveD2h
<1>2. Inv' /\ NotLoading'
  BY <1>1, InvStep DEF AdminInv, NotLoading, vars
<1>3. adminDoc \in StateDoc /\ EmptyDraft \in StateDoc
      /\ live \subseteq Rooms /\ avatars \subseteq Avatar /\ h2d \in HandleToDid
      /\ d2h \in DidToHandle /\ d2h' = d2h
  BY <1>1 DEF AdminInv, Collected, Inv, TypeInv, TypeOK, EmptyDraft, StateDoc, vars,
              NoHandles, NoDids, HandleToDid, DidToHandle
<1>4. Collected'
  <2>1. CASE AdminSave
    <3>1. NamedBy([EmptyDraft EXCEPT !.live = live, !.avatars = avatars], d2h)
      BY DEF AdminInv, NotLoading, Inv, OneAvatarPerDid, HandlesAgree, NamedBy, EmptyDraft
    <3>2. [EmptyDraft EXCEPT !.live = live, !.avatars = avatars] \in StateDoc
      BY <1>3 DEF StateDoc
    <3> QED
      BY <1>3, <2>1, <3>1, <3>2 DEF AdminSave, AdminInv, Collected, AnsweredNamed
  <2>2. CASE AdminSaveH2d
    <3>1. [adminDoc EXCEPT !.h2d = h2d] \in StateDoc
          /\ [adminDoc EXCEPT !.h2d = h2d].avatars = adminDoc.avatars
      BY <1>3 DEF StateDoc
    <3> QED
      BY <1>3, <2>2, <3>1 DEF AdminSaveH2d, AdminInv, Collected, AnsweredNamed, NamedBy
  <2>3. CASE AdminSaveD2h
    <3>1. [adminDoc EXCEPT !.d2h = d2h].avatars = adminDoc.avatars
          /\ [adminDoc EXCEPT !.d2h = d2h].d2h = d2h
      BY <1>3 DEF StateDoc
    <3> QED
      BY <1>3, <2>3, <3>1 DEF AdminSaveD2h, AdminInv, Collected, AnsweredNamed, NamedBy
  <2> QED
    BY <2>1, <2>2, <2>3 DEF AdminSaving
<1> QED
  BY <1>2, <1>4 DEF AdminInv

\* load-root gives the world rooms and rights, and leaves everyone's name.
LEMMA InvBesideRoots ==
  ASSUME Inv, AdminLoadRoom
  PROVE  Inv'
<1>1. /\ UNCHANGED <<avatars, h2d, d2h, index, saved, laneVars, sideVars, adminVars>>
      /\ live \subseteq live' /\ live' \subseteq Rooms /\ barred' \subseteq Rooms \X Dids
  BY DEF AdminLoadRoom, Inv, TypeInv, TypeOK
<1> QED
  BY <1>1
  DEF Inv, TypeInv, TypeOK, OneAvatarPerDid, HandlesAgree, Finder, LookupSound, NewcomerAbsent,
      IsPresent, IsIn, SavedSound, Housing, Housed, Saving, Loading, Naming, laneVars, sideVars

LEMMA LoadRootBeside ==
  ASSUME AdminInv, AdminLoadRoom
  PROVE  AdminInv'
<1>1. UNCHANGED <<d2h, laneVars, adminVars>>
  BY DEF AdminLoadRoom
<1>2. Inv'
  BY InvBesideRoots DEF AdminInv
<1> QED
  BY <1>1, <1>2 DEF AdminInv, NotLoading, Collected, AnsweredNamed, laneVars, adminVars

\* What a handler of the API that loads no state is doing.
OnlySaving == adminPc \in {"idle", "saveH2d", "saveD2h"}

LEMMA OnlySavingKept ==
  ASSUME "load" \notin AdminCommands, OnlySaving, [AdminNext]_allVars
  PROVE  OnlySaving' /\ ([Next]_vars \/ AdminLoadRoom)
BY DEF OnlySaving, AdminNext, AdminSaving, AdminSave, AdminSaveH2d, AdminSaveD2h, AdminLoad,
       AdminLoadFetch, AdminLoadRooms, AdminLoadH2d, AdminLoadD2h, AdminRebuildRead,
       AdminRebuildWrite, AdminLoadRoom, adminVars, allVars

\* With a save or a load of a root going on beside it, the world still has every
\* DID once, under the name the registry says, and finds it; and nobody is put out
\* of the world (save_encrypted_state, load_root of the API).
THEOREM RootsLeavePresence ==
  ASSUME "load" \notin AdminCommands
  PROVE  AdminSpec => [](OneAvatarPerDid /\ HandlesAgree /\ LookupSound /\ SavedSound) /\ NoEviction
<1>1. AdminInit => Inv /\ OnlySaving
  BY InvInit DEF AdminInit, OnlySaving
<1>2. Inv /\ OnlySaving /\ [AdminNext]_allVars => Inv' /\ OnlySaving' /\ [NobodyDisplaced]_vars
  <2> SUFFICES ASSUME Inv, OnlySaving, [AdminNext]_allVars
               PROVE  Inv' /\ OnlySaving' /\ [NobodyDisplaced]_vars
    OBVIOUS
  <2>1. OnlySaving' /\ ([Next]_vars \/ AdminLoadRoom)
    BY OnlySavingKept
  <2>2. CASE [Next]_vars
    BY <2>1, <2>2, InvStep, NobodyDisplacedStep
  <2>3. CASE AdminLoadRoom
    <3>1. UNCHANGED avatars
      BY <2>3 DEF AdminLoadRoom
    <3> QED BY <2>1, <2>3, <3>1, InvBesideRoots, KeptStep
  <2> QED BY <2>1, <2>2, <2>3
<1>3. Inv => OneAvatarPerDid /\ HandlesAgree /\ LookupSound /\ SavedSound
  BY DEF Inv, Finder
<1> QED BY <1>1, <1>2, <1>3, PTL DEF AdminSpec, NoEviction

\* Saves of the API change nothing of presence, so that all of this module holds
\* beside them, Membership included (save_encrypted_state).
THEOREM SavesDisturbNobody ==
  ASSUME "load" \notin AdminCommands, "load-root" \notin AdminCommands
  PROVE  AdminSpec => Spec /\ ImplementsMembership
<1>1. AdminInit => Init /\ OnlySaving
  BY DEF AdminInit, OnlySaving
<1>2. OnlySaving /\ [AdminNext]_allVars => OnlySaving' /\ [Next]_vars
  BY OnlySavingKept DEF AdminLoadRoom
<1>3. AdminSpec => Spec
  BY <1>1, <1>2, PTL DEF AdminSpec, Spec
<1> QED BY <1>3, PresenceImplementsMembership, PTL

\* A document that POST /world/save writes, while the lane registers, moves and
\* expels avatars and load-root replaces rooms, names everyone in it, once;
\* provided that no state is loaded at the same time.
THEOREM AnswersAlwaysNamed ==
  ASSUME "load" \notin Commands, "load" \notin AdminCommands
  PROVE  AdminSpec => []AnsweredNamed
<1>1. AdminInv /\ [AdminNext]_allVars => AdminInv'
  <2> SUFFICES ASSUME AdminInv, [AdminNext]_allVars PROVE AdminInv'
    OBVIOUS
  <2>1. CASE Next /\ UNCHANGED adminVars
    BY <2>1, LaneBeside
  <2>2. CASE AdminSaving
    BY <2>2, SavingBeside
  <2>3. CASE AdminLoad
    <3>1. AdminLoadRoom
      BY <2>3
      DEF AdminLoad, AdminLoadFetch, AdminLoadRooms, AdminLoadH2d, AdminLoadD2h, AdminRebuildRead,
          AdminRebuildWrite, AdminInv, Collected
    <3> QED
      BY <3>1, LoadRootBeside
  <2>4. CASE UNCHANGED allVars
    <3>1. Inv' /\ NotLoading'
      BY <2>4, InvStep DEF AdminInv, NotLoading, allVars, vars
    <3> QED
      BY <2>4, <3>1 DEF AdminInv, Collected, AnsweredNamed, NamedBy, Registered, allVars, vars,
                        adminVars
  <2> QED
    BY <2>1, <2>2, <2>3, <2>4 DEF AdminNext
<1>2. AdminInv => AnsweredNamed
  BY DEF AdminInv, Collected
<1> QED
  BY <1>1, <1>2, AdminInvInit, PTL DEF AdminSpec
=============================================================================
