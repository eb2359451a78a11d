------------------------- MODULE WorldPublish_proofs -------------------------
(***************************************************************************)
(* Theorems about WorldPublish, for any number of HTTP requests, any set   *)
(* of faults and any number of changes, saves and restarts: every          *)
(* component keeps its type, the world's name only ever leads to a root     *)
(* that Kubo agreed to pin, and a running world is not older than what that *)
(* root holds.  Two further theorems are about worlds that nobody saves     *)
(* over HTTP: what a root names fits together, and one root is pinned.      *)
(***************************************************************************)
EXTENDS WorldPublish, TLAPS

\* Roots that were pinned at some time.
Kept == pins \cup released

\* What a task holds at the place it is at, with `kept` the roots pinned so far.
Holds(l, kept) ==
  /\ l.pc = "put" => l.env \in Captures
  /\ l.pc = "pubroot" => l.env \in Envelopes
  /\ l.pc \in {"roomput", "root"} => l.room \in Versions
  /\ l.pc \in {"pin", "unpin", "install"} => l.new \in Roots
  /\ l.pc \in {"unpin", "install"} => l.new \in kept
  /\ l.pc \in {"send", "sent"} => l.pub \in Records /\ l.pub.root \in kept

\* Inductive: from a pin to the record, a root travels through the locals of a
\* task, world_cid and the locals of another task, and is pinned all the way.
Inv ==
  /\ TypeOK
  /\ \A t \in Tasks : Holds(task[t], Kept)
  /\ worldCid # None => worldCid \in Kept
  /\ HasRoot => ipns.root \in Kept

-----------------------------------------------------------------------------
(* One task moves *)

\* Replacing one task's record by one that holds what its place asks for, while
\* no pinned root is forgotten, keeps the tasks' part of Inv.
LEMMA OneTaskMoves ==
  ASSUME task \in [Tasks -> Locals], \A t \in Tasks : Holds(task[t], Kept),
         NEW t \in Tasks, NEW l \in Locals, Holds(l, Kept'), Kept \subseteq Kept',
         task' = [task EXCEPT ![t] = l]
  PROVE  /\ task' \in [Tasks -> Locals]
         /\ \A u \in Tasks : Holds(task'[u], Kept')
  BY DEF Holds

\* Where a task is that holds nothing.
EmptyHanded ==
  {"start", "bare", "ended", "idle", "snap", "room", "prev", "mark", "pubstate"}
AllJobs == Jobs \cup BootJobs \cup {None}

LEMMA EmptyTask ==
  ASSUME NEW job \in AllJobs, NEW pc \in EmptyHanded, NEW kept
  PROVE  /\ Holding(pc, job, None, None) \in Locals
         /\ Holds(Holding(pc, job, None, None), kept)
  BY DEF Holding, Locals, Holds, EmptyHanded, AllJobs, BootJobs

LEMMA IdleTask ==
  ASSUME NEW kept
  PROVE  Idle \in Locals /\ Holds(Idle, kept)
  BY EmptyTask DEF Idle, EmptyHanded, AllJobs, BootJobs

\* A job begins or ends, or goes on with nothing in hand.
LEMMA BeginKeeps ==
  ASSUME task \in [Tasks -> Locals], \A t \in Tasks : Holds(task[t], Kept),
         NEW t \in Tasks, Kept \subseteq Kept',
         NEW job \in AllJobs, NEW pc \in EmptyHanded, Begin(t, job, pc)
  PROVE  /\ task' \in [Tasks -> Locals]
         /\ \A u \in Tasks : Holds(task'[u], Kept')
<1> DEFINE l == Holding(pc, job, None, None)
<1>1. l \in Locals /\ Holds(l, Kept')  BY EmptyTask
<1>2. task' = [task EXCEPT ![t] = l]  BY DEF Begin, Become
<1> HIDE DEF l
<1> QED  BY <1>1, <1>2, OneTaskMoves

LEMMA EndKeeps ==
  ASSUME task \in [Tasks -> Locals], \A t \in Tasks : Holds(task[t], Kept),
         NEW t \in Tasks, Kept \subseteq Kept', End(t)
  PROVE  /\ task' \in [Tasks -> Locals]
         /\ \A u \in Tasks : Holds(task'[u], Kept')
<1>1. Idle \in Locals /\ Holds(Idle, Kept')  BY IdleTask
<1>2. task' = [task EXCEPT ![t] = Idle]  BY DEF End, Become
<1> QED  BY <1>1, <1>2, OneTaskMoves

\* Starting the process anew.
LEMMA BootHolds ==
  ASSUME NEW kept
  PROVE  Boot \in [Tasks -> Locals] /\ \A t \in Tasks : Holds(Boot[t], kept)
<1> DEFINE start == Holding("start", "start", None, None)
           bare == Holding("bare", "identity", None, None)
<1>1. Idle \in Locals /\ Holds(Idle, kept)  BY IdleTask
<1>2. start \in Locals /\ Holds(start, kept)
  BY EmptyTask DEF EmptyHanded, AllJobs, BootJobs
<1>3. bare \in Locals /\ Holds(bare, kept)
  BY EmptyTask DEF EmptyHanded, AllJobs, BootJobs
<1>4. Boot = [t \in Tasks |-> CASE t = "boot" -> start [] t = "identity" -> bare
                                [] OTHER -> Idle]
  BY DEF Boot
<1> HIDE DEF start, bare
<1>5. \A t \in Tasks : Boot[t] \in {Idle, start, bare}  BY <1>4
<1> QED  BY <1>1, <1>2, <1>3, <1>4, <1>5

-----------------------------------------------------------------------------
(* Init and the steps *)

LEMMA InvInit == Init => Inv
<1> SUFFICES ASSUME Init PROVE Inv  OBVIOUS
<1>1. task \in [Tasks -> Locals] /\ \A t \in Tasks : Holds(task[t], Kept)
  BY BootHolds DEF Init
<1> QED  BY <1>1 DEF Init, Inv, TypeOK, Versions, HasRoot

\* What a step that touches neither memory nor Kubo owes Inv.
LEMMA OnlyTasks ==
  ASSUME Inv, UNCHANGED <<memory, kubo, counters>>,
         task' \in [Tasks -> Locals], \A u \in Tasks : Holds(task'[u], Kept')
  PROVE  Inv'
  BY DEF Inv, TypeOK, Kept, HasRoot, memory, kubo, counters

\* Dying forgets no root that was pinned.
LEMMA LoseKeeps ==
  ASSUME Inv, Lose, restarts' \in Nat,
         task' \in [Tasks -> Locals], \A u \in Tasks : Holds(task'[u], Kept')
  PROVE  Inv'
<1>1. Kept' = Kept  BY DEF Lose, Kept
<1>2. stuck' \subseteq Roots  BY DEF Lose, Inv, TypeOK
<1> QED  BY <1>1, <1>2, NoneAssumption DEF Inv, TypeOK, Lose, Versions, HasRoot

LEMMA CrashKeeps == Inv /\ Crash => Inv'
<1> SUFFICES ASSUME Inv, Crash PROVE Inv'  OBVIOUS
<1>1. task' \in [Tasks -> Locals] /\ \A u \in Tasks : Holds(task'[u], Kept')
  BY BootHolds DEF Crash
<1>2. restarts' \in Nat  BY DEF Crash, Inv, TypeOK
<1> QED  BY <1>1, <1>2, LoseKeeps DEF Crash

LEMMA FailKeeps == \A t \in Tasks : Inv /\ Fail(t) => Inv'
<1> SUFFICES ASSUME NEW t \in Tasks, Inv, Fail(t) PROVE Inv'  OBVIOUS
<1> USE DEF Inv, TypeOK, HasRoot
<1>1. CASE task[t].job = "restore"
  <2>1. Begin(t, "publish", "pubstate") /\ UNCHANGED <<memory, kubo, counters>>
    BY <1>1 DEF Fail
  <2>2. Kept' = Kept  BY <2>1 DEF Kept, kubo
  <2>3. task' \in [Tasks -> Locals] /\ \A u \in Tasks : Holds(task'[u], Kept')
    BY <2>1, <2>2, BeginKeeps DEF AllJobs, BootJobs, EmptyHanded, Jobs
  <2> QED  BY <2>1, <2>3, OnlyTasks
<1>2. CASE task[t].job = "bootstrap"
  <2>1. Begin(t, "bootstrap", "ended") /\ Lose /\ UNCHANGED restarts
    BY <1>2 DEF Fail
  <2>2. Kept' = Kept  BY <2>1 DEF Kept, Lose
  <2>3. task' \in [Tasks -> Locals] /\ \A u \in Tasks : Holds(task'[u], Kept')
    BY <2>1, <2>2, BeginKeeps DEF AllJobs, BootJobs, EmptyHanded
  <2> QED  BY <2>1, <2>3, LoseKeeps
<1>3. CASE task[t].job \notin {"restore", "bootstrap"}
  <2>1. End(t) /\ UNCHANGED <<memory, kubo, counters>>
    BY <1>3 DEF Fail
  <2>2. Kept' = Kept  BY <2>1 DEF Kept, kubo
  <2>3. task' \in [Tasks -> Locals] /\ \A u \in Tasks : Holds(task'[u], Kept')
    BY <2>1, <2>2, EndKeeps
  <2> QED  BY <2>1, <2>3, OnlyTasks
<1> QED  BY <1>1, <1>2, <1>3

\* Boot takes its root from the record, where it was pinned.
LEMMA BootKeeps == Inv /\ BootStep => Inv'
<1> SUFFICES ASSUME Inv, BootStep PROVE Inv'  OBVIOUS
<1> USE DEF Inv, TypeOK, HasRoot
<1>0. "boot" \in Tasks  BY DEF Tasks
<1>1. Kept' = Kept
  BY DEF BootStep, Restore, RestoreRootOnly, Bootstrap, Kept, kubo
<1>2. task' \in [Tasks -> Locals] /\ \A u \in Tasks : Holds(task'[u], Kept')
  <2>1. \E job \in AllJobs, pc \in EmptyHanded : Begin("boot", job, pc)
    BY DEF BootStep, Restore, RestoreRootOnly, Bootstrap, AllJobs, BootJobs, EmptyHanded, Jobs
  <2> QED  BY <1>0, <1>1, <2>1, BeginKeeps
<1>3. CASE Restore \/ RestoreRootOnly
  <2>1. ipns \in Records /\ ipns.root \in Roots /\ ipns.root.state \in Envelopes
    BY <1>3 DEF Restore, RestoreRootOnly, Records, Roots
  <2>2. /\ rooms' \in Versions /\ runtime' \in Versions /\ roomCid' \in Versions
        /\ stateCid' \in Envelopes /\ worldCid' \in Roots /\ worldCid' \in Kept
    BY <1>3, <2>1 DEF Restore, RestoreRootOnly, Envelopes, Roots, Versions
  <2>3. /\ stuck' \subseteq Roots
        /\ past' \in {"none", "linked", "lost"}
        /\ UNCHANGED <<dirty, pins, ipns, released, counters>>
    BY <1>3 DEF Restore, RestoreRootOnly
  <2> QED  BY <1>1, <1>2, <2>2, <2>3 DEF counters
<1>4. CASE Bootstrap
  <2>1. past' \in {"none", "linked", "lost"}
    BY <1>4 DEF Bootstrap
  <2> QED  BY <1>1, <1>2, <1>4, <2>1 DEF Bootstrap, memory, counters
<1> QED  BY <1>3, <1>4 DEF BootStep

\* The bare document under the name names no root.
LEMMA IdentityKeeps == Inv /\ Identity => Inv'
<1> SUFFICES ASSUME Inv, Identity PROVE Inv'  OBVIOUS
<1> USE DEF Inv, TypeOK, HasRoot
<1>0. "identity" \in Tasks  BY DEF Tasks
<1>1. Kept' = Kept
  BY DEF Identity, PublishBare, RetryBare, GiveUpBare, Kept, kubo
<1>2. task' \in [Tasks -> Locals] /\ \A u \in Tasks : Holds(task'[u], Kept')
  <2>1. End("identity") \/ UNCHANGED task
    BY DEF Identity, PublishBare, RetryBare, GiveUpBare
  <2> QED  BY <1>0, <1>1, <2>1, EndKeeps
<1>3. CASE PublishBare \/ RetryBare
  BY <1>1, <1>2, <1>3 DEF PublishBare, RetryBare, memory, counters
<1>4. CASE GiveUpBare
  BY <1>2, <1>4, OnlyTasks DEF GiveUpBare
<1> QED  BY <1>3, <1>4 DEF Identity

\* The commands of the lane and the starts of a save or a publish.
LEMMA RequestsKeep ==
  \A t \in Tasks : Inv /\ (LaneStep \/ Tick \/ Save(t)) => Inv'
<1> SUFFICES ASSUME NEW t \in Tasks, Inv, LaneStep \/ Tick \/ Save(t) PROVE Inv'
  OBVIOUS
<1> USE DEF Inv, TypeOK, HasRoot
<1>0. "lane" \in Tasks /\ "timer" \in Tasks  BY DEF Tasks
<1>1. Kept' = Kept
  BY DEF LaneStep, Change, Dig, Refresh, Migrate, Publish, Tick, Save, Kept, kubo
<1>2. CASE Change
  BY <1>1, <1>2 DEF Change, Versions, NewVersion, kubo
<1>3. CASE Dig \/ Refresh
  <2>1. \E job \in AllJobs, pc \in EmptyHanded : Begin("lane", job, pc)
    BY <1>3 DEF Dig, Refresh, AllJobs, BootJobs, EmptyHanded, Jobs
  <2>2. task' \in [Tasks -> Locals] /\ \A u \in Tasks : Holds(task'[u], Kept')
    BY <1>0, <1>1, <2>1, BeginKeeps
  <2> QED  BY <1>1, <1>3, <2>2 DEF Dig, Refresh, Versions, NewVersion, kubo
<1>4. CASE Migrate \/ Publish \/ Tick \/ Save(t)
  <2>1. \E u \in Tasks, job \in AllJobs, pc \in EmptyHanded : Begin(u, job, pc)
    BY <1>0, <1>4 DEF Migrate, Publish, Tick, Save, AllJobs, BootJobs, EmptyHanded, Jobs
  <2>2. task' \in [Tasks -> Locals] /\ \A u \in Tasks : Holds(task'[u], Kept')
    BY <1>1, <2>1, BeginKeeps
  <2> QED  BY <1>4, <2>2, OnlyTasks DEF Migrate, Publish, Tick, Save
<1> QED  BY <1>2, <1>3, <1>4 DEF LaneStep

\* A root enters the pins before a task may install it.
LEMMA SaveKeeps == \A t \in Tasks : Inv /\ SaveStep(t) => Inv'
<1> SUFFICES ASSUME NEW t \in Tasks, Inv, SaveStep(t) PROVE Inv'  OBVIOUS
<1> USE DEF Inv, TypeOK, HasRoot, At
<1>l. task[t] \in Locals /\ Holds(task[t], Kept) /\ task[t].job \in AllJobs
  BY DEF Locals, AllJobs, BootJobs
<1>1. CASE PutFails(t) \/ PinFails(t)
  BY <1>1, FailKeeps DEF PutFails, PinFails
<1>2. CASE SnapState(t)
  <2> DEFINE l == Holding("put", task[t].job,
                    [rooms |-> rooms, runtime |-> runtime, cids |-> roomCid], None)
  <2>1. l \in Locals /\ Holds(l, Kept')
    BY <1>l DEF Holding, Locals, Holds, Captures, AllJobs, BootJobs
  <2>2. task' = [task EXCEPT ![t] = l] /\ Kept' = Kept
    BY <1>2 DEF SnapState, Become, Kept, kubo
  <2> HIDE DEF l
  <2>3. task' \in [Tasks -> Locals] /\ \A u \in Tasks : Holds(task'[u], Kept')
    BY <2>1, <2>2, OneTaskMoves
  <2> QED  BY <1>2, <2>3, OnlyTasks DEF SnapState
<1>3. CASE PutState(t)
  <2>1. Kept' = Kept  BY <1>3 DEF PutState, Kept, kubo
  <2>2. task' \in [Tasks -> Locals] /\ \A u \in Tasks : Holds(task'[u], Kept')
    BY <1>3, <1>l, <2>1, BeginKeeps DEF PutState, EmptyHanded
  <2>3. stateCid' \in Envelopes
    BY <1>3, <1>l DEF PutState, Sealed, Holds, Captures, Envelopes
  <2> QED  BY <1>3, <2>1, <2>2, <2>3 DEF PutState, kubo
<1>4. CASE SnapRoom(t)
  <2> DEFINE l == Holding("roomput", task[t].job, None, rooms)
  <2>1. l \in Locals /\ Holds(l, Kept')
    BY <1>l DEF Holding, Locals, Holds, AllJobs, BootJobs
  <2>2. task' = [task EXCEPT ![t] = l] /\ Kept' = Kept
    BY <1>4 DEF SnapRoom, Become, Kept, kubo
  <2> HIDE DEF l
  <2>3. task' \in [Tasks -> Locals] /\ \A u \in Tasks : Holds(task'[u], Kept')
    BY <2>1, <2>2, OneTaskMoves
  <2> QED  BY <1>4, <2>3, OnlyTasks DEF SnapRoom
<1>5. CASE PutRoom(t)
  <2>1. Kept' = Kept  BY <1>5 DEF PutRoom, Kept, kubo
  <2>2. task' \in [Tasks -> Locals] /\ \A u \in Tasks : Holds(task'[u], Kept')
    BY <1>5, <1>l, <2>1, BeginKeeps DEF PutRoom, EmptyHanded
  <2>3. roomCid' \in Versions  BY <1>5, <1>l DEF PutRoom, Holds
  <2> QED  BY <1>5, <2>1, <2>2, <2>3 DEF PutRoom, kubo, counters
<1>6. CASE ReadPrevious(t)
  <2> DEFINE l == Indexing("index", task[t].job, None, worldCid, None)
  <2>1. l \in Locals /\ Holds(l, Kept')
    BY <1>l DEF Indexing, Locals, Holds, AllJobs, BootJobs
  <2>2. task' = [task EXCEPT ![t] = l] /\ Kept' = Kept
    BY <1>6 DEF ReadPrevious, Become, Kept, kubo
  <2> HIDE DEF l
  <2>3. task' \in [Tasks -> Locals] /\ \A u \in Tasks : Holds(task'[u], Kept')
    BY <2>1, <2>2, OneTaskMoves
  <2> QED  BY <1>6, <2>3, OnlyTasks DEF ReadPrevious
<1>7. CASE ReadRoomCids(t)
  <2> DEFINE l == Indexing("root", task[t].job, roomCid, task[t].prev, None)
  <2>1. l \in Locals /\ Holds(l, Kept')
    BY <1>l DEF Indexing, Locals, Holds, AllJobs, BootJobs
  <2>2. task' = [task EXCEPT ![t] = l] /\ Kept' = Kept
    BY <1>7 DEF ReadRoomCids, Become, Kept, kubo
  <2> HIDE DEF l
  <2>3. task' \in [Tasks -> Locals] /\ \A u \in Tasks : Holds(task'[u], Kept')
    BY <2>1, <2>2, OneTaskMoves
  <2> QED  BY <1>7, <2>3, OnlyTasks DEF ReadRoomCids
<1>8. CASE PutRoot(t)
  <2> DEFINE l == Indexing("pin", task[t].job, None, task[t].prev,
                [rooms |-> task[t].room, meta |-> runtime, state |-> stateCid])
  <2>1. l \in Locals /\ Holds(l, Kept')
    BY <1>8, <1>l DEF PutRoot, Indexing, Locals, Holds, AllJobs, BootJobs, Roots
  <2>2. task' = [task EXCEPT ![t] = l] /\ Kept' = Kept
    BY <1>8 DEF PutRoot, Become, Kept, kubo
  <2> HIDE DEF l
  <2>3. task' \in [Tasks -> Locals] /\ \A u \in Tasks : Holds(task'[u], Kept')
    BY <2>1, <2>2, OneTaskMoves
  <2> QED  BY <1>8, <2>3, OnlyTasks DEF PutRoot
<1>9. CASE Pin(t)
  <2>1. task[t].new \in Roots /\ Kept' = Kept \cup {task[t].new}
    BY <1>9, <1>l DEF Pin, Holds, Kept
  <2>2. task' \in [Tasks -> Locals] /\ \A u \in Tasks : Holds(task'[u], Kept')
    BY <1>9, <1>l, <2>1 DEF Pin, Goto, Locals, Holds
  <2> QED  BY <1>9, <2>1, <2>2 DEF Pin, memory, counters
<1>10. CASE Unpin(t) \/ UnpinFails(t)
  <2>1. Superseded(t) \subseteq Roots /\ Kept \subseteq Kept'
    BY <1>10, <1>l DEF Unpin, UnpinFails, Superseded, Locals, Kept
  <2>2. task' \in [Tasks -> Locals] /\ \A u \in Tasks : Holds(task'[u], Kept')
    BY <1>10, <1>l, <2>1 DEF Unpin, UnpinFails, Goto, Locals, Holds
  <2>3. UNCHANGED <<memory, ipns, past, counters>>
    BY <1>10 DEF Unpin, UnpinFails
  <2>4. pins' \subseteq Roots /\ released' \subseteq Roots /\ stuck' \subseteq Roots
    BY <1>10, <2>1 DEF Unpin, UnpinFails
  <2> QED  BY <2>1, <2>2, <2>3, <2>4 DEF memory, counters
<1>11. CASE Install(t)
  <2>1. task[t].new \in Roots /\ task[t].new \in Kept
    BY <1>11, <1>l DEF Install, Holds
  <2>2. Kept' = Kept  BY <1>11 DEF Install, Kept, kubo
  <2>3. End(t) \/ \E job \in AllJobs, pc \in EmptyHanded : Begin(t, job, pc)
    BY <1>11, <1>l DEF Install, EmptyHanded, AllJobs, BootJobs, Jobs
  <2>4. task' \in [Tasks -> Locals] /\ \A u \in Tasks : Holds(task'[u], Kept')
    BY <2>2, <2>3, BeginKeeps, EndKeeps
  <2> QED  BY <1>11, <2>1, <2>2, <2>4 DEF Install, kubo, counters
<1>12. CASE MarkDirty(t)
  <2>1. Kept' = Kept  BY <1>12 DEF MarkDirty, Kept, kubo
  <2>2. task' \in [Tasks -> Locals] /\ \A u \in Tasks : Holds(task'[u], Kept')
    BY <1>12, <1>l, <2>1, BeginKeeps DEF MarkDirty, EmptyHanded, AllJobs, BootJobs, Jobs
  <2> QED  BY <1>12, <2>1, <2>2 DEF MarkDirty, kubo, counters
<1> QED
  BY <1>1, <1>2, <1>3, <1>4, <1>5, <1>6, <1>7, <1>8, <1>9, <1>10, <1>11, <1>12
  DEF SaveStep

\* A record names what world_cid named when it was read.
LEMMA PublishKeeps == \A t \in Tasks : Inv /\ PublishStep(t) => Inv'
<1> SUFFICES ASSUME NEW t \in Tasks, Inv, PublishStep(t) PROVE Inv'  OBVIOUS
<1> USE DEF Inv, TypeOK, HasRoot, At
<1>l. task[t] \in Locals /\ Holds(task[t], Kept) /\ task[t].job \in AllJobs
  BY DEF Locals, AllJobs, BootJobs
<1>0. Kept' = Kept
  BY DEF PublishStep, ReadStateCid, ReadWorldCid, Send, SendAgain, SendFails, Clear, Kept, kubo
<1>1. CASE ReadStateCid(t)
  <2> DEFINE l == Holding("pubroot", task[t].job, stateCid, None)
  <2>1. l \in Locals /\ Holds(l, Kept')
    BY <1>1, <1>l DEF ReadStateCid, Holding, Locals, Holds, AllJobs, BootJobs
  <2>2. task' = [task EXCEPT ![t] = l]  BY <1>1 DEF ReadStateCid, Become
  <2> HIDE DEF l
  <2>3. task' \in [Tasks -> Locals] /\ \A u \in Tasks : Holds(task'[u], Kept')
    BY <1>0, <2>1, <2>2, OneTaskMoves
  <2> QED  BY <1>1, <2>3, OnlyTasks DEF ReadStateCid
<1>2. CASE ReadWorldCid(t)
  <2> DEFINE l == Publishing("send", task[t].job,
                             [state |-> task[t].env, root |-> worldCid])
  <2>1. l \in Locals /\ Holds(l, Kept')
    BY <1>0, <1>2, <1>l
    DEF ReadWorldCid, Publishing, Locals, Holds, AllJobs, BootJobs, Records
  <2>2. task' = [task EXCEPT ![t] = l]  BY <1>2 DEF ReadWorldCid, Become
  <2> HIDE DEF l
  <2>3. task' \in [Tasks -> Locals] /\ \A u \in Tasks : Holds(task'[u], Kept')
    BY <1>0, <2>1, <2>2, OneTaskMoves
  <2> QED  BY <1>2, <2>3, OnlyTasks DEF ReadWorldCid
<1>3. CASE Send(t) \/ SendAgain(t)
  <2>1. ipns' \in Records /\ ipns'.root \in Kept /\ past' \in {"none", "linked", "lost"}
    BY <1>3, <1>l DEF Send, SendAgain, Point, Holds
  <2>2. task' \in [Tasks -> Locals] /\ \A u \in Tasks : Holds(task'[u], Kept')
    BY <1>0, <1>3, <1>l DEF Send, SendAgain, Goto, Locals, Holds
  <2> QED  BY <1>0, <1>3, <2>1, <2>2 DEF Send, SendAgain, memory, counters
<1>4. CASE SendFails(t)
  <2>1. task' \in [Tasks -> Locals] /\ \A u \in Tasks : Holds(task'[u], Kept')
    BY <1>0, <1>4, EndKeeps DEF SendFails
  <2> QED  BY <1>4, <2>1, OnlyTasks DEF SendFails
<1>5. CASE Clear(t)
  <2>1. task' \in [Tasks -> Locals] /\ \A u \in Tasks : Holds(task'[u], Kept')
    BY <1>0, <1>5, EndKeeps DEF Clear
  <2> QED  BY <1>0, <1>5, <2>1 DEF Clear, kubo, counters
<1> QED  BY <1>1, <1>2, <1>3, <1>4, <1>5 DEF PublishStep

LEMMA InvNext == Inv /\ [Next]_vars => Inv'
<1> SUFFICES ASSUME Inv, [Next]_vars PROVE Inv'  OBVIOUS
<1>1. CASE Next
  BY <1>1, BootKeeps, IdentityKeeps, RequestsKeep, CrashKeeps, SaveKeeps, PublishKeeps
  DEF Next, Handler, Tasks
<1>2. CASE UNCHANGED vars
  BY <1>2 DEF vars, Inv, TypeOK, Kept, HasRoot
<1> QED  BY <1>1, <1>2

\* Inv is an invariant of the specification.
THEOREM PublishInvAlways == Spec => []Inv
  BY InvInit, InvNext, PTL DEF Spec

\* save_encrypted_state, save_world_index, publish_to_ipns and the boot
\* sequence keep every component within its type, in any interleaving.
THEOREM PublishTypeCorrect == Spec => []TypeOK
<1>1. Inv => TypeOK  BY DEF Inv
<1> QED  BY <1>1, PublishInvAlways, PTL

\* publish_to_ipns: the root an IPNS record names was pinned, whatever fails,
\* races or restarts.
THEOREM PublishedAlwaysPinned == Spec => []PublishedWasPinned
<1>1. Inv => PublishedWasPinned  BY DEF Inv, PublishedWasPinned, Kept
<1> QED  BY <1>1, PublishInvAlways, PTL

-----------------------------------------------------------------------------
(* Who may be where *)

SavePcs == {"snap", "put", "room", "roomput", "prev", "index", "root", "pin",
            "unpin", "install", "mark"}
IndexPcs == {"prev", "index", "root", "pin", "unpin", "install"}
PublishPcs == {"pubstate", "pubroot", "send", "sent"}

Bootless == Tasks \ {"boot", "identity"}

\* The boot sequence: it writes the index, or saves, before it publishes.
BootPlaced(l) ==
  \/ l.job = "start" /\ l.pc = "start"
  \/ l.job = "restore" /\ l.pc \in IndexPcs
  \/ l.job = "bootstrap" /\ l.pc \in SavePcs
  \/ l = Holding("ended", "bootstrap", None, None)
  \/ l.job = "publish" /\ l.pc \in PublishPcs
  \/ l = Idle

Working(l) == l.pc \in SavePcs \cup PublishPcs

\* Lanes, publisher and HTTP handlers: idle until the world runs.
Placed ==
  /\ BootPlaced(task["boot"])
  /\ task["identity"] \in {Idle, Holding("bare", "identity", None, None)}
  /\ task["timer"].pc \in PublishPcs \cup {"idle"}
  /\ \A t \in Bootless : /\ task[t].job \in Jobs \cup {None}
                         /\ task[t] = Idle \/ (Running /\ Working(task[t]))

\* Where a save step leads a task from k.
SaveTo(k, l) ==
  \/ /\ l.job = k.job /\ l.pc \in SavePcs
     /\ k.job = "restore" /\ k.pc \in IndexPcs => l.pc \in IndexPcs
  \/ k.job \in {"restore", "bootstrap"} /\ l = Holding("pubstate", "publish", None, None)
  \/ k.job = "bootstrap" /\ l = Holding("ended", "bootstrap", None, None)
  \/ k.job # "bootstrap" /\ k.pc = "mark" /\ l.job = k.job /\ l.pc = "pubstate"
  \/ k.job \notin {"restore", "bootstrap"} /\ l = Idle

LEMMA FailTo ==
  ASSUME Inv, NEW t \in Tasks, Fail(t)
  PROVE  \E l : task' = [task EXCEPT ![t] = l] /\ SaveTo(task[t], l)
<1>1. CASE task[t].job = "restore"
  BY <1>1 DEF Fail, Begin, Become, SaveTo
<1>2. CASE task[t].job = "bootstrap"
  BY <1>2 DEF Fail, Begin, Become, SaveTo
<1>3. CASE task[t].job \notin {"restore", "bootstrap"}
  BY <1>3 DEF Fail, End, Become, SaveTo
<1> QED  BY <1>1, <1>2, <1>3

LEMMA SaveMoves ==
  ASSUME Inv, NEW t \in Tasks, SaveStep(t)
  PROVE  /\ task[t].pc \in SavePcs
         /\ \E l : task' = [task EXCEPT ![t] = l] /\ SaveTo(task[t], l)
<1> USE DEF Become, Begin, SavePcs, IndexPcs, At, SaveTo
<1>1. CASE PutFails(t) \/ PinFails(t)
  BY <1>1, FailTo DEF PutFails, PinFails
<1>2. CASE SnapState(t) \/ PutState(t) \/ SnapRoom(t)
  BY <1>2 DEF SnapState, PutState, SnapRoom, Holding
<1>3. CASE PutRoom(t) \/ ReadPrevious(t) \/ ReadRoomCids(t) \/ PutRoot(t)
  BY <1>3 DEF PutRoom, ReadPrevious, ReadRoomCids, PutRoot, Holding, Indexing
<1>4. CASE Pin(t) \/ Unpin(t) \/ UnpinFails(t)
  <2>1. PICK pc \in {"unpin", "install"} : task' = [task EXCEPT ![t] = [task[t] EXCEPT !.pc = pc]]
    BY <1>4 DEF Pin, Unpin, UnpinFails, Goto
  <2>2. task[t] \in Locals
    BY DEF Inv, TypeOK
  <2>3. [task[t] EXCEPT !.pc = pc].pc = pc /\ [task[t] EXCEPT !.pc = pc].job = task[t].job
    BY <2>2 DEF Locals
  <2> QED  BY <1>4, <2>1, <2>3 DEF Pin, Unpin, UnpinFails
<1>5. CASE Install(t)
  <2>1. CASE task[t].job \in {"save", "bootstrap"}
    BY <1>5, <2>1 DEF Install, Holding
  <2>2. CASE task[t].job = "restore"
    BY <1>5, <2>2 DEF Install
  <2>3. CASE task[t].job \notin {"save", "bootstrap", "restore"}
    BY <1>5, <2>3 DEF Install, End
  <2> QED  BY <2>1, <2>2, <2>3
<1>6. CASE MarkDirty(t)
  <2>1. CASE task[t].job = "bootstrap"
    <3>1. task' = [task EXCEPT ![t] = Holding("pubstate", "publish", None, None)]
      BY <1>6, <2>1 DEF MarkDirty
    <3> QED  BY <1>6, <2>1, <3>1 DEF MarkDirty
  <2>2. CASE task[t].job # "bootstrap"
    <3> DEFINE l == Holding("pubstate", task[t].job, None, None)
    <3>1. task' = [task EXCEPT ![t] = l]
      BY <1>6, <2>2 DEF MarkDirty
    <3>2. l.job = task[t].job /\ l.pc = "pubstate"
      BY DEF Holding
    <3> QED  BY <1>6, <2>2, <3>1, <3>2 DEF MarkDirty
  <2> QED  BY <2>1, <2>2
<1> QED  BY <1>1, <1>2, <1>3, <1>4, <1>5, <1>6 DEF SaveStep

LEMMA WorkerMoves ==
  ASSUME Inv, Placed, NEW t \in Bootless, NEW l, task' = [task EXCEPT ![t] = l],
         l.job \in Jobs \cup {None}, l = Idle \/ (Running /\ Working(l)),
         t = "timer" => l.pc \in PublishPcs \cup {"idle"}
  PROVE  Placed'
<1>1. /\ task'[t] = l
      /\ \A u \in Tasks : u # t => task'[u] = task[u]
      /\ Bootless \subseteq Tasks /\ {"boot", "identity", "timer"} \subseteq Tasks
      /\ t # "boot" /\ t # "identity"
  BY DEF Inv, TypeOK, Bootless, Tasks
<1>2. Running' = Running
  BY <1>1 DEF Running
<1> QED  BY <1>1, <1>2 DEF Placed

LEMMA BootMoves ==
  ASSUME Inv, Placed, NEW l, task' = [task EXCEPT !["boot"] = l],
         BootPlaced(l), Running => l.job \in {"publish", None}
  PROVE  Placed'
<1>1. /\ task'["boot"] = l
      /\ \A u \in Tasks : u # "boot" => task'[u] = task[u]
      /\ Bootless \subseteq Tasks /\ {"boot", "identity", "timer"} \subseteq Tasks
      /\ "boot" \notin Bootless
  BY DEF Inv, TypeOK, Bootless, Tasks
<1>2. Running => Running'
  BY <1>1 DEF Running
<1> QED  BY <1>1, <1>2 DEF Placed

\* A process that starts, again or for the first time.
LEMMA BootIsPlaced ==
  ASSUME task' = Boot
  PROVE  Placed'
<1>1. /\ task'["boot"] = Holding("start", "start", None, None)
      /\ task'["identity"] = Holding("bare", "identity", None, None)
      /\ \A t \in Bootless : task'[t] = Idle
      /\ "timer" \in Bootless
  BY PublishAssumption DEF Boot, Tasks, Bootless
<1>2. BootPlaced(task'["boot"])
  BY <1>1 DEF BootPlaced, Holding
<1>3. Idle.pc = "idle" /\ Idle.job = None
  BY DEF Idle, Holding
<1> QED  BY <1>1, <1>2, <1>3 DEF Placed

LEMMA PlacedInit == Init => Placed
<1> SUFFICES ASSUME Init PROVE Placed  OBVIOUS
<1>1. /\ task["boot"] = Holding("start", "start", None, None)
      /\ task["identity"] = Holding("bare", "identity", None, None)
      /\ \A t \in Bootless : task[t] = Idle
      /\ "timer" \in Bootless
  BY PublishAssumption DEF Init, Boot, Tasks, Bootless
<1>2. BootPlaced(task["boot"])
  BY <1>1 DEF BootPlaced, Holding
<1>3. Idle.pc = "idle" /\ Idle.job = None
  BY DEF Idle, Holding
<1> QED  BY <1>1, <1>2, <1>3 DEF Placed

\* Jobs that only the boot sequence has.
LEMMA OwnJobs ==
  /\ None \notin Jobs /\ None \notin BootJobs /\ Jobs \cap BootJobs = {}
  BY NoneAssumption DEF Jobs, BootJobs

LEMMA BootStepPlaced == Inv /\ Placed /\ BootStep => Placed'
<1> SUFFICES ASSUME Inv, Placed, BootStep PROVE Placed'  OBVIOUS
<1>1. task["boot"].pc = "start"
  BY DEF BootStep, Restore, RestoreRootOnly, Bootstrap, At
<1>2. task["boot"].job = "start" /\ ~Running
  BY <1>1, OwnJobs
  DEF Placed, BootPlaced, SavePcs, IndexPcs, PublishPcs, Holding, Idle, Running, BootJobs
<1>3. PICK job, pc : /\ Begin("boot", job, pc)
                     /\ \/ job = "restore" /\ pc = "prev"
                        \/ job = "publish" /\ pc = "pubstate"
                        \/ job = "bootstrap" /\ pc = "snap"
  BY DEF BootStep, Restore, RestoreRootOnly, Bootstrap
<1> DEFINE l == Holding(pc, job, None, None)
<1>4. task' = [task EXCEPT !["boot"] = l]  BY <1>3 DEF Begin, Become
<1>5. BootPlaced(l)
  BY <1>3 DEF BootPlaced, Holding, IndexPcs, PublishPcs, SavePcs
<1> HIDE DEF l
<1> QED  BY <1>2, <1>4, <1>5, BootMoves

LEMMA IdentityPlaced == Inv /\ Placed /\ Identity => Placed'
<1> SUFFICES ASSUME Inv, Placed, Identity PROVE Placed'  OBVIOUS
<1>1. UNCHANGED task \/ task' = [task EXCEPT !["identity"] = Idle]
  BY DEF Identity, PublishBare, RetryBare, GiveUpBare, End, Become
<1>2. \A t \in Tasks : t # "identity" => task'[t] = task[t]
  BY <1>1 DEF Inv, TypeOK
<1>3. task'["identity"] \in {Idle, Holding("bare", "identity", None, None)}
  BY <1>1 DEF Inv, TypeOK, Tasks, Placed
<1>4. Running' = Running
  BY <1>2 DEF Running, Tasks
<1> QED  BY <1>2, <1>3, <1>4 DEF Placed, Bootless, Tasks

LEMMA RequestsPlaced ==
  \A t \in Tasks : Inv /\ Placed /\ (LaneStep \/ Tick \/ Save(t)) => Placed'
<1> SUFFICES ASSUME NEW t \in Tasks, Inv, Placed, LaneStep \/ Tick \/ Save(t)
             PROVE  Placed'
  OBVIOUS
<1>1. CASE Change
  BY <1>1 DEF Change, Placed, Running
<1>2. CASE (LaneStep /\ ~Change) \/ Tick \/ Save(t)
  <2>1. PICK u \in Bootless, job \in Jobs, pc \in SavePcs \cup PublishPcs :
          Begin(u, job, pc) /\ Running /\ (u = "timer" => pc = "pubstate")
    <3>1. "lane" \in Bootless /\ "timer" \in Bootless /\ Admins \subseteq Bootless
          /\ "timer" \notin Admins
      BY PublishAssumption DEF Bootless, Tasks
    <3>2. CASE LaneStep /\ ~Change
      BY <3>1, <3>2
      DEF LaneStep, Dig, Refresh, Migrate, Publish, LaneIdle, Jobs, SavePcs, PublishPcs
    <3>3. CASE Tick
      BY <3>1, <3>3 DEF Tick, Jobs, PublishPcs
    <3>4. CASE Save(t)
      BY <3>1, <3>4 DEF Save, Jobs, SavePcs
    <3> QED  BY <1>2, <3>2, <3>3, <3>4
  <2> DEFINE l == Holding(pc, job, None, None)
  <2>2. task' = [task EXCEPT ![u] = l]  BY <2>1 DEF Begin, Become
  <2>3. l.job = job /\ l.pc = pc  BY DEF Holding
  <2> HIDE DEF l
  <2> QED  BY <2>1, <2>2, <2>3, WorkerMoves DEF Working, PublishPcs
<1> QED  BY <1>1, <1>2

LEMMA SaveStepPlaced == \A t \in Tasks : Inv /\ Placed /\ SaveStep(t) => Placed'
<1> SUFFICES ASSUME NEW t \in Tasks, Inv, Placed, SaveStep(t) PROVE Placed'  OBVIOUS
<1>1. task[t].pc \in SavePcs  BY SaveMoves
<1>2. PICK l : task' = [task EXCEPT ![t] = l] /\ SaveTo(task[t], l)  BY SaveMoves
<1>3. Idle.pc = "idle" /\ Idle.job = None  BY DEF Idle, Holding
<1>4. CASE t = "boot"
  <2>1. task[t].job \in {"restore", "bootstrap"} /\ ~Running
        /\ (task[t].job = "restore" => task[t].pc \in IndexPcs)
    BY <1>1, <1>3, <1>4, OwnJobs
    DEF Placed, BootPlaced, SavePcs, IndexPcs, PublishPcs, Holding, Running, BootJobs
  <2>2. BootPlaced(l)
    BY <1>2, <2>1 DEF SaveTo, BootPlaced, Holding, PublishPcs, IndexPcs
  <2> QED  BY <1>2, <1>4, <2>1, <2>2, BootMoves
<1>5. CASE t = "identity"
  BY <1>1, <1>5, <1>3 DEF Placed, Holding, SavePcs
<1>6. CASE t \in Bootless
  <2>1. t # "timer"
    BY <1>1, <1>6 DEF Placed, SavePcs, PublishPcs
  <2>2. Running /\ task[t].job \in Jobs \cup {None}
    BY <1>1, <1>3, <1>6 DEF Placed, SavePcs
  <2>3. task[t].job \notin {"restore", "bootstrap"}
    BY <2>2, OwnJobs DEF BootJobs
  <2>4. l.job \in Jobs \cup {None} /\ (l = Idle \/ Working(l))
    BY <1>2, <1>3, <2>2, <2>3 DEF SaveTo, Working, PublishPcs
  <2> QED  BY <1>2, <1>6, <2>1, <2>2, <2>4, WorkerMoves
<1> QED  BY <1>4, <1>5, <1>6 DEF Bootless

\* Where a publish step leads a task from k.
PublishTo(k, l) == (l.job = k.job /\ l.pc \in PublishPcs) \/ l = Idle

LEMMA PublishMoves ==
  ASSUME Inv, NEW t \in Tasks, PublishStep(t)
  PROVE  /\ task[t].pc \in PublishPcs
         /\ \E l : task' = [task EXCEPT ![t] = l] /\ PublishTo(task[t], l)
<1> USE DEF Become, PublishPcs, At, PublishTo
<1>1. CASE ReadStateCid(t) \/ ReadWorldCid(t)
  BY <1>1 DEF ReadStateCid, ReadWorldCid, Holding, Publishing
<1>2. CASE Send(t) \/ SendAgain(t)
  <2>1. task[t] \in Locals
    BY DEF Inv, TypeOK
  <2>2. [task[t] EXCEPT !.pc = "sent"].pc = "sent"
        /\ [task[t] EXCEPT !.pc = "sent"].job = task[t].job
    BY <2>1 DEF Locals
  <2>3. task = [task EXCEPT ![t] = task[t]]
    BY DEF Inv, TypeOK
  <2>4. CASE Send(t)
    BY <2>2, <2>4 DEF Send, Goto
  <2>5. CASE SendAgain(t)
    BY <2>3, <2>5 DEF SendAgain
  <2> QED  BY <1>2, <2>4, <2>5
<1>3. CASE SendFails(t) \/ Clear(t)
  BY <1>3 DEF SendFails, Clear, End
<1> QED  BY <1>1, <1>2, <1>3 DEF PublishStep

LEMMA PublishStepPlaced == \A t \in Tasks : Inv /\ Placed /\ PublishStep(t) => Placed'
<1> SUFFICES ASSUME NEW t \in Tasks, Inv, Placed, PublishStep(t) PROVE Placed'
  OBVIOUS
<1>1. task[t].pc \in PublishPcs  BY PublishMoves
<1>2. PICK l : task' = [task EXCEPT ![t] = l] /\ PublishTo(task[t], l)  BY PublishMoves
<1>3. Idle.pc = "idle" /\ Idle.job = None  BY DEF Idle, Holding
<1>4. CASE t = "boot"
  <2>1. task[t].job = "publish"
    BY <1>1, <1>3, <1>4 DEF Placed, BootPlaced, SavePcs, IndexPcs, PublishPcs, Holding
  <2>2. BootPlaced(l) /\ l.job \in {"publish", None}
    BY <1>2, <1>3, <2>1 DEF PublishTo, BootPlaced
  <2> QED  BY <1>2, <1>4, <2>2, BootMoves
<1>5. CASE t = "identity"
  BY <1>1, <1>5, <1>3 DEF Placed, Holding, PublishPcs
<1>6. CASE t \in Bootless
  <2>1. Running /\ task[t].job \in Jobs \cup {None}
    BY <1>1, <1>3, <1>6 DEF Placed, PublishPcs
  <2>2. l.job \in Jobs \cup {None} /\ (l = Idle \/ l.pc \in PublishPcs)
    BY <1>2, <1>3, <2>1 DEF PublishTo
  <2> QED  BY <1>2, <1>3, <1>6, <2>1, <2>2, WorkerMoves DEF Working
<1> QED  BY <1>4, <1>5, <1>6 DEF Bootless

LEMMA PlacedNext == Inv /\ Placed /\ [Next]_vars => Placed'
<1> SUFFICES ASSUME Inv, Placed, [Next]_vars PROVE Placed'  OBVIOUS
<1>1. CASE Crash
  BY <1>1, BootIsPlaced DEF Crash
<1>2. CASE UNCHANGED vars
  BY <1>2 DEF vars, Placed, Running
<1>3. CASE Next /\ ~Crash
  BY <1>3, BootStepPlaced, IdentityPlaced, RequestsPlaced, SaveStepPlaced,
     PublishStepPlaced
  DEF Next, Handler, Tasks
<1> QED  BY <1>1, <1>2, <1>3

-----------------------------------------------------------------------------
(* Memory is never older than what was published *)

\* No envelope that a task has in hand, or is about to publish, is newer than v.
Within(l, v) ==
  /\ l.env # None => l.env.runtime <= v
  /\ l.new # None => l.new.state.runtime <= v
  /\ l.pub # None => l.pub.root.state.runtime <= v

\* Inductive as long as no boot has lost what was published: every envelope the
\* process knows of is covered by memory, a bootstrap finds no root under the
\* name, and whoever has restored the published root covers it from then on.
Covered ==
  /\ runtime <= edits
  /\ stateCid # None => stateCid.runtime <= runtime
  /\ worldCid # None => worldCid.state.runtime <= runtime
  /\ \A t \in Tasks : Within(task[t], runtime)
  /\ HasRoot => /\ task["boot"].job # "bootstrap"
                /\ ipns.root.state.runtime <= edits
                /\ task["boot"].job # "start" => ipns.root.state.runtime <= runtime

CoveredUnlessLost == past # "lost" => Covered

LEMMA HeldRuntime ==
  ASSUME Inv
  PROVE  /\ runtime \in Nat /\ edits \in Nat
         /\ stateCid # None => stateCid \in Envelopes /\ stateCid.runtime \in Nat
         /\ worldCid # None => worldCid \in Roots /\ worldCid.state.runtime \in Nat
         /\ HasRoot => ipns.root.state.runtime \in Nat
  BY DEF Inv, TypeOK, HasRoot, Versions, Envelopes, Roots, Records

\* Tasks that hold nothing hold nothing too new.
LEMMA NothingTooNew ==
  ASSUME NEW pc, NEW job, NEW room, NEW v
  PROVE  Within(Holding(pc, job, None, room), v) /\ Within(Idle, v)
  BY DEF Within, Holding, Idle

\* A step that leaves the live content and the name alone.
LEMMA CoveredQuietly ==
  ASSUME Inv, Placed, Covered, NEW t \in Tasks, NEW l, task' = [task EXCEPT ![t] = l],
         Within(l, runtime), UNCHANGED <<edits, runtime, ipns>>,
         stateCid' = stateCid \/ stateCid'.runtime <= runtime,
         worldCid' = worldCid \/ worldCid'.state.runtime <= runtime,
         t = "boot" => /\ task[t].job # "start"
                       /\ l.job = "bootstrap" => task[t].job = "bootstrap"
  PROVE  Covered'
<1>1. task'[t] = l /\ "boot" \in Tasks
      /\ \A u \in Tasks : u # t => task'[u] = task[u]
  BY DEF Inv, TypeOK, Tasks
<1>2. \A u \in Tasks : Within(task'[u], runtime')
  BY <1>1 DEF Covered
<1>3. HasRoot' => /\ task'["boot"].job # "bootstrap"
                  /\ ipns'.root.state.runtime <= edits'
                  /\ task'["boot"].job # "start" => ipns'.root.state.runtime <= runtime'
  BY <1>1 DEF Covered, HasRoot
<1> QED  BY <1>2, <1>3 DEF Covered

\* No boot step is at the place of a save or a publish before the world started.
LEMMA BusyBoot ==
  ASSUME Placed, task["boot"].pc \in SavePcs \cup PublishPcs
  PROVE  task["boot"].job # "start"
  BY OwnJobs DEF Placed, BootPlaced, SavePcs, IndexPcs, PublishPcs, Holding, Idle, BootJobs

LEMMA FailCovers ==
  ASSUME Inv, Placed, CoveredUnlessLost, NEW t \in Tasks, Fail(t), task[t].pc \in SavePcs
  PROVE  CoveredUnlessLost'
<1>1. past' = past  BY DEF Fail, kubo, Lose
<1> SUFFICES ASSUME past # "lost" PROVE Covered'  BY <1>1 DEF CoveredUnlessLost
<1>2. Covered  BY DEF CoveredUnlessLost
<1>3. CASE task[t].job = "bootstrap"
  <2>1. t = "boot"
    BY <1>3, OwnJobs DEF Placed, Bootless, BootJobs, Holding, Idle, SavePcs
  <2>2. ~Running /\ ~HasRoot
    BY <1>2, <1>3, <2>1, OwnJobs DEF Running, BootJobs, Covered
  <2>3. /\ task' = [task EXCEPT !["boot"] = Holding("ended", "bootstrap", None, None)]
        /\ Lose
    BY <1>3, <2>1 DEF Fail, Begin, Become
  <2>4. \A u \in Tasks : Within(task'[u], 0)
    <3>1. Within(task'["boot"], 0)
      BY <2>3, NothingTooNew DEF Inv, TypeOK, Tasks
    <3> SUFFICES ASSUME NEW u \in Tasks, u # "boot" PROVE Within(task'[u], 0)
      BY <3>1
    <3>2. task'[u] = task[u]
      BY <2>3 DEF Inv, TypeOK
    <3>3. task[u] \in {Idle, Holding("bare", "identity", None, None)}
      BY <2>2 DEF Placed, Bootless
    <3> QED  BY <3>2, <3>3, NothingTooNew
  <2> QED  BY <2>2, <2>3, <2>4, HeldRuntime DEF Lose, Covered, HasRoot
<1>4. CASE task[t].job # "bootstrap"
  <2>1. PICK l \in {Idle, Holding("pubstate", "publish", None, None)} :
          task' = [task EXCEPT ![t] = l]
    BY <1>4 DEF Fail, Begin, End, Become
  <2>2. UNCHANGED <<memory, kubo, counters>>
    BY <1>4 DEF Fail
  <2>3. Within(l, runtime) /\ l.job # "bootstrap"
    BY <2>1, NothingTooNew, OwnJobs DEF Idle, Holding, BootJobs
  <2>4. t = "boot" => task[t].job # "start"
    BY BusyBoot
  <2> QED  BY <1>2, <2>1, <2>2, <2>3, <2>4, CoveredQuietly DEF memory, kubo, counters
<1> QED  BY <1>3, <1>4

LEMMA SaveCovers ==
  ASSUME Inv, Placed, CoveredUnlessLost, NEW t \in Tasks, SaveStep(t)
  PROVE  CoveredUnlessLost'
<1>1. task[t].pc \in SavePcs  BY SaveMoves
<1>2. CASE PutFails(t) \/ PinFails(t)
  BY <1>1, <1>2, FailCovers DEF PutFails, PinFails
<1>3. CASE ~(PutFails(t) \/ PinFails(t))
  <2>1. UNCHANGED <<past, edits, runtime, ipns>>
    BY <1>3
    DEF SaveStep, SnapState, PutState, SnapRoom, PutRoom, ReadPrevious, ReadRoomCids, PutRoot,
        Pin, Unpin, UnpinFails, Install, MarkDirty, memory, kubo, counters
  <2> SUFFICES ASSUME past # "lost" PROVE Covered'
    BY <2>1 DEF CoveredUnlessLost
  <2>2. Covered  BY DEF CoveredUnlessLost
  <2>3. task[t] \in Locals /\ Holds(task[t], Kept) /\ Within(task[t], runtime)
    BY <2>2 DEF Inv, TypeOK, Covered
  <2>4. t = "boot" => task[t].job # "start"
    BY <1>1, BusyBoot
  <2> SUFFICES \E l : /\ task' = [task EXCEPT ![t] = l] /\ Within(l, runtime)
                      /\ l.job = "bootstrap" => task[t].job = "bootstrap"
                      /\ stateCid' = stateCid \/ stateCid'.runtime <= runtime
                      /\ worldCid' = worldCid \/ worldCid'.state.runtime <= runtime
    BY <2>1, <2>2, <2>4, CoveredQuietly
  <2>5. CASE SnapState(t) \/ SnapRoom(t)
    <3>1. PICK pc, env, room : /\ task' = [task EXCEPT ![t] = Holding(pc, task[t].job, env, room)]
                               /\ env # None => env.runtime = runtime
      BY <2>5 DEF SnapState, SnapRoom, Become
    <3>2. Within(Holding(pc, task[t].job, env, room), runtime)
      BY <3>1, HeldRuntime DEF Holding, Within
    <3>3. Holding(pc, task[t].job, env, room).job = task[t].job
      BY DEF Holding
    <3> QED  BY <2>5, <3>1, <3>2, <3>3 DEF SnapState, SnapRoom, memory
  <2>6. CASE PutState(t)
    <3>1. stateCid'.runtime <= runtime
      BY <2>3, <2>6, NoneAssumption DEF PutState, At, Holds, Within, Sealed, Captures, Envelopes
    <3> QED  BY <2>6, <3>1 DEF PutState, Begin, Become, Holding, Within
  <2>7. CASE PutRoom(t) \/ ReadPrevious(t) \/ ReadRoomCids(t)
    BY <2>7
    DEF PutRoom, ReadPrevious, ReadRoomCids, Begin, Become, Holding, Indexing, Within, memory
  <2>8. CASE PutRoot(t)
    BY <2>2, <2>8 DEF PutRoot, Become, Indexing, Within, Covered, memory
  <2>9. CASE Pin(t) \/ Unpin(t) \/ UnpinFails(t)
    <3>1. PICK pc : task' = [task EXCEPT ![t] = [task[t] EXCEPT !.pc = pc]]
      BY <2>9 DEF Pin, Unpin, UnpinFails, Goto
    <3>2. Within([task[t] EXCEPT !.pc = pc], runtime)
          /\ [task[t] EXCEPT !.pc = pc].job = task[t].job
      BY <2>3 DEF Locals, Within
    <3> QED  BY <2>9, <3>1, <3>2 DEF Pin, Unpin, UnpinFails, memory
  <2>10. CASE Install(t)
    <3>1. worldCid'.state.runtime <= runtime
      BY <2>3, <2>10, NoneAssumption DEF Install, At, Holds, Within
    <3>2. PICK l : /\ task' = [task EXCEPT ![t] = l]
                   /\ l \in {Idle, Holding("mark", task[t].job, None, None),
                             Holding("pubstate", "publish", None, None)}
      BY <2>10 DEF Install, Begin, End, Become
    <3>3. Within(l, runtime) /\ (l.job = "bootstrap" => task[t].job = "bootstrap")
      BY <3>2, NothingTooNew, OwnJobs DEF Idle, Holding, BootJobs
    <3> QED  BY <2>10, <3>1, <3>2, <3>3 DEF Install
  <2>11. CASE MarkDirty(t)
    <3>1. PICK job \in {task[t].job, "publish"} :
            task' = [task EXCEPT ![t] = Holding("pubstate", job, None, None)]
      BY <2>11 DEF MarkDirty, Begin, Become
    <3> QED  BY <2>11, <3>1 DEF MarkDirty, Holding, Within
  <2> QED  BY <1>3, <2>5, <2>6, <2>7, <2>8, <2>9, <2>10, <2>11 DEF SaveStep
<1> QED  BY <1>2, <1>3

LEMMA PublishCovers ==
  ASSUME Inv, Placed, CoveredUnlessLost, NEW t \in Tasks, PublishStep(t)
  PROVE  CoveredUnlessLost'
<1>1. task[t].pc \in PublishPcs  BY PublishMoves
<1>2. /\ UNCHANGED <<edits, runtime, stateCid, worldCid>>
      /\ past' # "lost" => past # "lost"
  BY DEF PublishStep, ReadStateCid, ReadWorldCid, Send, SendAgain, SendFails, Clear, Point,
         memory, kubo, counters
<1> SUFFICES ASSUME past # "lost" PROVE Covered'
  BY <1>2 DEF CoveredUnlessLost
<1>3. Covered  BY DEF CoveredUnlessLost
<1>4. task[t] \in Locals /\ Holds(task[t], Kept) /\ Within(task[t], runtime)
  BY <1>3 DEF Inv, TypeOK, Covered
<1>5. t = "boot" => task[t].job # "start"
  BY <1>1, BusyBoot
<1>6. CASE Send(t) \/ SendAgain(t)
  <2>1. task[t].pub \in Records /\ task[t].pub.root.state.runtime <= runtime
    BY <1>4, <1>6, NoneAssumption DEF Send, SendAgain, At, Holds, Within
  <2>2. ipns' = task[t].pub
    BY <1>6 DEF Send, SendAgain, Point
  <2>3. /\ \A u \in Tasks : Within(task'[u], runtime)
        /\ \A u \in Tasks : task'[u].job = task[u].job
    BY <1>3, <1>4, <1>6 DEF Send, SendAgain, Goto, Covered, Within, Inv, TypeOK, Locals
  <2>4. task["boot"].job # "bootstrap"
    BY <1>1, OwnJobs DEF Placed, BootPlaced, Bootless, Tasks, Running, PublishPcs, SavePcs,
                         Holding, Idle, BootJobs
  <2>5. ipns'.root.state.runtime <= edits'
    BY <1>2, <1>3, <2>1, <2>2, HeldRuntime DEF Covered, Records, Roots, Envelopes, Versions
  <2> QED
    BY <1>2, <1>3, <2>1, <2>2, <2>3, <2>4, <2>5 DEF Covered, Tasks
<1>7. CASE ~(Send(t) \/ SendAgain(t))
  <2>1. UNCHANGED ipns
    BY <1>7 DEF PublishStep, ReadStateCid, ReadWorldCid, SendFails, Clear, kubo
  <2>2. \E l : /\ task' = [task EXCEPT ![t] = l] /\ Within(l, runtime)
               /\ l.job = "bootstrap" => task[t].job = "bootstrap"
    <3>1. CASE ReadStateCid(t)
      <4> DEFINE l == Holding("pubroot", task[t].job, stateCid, None)
      <4>1. Within(l, runtime) /\ l.job = task[t].job
        BY <1>3, <3>1 DEF ReadStateCid, Holding, Within, Covered
      <4>2. task' = [task EXCEPT ![t] = l]
        BY <3>1 DEF ReadStateCid, Become
      <4> QED  BY <4>1, <4>2
    <3>2. CASE ReadWorldCid(t)
      <4> DEFINE l == Publishing("send", task[t].job, [state |-> task[t].env, root |-> worldCid])
      <4>1. Within(l, runtime) /\ l.job = task[t].job
        BY <1>3, <3>2 DEF ReadWorldCid, Publishing, Within, Covered
      <4>2. task' = [task EXCEPT ![t] = l]
        BY <3>2 DEF ReadWorldCid, Become
      <4> QED  BY <4>1, <4>2
    <3>3. CASE SendFails(t) \/ Clear(t)
      <4>1. Idle.job # "bootstrap"
        BY OwnJobs DEF Idle, Holding, BootJobs
      <4> QED  BY <3>3, <4>1, NothingTooNew DEF SendFails, Clear, End, Become
    <3> QED  BY <1>7, <3>1, <3>2, <3>3 DEF PublishStep
  <2> QED  BY <1>2, <1>3, <1>5, <2>1, <2>2, CoveredQuietly
<1> QED  BY <1>6, <1>7

LEMMA BootCovers ==
  ASSUME Inv, Placed, CoveredUnlessLost, BootStep
  PROVE  CoveredUnlessLost'
<1>1. task["boot"].pc = "start"
  BY DEF BootStep, Restore, RestoreRootOnly, Bootstrap, At
<1>2. task["boot"].job = "start" /\ ~Running
  BY <1>1, OwnJobs
  DEF Placed, BootPlaced, SavePcs, IndexPcs, PublishPcs, Holding, Idle, Running, BootJobs
<1> SUFFICES ASSUME past' # "lost" PROVE Covered'
  BY DEF CoveredUnlessLost
<1>3. past # "lost" /\ Covered
  BY DEF BootStep, Restore, RestoreRootOnly, Bootstrap, CoveredUnlessLost
<1>4. \A v, u \in Tasks : u # "boot" => Within(task[u], v)
  BY <1>2, NothingTooNew DEF Placed, Bootless
<1>5. CASE Restore
  <2>1. task' = [task EXCEPT !["boot"] = Holding("prev", "restore", None, None)]
    BY <1>5 DEF Restore, Begin, Become
  <2>2. \A u \in Tasks : Within(task'[u], runtime')
    BY <1>2, <2>1, NothingTooNew DEF Inv, TypeOK, Placed, Bootless
  <2>3. ipns.root.state.runtime \in Nat /\ ipns.root.state.runtime <= edits
    BY <1>3, <1>5, HeldRuntime DEF Restore, Covered
  <2>4. task'["boot"].job # "bootstrap"
    BY <2>1 DEF Inv, TypeOK, Tasks, Holding
  <2> QED
    BY <1>5, <2>2, <2>3, <2>4 DEF Restore, Covered, HasRoot, counters
<1>6. CASE Bootstrap
  <2>1. task' = [task EXCEPT !["boot"] = Holding("snap", "bootstrap", None, None)]
    BY <1>6 DEF Bootstrap, Begin, Become
  <2>2. \A u \in Tasks : Within(task'[u], runtime)
    BY <1>2, <2>1, NothingTooNew DEF Inv, TypeOK, Placed, Bootless
  <2>3. ~HasRoot
    BY <1>6 DEF Bootstrap
  <2> QED
    BY <1>3, <1>6, <2>2, <2>3 DEF Bootstrap, Covered, HasRoot, memory, counters
<1>7. CASE RestoreRootOnly
  BY <1>7 DEF RestoreRootOnly
<1> QED  BY <1>5, <1>6, <1>7 DEF BootStep

LEMMA IdentityCovers ==
  ASSUME Inv, Placed, CoveredUnlessLost, Identity
  PROVE  CoveredUnlessLost'
<1>1. UNCHANGED <<past, memory, counters>> /\ (UNCHANGED ipns \/ ipns' = Bare)
  BY DEF Identity, PublishBare, RetryBare, GiveUpBare, kubo
<1> SUFFICES ASSUME past # "lost" PROVE Covered'
  BY <1>1 DEF CoveredUnlessLost
<1>2. Covered  BY DEF CoveredUnlessLost
<1>3. UNCHANGED task \/ task' = [task EXCEPT !["identity"] = Idle]
  BY DEF Identity, PublishBare, RetryBare, GiveUpBare, End, Become
<1>4. /\ \A u \in Tasks : Within(task'[u], runtime)
      /\ task'["boot"] = task["boot"]
  BY <1>2, <1>3, NothingTooNew DEF Inv, TypeOK, Covered, Tasks
<1> QED  BY <1>1, <1>2, <1>4 DEF Covered, HasRoot, memory, counters

LEMMA RequestsCover ==
  ASSUME Inv, Placed, CoveredUnlessLost, NEW t \in Tasks, LaneStep \/ Tick \/ Save(t)
  PROVE  CoveredUnlessLost'
<1> USE DEF LaneStep, Change, Dig, Refresh, Migrate, Publish, Tick, Save
<1>1. UNCHANGED <<past, stateCid, worldCid, ipns>>
  BY DEF memory, kubo
<1> SUFFICES ASSUME past # "lost" PROVE Covered'
  BY <1>1 DEF CoveredUnlessLost
<1>2. Covered  BY DEF CoveredUnlessLost
<1>3. /\ runtime <= runtime' /\ runtime' <= edits' /\ edits <= edits'
      /\ runtime' \in Nat /\ edits' \in Nat
  BY <1>2, HeldRuntime DEF NewVersion, Covered, memory, counters
<1>4. \A u \in Tasks : Within(task'[u], runtime)
  <2>1. \/ UNCHANGED task
        \/ \E u \in Tasks : \E job, pc : task' = [task EXCEPT ![u] = Holding(pc, job, None, None)]
    BY DEF Begin, Become, Tasks
  <2> QED  BY <1>2, <2>1, NothingTooNew DEF Covered, Inv, TypeOK
<1>5. \A u \in Tasks : Within(task'[u], runtime')
  <2> SUFFICES ASSUME NEW u \in Tasks PROVE Within(task'[u], runtime')
    OBVIOUS
  <2>1. task'[u] \in Locals
    BY InvNext DEF Next, Inv, TypeOK
  <2> QED  BY <1>3, <1>4, <2>1, HeldRuntime DEF Within, Locals, Captures, Envelopes, Roots, Records, Versions
<1>6. Running /\ task'["boot"] = task["boot"]
  <2>1. Running
    BY DEF LaneIdle
  <2>2. "boot" \notin Admins /\ "boot" \in Tasks
    BY PublishAssumption DEF Tasks
  <2> QED  BY <2>1, <2>2 DEF Begin, Become, Inv, TypeOK
<1> QED
  BY <1>1, <1>2, <1>3, <1>5, <1>6, HeldRuntime, OwnJobs DEF Covered, HasRoot, Running, BootJobs

LEMMA CrashCovers ==
  ASSUME Inv, CoveredUnlessLost, Crash
  PROVE  CoveredUnlessLost'
<1>1. /\ past' = past /\ runtime' = 0 /\ UNCHANGED <<edits, ipns>>
      /\ stateCid' = None /\ worldCid' = None /\ task' = Boot
  BY DEF Crash, Lose
<1> SUFFICES ASSUME past # "lost" PROVE Covered'
  BY <1>1 DEF CoveredUnlessLost
<1>2. Covered  BY DEF CoveredUnlessLost
<1>3. \A u \in Tasks : Within(task'[u], 0)
  <2>1. \A u \in Tasks : Boot[u] \in {Idle, Holding("start", "start", None, None),
                                      Holding("bare", "identity", None, None)}
    BY DEF Boot
  <2> QED  BY <1>1, <2>1, NothingTooNew
<1>4. task'["boot"].job = "start"
  BY <1>1 DEF Boot, Tasks, Holding
<1> QED  BY <1>1, <1>2, <1>3, <1>4, HeldRuntime DEF Covered, HasRoot

LEMMA CoveredInit == Init => CoveredUnlessLost
<1> SUFFICES ASSUME Init PROVE Covered  BY DEF CoveredUnlessLost
<1>1. \A u \in Tasks : task[u] \in {Idle, Holding("start", "start", None, None),
                                    Holding("bare", "identity", None, None)}
  BY DEF Init, Boot
<1> QED  BY <1>1, NothingTooNew DEF Init, Covered, HasRoot

LEMMA CoveredNext ==
  ASSUME Inv, Placed, CoveredUnlessLost, [Next]_vars
  PROVE  CoveredUnlessLost'
<1>1. CASE UNCHANGED vars
  BY <1>1 DEF vars, CoveredUnlessLost, Covered, HasRoot
<1> QED
  BY <1>1, BootCovers, IdentityCovers, RequestsCover, CrashCovers, SaveCovers, PublishCovers
  DEF Next, Handler, Tasks

\* load_encrypted_state at boot and save_encrypted_state: as long as no boot had
\* to go on without what was published, a world that runs is at least as new as
\* the envelope under its name, whatever crashed, failed or raced.
THEOREM MemoryAlwaysCovers == Spec => []MemoryCoversPublished
<1>1. Init => Inv /\ Placed /\ CoveredUnlessLost
  BY InvInit, PlacedInit, CoveredInit
<1>2. Inv /\ Placed /\ CoveredUnlessLost /\ [Next]_vars
        => (Inv /\ Placed /\ CoveredUnlessLost)'
  BY InvNext, PlacedNext, CoveredNext
<1>3. Inv /\ Placed /\ CoveredUnlessLost => MemoryCoversPublished
  <2> SUFFICES ASSUME Inv, CoveredUnlessLost, Running, HasRoot, past # "lost"
               PROVE  runtime >= ipns.root.state.runtime
    BY DEF MemoryCoversPublished
  <2> QED  BY HeldRuntime, OwnJobs DEF CoveredUnlessLost, Covered, Running, BootJobs
<1> QED  BY <1>1, <1>2, <1>3, PTL DEF Spec

-----------------------------------------------------------------------------
(* One task saves at a time: no save comes over HTTP *)

\* Then whoever saves is alone.
LEMMA OneSaver ==
  ASSUME Admins = {}, Placed, NEW t \in Tasks, task[t].pc \in SavePcs,
         NEW u \in Tasks, u # t
  PROVE  task[u].pc \notin SavePcs
<1>1. Idle.pc = "idle" /\ Idle.job = None  BY DEF Idle, Holding
<1>2. Tasks = {"boot", "identity", "lane", "timer"} /\ Bootless = {"lane", "timer"}
  BY DEF Tasks, Bootless
<1>3. task["identity"].pc \notin SavePcs /\ task["timer"].pc \notin SavePcs
  BY <1>1 DEF Placed, Holding, SavePcs, PublishPcs
<1>4. task["lane"].pc \in SavePcs => Running
  BY <1>1, <1>2 DEF Placed, SavePcs
<1>5. Running => task["boot"].pc \notin SavePcs
  BY <1>1, OwnJobs DEF Running, Placed, BootPlaced, SavePcs, IndexPcs, PublishPcs, Holding, BootJobs
<1> QED  BY <1>2, <1>3, <1>4, <1>5

\* A task that saves the state has the rooms' content of the envelope behind it:
\* whatever it reads of the rooms, and `cid` once it has written it, is as new.
Saving(l) == l.job \in {"save", "bootstrap"}
OrderedIn(l, live, cid, state) ==
  /\ l.pc = "put" => l.env.rooms <= live
  /\ l.pc = "room" => state.rooms <= live
  /\ l.pc = "roomput" => state.rooms <= l.room
  /\ l.pc \in {"prev", "index"} => state.rooms <= cid
  /\ l.pc = "root" => state.rooms <= l.room
  /\ l.new # None => l.new.state.rooms <= l.new.rooms

Ordered == \A t \in Tasks : Saving(task[t]) => OrderedIn(task[t], rooms, roomCid, stateCid)

\* The saver moves.
LEMMA OrderedAlone ==
  ASSUME Admins = {}, Inv, Placed, Ordered, NEW t \in Tasks, task[t].pc \in SavePcs,
         NEW l, task' = [task EXCEPT ![t] = l],
         Saving(l) => OrderedIn(l, rooms', roomCid', stateCid')
  PROVE  Ordered'
<1> SUFFICES ASSUME NEW u \in Tasks, Saving(task'[u])
             PROVE  OrderedIn(task'[u], rooms', roomCid', stateCid')
  BY DEF Ordered
<1>1. CASE u = t
  BY <1>1 DEF Inv, TypeOK
<1>2. CASE u # t
  BY <1>2, OneSaver DEF Inv, TypeOK, Ordered, OrderedIn, SavePcs
<1> QED  BY <1>1, <1>2

\* Another task moves, or one begins.
LEMMA OrderedBeside ==
  ASSUME Inv, Ordered, UNCHANGED <<rooms, roomCid, stateCid>>,
         NEW t \in Tasks, NEW l, task' = [task EXCEPT ![t] = l],
         l.pc \notin SavePcs \/ l.pc = "snap", l.new = None
  PROVE  Ordered'
<1> SUFFICES ASSUME NEW u \in Tasks, Saving(task'[u])
             PROVE  OrderedIn(task'[u], rooms, roomCid, stateCid)
  BY DEF Ordered
<1>1. CASE u = t
  BY <1>1 DEF Inv, TypeOK, OrderedIn, SavePcs
<1>2. CASE u # t
  BY <1>2 DEF Inv, TypeOK, Ordered
<1> QED  BY <1>1, <1>2

\* Nobody is at work on a save.
LEMMA OrderedAtRest ==
  ASSUME Inv, \A t \in Tasks : task[t].pc \notin SavePcs /\ (Saving(task[t]) => task[t].new = None)
  PROVE  Ordered
  BY DEF Ordered, OrderedIn, SavePcs

LEMMA FailOrders ==
  ASSUME Admins = {}, Inv, Placed, Ordered, NEW t \in Tasks, Fail(t), task[t].pc \in SavePcs
  PROVE  Ordered'
<1>1. PICK l \in {Idle, Holding("pubstate", "publish", None, None),
                  Holding("ended", "bootstrap", None, None)} : task' = [task EXCEPT ![t] = l]
  BY DEF Fail, Begin, End, Become
<1>2. l.pc \notin SavePcs /\ l.new = None
  BY <1>1 DEF Idle, Holding, SavePcs
<1> QED  BY <1>1, <1>2, OrderedAlone DEF OrderedIn, SavePcs

LEMMA SaveOrders ==
  ASSUME Admins = {}, Inv, Placed, Ordered, NEW t \in Tasks, SaveStep(t)
  PROVE  Ordered'
<1>1. task[t].pc \in SavePcs  BY SaveMoves
<1>2. /\ task[t] \in Locals /\ Holds(task[t], Kept)
      /\ rooms \in Nat /\ roomCid \in Nat
      /\ stateCid # None => stateCid.rooms \in Nat
      /\ Saving(task[t]) => OrderedIn(task[t], rooms, roomCid, stateCid)
  BY DEF Inv, TypeOK, Versions, Envelopes, Ordered
<1>3. CASE PutFails(t) \/ PinFails(t)
  BY <1>1, <1>3, FailOrders DEF PutFails, PinFails
<1>4. CASE ~(PutFails(t) \/ PinFails(t))
  <2>1. CASE SnapState(t)
    <3> DEFINE env == [rooms |-> rooms, runtime |-> runtime, cids |-> roomCid]
    <3> DEFINE l == Holding("put", task[t].job, env, None)
    <3>1. task' = [task EXCEPT ![t] = l]
      BY <2>1 DEF SnapState, Become
    <3>2. l.pc = "put" /\ l.env.rooms = rooms /\ l.new = None
      BY DEF Holding
    <3>3. rooms' = rooms /\ rooms <= rooms
      BY <1>2, <2>1 DEF SnapState, memory
    <3> HIDE DEF l
    <3>4. Saving(l) => OrderedIn(l, rooms', roomCid', stateCid')
      BY <3>2, <3>3 DEF OrderedIn
    <3> QED  BY <1>1, <3>1, <3>4, OrderedAlone
  <2>2. CASE PutState(t)
    <3> DEFINE l == Holding("room", task[t].job, None, None)
    <3>1. task' = [task EXCEPT ![t] = l]
      BY <2>2 DEF PutState, Begin, Become
    <3>2. Saving(task[t]) => stateCid'.rooms <= rooms'
      BY <1>2, <2>2 DEF PutState, OrderedIn, At, Sealed
    <3>3. Saving(l) => OrderedIn(l, rooms', roomCid', stateCid')
      BY <3>1, <3>2 DEF Holding, OrderedIn, Saving
    <3> HIDE DEF l
    <3> QED  BY <1>1, <3>1, <3>3, OrderedAlone
  <2>3. CASE SnapRoom(t)
    <3> DEFINE l == Holding("roomput", task[t].job, None, rooms)
    <3>1. task' = [task EXCEPT ![t] = l]
      BY <2>3 DEF SnapRoom, Become
    <3>2. Saving(l) => OrderedIn(l, rooms', roomCid', stateCid')
      BY <1>2, <2>3, <3>1 DEF SnapRoom, Holding, OrderedIn, At, Saving, memory
    <3> HIDE DEF l
    <3> QED  BY <1>1, <3>1, <3>2, OrderedAlone
  <2>4. CASE PutRoom(t)
    <3> DEFINE l == Holding("prev", task[t].job, None, None)
    <3>1. task' = [task EXCEPT ![t] = l]
      BY <2>4 DEF PutRoom, Begin, Become
    <3>2. Saving(l) => OrderedIn(l, rooms', roomCid', stateCid')
      BY <1>2, <2>4, <3>1 DEF PutRoom, Holding, OrderedIn, At, Saving
    <3> HIDE DEF l
    <3> QED  BY <1>1, <3>1, <3>2, OrderedAlone
  <2>5. CASE ReadPrevious(t)
    <3> DEFINE l == Indexing("index", task[t].job, None, worldCid, None)
    <3>1. task' = [task EXCEPT ![t] = l]
      BY <2>5 DEF ReadPrevious, Become
    <3>2. Saving(l) => OrderedIn(l, rooms', roomCid', stateCid')
      BY <1>2, <2>5, <3>1 DEF ReadPrevious, Indexing, OrderedIn, At, Saving, memory
    <3> HIDE DEF l
    <3> QED  BY <1>1, <3>1, <3>2, OrderedAlone
  <2>6. CASE ReadRoomCids(t)
    <3> DEFINE l == Indexing("root", task[t].job, roomCid, task[t].prev, None)
    <3>1. task' = [task EXCEPT ![t] = l]
      BY <2>6 DEF ReadRoomCids, Become
    <3>2. Saving(l) => OrderedIn(l, rooms', roomCid', stateCid')
      BY <1>2, <2>6, <3>1 DEF ReadRoomCids, Indexing, OrderedIn, At, Saving, memory
    <3> HIDE DEF l
    <3> QED  BY <1>1, <3>1, <3>2, OrderedAlone
  <2>7. CASE PutRoot(t)
    <3> DEFINE new == [rooms |-> task[t].room, meta |-> runtime, state |-> stateCid]
    <3> DEFINE l == Indexing("pin", task[t].job, None, task[t].prev, new)
    <3>1. task' = [task EXCEPT ![t] = l]
      BY <2>7 DEF PutRoot, Become
    <3>2. Saving(l) => OrderedIn(l, rooms', roomCid', stateCid')
      BY <1>2, <2>7, <3>1 DEF PutRoot, Indexing, OrderedIn, At, Saving, memory
    <3> HIDE DEF l
    <3> QED  BY <1>1, <3>1, <3>2, OrderedAlone
  <2>8. CASE Pin(t) \/ Unpin(t) \/ UnpinFails(t)
    <3>1. PICK pc \in {"unpin", "install"} : task' = [task EXCEPT ![t] = [task[t] EXCEPT !.pc = pc]]
      BY <2>8 DEF Pin, Unpin, UnpinFails, Goto
    <3> DEFINE l == [task[t] EXCEPT !.pc = pc]
    <3>2. l.pc = pc /\ l.new = task[t].new /\ l.job = task[t].job
      BY <1>2 DEF Locals
    <3>3. Saving(l) => OrderedIn(l, rooms', roomCid', stateCid')
      BY <1>2, <3>1, <3>2 DEF OrderedIn, Saving
    <3> HIDE DEF l
    <3> QED  BY <1>1, <3>1, <3>3, OrderedAlone DEF l
  <2>9. CASE Install(t) \/ MarkDirty(t)
    <3>1. PICK pc, job : /\ task' = [task EXCEPT ![t] = Holding(pc, job, None, None)]
                         /\ pc \in {"mark", "pubstate", "idle"}
      BY <2>9 DEF Install, MarkDirty, Begin, End, Idle, Become
    <3>2. OrderedIn(Holding(pc, job, None, None), rooms', roomCid', stateCid')
      BY <3>1 DEF Holding, OrderedIn
    <3> QED  BY <1>1, <3>1, <3>2, OrderedAlone
  <2> QED  BY <1>4, <2>1, <2>2, <2>3, <2>4, <2>5, <2>6, <2>7, <2>8, <2>9 DEF SaveStep
<1> QED  BY <1>3, <1>4

LEMMA PublishOrders ==
  ASSUME Inv, Ordered, NEW t \in Tasks, PublishStep(t)
  PROVE  Ordered'
<1>1. UNCHANGED <<rooms, roomCid, stateCid>>
  BY DEF PublishStep, ReadStateCid, ReadWorldCid, Send, SendAgain, SendFails, Clear, memory
<1>2. CASE Send(t) \/ SendAgain(t)
  <2>1. \A u \in Tasks : /\ task'[u].job = task[u].job /\ task'[u].new = task[u].new
                         /\ task'[u] = task[u] \/ task'[u].pc = "sent"
    BY <1>2 DEF Send, SendAgain, Goto, Inv, TypeOK, Locals
  <2> QED  BY <1>1, <2>1 DEF Ordered, OrderedIn, Saving
<1>3. CASE ~(Send(t) \/ SendAgain(t))
  <2>1. PICK l : /\ task' = [task EXCEPT ![t] = l]
                 /\ \/ \E env : l = Holding("pubroot", task[t].job, env, None)
                    \/ \E pub : l = Publishing("send", task[t].job, pub)
                    \/ l = Idle
    BY <1>3 DEF PublishStep, ReadStateCid, ReadWorldCid, SendFails, Clear, End, Become
  <2>2. l.pc \notin SavePcs /\ l.new = None
    BY <2>1 DEF Holding, Publishing, Idle, SavePcs
  <2> QED  BY <1>1, <2>1, <2>2, OrderedBeside
<1> QED  BY <1>2, <1>3

\* The boot sequence begins: nobody else is at work.
LEMMA BootOrders ==
  ASSUME Inv, Placed, Ordered, BootStep
  PROVE  Ordered'
<1>1. task["boot"].pc = "start"
  BY DEF BootStep, Restore, RestoreRootOnly, Bootstrap, At
<1>2. ~Running
  BY <1>1, OwnJobs
  DEF Placed, BootPlaced, SavePcs, IndexPcs, PublishPcs, Holding, Idle, Running, BootJobs
<1>3. PICK pc, job : /\ task' = [task EXCEPT !["boot"] = Holding(pc, job, None, None)]
                     /\ \/ job = "restore" /\ pc = "prev"
                        \/ job = "publish" /\ pc = "pubstate"
                        \/ job = "bootstrap" /\ pc = "snap"
  BY DEF BootStep, Restore, RestoreRootOnly, Bootstrap, Begin, Become
<1> SUFFICES ASSUME NEW u \in Tasks, Saving(task'[u])
             PROVE  OrderedIn(task'[u], rooms', roomCid', stateCid')
  BY DEF Ordered
<1>4. CASE u = "boot"
  BY <1>3, <1>4 DEF Inv, TypeOK, Saving, Holding, OrderedIn
<1>5. CASE u # "boot"
  <2>1. task'[u] \in {Idle, Holding("bare", "identity", None, None)}
    BY <1>2, <1>3, <1>5 DEF Inv, TypeOK, Placed, Bootless
  <2> QED  BY <2>1 DEF Idle, Holding, OrderedIn
<1> QED  BY <1>4, <1>5

LEMMA OrderedNext ==
  ASSUME Admins = {}, Inv, Placed, Ordered, [Next]_vars
  PROVE  Ordered'
<1>1. CASE UNCHANGED vars
  BY <1>1 DEF vars, Ordered
<1>2. CASE Crash
  <2>1. \A u \in Tasks : task'[u] \in {Idle, Holding("start", "start", None, None),
                                       Holding("bare", "identity", None, None)}
    BY <1>2 DEF Crash, Boot
  <2> QED  BY <2>1 DEF Ordered, OrderedIn, Idle, Holding
<1>3. CASE Identity
  <2>1. UNCHANGED <<rooms, roomCid, stateCid>>
    BY <1>3 DEF Identity, PublishBare, RetryBare, GiveUpBare, memory
  <2>2. CASE UNCHANGED task
    BY <2>1, <2>2 DEF Ordered
  <2>3. CASE task' = [task EXCEPT !["identity"] = Idle]
    <3>1. Idle.pc \notin SavePcs /\ Idle.new = None
      BY DEF Idle, Holding, SavePcs
    <3> QED  BY <2>1, <2>3, <3>1, OrderedBeside DEF Tasks
  <2> QED
    BY <1>3, <2>2, <2>3 DEF Identity, PublishBare, RetryBare, GiveUpBare, End, Become
<1>4. CASE \E t \in Tasks : LaneStep \/ Tick \/ Save(t)
  <2>1. CASE Change
    BY <2>1 DEF Change, Ordered
  <2>2. CASE Dig
    <3>1. \A t \in Tasks : task[t].pc \notin SavePcs
      <4>1. Running /\ task["lane"].pc = "idle"
        BY <2>2 DEF Dig, LaneIdle, At
      <4>2. Tasks = {"boot", "identity", "lane", "timer"}
        BY DEF Tasks
      <4>3. task["boot"].pc \notin SavePcs
        BY <4>1, OwnJobs
        DEF Running, Placed, BootPlaced, SavePcs, IndexPcs, PublishPcs, Holding, Idle, BootJobs
      <4>4. task["identity"].pc \notin SavePcs /\ task["timer"].pc \notin SavePcs
        BY DEF Placed, Holding, Idle, SavePcs, PublishPcs
      <4> QED  BY <4>1, <4>2, <4>3, <4>4 DEF SavePcs
    <3>2. task' = [task EXCEPT !["lane"] = Holding("room", "dig", None, None)]
      BY <2>2 DEF Dig, Begin, Become
    <3> SUFFICES ASSUME NEW u \in Tasks, Saving(task'[u])
                 PROVE  OrderedIn(task'[u], rooms', roomCid', stateCid')
      BY DEF Ordered
    <3>3. u # "lane"
      BY <3>2 DEF Saving, Holding, Inv, TypeOK
    <3>4. task'[u] = task[u]
      BY <3>2, <3>3 DEF Inv, TypeOK
    <3> QED  BY <3>1, <3>4 DEF Ordered, OrderedIn, SavePcs
  <2>3. CASE Refresh \/ Migrate
    <3>1. PICK pc \in {"prev", "room"}, job \in {"refresh", "migrate"} :
            task' = [task EXCEPT !["lane"] = Holding(pc, job, None, None)]
      BY <2>3 DEF Refresh, Migrate, Begin, Become
    <3>2. UNCHANGED <<rooms, roomCid, stateCid>>
      BY <2>3 DEF Refresh, Migrate, memory
    <3>3. ~ Saving(Holding(pc, job, None, None))
      BY <3>1 DEF Saving, Holding
    <3> QED  BY <3>1, <3>2, <3>3 DEF Ordered, Inv, TypeOK
  <2>4. CASE \E t \in Tasks : Publish \/ Tick \/ Save(t)
    <3>1. PICK u \in Tasks, pc \in {"snap", "pubstate"}, job \in Jobs :
            task' = [task EXCEPT ![u] = Holding(pc, job, None, None)]
      BY <2>4 DEF Publish, Tick, Save, Begin, Become, Tasks, Jobs
    <3>2. UNCHANGED <<rooms, roomCid, stateCid>>
      BY <2>4 DEF Publish, Tick, Save, memory
    <3> DEFINE l == Holding(pc, job, None, None)
    <3>3. (l.pc \notin SavePcs \/ l.pc = "snap") /\ l.new = None
      BY <3>1 DEF Holding, SavePcs
    <3> HIDE DEF l
    <3> QED  BY <3>1, <3>2, <3>3, OrderedBeside DEF l
  <2> QED  BY <1>4, <2>1, <2>2, <2>3, <2>4 DEF LaneStep
<1> QED
  BY <1>1, <1>2, <1>3, <1>4, BootOrders, SaveOrders, PublishOrders DEF Next, Handler, Tasks

\* save_encrypted_state: while only the boot sequence and the avatar lane save,
\* the root a save ends with names a snapshot of the rooms that is as new as the
\* rooms inside its envelope, whatever failed before and however often the
\* process was restarted.
THEOREM SavedRootAlwaysCovers ==
  ASSUME Admins = {}
  PROVE  Spec => []SavedRootCoversState
<1>1. Init => Inv /\ Placed /\ Ordered
  <2> SUFFICES ASSUME Init PROVE Ordered
    BY InvInit, PlacedInit
  <2>1. \A u \in Tasks : task[u] \in {Idle, Holding("start", "start", None, None),
                                      Holding("bare", "identity", None, None)}
    BY DEF Init, Boot
  <2> QED  BY <2>1 DEF Ordered, OrderedIn, Idle, Holding
<1>2. Inv /\ Placed /\ Ordered /\ [Next]_vars => (Inv /\ Placed /\ Ordered)'
  BY InvNext, PlacedNext, OrderedNext
<1>3. Inv /\ Ordered => SavedRootCoversState
  <2> SUFFICES ASSUME Inv, Ordered, NEW t \in Tasks,
                      task[t].job \in {"save", "bootstrap"}, task[t].new # None
               PROVE  task[t].new.rooms >= task[t].new.state.rooms
    BY DEF SavedRootCoversState
  <2>1. task[t].new.state.rooms <= task[t].new.rooms
    BY DEF Ordered, OrderedIn, Saving
  <2>2. task[t].new \in Roots
    BY DEF Inv, TypeOK, Locals
  <2> QED  BY <2>1, <2>2 DEF Roots, Envelopes, Versions
<1> QED  BY <1>1, <1>2, <1>3, PTL DEF Spec

-----------------------------------------------------------------------------
(* One pin, in one life of a process that nobody saves over HTTP *)

\* What a task that writes the index relies on: the root it read as the current
\* one still is, and nobody else pins or releases meanwhile.
PinnedIn(l, current, kept, orphans) ==
  /\ l.pc \in {"index", "root", "pin", "unpin", "install"} => l.prev = current
  /\ l.pc \in {"unpin", "install"} => l.new \in kept
  /\ l.pc = "unpin" => kept \subseteq {current, l.new} \cup orphans
  /\ l.pc = "install" => kept \subseteq {l.new} \cup orphans

Exchanging == {"unpin", "install"}

\* Inductive: outside of the exchange of two roots the pins are the current
\* root's and the orphans', and a bootstrap is the only boot there is.
Pinned ==
  /\ restarts = 0
  /\ task["boot"].job = "start" => ~HasRoot
  /\ \A t \in Tasks : PinnedIn(task[t], worldCid, pins, stuck)
  /\ (\A t \in Tasks : task[t].pc \notin Exchanging) => pins \subseteq {worldCid} \cup stuck
  /\ worldCid # None /\ (\A t \in Tasks : task[t].pc # "install") => worldCid \in pins

\* A task that does not exchange roots goes somewhere it has read none.
LEMMA PinnedQuietly ==
  ASSUME Inv, Pinned, NEW t \in Tasks, task[t].pc \notin Exchanging,
         NEW l, task' = [task EXCEPT ![t] = l],
         PinnedIn(l, worldCid, pins, stuck), l.pc \notin Exchanging,
         UNCHANGED <<worldCid, pins, stuck, restarts>>,
         task'["boot"].job = "start" => ~HasRoot'
  PROVE  Pinned'
<1>1. task'[t] = l /\ \A u \in Tasks : u # t => task'[u] = task[u]
  BY DEF Inv, TypeOK
<1>2. \A u \in Tasks : task'[u].pc \in Exchanging <=> task[u].pc \in Exchanging
  BY <1>1
<1>3. \A u \in Tasks : task'[u].pc = "install" <=> task[u].pc = "install"
  BY <1>1 DEF Exchanging
<1>4. \A u \in Tasks : PinnedIn(task'[u], worldCid, pins, stuck)
  BY <1>1 DEF Pinned
<1> QED  BY <1>2, <1>3, <1>4 DEF Pinned

\* Where a task has read no root.
LEMMA NoRootRead ==
  ASSUME NEW pc, NEW job, NEW env, NEW room, NEW current, NEW kept, NEW orphans,
         pc \notin {"index", "root", "pin", "unpin", "install"}
  PROVE  PinnedIn(Holding(pc, job, env, room), current, kept, orphans)
  BY DEF PinnedIn, Holding

\* Only the start of the boot sequence is at a start.
LEMMA StillStarted ==
  ASSUME Inv, Placed, Pinned, NEW t \in Tasks, task[t].pc \in SavePcs \cup PublishPcs,
         NEW l, task' = [task EXCEPT ![t] = l], SaveTo(task[t], l) \/ PublishTo(task[t], l)
  PROVE  task'["boot"].job # "start"
<1>1. task["boot"].job # "start"
  <2>1. CASE t = "boot"
    BY <2>1, BusyBoot
  <2>2. CASE t # "boot"
    <3>1. Running
      BY <2>2 DEF Placed, Bootless, SavePcs, PublishPcs, Idle, Holding
    <3> QED  BY <3>1, OwnJobs DEF Running, BootJobs
  <2> QED  BY <2>1, <2>2
<1>2. l.job \in {task[t].job, "publish", "bootstrap", None}
  BY DEF SaveTo, PublishTo, Idle, Holding
<1> QED  BY <1>1, <1>2, OwnJobs DEF Inv, TypeOK, Tasks, BootJobs

\* A save or publish step that does not exchange roots.
LEMMA PinnedBeside ==
  ASSUME Inv, Placed, Pinned, NEW t \in Tasks,
         task[t].pc \in (SavePcs \cup PublishPcs) \ Exchanging,
         NEW l, task' = [task EXCEPT ![t] = l], SaveTo(task[t], l) \/ PublishTo(task[t], l),
         PinnedIn(l, worldCid, pins, stuck), l.pc \notin Exchanging,
         UNCHANGED <<worldCid, pins, stuck, restarts>>
  PROVE  Pinned'
  BY PinnedQuietly, StillStarted

LEMMA SavePins ==
  ASSUME Admins = {}, Inv, Placed, Pinned, NEW t \in Tasks, SaveStep(t)
  PROVE  Pinned'
<1>1. task[t].pc \in SavePcs  BY SaveMoves
<1>2. PICK l : task' = [task EXCEPT ![t] = l] /\ SaveTo(task[t], l)  BY SaveMoves
<1>3. \A u \in Tasks : u # t => task[u].pc \notin SavePcs /\ task'[u] = task[u]
  BY <1>1, <1>2, OneSaver DEF Inv, TypeOK
<1>4. /\ task'["boot"].job # "start" /\ task'[t] = l
      /\ task[t] \in Locals /\ Holds(task[t], Kept)
      /\ PinnedIn(task[t], worldCid, pins, stuck)
  BY <1>1, <1>2, StillStarted DEF Inv, TypeOK, Pinned
<1>5. \A u \in Tasks : u # t => task[u].pc \notin {"index", "root", "pin", "unpin", "install"}
  BY <1>3 DEF SavePcs
<1>6. \A u \in Tasks : u # t => \A w, k, o : PinnedIn(task'[u], w, k, o)
  BY <1>3, <1>5 DEF PinnedIn
<1>7. restarts' = restarts /\ restarts = 0
  BY DEF Pinned, SaveStep, SnapState, PutState, PutFails, SnapRoom, PutRoom, ReadPrevious,
         ReadRoomCids, PutRoot, Pin, PinFails, Unpin, UnpinFails, Install, MarkDirty, Fail,
         counters
<1>8. CASE task[t].job = "bootstrap" /\ (PutFails(t) \/ PinFails(t))
  <2>1. Lose /\ task'[t] = Holding("ended", "bootstrap", None, None)
    BY <1>8, <1>2 DEF PutFails, PinFails, Fail, Begin, Become, Inv, TypeOK
  <2>2. \A u \in Tasks : PinnedIn(task'[u], worldCid', pins', stuck')
    BY <1>6, <2>1, NoRootRead
  <2> QED  BY <1>4, <1>7, <2>1, <2>2 DEF Lose, Pinned
<1>9. CASE task[t].job # "bootstrap" /\ (PutFails(t) \/ PinFails(t))
  <2>1. /\ UNCHANGED <<worldCid, pins, stuck>>
        /\ task'[t] \in {Idle, Holding("pubstate", "publish", None, None)}
    BY <1>9, <1>2 DEF PutFails, PinFails, Fail, Begin, End, Become, Inv, TypeOK, memory, kubo
  <2>2. task[t].pc \notin Exchanging /\ l.pc \notin Exchanging
        /\ PinnedIn(l, worldCid, pins, stuck)
    BY <1>4, <1>9, <2>1, NoRootRead
    DEF PutFails, PinFails, At, Exchanging, Idle, Holding, PinnedIn
  <2> QED  BY <1>1, <1>2, <1>7, <2>1, <2>2, PinnedBeside
<1>10. CASE SnapState(t) \/ PutState(t) \/ SnapRoom(t) \/ PutRoom(t) \/ ReadPrevious(t)
              \/ ReadRoomCids(t) \/ PutRoot(t) \/ MarkDirty(t)
  <2>1. UNCHANGED <<worldCid, pins, stuck>> /\ task[t].pc \notin Exchanging
    BY <1>10
    DEF SnapState, PutState, SnapRoom, PutRoom, ReadPrevious, ReadRoomCids, PutRoot, MarkDirty,
        At, Exchanging, memory, kubo
  <2>2. l.pc \notin Exchanging
    BY <1>10, <1>4
    DEF SnapState, PutState, SnapRoom, PutRoom, ReadPrevious, ReadRoomCids, PutRoot, MarkDirty,
        Exchanging, Begin, Become, Holding, Indexing, Inv, TypeOK
  <2>3. PinnedIn(l, worldCid, pins, stuck)
    BY <1>10, <1>4
    DEF SnapState, PutState, SnapRoom, PutRoom, ReadPrevious, ReadRoomCids, PutRoot, MarkDirty,
        At, Begin, Become, Holding, Indexing, Inv, TypeOK, PinnedIn
  <2> QED  BY <1>1, <1>2, <1>7, <2>1, <2>2, <2>3, PinnedBeside
<1>11. CASE Pin(t)
  <2>1. /\ pins' = pins \cup {task[t].new} /\ UNCHANGED <<worldCid, stuck>>
        /\ l.pc = "unpin" /\ l.new = task[t].new /\ l.prev = task[t].prev
        /\ task[t].pc = "pin" /\ task[t].prev = worldCid
    BY <1>11, <1>4 DEF Pin, Goto, At, memory, PinnedIn, Locals, Inv, TypeOK
  <2>2. pins \subseteq {worldCid} \cup stuck /\ (worldCid # None => worldCid \in pins)
    BY <1>5, <2>1 DEF Pinned, Exchanging
  <2>3. PinnedIn(l, worldCid', pins', stuck')
    BY <2>1, <2>2 DEF PinnedIn
  <2>4. \A u \in Tasks : PinnedIn(task'[u], worldCid', pins', stuck')
    BY <1>4, <1>6, <2>3
  <2>5. task'[t].pc \in Exchanging
    BY <1>4, <2>1 DEF Exchanging
  <2> QED  BY <1>4, <1>7, <2>1, <2>2, <2>4, <2>5 DEF Pinned
<1>12. CASE Unpin(t) \/ UnpinFails(t)
  <2>1. /\ \/ pins' = pins \ Superseded(t) /\ stuck' = stuck
           \/ pins' = pins /\ stuck' = stuck \cup Superseded(t)
        /\ worldCid' = worldCid
        /\ l.pc = "install" /\ l.new = task[t].new /\ l.prev = task[t].prev
        /\ task[t].pc = "unpin" /\ task[t].prev = worldCid
        /\ task[t].new \in pins /\ pins \subseteq {worldCid, task[t].new} \cup stuck
    BY <1>12, <1>4 DEF Unpin, UnpinFails, Goto, At, memory, PinnedIn, Locals, Inv, TypeOK
  <2>2. Superseded(t) = {worldCid} \ {None, task[t].new}
    BY <2>1 DEF Superseded
  <2>3. None \notin pins
    BY NoneAssumption DEF Inv, TypeOK
  <2>4. PinnedIn(l, worldCid', pins', stuck')
    BY <2>1, <2>2, <2>3 DEF PinnedIn
  <2>5. \A u \in Tasks : PinnedIn(task'[u], worldCid', pins', stuck')
    BY <1>4, <1>6, <2>4
  <2>6. task'[t].pc = "install"
    BY <1>4, <2>1
  <2> QED  BY <1>4, <1>7, <2>1, <2>5, <2>6 DEF Pinned, Exchanging
<1>13. CASE Install(t)
  <2>1. /\ worldCid' = task[t].new /\ UNCHANGED <<pins, stuck>>
        /\ task[t].new \in pins /\ pins \subseteq {task[t].new} \cup stuck
    BY <1>13, <1>4 DEF Install, At, kubo, PinnedIn
  <2>2. PICK pc \in {"mark", "pubstate", "idle"} : \E job : l = Holding(pc, job, None, None)
    BY <1>13, <1>4 DEF Install, Begin, End, Become, Idle, Inv, TypeOK
  <2>3. \A u \in Tasks : PinnedIn(task'[u], worldCid', pins', stuck')
    BY <1>4, <1>6, <2>2, NoRootRead
  <2> QED  BY <1>4, <1>7, <2>1, <2>3 DEF Pinned
<1> QED
  BY <1>8, <1>9, <1>10, <1>11, <1>12, <1>13 DEF SaveStep

LEMMA PublishPins ==
  ASSUME Inv, Placed, Pinned, NEW t \in Tasks, PublishStep(t)
  PROVE  Pinned'
<1>1. task[t].pc \in PublishPcs  BY PublishMoves
<1>2. PICK l : task' = [task EXCEPT ![t] = l] /\ PublishTo(task[t], l)  BY PublishMoves
<1>3. UNCHANGED <<worldCid, pins, stuck, restarts>>
  BY DEF PublishStep, ReadStateCid, ReadWorldCid, Send, SendAgain, SendFails, Clear,
         memory, kubo, counters
<1>4. l.pc \in PublishPcs \cup {"idle"}
  BY <1>2 DEF PublishTo, Idle, Holding
<1>5. PinnedIn(l, worldCid, pins, stuck) /\ l.pc \notin Exchanging
      /\ task[t].pc \notin Exchanging
  BY <1>1, <1>4 DEF PinnedIn, PublishPcs, Exchanging
<1> QED  BY <1>1, <1>2, <1>3, <1>5, PinnedBeside

LEMMA PinnedNext ==
  ASSUME Admins = {}, MaxRestarts = 0, Inv, Placed, Pinned, [Next]_vars
  PROVE  Pinned'
<1>1. CASE UNCHANGED vars
  BY <1>1 DEF vars, Pinned, HasRoot
<1>2. CASE Crash
  BY <1>2 DEF Crash, Pinned
<1>3. CASE BootStep
  <2>1. task["boot"].pc = "start"
    BY <1>3 DEF BootStep, Restore, RestoreRootOnly, Bootstrap, At
  <2>2. task["boot"].job = "start"
    BY <2>1 DEF Placed, BootPlaced, SavePcs, IndexPcs, PublishPcs, Holding, Idle
  <2>3. Bootstrap
    BY <1>3, <2>2 DEF BootStep, Restore, RestoreRootOnly, Pinned
  <2> DEFINE l == Holding("snap", "bootstrap", None, None)
  <2>4. task' = [task EXCEPT !["boot"] = l] /\ UNCHANGED <<worldCid, pins, stuck, restarts>>
    BY <2>3 DEF Bootstrap, Begin, Become, memory, counters
  <2>5. PinnedIn(l, worldCid, pins, stuck) /\ l.pc \notin Exchanging /\ l.job # "start"
    BY NoRootRead DEF Holding, Exchanging
  <2> HIDE DEF l
  <2>6. task'["boot"].job # "start" /\ "boot" \in Tasks
    BY <2>4, <2>5 DEF Inv, TypeOK, Tasks
  <2> QED  BY <2>1, <2>4, <2>5, <2>6, PinnedQuietly DEF Exchanging
<1>4. CASE Identity
  <2>1. /\ UNCHANGED <<worldCid, pins, stuck, restarts>>
        /\ UNCHANGED ipns \/ ipns' = Bare
    BY <1>4 DEF Identity, PublishBare, RetryBare, GiveUpBare, memory, kubo, counters
  <2>2. "identity" \in Tasks /\ "boot" \in Tasks /\ task["identity"].pc \notin Exchanging
    BY DEF Tasks, Placed, Idle, Holding, Exchanging
  <2>3. PICK l \in {task["identity"], Idle} : task' = [task EXCEPT !["identity"] = l]
    BY <1>4, <2>2 DEF Identity, PublishBare, RetryBare, GiveUpBare, End, Become, Inv, TypeOK
  <2>4. PinnedIn(l, worldCid, pins, stuck) /\ l.pc \notin Exchanging
    BY <2>2, <2>3, NoRootRead DEF Pinned, Idle, Holding, Exchanging
  <2>5. task'["boot"].job = "start" => ~HasRoot'
    BY <2>1, <2>2, <2>3 DEF Inv, TypeOK, Pinned, HasRoot
  <2> QED  BY <2>1, <2>2, <2>3, <2>4, <2>5, PinnedQuietly
<1>5. CASE \E t \in Tasks : LaneStep \/ Tick \/ Save(t)
  <2>1. /\ UNCHANGED <<worldCid, pins, stuck, restarts, ipns>> /\ Running
    BY <1>5
    DEF LaneStep, Change, Dig, Refresh, Migrate, Publish, Tick, Save, LaneIdle, memory, kubo,
        counters
  <2>2. task["boot"].job # "start"
    BY <2>1, OwnJobs DEF Running, BootJobs
  <2>3. CASE Change
    BY <2>1, <2>3 DEF Change, Pinned, HasRoot
  <2>4. CASE ~Change
    <3>1. PICK t \in Tasks, pc \in {"room", "prev", "pubstate", "snap"}, job \in Jobs :
            /\ task' = [task EXCEPT ![t] = Holding(pc, job, None, None)]
            /\ task[t].pc = "idle"
      BY <1>5, <2>4
      DEF LaneStep, Dig, Refresh, Migrate, Publish, Tick, Save, LaneIdle, At, Begin, Become,
          Tasks, Jobs
    <3> DEFINE l == Holding(pc, job, None, None)
    <3>2. PinnedIn(l, worldCid, pins, stuck) /\ l.pc \notin Exchanging /\ l.job # "start"
      BY <3>1, NoRootRead, OwnJobs DEF Holding, Exchanging, BootJobs
    <3>3. task[t].pc \notin Exchanging
      BY <3>1 DEF Exchanging
    <3>4. task' = [task EXCEPT ![t] = l]
      BY <3>1
    <3> HIDE DEF l
    <3>5. task'["boot"].job # "start"
      BY <2>2, <3>2, <3>4 DEF Inv, TypeOK, Tasks
    <3> QED  BY <2>1, <3>2, <3>3, <3>4, <3>5, PinnedQuietly
  <2> QED  BY <2>3, <2>4
<1> QED
  BY <1>1, <1>2, <1>3, <1>4, <1>5, SavePins, PublishPins DEF Next, Handler, Tasks

\* save_world_index ("Keep exactly one named recursive pin for the world root
\* index."): as long as the process that bootstrapped the world lives, and
\* nobody saves over HTTP, the current root is the one that is pinned, up to the
\* exchange with its successor and to releases that Kubo refused.
THEOREM OneRootAlwaysPinned ==
  ASSUME Admins = {}, MaxRestarts = 0
  PROVE  Spec => []OneRootPinned
<1>1. Init => Inv /\ Placed /\ Pinned
  <2> SUFFICES ASSUME Init PROVE Pinned
    BY InvInit, PlacedInit
  <2>1. \A u \in Tasks : task[u] \in {Idle, Holding("start", "start", None, None),
                                      Holding("bare", "identity", None, None)}
    BY DEF Init, Boot
  <2>2. \A u \in Tasks : PinnedIn(task[u], worldCid, pins, stuck)
    BY <2>1, NoRootRead DEF Idle
  <2> QED  BY <2>2 DEF Init, Pinned, HasRoot
<1>2. Inv /\ Placed /\ Pinned /\ [Next]_vars => (Inv /\ Placed /\ Pinned)'
  BY InvNext, PlacedNext, PinnedNext
<1>3. Inv /\ Placed /\ Pinned => OneRootPinned
  <2> SUFFICES ASSUME Inv, Placed, Pinned PROVE OneRootPinned
    OBVIOUS
  <2>1. CASE \A t \in Tasks : task[t].pc \notin Exchanging
    BY <2>1 DEF Pinned, OneRootPinned, Exchanging
  <2>2. CASE \E t \in Tasks : task[t].pc \in Exchanging
    <3>1. PICK t \in Tasks : task[t].pc \in Exchanging
      BY <2>2
    <3>2. \A u \in Tasks : u # t => task[u].pc \notin SavePcs
      BY <3>1, OneSaver DEF Exchanging, SavePcs
    <3>3. PinnedIn(task[t], worldCid, pins, stuck)
      BY DEF Pinned
    <3>4. pins \subseteq {worldCid} \cup stuck \cup {task[u].new : u \in Tasks}
      BY <3>1, <3>3 DEF PinnedIn, Exchanging
    <3>5. CASE task[t].pc = "install"
      BY <3>3, <3>4, <3>5 DEF PinnedIn, OneRootPinned, At
    <3>6. CASE task[t].pc # "install"
      BY <3>2, <3>4, <3>6 DEF Pinned, OneRootPinned, SavePcs
    <3> QED  BY <3>5, <3>6
  <2> QED  BY <2>1, <2>2
<1> QED  BY <1>1, <1>2, <1>3, PTL DEF Spec

=============================================================================
