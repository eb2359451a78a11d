---------------------------- MODULE WorldPublish ----------------------------
(***************************************************************************)
(* How a world gets its state out of memory: the encrypted state envelope, *)
(* the static room snapshots, the world root index that names both, the    *)
(* Kubo pin that keeps a root alive, and the IPNS record that a restart    *)
(* reads (world/src/world_core.rs, world/src/world_startup.rs).            *)
(*                                                                         *)
(* Every handler below awaits Kubo between its reads and its writes, and   *)
(* five kinds of task run such handlers at the same time on the shared     *)
(* `World`: the boot sequence and the publish it spawns, the publication   *)
(* of the bare DID document that every boot spawns before it reads the     *)
(* name, the avatar lane, the background IPNS publisher, and the HTTP      *)
(* status API (a shutdown is a request of that kind, then a crash).  Each  *)
(* await is an action boundary; what a task has read so far is kept in its *)
(* record of `task`.                                                       *)
(*                                                                         *)
(* Contents are version numbers drawn from the counter `edits`: `rooms` is *)
(* the live static content of the rooms, `runtime` everything else (the    *)
(* avatar registry, handles, room ACLs, events).  A CID is its content: a  *)
(* room snapshot is the version it was taken at, a state envelope carries  *)
(* a nonce (`n`) and is never the same twice, a root names one of each.    *)
(***************************************************************************)
EXTENDS Naturals, FiniteSets

CONSTANTS
  Admins,       \* the HTTP requests that may run at once (POST /world/save)
  LaneJobs,     \* which commands the avatar lane receives
  Faults,       \* which external calls may fail
  MaxEdits,     \* bound on the changes made to the world
  MaxSaves,     \* bound on the state envelopes put
  MaxRestarts,  \* bound on the restarts of the process
  None,         \* nothing, no record, no root, ...
  Bare          \* a DID document without a world root

Jobs == {"dig", "refresh", "migrate", "save", "publish"}
\* What the boot sequence and the publication of the bare document are at.
BootJobs == {"start", "identity", "restore", "bootstrap"}
FaultKinds == {"put", "pin", "unpin", "send", "late", "resolve", "state"}

ASSUME PublishAssumption ==
  /\ LaneJobs \subseteq Jobs
  /\ Faults \subseteq FaultKinds
  /\ Admins \cap {"boot", "identity", "lane", "timer"} = {}
  /\ MaxEdits \in Nat /\ MaxSaves \in Nat /\ MaxRestarts \in Nat

Tasks == {"boot", "identity", "lane", "timer"} \cup Admins

Versions == Nat
Captures == [rooms : Versions, runtime : Versions, cids : Versions]
Envelopes == [rooms : Versions, runtime : Versions, cids : Versions, n : Nat]
Roots == [rooms : Versions, meta : Versions, state : Envelopes]
Records == [state : Envelopes, root : Roots]

ASSUME NoneAssumption ==
  /\ None \notin Versions /\ None \notin Captures /\ None \notin Envelopes
  /\ None \notin Roots /\ None \notin Records
  /\ Bare \notin Records /\ Bare # None
  /\ None \notin Jobs \cup BootJobs

VARIABLES
  edits,     \* how many versions were handed out
  rooms,     \* live static room content
  runtime,   \* live remaining content
  roomCid,   \* World::room_cids, of the one room the model follows
  stateCid,  \* World::state_cid
  worldCid,  \* World::world_cid
  dirty,     \* World::ipns_dirty
  saves,     \* how many envelopes were put
  pins,      \* Kubo: the roots pinned under world_root_pin_name
  ipns,      \* Kubo: what the world's IPNS name holds, None before any record
  task,      \* what each task is doing and has read
  restarts,
  released,  \* history: the roots whose pin was removed
  stuck,     \* history: the pins nobody will remove any more
  past       \* history: "none" before a root was published, "linked" after, and
             \* "lost" once a boot could not read what was published

memory == <<rooms, runtime, roomCid, stateCid, worldCid, dirty>>
kubo == <<pins, ipns, released, stuck, past>>
counters == <<edits, saves, restarts>>
vars == <<edits, rooms, runtime, roomCid, stateCid, worldCid, dirty, saves,
          pins, ipns, task, restarts, released, stuck, past>>

-----------------------------------------------------------------------------
(* Tasks *)

\* A task's record by what it holds: nothing but an envelope or a room snapshot
\* while it saves or starts to publish, the roots while it writes the index, the
\* DID document's new content while it publishes.
Holding(pc, job, env, room) ==
  [pc |-> pc, job |-> job, env |-> env, room |-> room,
   prev |-> None, new |-> None, pub |-> None]
Indexing(pc, job, room, prev, new) ==
  [pc |-> pc, job |-> job, env |-> None, room |-> room,
   prev |-> prev, new |-> new, pub |-> None]
Publishing(pc, job, pub) ==
  [pc |-> pc, job |-> job, env |-> None, room |-> None,
   prev |-> None, new |-> None, pub |-> pub]

Idle == Holding("idle", None, None, None)

\* The DID document under the name links to a world root.
HasRoot == ipns \notin {None, Bare}

At(t, pc) == task[t].pc = pc

Become(t, l) == task' = [task EXCEPT ![t] = l]
Begin(t, job, pc) == Become(t, Holding(pc, job, None, None))
End(t) == Become(t, Idle)

\* Task t goes on at `pc` and keeps what it holds.
Goto(t, pc) == task' = [task EXCEPT ![t].pc = pc]

\* The lanes, the publisher and the HTTP server are spawned once the boot
\* sequence has restored or bootstrapped the world.
Running == task["boot"].job \in {"publish", None}

NewVersion == edits + 1
CanEdit == edits < MaxEdits

\* Every save that has started can still put its envelope within the bound.
SavesLeft ==
  saves + Cardinality({t \in Tasks : task[t].pc \in {"snap", "put"}}) < MaxSaves

\* A process that starts, or one that died and is started again: memory is
\* empty, Kubo keeps what it has, and ensure_world_did_document has put a new
\* document and spawned its publication.
Boot == [t \in Tasks |-> CASE t = "boot"     -> Holding("start", "start", None, None)
                           [] t = "identity" -> Holding("bare", "identity", None, None)
                           [] OTHER          -> Idle]

Init ==
  /\ edits = 0 /\ saves = 0 /\ restarts = 0
  /\ rooms = 0 /\ runtime = 0 /\ roomCid = 0
  /\ stateCid = None /\ worldCid = None /\ dirty = FALSE
  /\ pins = {} /\ ipns = None /\ released = {} /\ stuck = {} /\ past = "none"
  /\ task = Boot

\* The process is gone, and with it every pin no task will come back to.
Lose ==
  /\ rooms' = 0 /\ runtime' = 0 /\ roomCid' = 0
  /\ stateCid' = None /\ worldCid' = None /\ dirty' = FALSE
  /\ stuck' = stuck \cup pins
  /\ UNCHANGED <<edits, saves, pins, ipns, released, past>>

\* It dies between any two of its steps, and is started again.
Crash == /\ restarts < MaxRestarts
         /\ restarts' = restarts + 1
         /\ task' = Boot
         /\ Lose

\* A handler returns Err.  A failed index write at boot is logged and boot
\* goes on to publish; a failed bootstrap ends the process.
Fail(t) ==
  CASE task[t].job = "restore" ->
         Begin(t, "publish", "pubstate") /\ UNCHANGED <<memory, kubo, counters>>
    [] task[t].job = "bootstrap" ->
         Begin(t, "bootstrap", "ended") /\ Lose /\ UNCHANGED restarts
    [] OTHER -> End(t) /\ UNCHANGED <<memory, kubo, counters>>

-----------------------------------------------------------------------------
(* Boot *)

\* Broken: the envelope is not read back, only its room contents are kept.
RestoreRoomsOnly ==
  /\ At("boot", "start") /\ HasRoot
  /\ worldCid' = ipns.root
  /\ stateCid' = ipns.root.state
  /\ rooms' = ipns.root.rooms
  /\ runtime' = 0
  /\ roomCid' = ipns.root.rooms
  /\ Begin("boot", "restore", "prev")
  /\ stuck' = stuck \ {ipns.root}
  /\ UNCHANGED <<dirty, pins, ipns, released, past, counters>>

\* The root in the DID document is loaded, then the envelope it names, which
\* replaces the rooms the root brought as well as their CIDs; the index is
\* then written again.
Restore ==
  /\ At("boot", "start") /\ HasRoot
  /\ worldCid' = ipns.root
  /\ stateCid' = ipns.root.state
  /\ rooms' = ipns.root.state.rooms
  /\ runtime' = ipns.root.state.runtime
  /\ roomCid' = ipns.root.state.cids
  /\ Begin("boot", "restore", "prev")
  /\ stuck' = stuck \ {ipns.root}
  /\ UNCHANGED <<dirty, pins, ipns, released, past, counters>>

\* The envelope cannot be fetched or opened: a warning, and the world keeps
\* what the root alone brought.
RestoreRootOnly ==
  /\ At("boot", "start") /\ HasRoot /\ "state" \in Faults
  /\ worldCid' = ipns.root
  /\ stateCid' = ipns.root.state
  /\ rooms' = ipns.root.rooms
  /\ runtime' = 0
  /\ roomCid' = ipns.root.rooms
  /\ Begin("boot", "publish", "pubstate")
  /\ stuck' = stuck \ {ipns.root}
  /\ past' = "lost"
  /\ UNCHANGED <<dirty, pins, ipns, released, counters>>

\* The name holds no root, or it cannot be resolved or loaded ("starting fresh").
Bootstrap ==
  /\ At("boot", "start") /\ SavesLeft
  /\ ~HasRoot \/ "resolve" \in Faults
  /\ Begin("boot", "bootstrap", "snap")
  /\ past' = IF HasRoot THEN "lost" ELSE past
  /\ UNCHANGED <<memory, pins, ipns, released, stuck, counters>>

\* ensure_world_did_document's background publication: the document is made
\* anew, so it has no link to a root.
PublishBare ==
  /\ At("identity", "bare")
  /\ ipns' = Bare
  /\ End("identity")
  /\ UNCHANGED <<memory, pins, released, stuck, past, counters>>

\* The answer to an attempt comes too late, and it is made again; after eight
\* attempts it is given up.
RetryBare ==
  /\ At("identity", "bare") /\ "late" \in Faults
  /\ ipns' = Bare
  /\ UNCHANGED <<memory, pins, released, stuck, past, task, counters>>

GiveUpBare ==
  /\ At("identity", "bare") /\ "send" \in Faults
  /\ End("identity")
  /\ UNCHANGED <<memory, kubo, counters>>

Identity == PublishBare \/ RetryBare \/ GiveUpBare

-----------------------------------------------------------------------------
(* Requests *)

LaneIdle == Running /\ At("lane", "idle")

\* A command that only changes memory (say, go, acl edits, ...).
Change ==
  /\ LaneIdle /\ CanEdit
  /\ edits' = NewVersion /\ runtime' = NewVersion
  /\ UNCHANGED <<rooms, roomCid, stateCid, worldCid, dirty, kubo, saves,
                 restarts, task>>

\* dig: the rooms change, then their snapshots and the index are written.
Dig ==
  /\ LaneIdle /\ "dig" \in LaneJobs /\ CanEdit
  /\ edits' = NewVersion /\ rooms' = NewVersion
  /\ Begin("lane", "dig", "room")
  /\ UNCHANGED <<runtime, roomCid, stateCid, worldCid, dirty, kubo, saves,
                 restarts>>

\* refresh_avatar_registry_entry_for_did found a changed entry.
Refresh ==
  /\ LaneIdle /\ "refresh" \in LaneJobs /\ CanEdit
  /\ edits' = NewVersion /\ runtime' = NewVersion
  /\ Begin("lane", "refresh", "prev")
  /\ UNCHANGED <<rooms, roomCid, stateCid, worldCid, dirty, kubo, saves,
                 restarts>>

Migrate ==
  /\ LaneIdle /\ "migrate" \in LaneJobs
  /\ Begin("lane", "migrate", "room")
  /\ UNCHANGED <<memory, kubo, counters>>

\* save_and_publish, from `@world save` or from POST /world/save.
Save(t) ==
  /\ Running /\ At(t, "idle") /\ SavesLeft
  /\ \/ t = "lane" /\ "save" \in LaneJobs
     \/ t \in Admins
  /\ Begin(t, "save", "snap")
  /\ UNCHANGED <<memory, kubo, counters>>

Publish ==
  /\ LaneIdle /\ "publish" \in LaneJobs
  /\ Begin("lane", "publish", "pubstate")
  /\ UNCHANGED <<memory, kubo, counters>>

\* The background publisher wakes up and looks at is_ipns_dirty.
Tick ==
  /\ Running /\ At("timer", "idle") /\ dirty
  /\ Begin("timer", "publish", "pubstate")
  /\ UNCHANGED <<memory, kubo, counters>>

-----------------------------------------------------------------------------
(* save_encrypted_state *)

SnapState(t) ==
  /\ At(t, "snap")
  /\ Become(t, Holding("put", task[t].job,
                [rooms |-> rooms, runtime |-> runtime, cids |-> roomCid], None))
  /\ UNCHANGED <<memory, kubo, counters>>

\* ipfs_add or dag_put_dag_cbor returns an error.
PutFails(t) == /\ task[t].pc \in {"put", "roomput", "root"} /\ "put" \in Faults
               /\ Fail(t)

\* The envelope as ipfs_add stores it: the captured content under a nonce.
Sealed(env, n) == [rooms |-> env.rooms, runtime |-> env.runtime,
                   cids |-> env.cids, n |-> n]

PutState(t) ==
  /\ At(t, "put")
  /\ saves' = saves + 1
  /\ stateCid' = Sealed(task[t].env, saves + 1)
  /\ Begin(t, task[t].job, "room")
  /\ UNCHANGED <<rooms, runtime, roomCid, worldCid, dirty, kubo, edits,
                 restarts>>

\* save_room_static: the room is read, its YAML added, its CID recorded.
SnapRoom(t) ==
  /\ At(t, "room")
  /\ Become(t, Holding("roomput", task[t].job, None, rooms))
  /\ UNCHANGED <<memory, kubo, counters>>

\* Broken: the CID already recorded is taken for the snapshot.
PutRoomKeepsCid(t) ==
  /\ At(t, "roomput")
  /\ Begin(t, task[t].job, "prev")
  /\ UNCHANGED <<memory, kubo, counters>>

PutRoom(t) ==
  /\ At(t, "roomput")
  /\ roomCid' = task[t].room
  /\ Begin(t, task[t].job, "prev")
  /\ UNCHANGED <<rooms, runtime, stateCid, worldCid, dirty, kubo, counters>>

-----------------------------------------------------------------------------
(* save_world_index *)

ReadPrevious(t) ==
  /\ At(t, "prev")
  /\ Become(t, Indexing("index", task[t].job, None, worldCid, None))
  /\ UNCHANGED <<memory, kubo, counters>>

\* room_cids is cloned before the ACL documents are added ...
ReadRoomCids(t) ==
  /\ At(t, "index")
  /\ Become(t, Indexing("root", task[t].job, roomCid, task[t].prev, None))
  /\ UNCHANGED <<memory, kubo, counters>>

\* ... the registry and state_cid are read after, and the root is put.
PutRoot(t) ==
  /\ At(t, "root") /\ stateCid # None
  /\ Become(t, Indexing("pin", task[t].job, None, task[t].prev,
                [rooms |-> task[t].room, meta |-> runtime, state |-> stateCid]))
  /\ UNCHANGED <<memory, kubo, counters>>

\* pin_update_add_rm: the new root is pinned, then the previous one released.
PinFails(t) == At(t, "pin") /\ "pin" \in Faults /\ Fail(t)

\* Broken: the new root is used although pin/add has not succeeded.
PinSkipped(t) ==
  /\ At(t, "pin")
  /\ Goto(t, "unpin")
  /\ UNCHANGED <<memory, kubo, counters>>

Pin(t) ==
  /\ At(t, "pin")
  /\ pins' = pins \cup {task[t].new}
  /\ Goto(t, "unpin")
  /\ UNCHANGED <<memory, ipns, released, stuck, past, counters>>

Superseded(t) == {task[t].prev} \ {None, task[t].new}

\* Broken: the previous root's pin is left alone.
UnpinForgotten(t) ==
  /\ At(t, "unpin")
  /\ Goto(t, "install")
  /\ UNCHANGED <<memory, kubo, counters>>

Unpin(t) ==
  /\ At(t, "unpin")
  /\ pins' = pins \ Superseded(t)
  /\ released' = released \cup Superseded(t)
  /\ Goto(t, "install")
  /\ UNCHANGED <<memory, ipns, stuck, past, counters>>

\* pin/rm fails: a warning only.
UnpinFails(t) ==
  /\ At(t, "unpin") /\ "unpin" \in Faults /\ Superseded(t) # {}
  /\ stuck' = stuck \cup Superseded(t)
  /\ Goto(t, "install")
  /\ UNCHANGED <<memory, pins, ipns, released, past, counters>>

Install(t) ==
  /\ At(t, "install")
  /\ worldCid' = task[t].new
  /\ CASE task[t].job \in {"save", "bootstrap"} -> Begin(t, task[t].job, "mark")
       [] task[t].job = "restore" -> Begin(t, "publish", "pubstate")
       [] OTHER -> End(t)
  /\ UNCHANGED <<rooms, runtime, roomCid, stateCid, dirty, kubo, counters>>

\* save_encrypted_state ends; save_and_publish goes on to publish, and so does
\* the boot sequence.
MarkDirty(t) ==
  /\ At(t, "mark")
  /\ dirty' = TRUE
  /\ Begin(t, IF task[t].job = "bootstrap" THEN "publish" ELSE task[t].job,
           "pubstate")
  /\ UNCHANGED <<rooms, runtime, roomCid, stateCid, worldCid, kubo, counters>>

-----------------------------------------------------------------------------
(* publish_to_ipns: a running world always has a state and a root, so the two
   early returns for a world that has none are never taken. *)

ReadStateCid(t) ==
  /\ At(t, "pubstate") /\ stateCid # None
  /\ Become(t, Holding("pubroot", task[t].job, stateCid, None))
  /\ UNCHANGED <<memory, kubo, counters>>

ReadWorldCid(t) ==
  /\ At(t, "pubroot") /\ worldCid # None
  /\ Become(t, Publishing("send", task[t].job,
                           [state |-> task[t].env, root |-> worldCid]))
  /\ UNCHANGED <<memory, kubo, counters>>

\* The name moves to the document that links to the root.
Point(t) ==
  /\ ipns' = task[t].pub
  /\ past' = IF past = "lost" THEN "lost" ELSE "linked"

\* publish_world_did_runtime_ma fetches the document under the name, sets its
\* world links and moves the name.
Send(t) ==
  /\ At(t, "send") /\ ipns # None
  /\ Point(t)
  /\ Goto(t, "sent")
  /\ UNCHANGED <<memory, pins, released, stuck, counters>>

\* The answer to an attempt comes too late, and it is made again.
SendAgain(t) ==
  /\ At(t, "send") /\ ipns # None /\ "late" \in Faults
  /\ Point(t)
  /\ UNCHANGED <<memory, pins, released, stuck, task, counters>>

\* Nothing is under the name yet, or all attempts fail.  The error is kept for
\* the status page and returned; save_and_publish logs it and returns Ok all
\* the same.
SendFails(t) ==
  /\ At(t, "send")
  /\ ipns = None \/ "send" \in Faults
  /\ End(t)
  /\ UNCHANGED <<memory, kubo, counters>>

\* Broken: a publish that went through leaves ipns_dirty as it is.
ClearForgotten(t) ==
  /\ At(t, "sent")
  /\ End(t)
  /\ UNCHANGED <<memory, kubo, counters>>

Clear(t) ==
  /\ At(t, "sent")
  /\ dirty' = FALSE
  /\ End(t)
  /\ UNCHANGED <<rooms, runtime, roomCid, stateCid, worldCid, kubo, counters>>

-----------------------------------------------------------------------------
(* The system *)

BootStep == Restore \/ RestoreRootOnly \/ Bootstrap
LaneStep == Change \/ Dig \/ Refresh \/ Migrate \/ Publish

SaveStep(t) ==
  \/ SnapState(t) \/ PutState(t) \/ PutFails(t) \/ SnapRoom(t) \/ PutRoom(t)
  \/ ReadPrevious(t) \/ ReadRoomCids(t) \/ PutRoot(t)
  \/ Pin(t) \/ PinFails(t) \/ Unpin(t) \/ UnpinFails(t)
  \/ Install(t) \/ MarkDirty(t)

PublishStep(t) ==
  \/ ReadStateCid(t) \/ ReadWorldCid(t)
  \/ Send(t) \/ SendAgain(t) \/ SendFails(t) \/ Clear(t)

Handler(t) == SaveStep(t) \/ PublishStep(t)

Next ==
  \/ BootStep \/ Identity \/ LaneStep \/ Tick \/ Crash
  \/ \E t \in Tasks : Save(t) \/ Handler(t)

Spec == Init /\ [][Next]_vars

\* Tokio polls every task that can go on, the publisher's interval always
\* fires again, and Kubo answers.
FairSpec ==
  /\ Spec
  /\ WF_vars(Tick)
  /\ WF_vars(BootStep)
  /\ WF_vars(Identity)
  /\ \A t \in Tasks : WF_vars(Handler(t))

-----------------------------------------------------------------------------
(* Properties *)

Locals ==
  [pc : {"start", "bare", "ended", "idle", "snap", "put", "room", "roomput", "prev", "index",
         "root", "pin", "unpin", "install", "mark", "pubstate", "pubroot",
         "send", "sent"},
   job : Jobs \cup BootJobs \cup {None},
   room : Versions \cup {None},
   env : Captures \cup Envelopes \cup {None},
   prev : Roots \cup {None},
   new : Roots \cup {None},
   pub : Records \cup {None}]

\* Every component holds a value of its kind; in particular a root and a
\* record never lack an envelope.
TypeOK ==
  /\ edits \in Versions /\ rooms \in Versions /\ runtime \in Versions
  /\ roomCid \in Versions
  /\ stateCid \in Envelopes \cup {None} /\ worldCid \in Roots \cup {None}
  /\ dirty \in BOOLEAN
  /\ saves \in Nat /\ restarts \in Nat
  /\ pins \subseteq Roots /\ released \subseteq Roots /\ stuck \subseteq Roots
  /\ ipns \in Records \cup {None, Bare}
  /\ past \in {"none", "linked", "lost"}
  /\ task \in [Tasks -> Locals]

\* publish_to_ipns: the IPNS record only ever names a root that Kubo was asked
\* to keep and said yes, however saves, publishes and restarts interleave.
PublishedWasPinned ==
  HasRoot => ipns.root \in pins \cup released

\* save_world_index ("Keep exactly one named recursive pin for the world root
\* index."): the current root is pinned, except between the release of its pin
\* and the installation of its successor, which is pinned by then; and besides
\* it only the one being installed is, and those whose pin/rm failed.
OneRootPinned ==
  /\ pins \subseteq {worldCid} \cup stuck \cup {task[t].new : t \in Tasks}
  /\ worldCid # None =>
        \/ worldCid \in pins
        \/ \E t \in Tasks : /\ At(t, "install") /\ task[t].prev = worldCid
                            /\ task[t].new \in pins

\* save_encrypted_state: the envelope is put before the rooms' snapshots are
\* taken, so the root a save ends with never names a room snapshot older than
\* the rooms inside the envelope it names, whatever failed in earlier saves.
SavedRootCoversState ==
  \A t \in Tasks :
    task[t].job \in {"save", "bootstrap"} /\ task[t].new # None
      => task[t].new.rooms >= task[t].new.state.rooms

\* load_encrypted_state at boot: a running world is never older than the
\* envelope its published root names, so publishing it again loses nothing;
\* unless a boot could not read what was published and went on without.
MemoryCoversPublished ==
  Running /\ HasRoot /\ past # "lost" => runtime >= ipns.root.state.runtime

\* The background publisher ("periodically publishes to IPNS if dirty"): a
\* marked root does not stay marked forever.
DirtyIsDrained == dirty ~> ~dirty

-----------------------------------------------------------------------------
(* What the repository says of itself and the code does not do *)

Quiet == \A t \in Tasks : At(t, "idle")

\* World::ipns_dirty, "True when IPFS root has changed since last IPNS
\* publish.": when nothing is under way and the flag is down, the root in the
\* name is the current one.
DirtyTellsTheTruth ==
  Quiet /\ ~dirty /\ HasRoot => ipns.root = worldCid

\* publish_world_did_runtime_ma, "Keep `root` link for runtime restore
\* compatibility": once a root was published, no boot starts fresh.
FreshOnlyOnce == task["boot"].job = "bootstrap" => past = "none"

=============================================================================
