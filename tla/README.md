# Verification of ma-realms

TLA+ models of the world runtime of ma-realms and of its agent daemon, the TLC
runs that check them on small instances, and theorems about them that TLAPS
checks for every value of the constants. Source paths are relative to the
repository's `src/`; `world_core.rs` stands for `world/src/world_core.rs` and so on.
`PROJECT.json` maps every definition that models code to the lines it stands
for, and lists components, runs, broken variants ("mutants"), hazards, findings
and theorems.

1. The system
2. The models
3. Runs, properties and bounds
4. Fairness
5. Proofs
6. What the checks found
7. Not modelled
8. Plan

## 1. The system

A *world* is a process that keeps rooms, lets *avatars* into them and exchanges
signed messages with *clients* (a browser program, or an agent daemon) over
iroh. What it must not lose it writes to Kubo (IPFS), and its IPNS name leads a
restarted world back to it.

| component | source | state it keeps | operations |
|---|---|---|---|
| avatars, rooms, handles | `world_core.rs`, `room.rs`, `actor.rs` | rooms with avatars; `handle_to_did`/`did_to_handle`; `avatar_room_index` | enter, ping, message, go, kick, dig, prune |
| avatar profiles and registry | `world_core.rs` 229–454, 4562–5083, `actor.rs` | descriptions and shortcuts; `avatar_registry` | enter, describe, use, unuse, walk, save, load |
| rooms: rights, exits, documents | `world_core.rs` 5605–6660, `core/src/room_actor.rs`, `room.rs` | `RoomAcl`, exits, `exit_reverse_index`, `room_cids` | invite, deny, kick, owner, open, close, dig, bury, replace |
| world entry, ownership, languages | `world_core.rs` 1313–1710, 5333ff, `status.rs` | allow list, knock inbox, `owner_did`, `lang_cid`, the configured map | knock, accept, reject, delete, invite, set owner, set languages |
| objects and mailboxes | `world_core.rs` 2986–3104, 3630–4454, `core/src/object_runtime.rs` | holders, sessions, locks, inboxes, requests, dirty blobs | take, drop, open, close, ask, retry, reply, pop, flush |
| room events and dispatch | `room.rs`, `world_protocol.rs`, `world_core.rs` 6620ff | per room an event log with numbers, a queue of dispatch tasks, endpoint cooldowns | record, enqueue, drain, push |
| persistence and publication | `world_core.rs` 1896–3350, `kubo.rs` | `state_cid`, `world_cid`, `room_cids`, `ipns_dirty`; Kubo's pins; the IPNS record | save, load, load-root, publish, migrate-index |
| boot and shutdown | `world_startup.rs`, `bootstrap.rs` | the phase of the boot | publish the identity, resolve, restore or bootstrap, first publication, final save |
| administration API | `status.rs` | none of its own | save, load, load-root, slug, owner, status |
| documents and signatures | `world_protocol.rs` 588–727, 866–895 | DID document cache | verify, fetch, mark dirty, hand in |
| shared rules | `core/src` (`ttl_cache.rs`, `capability_acl.rs`, `requirements.rs`, …) | a cache with time to live; otherwise pure | insert, take, flush; evaluate; parse |
| agent daemon | `agent/src/daemon.rs` | configuration, in memory and in a file; one file per agent | create, delete, append, send, update, reload |
| browser client | `actor/src/lib.rs`, `actor/www/*.js` | endpoint, event cursor, current room | send, receive pushes |

**Concurrency.** `world_startup.rs` spawns the tasks. The *avatar lane*
(1967–2000) handles one message at a time. The *inbox loop* (1929–1962) spawns a
task per message, but of all it accepts only a lookup and a touch change the
world. The *ipfs loop* (2002–2032) publishes what citizens hand in. The *presence
ticker* (2057–2070, every 5 s by default) prunes avatars unseen for 30 s; the
*dispatch ticker* (2071–2086, 150 ms) drains the rooms' queues and pushes to
clients; a one-shot task (2089–2098) asks every room to refresh once; the *IPNS
ticker* (1822–1845) publishes when `ipns_dirty` is up; another flushes dirty
objects; the HTTP status API serves each request in a task of its own; and the
boot spawns the publication of the world's DID document before it resolves it.
All of them share one `World`, a struct with one `RwLock` per field and no lock
over several. Handlers release a lock at the end of a block and read the next
field under another: whatever they hold in locals may be stale. That, the
awaits on Kubo, and crashes between two steps of a save are the hard part of
this code; the hazards in `PROJECT.json` name each place. The agent daemon is of
the same kind: its handlers share an `AppState` behind one lock, copy the
configuration, wait for Kubo for many seconds, and put it back.

**Correctness, by component.**

- *Presence*: a DID has at most one avatar; the handle registry is a bijection
  and avatars go by it; a lookup through the self-healing index does not act on
  a room the avatar has left; stale avatars leave; a state saved in the middle
  of all this is a sound one.
- *Profiles*: who enters again keeps what it said of itself; the registry, which
  the world asks whose avatar a caller is, names the owner the avatar has.
- *Rooms*: nobody is both let in and kept out; the owner is not denied; two exits
  do not answer to one name; a new document of a room does not put anybody out;
  the reverse index is the exits'.
- *Entry*: whoever owns the world or was accepted may enter; a pending knock is
  not lost to what is done about others; a language that is added adds.
- *Objects*: a session and its lock are one thing; nobody takes what another
  holds; requests are not overtaken; what counts as stored is stored.
- *Dispatch*: clients end up with the roster of their room; no logged event is
  forgotten; events come in the order of their numbers, since clients drop the
  ones below their cursor.
- *Persistence*: what the name leads to was pinned; one pin at a time; a
  restarted world is not older than what it published; what was saved is
  published in the end.
- *Documents*: whoever signs with what it has published is not refused.
- *Rules*: the glob matcher, compiled lists, the requirement parser and its
  symbols mean what they are written to mean; the cache is a line of entries.
- *Agent daemon*: no agent speaks under a name that leads nowhere.

## 2. The models

Seventeen modules describe the system and what it promises; each `*_proofs`
module extends one or several of them, and each `MC*` module gives values to some for TLC.

```
AvatarPresence <- AvatarAdmin <- MCAvatarAdmin <- MCAvatars
Membership    (what it implements, by INSTANCE)  <- AvatarPresence
RoomDispatch, SenderDocs, AvatarRegistry, AgentDaemon <- MCDispatch
WorldPublish                                     <- MCWorldPublish
ObjectRuntime, RuleSamples                       <- MCObjects
CapabilityAcl <- AclSamples;  AclSamples, Requirements <- RuleSamples
RoomCommands, WorldEntry, TtlCache               <- MCWorld
TtlCache      (the knocks' inbox, by INSTANCE)   <- WorldEntry
ExpiringLine  (what it implements, by INSTANCE)  <- TtlCache

AvatarPresence_proofs  extends AvatarAdmin
WorldPublish_proofs, RoomDispatch_proofs, RoomCommands_proofs,
ObjectRuntime_proofs, WorldEntry_proofs   extend their module
Core_proofs            extends TtlCache, RuleSamples
Identities_proofs      extends SenderDocs, AvatarRegistry, AgentDaemon
```

An action is one critical section of the code: what happens under one lock, or
between two awaits on something outside. What a handler keeps in locals across
such a boundary is a variable.

### AvatarPresence: who is where

State: `live` and `avatars` are `World.rooms`, `barred` what `RoomAcl` refuses,
`h2d`/`d2h` the two handle maps, `index` the `avatar_room_index`. `pc`, `job`,
`found`, `grip`, `snap` and `draft` are the place and the locals of the avatar
lane, `knock` those of the inbox task, `prunePc` and `pruneSnap` those of the
presence ticker.

| actions | code |
|---|---|
| `Receive`, `CheckEntry` | `process_request`, the entry ACL |
| `LookupIndex`, `LookupValidate`, `LookupScan`, `LookupRepair` | `avatar_room_for_did`: ask the index, validate, scan, repair, each under its own lock |
| `Join` (`JoinRefused`, `MoveIn`, `RefreshPresent`, `BeginRegister`), `Register`, `Add` | `join_room` with `register_handle` in the middle, where the rooms are unlocked |
| `Touch`, `CheckSender` | the presence check before a message |
| `Say`, `Go`, `Kick`, `Deny`, `SetAcl`, `Dig` | the commands that change presence, or nothing |
| `RebuildRead`, `RebuildWrite` | `rebuild_avatar_room_index`: computed under one lock, written under another |
| `Save`…, `LoadRooms`… | `save_encrypted_state`, `load_encrypted_state`, as the lane runs them |
| `Knock…` | `@world knock` on the inbox: a lookup, a touch, a rebuild |
| `PruneSweep`, `PruneRead`, `PruneWrite`, `GoStale` | `prune_stale_avatars`; an avatar's time since it was last seen is `stale` or not |

An avatar's DID is `<world ipns>#<fragment of the sender's DID>`, so a sender
is a pair of an owner and an avatar DID and two owners may derive the same one.
A handle is the fragment, or the whole DID when that is taken
(`world_core.rs` 2349–2400). A command `@avatar …` looks its room up once more
before it runs; as the lane has just done so, the model keeps one lookup per
request.

Membership is what others may rely on, without locks, indexes or tickers: every
DID is in one place or none (`place`), has one name that nobody else has (`called`),
enters where it is not `refused`, walks, leaves, is denied; a save keeps who is where at one
moment (`kept`), a load brings all of one such moment back. AvatarPresence
implements it (`ImplementsMembership`): places are read off the avatars, names are
`did_to_handle`, and a save or a load that takes three locks counts as done when its rooms
are copied, the names with them.

### AvatarAdmin: the HTTP API beside the lane

Extends AvatarPresence with `POST /world/save`, `/world/load` and
`/world/load-root` as a task of their own, again one action per lock; one such
request at a time. `answered` is the last document a save wrote. Room ACLs are
no part of that document, so a load of a root leaves rooms open.

### AvatarRegistry: profiles, and whose avatar it is

`present` is the avatars with their description and shortcut, `registry` the owner
that `avatar_registry` names for each DID, `entering` an entry on the lane, `post`
a request of the API, `kept` and `rooted` what states and roots have. An entry goes
`JoinRoom`, `CaptureAvatar` (the copy), `InsertEntry` or `RefreshFails` (the put), and
`DescribeSkeleton` if it was found to be new before it began. Two actors with one
fragment have one avatar DID: whoever enters last takes the avatar over, with the
skeleton's description. `missed` are the DIDs whose entry a failed put or a load
left behind.

### SenderDocs: who signed

A sender's document is the one key in it. `published` is where its name leads,
`didCache` the cache with its dirty marks, `checks` what the inbox and the avatar
lane are at: `VerifySignature` with the cached document, a forced `FetchDocument`,
`LookDirty`, `CacheDocument`, `SetSenderDirty`, each a lock of its own; `HandIn` and
`PublishHandedIn` are the ipfs lane, which caches before it publishes. `steady` says
that the signer's document has been the published one since the message was
taken. A cached old document stays accepted until somebody has it refreshed.

### RoomCommands: what is done to rooms

`rooms` holds rights, exits and avatars, `exitIndex` the reverse index, `stored` the
documents that `room_cids` names; `errand` is what each of several commands is about:
`fetch`, `act` (decided on the room as it was, carried out on the room as it is),
`scan` and `mend` of the index, `put` and `save`. `Rights` has one alternative per verb
of `room_command` and of the world's commands, `Dig`, `Bury` and `Swap` are what changes
exits or replaces the room by a document. Room rights are lost with a restart, as
they are not saved.

### WorldEntry: who may come, and whose the world is

`owner`, `allowed`, `inbox` (an instance of TtlCache) and `lang`/`config` with `work`,
the handlers under way. Knocks begin with `Prune` and go on with `Enqueue`, `Decide`
or `Delete`; an acceptance is two steps, `Decide` and `Allow`, and so is a change of
owner, `Own` and `Allow`. A CID of a language map is the set of its tags. `Restart`
loses knocks and invitations: neither is saved. `enqueue_knock` has no caller at
this commit; it is modelled with the rest of the inbox, which the commands
list and decide.

### TtlCache and ExpiringLine

TtlCache has the four structures of `ttl_cache.rs`, with moka's `presence` as what
may forget an entry at any call once its time is over or its capacity is
exceeded. ExpiringLine is the promise: a line of entries, by age and turn, changed by
writes, from whose ends the first entry that is young enough is taken, and of
which any may be lost. `ImplementsLine` is the refinement, with the order of the
cache as the line.

### CapabilityAcl, AclSamples, Requirements, RuleSamples

Operators, translated from `capability_acl.rs` and `requirements.rs`. The glob loop is
a recursive function of its cursors (in the value, in the pattern, of the last star and
what it stood for). `compile_acl`, its evaluation with an owner and the layers of an
object's lists are operators on sets of entries. The recursive descent is one function
over the parser's calls, a rule and the place it starts at, whose loops are rounds, as many
as a text has tokens at most; an expression is a tree, a function from the paths
of its nodes to what stands there. Validation and resolution of symbols follow.

AclSamples and RuleSamples state them against reference definitions, one input per
state: what a pattern denotes; lists read as written; a grammar that derives every tree of a
text; the dependence of a value on a symbol.

### ObjectRuntime: what avatars hold

A place (room, id) holds an object with holder, opener, locker, expiry, inbox,
outbox, pending requests and its two blobs. A call is `Arrive…` (the target is
resolved, by name or by the route index, and a lock that ran out is cleared) and,
after the definition may have been fetched, `Perform` with one action per verb, or
`Refuse`. `Wash` and `Washes` are the flush of dirty blobs around its uploads. `Save`,
`Load` and `Restart` keep and bring back what `persisted_snapshot` has. What a definition
asks for is a set of requirements out of the four that speak of holders,
sessions and owners. `object.state` is never changed by the code, so that a blob
is there or not, and not of a version.

### RoomDispatch: what clients get to know

`roster`, `events`, `seq` and `queue` are the rooms; `todo` is what the lane's
handler has left to do (enqueue a task, record an event, each under its own
lock); `pruned` the rooms the presence ticker has changed and not announced;
`step` to `offer` the locals of `flush_room_dispatch_queues_once` and of the push
it is in. `told` and `sent` are what each reachable client was sent; `offered`
and `silent` are history.

A push that fails, times out or meets a cooldown is to the sender a push that
was made, so clients that pushes may miss change nothing in the world. They are
in the rosters and are pushed to, and only of the `Reachable` ones is it kept
what they were sent. An avatar is its client, with one endpoint; the rooms are
fixed; an input is a change of rosters followed by its `todo`.

### WorldPublish: getting state out of memory and back

Contents are version numbers, CIDs are contents: `rooms` is the static content
of the rooms, `runtime` everything else, a root names one room snapshot and one
state envelope. `task` holds what each task has read: `boot`, `identity` (the
spawned publication of the bare document), `lane`, `timer` (the background
publisher) and one per HTTP request. A save goes `snap`, `put`, `room`,
`roomput`, `prev`, `index`, `root`, `pin`, `unpin`, `install`, `mark`; a
publication `pubstate`, `pubroot`, `send`, `sent`. `Faults` says which calls may
fail: puts, pins, unpins, sending to IPNS (with a late success: the call times
out but the record is set), resolving the name, reading the state. `Crash`
loses the memory and leaves Kubo as it is. A shutdown is an HTTP save followed
by a crash.

### AgentDaemon: names for agents

`cfg` and `file` are the configuration in memory and in `agentd.yaml`, `agents` the
base of each agent's DID, `keys` and `records` Kubo's. `ReadConfig`, `FindKey`,
`Resolve`, `PublishBase`, `KeepBase` and `InstallConfig` are
`ensure_world_base_did_published`, which the startup, a creation and a message to
the world go through; every call may fail, and a publication that fails may have
gone through. `AskUpdate`/`WriteUpdate`, `AskReload` (a SIGHUP reads the default file,
whatever the daemon was started with) and `Reboot` are what else writes
configurations.

## 3. Runs, properties and bounds

| run | properties | what it shows | states |
|---|---|---|---|
| `avatars` | `OneAvatarPerDid`, `HandlesAgree`, `LookupSound`, `SavedSound`, `AnsweredNamed`, `NoEviction`, `EnterRespectsRoomAcl`, `ImplementsMembership` | three senders, two of them deriving one DID, walk, kick, dig and change rights beside the pruner; the inbox lane beside the avatar lane; saves and loads, also from a former name of the world; HTTP saves and root loads; to others, just who is where | 2.31M |
| `admin_load` | `StaleLeaves` | HTTP load under a request: what it restores still leaves when it is stale (liveness) | 0.11M |
| `admin_load_twice` | `OneAvatarPerDid` (violated) | finding 1 | – |
| `publish_lane` | `OneRootPinned`, `SavedRootCoversState`, `DirtyIsDrained` | all lane jobs, the boot and the publisher with failing puts, pins and unpins; liveness of the flag | 0.51M |
| `publish_crash` | `PublishedWasPinned`, `MemoryCoversPublished` | two savers, every fault, two restarts | 0.54M |
| `publish_dirty_race` | `DirtyTellsTheTruth` (violated) | finding 2 | – |
| `publish_fresh` | `FreshOnlyOnce` (violated) | finding 3 | – |
| `dispatch` | `RosterCovered`, `EventsCovered`, `SentInOrder`, `PublishedSignerAccepted`, `RegistryFollows`, `BasesPublished`, `ReentryKeepsProfile` | all inputs that change rosters or record events, against the ticker; two lanes that check signatures while documents change; profiles and the registry under entries, loads and failed puts; the agent daemon with overlapping requests, faults and restarts | 2.62M |
| `dispatch_kick` | `RosterKnown` (violated, under fairness) | finding 4 | – |
| `objects` | `LockWhole`, `InboxSound`, `CleanIsStored`, `NothingSeized`, `RequestsKept`, `GlobAgrees`, `CompileFaithful`, `ParserIsGrammar`, `SymbolsSound` | calls in two steps against the washer, loads, restarts and the clock; the rules, sampled | 0.20M |
| `world` | `AclSound`, `ExitsApart`, `OccupantsKept`, `IndexMended`, `EntitledEnter`, `PendingWaits`, `LangGrows`, `IndexesAgree`, `YoungStay`, `ImplementsLine` | commands of two handlers on rooms; two handlers of knocks, owners and languages; the cache against the line it implements | 0.21M |
| `owner_enters` | `OwnerEnters` (violated) | finding 5 | – |

Every property of a passing run has a broken variant of a modelled operation,
placed before it in its module ("Broken variant of …"), that violates it under
the same configuration: a lookup that trusts the index, an exit dug beside one
that answers to the same name, a cleaning that forgets what came meanwhile, a
fetch that looks into the cache, an unpin that is forgotten, and so on.

**Slices.** Several modules are checked in one run by an MC module whose variable
`slice` says, from the initial state on, which of them moves and what part of its
state is left free (`InSlice`): a behaviour is one of a slice, and the others'
variables stay as they were. A slice restricts which steps are taken, never
what a step does, and a run's properties are checked in every slice of it. The
slices are written so that the state that is held still has nothing to do with what the
slice is about (the rights of rooms without exits, exits of rooms without
avatars, an inbox of an object nobody holds); what composes is kept together
(lane with pruner, inbox task and administration; calls with washer and loads;
the knocks' inbox within the cache).

**Symmetry** is used in `world` (handlers, keys and values), `objects` (handles
and DIDs) and `dispatch` (rooms, and the daemon's handlers). None of them checks
liveness, and no definition tells those values apart.

**Bounds.** An unbounded counter is bounded by a guard, and the bound is a constant.

- *Presence.* Two rooms, three DIDs of whom two are entered, three senders, five
  handles. The races need one DID in two places and one other avatar; two DIDs are
  enough for a handle to be taken, and the DID of the world's former name brings in
  a handle that a newcomer would get. `Commands` and `AdminCommands` name the
  commands of an instance. No step counts anything, so no run is cut short by a bound.
- *Administration.* One HTTP handler at a time; a single one already meets the
  lane in each of its steps.
- *Publication.* One change of the world (`MaxEdits`), two envelopes
  (`MaxSaves`: the boot's and one more, or two at once), `MaxRestarts` restarts
  (none, one or two). Two saves and one publication between them are what the
  races over pins and the flag take. Faults are split: pins and puts where the
  pins are the question, everything in the crash run.
- *Daemon.* Two requests beside the startup, two agents of which one is an earlier
  version's, two aliases; any number of restarts. Two copies of the configuration
  that overlap, and a third that restores it, are what mixing bases takes.
- *Dispatch.* Two clients of whom one is reachable: one to be told, one to
  change its roster. `MaxEvents` 2 makes a log overflow within
  `MaxRequests` 3 inputs, which include pruning sweeps and the refresh.
  `RosterCovered` looks at one client at a time, so more clients add only
  more of the same. Entries: three actors, two of them with one avatar DID, and
  one whose owner is the world. Documents: two lanes and a third that hands in, one
  sender, two documents, as each check is about one sender.
- *Objects.* A mailbox and a box in two rooms, two callers; `LockSecs`, `AskSecs`
  1 and a clock up to `MaxTime` 2, so that locks and requests are alive, at their
  end and over; `MaxInbox` 2 overflows by the third message (`MaxId` 3).
- *Rules.* Patterns and values up to 4 letters over two and a star; texts up to 5
  tokens, which nests parentheses, negation and both operators.
- *Rooms.* Two handlers, two rooms, two avatars of one actor, two names of
  exits, two lists of exits that documents may bring: two that overlap on one
  room are what the properties speak of.
- *Entry.* Two handlers, two visitors (of a fragment, and plain), three ids for an
  inbox of two, so that it overflows; pending knocks lapse after 1 tick of 2.
- *Cache.* Three keys, two values, three numbers, three times, no capacity or
  room for one.

`CHECK_DEADLOCK FALSE` where an instance that has used up its bound has nothing
left to do: saves and restarts (`publish_*`), times and numbers (`objects`, where a
state is also a sample of the rules, and `world`).

## 4. Fairness

Liveness is checked for `StaleLeaves`, `DirtyIsDrained` and, to refute it,
`RosterKnown`.

- `FairSpec` of AvatarPresence, `AdminFairSpec`, and `MCFairSpec` for the slice of
  `admin_load`: weak fairness of `Prune`. The presence ticker is a
  `tokio::time::interval` whose handler awaits no one
  outside the process. Nothing is assumed of clients, of the lane or of the
  HTTP API.
- `FairSpec` of WorldPublish: weak fairness of the publisher's tick, the boot,
  the identity publication and each handler: tokio polls what is ready, and a call
  to Kubo ends. Publications carry a timeout and a number of attempts
  (`world_startup.rs` 169, 294); that the other calls (`kubo.rs`) are answered is an
  assumption about Kubo. Requests and crashes are not fair.
- `FairSpec` of RoomDispatch: weak fairness of the lane's own steps, of the
  announcement after a sweep and of the dispatch ticker. Sends to clients are
  bounded by a timeout (`world_protocol.rs` 90ff). Nobody is bound to send
  requests, and no sweep is bound to find somebody stale.

## 5. Proofs

Assumptions are the named `ASSUME`s of the modules: which sets the constants are
subsets of, that `None` (`Nil`, `Absent`, `Nothing`) is not a value it stands in for,
that the DID used as a handle names one DID only, that archived states are
sound, that authors give a room no two exits of one name, that a star is no letter and that
names of symbols are sequences of strings. Owners, DIDs, rooms,
handles, clients, keys, faults and bounds are arbitrary; so is the number of
handlers wherever there are several. Some theorems are of less than the run, which the
table names and the text below explains. Every safety property, action
property and refinement of a passing run is stated by a theorem.

| run | property | theorem |
|---|---|---|
| `avatars` | `OneAvatarPerDid`, `HandlesAgree`, `LookupSound`, `SavedSound` | `UniqueMembership`, `HandlesAlwaysAgree`, `LookupAlwaysSound`, `SavedAlwaysSound` |
| | `NoEviction`, `EnterRespectsRoomAcl` | `NobodyIsEvicted`, `EntryAsksTheRoom`; also `HandlesAreForLife` |
| | `ImplementsMembership` | `PresenceImplementsMembership`; beside the API's saves `SavesDisturbNobody` |
| | `AnsweredNamed` | `AnswersAlwaysNamed`, without loads |
| `publish_lane` | `SavedRootCoversState` | `SavedRootAlwaysCovers`, without HTTP saves |
| | `OneRootPinned` | `OneRootAlwaysPinned`, without HTTP saves, for one process |
| `publish_crash` | `PublishedWasPinned`, `MemoryCoversPublished` | `PublishedAlwaysPinned`, `MemoryAlwaysCovers` |
| `dispatch` | `RosterCovered`, `EventsCovered`, `SentInOrder` | `RosterAlwaysCovered`, `EventsAlwaysCovered`, `EventsInOrder` |
| | `PublishedSignerAccepted`, `RegistryFollows`, `ReentryKeepsProfile`, `BasesPublished` | `PublishedAlwaysAccepted`, `RegistryFollowsAvatars`, `ReentryKeeps`, `BasesAlwaysPublished` |
| `objects` | `LockWhole`, `CleanIsStored`, `NothingSeized` | `LocksStayWhole`, `CleanStaysStored`, `NothingIsSeized` |
| | `InboxSound`, `RequestsKept` | `InboxStaysSound`, `RequestsStay` |
| | `GlobAgrees`, `CompileFaithful` | `GlobAlwaysAgrees` (from `GlobCorrect`), `CompilingAlwaysFaithful` |
| | `ParserIsGrammar`, `SymbolsSound` | `ParserAlwaysGrammar` (from `ParserCorrect`), `SymbolsAlwaysSound` (from `SymbolsDecide`) |
| `world` | `AclSound`, `ExitsApart`, `OccupantsKept`, `IndexMended` | `RightsStaySound`, `ExitsStayApart`, `OccupantsStay`, `IndexStaysMended` |
| | `EntitledEnter`, `PendingWaits`, `LangGrows` | `EntitledAlwaysEnter`, `PendingAlwaysWaits`, `LangAlwaysGrows` |
| | `IndexesAgree`, `YoungStay`, `ImplementsLine` | `IndexesAlwaysAgree`, `YoungAlwaysStay`, `CacheImplementsLine` |

**AvatarPresence_proofs.** `Inv` is inductive. The safety properties alone are
not, as a handler acts on what it learned under a lock it has released.
`Housing` (everyone is in a room that exists), `Saving` (what a save has
collected is still named by the registry, as nobody but the lane registers
handles), `Loading` (a load has yet to install the names of those it restored)
and `Naming` (the handle about to be used is the registered one) say what it
still knows. `LookupSound` and `NewcomerAbsent` are the heart: the pruner and
the inbox task only ever remove avatars or touch them, so a DID found absent
stays absent until the lane adds it. That is the argument for unique
membership, and it is also what fails when `POST /world/load` adds avatars (finding 1).
Each step's proof says which avatars it traces back to which (`Traced`), so that
uniqueness and naming follow for all the harmless ones. On `Inv` rest the
action properties: `HandlesAreForLife` (whoever stays keeps its handle, and the
registry only grows, but for loads) and
`EntryAsksTheRoom`, whose `StillAdmitted` says that a DID admitted under the rooms'
lock is admitted when it is added under the next. `PresenceImplementsMembership` maps
each step to a step of Membership or to none: a lemma per operation says what it does to the
places (`PutPlace`, `FewerPlaces`, `SamePlaces`), where `LookupSound` is needed for those who
enter or walk, who must not be in a second room, and what the lane is in the
middle of saving or loading follows the places beside it (`BesideStep`). It is of
`Spec`, and beside the API's saves, which change nothing of presence (`SavesDisturbNobody`);
the run adds loads of roots whose lists refuse nobody. A root that refuses a DID the lane
has just admitted comes too late for it, so that it enters where it is refused by
then. Uniqueness, names, lookups, saves and that nobody is evicted hold beside any load of a
root (`RootsLeavePresence`), while loads of states break uniqueness itself (finding 1). `AnswersAlwaysNamed` is about
AvatarAdmin: `Collected` follows a document from the avatars to the two maps while the
lane goes on. It assumes that neither the lane nor the API *loads*: a load puts
other avatars, and later other names, under a save that has read one of the two.

**WorldPublish_proofs.** `PublishedAlwaysPinned`: from the pin to the record a
root travels through a task's locals, `world_cid`, and another task's locals;
`Inv` says of each of them that it holds a root that was pinned. It holds for
any number of concurrent requests, any set of faults and any number of restarts.
`Placed` says which task may be where, for the rest. `MemoryAlwaysCovers` with
`Covered`: unless a boot had to go on without what was published, no envelope that
memory, a task or the name knows of is newer than the memory; that a bootstrap
finds no root under the name, and that a restart has read the published
envelope before it runs, carry it over a crash. `SavedRootAlwaysCovers` with `Ordered`:
each stage of a save compares the rooms in its envelope with what it has yet
to read. It assumes no HTTP savers (`Admins = {}`): two savers share `room_cids`, and
one can put its older snapshot into the index under the other's newer envelope.
`OneRootAlwaysPinned` with `Pinned`: besides the roots whose release was refused, pins are
those of the current root, and of the next one during the exchange. It assumes no
HTTP savers, who would release the same predecessor twice, and no
restarts: after a crash between the pin of a root and its publication nobody
knows of that pin any more.

**RoomDispatch_proofs.** `RosterAlwaysCovered`: every client in a room has been sent
its roster as it is, or a snapshot is due, or one is on its way to it; the
strengthening `SeenIsDue` says of the roster that a push has already read that
it is current or that another snapshot is due. `EventsAlwaysCovered` needs only
the types, which include that a log holds the last `MaxEvents` numbers; its
lemmas say who owes an event to the clients: the lane, a queue or the ticker.
With fairness of the ticker every roster except after a kick, and every event
that stays in its log, is pushed; that last step is liveness. `EventsInOrder` has
`SentInv`: the calls for events of a room stand in line by the number they begin
after, in the batch being drained, then in the queue, then with the lane (`InLine`);
an event passed over is one that no call in the line asks for any more
(`PassedOver`), and what is being pushed is later than all its clients have been sent
(`OfferLater`). No step alone shows why numbers never go back: a batch is
collected before, and pushed after, others are queued.

**Core_proofs: rules.** The library's induction over data cannot be used, as it takes an
operator as a parameter; what there is, is that a set of numbers has a least one
(`LeastNumber`). So a recursion whose steps use only places of a lower measure has a
solution, as the greatest depth to which one exists cannot be less than all (`Recursion`), and
what holds at each place if it holds at the lower ones holds at all.

*Patterns.* From each place, the loop answers whether the rest of the pattern fits the rest
of the value or the last star can stand for more (`Means`), provided that the characters since
that star are matched (`Tracking`); backtracking only to the last star is right since what an
earlier one could still take, the last can. A place where loop and meaning differ with the
least left to do would be left by one step of the loop to another one
(`MeaningKept`, `GlobMeans`). `GlobCorrect` is of any pattern and any value without stars.
`CompilingAlwaysFaithful` puts lists together from entries that are exact or hold a star
(`ExactMatches`, `StarMatches`, `EntryAlike`, `ListAlike`).

*The parser.* The calls and the grammar's trees are recursions of falling measure
(`ParsesSolvable`, `GrownSolvable`), since every call moves on in the text. Each call
`Reads` only trees that the grammar derives for the tokens it went over, and `Finds` every
tree that ends where the text does not go on in a way the call would follow (`Ended`): the
loops by rounds (`LoopReads`, `LoopReaches`, `LoopFinds`), the operators by
cases (`UnaryCorrect`, `AllCorrect`). For the whole text this says that there is no tree and the
text is refused, or one tree and it is read (`ParserCorrect`), so that the grammar
is unambiguous as well.

*Symbols.* Where the symbols said to be in an expression have the same values its operands
have, and then what it says is the same (`SymbolsDecide`); `references_symbol` is the case of
one symbol. That the world has a value for every name that validation lets
pass is by cases of the name (`NameResolved`).

**Core_proofs: cache.** `IndexesAlwaysAgree` is inductive with the types (`Good`). The
operations are put together from four (drop a set of keys, take a place out,
put one in, change a value), each with a lemma that `Good` survives it; the
induction then goes over the calls. `YoungAlwaysStay` has `Told`: moka was told of
an entry when it was dated or later, so what moka's clock lets go is old.
`CacheImplementsLine` is the refinement, for any number of keys. A set of places is
in a strict order, and there are fewer places below the lower one (`RankGrows`), so
that each number below the size is the rank of one place (`RankNames`): the line is
then determined by what it holds at the number of each place (`LineAt`, `LineIs`).
`ThinnedLine` says that the line without some keys is the line of the order
without their places, and `InsertedLine` that a place with the greatest number so
far comes behind all those of its age and older. Each call is then a step
of the line: what moka keeps and what a removal leaves have entries `From` the cache
before (`LoseStep`), a write is `WriteStep`, and the ends are `FirstStep` and `LastStep`. It needs
`Good`, since an order and entries that disagree are no line, and that the clock is
bounded, since a take of any age takes whatever is there.

**RoomCommands_proofs.** `RightsStaySound` and `ExitsStayApart` go together: a room is
`Sound` when its rights and its exits are, and a lemma per verb says that what
was sound stays so, whatever the room was when the command was decided.
`Drafted` (exits fetched from a document are apart) and `ChangedLive` (a save is about
rooms that exist) are what a command in the middle still knows. `OccupantsStay` traces each
avatar through a replacement. `IndexStaysMended` needs `AloneInv`: while a command has had
no other beside it, what it computed under the rooms' lock is still what the
exits are.

**ObjectRuntime_proofs.** An object is `Good` when its fields have their types, its
lock is whole and its clean halves are stored; lemmas say of each effect that it
keeps that, and of all but loads that they leave holder and session to whom
they belong (`Left`). `Inv` says it of the objects and of the last save, so that a
restart brings back nothing worse. From it `LocksStayWhole`, `CleanStaysStored`,
`NothingIsSeized`. `RequestsStay` adds `Books`: pending requests are numbered no higher
than the object has counted and were sent no later than the call under way has read the
clock; a restart sets the count back, and with it all that was pending. `InboxStaysSound`
adds `Boxes`, that every inbox, of an object or of the last save, is within its
bound and `Apart`; a new id is one above the greatest, which exists as a set of
numbers has a least upper bound (`LeastOne`), and what `retain` leaves of an inbox is a
part of it in its order. The latter is a recursive function, and the induction
over its argument is the least number for which the statement fails.

**Identities_proofs.** *Documents.* `SteadyChecks`: a check whose signer's document stayed the
published one can only hold that document once it has fetched, so that the
second verification succeeds; nothing the cache holds enters into it. *Registry.*
`RegistryFollowsAvatars` with `Followed` and `CopySound`: the
copy an entry made names the avatar's owner until it is put, or the DID is
`missed`. `ReentryKeeps` with `Keeping` and `NewDescribed`: an avatar that was there when
the entry asked is still as it was, and only an entry that found none makes a
skeleton. *Daemon.* `BasesAlwaysPublished` with `DaemonInv`: the base in each copy of
the configuration, in the file, in each agent's file and in each handler's locals is
a published one, or one an earlier version wrote, or none; names, once published, stay so.

**WorldEntry_proofs.** `EntryInv` says of the inbox that knocks are held in the order of
their ids, which is that of their times and numbers (`InTurn`), so that the oldest is
the one a full inbox gives up; and of a handler alone with the languages that it has
read those there are (`LoneSound`). `EntitledAlwaysEnter` is inductive with
them: an acceptance or a change of owner is two steps, and between them a handler is
under way that has the rest to do. `PendingAlwaysWaits` is about a single step, for which
the order of the inbox is needed. The inbox is an instance of TtlCache.

**Only model-checked:** liveness (`StaleLeaves`, `DirtyIsDrained`, `RosterKnown`), which
needs ENABLED. Outside of the hypotheses named above nothing is claimed: no slice of
`avatars` has a load beside a save of the API, and `publish_lane` has neither HTTP savers
nor restarts.

## 6. What the checks found

1. `admin_load_twice`: `join_room` finds a DID absent, registers its handle with
   the rooms unlocked, and adds the avatar (`world_core.rs` 2293–2312) without
   looking again. A `POST /world/load` in between may have installed an avatar of
   that DID in another room, against "Enforce unique room membership per DID"
   (`world_core.rs` 2180).
2. `publish_dirty_race`: `publish_to_ipns` lowers `ipns_dirty` after its await
   (`world_core.rs` 2967) whatever `world_cid` has become meanwhile, against "True
   when IPFS root has changed since last IPNS publish" (`main.rs` 397).
3. `publish_fresh`: every boot publishes a DID document without the root link in
   the background; a boot that resolves the name before the next
   `publish_to_ipns` finds no root and bootstraps a new world, against "Keep
   `root` link for runtime restore compatibility" (`world_startup.rs` 148).
4. `dispatch_kick`: a kick, or a denial of someone present, in one's own room
   announces nothing (`world_core.rs` 6226, 6239), against "periodic snapshots of
   room occupants pushed to all connected clients" (`world/README.md` 18). Those who
   stay keep the old roster until somebody enters, walks or is pruned. With the
   kick replaced by a message `RosterKnown` holds in the same instance.
5. `owner_enters`: `RoomAcl::can_enter` (`room.rs` 33) knows two lists and no owner.
   Whoever digs a room owns it without being on its allow list, so that it is kept
   out once the room is closed, against "The room owner is always granted access
   regardless of the deny list" (`world/README.md` 235, also 228).

Read, and not covered by a run.

*World.* `@world knock` has no effect on the inbox, since `handle_actor_command`
refuses the target "world"; so nothing calls `enqueue_knock`, and `claim` is as
unreachable. `spec/avatar-presence-v1.yaml` says 25 s and 10 s where the defaults are
30 s and 5 s; `core/src/protocol.rs` 201 and 205 speak of a room state that is
returned, while both lanes discard the `WorldResponse` and only pushes leave the
world; after two walks within one tick of the dispatcher the client may be
pushed the state of the room it has left, as rooms are visited in the order of
a hash map (`world_protocol.rs` 551). A push that times out puts its endpoint in a
cooldown in which pushes are dropped and count as made (90). A load or a restart
puts fresh room states in place, so that numbers start at 1 and clients drop
what is below their cursor (`room.rs` 104). A restore takes rooms from the root
and the rest from its envelope, which may be of different ages (`world_core.rs`
3341). Saving may succeed and publishing fail (2975), of which the caller is told
by one answer.

*Rooms.* To deny `*` and then open a room leaves `*` on both lists. A room's rights,
the allow list and the knocks are gone after a restart: of rooms the
events, descriptions and languages come back. A root that is loaded opens
the rooms, so that an entry that a room refused before the load goes through after
it. Two exit commands at once may leave the older reverse index until the next
rebuild. Two `lang.<tag>` jobs at once lose a tag.

*Objects.* The mailbox's admin verbs ask for the holder to be the world's owner; the owner is
compared as a DID without a fragment, and avatars' DIDs have one, so nobody
passes. Lists that grant `owner` compare in the same way.

*Avatars.* `prop` compares an avatar's owner with the world's DID, so that it is
refused to every actor but the world's own, against the usage text at
`world_core.rs` 4571. An actor with the fragment of another's DID takes
the other's avatar over. A failed put of a registry entry is not repeated until something
changes; a language chosen by command lasts until the next entry; a load that falls
between the question whether an avatar is new and the skeleton's description overwrites
what was loaded.

*Daemon.* An update is answered with "written and applied live" (`daemon.rs` 1009) and
may be undone by a publication that had copied the configuration before. Whether
an agent exists is asked before an await (1128), so that two creations of one id both
succeed; a log entry or a message that began before a deletion writes the agent's
file again; an agent of an earlier version's directories is back at the next
start; a SIGHUP reads the default path whatever `--config` said.

## 7. Not modelled

- *Cryptography, keys, identity files* and other pure input and output.
- *Parsing, formatting, texts and languages*: conversions without state. A command is
  a choice of action; what a message says is left out.
- *Schemas and content validation, the authoring command line, status pages*:
  they hold no state that several actors share.
- *The agent's command line and MCP bridge*: one call of the daemon after another.
- *The actor client*: `send_world_request` and its siblings are stubs that fail at
  this commit (`actor/src/lib.rs` 593–608), so that no session with a world can be
  modelled from it. What its event cursor demands of the order of pushes is
  `SentInOrder`.
- *Between the modules*: loads are not combined with RoomDispatch (they replace event
  logs and queues) nor with WorldPublish during a run; `/unlock` and the slug are left
  out of AvatarAdmin; the entry ACL is a constant of AvatarPresence, and changes in
  WorldEntry; room rights are one of two sets of refusals in AvatarPresence, and
  written out in RoomCommands. The agent daemon's conversation with a world is one
  step, `Speak`.
- *Time.* Ages and limits are kept as numbers where an order of expiry matters
  (objects, knocks, cache), and as a choice elsewhere.

## 8. Plan

What could be added, in this order:

1. Refinements: notification (a client learns the roster), implemented by RoomDispatch;
   durable state, implemented by WorldPublish.
2. Loads beside the dispatcher, with the client's event cursor, once the browser
   client's transport is there.
3. The capability list of a world's owner, composed with WorldEntry.
