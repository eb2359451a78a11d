---------------------------- MODULE RoomDispatch ----------------------------
(***************************************************************************)
(* What the clients of a room get to know: the event log and the dispatch   *)
(* queue of every room, and the task that drains the queues and pushes      *)
(* rosters, room states, events and broadcasts to the clients' endpoints.   *)
(*                                                                          *)
(* Four tasks share the rooms.  The avatar lane changes who is in a room,   *)
(* records events and enqueues dispatch tasks, each under a lock of its     *)
(* own; the presence ticker prunes avatars and then announces the rooms it  *)
(* changed; a one-shot task asks every room to refresh; the dispatch ticker *)
(* visits the rooms one after the other.  A push reads the room, lets go of *)
(* the lock and sends later, so what it carries may be old when it arrives. *)
(*                                                                          *)
(* How an avatar gets into or out of a room is AvatarPresence's subject.    *)
(* Here an avatar is its client, with one endpoint of its own, the rooms    *)
(* are fixed, and each request is the change it makes to the rosters        *)
(* followed by the steps it has left to do.                                 *)
(*                                                                          *)
(* A push fails, or times out and puts the endpoint in a cooldown in which  *)
(* further pushes are dropped without a word; either way the sender goes on *)
(* as if it had arrived.  So a client that pushes may miss makes no         *)
(* difference to the world, and only what the reachable ones were sent is   *)
(* kept.                                                                    *)
(***************************************************************************)
EXTENDS Naturals, Sequences

CONSTANTS
    Clients,     \* avatars, each with the endpoint of its client
    Reachable,   \* the clients that every push reaches
    Rooms,       \* the rooms of the world
    Requests,    \* the kinds of requests this instance exercises
    MaxEvents,   \* the length of a room's event log
    MaxRequests, \* bound: requests on the lane, sweeps that prune, and the refresh
    None         \* no room, no client

ASSUME DispatchAssumption ==
    /\ Reachable \subseteq Clients
    /\ None \notin Rooms
    /\ None \notin Clients
    /\ MaxEvents \in Nat \ {0}
    /\ MaxRequests \in Nat
    /\ Requests \subseteq {"enter", "go", "say", "address", "broadcast", "kick"}

VARIABLES
    roster,      \* who is in each room
    events, seq, \* RoomState: events, by number, and next_event_sequence
    queue,       \* RoomState: dispatch_queue
    todo,        \* what the lane's handler has left to do
    requests,    \* how many of the inputs that MaxRequests bounds there were
    pruned,      \* rooms the presence ticker changed and has not announced
    asked,       \* whether the one-shot task has asked the rooms to refresh
    step,        \* where the dispatch ticker's task is
    pass,        \* the rooms it has left in this tick
    at, batch,   \* the room it is at and the tasks it drained there
    task,        \* the dispatch task at hand
    targets,     \* the clients it has left to push to
    to, seen,    \* the one it pushes to, and the roster it pushes
    offer,       \* the events it has left to push
    told,        \* the roster of each room each reachable client was last sent
    sent,        \* the events of each room each reachable client was sent
    offered,     \* history: the events that some push picked up
    silent       \* history: rooms with a kick after their last announcement

roomVars == <<roster, events, seq, queue>>
laneVars == <<todo, requests>>
flushVars == <<step, pass, at, batch, task, targets, to, seen, offer>>
clientVars == <<told, sent>>
vars == <<roster, events, seq, queue, todo, requests, pruned, asked,
          step, pass, at, batch, task, targets, to, seen, offer,
          told, sent, offered, silent>>

\* room.rs, RoomDispatchTask.
Task == [kind : {"snapshot", "state", "refresh", "events", "broadcast"},
         to : Clients \cup {None}, since : Nat]
Plain(kind) == [kind |-> kind, to |-> None, since |-> 0]
Snapshot == Plain("snapshot")
StateTo(c) == [kind |-> "state", to |-> c, since |-> 0]
EventsSince(n) == [kind |-> "events", to |-> None, since |-> n]

\* A step the lane's handler has left: enqueue a task, or record an event.
Step == [act : {"enqueue", "record"}, room : Rooms, task : Task]
Enqueue(r, t) == [act |-> "enqueue", room |-> r, task |-> t]
Record(r) == [act |-> "record", room |-> r, task |-> Plain("events")]

Holds(s, x) == \E i \in DOMAIN s : s[i] = x

Init ==
    /\ roster = [r \in Rooms |-> {}]
    /\ events = [r \in Rooms |-> {}]
    /\ seq = [r \in Rooms |-> 0]
    /\ queue = [r \in Rooms |-> <<>>]
    /\ todo = <<>> /\ requests = 0
    /\ pruned = {} /\ asked = FALSE
    /\ step = "task" /\ pass = {} /\ at = None /\ batch = <<>>
    /\ task = Snapshot /\ targets = {} /\ to = None /\ seen = {} /\ offer = {}
    /\ told = [c \in Reachable |-> [r \in Rooms |-> {}]]
    /\ sent = [c \in Reachable |-> [r \in Rooms |-> {}]]
    /\ offered = [r \in Rooms |-> {}] /\ silent = {}

-----------------------------------------------------------------------------
(* The avatar lane                                                          *)

\* The lane takes one request at a time.
Take(kind, steps) ==
    /\ todo = <<>> /\ requests < MaxRequests /\ kind \in Requests
    /\ requests' = requests + 1
    /\ todo' = steps
    /\ UNCHANGED <<events, seq, queue, pruned, asked, flushVars, clientVars, offered>>

Shift(c, p, r) ==
    roster' = [roster EXCEPT ![p] = @ \ {c}, ![r] = @ \cup {c}]

\* join_room for a newcomer.  handle_enter announces the room once more when
\* the owner had no avatar before.
EnterNew ==
    \E c \in Clients, r \in Rooms : \E extra \in {<<>>, <<Enqueue(r, Snapshot)>>} :
        /\ \A p \in Rooms : c \notin roster[p]
        /\ roster' = [roster EXCEPT ![r] = @ \cup {c}]
        /\ Take("enter", <<Enqueue(r, Snapshot), Record(r)>> \o extra)
        /\ UNCHANGED silent

\* join_room for an avatar that is in another room.  One that is in the room
\* already has its presence refreshed, and nothing is announced.
EnterMove ==
    \E c \in Clients, p, r \in Rooms :
        /\ p # r /\ c \in roster[p]
        /\ Shift(c, p, r)
        /\ Take("enter", <<Enqueue(p, Snapshot), Enqueue(r, Snapshot), Record(r)>>)
        /\ UNCHANGED silent

\* What handle_message does when a command took effect in another room.
CrossRoomForgetsRoute(c, p, r) ==
    <<Enqueue(r, StateTo(c)), Enqueue(r, Snapshot)>>
CrossRoom(c, p, r) ==
    <<Enqueue(r, StateTo(c)), Enqueue(p, Snapshot), Enqueue(r, Snapshot)>>

\* Walk through an exit.
Go ==
    \E c \in Clients, p, r \in Rooms :
        /\ p # r /\ c \in roster[p]
        /\ Shift(c, p, r)
        /\ Take("go", CrossRoom(c, p, r))
        /\ UNCHANGED silent

\* Chatter, say, emote and room updates in one's own room.
Say ==
    \E c \in Clients, r \in Rooms :
        /\ c \in roster[r]
        /\ Take("say", <<Record(r)>>)
        /\ UNCHANGED <<roster, silent>>

\* Say or do something in another room, by its DID, from one's own.
Address ==
    \E c \in Clients, p, r \in Rooms : \E noted \in {<<>>, <<Record(r)>>} :
        /\ p # r /\ c \in roster[p]
        /\ Take("address", noted \o CrossRoom(c, p, r))
        /\ UNCHANGED <<roster, silent>>

\* Kick, and Deny of somebody present, in another room by its DID.
KickFromAfar ==
    \E c, k \in Clients, p, r \in Rooms :
        /\ p # r /\ c \in roster[p] /\ k \in roster[r]
        /\ roster' = [roster EXCEPT ![r] = @ \ {k}]
        /\ Take("kick", CrossRoom(c, p, r))
        /\ UNCHANGED silent

\* @world broadcast.
Broadcast ==
    \E c \in Clients, r \in Rooms :
        /\ c \in roster[r]
        /\ Take("broadcast", <<Enqueue(r, Plain("broadcast"))>>)
        /\ UNCHANGED <<roster, silent>>

\* Kick, and Deny of somebody present, in one's own room: the roster changes
\* and nothing is enqueued.
Kick ==
    \E c, k \in Clients, r \in Rooms :
        /\ c \in roster[r] /\ k \in roster[r]
        /\ roster' = [roster EXCEPT ![r] = @ \ {k}]
        /\ silent' = silent \cup {r}
        /\ Take("kick", <<>>)

\* World::enqueue_room_dispatch.
PushFront(r, t) ==
    /\ queue' = [queue EXCEPT ![r] = <<t>> \o @]
    /\ silent' = IF t = Snapshot THEN silent \ {r} ELSE silent
Push(r, t) ==
    /\ queue' = [queue EXCEPT ![r] = Append(@, t)]
    /\ silent' = IF t = Snapshot THEN silent \ {r} ELSE silent

LaneEnqueues ==
    /\ todo # <<>> /\ Head(todo).act = "enqueue"
    /\ Push(Head(todo).room, Head(todo).task)
    /\ todo' = Tail(todo)
    /\ UNCHANGED <<roster, events, seq, requests, pruned, asked,
                   flushVars, clientVars, offered>>

\* RoomState::push_event: the oldest event makes room for the new one.
PushEvent(log, n) == {m \in log : m + MaxEvents > n} \cup {n}

\* record_room_event under its first lock.  The task it then enqueues names
\* the number before the event's.
AnnounceAt(n) == EventsSince(n)
AnnounceAfter(n) == EventsSince(n - 1)

LaneRecords ==
    /\ todo # <<>> /\ Head(todo).act = "record"
    /\ LET r == Head(todo).room
           n == seq[r] + 1
       IN  /\ seq' = [seq EXCEPT ![r] = n]
           /\ events' = [events EXCEPT ![r] = PushEvent(@, n)]
           /\ todo' = <<Enqueue(r, AnnounceAfter(n))>> \o Tail(todo)
    /\ UNCHANGED <<roster, queue, requests, pruned, asked,
                   flushVars, clientVars, offered, silent>>

-----------------------------------------------------------------------------
(* The presence ticker and the refresh after startup                        *)

\* prune_stale_avatars: one sweep over all rooms ...
Prune ==
    /\ pruned = {} /\ requests < MaxRequests
    /\ requests' = requests + 1
    /\ \E left \in [Rooms -> SUBSET Clients] :
        /\ left # roster
        /\ \A r \in Rooms : left[r] \subseteq roster[r]
        /\ roster' = left
        /\ pruned' = {r \in Rooms : left[r] # roster[r]}
    /\ UNCHANGED <<events, seq, queue, todo, asked, flushVars, clientVars, offered, silent>>

\* ... and an announcement for each room it changed.
Announce ==
    /\ \E r \in pruned :
        /\ Push(r, Snapshot)
        /\ pruned' = pruned \ {r}
    /\ UNCHANGED <<roster, events, seq, laneVars, asked, flushVars, clientVars, offered>>

\* Once, a little after startup.  The rooms are asked one after the other;
\* as the task carries nothing, one step does for all.
AskRefresh ==
    /\ ~ asked /\ requests < MaxRequests
    /\ asked' = TRUE /\ requests' = requests + 1
    /\ queue' = [r \in Rooms |-> Append(queue[r], Plain("refresh"))]
    /\ UNCHANGED <<roster, events, seq, todo, pruned, flushVars, clientVars,
                   offered, silent>>

-----------------------------------------------------------------------------
(* The dispatch ticker                                                      *)

\* flush_pending_room_dispatches: a tick takes the rooms in any order, and the
\* next one begins when all have had their turn.
Turns == IF pass = {} THEN Rooms ELSE pass

\* The room at hand, as long as there is something left to do for it.
Stay(r, tasks) == IF tasks = <<>> THEN None ELSE r

\* flush_room_dispatch_queue at the next room: drain_room_dispatch_queue.
Drain ==
    /\ step = "task" /\ batch = <<>>
    /\ \E r \in Turns :
        /\ at' = Stay(r, queue[r]) /\ pass' = Turns \ {r}
        /\ batch' = queue[r]
        /\ queue' = [queue EXCEPT ![r] = <<>>]
    /\ UNCHANGED <<roster, events, seq, laneVars, pruned, asked, step, task, targets,
                   to, seen, offer, clientVars, offered, silent>>

\* Begin the next task.  All but a room state, which names its recipient, go
\* to the endpoints that room_presence_context finds in the room now.
NextTask ==
    /\ step = "task" /\ batch # <<>>
    /\ task' = Head(batch) /\ batch' = Tail(batch)
    /\ targets' = IF Head(batch).kind = "state" THEN {Head(batch).to} ELSE roster[at]
    /\ step' = CASE Head(batch).kind \in {"snapshot", "state"} -> "each"
                 [] Head(batch).kind = "events" -> "collect"
                 [] OTHER -> "call"
    /\ UNCHANGED <<roomVars, laneVars, pruned, asked, pass, at, to, seen, offer,
                   clientVars, offered, silent>>

\* A task is done, and its locals are gone.
Done ==
    /\ step' = "task" /\ task' = Snapshot /\ to' = None /\ seen' = {}
    /\ at' = Stay(at, batch)
    /\ UNCHANGED <<roomVars, laneVars, pruned, asked, pass, batch, offered, silent>>

\* push_presence_snapshot_to and push_presence_room_state_to read the room
\* again for each endpoint, ...
Context ==
    /\ step = "each"
    /\ \E c \in targets : to' = c
    /\ seen' = roster[at]
    /\ step' = "push"
    /\ UNCHANGED <<roomVars, laneVars, pruned, asked, pass, at, batch, task, targets,
                   offer, clientVars, offered, silent>>

\* ... and send what they read.
PushRoster ==
    /\ step = "push"
    /\ told' = [c \in Reachable |-> IF c = to THEN [told[c] EXCEPT ![at] = seen] ELSE told[c]]
    /\ targets' = targets \ {to}
    /\ step' = "each"
    /\ UNCHANGED <<roomVars, laneVars, pruned, asked, pass, at, batch, task, to, seen,
                   offer, sent, offered, silent>>

AllPushed ==
    /\ step = "each" /\ targets = {}
    /\ Done
    /\ UNCHANGED <<targets, offer, clientVars>>

\* Refresh requests and broadcasts carry nothing that could be old: one step
\* for all endpoints.
Call ==
    /\ step = "call"
    /\ targets' = {}
    /\ Done
    /\ UNCHANGED <<offer, clientVars>>

\* push_room_events, once it has its endpoints: room_events_since.
EventsAfter(r, n) == {m \in events[r] : m > n}

Collect ==
    /\ step = "collect"
    /\ offer' = EventsAfter(at, task.since)
    /\ offered' = [offered EXCEPT ![at] = @ \cup EventsAfter(at, task.since)]
    /\ step' = "events"
    /\ UNCHANGED <<roomVars, laneVars, pruned, asked, pass, at, batch, task, targets,
                   to, seen, clientVars, silent>>

\* The oldest event left goes to all endpoints, one after the other: what
\* another task does meanwhile makes no difference to it, so one step.
PushOldest ==
    /\ step = "events"
    /\ \E n \in offer :
        /\ \A m \in offer : n <= m
        /\ sent' = [c \in Reachable |-> IF c \in targets
                                         THEN [sent[c] EXCEPT ![at] = @ \cup {n}]
                                         ELSE sent[c]]
        /\ offer' = offer \ {n}
    /\ UNCHANGED <<roomVars, laneVars, pruned, asked, step, pass, at, batch, task, targets,
                   to, seen, told, offered, silent>>

EventsPushed ==
    /\ step = "events" /\ offer = {}
    /\ targets' = {}
    /\ Done
    /\ UNCHANGED <<offer, clientVars>>

-----------------------------------------------------------------------------
Lane == LaneEnqueues \/ LaneRecords
Request == EnterNew \/ EnterMove \/ Go \/ Say \/ Address \/ KickFromAfar \/ Broadcast \/ Kick
Flush == \/ Drain \/ NextTask
         \/ Context \/ PushRoster \/ AllPushed
         \/ Call \/ Collect \/ PushOldest \/ EventsPushed

Next == Request \/ Lane \/ Prune \/ Announce \/ AskRefresh \/ Flush

Spec == Init /\ [][Next]_vars

\* The tasks go on: tokio polls a ready task, the ticker keeps ticking, and
\* an open or a send to a client ends, if only by its timeout.  Nobody is
\* bound to send requests.
FairSpec == Spec /\ WF_vars(Lane) /\ WF_vars(Announce) /\ WF_vars(Flush)

-----------------------------------------------------------------------------
(* Properties                                                               *)

\* Every variable has its type, and an event log holds the last MaxEvents
\* numbers given out.
TypeOK ==
    /\ roster \in [Rooms -> SUBSET Clients]
    /\ events \in [Rooms -> SUBSET Nat]
    /\ seq \in [Rooms -> Nat]
    /\ \A r \in Rooms : \A n \in events[r] : n <= seq[r] /\ n + MaxEvents > seq[r]
    /\ queue \in [Rooms -> Seq(Task)]
    /\ todo \in Seq(Step) /\ requests \in Nat
    /\ pruned \subseteq Rooms /\ asked \in BOOLEAN
    /\ step \in {"task", "each", "push", "call", "collect", "events"}
    /\ pass \subseteq Rooms
    /\ at \in Rooms \cup {None}
    /\ batch # <<>> \/ step # "task" => at \in Rooms
    /\ batch \in Seq(Task) /\ task \in Task
    /\ targets \subseteq Clients \cup {None}
    /\ to \in Clients \cup {None}
    /\ seen \subseteq Clients /\ offer \subseteq Nat
    /\ told \in [Reachable -> [Rooms -> SUBSET Clients]]
    /\ sent \in [Reachable -> [Rooms -> SUBSET Nat]]
    /\ offered \in [Rooms -> SUBSET Nat] /\ silent \subseteq Rooms

\* Somebody has yet to announce the roster of r, or has and the dispatch
\* ticker has not come to it.
SnapshotDue(r) ==
    \/ Holds(todo, Enqueue(r, Snapshot))
    \/ r \in pruned
    \/ Holds(queue[r], Snapshot)
    \/ at = r /\ Holds(batch, Snapshot)

\* A snapshot of r is being pushed and c is still to get the roster as it is.
SnapshotOnItsWay(r, c) ==
    /\ at = r /\ task.kind = "snapshot" /\ c \in targets
    /\ \/ step = "each"
       \/ step = "push" /\ (to = c => seen = roster[r])

\* Whoever is in a room and was sent another roster of it than the room has
\* now is bound to be sent a newer one, except after a kick: in every interleaving of joins, walks
\* and pruning with the two reads of a push (room_presence_context for the
\* endpoints, again for each of them), a push that carries an old roster, or
\* that missed a newcomer, is followed by another.
RosterCovered ==
    \A r \in Rooms : \A c \in roster[r] \cap Reachable :
        \/ told[c][r] = roster[r] \/ r \in silent
        \/ SnapshotDue(r) \/ SnapshotOnItsWay(r, c)

\* A task that will pick up event n of room r.
Covers(t, n) == t.kind = "events" /\ t.since < n
EventDue(r, n) ==
    \/ \E i \in DOMAIN todo : /\ todo[i].act = "enqueue" /\ todo[i].room = r
                              /\ Covers(todo[i].task, n)
    \/ \E i \in DOMAIN queue[r] : Covers(queue[r][i], n)
    \/ at = r /\ \E i \in DOMAIN batch : Covers(batch[i], n)
    \/ at = r /\ step = "collect" /\ Covers(task, n)

\* No event of a log is forgotten: one that no push has picked up has a task
\* ahead that will, although record_room_event lets go of the room between
\* the log and the queue, and the ticker drains the queue before it reads the
\* log.
EventsCovered ==
    \A r \in Rooms : \A n \in events[r] \ offered[r] : EventDue(r, n)

\* A client processes an event only when its number is above those it has
\* processed (actor/www/inbox.js).  Duplicates aside, a client that every
\* push reaches is sent the events of a room in the order of their numbers,
\* and none below one it was sent before it left and came back.
SentInOrder ==
    [][\A c \in Reachable, r \in Rooms :
          \A n \in sent'[c][r] \ sent[c][r], m \in sent[c][r] : m < n]_vars

\* The promise of world/README.md, that clients are pushed the occupants of
\* their room: whoever stays in a room is in the end sent its roster as it is,
\* once the requests are over, whatever else the ticker has to push.
RosterKnown ==
    \A c \in Reachable, r \in Rooms :
        []<>(c \in roster[r] => told[c][r] = roster[r])
=============================================================================
