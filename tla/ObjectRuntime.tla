--------------------------- MODULE ObjectRuntime ---------------------------
(***************************************************************************)
(* The objects of the rooms: who holds one, whose session it is opened for, *)
(* its inbox, the requests it has out, and the blobs it is stored in.        *)
(*                                                                           *)
(* Method calls run one at a time, on the avatar lane, and in two steps: a   *)
(* call resolves its target and clears a lock that ran out (Arrive), may     *)
(* wait for the object's definition to be fetched, and then checks and acts  *)
(* (Perform).  The washer that uploads blobs, saves, loads and knocks run    *)
(* beside it.  A call keeps the time it read when it arrived.                *)
(***************************************************************************)
EXTENDS Naturals, Sequences, FiniteSets, SequencesExt

CONSTANTS
    Rooms, Lobby,      \* rooms, the one of them that always has the mailbox
    Ids, Mailbox,      \* ids of objects, the mailbox's
    Handles, Dids,     \* what avatars are called, and their DIDs
    Cids,              \* object definitions in the store
    Builtin,           \* the definition the mailbox is born with
    Verbs,             \* the methods that change something
    Needs,             \* Needs[def][verb]: what a definition requires
    Prints,            \* Prints[def]: the verbs it answers with a text
    WorldOwner,        \* the owner of the world, None if it has none
    WorldDid,          \* the DID of the world, the base of every avatar's
    Envelopes,         \* saved worlds from elsewhere: sets of places
    LockSecs, AskSecs, \* how long a session and a request live
    MaxInbox,          \* the messages an inbox keeps
    MaxTime, MaxOut, MaxId,  \* bounds: the clock, intents queued, message ids
    None

Places == Rooms \X Ids
Home == <<Lobby, Mailbox>>

ASSUME RuntimeAssumption ==
    /\ Lobby \in Rooms /\ Mailbox \in Ids /\ Cids # {}
    /\ None \notin Nat \cup Handles \cup Dids \cup Cids \cup {Builtin}
    /\ LockSecs \in Nat \ {0} /\ AskSecs \in Nat \ {0} /\ MaxInbox \in Nat \ {0}
    /\ Envelopes \subseteq SUBSET Places

VARIABLES
    objects,    \* place -> object
    routes,     \* object_inbox_index: id -> room where it was found
    handles,    \* handle_to_did
    call,       \* the call between its two steps
    washing,    \* what the washer is uploading: place -> dirty halves it saw
    saved,      \* the objects of the last save, None before it
    nextKnock,  \* next_knock_id
    now

vars == <<objects, routes, handles, call, washing, saved, nextKnock, now>>

Halves == {"state", "meta"}

\* An object as it is created: both blobs still to be written.
Fresh(cid, definition) ==
    [holder |-> None, opener |-> None, locker |-> None, expiry |-> None,
     inbox |-> <<>>, outbox |-> <<>>, pending |-> <<>>, asked |-> 0,
     cid |-> cid, definition |-> definition, dirty |-> Halves, blobs |-> {}]

\* ensure_lobby_intrinsic_objects: the lobby has its mailbox.
WithMailbox(objs) ==
    IF Home \in DOMAIN objs THEN objs
    ELSE [at \in DOMAIN objs \cup {Home} |->
            IF at = Home THEN Fresh(None, Builtin) ELSE objs[at]]

Init ==
    /\ objects = WithMailbox(<<>>)
    /\ routes = <<>> /\ handles = <<>>
    /\ call = None /\ washing = <<>> /\ saved = None
    /\ nextKnock = 0 /\ now = 0

-----------------------------------------------------------------------------
(* One object.  A change of state marks its half of the blobs dirty. *)

Dirtied(o) == [o EXCEPT !.dirty = @ \cup {"state"}]

Closed(o) == [o EXCEPT !.opener = None, !.locker = None, !.expiry = None]

\* Broken variant: a lock that ran out is dropped, the session stays.
UnlockOnly(o, t) ==
    IF o.expiry # None /\ o.expiry <= t
    THEN Dirtied([o EXCEPT !.locker = None, !.expiry = None]) ELSE o

clear_expired_lock(o, t) ==
    IF o.expiry # None /\ o.expiry <= t THEN Dirtied(Closed(o)) ELSE o

Taken(o, h) == IF o.holder \in {None, h} THEN Dirtied([o EXCEPT !.holder = h]) ELSE o

\* Dropping ends the session if it is the caller's own.
DroppedBy(o, h, d) ==
    IF o.holder # h THEN o
    ELSE LET free == [o EXCEPT !.holder = None]
         IN  Dirtied(IF o.opener = d THEN Closed(free) ELSE free)

Opened(o, d, t) ==
    Dirtied([o EXCEPT !.opener = d, !.locker = d, !.expiry = t + LockSecs])

\* Broken variant: whoever holds the object may open it.
OpenedByAny(o, h, d, t) == IF o.holder = h THEN Opened(o, d, t) ELSE o

OpenedBy(o, h, d, t) ==
    IF o.holder = h /\ o.locker \in {None, d} THEN Opened(o, d, t) ELSE o

ClosedBy(o, d) == IF o.opener = d THEN Dirtied(Closed(o)) ELSE o

\* Broken variant: a full inbox keeps one message more.
PushedLate(o, message) ==
    LET all == Append(o.inbox, message)
    IN  Dirtied([o EXCEPT !.inbox = IF Len(o.inbox) > MaxInbox THEN Tail(all) ELSE all])

\* The oldest messages make room.
push_inbox_message(o, message) ==
    LET all  == Append(o.inbox, message)
        over == IF Len(all) > MaxInbox THEN Len(all) - MaxInbox ELSE 0
    IN  Dirtied([o EXCEPT !.inbox = SubSeq(all, over + 1, Len(all))])

pop_inbox_message(o) ==
    IF o.inbox = <<>> THEN o ELSE Dirtied([o EXCEPT !.inbox = Tail(@)])

queue_outbound_intent(o, id, attempt) ==
    Dirtied([o EXCEPT !.outbox = Append(@, [request |-> id, attempt |-> attempt])])

Expired(request, t) == t >= request.sent + AskSecs

\* Broken variant: the number of the request is not counted on.
RequestUncounted(o, t) ==
    LET id == <<t, o.asked + 1>>
    IN  [queue_outbound_intent(o, id, 1) EXCEPT
            !.pending = [r \in DOMAIN @ \cup {id} |->
                IF r = id THEN [sent |-> t, attempt |-> 1] ELSE @[r]]]

\* The id of a request is the time and a count that a restart sets back.
begin_ephemeral_request(o, t) ==
    LET id == <<t, o.asked + 1>>
    IN  [queue_outbound_intent(o, id, 1) EXCEPT
            !.asked = @ + 1,
            !.pending = [r \in DOMAIN @ \cup {id} |->
                IF r = id THEN [sent |-> t, attempt |-> 1] ELSE @[r]]]

Without(pending, gone) == [r \in DOMAIN pending \ gone |-> pending[r]]

\* A retry counts its attempt and starts the clock anew; one that comes too
\* late drops the request instead, and leaves the object's marks alone.
retry_ephemeral_request(o, id, t) ==
    IF id \notin DOMAIN o.pending THEN o
    ELSE IF Expired(o.pending[id], t) THEN [o EXCEPT !.pending = Without(@, {id})]
    ELSE LET attempt == o.pending[id].attempt + 1
         IN  [queue_outbound_intent(o, id, attempt) EXCEPT
                !.pending[id] = [sent |-> t, attempt |-> attempt]]

resolve_ephemeral_reply(o, id) ==
    IF id \in DOMAIN o.pending THEN Dirtied([o EXCEPT !.pending = Without(@, {id})]) ELSE o

\* Broken variant: a reply is numbered by the length of the inbox.
LengthId(inbox) == Len(inbox) + 1

NextMessageId(inbox) ==
    LET ids == {inbox[i].id : i \in DOMAIN inbox}
    IN  1 + (IF ids = {} THEN 0 ELSE CHOOSE n \in ids : \A m \in ids : m <= n)

Replied(o, id) ==
    push_inbox_message(resolve_ephemeral_reply(o, id),
                       [id |-> NextMessageId(o.inbox), durable |-> FALSE])

reap_expired_ephemeral_requests(o, t) ==
    LET gone == {r \in DOMAIN o.pending : Expired(o.pending[r], t)}
    IN  IF gone = {} THEN o ELSE Dirtied([o EXCEPT !.pending = Without(@, gone)])

\* The durable messages of an inbox, in its order.
Durables(inbox) ==
    LET upTo[i \in 0 .. Len(inbox)] ==
            IF i = 0 THEN <<>>
            ELSE IF inbox[i].durable THEN Append(upTo[i - 1], inbox[i]) ELSE upTo[i - 1]
    IN  upTo[Len(inbox)]

\* What a save keeps of an object.
persisted_snapshot(o) ==
    [o EXCEPT !.inbox = Durables(@), !.outbox = <<>>, !.pending = <<>>, !.asked = 0]

-----------------------------------------------------------------------------
(* A call: its target *)

Holding(id) == {r \in Rooms : <<r, id>> \in DOMAIN objects}

\* Where a DID leads: the room remembered for it if the object is still there,
\* else any room that has an object of that id.
RoomsFor(id) ==
    IF id \in DOMAIN routes /\ routes[id] \in Holding(id) THEN {routes[id]} ELSE Holding(id)

\* The lock of the target is cleared if it ran out, and the definition to be
\* fetched is noted.
Arrives(h, place) ==
    /\ call = None
    /\ objects' = [objects EXCEPT ![place] = clear_expired_lock(@, now)]
    /\ call' = [handle |-> h, did |-> handles[h], at |-> place, now |-> now,
                fetch |-> IF objects[place].definition = None THEN objects[place].cid ELSE None]

\* The target is the inbox, a name or an alias of an object in the caller's room.
ArriveByName(h, room, id) ==
    /\ <<room, id>> \in DOMAIN objects
    /\ Arrives(h, <<room, id>>)
    /\ UNCHANGED <<routes, handles, washing, saved, nextKnock, now>>

\* The target is a DID of this world, wherever its object is; the place is
\* remembered.
ArriveByDid(h, id) ==
    \E room \in RoomsFor(id) :
        /\ <<room, id>> \in DOMAIN objects
        /\ Arrives(h, <<room, id>>)
        /\ routes' = [i \in DOMAIN routes \cup {id} |-> IF i = id THEN room ELSE routes[i]]
        /\ UNCHANGED <<handles, washing, saved, nextKnock, now>>

\* No room has it: a route that led to it is forgotten.
MissDid(id) ==
    /\ call = None
    /\ id \in DOMAIN routes /\ Holding(id) = {}
    /\ routes' = [i \in DOMAIN routes \ {id} |-> routes[i]]
    /\ UNCHANGED <<objects, handles, call, washing, saved, nextKnock, now>>

\* The routes are a bounded cache.
EvictRoute(id) ==
    /\ id \in DOMAIN routes
    /\ routes' = [i \in DOMAIN routes \ {id} |-> routes[i]]
    /\ UNCHANGED <<objects, handles, call, washing, saved, nextKnock, now>>

-----------------------------------------------------------------------------
(* A call: what it does *)

\* hydrate_object_definition_by_cid, once the fetch is over: it may have failed,
\* and counts only if the object is still without a definition and of that CID.
Hydrations(o) ==
    {o} \cup (IF call.fetch # None /\ o.definition = None /\ o.cid = call.fetch
              THEN {[o EXCEPT !.definition = o.cid]} ELSE {})

\* Where an object is, for `location': with the avatar its holder's handle names.
Location(o) ==
    IF o.holder # None /\ o.holder \in DOMAIN handles THEN handles[o.holder] ELSE None

\* The conditions a definition puts on a verb.
Holds(need, o, d) ==
    CASE need = "user == location"    -> d = Location(o)
      [] need = "user == world.owner" -> d = WorldOwner
      [] need = "user == opened_by"   -> d = o.opener
      [] need = "opened_by == null"   -> o.opener = None

NeedsOf(o, verb) == IF o.definition = None THEN {} ELSE Needs[o.definition][verb]
PrintsIt(o, verb) == o.definition # None /\ verb \in Prints[o.definition]

\* A call whose requirements speak of the session extends the lock.
Extended(o, verb) ==
    IF NeedsOf(o, verb) \cap {"user == opened_by", "opened_by == null"} # {}
    THEN [o EXCEPT !.expiry = call.now + LockSecs] ELSE o

\* The call passes its checks and the verb has its effect, unless the
\* definition answers the verb with a text.
Perform(verb, Effect(_)) ==
    /\ call # None /\ call.at \in DOMAIN objects /\ verb \in Verbs
    /\ \E o \in Hydrations(objects[call.at]) :
          /\ \A need \in NeedsOf(o, verb) : Holds(need, o, call.did)
          /\ LET ready == Extended(o, verb)
             IN  objects' = [objects EXCEPT ![call.at] =
                                IF PrintsIt(o, verb) THEN ready ELSE Effect(ready)]
    /\ call' = None
    /\ UNCHANGED <<routes, handles, washing, saved, nextKnock, now>>

\* The access lists or the requirements refuse, the verb changes nothing, or
\* the object has gone: only the definition may have been filled in.
Refuse ==
    /\ call # None
    /\ IF call.at \in DOMAIN objects
       THEN \E o \in Hydrations(objects[call.at]) : objects' = [objects EXCEPT ![call.at] = o]
       ELSE UNCHANGED objects
    /\ call' = None
    /\ UNCHANGED <<routes, handles, washing, saved, nextKnock, now>>

Take == LET Effect(o) == Taken(o, call.handle) IN Perform("take", Effect)
Drop == LET Effect(o) == DroppedBy(o, call.handle, call.did) IN Perform("drop", Effect)
Open == LET Effect(o) == OpenedBy(o, call.handle, call.did, call.now) IN Perform("open", Effect)
Close == LET Effect(o) == ClosedBy(o, call.did) IN Perform("close", Effect)
Pop == Perform("pop", pop_inbox_message)

Ask ==
    /\ call # None /\ call.at \in DOMAIN objects /\ Len(objects[call.at].outbox) < MaxOut
    /\ LET Effect(o) == begin_ephemeral_request(o, call.now) IN Perform("ask", Effect)

Retry(id) ==
    /\ call # None /\ call.at \in DOMAIN objects /\ Len(objects[call.at].outbox) < MaxOut
    /\ LET Effect(o) == retry_ephemeral_request(o, id, call.now) IN Perform("retry", Effect)

Reply(id) ==
    /\ call # None /\ call.at \in DOMAIN objects /\ NextMessageId(objects[call.at].inbox) <= MaxId
    /\ LET Effect(o) == Replied(o, id) IN Perform("reply", Effect)

Pending ==
    LET Effect(o) == reap_expired_ephemeral_requests(o, call.now) IN Perform("pending", Effect)

\* @object.cid and @object.content-b64: only for the owner of the world, whose
\* DID is compared with the base of the caller's.
SetDefinition(cid) ==
    /\ WorldOwner = WorldDid
    /\ LET Effect(o) == [o EXCEPT !.cid = cid, !.definition = cid, !.dirty = @ \cup {"meta"}]
       IN  Perform("cid", Effect)

\* flush: the object's dirty halves are uploaded one after the other; a failure
\* gives up on both.
Flush ==
    LET Effect(o) == [o EXCEPT !.blobs = @ \cup o.dirty, !.dirty = {}]
    IN  Perform("flush", Effect)

-----------------------------------------------------------------------------
(* Beside the calls *)

\* A knock leaves a message in the mailbox, numbered like the knock.
Knock ==
    /\ nextKnock < MaxId
    /\ nextKnock' = nextKnock + 1
    /\ objects' = [objects EXCEPT ![Home] =
                      push_inbox_message(@, [id |-> nextKnock + 1, durable |-> TRUE])]
    /\ UNCHANGED <<routes, handles, call, washing, saved, now>>

\* The washer, and the flush before a save: what is dirty is noted ...
Wash ==
    /\ washing = <<>>
    /\ washing' = [at \in {p \in DOMAIN objects : objects[p].dirty # {}} |-> objects[at].dirty]
    /\ washing' # <<>>
    /\ UNCHANGED <<objects, routes, handles, call, saved, nextKnock, now>>

\* ... and what could be uploaded is marked clean when all uploads are over.
\* Broken variant: an upload that failed is marked clean with the others.
WashedAll(o, seen, done) == [o EXCEPT !.blobs = @ \cup done, !.dirty = @ \ seen]
Washed(o, seen, done) == [o EXCEPT !.blobs = @ \cup done, !.dirty = @ \ done]

Washes ==
    /\ washing # <<>>
    /\ \E done \in [DOMAIN washing -> SUBSET Halves] :
          /\ \A at \in DOMAIN washing : done[at] \subseteq washing[at]
          /\ objects' = [at \in DOMAIN objects |->
                IF at \in DOMAIN washing
                THEN Washed(objects[at], washing[at], done[at]) ELSE objects[at]]
    /\ washing' = <<>>
    /\ UNCHANGED <<routes, handles, call, saved, nextKnock, now>>

Save ==
    /\ saved' = [at \in DOMAIN objects |-> persisted_snapshot(objects[at])]
    /\ UNCHANGED <<objects, routes, handles, call, washing, nextKnock, now>>

\* The objects a saved world brings: locks that ran out meanwhile are cleared
\* and the lobby has its mailbox.
Restored(objs) ==
    WithMailbox([at \in DOMAIN objs |-> clear_expired_lock(objs[at], now)])

\* Definitions an envelope lacks are fetched; each fetch may fail.
Hydrated(objs) ==
    LET bare == {at \in DOMAIN objs : objs[at].definition = None /\ objs[at].cid # None}
    IN  {[at \in DOMAIN objs |->
            IF at \in done THEN [objs[at] EXCEPT !.definition = objs[at].cid] ELSE objs[at]]
         : done \in SUBSET bare}

Foreign(places) == [at \in places |-> Fresh(CHOOSE c \in Cids : TRUE, None)]

Loadable == {Foreign(e) : e \in Envelopes} \cup (IF saved = None THEN {} ELSE {saved})

\* A load over HTTP replaces the objects under whatever call is on its way.
Load ==
    /\ \E envelope \in Loadable : \E objs \in Hydrated(envelope) : objects' = Restored(objs)
    /\ UNCHANGED <<routes, handles, call, washing, saved, nextKnock, now>>

\* The program stops and starts from what was saved.
Restart ==
    /\ saved # None
    /\ \E objs \in Hydrated(saved) : objects' = Restored(objs)
    /\ routes' = <<>> /\ call' = None /\ washing' = <<>> /\ nextKnock' = 0
    /\ UNCHANGED <<handles, saved, now>>

\* An avatar comes under a free handle, or goes; what it holds stays held.
Come(h, d) ==
    /\ h \notin DOMAIN handles
    /\ handles' = [x \in DOMAIN handles \cup {h} |-> IF x = h THEN d ELSE handles[x]]
    /\ UNCHANGED <<objects, routes, call, washing, saved, nextKnock, now>>

Go(h) ==
    /\ h \in DOMAIN handles
    /\ handles' = [x \in DOMAIN handles \ {h} |-> handles[x]]
    /\ UNCHANGED <<objects, routes, call, washing, saved, nextKnock, now>>

Tick ==
    /\ now < MaxTime
    /\ now' = now + 1
    /\ UNCHANGED <<objects, routes, handles, call, washing, saved, nextKnock>>

-----------------------------------------------------------------------------

Requests == {<<t, n>> : t \in 0 .. MaxTime, n \in 1 .. MaxOut}

Calls ==
    \/ \E h \in DOMAIN handles, room \in Rooms, id \in Ids : ArriveByName(h, room, id)
    \/ \E h \in DOMAIN handles, id \in Ids : ArriveByDid(h, id)
    \/ \E id \in Ids : MissDid(id) \/ EvictRoute(id)
    \/ Take \/ Drop \/ Open \/ Close \/ Pop \/ Ask \/ Pending \/ Flush \/ Refuse
    \/ \E id \in Requests : Retry(id) \/ Reply(id)
    \/ \E cid \in Cids : SetDefinition(cid)

Loads == Load \/ Restart

Next ==
    \/ Calls
    \/ Knock \/ Wash \/ Washes \/ Save \/ Loads
    \/ \E h \in Handles : Go(h) \/ \E d \in Dids : Come(h, d)
    \/ Tick

Spec == Init /\ [][Next]_vars

-----------------------------------------------------------------------------

Optional(S) == S \cup {None}

Fields == {"holder", "opener", "locker", "expiry", "inbox", "outbox", "pending", "asked",
           "cid", "definition", "dirty", "blobs"}

ObjectOK(o) ==
    /\ DOMAIN o = Fields
    /\ o.holder \in Optional(Handles) /\ o.opener \in Optional(Dids)
    /\ o.locker \in Optional(Dids) /\ o.expiry \in Optional(Nat)
    /\ o.cid \in Optional(Cids) /\ o.definition \in Optional(Cids \cup {Builtin})
    /\ o.dirty \subseteq Halves /\ o.blobs \subseteq Halves

TypeOK ==
    /\ DOMAIN objects \subseteq Places /\ Home \in DOMAIN objects
    /\ \A at \in DOMAIN objects : ObjectOK(objects[at])
    /\ DOMAIN handles \subseteq Handles /\ \A h \in DOMAIN handles : handles[h] \in Dids
    /\ call # None => call.handle \in Handles /\ call.did \in Dids /\ call.now \in Nat
    /\ saved # None => /\ DOMAIN saved \subseteq Places
                       /\ \A at \in DOMAIN saved : ObjectOK(saved[at])
    /\ \A at \in DOMAIN washing : washing[at] \subseteq Halves
    /\ now \in Nat

\* A session and its lock are one thing: whoever has an object open has it
\* locked, and every session ends by the clock if nothing else ends it.
Whole(o) == o.opener = o.locker /\ (o.opener # None => o.expiry # None)
LockWhole == \A at \in DOMAIN objects : Whole(objects[at])

\* An inbox never holds more than its limit, and the messages that replies left
\* in it can be told apart by their ids, however many came, were popped or were
\* pushed out, and whatever knocks were numbered.
InboxSound ==
    \A at \in DOMAIN objects :
        LET inbox == objects[at].inbox
        IN  /\ Len(inbox) <= MaxInbox
            /\ \A i, j \in DOMAIN inbox :
                  ~inbox[i].durable /\ ~inbox[j].durable /\ inbox[i].id = inbox[j].id => i = j

\* An object's half that counts as clean has been stored: a flush that failed,
\* or came back to an object a load has put in the place of the one it read,
\* never hides one that has no blob.
Stored(o) == Halves \ o.dirty \subseteq o.blobs
CleanIsStored == \A at \in DOMAIN objects : Stored(objects[at])

\* Only its holder lets go of an object, and only the one it is open for, or
\* the clock, ends a session: while a lock lasts nothing but a load or a restart
\* passes the session on.
Seized(o, p) ==
    \/ o.holder # None /\ p.holder \notin {o.holder, None}
    \/ o.opener # None /\ o.expiry > now /\ p.opener \notin {o.opener, None}
NothingSeized ==
    [][Loads \/ \A at \in DOMAIN objects \cap DOMAIN objects' :
                    ~Seized(objects[at], objects'[at])]_vars

\* A request stays the same request until it is answered, retried, dropped or
\* lost to a load: a new one never goes out under the id of one that waits,
\* however many are asked within a second and whatever restarts set back.
Followed(p, q) == q = p \/ (q.attempt = p.attempt + 1 /\ q.sent >= p.sent)
Overtaken(o, p) ==
    \/ \E r \in DOMAIN o.pending \cap DOMAIN p.pending : ~Followed(o.pending[r], p.pending[r])
    \/ /\ Len(p.outbox) > Len(o.outbox) /\ Last(p.outbox).attempt = 1
       /\ Last(p.outbox).request \in DOMAIN o.pending
RequestsKept ==
    [][Loads \/ \A at \in DOMAIN objects \cap DOMAIN objects' :
                    ~Overtaken(objects[at], objects'[at])]_vars
=============================================================================
