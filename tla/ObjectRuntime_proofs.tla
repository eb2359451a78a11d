------------------------ MODULE ObjectRuntime_proofs ------------------------
(***************************************************************************)
(* Proofs about ObjectRuntime, for any objects, avatars, definitions and    *)
(* limits: sessions and locks are whole, nothing is seized, what counts as  *)
(* clean is stored, no request takes another one's place, and the messages  *)
(* of an inbox can be told apart.                                           *)
(***************************************************************************)
EXTENDS ObjectRuntime, WellFoundedInduction, TLAPS

\* What holds of every object, in the rooms and in the saved state.
Good(o) == ObjectOK(o) /\ Whole(o) /\ Stored(o)

\* Nobody takes an object from who holds it, nor a session from who has it.
Left(o, p) ==
    /\ o.holder # None => p.holder \in {o.holder, None}
    /\ o.opener # None => p.opener \in {o.opener, None}

-----------------------------------------------------------------------------
(* One object                                                               *)

LEMMA FreshGood ==
    ASSUME NEW cid \in Optional(Cids), NEW def \in Optional(Cids \cup {Builtin})
    PROVE  Good(Fresh(cid, def))
BY DEF Good, Fresh, ObjectOK, Whole, Stored, Fields, Optional, Halves

LEMMA DirtiedGood ==
    ASSUME NEW o, Good(o)
    PROVE  Good(Dirtied(o)) /\ Dirtied(o).holder = o.holder /\ Dirtied(o).opener = o.opener
BY DEF Good, Dirtied, ObjectOK, Whole, Stored, Fields, Halves

LEMMA ClosedGood ==
    ASSUME NEW o, Good(o)
    PROVE  Good(Closed(o)) /\ Closed(o).holder = o.holder /\ Closed(o).opener = None
BY DEF Good, Closed, ObjectOK, Whole, Stored, Fields, Optional

LEMMA ClearedGood ==
    ASSUME NEW o, Good(o), NEW t \in Nat
    PROVE  Good(clear_expired_lock(o, t)) /\ Left(o, clear_expired_lock(o, t))
BY DirtiedGood, ClosedGood DEF clear_expired_lock, Left

LEMMA TakenGood ==
    ASSUME NEW o, Good(o), NEW h \in Handles
    PROVE  Good(Taken(o, h)) /\ Left(o, Taken(o, h))
<1> DEFINE p == [o EXCEPT !.holder = h]
<1>1. Good(p) /\ p.holder = h /\ p.opener = o.opener
  BY DEF Good, ObjectOK, Whole, Stored, Fields, Optional
<1> HIDE DEF p
<1>2. Taken(o, h) = (IF o.holder \in {None, h} THEN Dirtied(p) ELSE o)
  BY DEF Taken, p
<1> QED BY <1>1, <1>2, DirtiedGood DEF Left

LEMMA DroppedGood ==
    ASSUME NEW o, Good(o), NEW h, NEW d
    PROVE  Good(DroppedBy(o, h, d)) /\ Left(o, DroppedBy(o, h, d))
<1> DEFINE p == [o EXCEPT !.holder = None]
<1>1. Good(p) /\ p.holder = None /\ p.opener = o.opener
  BY DEF Good, ObjectOK, Whole, Stored, Fields, Optional
<1> HIDE DEF p
<1>2. DroppedBy(o, h, d) = (IF o.holder # h THEN o
                            ELSE Dirtied(IF o.opener = d THEN Closed(p) ELSE p))
  BY DEF DroppedBy, p
<1> QED BY <1>1, <1>2, DirtiedGood, ClosedGood DEF Left

LEMMA OpenedGood ==
    ASSUME NEW o, Good(o), NEW h, NEW d \in Dids, NEW t \in Nat
    PROVE  Good(OpenedBy(o, h, d, t)) /\ Left(o, OpenedBy(o, h, d, t))
<1> DEFINE e == t + LockSecs
           p == [o EXCEPT !.opener = d, !.locker = d, !.expiry = e]
<1>1. e \in Nat
  BY RuntimeAssumption
<1> HIDE DEF e
<1>2. Good(p) /\ p.holder = o.holder /\ p.opener = d
  BY <1>1, RuntimeAssumption DEF Good, ObjectOK, Whole, Stored, Fields, Optional
<1>3. o.locker = d => o.opener = d
  BY DEF Good, Whole
<1>4. o.locker = None => o.opener = None
  BY DEF Good, Whole
<1> HIDE DEF p
<1>5. OpenedBy(o, h, d, t) = (IF o.holder = h /\ o.locker \in {None, d} THEN Dirtied(p) ELSE o)
  BY DEF OpenedBy, Opened, p, e
<1> QED BY <1>2, <1>3, <1>4, <1>5, DirtiedGood DEF Left

LEMMA ClosedByGood ==
    ASSUME NEW o, Good(o), NEW d
    PROVE  Good(ClosedBy(o, d)) /\ Left(o, ClosedBy(o, d))
BY DirtiedGood, ClosedGood DEF ClosedBy, Left

\* Two objects that differ in their inbox, intents and requests at most, and in
\* that the one is marked for it.
Kin(o, p) ==
    /\ DOMAIN o = Fields /\ DOMAIN p = Fields
    /\ \A f \in {"holder", "opener", "locker", "expiry", "cid", "definition", "blobs"} : p[f] = o[f]
    /\ p.dirty \in {o.dirty, o.dirty \cup {"state"}}

LEMMA KinGood ==
    ASSUME NEW o, Good(o), NEW p, Kin(o, p)
    PROVE  Good(p) /\ Left(o, p)
BY DEF Good, Kin, Left, ObjectOK, Whole, Stored, Halves

LEMMA KinStep ==
    ASSUME NEW o, NEW p, Kin(o, p)
    PROVE  /\ Kin(o, Dirtied(p))
           /\ \A x : /\ Kin(o, [p EXCEPT !.inbox = x]) /\ Kin(o, [p EXCEPT !.outbox = x])
                    /\ Kin(o, [p EXCEPT !.pending = x])
BY DEF Kin, Dirtied, Fields

LEMMA KinSelf == ASSUME NEW o, Good(o) PROVE Kin(o, o)
BY DEF Kin, Good, ObjectOK

LEMMA PushKin ==
    ASSUME NEW o, NEW p, Kin(o, p), NEW message
    PROVE  Kin(o, push_inbox_message(p, message))
<1> DEFINE all == Append(p.inbox, message)
           over == IF Len(all) > MaxInbox THEN Len(all) - MaxInbox ELSE 0
           x == SubSeq(all, over + 1, Len(all))
<1>1. push_inbox_message(p, message) = Dirtied([p EXCEPT !.inbox = x])
  BY DEF push_inbox_message
<1> HIDE DEF x
<1>2. Kin(o, [p EXCEPT !.inbox = x])
  BY KinStep
<1> QED BY <1>1, <1>2, KinStep

LEMMA PopKin ==
    ASSUME NEW o, Good(o)
    PROVE  Kin(o, pop_inbox_message(o))
<1> DEFINE x == Tail(o.inbox)
<1>1. pop_inbox_message(o) = (IF o.inbox = <<>> THEN o ELSE Dirtied([o EXCEPT !.inbox = x]))
  BY DEF pop_inbox_message
<1> HIDE DEF x
<1>2. Kin(o, o) /\ Kin(o, [o EXCEPT !.inbox = x])
  BY KinSelf, KinStep
<1> QED BY <1>1, <1>2, KinStep

LEMMA QueueKin ==
    ASSUME NEW o, NEW p, Kin(o, p), NEW id, NEW attempt
    PROVE  Kin(o, queue_outbound_intent(p, id, attempt))
<1> DEFINE x == Append(p.outbox, [request |-> id, attempt |-> attempt])
<1>1. queue_outbound_intent(p, id, attempt) = Dirtied([p EXCEPT !.outbox = x])
  BY DEF queue_outbound_intent
<1> HIDE DEF x
<1>2. Kin(o, [p EXCEPT !.outbox = x])
  BY KinStep
<1> QED BY <1>1, <1>2, KinStep

LEMMA BeginKin ==
    ASSUME NEW o, Good(o), NEW t
    PROVE  Kin(o, begin_ephemeral_request(o, t))
<1> DEFINE id == <<t, o.asked + 1>>
           p == queue_outbound_intent(o, id, 1)
           x == p.asked + 1
           y == [r \in DOMAIN p.pending \cup {id} |->
                    IF r = id THEN [sent |-> t, attempt |-> 1] ELSE p.pending[r]]
<1>1. begin_ephemeral_request(o, t) = [p EXCEPT !.asked = x, !.pending = y]
  BY DEF begin_ephemeral_request
<1> HIDE DEF p, x, y
<1>2. Kin(o, p)
  BY KinSelf, QueueKin DEF p
<1>3. Kin(o, [p EXCEPT !.asked = x, !.pending = y])
  BY <1>2 DEF Kin, Fields
<1> QED BY <1>1, <1>3

LEMMA RetryKin ==
    ASSUME NEW o, Good(o), NEW id, NEW t
    PROVE  Kin(o, retry_ephemeral_request(o, id, t))
<1> DEFINE attempt == o.pending[id].attempt + 1
           p == queue_outbound_intent(o, id, attempt)
           fresh == [p.pending EXCEPT ![id] = [sent |-> t, attempt |-> attempt]]
           less == Without(o.pending, {id})
<1>1. retry_ephemeral_request(o, id, t) =
        (IF id \notin DOMAIN o.pending THEN o
         ELSE IF Expired(o.pending[id], t) THEN [o EXCEPT !.pending = less]
         ELSE [p EXCEPT !.pending = fresh])
  BY DEF retry_ephemeral_request
<1> HIDE DEF p, fresh, less
<1>2. Kin(o, o) /\ Kin(o, p)
  BY KinSelf, QueueKin DEF p
<1>3. Kin(o, [o EXCEPT !.pending = less]) /\ Kin(o, [p EXCEPT !.pending = fresh])
  BY <1>2 DEF Kin, Fields
<1> QED BY <1>1, <1>2, <1>3

LEMMA ReplyKin ==
    ASSUME NEW o, Good(o), NEW id
    PROVE  Kin(o, Replied(o, id))
<1> DEFINE less == Without(o.pending, {id})
           p == resolve_ephemeral_reply(o, id)
           message == [id |-> NextMessageId(o.inbox), durable |-> FALSE]
<1>1. p = (IF id \in DOMAIN o.pending THEN Dirtied([o EXCEPT !.pending = less]) ELSE o)
  BY DEF resolve_ephemeral_reply
<1>2. Replied(o, id) = push_inbox_message(p, message)
  BY DEF Replied
<1> HIDE DEF less, p, message
<1>3. Kin(o, o) /\ Kin(o, Dirtied([o EXCEPT !.pending = less]))
  BY KinSelf, KinStep
<1> QED BY <1>1, <1>2, <1>3, PushKin

LEMMA ReapKin ==
    ASSUME NEW o, Good(o), NEW t
    PROVE  Kin(o, reap_expired_ephemeral_requests(o, t))
<1> DEFINE gone == {r \in DOMAIN o.pending : Expired(o.pending[r], t)}
           less == Without(o.pending, gone)
<1>1. reap_expired_ephemeral_requests(o, t) =
        (IF gone = {} THEN o ELSE Dirtied([o EXCEPT !.pending = less]))
  BY DEF reap_expired_ephemeral_requests
<1> HIDE DEF gone, less
<1>2. Kin(o, o) /\ Kin(o, Dirtied([o EXCEPT !.pending = less]))
  BY KinSelf, KinStep
<1> QED BY <1>1, <1>2

LEMMA SnapshotGood ==
    ASSUME NEW o, Good(o)
    PROVE  Good(persisted_snapshot(o))
<1> DEFINE x == Durables(o.inbox)
<1>1. persisted_snapshot(o) =
        [o EXCEPT !.inbox = x, !.outbox = <<>>, !.pending = <<>>, !.asked = 0]
  BY DEF persisted_snapshot
<1> HIDE DEF x
<1>2. Kin(o, persisted_snapshot(o))
  BY <1>1 DEF Kin, Good, ObjectOK, Fields
<1> QED BY <1>2, KinGood

-----------------------------------------------------------------------------
(* Definitions and blobs                                                    *)

LEMMA DefinedGood ==
    ASSUME NEW o, Good(o), NEW cid \in Cids
    PROVE  LET p == [o EXCEPT !.cid = cid, !.definition = cid, !.dirty = @ \cup {"meta"}]
               q == [o EXCEPT !.definition = cid]
           IN  Good(p) /\ Left(o, p) /\ Good(q) /\ Left(o, q)
BY DEF Good, Left, ObjectOK, Whole, Stored, Fields, Optional, Halves

LEMMA FlushedGood ==
    ASSUME NEW o, Good(o)
    PROVE  LET p == [o EXCEPT !.blobs = @ \cup o.dirty, !.dirty = {}]
           IN  Good(p) /\ Left(o, p)
BY DEF Good, Left, ObjectOK, Whole, Stored, Fields, Optional, Halves

LEMMA WashedGood ==
    ASSUME NEW o, Good(o), NEW seen, NEW done \in SUBSET Halves
    PROVE  Good(Washed(o, seen, done)) /\ Left(o, Washed(o, seen, done))
BY DEF Washed, Good, Left, ObjectOK, Whole, Stored, Fields, Optional, Halves

LEMMA ExtendedGood ==
    ASSUME NEW o, Good(o), NEW verb, call.now \in Nat
    PROVE  LET p == Extended(o, verb) IN Good(p) /\ Left(o, p) /\ p.holder = o.holder /\ p.opener = o.opener
<1> DEFINE e == call.now + LockSecs
           p == [o EXCEPT !.expiry = e]
<1>1. e \in Nat
  BY RuntimeAssumption
<1>2. Extended(o, verb) \in {o, p}
  BY DEF Extended
<1> HIDE DEF e
<1>3. Good(p) /\ p.holder = o.holder /\ p.opener = o.opener
  BY <1>1, RuntimeAssumption DEF Good, ObjectOK, Whole, Stored, Fields, Optional
<1> QED BY <1>2, <1>3 DEF Left

LEMMA HydratedGood ==
    ASSUME NEW o, Good(o), NEW p \in Hydrations(o)
    PROVE  Good(p) /\ p.holder = o.holder /\ p.opener = o.opener
<1>1. CASE p = o
  BY <1>1
<1>2. CASE p # o
  <2>1. p = [o EXCEPT !.definition = o.cid] /\ o.cid # None
    BY <1>2 DEF Hydrations
  <2>2. o.cid \in Cids
    BY <2>1 DEF Good, ObjectOK, Optional
  <2> QED BY <2>1, <2>2, DefinedGood DEF Good, ObjectOK, Fields
<1> QED BY <1>1, <1>2

-----------------------------------------------------------------------------
(* Calls                                                                    *)

\* What a verb makes of an object.
Effected(o, p) ==
    \/ p = o
    \/ p = Taken(o, call.handle)
    \/ p = DroppedBy(o, call.handle, call.did)
    \/ p = OpenedBy(o, call.handle, call.did, call.now)
    \/ p = ClosedBy(o, call.did)
    \/ p = pop_inbox_message(o)
    \/ p = begin_ephemeral_request(o, call.now)
    \/ \E id \in Requests : p = retry_ephemeral_request(o, id, call.now) \/ p = Replied(o, id)
    \/ p = reap_expired_ephemeral_requests(o, call.now)
    \/ \E cid \in Cids : p = [o EXCEPT !.cid = cid, !.definition = cid, !.dirty = @ \cup {"meta"}]
    \/ p = [o EXCEPT !.blobs = @ \cup o.dirty, !.dirty = {}]

LEMMA EffectGood ==
    ASSUME NEW o, Good(o), NEW p, Effected(o, p),
           call.handle \in Handles, call.did \in Dids, call.now \in Nat
    PROVE  Good(p) /\ Left(o, p)
<1>1. CASE p = o
  BY <1>1 DEF Left
<1>2. CASE p = Taken(o, call.handle)
  BY <1>2, TakenGood
<1>3. CASE p = DroppedBy(o, call.handle, call.did)
  BY <1>3, DroppedGood
<1>4. CASE p = OpenedBy(o, call.handle, call.did, call.now)
  BY <1>4, OpenedGood
<1>5. CASE p = ClosedBy(o, call.did)
  BY <1>5, ClosedByGood
<1>6. CASE p = pop_inbox_message(o)
  BY <1>6, PopKin, KinGood
<1>7. CASE p = begin_ephemeral_request(o, call.now)
  BY <1>7, BeginKin, KinGood
<1>8. ASSUME NEW id \in Requests, p = retry_ephemeral_request(o, id, call.now) \/ p = Replied(o, id)
      PROVE  Good(p) /\ Left(o, p)
  BY <1>8, RetryKin, ReplyKin, KinGood
<1>9. CASE p = reap_expired_ephemeral_requests(o, call.now)
  BY <1>9, ReapKin, KinGood
<1>10. ASSUME NEW cid \in Cids, p = [o EXCEPT !.cid = cid, !.definition = cid, !.dirty = @ \cup {"meta"}]
       PROVE  Good(p) /\ Left(o, p)
  BY <1>10, DefinedGood
<1>11. CASE p = [o EXCEPT !.blobs = @ \cup o.dirty, !.dirty = {}]
  BY <1>11, FlushedGood
<1> QED BY <1>1, <1>2, <1>3, <1>4, <1>5, <1>6, <1>7, <1>8, <1>9, <1>10, <1>11 DEF Effected

\* The second step of a call.
Performs ==
    \/ Take \/ Drop \/ Open \/ Close \/ Pop \/ Ask \/ Pending \/ Flush \/ Refuse
    \/ \E id \in Requests : Retry(id) \/ Reply(id)
    \/ \E cid \in Cids : SetDefinition(cid)

\* What it makes of the objects: the one it is about is turned, once its definition
\* is there or is not, into what the verb makes of it.
Turns(verb, o, p) ==
    /\ call.at \in DOMAIN objects /\ verb \in Verbs /\ o \in Hydrations(objects[call.at])
    /\ objects' = [objects EXCEPT ![call.at] = IF PrintsIt(o, verb) THEN Extended(o, verb) ELSE p]
Turned ==
    /\ call.at \in DOMAIN objects
    /\ \E verb \in Verbs, o \in Hydrations(objects[call.at]) : \E p :
        Effected(Extended(o, verb), p) /\ objects' = [objects EXCEPT ![call.at] = p]

LEMMA TurnsTurned ==
    ASSUME NEW verb, NEW o, NEW p, Turns(verb, o, p), Effected(Extended(o, verb), p)
    PROVE  Turned
<1> DEFINE q == IF PrintsIt(o, verb) THEN Extended(o, verb) ELSE p
<1>1. Effected(Extended(o, verb), q)
  BY DEF Effected
<1>2. objects' = [objects EXCEPT ![call.at] = q] /\ verb \in Verbs
      /\ call.at \in DOMAIN objects /\ o \in Hydrations(objects[call.at])
  BY DEF Turns
<1> HIDE DEF q
<1> QED BY <1>1, <1>2 DEF Turned

LEMMA PerformTurns ==
    ASSUME Performs, ~ Refuse
    PROVE  Turned
<1>1. CASE Take
  <2> DEFINE Becomes(o) == Taken(Extended(o, "take"), call.handle)
  <2>1. PICK o : Turns("take", o, Becomes(o))
    BY <1>1 DEF Take, Perform, Turns
  <2>2. Effected(Extended(o, "take"), Becomes(o))
    BY DEF Effected
  <2> QED BY <2>1, <2>2, TurnsTurned
<1>2. CASE Drop
  <2> DEFINE Becomes(o) == DroppedBy(Extended(o, "drop"), call.handle, call.did)
  <2>1. PICK o : Turns("drop", o, Becomes(o))
    BY <1>2 DEF Drop, Perform, Turns
  <2>2. Effected(Extended(o, "drop"), Becomes(o))
    BY DEF Effected
  <2> QED BY <2>1, <2>2, TurnsTurned
<1>3. CASE Open
  <2> DEFINE Becomes(o) == OpenedBy(Extended(o, "open"), call.handle, call.did, call.now)
  <2>1. PICK o : Turns("open", o, Becomes(o))
    BY <1>3 DEF Open, Perform, Turns
  <2>2. Effected(Extended(o, "open"), Becomes(o))
    BY DEF Effected
  <2> QED BY <2>1, <2>2, TurnsTurned
<1>4. CASE Close
  <2> DEFINE Becomes(o) == ClosedBy(Extended(o, "close"), call.did)
  <2>1. PICK o : Turns("close", o, Becomes(o))
    BY <1>4 DEF Close, Perform, Turns
  <2>2. Effected(Extended(o, "close"), Becomes(o))
    BY DEF Effected
  <2> QED BY <2>1, <2>2, TurnsTurned
<1>5. CASE Pop
  <2> DEFINE Becomes(o) == pop_inbox_message(Extended(o, "pop"))
  <2>1. PICK o : Turns("pop", o, Becomes(o))
    BY <1>5 DEF Pop, Perform, Turns
  <2>2. Effected(Extended(o, "pop"), Becomes(o))
    BY DEF Effected
  <2> QED BY <2>1, <2>2, TurnsTurned
<1>6. CASE Ask
  <2> DEFINE Becomes(o) == begin_ephemeral_request(Extended(o, "ask"), call.now)
  <2>1. PICK o : Turns("ask", o, Becomes(o))
    BY <1>6 DEF Ask, Perform, Turns
  <2>2. Effected(Extended(o, "ask"), Becomes(o))
    BY DEF Effected
  <2> QED BY <2>1, <2>2, TurnsTurned
<1>7. CASE Pending
  <2> DEFINE Becomes(o) == reap_expired_ephemeral_requests(Extended(o, "pending"), call.now)
  <2>1. PICK o : Turns("pending", o, Becomes(o))
    BY <1>7 DEF Pending, Perform, Turns
  <2>2. Effected(Extended(o, "pending"), Becomes(o))
    BY DEF Effected
  <2> QED BY <2>1, <2>2, TurnsTurned
<1>8. CASE Flush
  <2> DEFINE Becomes(o) == [Extended(o, "flush") EXCEPT !.blobs = @ \cup Extended(o, "flush").dirty, !.dirty = {}]
  <2>1. PICK o : Turns("flush", o, Becomes(o))
    BY <1>8 DEF Flush, Perform, Turns
  <2>2. Effected(Extended(o, "flush"), Becomes(o))
    BY DEF Effected
  <2> QED BY <2>1, <2>2, TurnsTurned
<1>9. ASSUME NEW id \in Requests, Retry(id)
      PROVE  Turned
  <2> DEFINE Becomes(o) == retry_ephemeral_request(Extended(o, "retry"), id, call.now)
  <2>1. PICK o : Turns("retry", o, Becomes(o))
    BY <1>9 DEF Retry, Perform, Turns
  <2>2. Effected(Extended(o, "retry"), Becomes(o))
    BY DEF Effected
  <2> QED BY <2>1, <2>2, TurnsTurned
<1>10. ASSUME NEW id \in Requests, Reply(id)
      PROVE  Turned
  <2> DEFINE Becomes(o) == Replied(Extended(o, "reply"), id)
  <2>1. PICK o : Turns("reply", o, Becomes(o))
    BY <1>10 DEF Reply, Perform, Turns
  <2>2. Effected(Extended(o, "reply"), Becomes(o))
    BY DEF Effected
  <2> QED BY <2>1, <2>2, TurnsTurned
<1>11. ASSUME NEW cid \in Cids, SetDefinition(cid)
      PROVE  Turned
  <2> DEFINE Becomes(o) == [Extended(o, "cid") EXCEPT !.cid = cid, !.definition = cid, !.dirty = @ \cup {"meta"}]
  <2>1. PICK o : Turns("cid", o, Becomes(o))
    BY <1>11 DEF SetDefinition, Perform, Turns
  <2>2. Effected(Extended(o, "cid"), Becomes(o))
    BY DEF Effected
  <2> QED BY <2>1, <2>2, TurnsTurned
<1> QED BY <1>1, <1>2, <1>3, <1>4, <1>5, <1>6, <1>7, <1>8, <1>9, <1>10, <1>11 DEF Performs

-----------------------------------------------------------------------------
(* The rooms' objects                                                       *)

\* A set of objects as the rooms have them, or as they are saved.
GoodAll(objs) == DOMAIN objs \subseteq Places /\ \A at \in DOMAIN objs : Good(objs[at])

Inv ==
    /\ TypeOK
    /\ GoodAll(objects)
    /\ saved # None => GoodAll(saved)

\* No object of the two sets is taken or has its session passed on.
LeftAll == \A at \in DOMAIN objects \cap DOMAIN objects' : Left(objects[at], objects'[at])

\* A step of what is not the objects, the saved state or a call.
LEMMA PutGood ==
    ASSUME Inv, NEW at \in DOMAIN objects, NEW p, Good(p), Left(objects[at], p),
           objects' = [objects EXCEPT ![at] = p]
    PROVE  GoodAll(objects') /\ Home \in DOMAIN objects' /\ LeftAll
BY DEF Inv, TypeOK, GoodAll, LeftAll, Left

LEMMA RestTyped ==
    ASSUME Inv, GoodAll(objects'), Home \in DOMAIN objects',
           UNCHANGED <<handles, washing, saved, now>>,
           call' = None \/ call' = call
    PROVE  Inv'
BY DEF Inv, TypeOK, GoodAll, Good

LEMMA ArriveGood ==
    ASSUME Inv, NEW h \in DOMAIN handles, NEW room \in Rooms, NEW id \in Ids,
           ArriveByName(h, room, id) \/ ArriveByDid(h, id)
    PROVE  Inv' /\ LeftAll
<1>1. PICK place \in DOMAIN objects : Arrives(h, place)
  BY DEF ArriveByName, ArriveByDid
<1>2. UNCHANGED <<handles, washing, saved, now>>
  BY DEF ArriveByName, ArriveByDid
<1> DEFINE p == clear_expired_lock(objects[place], now)
<1>3. Good(p) /\ Left(objects[place], p)
  BY ClearedGood DEF Inv, TypeOK, GoodAll
<1>4. objects' = [objects EXCEPT ![place] = p]
  BY <1>1 DEF Arrives
<1> HIDE DEF p
<1>5. GoodAll(objects') /\ Home \in DOMAIN objects' /\ LeftAll
  BY <1>3, <1>4, PutGood
<1>6. call'.handle \in Handles /\ call'.did \in Dids /\ call'.now \in Nat
  <2> DEFINE fetch == IF objects[place].definition = None THEN objects[place].cid ELSE None
  <2>1. call' = [handle |-> h, did |-> handles[h], at |-> place, now |-> now, fetch |-> fetch]
    BY <1>1 DEF Arrives
  <2> HIDE DEF fetch
  <2> QED BY <2>1 DEF Inv, TypeOK
<1> QED BY <1>2, <1>5, <1>6 DEF Inv, TypeOK, GoodAll, Good

LEMMA CallGood ==
    ASSUME Inv, Calls
    PROVE  Inv' /\ LeftAll
<1>1. ASSUME NEW h \in DOMAIN handles, NEW room \in Rooms, NEW id \in Ids, ArriveByName(h, room, id)
      PROVE  Inv' /\ LeftAll
  BY <1>1, ArriveGood
<1>2. ASSUME NEW h \in DOMAIN handles, NEW id \in Ids, ArriveByDid(h, id)
      PROVE  Inv' /\ LeftAll
  BY <1>2, ArriveGood, RuntimeAssumption
<1>3. ASSUME NEW id \in Ids, MissDid(id) \/ EvictRoute(id)
      PROVE  Inv' /\ LeftAll
  <2>1. UNCHANGED <<objects, handles, call, washing, saved, now>>
    BY <1>3 DEF MissDid, EvictRoute
  <2> QED BY <2>1 DEF Inv, TypeOK, LeftAll, Left
<1>4. CASE Performs
  <2>1. /\ call # None /\ call' = None
        /\ UNCHANGED <<handles, washing, saved, now>>
    BY <1>4 DEF Performs, Take, Drop, Open, Close, Pop, Ask, Pending, Flush, Refuse, Retry, Reply,
                SetDefinition, Perform
  <2>2. /\ call.handle \in Handles /\ call.did \in Dids /\ call.now \in Nat
    BY <2>1 DEF Inv, TypeOK
  <2>3. CASE UNCHANGED objects
    BY <2>1, <2>3, RestTyped DEF Inv, TypeOK, GoodAll, LeftAll, Left
  <2>4. CASE ~ UNCHANGED objects
    <3>1. call.at \in DOMAIN objects
      BY <1>4, <2>4, PerformTurns DEF Turned, Refuse
    <3>2. PICK p : Good(p) /\ Left(objects[call.at], p) /\ objects' = [objects EXCEPT ![call.at] = p]
      <4>1. Good(objects[call.at])
        BY <3>1 DEF Inv, GoodAll
      <4>2. CASE Refuse
        <5>1. PICK o \in Hydrations(objects[call.at]) : objects' = [objects EXCEPT ![call.at] = o]
          BY <2>4, <4>2 DEF Refuse
        <5> QED BY <4>1, <5>1, HydratedGood DEF Left
      <4>3. CASE ~ Refuse
        <5>0. PICK verb \in Verbs, o \in Hydrations(objects[call.at]) : \E p :
                Effected(Extended(o, verb), p) /\ objects' = [objects EXCEPT ![call.at] = p]
          BY <1>4, <4>3, PerformTurns DEF Turned
        <5>1. PICK p : Effected(Extended(o, verb), p) /\ objects' = [objects EXCEPT ![call.at] = p]
          BY <5>0
        <5>2. Good(o) /\ o.holder = objects[call.at].holder /\ o.opener = objects[call.at].opener
          BY <4>1, <5>1, HydratedGood
        <5> DEFINE q == Extended(o, verb)
        <5>3. Good(q) /\ q.holder = o.holder /\ q.opener = o.opener
          BY <2>2, <5>2, ExtendedGood
        <5> HIDE DEF q
        <5>4. Good(p) /\ Left(q, p)
          BY <2>2, <5>1, <5>3, EffectGood DEF q
        <5> QED BY <5>1, <5>2, <5>3, <5>4 DEF Left
      <4> QED BY <4>2, <4>3
    <3> QED BY <2>1, <3>1, <3>2, PutGood, RestTyped
  <2> QED BY <2>3, <2>4
<1> QED BY <1>1, <1>2, <1>3, <1>4 DEF Calls, Performs

-----------------------------------------------------------------------------
(* Beside the calls                                                         *)

LEMMA KnockGood ==
    ASSUME Inv, Knock
    PROVE  Inv' /\ LeftAll
<1> DEFINE p == push_inbox_message(objects[Home], [id |-> nextKnock + 1, durable |-> TRUE])
<1>1. Home \in DOMAIN objects /\ Good(objects[Home])
  BY DEF Inv, TypeOK, GoodAll
<1>2. Good(p) /\ Left(objects[Home], p)
  BY <1>1, KinSelf, PushKin, KinGood
<1>3. objects' = [objects EXCEPT ![Home] = p] /\ UNCHANGED <<handles, call, washing, saved, now>>
  BY DEF Knock
<1> HIDE DEF p
<1> QED BY <1>1, <1>2, <1>3, PutGood, RestTyped

LEMMA WashGood ==
    ASSUME Inv, Wash \/ Washes
    PROVE  Inv' /\ LeftAll
<1>1. CASE Wash
  <2>1. \A at \in DOMAIN washing' : washing'[at] \subseteq Halves
    BY <1>1 DEF Wash, Inv, TypeOK, ObjectOK
  <2> QED BY <1>1, <2>1 DEF Wash, Inv, TypeOK, LeftAll, Left
<1>2. CASE Washes
  <2>1. PICK done \in [DOMAIN washing -> SUBSET Halves] :
            objects' = [at \in DOMAIN objects |->
                IF at \in DOMAIN washing
                THEN Washed(objects[at], washing[at], done[at]) ELSE objects[at]]
    BY <1>2 DEF Washes
  <2>2. \A at \in DOMAIN objects : Good(objects'[at]) /\ Left(objects[at], objects'[at])
    <3>1. SUFFICES ASSUME NEW at \in DOMAIN objects
                   PROVE  Good(objects'[at]) /\ Left(objects[at], objects'[at])
      OBVIOUS
    <3>2. Good(objects[at])
      BY DEF Inv, GoodAll
    <3>3. CASE at \in DOMAIN washing
      <4>1. done[at] \in SUBSET Halves
        BY <2>1, <3>3
      <4>2. objects'[at] = Washed(objects[at], washing[at], done[at])
        BY <2>1, <3>3
      <4> QED BY <3>2, <4>1, <4>2, WashedGood
    <3>4. CASE at \notin DOMAIN washing
      BY <2>1, <3>2, <3>4 DEF Left
    <3> QED BY <3>3, <3>4
  <2>3. DOMAIN objects' = DOMAIN objects
    BY <2>1
  <2>4. GoodAll(objects') /\ Home \in DOMAIN objects' /\ LeftAll
    BY <2>2, <2>3 DEF Inv, TypeOK, GoodAll, LeftAll
  <2>5. washing' = <<>> /\ UNCHANGED <<handles, call, saved, now>>
    BY <1>2 DEF Washes
  <2>6. DOMAIN washing' = {}
    BY <2>5
  <2> QED BY <2>4, <2>5, <2>6 DEF Inv, TypeOK, GoodAll, Good
<1> QED BY <1>1, <1>2

LEMMA SaveGood ==
    ASSUME Inv, Save
    PROVE  Inv' /\ LeftAll
<1>1. saved' = [at \in DOMAIN objects |-> persisted_snapshot(objects[at])]
  BY DEF Save
<1>2. \A at \in DOMAIN objects : Good(persisted_snapshot(objects[at]))
  BY SnapshotGood DEF Inv, GoodAll
<1>3. GoodAll(saved')
  BY <1>1, <1>2 DEF Inv, GoodAll
<1>4. UNCHANGED <<objects, handles, call, washing, now>>
  BY DEF Save
<1> QED BY <1>3, <1>4 DEF Inv, TypeOK, GoodAll, Good, LeftAll, Left

LEMMA MailboxGood ==
    ASSUME NEW objs, GoodAll(objs)
    PROVE  GoodAll(WithMailbox(objs)) /\ Home \in DOMAIN WithMailbox(objs)
<1> DEFINE n == [at \in DOMAIN objs \cup {Home} |->
                    IF at = Home THEN Fresh(None, Builtin) ELSE objs[at]]
<1>1. Home \in Places
  BY RuntimeAssumption DEF Home, Places
<1>2. Good(Fresh(None, Builtin))
  BY FreshGood DEF Optional
<1>3. GoodAll(n) /\ Home \in DOMAIN n
  BY <1>1, <1>2 DEF GoodAll
<1> QED BY <1>3 DEF WithMailbox

LEMMA RestoredGood ==
    ASSUME Inv, NEW envelope, GoodAll(envelope), NEW objs \in Hydrated(envelope)
    PROVE  GoodAll(Restored(objs)) /\ Home \in DOMAIN Restored(objs)
<1> DEFINE bare == {at \in DOMAIN envelope : envelope[at].definition = None /\ envelope[at].cid # None}
<1>1. PICK done \in SUBSET bare :
        objs = [at \in DOMAIN envelope |->
            IF at \in done THEN [envelope[at] EXCEPT !.definition = envelope[at].cid] ELSE envelope[at]]
  BY DEF Hydrated
<1>2. \A at \in DOMAIN envelope : Good(objs[at])
  <2>1. SUFFICES ASSUME NEW at \in DOMAIN envelope PROVE Good(objs[at])
    OBVIOUS
  <2>2. Good(envelope[at])
    BY DEF GoodAll
  <2>3. at \in done => envelope[at].cid \in Cids
    BY <2>2 DEF Good, ObjectOK, Optional
  <2> QED BY <1>1, <2>2, <2>3, DefinedGood
<1>3. DOMAIN objs = DOMAIN envelope
  BY <1>1
<1> DEFINE n == [at \in DOMAIN objs |-> clear_expired_lock(objs[at], now)]
<1>4. GoodAll(n)
  <2>1. now \in Nat
    BY DEF Inv, TypeOK
  <2> QED BY <1>2, <1>3, <2>1, ClearedGood DEF GoodAll
<1>5. Restored(objs) = WithMailbox(n)
  BY DEF Restored
<1> HIDE DEF n
<1> QED BY <1>4, <1>5, MailboxGood

LEMMA LoadGood ==
    ASSUME Inv, Loads
    PROVE  Inv'
<1>1. PICK envelope : /\ GoodAll(envelope)
                      /\ \E objs \in Hydrated(envelope) : objects' = Restored(objs)
  <2>1. \A e \in Envelopes : GoodAll(Foreign(e))
    <3>1. (CHOOSE c \in Cids : TRUE) \in Cids
      BY RuntimeAssumption
    <3>2. Good(Fresh(CHOOSE c \in Cids : TRUE, None))
      BY <3>1, FreshGood DEF Optional
    <3> QED BY <3>2, RuntimeAssumption DEF Foreign, GoodAll
  <2>2. saved # None => GoodAll(saved)
    BY DEF Inv
  <2> QED BY <2>1, <2>2 DEF Loads, Load, Restart, Loadable
<1>2. GoodAll(objects') /\ Home \in DOMAIN objects'
  BY <1>1, RestoredGood
<1>3. CASE Load
  BY <1>2, <1>3, RestTyped DEF Load
<1>4. CASE Restart
  <2>1. washing' = <<>> /\ call' = None /\ UNCHANGED <<handles, saved, now>>
    BY <1>4 DEF Restart
  <2>2. DOMAIN washing' = {}
    BY <2>1
  <2> QED BY <1>2, <2>1, <2>2 DEF Inv, TypeOK, GoodAll, Good
<1> QED BY <1>3, <1>4 DEF Loads

LEMMA OthersGood ==
    ASSUME Inv, Tick \/ \E h \in Handles : Go(h) \/ \E d \in Dids : Come(h, d)
    PROVE  Inv' /\ LeftAll
<1>1. UNCHANGED <<objects, call, washing, saved>> /\ now' \in Nat
  <2>1. UNCHANGED <<objects, call, washing, saved>>
    BY DEF Tick, Go, Come
  <2>2. now' = now \/ now' = now + 1
    BY DEF Tick, Go, Come
  <2> QED BY <2>1, <2>2 DEF Inv, TypeOK
<1>2. DOMAIN handles' \subseteq Handles /\ \A h \in DOMAIN handles' : handles'[h] \in Dids
  <2>1. DOMAIN handles \subseteq Handles /\ \A h \in DOMAIN handles : handles[h] \in Dids
    BY DEF Inv, TypeOK
  <2>2. CASE Tick
    BY <2>1, <2>2 DEF Tick
  <2>3. ASSUME NEW h \in Handles, Go(h)
        PROVE  DOMAIN handles' \subseteq Handles /\ \A x \in DOMAIN handles' : handles'[x] \in Dids
    BY <2>1, <2>3 DEF Go
  <2>4. ASSUME NEW h \in Handles, NEW d \in Dids, Come(h, d)
        PROVE  DOMAIN handles' \subseteq Handles /\ \A x \in DOMAIN handles' : handles'[x] \in Dids
    BY <2>1, <2>4 DEF Come
  <2> QED BY <2>2, <2>3, <2>4
<1> QED BY <1>1, <1>2 DEF Inv, TypeOK, GoodAll, Good, LeftAll, Left

-----------------------------------------------------------------------------
(* The theorems                                                             *)

LEMMA InitGood == Init => Inv
<1> SUFFICES ASSUME Init PROVE Inv
  OBVIOUS
<1>1. DOMAIN <<>> = {}
  OBVIOUS
<1>2. GoodAll(<<>>)
  BY <1>1 DEF GoodAll
<1>3. GoodAll(objects) /\ Home \in DOMAIN objects
  BY <1>2, MailboxGood DEF Init
<1>4. DOMAIN handles = {} /\ DOMAIN washing = {}
  BY <1>1 DEF Init
<1> QED BY <1>3, <1>4 DEF Init, Inv, TypeOK, GoodAll, Good

LEMMA StepGood ==
    ASSUME Inv, [Next]_vars
    PROVE  Inv' /\ (Loads \/ LeftAll)
<1>1. CASE UNCHANGED vars
  BY <1>1 DEF vars, Inv, TypeOK, GoodAll, LeftAll, Left
<1> QED BY <1>1, CallGood, KnockGood, WashGood, SaveGood, LoadGood, OthersGood DEF Next

LEMMA Invariant == Spec => []Inv
<1>1. Inv /\ [Next]_vars => Inv'
  BY StepGood
<1> QED BY <1>1, InitGood, PTL DEF Spec

\* Every reachable state is well typed, for any rooms, ids and definitions.
THEOREM ObjectsTypeCorrect == Spec => []TypeOK
<1>1. Inv => TypeOK
  BY DEF Inv
<1> QED BY <1>1, Invariant, PTL

\* For any avatars, clocks, loads and restarts: whoever has an object open has it
\* locked, with a time at which the lock runs out.
THEOREM LocksStayWhole == Spec => []LockWhole
<1>1. Inv => LockWhole
  BY DEF Inv, GoodAll, Good, LockWhole
<1> QED BY <1>1, Invariant, PTL

\* For any uploads that fail and any loads between: what counts as clean is stored.
THEOREM CleanStaysStored == Spec => []CleanIsStored
<1>1. Inv => CleanIsStored
  BY DEF Inv, GoodAll, Good, CleanIsStored
<1> QED BY <1>1, Invariant, PTL

\* For any callers and definitions: nobody but its holder lets go of an object, and
\* nobody but whose session it is, or the clock, ends a session.
THEOREM NothingIsSeized == Spec => NothingSeized
<1>1. Inv /\ [Next]_vars =>
        [Loads \/ \A at \in DOMAIN objects \cap DOMAIN objects' :
                    ~Seized(objects[at], objects'[at])]_vars
  BY StepGood DEF LeftAll, Left, Seized
<1> QED BY <1>1, Invariant, PTL DEF Spec, NothingSeized

-----------------------------------------------------------------------------
(* Requests                                                                 *)

Intents == [request : Nat \X Nat, attempt : Nat \ {0}]
Sendings == [sent : Nat, attempt : Nat \ {0}]

\* The requests an object waits for are numbered no higher than it has counted and
\* were sent by t.
Booked(o, t) ==
    /\ o.asked \in Nat /\ o.outbox \in Seq(Intents)
    /\ \A r \in DOMAIN o.pending : /\ r \in Nat \X Nat /\ r[2] <= o.asked
                                   /\ o.pending[r] \in Sendings /\ o.pending[r].sent <= t

\* Its requests and intents are left alone, some requests dropped at most.
Quiet(o, p) ==
    /\ p.asked = o.asked /\ p.outbox = o.outbox
    /\ DOMAIN p.pending \subseteq DOMAIN o.pending
    /\ \A r \in DOMAIN p.pending : p.pending[r] = o.pending[r]

LEMMA QuietBooked ==
    ASSUME NEW t \in Nat, NEW o, NEW p, Booked(o, t), Quiet(o, p)
    PROVE  Booked(p, t) /\ ~ Overtaken(o, p)
<1>1. Len(o.outbox) \in Nat
  BY DEF Booked
<1>2. Booked(p, t)
  BY DEF Booked, Quiet
<1>3. ~ (Len(p.outbox) > Len(o.outbox))
  BY <1>1 DEF Quiet
<1>4. \A r \in DOMAIN o.pending \cap DOMAIN p.pending : Followed(o.pending[r], p.pending[r])
  BY DEF Quiet, Followed
<1> QED BY <1>2, <1>3, <1>4 DEF Overtaken

LEMMA QuietSelf == \A o : Quiet(o, o)
BY DEF Quiet

LEMMA QuietStep ==
    ASSUME NEW o, NEW p, DOMAIN p = Fields, Quiet(o, p)
    PROVE  /\ Quiet(o, Dirtied(p)) /\ DOMAIN Dirtied(p) = Fields
           /\ \A x : /\ Quiet(o, [p EXCEPT !.inbox = x]) /\ Quiet(o, [p EXCEPT !.holder = x])
                     /\ Quiet(o, [p EXCEPT !.expiry = x])
                     /\ Quiet(o, [p EXCEPT !.definition = x])
           /\ Quiet(o, Closed(p)) /\ DOMAIN Closed(p) = Fields
           /\ \A gone : Quiet(o, [p EXCEPT !.pending = Without(@, gone)])
BY DEF Quiet, Dirtied, Closed, Fields, Without

LEMMA FieldsKept ==
    ASSUME NEW p, DOMAIN p = Fields
    PROVE  \A x : /\ DOMAIN [p EXCEPT !.inbox = x] = Fields /\ DOMAIN [p EXCEPT !.holder = x] = Fields
                  /\ DOMAIN [p EXCEPT !.pending = x] = Fields /\ DOMAIN [p EXCEPT !.outbox = x] = Fields
OBVIOUS

LEMMA HandsQuiet ==
    ASSUME NEW o, DOMAIN o = Fields, NEW h, NEW d, NEW t
    PROVE  /\ Quiet(o, Taken(o, h)) /\ Quiet(o, DroppedBy(o, h, d))
           /\ Quiet(o, OpenedBy(o, h, d, t)) /\ Quiet(o, ClosedBy(o, d))
           /\ Quiet(o, clear_expired_lock(o, t))
<1> DEFINE taken == [o EXCEPT !.holder = h]
           free == [o EXCEPT !.holder = None]
           e == t + LockSecs
           open == [o EXCEPT !.opener = d, !.locker = d, !.expiry = e]
<1>1. /\ Quiet(o, o) /\ Quiet(o, taken) /\ Quiet(o, free) /\ Quiet(o, Closed(o))
      /\ DOMAIN taken = Fields /\ DOMAIN free = Fields /\ DOMAIN Closed(o) = Fields
  BY QuietSelf, QuietStep, FieldsKept
<1> HIDE DEF e
<1>2. Quiet(o, open) /\ DOMAIN open = Fields
  BY DEF Quiet, Fields
<1>3. /\ Taken(o, h) = (IF o.holder \in {None, h} THEN Dirtied(taken) ELSE o)
      /\ DroppedBy(o, h, d) = (IF o.holder # h THEN o
                               ELSE Dirtied(IF o.opener = d THEN Closed(free) ELSE free))
      /\ OpenedBy(o, h, d, t) = (IF o.holder = h /\ o.locker \in {None, d} THEN Dirtied(open) ELSE o)
      /\ ClosedBy(o, d) = (IF o.opener = d THEN Dirtied(Closed(o)) ELSE o)
      /\ clear_expired_lock(o, t) = (IF o.expiry # None /\ o.expiry <= t THEN Dirtied(Closed(o)) ELSE o)
  BY DEF Taken, DroppedBy, OpenedBy, Opened, ClosedBy, clear_expired_lock, e
<1> HIDE DEF taken, free, open
<1>4. Quiet(o, Closed(free)) /\ DOMAIN Closed(free) = Fields
  BY <1>1, QuietStep
<1> QED BY <1>1, <1>2, <1>3, <1>4, QuietStep

LEMMA PushQuiet ==
    ASSUME NEW o, NEW p, DOMAIN p = Fields, Quiet(o, p), NEW message
    PROVE  Quiet(o, push_inbox_message(p, message))
<1> DEFINE all == Append(p.inbox, message)
           over == IF Len(all) > MaxInbox THEN Len(all) - MaxInbox ELSE 0
           x == SubSeq(all, over + 1, Len(all))
<1>1. push_inbox_message(p, message) = Dirtied([p EXCEPT !.inbox = x])
  BY DEF push_inbox_message
<1> HIDE DEF x
<1>2. Quiet(o, [p EXCEPT !.inbox = x]) /\ DOMAIN [p EXCEPT !.inbox = x] = Fields
  BY QuietStep, FieldsKept
<1> QED BY <1>1, <1>2, QuietStep

LEMMA InboxQuiet ==
    ASSUME NEW o, DOMAIN o = Fields, NEW id, NEW t
    PROVE  /\ Quiet(o, pop_inbox_message(o)) /\ Quiet(o, Replied(o, id))
           /\ Quiet(o, reap_expired_ephemeral_requests(o, t))
<1> DEFINE x == Tail(o.inbox)
           gone == {r \in DOMAIN o.pending : Expired(o.pending[r], t)}
           less == [o EXCEPT !.pending = Without(@, {id})]
           reaped == [o EXCEPT !.pending = Without(@, gone)]
           p == resolve_ephemeral_reply(o, id)
           message == [id |-> NextMessageId(o.inbox), durable |-> FALSE]
<1>1. /\ pop_inbox_message(o) = (IF o.inbox = <<>> THEN o ELSE Dirtied([o EXCEPT !.inbox = x]))
      /\ reap_expired_ephemeral_requests(o, t) = (IF gone = {} THEN o ELSE Dirtied(reaped))
      /\ p = (IF id \in DOMAIN o.pending THEN Dirtied(less) ELSE o)
      /\ Replied(o, id) = push_inbox_message(p, message)
  BY DEF pop_inbox_message, reap_expired_ephemeral_requests, resolve_ephemeral_reply, Replied
<1> HIDE DEF x, gone, message
<1>2. Quiet(o, less) /\ Quiet(o, reaped) /\ DOMAIN less = Fields /\ DOMAIN reaped = Fields
  BY QuietSelf, QuietStep, FieldsKept
<1>3. Quiet(o, [o EXCEPT !.inbox = x]) /\ DOMAIN [o EXCEPT !.inbox = x] = Fields
  BY QuietSelf, QuietStep, FieldsKept
<1> HIDE DEF less, reaped, p
<1>4. Quiet(o, p) /\ DOMAIN p = Fields
  BY <1>1, <1>2, QuietSelf, QuietStep
<1> QED BY <1>1, <1>2, <1>3, <1>4, QuietSelf, QuietStep, PushQuiet

\* A new request has a number nobody waits under.
LEMMA BeginBooked ==
    ASSUME NEW o, DOMAIN o = Fields, NEW t \in Nat, Booked(o, t)
    PROVE  /\ Booked(begin_ephemeral_request(o, t), t)
           /\ ~ Overtaken(o, begin_ephemeral_request(o, t))
<1> DEFINE n == o.asked + 1
           id == <<t, n>>
           intent == [request |-> id, attempt |-> 1]
           x == Append(o.outbox, intent)
           y == [r \in DOMAIN o.pending \cup {id} |->
                    IF r = id THEN [sent |-> t, attempt |-> 1] ELSE o.pending[r]]
           p == begin_ephemeral_request(o, t)
<1>1. DOMAIN p = Fields /\ p.asked = n /\ p.outbox = x /\ p.pending = y
  BY DEF begin_ephemeral_request, queue_outbound_intent, Dirtied, Fields
<1>2. n \in Nat /\ o.asked < n /\ id \in Nat \X Nat /\ id[2] = n
  BY DEF Booked
<1>3. id \notin DOMAIN o.pending
  BY <1>2 DEF Booked
<1> HIDE DEF n, id, p
<1>4. intent \in Intents /\ x \in Seq(Intents)
  BY <1>2 DEF Booked, Intents
<1>5. \A r \in DOMAIN y : r \in Nat \X Nat /\ r[2] <= n /\ y[r] \in Sendings /\ y[r].sent <= t
  <2>1. SUFFICES ASSUME NEW r \in DOMAIN y
                 PROVE  r \in Nat \X Nat /\ r[2] <= n /\ y[r] \in Sendings /\ y[r].sent <= t
    OBVIOUS
  <2>2. CASE r = id
    BY <1>2, <2>2 DEF Sendings
  <2>3. CASE r # id
    <3>1. r \in DOMAIN o.pending /\ y[r] = o.pending[r]
      BY <2>3
    <3>2. r \in Nat \X Nat /\ r[2] <= o.asked /\ y[r] \in Sendings /\ y[r].sent <= t
      BY <3>1 DEF Booked
    <3>3. o.asked \in Nat
      BY DEF Booked
    <3> QED BY <1>2, <3>2, <3>3
  <2> QED BY <2>2, <2>3
<1>6. \A r \in DOMAIN o.pending : y[r] = o.pending[r]
  BY <1>3
<1> HIDE DEF y
<1>7. Last(x) = intent
  BY <1>4 DEF Booked, Last
<1>8. intent.request = id
  OBVIOUS
<1> HIDE DEF x, intent
<1>9. Booked(p, t)
  BY <1>1, <1>2, <1>4, <1>5 DEF Booked
<1>10. ~ Overtaken(o, p)
  BY <1>1, <1>3, <1>6, <1>7, <1>8 DEF Overtaken, Followed
<1> QED BY <1>9, <1>10 DEF p

\* A retry counts on.
LEMMA RetryBooked ==
    ASSUME NEW o, DOMAIN o = Fields, NEW t \in Nat, Booked(o, t), NEW id
    PROVE  /\ Booked(retry_ephemeral_request(o, id, t), t)
           /\ ~ Overtaken(o, retry_ephemeral_request(o, id, t))
<1>1. CASE id \notin DOMAIN o.pending \/ Expired(o.pending[id], t)
  <2> DEFINE less == [o EXCEPT !.pending = Without(@, {id})]
  <2>1. retry_ephemeral_request(o, id, t) \in {o, less}
    BY <1>1 DEF retry_ephemeral_request
  <2>2. Quiet(o, less)
    BY QuietSelf, QuietStep
  <2> HIDE DEF less
  <2> QED BY <2>1, <2>2, QuietSelf, QuietBooked
<1>2. CASE id \in DOMAIN o.pending /\ ~ Expired(o.pending[id], t)
  <2> DEFINE attempt == o.pending[id].attempt + 1
             again == [sent |-> t, attempt |-> attempt]
             intent == [request |-> id, attempt |-> attempt]
             x == Append(o.outbox, intent)
             y == [o.pending EXCEPT ![id] = again]
             p == retry_ephemeral_request(o, id, t)
  <2>1. DOMAIN p = Fields /\ p.asked = o.asked /\ p.outbox = x /\ p.pending = y
    BY <1>2 DEF retry_ephemeral_request, queue_outbound_intent, Dirtied, Fields
  <2>2. /\ id \in Nat \X Nat /\ id[2] <= o.asked /\ o.asked \in Nat
        /\ o.pending[id].sent \in Nat /\ o.pending[id].sent <= t
        /\ o.pending[id].attempt \in Nat \ {0}
    BY <1>2 DEF Booked, Sendings
  <2>3. attempt \in Nat \ {0} /\ attempt # 1
    BY <2>2
  <2> HIDE DEF p
  <2>4. attempt = o.pending[id].attempt + 1
    OBVIOUS
  <2> HIDE DEF attempt
  <2>5. intent \in Intents /\ x \in Seq(Intents) /\ again \in Sendings
    BY <2>2, <2>3 DEF Booked, Intents, Sendings
  <2>6. Last(x) = intent /\ intent.attempt = attempt
    BY <2>5 DEF Booked, Last
  <2>7. again.sent = t /\ again.attempt = attempt
    OBVIOUS
  <2>8. y[id] = again /\ DOMAIN y = DOMAIN o.pending /\ \A r \in DOMAIN y : r # id => y[r] = o.pending[r]
    BY <1>2
  <2> HIDE DEF x, y, again, intent
  <2>9. Booked(p, t)
    <3>1. \A r \in DOMAIN y : r # id => /\ r \in Nat \X Nat /\ r[2] <= o.asked
                                       /\ y[r] \in Sendings /\ y[r].sent <= t
      BY <2>8 DEF Booked
    <3>2. y[id] \in Sendings /\ y[id].sent <= t
      BY <2>5, <2>7, <2>8
    <3>3. \A r \in DOMAIN y : r \in Nat \X Nat /\ r[2] <= o.asked /\ y[r] \in Sendings /\ y[r].sent <= t
      BY <2>2, <3>1, <3>2
    <3> QED BY <2>1, <2>2, <2>5, <3>3 DEF Booked
  <2>10. \A r \in DOMAIN y : Followed(o.pending[r], y[r])
    BY <2>2, <2>4, <2>7, <2>8 DEF Followed
  <2>11. ~ Overtaken(o, p)
    BY <2>1, <2>3, <2>6, <2>8, <2>10 DEF Overtaken
  <2> QED BY <2>9, <2>11 DEF p
<1> QED BY <1>1, <1>2

LEMMA EffectBooked ==
    ASSUME NEW o, DOMAIN o = Fields, NEW p, Effected(o, p), call.now \in Nat, Booked(o, call.now)
    PROVE  Booked(p, call.now) /\ ~ Overtaken(o, p)
<1>1. CASE \/ p = o
           \/ p = Taken(o, call.handle)
           \/ p = DroppedBy(o, call.handle, call.did)
           \/ p = OpenedBy(o, call.handle, call.did, call.now)
           \/ p = ClosedBy(o, call.did)
  BY <1>1, HandsQuiet, QuietSelf, QuietBooked
<1>2. CASE \/ p = pop_inbox_message(o)
           \/ p = reap_expired_ephemeral_requests(o, call.now)
  BY <1>2, InboxQuiet, QuietBooked
<1>3. CASE p = begin_ephemeral_request(o, call.now)
  BY <1>3, BeginBooked
<1>4. ASSUME NEW id \in Requests, p = retry_ephemeral_request(o, id, call.now) \/ p = Replied(o, id)
      PROVE  Booked(p, call.now) /\ ~ Overtaken(o, p)
  BY <1>4, RetryBooked, InboxQuiet, QuietBooked
<1>5. ASSUME NEW cid \in Cids, p = [o EXCEPT !.cid = cid, !.definition = cid, !.dirty = @ \cup {"meta"}]
      PROVE  Booked(p, call.now) /\ ~ Overtaken(o, p)
  <2>1. Quiet(o, p)
    BY <1>5 DEF Quiet, Fields
  <2> QED BY <2>1, QuietBooked
<1>6. CASE p = [o EXCEPT !.blobs = @ \cup o.dirty, !.dirty = {}]
  <2>1. Quiet(o, p)
    BY <1>6 DEF Quiet, Fields
  <2> QED BY <2>1, QuietBooked
<1> QED BY <1>1, <1>2, <1>3, <1>4, <1>5, <1>6 DEF Effected

-----------------------------------------------------------------------------
(* Requests of all objects                                                  *)

AllBooked(objs, t) == \A at \in DOMAIN objs : Booked(objs[at], t)

\* What is saved waits for nothing.
Unasked(o) == DOMAIN o.pending = {} /\ o.outbox = <<>> /\ o.asked = 0

\* The requests of an object were sent by the time the call under way has read, and
\* that is not past the clock.
Books ==
    /\ AllBooked(objects, now)
    /\ call # None => call.now <= now /\ AllBooked(objects, call.now)
    /\ saved # None => \A at \in DOMAIN saved : Unasked(saved[at])

NoneOvertaken ==
    \A at \in DOMAIN objects \cap DOMAIN objects' : ~ Overtaken(objects[at], objects'[at])

LEMMA BookedLonger ==
    ASSUME NEW o, NEW t \in Nat, NEW u \in Nat, t <= u, Booked(o, t)
    PROVE  Booked(o, u)
BY DEF Booked, Sendings

LEMMA UnaskedBooked ==
    ASSUME NEW o, Unasked(o), NEW t \in Nat
    PROVE  Booked(o, t)
BY DEF Unasked, Booked

LEMMA QuietAll ==
    ASSUME Inv, Books, DOMAIN objects' = DOMAIN objects,
           \A at \in DOMAIN objects : Quiet(objects[at], objects'[at])
    PROVE  /\ NoneOvertaken
           /\ \A t \in Nat : AllBooked(objects, t) => AllBooked(objects', t)
<1>1. now \in Nat
  BY DEF Inv, TypeOK
<1> QED BY <1>1, QuietBooked DEF Books, AllBooked, NoneOvertaken

\* Whoever puts a quiet object in place of another keeps the books.
LEMMA PutQuiet ==
    ASSUME Inv, Books, NEW at \in DOMAIN objects, NEW p, Quiet(objects[at], p),
           objects' = [objects EXCEPT ![at] = p]
    PROVE  /\ NoneOvertaken
           /\ \A t \in Nat : AllBooked(objects, t) => AllBooked(objects', t)
<1>1. DOMAIN objects' = DOMAIN objects
  OBVIOUS
<1>2. \A x \in DOMAIN objects : Quiet(objects[x], objects'[x])
  BY QuietSelf
<1> QED BY <1>1, <1>2, QuietAll

LEMMA PerformBooks ==
    ASSUME Inv, Books, Performs
    PROVE  Books' /\ NoneOvertaken
<1>1. /\ call # None /\ call' = None
      /\ UNCHANGED <<handles, washing, saved, now>>
  BY DEF Performs, Take, Drop, Open, Close, Pop, Ask, Pending, Flush, Refuse, Retry, Reply,
         SetDefinition, Perform
<1>2. call.now \in Nat /\ call.now <= now /\ now \in Nat /\ AllBooked(objects, call.now)
  BY <1>1 DEF Inv, TypeOK, Books
<1>3. AllBooked(objects', call.now) /\ NoneOvertaken
  <2>1. CASE UNCHANGED objects
    <3>1. \A at \in DOMAIN objects : Quiet(objects[at], objects'[at])
      BY <2>1, QuietSelf
    <3> QED BY <1>2, <2>1, <3>1, QuietAll
  <2>2. CASE ~ UNCHANGED objects
    <3>1. call.at \in DOMAIN objects
      BY <2>2, PerformTurns DEF Turned, Refuse
    <3>2. Good(objects[call.at]) /\ Booked(objects[call.at], call.now)
      BY <1>2, <3>1 DEF Inv, GoodAll, AllBooked
    <3>3. \A o \in Hydrations(objects[call.at]) :
            /\ DOMAIN o = Fields /\ Quiet(objects[call.at], o)
            /\ o.pending = objects[call.at].pending
      <4>1. DOMAIN objects[call.at] = Fields
        BY <3>2 DEF Good, ObjectOK
      <4> QED BY <4>1, QuietSelf DEF Hydrations, Quiet, Fields
    <3>4. CASE Refuse
      <4>1. PICK o \in Hydrations(objects[call.at]) : objects' = [objects EXCEPT ![call.at] = o]
        BY <2>2, <3>4 DEF Refuse
      <4> QED BY <1>2, <3>1, <3>3, <4>1, PutQuiet
    <3>5. CASE ~ Refuse
      <4>1. PICK verb \in Verbs, o \in Hydrations(objects[call.at]) : \E p :
              Effected(Extended(o, verb), p) /\ objects' = [objects EXCEPT ![call.at] = p]
        BY <3>5, PerformTurns DEF Turned
      <4>2. PICK p : Effected(Extended(o, verb), p) /\ objects' = [objects EXCEPT ![call.at] = p]
        BY <4>1
      <4> DEFINE q == Extended(o, verb)
      <4>3. DOMAIN q = Fields /\ Quiet(objects[call.at], q) /\ q.pending = objects[call.at].pending
        BY <3>3 DEF Extended, Quiet, Fields
      <4> HIDE DEF q
      <4>4. Booked(q, call.now)
        BY <1>2, <3>2, <4>3, QuietBooked
      <4>5. Booked(p, call.now) /\ ~ Overtaken(q, p)
        BY <1>2, <4>2, <4>3, <4>4, EffectBooked DEF q
      <4>6. ~ Overtaken(objects[call.at], p)
        BY <4>3, <4>5 DEF Overtaken, Quiet
      <4>7. \A at \in DOMAIN objects : ~ Overtaken(objects[at], objects[at])
        BY <1>2, QuietSelf, QuietBooked DEF AllBooked
      <4>8. NoneOvertaken
        BY <3>1, <4>2, <4>6, <4>7 DEF NoneOvertaken
      <4>9. AllBooked(objects', call.now)
        BY <1>2, <3>1, <4>2, <4>5 DEF AllBooked
      <4> QED BY <4>8, <4>9
    <3> QED BY <3>4, <3>5
  <2> QED BY <2>1, <2>2
<1>4. AllBooked(objects', now)
  BY <1>2, <1>3, BookedLonger DEF AllBooked
<1> QED BY <1>1, <1>3, <1>4 DEF Books

\* An arrival looks at the clock anew: all requests were sent by then.
LEMMA ArriveBooks ==
    ASSUME Inv, Books, NEW h \in DOMAIN handles, NEW room \in Rooms, NEW id \in Ids,
           ArriveByName(h, room, id) \/ ArriveByDid(h, id)
    PROVE  Books' /\ NoneOvertaken
<1>1. PICK place \in DOMAIN objects : Arrives(h, place)
  BY DEF ArriveByName, ArriveByDid
<1>2. UNCHANGED <<handles, washing, saved, now>>
  BY DEF ArriveByName, ArriveByDid
<1> DEFINE p == clear_expired_lock(objects[place], now)
<1>3. Quiet(objects[place], p)
  BY HandsQuiet DEF Inv, GoodAll, Good, ObjectOK
<1>4. objects' = [objects EXCEPT ![place] = p]
  BY <1>1 DEF Arrives
<1> HIDE DEF p
<1>5. NoneOvertaken /\ AllBooked(objects', now) /\ now \in Nat
  BY <1>3, <1>4, PutQuiet DEF Books, Inv, TypeOK
<1>6. call'.now = now
  <2> DEFINE fetch == IF objects[place].definition = None THEN objects[place].cid ELSE None
  <2>1. call' = [handle |-> h, did |-> handles[h], at |-> place, now |-> now, fetch |-> fetch]
    BY <1>1 DEF Arrives
  <2> HIDE DEF fetch
  <2> QED BY <2>1
<1> QED BY <1>2, <1>5, <1>6 DEF Books

LEMMA CallBooks ==
    ASSUME Inv, Books, Calls
    PROVE  Books' /\ NoneOvertaken
<1>1. ASSUME NEW h \in DOMAIN handles, NEW room \in Rooms, NEW id \in Ids, ArriveByName(h, room, id)
      PROVE  Books' /\ NoneOvertaken
  BY <1>1, ArriveBooks
<1>2. ASSUME NEW h \in DOMAIN handles, NEW id \in Ids, ArriveByDid(h, id)
      PROVE  Books' /\ NoneOvertaken
  BY <1>2, ArriveBooks, RuntimeAssumption
<1>3. ASSUME NEW id \in Ids, MissDid(id) \/ EvictRoute(id)
      PROVE  Books' /\ NoneOvertaken
  <2>1. UNCHANGED <<objects, handles, call, washing, saved, now>>
    BY <1>3 DEF MissDid, EvictRoute
  <2>2. NoneOvertaken
    BY <2>1, QuietAll, QuietSelf
  <2> QED BY <2>1, <2>2 DEF Books, AllBooked
<1> QED BY <1>1, <1>2, <1>3, PerformBooks DEF Calls, Performs

LEMMA BesideBooks ==
    ASSUME Inv, Books, Knock \/ Wash \/ Washes
    PROVE  Books' /\ NoneOvertaken
<1>1. UNCHANGED <<call, saved, now>> /\ now \in Nat /\ (call # None => call.now \in Nat)
  BY DEF Knock, Wash, Washes, Inv, TypeOK
<1>2. DOMAIN objects' = DOMAIN objects /\ \A at \in DOMAIN objects : Quiet(objects[at], objects'[at])
  <2>0. \A at \in DOMAIN objects : DOMAIN objects[at] = Fields
    BY DEF Inv, GoodAll, Good, ObjectOK
  <2>1. CASE Knock
    <3> DEFINE p == push_inbox_message(objects[Home], [id |-> nextKnock + 1, durable |-> TRUE])
    <3>1. Home \in DOMAIN objects
      BY DEF Inv, TypeOK
    <3>2. Quiet(objects[Home], p)
      BY <2>0, <3>1, QuietSelf, PushQuiet
    <3>3. objects' = [objects EXCEPT ![Home] = p]
      BY <2>1 DEF Knock
    <3> HIDE DEF p
    <3> QED BY <3>1, <3>2, <3>3, QuietSelf
  <2>2. CASE Wash
    BY <2>2, QuietSelf DEF Wash
  <2>3. CASE Washes
    <3>1. PICK done \in [DOMAIN washing -> SUBSET Halves] :
              objects' = [at \in DOMAIN objects |->
                  IF at \in DOMAIN washing
                  THEN Washed(objects[at], washing[at], done[at]) ELSE objects[at]]
      BY <2>3 DEF Washes
    <3>2. \A at \in DOMAIN objects : \A seen, marks : Quiet(objects[at], Washed(objects[at], seen, marks))
      BY <2>0 DEF Washed, Quiet, Fields
    <3> QED BY <3>1, <3>2, QuietSelf
  <2> QED BY <2>1, <2>2, <2>3
<1> QED BY <1>1, <1>2, QuietAll DEF Books

LEMMA SaveBooks ==
    ASSUME Inv, Books, Save
    PROVE  Books' /\ NoneOvertaken
<1>1. \A at \in DOMAIN objects : Unasked(persisted_snapshot(objects[at]))
  <2>1. DOMAIN <<>> = {}
    OBVIOUS
  <2>2. \A at \in DOMAIN objects : DOMAIN objects[at] = Fields
    BY DEF Inv, GoodAll, Good, ObjectOK
  <2>3. \A o, x : DOMAIN o = Fields =>
            Unasked([o EXCEPT !.inbox = x, !.outbox = <<>>, !.pending = <<>>, !.asked = 0])
    BY <2>1 DEF Unasked, Fields
  <2> QED BY <2>2, <2>3 DEF persisted_snapshot
<1>2. saved' = [at \in DOMAIN objects |-> persisted_snapshot(objects[at])]
      /\ UNCHANGED <<objects, call, now>>
  BY DEF Save
<1>3. \A at \in DOMAIN saved' : Unasked(saved'[at])
  BY <1>1, <1>2
<1>4. NoneOvertaken
  BY <1>2, QuietAll, QuietSelf
<1> QED BY <1>2, <1>3, <1>4 DEF Books, AllBooked

LEMMA LoadBooks ==
    ASSUME Inv, Books, Loads
    PROVE  Books'
<1>1. \A cid, def : Unasked(Fresh(cid, def))
  BY DEF Unasked, Fresh
<1>2. PICK envelope : /\ \A at \in DOMAIN envelope : Unasked(envelope[at]) /\ DOMAIN envelope[at] = Fields
                      /\ \E objs \in Hydrated(envelope) : objects' = Restored(objs)
  <2>1. \A e \in Envelopes : \A at \in DOMAIN Foreign(e) :
            Unasked(Foreign(e)[at]) /\ DOMAIN Foreign(e)[at] = Fields
    BY <1>1 DEF Foreign, Fresh, Fields
  <2>2. saved # None => \A at \in DOMAIN saved : Unasked(saved[at]) /\ DOMAIN saved[at] = Fields
    BY DEF Books, Inv, GoodAll, Good, ObjectOK
  <2> QED BY <2>1, <2>2 DEF Loads, Load, Restart, Loadable
<1>3. PICK objs \in Hydrated(envelope) : objects' = Restored(objs)
  BY <1>2
<1>4. \A at \in DOMAIN objs : Unasked(objs[at]) /\ DOMAIN objs[at] = Fields
  BY <1>2, <1>3 DEF Hydrated, Unasked, Fields
<1>5. \A at \in DOMAIN objs : Unasked(clear_expired_lock(objs[at], now))
  BY <1>4 DEF clear_expired_lock, Dirtied, Closed, Unasked, Fields
<1>6. \A at \in DOMAIN objects' : Unasked(objects'[at])
  BY <1>1, <1>3, <1>5 DEF Restored, WithMailbox
<1>7. \A t \in Nat : AllBooked(objects', t)
  BY <1>6, UnaskedBooked DEF AllBooked
<1>8. UNCHANGED <<saved, now>> /\ (call' = None \/ call' = call) /\ now \in Nat
      /\ (call # None => call.now \in Nat)
  BY DEF Loads, Load, Restart, Inv, TypeOK
<1> QED BY <1>7, <1>8 DEF Books

LEMMA OthersBooks ==
    ASSUME Inv, Books, Tick \/ \E h \in Handles : Go(h) \/ \E d \in Dids : Come(h, d)
    PROVE  Books' /\ NoneOvertaken
<1>1. UNCHANGED <<objects, call, saved>>
  BY DEF Tick, Go, Come
<1>2. now \in Nat /\ now' \in Nat /\ now <= now' /\ (call # None => call.now \in Nat)
  <2>1. now \in Nat /\ (call # None => call.now \in Nat)
    BY DEF Inv, TypeOK
  <2>2. now' = now \/ now' = now + 1
    BY DEF Tick, Go, Come
  <2> QED BY <2>1, <2>2
<1>3. NoneOvertaken
  BY <1>1, QuietAll, QuietSelf
<1>4. AllBooked(objects', now')
  BY <1>1, <1>2, BookedLonger DEF Books, AllBooked
<1> QED BY <1>1, <1>2, <1>3, <1>4 DEF Books, AllBooked

LEMMA InitBooks == Init => Books
<1> SUFFICES ASSUME Init PROVE Books
  OBVIOUS
<1>1. DOMAIN <<>> = {}
  OBVIOUS
<1>2. \A at \in DOMAIN objects : Unasked(objects[at])
  <2>1. Unasked(Fresh(None, Builtin))
    BY <1>1 DEF Unasked, Fresh
  <2> QED BY <1>1, <2>1 DEF Init, WithMailbox
<1>3. AllBooked(objects, now)
  BY <1>2, UnaskedBooked DEF AllBooked, Init
<1> QED BY <1>3 DEF Books, Init

LEMMA StepBooks ==
    ASSUME Inv, Books, [Next]_vars
    PROVE  Books' /\ (Loads \/ NoneOvertaken)
<1>1. CASE UNCHANGED vars
  <2>1. UNCHANGED <<objects, call, saved, now>>
    BY <1>1 DEF vars
  <2> QED BY <2>1, QuietAll, QuietSelf DEF Books, AllBooked
<1> QED BY <1>1, CallBooks, BesideBooks, SaveBooks, LoadBooks, OthersBooks DEF Next

\* For any callers, clocks and restarts: a request stays the same until it is answered,
\* retried, dropped or lost to a load, and no new one goes out under the id of one
\* that waits.
THEOREM RequestsStay == Spec => RequestsKept
<1>1. Inv /\ Books /\ [Next]_vars => Books'
  BY StepBooks
<1>2. Inv /\ Books /\ [Next]_vars =>
        [Loads \/ \A at \in DOMAIN objects \cap DOMAIN objects' :
                    ~Overtaken(objects[at], objects'[at])]_vars
  BY StepBooks DEF NoneOvertaken
<1> QED BY <1>1, <1>2, InitBooks, Invariant, PTL DEF Spec, RequestsKept

-----------------------------------------------------------------------------
(* Inboxes                                                                  *)

Messages == [id : Nat, durable : BOOLEAN]

\* No two messages that replies left share an id.
Apart(s) ==
    \A i, j \in DOMAIN s : ~ s[i].durable /\ ~ s[j].durable /\ s[i].id = s[j].id => i = j
InboxOK(s) == s \in Seq(Messages) /\ Len(s) <= MaxInbox /\ Apart(s)

\* Inductive: what is saved is as sound as what is there.
Boxes ==
    /\ \A at \in DOMAIN objects : InboxOK(objects[at].inbox)
    /\ saved # None => \A at \in DOMAIN saved : InboxOK(saved[at].inbox)
    /\ nextKnock \in Nat

LEMMA TailOK ==
    ASSUME NEW s, InboxOK(s), s # <<>>
    PROVE  InboxOK(Tail(s))
<1>1. /\ Tail(s) \in Seq(Messages) /\ Len(s) \in Nat /\ Len(Tail(s)) = Len(s) - 1
      /\ DOMAIN Tail(s) = 1 .. (Len(s) - 1) /\ DOMAIN s = 1 .. Len(s)
      /\ \A i \in 1 .. (Len(s) - 1) : Tail(s)[i] = s[i + 1]
  BY DEF InboxOK
<1>2. Len(Tail(s)) <= MaxInbox
  BY <1>1, RuntimeAssumption DEF InboxOK
<1>3. Apart(Tail(s))
  <2> SUFFICES ASSUME NEW i \in 1 .. (Len(s) - 1), NEW j \in 1 .. (Len(s) - 1),
                      ~ s[i + 1].durable, ~ s[j + 1].durable, s[i + 1].id = s[j + 1].id
               PROVE  i = j
    BY <1>1 DEF Apart
  <2>1. i + 1 \in DOMAIN s /\ j + 1 \in DOMAIN s
    BY <1>1
  <2>2. i + 1 = j + 1
    BY <2>1 DEF InboxOK, Apart
  <2> QED BY <2>2
<1> QED BY <1>1, <1>2, <1>3 DEF InboxOK

\* The ids of an inbox have a greatest one.
LEMMA LeastOne ==
    ASSUME NEW S, S \subseteq Nat, S # {}
    PROVE  \E m \in S : \A j \in S : m <= j
<1>1. PICK m \in S : \A j \in S : ~ (<<j, m>> \in OpToRel(<, Nat))
  BY NatLessThanWellFounded, WFMin
<1>2. ASSUME NEW j \in S PROVE m <= j
  <2>1. ~ (j < m)
    BY <1>1 DEF OpToRel
  <2> QED BY <2>1
<1> QED BY <1>2

LEMMA IdsTyped ==
    ASSUME NEW s \in Seq(Messages)
    PROVE  \A i \in DOMAIN s : s[i] \in Messages /\ s[i].id \in Nat
<1>1. \A m \in Messages : m.id \in Nat
  BY DEF Messages
<1> QED BY <1>1

LEMMA IdsBounded ==
    ASSUME NEW s \in Seq(Messages)
    PROVE  \E b \in Nat : \A i \in DOMAIN s : s[i].id <= b
<1> DEFINE Bounds(k) == {b \in Nat : \A i \in 1 .. k : s[i].id <= b}
           Bad == {k \in 0 .. Len(s) : Bounds(k) = {}}
<1>1. Len(s) \in Nat /\ DOMAIN s = 1 .. Len(s) /\ \A i \in 1 .. Len(s) : s[i].id \in Nat
  BY IdsTyped
<1>2. Bad = {}
  <2> SUFFICES ASSUME Bad # {} PROVE FALSE
    OBVIOUS
  <2>1. Bad \subseteq Nat
    BY <1>1
  <2>2. PICK k \in Bad : \A j \in Bad : k <= j
    BY <2>1, LeastOne
  <2>3. CASE k = 0
    <3>1. 0 \in Bounds(0)
      OBVIOUS
    <3> QED BY <2>2, <2>3, <3>1
  <2>4. CASE k # 0
    <3>1. k \in 1 .. Len(s) /\ k - 1 \in 0 .. Len(s) /\ ~ (k <= k - 1)
      BY <1>1, <2>2, <2>4
    <3>2. PICK b : b \in Bounds(k - 1)
      BY <2>2, <3>1
    <3> DEFINE c == IF s[k].id <= b THEN b ELSE s[k].id
    <3>3. c \in Nat /\ b \in Nat /\ b <= c /\ s[k].id <= c
      BY <1>1, <3>1, <3>2
    <3>4. \A i \in 1 .. k : i = k \/ i \in 1 .. (k - 1)
      BY <3>1
    <3>5. \A i \in 1 .. (k - 1) : s[i].id <= b /\ s[i].id \in Nat
      BY <1>1, <3>1, <3>2
    <3> HIDE DEF c
    <3>6. \A i \in 1 .. k : s[i].id <= c
      BY <3>3, <3>4, <3>5
    <3>7. c \in Bounds(k)
      BY <3>3, <3>6
    <3> QED BY <2>2, <3>7
  <2> QED BY <2>3, <2>4
<1>3. Len(s) \in 0 .. Len(s)
  BY <1>1
<1> HIDE DEF Bounds
<1>4. Bounds(Len(s)) # {}
  BY <1>2, <1>3
<1> USE DEF Bounds
<1> QED BY <1>1, <1>4

\* The number of a reply is above all there are.
LEMMA NextIdNew ==
    ASSUME NEW s \in Seq(Messages)
    PROVE  NextMessageId(s) \in Nat /\ \A i \in DOMAIN s : s[i].id < NextMessageId(s)
<1> DEFINE ids == {s[i].id : i \in DOMAIN s}
           top == CHOOSE n \in ids : \A m \in ids : m <= n
           Above == {b \in Nat : \A i \in DOMAIN s : s[i].id <= b}
<1>1. ids \subseteq Nat
  BY IdsTyped
<1>2. NextMessageId(s) = 1 + (IF ids = {} THEN 0 ELSE top)
  BY DEF NextMessageId
<1>3. CASE ids = {}
  <2> HIDE DEF top
  <2>1. DOMAIN s = {}
    BY <1>3
  <2> QED BY <1>2, <1>3, <2>1
<1>4. CASE ids # {}
  <2>1. PICK b \in Above : \A c \in Above : b <= c
    BY IdsBounded, LeastOne
  <2>2. b \in ids
    <3> SUFFICES ASSUME b \notin ids PROVE FALSE
      OBVIOUS
    <3>1. \A i \in DOMAIN s : s[i].id < b /\ s[i].id \in Nat
      <4> SUFFICES ASSUME NEW i \in DOMAIN s PROVE s[i].id < b /\ s[i].id \in Nat
        OBVIOUS
      <4>1. s[i].id \in Nat /\ s[i].id # b
        BY IdsTyped
      <4> QED BY <2>1, <4>1
    <3>2. PICK i \in DOMAIN s : TRUE
      BY <1>4
    <3>3. b - 1 \in Nat
      BY <2>1, <3>1, <3>2
    <3>4. b - 1 \in Above
      BY <2>1, <3>1, <3>3
    <3>5. ~ (b <= b - 1)
      BY <2>1
    <3> QED BY <2>1, <3>4, <3>5
  <2>3. \A m \in ids : m <= b
    BY <2>1
  <2>4. top \in ids /\ \A m \in ids : m <= top
    BY <2>2, <2>3
  <2> HIDE DEF top
  <2>5. top \in Nat /\ NextMessageId(s) = 1 + top
    BY <1>1, <1>2, <1>4, <2>4
  <2>6. \A i \in DOMAIN s : s[i].id \in Nat /\ s[i].id <= top
    BY <1>1, <2>4
  <2> QED BY <2>5, <2>6
<1> QED BY <1>3, <1>4

\* What push_inbox_message makes of an inbox.
Pushed(s, message) ==
    LET all  == Append(s, message)
        over == IF Len(all) > MaxInbox THEN Len(all) - MaxInbox ELSE 0
    IN  SubSeq(all, over + 1, Len(all))

LEMMA PushedOK ==
    ASSUME NEW s, InboxOK(s), NEW message \in Messages,
           message.durable \/ \A i \in DOMAIN s : s[i].id # message.id
    PROVE  InboxOK(Pushed(s, message))
<1> DEFINE all == Append(s, message)
           n == Len(s) + 1
           over == IF n > MaxInbox THEN n - MaxInbox ELSE 0
           p == SubSeq(all, over + 1, n)
<1>1. /\ s \in Seq(Messages) /\ Len(s) \in Nat /\ DOMAIN s = 1 .. Len(s)
      /\ Len(s) <= MaxInbox /\ MaxInbox \in Nat \ {0}
  BY RuntimeAssumption DEF InboxOK
<1>2. /\ all \in Seq(Messages) /\ Len(all) = n /\ n \in Nat /\ DOMAIN all = 1 .. n
      /\ all[n] = message /\ \A i \in 1 .. Len(s) : all[i] = s[i]
  BY <1>1
<1>3. Pushed(s, message) = p
  BY <1>2 DEF Pushed
<1>4. over \in Nat /\ over < n /\ n - over <= MaxInbox /\ n - over \in Nat
  BY <1>1
<1>5. Apart(all)
  <2> SUFFICES ASSUME NEW i \in 1 .. n, NEW j \in 1 .. n,
                      ~ all[i].durable, ~ all[j].durable, all[i].id = all[j].id
               PROVE  i = j
    BY <1>2 DEF Apart
  <2>1. \A k \in 1 .. n : k = n \/ k \in DOMAIN s
    BY <1>1
  <2>2. CASE i = n /\ j = n
    BY <2>2
  <2>3. CASE i \in DOMAIN s /\ j \in DOMAIN s
    <3>1. all[i] = s[i] /\ all[j] = s[j]
      BY <1>1, <1>2, <2>3
    <3> QED BY <2>3, <3>1 DEF InboxOK, Apart
  <2>4. CASE i = n /\ j \in DOMAIN s
    BY <1>1, <1>2, <2>4
  <2>5. CASE j = n /\ i \in DOMAIN s
    BY <1>1, <1>2, <2>5
  <2> QED BY <2>1, <2>2, <2>3, <2>4, <2>5
<1> HIDE DEF all, over
<1>6. /\ p \in Seq(Messages) /\ Len(p) = n - over /\ DOMAIN p = 1 .. (n - over)
      /\ \A i \in 1 .. (n - over) : p[i] = all[i + over] /\ i + over \in 1 .. n
  <2> HIDE DEF n
  <2>1. over + 1 \in 1 .. (n + 1) /\ over + 1 \in 1 .. n /\ n \in 0 .. n
    BY <1>2, <1>4
  <2>2. p = [i \in 1 .. (n - over) |-> all[i + over]]
    BY <1>2, <1>4, <2>1
  <2>3. \A i \in 1 .. (n - over) : i + over \in 1 .. n
    BY <1>2, <1>4
  <2>4. \A i \in 1 .. n : all[i] \in Messages
    BY <1>2
  <2> QED BY <1>2, <1>4, <2>2, <2>3, <2>4
<1>7. Apart(p)
  <2> SUFFICES ASSUME NEW i \in 1 .. (n - over), NEW j \in 1 .. (n - over),
                      ~ p[i].durable, ~ p[j].durable, p[i].id = p[j].id
               PROVE  i = j
    BY <1>6 DEF Apart
  <2> HIDE DEF n, p
  <2>1. p[i] = all[i + over] /\ p[j] = all[j + over]
        /\ i + over \in DOMAIN all /\ j + over \in DOMAIN all
    BY <1>2, <1>6
  <2>2. i + over = j + over
    BY <1>5, <2>1 DEF Apart
  <2> QED BY <1>4, <2>2
<1> QED BY <1>3, <1>4, <1>6, <1>7 DEF InboxOK

\* The recursion of Durables has a solution up to any number k of messages.
DurableStep(s, g, i) ==
    IF i = 0 THEN <<>> ELSE IF s[i].durable THEN Append(g[i - 1], s[i]) ELSE g[i - 1]
DurableUpTo(s, g, k) == g = [i \in 0 .. k |-> DurableStep(s, g, i)]

LEMMA DurablesExist ==
    ASSUME NEW s, NEW n \in Nat
    PROVE  \E g : DurableUpTo(s, g, n)
<1> DEFINE Bad == {k \in Nat : ~ \E g : DurableUpTo(s, g, k)}
<1>1. SUFFICES ASSUME Bad # {} PROVE FALSE
  OBVIOUS
<1>2. PICK k \in Bad : \A j \in Bad : k <= j
  BY <1>1, LeastOne
<1>3. CASE k = 0
  <2> DEFINE g == [i \in 0 .. 0 |-> <<>>]
  <2>1. \A i \in 0 .. 0 : i = 0
    OBVIOUS
  <2>2. DurableUpTo(s, g, 0)
    BY <2>1 DEF DurableUpTo, DurableStep
  <2> QED BY <1>2, <1>3, <2>2
<1>4. CASE k # 0
  <2>1. k - 1 \in Nat /\ ~ (k <= k - 1)
    BY <1>2, <1>4
  <2>2. PICK g : DurableUpTo(s, g, k - 1)
    BY <1>2, <2>1
  <2> DEFINE h == [i \in 0 .. k |-> DurableStep(s, g, i)]
  <2>3. \A i \in 0 .. (k - 1) : h[i] = g[i] /\ i \in 0 .. k
    BY <2>1, <2>2 DEF DurableUpTo
  <2>4. \A i \in 0 .. k : i # 0 => i - 1 \in 0 .. (k - 1)
    BY <2>1
  <2> HIDE DEF h
  <2>5. \A i \in 0 .. k : DurableStep(s, g, i) = DurableStep(s, h, i)
    BY <2>3, <2>4 DEF DurableStep
  <2>6. DurableUpTo(s, h, k)
    BY <2>5 DEF DurableUpTo, h
  <2> QED BY <1>2, <2>6
<1> QED BY <1>3, <1>4

LEMMA DurablesOK ==
    ASSUME NEW s, InboxOK(s)
    PROVE  InboxOK(Durables(s))
<1> DEFINE n == Len(s)
           f == CHOOSE g : DurableUpTo(s, g, n)
           Kept(i) == /\ f[i] \in Seq(Messages) /\ Len(f[i]) <= i
                      /\ \A j \in DOMAIN f[i] : f[i][j].durable
           Bad == {i \in 0 .. n : ~ Kept(i)}
<1>1. n \in Nat /\ \A i \in 1 .. n : s[i] \in Messages
  BY DEF InboxOK
<1>2. DurableUpTo(s, f, n)
  BY <1>1, DurablesExist
<1>3. Durables(s) = f[n]
  BY DEF Durables, DurableUpTo, DurableStep
<1> HIDE DEF f
<1>4. \A i \in 0 .. n : f[i] = DurableStep(s, f, i)
  BY <1>2 DEF DurableUpTo
<1>5. Bad = {}
  <2> SUFFICES ASSUME Bad # {} PROVE FALSE
    OBVIOUS
  <2>0. Bad \subseteq Nat
    <3> HIDE DEF Kept, n
    <3> QED BY <1>1
  <2>1. PICK k \in Bad : \A j \in Bad : k <= j
    <3> HIDE DEF Bad
    <3> QED BY <2>0, LeastOne
  <2>2. CASE k = 0
    <3>1. f[0] = <<>>
      BY <1>1, <1>4 DEF DurableStep
    <3>2. <<>> \in Seq(Messages) /\ Len(<<>>) <= 0 /\ DOMAIN <<>> = {}
      OBVIOUS
    <3>3. Kept(0)
      BY <3>1, <3>2
    <3> HIDE DEF Kept
    <3> QED BY <2>1, <2>2, <3>3
  <2>3. CASE k # 0
    <3>1. k \in 1 .. n /\ k - 1 \in 0 .. n /\ ~ (k <= k - 1)
      BY <1>1, <2>1, <2>3
    <3> DEFINE e == f[k - 1]
    <3>2. e \in Seq(Messages) /\ Len(e) <= k - 1 /\ \A j \in DOMAIN e : e[j].durable
      BY <2>1, <3>1
    <3>3. f[k] = (IF s[k].durable THEN Append(e, s[k]) ELSE e)
      BY <1>4, <2>1, <2>3 DEF DurableStep
    <3> HIDE DEF e
    <3>4. CASE ~ s[k].durable
      BY <2>1, <3>1, <3>2, <3>3, <3>4
    <3>5. CASE s[k].durable
      <4> DEFINE x == Append(e, s[k])
      <4>1. /\ x \in Seq(Messages) /\ Len(x) = Len(e) + 1 /\ Len(e) \in Nat
            /\ DOMAIN x = 1 .. (Len(e) + 1) /\ DOMAIN e = 1 .. Len(e)
            /\ x[Len(e) + 1] = s[k] /\ \A j \in 1 .. Len(e) : x[j] = e[j]
        BY <1>1, <3>1, <3>2
      <4> HIDE DEF x
      <4>2. \A j \in 1 .. (Len(e) + 1) : j = Len(e) + 1 \/ j \in 1 .. Len(e)
        BY <4>1
      <4>3. \A j \in DOMAIN x : x[j].durable
        BY <3>2, <3>5, <4>1, <4>2
      <4>4. Len(x) <= k
        BY <3>1, <3>2, <4>1
      <4>5. f[k] = x
        BY <3>3, <3>5 DEF x
      <4> QED BY <2>1, <4>1, <4>3, <4>4, <4>5
    <3> QED BY <3>4, <3>5
  <2> QED BY <2>2, <2>3
<1>6. Kept(n)
  BY <1>1, <1>5
<1>7. Len(f[n]) \in Nat /\ n <= MaxInbox /\ MaxInbox \in Nat
  BY <1>6, RuntimeAssumption DEF InboxOK
<1> HIDE DEF n
<1>8. InboxOK(f[n])
  BY <1>1, <1>6, <1>7 DEF InboxOK, Apart
<1> QED BY <1>3, <1>8 DEF n

\* What else is done to an object leaves its inbox.
LEMMA HandsBox ==
    ASSUME NEW o, DOMAIN o = Fields, NEW h, NEW d, NEW t
    PROVE  /\ Taken(o, h).inbox = o.inbox /\ DroppedBy(o, h, d).inbox = o.inbox
           /\ OpenedBy(o, h, d, t).inbox = o.inbox /\ ClosedBy(o, d).inbox = o.inbox
           /\ clear_expired_lock(o, t).inbox = o.inbox
<1>1. Taken(o, h).inbox = o.inbox
  BY DEF Taken, Dirtied, Fields
<1>2. DroppedBy(o, h, d).inbox = o.inbox
  BY DEF DroppedBy, Dirtied, Closed, Fields
<1>3. OpenedBy(o, h, d, t).inbox = o.inbox
  <2> DEFINE e == t + LockSecs
  <2>1. Opened(o, d, t) = Dirtied([o EXCEPT !.opener = d, !.locker = d, !.expiry = e])
    BY DEF Opened
  <2> HIDE DEF e
  <2> QED BY <2>1 DEF OpenedBy, Dirtied, Fields
<1>4. ClosedBy(o, d).inbox = o.inbox /\ clear_expired_lock(o, t).inbox = o.inbox
  BY DEF ClosedBy, clear_expired_lock, Dirtied, Closed, Fields
<1> QED BY <1>1, <1>2, <1>3, <1>4

LEMMA RequestsBox ==
    ASSUME NEW o, DOMAIN o = Fields, NEW id, NEW t
    PROVE  /\ begin_ephemeral_request(o, t).inbox = o.inbox
           /\ retry_ephemeral_request(o, id, t).inbox = o.inbox
           /\ resolve_ephemeral_reply(o, id).inbox = o.inbox
           /\ DOMAIN resolve_ephemeral_reply(o, id) = Fields
           /\ reap_expired_ephemeral_requests(o, t).inbox = o.inbox
<1>1. begin_ephemeral_request(o, t).inbox = o.inbox
  BY DEF begin_ephemeral_request, queue_outbound_intent, Dirtied, Fields
<1>2. retry_ephemeral_request(o, id, t).inbox = o.inbox
  BY DEF retry_ephemeral_request, queue_outbound_intent, Dirtied, Fields
<1>3. /\ resolve_ephemeral_reply(o, id).inbox = o.inbox
      /\ DOMAIN resolve_ephemeral_reply(o, id) = Fields
  BY DEF resolve_ephemeral_reply, Dirtied, Fields
<1>4. reap_expired_ephemeral_requests(o, t).inbox = o.inbox
  BY DEF reap_expired_ephemeral_requests, Dirtied, Fields
<1> QED BY <1>1, <1>2, <1>3, <1>4

LEMMA PushBox ==
    ASSUME NEW o, DOMAIN o = Fields, NEW message
    PROVE  push_inbox_message(o, message).inbox = Pushed(o.inbox, message)
<1> DEFINE x == Pushed(o.inbox, message)
<1>1. push_inbox_message(o, message) = Dirtied([o EXCEPT !.inbox = x])
  BY DEF push_inbox_message, Pushed
<1> HIDE DEF x
<1>2. Dirtied([o EXCEPT !.inbox = x]).inbox = x
  BY DEF Dirtied, Fields
<1> QED BY <1>1, <1>2 DEF x

LEMMA EffectBox ==
    ASSUME NEW o, DOMAIN o = Fields, InboxOK(o.inbox), NEW p, Effected(o, p)
    PROVE  InboxOK(p.inbox)
<1>1. CASE \/ p = o \/ p = Taken(o, call.handle) \/ p = DroppedBy(o, call.handle, call.did)
           \/ p = OpenedBy(o, call.handle, call.did, call.now) \/ p = ClosedBy(o, call.did)
  BY <1>1, HandsBox
<1>2. CASE \/ p = begin_ephemeral_request(o, call.now)
           \/ p = reap_expired_ephemeral_requests(o, call.now)
           \/ \E id \in Requests : p = retry_ephemeral_request(o, id, call.now)
  BY <1>2, RequestsBox
<1>3. CASE p = pop_inbox_message(o)
  <2> DEFINE x == Tail(o.inbox)
  <2>1. p = (IF o.inbox = <<>> THEN o ELSE Dirtied([o EXCEPT !.inbox = x]))
    BY <1>3 DEF pop_inbox_message
  <2>2. o.inbox # <<>> => InboxOK(x)
    BY TailOK
  <2> HIDE DEF x
  <2>3. Dirtied([o EXCEPT !.inbox = x]).inbox = x
    BY DEF Dirtied, Fields
  <2> QED BY <2>1, <2>2, <2>3
<1>4. ASSUME NEW id \in Requests, p = Replied(o, id) PROVE InboxOK(p.inbox)
  <2> DEFINE message == [id |-> NextMessageId(o.inbox), durable |-> FALSE]
             q == resolve_ephemeral_reply(o, id)
  <2>1. p = push_inbox_message(q, message) /\ DOMAIN q = Fields /\ q.inbox = o.inbox
    BY <1>4, RequestsBox DEF Replied
  <2>2. p.inbox = Pushed(o.inbox, message)
    BY <2>1, PushBox
  <2>3. /\ o.inbox \in Seq(Messages) /\ NextMessageId(o.inbox) \in Nat
        /\ \A i \in DOMAIN o.inbox : o.inbox[i].id < NextMessageId(o.inbox)
    BY NextIdNew DEF InboxOK
  <2>4. message \in Messages /\ message.id = NextMessageId(o.inbox)
    BY <2>3 DEF Messages
  <2>5. \A i \in DOMAIN o.inbox : o.inbox[i].id # message.id
    BY <2>3, <2>4, IdsTyped
  <2> QED BY <2>2, <2>4, <2>5, PushedOK
<1>5. CASE \/ \E cid \in Cids : p = [o EXCEPT !.cid = cid, !.definition = cid, !.dirty = @ \cup {"meta"}]
           \/ p = [o EXCEPT !.blobs = @ \cup o.dirty, !.dirty = {}]
  BY <1>5 DEF Fields
<1> QED BY <1>1, <1>2, <1>3, <1>4, <1>5 DEF Effected

-----------------------------------------------------------------------------
(* Inboxes of all objects                                                   *)

AllBoxes(objs) == \A at \in DOMAIN objs : InboxOK(objs[at].inbox)

LEMMA FieldsThere ==
    ASSUME Inv
    PROVE  /\ \A at \in DOMAIN objects : DOMAIN objects[at] = Fields
           /\ saved # None => \A at \in DOMAIN saved : DOMAIN saved[at] = Fields
BY DEF Inv, GoodAll, Good, ObjectOK

LEMMA PerformBoxes ==
    ASSUME Inv, Boxes, Performs
    PROVE  AllBoxes(objects') /\ UNCHANGED <<saved, nextKnock>>
<1>1. UNCHANGED <<saved, nextKnock>>
  BY DEF Performs, Take, Drop, Open, Close, Pop, Ask, Pending, Flush, Refuse, Retry, Reply,
         SetDefinition, Perform
<1>2. CASE UNCHANGED objects
  BY <1>1, <1>2 DEF Boxes, AllBoxes
<1>3. CASE ~ UNCHANGED objects
  <2>1. call.at \in DOMAIN objects
    BY <1>3, PerformTurns DEF Turned, Refuse
  <2>2. DOMAIN objects[call.at] = Fields /\ InboxOK(objects[call.at].inbox)
    BY <2>1, FieldsThere DEF Boxes
  <2>3. \A o \in Hydrations(objects[call.at]) :
          DOMAIN o = Fields /\ o.inbox = objects[call.at].inbox
    BY <2>2 DEF Hydrations, Fields
  <2>4. PICK p : InboxOK(p.inbox) /\ objects' = [objects EXCEPT ![call.at] = p]
    <3>1. CASE Refuse
      <4>1. PICK o \in Hydrations(objects[call.at]) : objects' = [objects EXCEPT ![call.at] = o]
        BY <1>3, <3>1 DEF Refuse
      <4> QED BY <2>2, <2>3, <4>1
    <3>2. CASE ~ Refuse
      <4>1. PICK verb \in Verbs, o \in Hydrations(objects[call.at]) : \E p :
              Effected(Extended(o, verb), p) /\ objects' = [objects EXCEPT ![call.at] = p]
        BY <3>2, PerformTurns DEF Turned
      <4>2. PICK p : Effected(Extended(o, verb), p) /\ objects' = [objects EXCEPT ![call.at] = p]
        BY <4>1
      <4> DEFINE q == Extended(o, verb)
      <4>3. DOMAIN q = Fields /\ InboxOK(q.inbox)
        BY <2>2, <2>3 DEF Extended, Fields
      <4> HIDE DEF q
      <4>4. InboxOK(p.inbox)
        BY <4>2, <4>3, EffectBox DEF q
      <4> QED BY <4>2, <4>4
    <3> QED BY <3>1, <3>2
  <2>5. AllBoxes(objects')
    BY <2>1, <2>4 DEF Boxes, AllBoxes
  <2> QED BY <1>1, <2>5
<1> QED BY <1>1, <1>2, <1>3

LEMMA CallBoxes ==
    ASSUME Inv, Boxes, Calls
    PROVE  AllBoxes(objects') /\ UNCHANGED <<saved, nextKnock>>
<1>1. ASSUME NEW h \in DOMAIN handles, NEW room \in Rooms, NEW id \in Ids,
             ArriveByName(h, room, id) \/ ArriveByDid(h, id)
      PROVE  AllBoxes(objects') /\ UNCHANGED <<saved, nextKnock>>
  <2>1. PICK place \in DOMAIN objects : Arrives(h, place)
    BY <1>1 DEF ArriveByName, ArriveByDid
  <2>2. UNCHANGED <<saved, nextKnock>>
    BY <1>1 DEF ArriveByName, ArriveByDid
  <2> DEFINE p == clear_expired_lock(objects[place], now)
  <2>3. objects' = [objects EXCEPT ![place] = p]
    BY <2>1 DEF Arrives
  <2>4. InboxOK(p.inbox)
    BY FieldsThere, HandsBox DEF Boxes
  <2> HIDE DEF p
  <2> QED BY <2>2, <2>3, <2>4 DEF Boxes, AllBoxes
<1>2. ASSUME NEW id \in Ids, MissDid(id) \/ EvictRoute(id)
      PROVE  AllBoxes(objects') /\ UNCHANGED <<saved, nextKnock>>
  BY <1>2 DEF MissDid, EvictRoute, Boxes, AllBoxes
<1> QED BY <1>1, <1>2, PerformBoxes, RuntimeAssumption DEF Calls, Performs

LEMMA KnockBoxes == ASSUME Inv, Boxes, Knock PROVE Boxes'
<1> DEFINE message == [id |-> nextKnock + 1, durable |-> TRUE]
           p == push_inbox_message(objects[Home], message)
<1>1. Home \in DOMAIN objects /\ DOMAIN objects[Home] = Fields /\ InboxOK(objects[Home].inbox)
  BY FieldsThere DEF Inv, TypeOK, Boxes
<1>2. message \in Messages /\ message.durable
  BY DEF Boxes, Messages
<1>3. objects' = [objects EXCEPT ![Home] = p] /\ nextKnock' \in Nat /\ UNCHANGED saved
  BY DEF Knock, Boxes
<1> HIDE DEF message
<1>4. InboxOK(p.inbox)
  BY <1>1, <1>2, PushBox, PushedOK
<1> HIDE DEF p
<1> QED BY <1>1, <1>3, <1>4 DEF Boxes

LEMMA WashBoxes ==
    ASSUME Inv, Boxes, Wash \/ Washes
    PROVE  AllBoxes(objects') /\ UNCHANGED <<saved, nextKnock>>
<1>1. CASE Wash
  BY <1>1 DEF Wash, Boxes, AllBoxes
<1>2. CASE Washes
  <2>1. PICK done \in [DOMAIN washing -> SUBSET Halves] :
            objects' = [at \in DOMAIN objects |->
                IF at \in DOMAIN washing
                THEN Washed(objects[at], washing[at], done[at]) ELSE objects[at]]
    BY <1>2 DEF Washes
  <2>2. \A at \in DOMAIN objects : \A seen, marks :
            Washed(objects[at], seen, marks).inbox = objects[at].inbox
    BY FieldsThere DEF Washed, Fields
  <2> QED BY <1>2, <2>1, <2>2 DEF Washes, Boxes, AllBoxes
<1> QED BY <1>1, <1>2

LEMMA SaveBoxes == ASSUME Inv, Boxes, Save PROVE Boxes'
<1>1. \A at \in DOMAIN objects : InboxOK(persisted_snapshot(objects[at]).inbox)
  <2>1. \A o, x : DOMAIN o = Fields =>
            [o EXCEPT !.inbox = x, !.outbox = <<>>, !.pending = <<>>, !.asked = 0].inbox = x
    BY DEF Fields
  <2>2. \A o : DOMAIN o = Fields => persisted_snapshot(o).inbox = Durables(o.inbox)
    BY <2>1 DEF persisted_snapshot
  <2> QED BY <2>2, FieldsThere, DurablesOK DEF Boxes
<1>2. saved' = [at \in DOMAIN objects |-> persisted_snapshot(objects[at])]
      /\ UNCHANGED <<objects, nextKnock>>
  BY DEF Save
<1> QED BY <1>1, <1>2 DEF Boxes

LEMMA EmptyOK == InboxOK(<<>>)
BY RuntimeAssumption DEF InboxOK, Apart

LEMMA LoadBoxes == ASSUME Inv, Boxes, Loads PROVE Boxes'
<1>1. \A cid, def : Fresh(cid, def).inbox = <<>> /\ DOMAIN Fresh(cid, def) = Fields
  BY DEF Fresh, Fields
<1>2. PICK envelope : /\ \A at \in DOMAIN envelope :
                              InboxOK(envelope[at].inbox) /\ DOMAIN envelope[at] = Fields
                      /\ \E objs \in Hydrated(envelope) : objects' = Restored(objs)
  <2>1. \A e \in Envelopes : \A at \in DOMAIN Foreign(e) :
            InboxOK(Foreign(e)[at].inbox) /\ DOMAIN Foreign(e)[at] = Fields
    BY <1>1, EmptyOK DEF Foreign
  <2>2. saved # None => \A at \in DOMAIN saved : InboxOK(saved[at].inbox) /\ DOMAIN saved[at] = Fields
    BY FieldsThere DEF Boxes
  <2> QED BY <2>1, <2>2 DEF Loads, Load, Restart, Loadable
<1>3. PICK objs \in Hydrated(envelope) : objects' = Restored(objs)
  BY <1>2
<1>4. \A at \in DOMAIN objs : InboxOK(objs[at].inbox) /\ DOMAIN objs[at] = Fields
  BY <1>2, <1>3 DEF Hydrated, Fields
<1>5. \A at \in DOMAIN objs : InboxOK(clear_expired_lock(objs[at], now).inbox)
  BY <1>4, HandsBox
<1>6. \A at \in DOMAIN objects' : InboxOK(objects'[at].inbox)
  BY <1>1, <1>3, <1>5, EmptyOK DEF Restored, WithMailbox
<1>7. UNCHANGED saved /\ nextKnock' \in Nat
  BY DEF Loads, Load, Restart, Boxes
<1> QED BY <1>6, <1>7 DEF Boxes

LEMMA InitBoxes == Init => Boxes
<1> SUFFICES ASSUME Init PROVE Boxes
  OBVIOUS
<1>1. DOMAIN <<>> = {}
  OBVIOUS
<1>2. \A at \in DOMAIN objects : InboxOK(objects[at].inbox)
  <2>1. Fresh(None, Builtin).inbox = <<>>
    BY DEF Fresh
  <2> QED BY <1>1, <2>1, EmptyOK DEF Init, WithMailbox
<1> QED BY <1>2 DEF Boxes, Init

LEMMA StepBoxes == Inv /\ Boxes /\ [Next]_vars => Boxes'
<1> SUFFICES ASSUME Inv, Boxes, [Next]_vars PROVE Boxes'
  OBVIOUS
<1>1. CASE Calls \/ Wash \/ Washes
  BY <1>1, CallBoxes, WashBoxes DEF Boxes, AllBoxes
<1>2. CASE UNCHANGED <<objects, saved, nextKnock>>
  BY <1>2 DEF Boxes
<1>3. CASE Tick \/ \E h \in Handles : Go(h) \/ \E d \in Dids : Come(h, d)
  <2>1. UNCHANGED <<objects, saved, nextKnock>>
    BY <1>3 DEF Tick, Go, Come
  <2> QED BY <1>2, <2>1
<1> QED BY <1>1, <1>2, <1>3, KnockBoxes, SaveBoxes, LoadBoxes DEF Next, vars

\* For any callers, knocks and restarts: an inbox stays within its limit, and the
\* messages that replies left in it have ids of their own, though numbers start
\* anew from what is left, and saves keep some of the messages only.
THEOREM InboxStaysSound == Spec => []InboxSound
<1>1. Boxes => InboxSound
  BY DEF Boxes, InboxSound, InboxOK, Apart
<1> QED BY <1>1, InitBoxes, StepBoxes, Invariant, PTL DEF Spec

=============================================================================
