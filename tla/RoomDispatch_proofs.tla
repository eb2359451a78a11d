------------------------- MODULE RoomDispatch_proofs ------------------------
(***************************************************************************)
(* Proofs about RoomDispatch, for any clients, rooms and bounds: its types, *)
(* that no change of a roster is forgotten except a kick, that no event of  *)
(* a log is, and that events are sent in the order of their numbers.        *)
(***************************************************************************)
EXTENDS RoomDispatch, TLAPS

-----------------------------------------------------------------------------
(* Sequences: what appending to a queue and taking its head do to the       *)
(* question whether it holds something.                                     *)

LEMMA HoldsAppend ==
    ASSUME NEW S, NEW s \in Seq(S), NEW y \in S, NEW x
    PROVE  /\ Holds(s, x) => Holds(Append(s, y), x)
           /\ Holds(Append(s, y), y)
<1>1. /\ Append(s, y) \in Seq(S)
      /\ DOMAIN Append(s, y) = 1 .. (Len(s) + 1)
      /\ DOMAIN s = 1 .. Len(s) /\ Len(s) \in Nat
      /\ \A i \in 1 .. Len(s) : Append(s, y)[i] = s[i]
      /\ Append(s, y)[Len(s) + 1] = y
  OBVIOUS
<1>2. Holds(s, x) => Holds(Append(s, y), x)
  BY <1>1 DEF Holds
<1>3. Holds(Append(s, y), y)
  BY <1>1 DEF Holds
<1> QED
  BY <1>2, <1>3

LEMMA HoldsTail ==
    ASSUME NEW S, NEW s \in Seq(S), s # <<>>, NEW x, Holds(s, x), Head(s) # x
    PROVE  Holds(Tail(s), x)
<1>1. PICK i \in 1 .. Len(s) : s[i] = x
  BY DEF Holds
<1>2. i # 1
  BY <1>1
<1>3. /\ Tail(s) \in Seq(S) /\ DOMAIN Tail(s) = 1 .. (Len(s) - 1)
      /\ i - 1 \in 1 .. (Len(s) - 1) /\ Tail(s)[i - 1] = s[i]
  BY <1>1, <1>2
<1> QED
  BY <1>1, <1>3 DEF Holds

LEMMA HoldsCons ==
    ASSUME NEW S, NEW s \in Seq(S), NEW y \in S, NEW x
    PROVE  /\ <<y>> \o s \in Seq(S)
           /\ Holds(<<y>> \o s, y)
           /\ Holds(s, x) => Holds(<<y>> \o s, x)
<1>1. /\ <<y>> \o s \in Seq(S) /\ DOMAIN (<<y>> \o s) = 1 .. (Len(s) + 1)
      /\ Len(s) \in Nat /\ DOMAIN s = 1 .. Len(s)
      /\ (<<y>> \o s)[1] = y
      /\ \A i \in 1 .. Len(s) : i + 1 \in 1 .. (Len(s) + 1) /\ (<<y>> \o s)[i + 1] = s[i]
  OBVIOUS
<1>2. Holds(<<y>> \o s, y)
  BY <1>1 DEF Holds
<1>3. ASSUME NEW i \in DOMAIN s, s[i] = x
      PROVE  \E j \in DOMAIN (<<y>> \o s) : (<<y>> \o s)[j] = x
  <2>1. i + 1 \in DOMAIN (<<y>> \o s) /\ (<<y>> \o s)[i + 1] = x
    BY <1>1, <1>3
  <2> QED
    BY <2>1
<1> QED
  BY <1>1, <1>2, <1>3 DEF Holds

LEMMA HoldsNothing == \A x : ~ Holds(<<>>, x)
  BY DEF Holds

-----------------------------------------------------------------------------
(* Types                                                                    *)

LEMMA TaskTypes ==
    /\ Snapshot \in Task /\ Plain("refresh") \in Task
    /\ Plain("broadcast") \in Task /\ Plain("events") \in Task
    /\ \A c \in Clients : StateTo(c) \in Task
    /\ \A n \in Nat : EventsSince(n) \in Task
    /\ \A r \in Rooms, t \in Task : Enqueue(r, t) \in Step
    /\ \A r \in Rooms : Record(r) \in Step
  BY DEF Task, Step, Snapshot, Plain, StateTo, EventsSince, Enqueue, Record

\* The steps a request leaves the lane are steps.
LEMMA StepsTypes ==
    ASSUME NEW c \in Clients, NEW p \in Rooms, NEW r \in Rooms
    PROVE  /\ CrossRoom(c, p, r) \in Seq(Step)
           /\ <<Record(r)>> \o CrossRoom(c, p, r) \in Seq(Step)
           /\ <<>> \o CrossRoom(c, p, r) \in Seq(Step)
           /\ <<Enqueue(r, Snapshot), Record(r)>> \o <<>> \in Seq(Step)
           /\ <<Enqueue(r, Snapshot), Record(r)>> \o <<Enqueue(r, Snapshot)>> \in Seq(Step)
           /\ <<Enqueue(p, Snapshot), Enqueue(r, Snapshot), Record(r)>> \in Seq(Step)
           /\ <<Record(r)>> \in Seq(Step)
           /\ <<Enqueue(r, Plain("broadcast"))>> \in Seq(Step)
<1>1. /\ Enqueue(r, Snapshot) \in Step /\ Enqueue(p, Snapshot) \in Step
      /\ Record(r) \in Step /\ Enqueue(r, StateTo(c)) \in Step
      /\ Enqueue(r, Plain("broadcast")) \in Step
  BY TaskTypes
<1>2. CrossRoom(c, p, r) \in Seq(Step)
  BY <1>1 DEF CrossRoom
<1>3. <<Record(r)>> \in Seq(Step) /\ <<>> \in Seq(Step)
  BY <1>1
<1>4. /\ <<Record(r)>> \o CrossRoom(c, p, r) \in Seq(Step)
      /\ <<>> \o CrossRoom(c, p, r) \in Seq(Step)
  BY <1>2, <1>3
<1>5. <<Enqueue(r, Snapshot), Record(r)>> \in Seq(Step) /\ <<Enqueue(r, Snapshot)>> \in Seq(Step)
  BY <1>1
<1>6. /\ <<Enqueue(r, Snapshot), Record(r)>> \o <<>> \in Seq(Step)
      /\ <<Enqueue(r, Snapshot), Record(r)>> \o <<Enqueue(r, Snapshot)>> \in Seq(Step)
  BY <1>3, <1>5
<1> QED
  BY <1>1, <1>2, <1>3, <1>4, <1>6

LEMMA TypeInit == Init => TypeOK
<1> SUFFICES ASSUME Init PROVE TypeOK
  OBVIOUS
<1>1. /\ <<>> \in Seq(Task) /\ <<>> \in Seq(Step) /\ Snapshot \in Task
  BY TaskTypes
<1> QED
  BY <1>1 DEF Init, TypeOK

\* Requests touch the rosters, the lane and the history of kicks only.
LEMMA TypeTake ==
    ASSUME TypeOK, NEW kind, NEW steps \in Seq(Step), Take(kind, steps),
           roster' \in [Rooms -> SUBSET Clients], silent' \subseteq Rooms
    PROVE  TypeOK'
  BY DEF TypeOK, Take, flushVars, clientVars

LEMMA TypeRequest == TypeOK /\ Request => TypeOK'
<1> SUFFICES ASSUME TypeOK, Request PROVE TypeOK'
  OBVIOUS
<1> roster \in [Rooms -> SUBSET Clients] /\ silent \subseteq Rooms
  BY DEF TypeOK
<1>1. CASE EnterNew
  <2> PICK c \in Clients, r \in Rooms : \E extra \in {<<>>, <<Enqueue(r, Snapshot)>>} :
        /\ roster' = [roster EXCEPT ![r] = @ \cup {c}]
        /\ Take("enter", <<Enqueue(r, Snapshot), Record(r)>> \o extra)
        /\ silent' = silent
    BY <1>1 DEF EnterNew
  <2> PICK extra \in {<<>>, <<Enqueue(r, Snapshot)>>} :
        /\ roster' = [roster EXCEPT ![r] = @ \cup {c}]
        /\ Take("enter", <<Enqueue(r, Snapshot), Record(r)>> \o extra)
        /\ silent' = silent
    OBVIOUS
  <2>1. <<Enqueue(r, Snapshot), Record(r)>> \o extra \in Seq(Step)
    BY StepsTypes
  <2> QED
    BY <2>1, TypeTake
<1>2. CASE EnterMove
  <2> PICK c \in Clients, p \in Rooms, r \in Rooms :
        /\ Shift(c, p, r) /\ silent' = silent
        /\ Take("enter", <<Enqueue(p, Snapshot), Enqueue(r, Snapshot), Record(r)>>)
    BY <1>2 DEF EnterMove
  <2>1. <<Enqueue(p, Snapshot), Enqueue(r, Snapshot), Record(r)>> \in Seq(Step)
    BY StepsTypes
  <2>2. roster' \in [Rooms -> SUBSET Clients]
    BY DEF Shift
  <2> QED
    BY <2>1, <2>2, TypeTake
<1>3. CASE Go
  <2> PICK c \in Clients, p \in Rooms, r \in Rooms :
        /\ Shift(c, p, r) /\ silent' = silent
        /\ Take("go", CrossRoom(c, p, r))
    BY <1>3 DEF Go
  <2>1. CrossRoom(c, p, r) \in Seq(Step)
    BY StepsTypes
  <2>2. roster' \in [Rooms -> SUBSET Clients]
    BY DEF Shift
  <2> QED
    BY <2>1, <2>2, TypeTake
<1>4. CASE Say
  <2> PICK c \in Clients, r \in Rooms :
        Take("say", <<Record(r)>>) /\ roster' = roster /\ silent' = silent
    BY <1>4 DEF Say
  <2>1. <<Record(r)>> \in Seq(Step)
    BY StepsTypes
  <2> QED
    BY <2>1, TypeTake
<1>5. CASE Address
  <2> PICK c \in Clients, p \in Rooms, r \in Rooms : \E noted \in {<<>>, <<Record(r)>>} :
        /\ Take("address", noted \o CrossRoom(c, p, r))
        /\ roster' = roster /\ silent' = silent
    BY <1>5 DEF Address
  <2> PICK noted \in {<<>>, <<Record(r)>>} :
        /\ Take("address", noted \o CrossRoom(c, p, r))
        /\ roster' = roster /\ silent' = silent
    OBVIOUS
  <2>1. noted \o CrossRoom(c, p, r) \in Seq(Step)
    BY StepsTypes
  <2> QED
    BY <2>1, TypeTake
<1>6. CASE Broadcast
  <2> PICK c \in Clients, r \in Rooms :
        /\ Take("broadcast", <<Enqueue(r, Plain("broadcast"))>>)
        /\ roster' = roster /\ silent' = silent
    BY <1>6 DEF Broadcast
  <2>1. <<Enqueue(r, Plain("broadcast"))>> \in Seq(Step)
    BY StepsTypes
  <2> QED
    BY <2>1, TypeTake
<1>7. CASE KickFromAfar
  <2> PICK c \in Clients, k \in Clients, p \in Rooms, r \in Rooms :
        /\ roster' = [roster EXCEPT ![r] = @ \ {k}]
        /\ Take("kick", CrossRoom(c, p, r)) /\ silent' = silent
    BY <1>7 DEF KickFromAfar
  <2>1. CrossRoom(c, p, r) \in Seq(Step)
    BY StepsTypes
  <2>2. roster' \in [Rooms -> SUBSET Clients]
    OBVIOUS
  <2> QED
    BY <2>1, <2>2, TypeTake
<1>8. CASE Kick
  <2> PICK k \in Clients, r \in Rooms :
        /\ roster' = [roster EXCEPT ![r] = @ \ {k}]
        /\ silent' = silent \cup {r}
        /\ Take("kick", <<>>)
    BY <1>8 DEF Kick
  <2>1. <<>> \in Seq(Step) /\ roster' \in [Rooms -> SUBSET Clients] /\ silent' \subseteq Rooms
    OBVIOUS
  <2> QED
    BY <2>1, TypeTake
<1> QED
  BY <1>1, <1>2, <1>3, <1>4, <1>5, <1>6, <1>7, <1>8 DEF Request

LEMMA TypePush ==
    ASSUME TypeOK, NEW r \in Rooms, NEW t \in Task, Push(r, t)
    PROVE  /\ queue' \in [Rooms -> Seq(Task)] /\ silent' \subseteq Rooms
           /\ queue'[r] = Append(queue[r], t)
           /\ \A q \in Rooms \ {r} : queue'[q] = queue[q]
<1>1. queue \in [Rooms -> Seq(Task)] /\ silent \subseteq Rooms
  BY DEF TypeOK
<1>2. Append(queue[r], t) \in Seq(Task)
  BY <1>1
<1>3. queue' = [queue EXCEPT ![r] = Append(queue[r], t)]
  BY DEF Push
<1>4. queue' \in [Rooms -> Seq(Task)]
  BY <1>1, <1>2, <1>3
<1>5. silent' \subseteq Rooms
  BY <1>1 DEF Push
<1> QED
  BY <1>1, <1>3, <1>4, <1>5

\* The head of todo is a step, and what is left are steps.
LEMMA TypeHead ==
    ASSUME TypeOK, todo # <<>>
    PROVE  /\ Head(todo).room \in Rooms /\ Head(todo).task \in Task
           /\ Head(todo) \in Step /\ Tail(todo) \in Seq(Step)
<1>1. todo \in Seq(Step)
  BY DEF TypeOK
<1>2. Head(todo) \in Step /\ Tail(todo) \in Seq(Step)
  BY <1>1
<1> QED
  BY <1>2 DEF Step

LEMMA TypeLane == TypeOK /\ Lane => TypeOK'
<1> SUFFICES ASSUME TypeOK, Lane PROVE TypeOK'
  OBVIOUS
<1>1. CASE LaneEnqueues
  <2>1. /\ Head(todo).room \in Rooms /\ Head(todo).task \in Task
        /\ todo' \in Seq(Step)
        /\ Push(Head(todo).room, Head(todo).task)
    BY <1>1, TypeHead DEF LaneEnqueues
  <2>2. queue' \in [Rooms -> Seq(Task)] /\ silent' \subseteq Rooms
    BY <2>1, TypePush
  <2> QED
    BY <1>1, <2>1, <2>2 DEF LaneEnqueues, TypeOK, flushVars, clientVars
<1>2. CASE LaneRecords
  <2> DEFINE r == Head(todo).room
             n == seq[r] + 1
  <2>1. r \in Rooms /\ Tail(todo) \in Seq(Step)
    BY <1>2, TypeHead DEF LaneRecords
  <2>2. /\ seq' = [seq EXCEPT ![r] = n]
        /\ events' = [events EXCEPT ![r] = PushEvent(@, n)]
        /\ todo' = <<Enqueue(r, AnnounceAfter(n))>> \o Tail(todo)
        /\ UNCHANGED <<roster, queue, requests, pruned, asked, flushVars, clientVars,
                       offered, silent>>
    BY <1>2 DEF LaneRecords
  <2>3. n \in Nat \ {0} /\ n - 1 \in Nat /\ seq[r] \in Nat
    BY <2>1 DEF TypeOK
  <2>4. AnnounceAfter(n) \in Task
    BY <2>3, TaskTypes DEF AnnounceAfter
  <2>5. todo' \in Seq(Step)
    <3>1. Enqueue(r, AnnounceAfter(n)) \in Step
      BY <2>1, <2>4, TaskTypes
    <3> HIDE DEF r, n
    <3> QED
      BY <2>1, <2>2, <3>1, HoldsCons
  <2>6. /\ events' \in [Rooms -> SUBSET Nat] /\ seq' \in [Rooms -> Nat]
        /\ \A q \in Rooms : \A m \in events'[q] : m <= seq'[q] /\ m + MaxEvents > seq'[q]
    <3>1. /\ events \in [Rooms -> SUBSET Nat] /\ seq \in [Rooms -> Nat]
          /\ MaxEvents \in Nat \ {0}
          /\ \A q \in Rooms : \A m \in events[q] : m <= seq[q] /\ m + MaxEvents > seq[q]
      BY DispatchAssumption DEF TypeOK
    <3> HIDE DEF n
    <3>2. PushEvent(events[r], n) \in SUBSET Nat
      BY <2>1, <2>3, <3>1 DEF PushEvent
    <3>3. \A m \in PushEvent(events[r], n) : m <= n /\ m + MaxEvents > n
      BY <2>1, <2>3, <3>1 DEF PushEvent, n
    <3>4. /\ events'[r] = PushEvent(events[r], n) /\ seq'[r] = n
          /\ \A q \in Rooms \ {r} : events'[q] = events[q] /\ seq'[q] = seq[q]
      BY <2>1, <2>2, <3>1
    <3>5. events' \in [Rooms -> SUBSET Nat] /\ seq' \in [Rooms -> Nat]
      BY <2>1, <2>2, <2>3, <3>1, <3>2
    <3> QED
      BY <3>1, <3>3, <3>4, <3>5
  <2> HIDE DEF r, n
  <2> QED
    BY <2>2, <2>5, <2>6 DEF TypeOK, flushVars, clientVars
<1> QED
  BY <1>1, <1>2 DEF Lane

LEMMA TypeOthers == TypeOK /\ (Prune \/ Announce \/ AskRefresh) => TypeOK'
<1> SUFFICES ASSUME TypeOK, Prune \/ Announce \/ AskRefresh PROVE TypeOK'
  OBVIOUS
<1>1. CASE Prune
  BY <1>1 DEF Prune, TypeOK, flushVars, clientVars
<1>2. CASE Announce
  <2> PICK r \in pruned : Push(r, Snapshot) /\ pruned' = pruned \ {r}
    BY <1>2 DEF Announce
  <2>1. r \in Rooms /\ Snapshot \in Task
    BY TaskTypes DEF TypeOK
  <2>2. queue' \in [Rooms -> Seq(Task)] /\ silent' \subseteq Rooms
    BY <2>1, TypePush
  <2> QED
    BY <1>2, <2>2 DEF Announce, TypeOK, laneVars, flushVars, clientVars
<1>3. CASE AskRefresh
  <2>1. \A r \in Rooms : Append(queue[r], Plain("refresh")) \in Seq(Task)
    BY TaskTypes DEF TypeOK
  <2> QED
    BY <1>3, <2>1 DEF AskRefresh, TypeOK, flushVars, clientVars
<1> QED
  BY <1>1, <1>2, <1>3

\* The locals of the dispatch ticker are the only variables that matter when
\* a task is done.
LEMMA TypeDone ==
    ASSUME TypeOK, Done, targets' \subseteq Clients \cup {None},
           UNCHANGED <<offer, clientVars>>, step # "task"
    PROVE  TypeOK'
<1>1. at' \in Rooms \cup {None} /\ (batch' # <<>> => at' \in Rooms)
  BY DEF TypeOK, Done, Stay
<1> QED
  BY <1>1, TaskTypes DEF TypeOK, Done, roomVars, laneVars, clientVars

LEMMA TypeFlush == TypeOK /\ Flush => TypeOK'
<1> SUFFICES ASSUME TypeOK, Flush PROVE TypeOK'
  OBVIOUS
<1>1. CASE Drain
  <2> PICK r \in Turns :
        /\ at' = Stay(r, queue[r]) /\ pass' = Turns \ {r}
        /\ batch' = queue[r]
        /\ queue' = [queue EXCEPT ![r] = <<>>]
    BY <1>1 DEF Drain
  <2>1. Turns \subseteq Rooms /\ r \in Rooms
    BY DEF TypeOK, Turns
  <2>2. /\ batch' \in Seq(Task) /\ queue' \in [Rooms -> Seq(Task)]
        /\ at' \in Rooms \cup {None} /\ (batch' # <<>> => at' \in Rooms)
    BY <2>1 DEF TypeOK, Stay
  <2> QED
    BY <1>1, <2>1, <2>2 DEF Drain, TypeOK, laneVars, clientVars
<1>2. CASE NextTask
  <2>1. Head(batch) \in Task /\ Tail(batch) \in Seq(Task) /\ at \in Rooms
    BY <1>2 DEF NextTask, TypeOK
  <2>2. Head(batch).to \in Clients \cup {None} /\ roster[at] \subseteq Clients
    BY <2>1 DEF Task, TypeOK
  <2> QED
    BY <1>2, <2>1, <2>2 DEF NextTask, TypeOK, roomVars, laneVars, clientVars
<1>3. CASE Context
  BY <1>3 DEF Context, TypeOK, roomVars, laneVars, clientVars
<1>4. CASE PushRoster
  <2>1. at \in Rooms /\ seen \subseteq Clients /\ step = "push"
    BY <1>4 DEF PushRoster, TypeOK
  <2>2. \A c \in Reachable : [told[c] EXCEPT ![at] = seen] \in [Rooms -> SUBSET Clients]
    BY <2>1 DEF TypeOK
  <2>3. told' \in [Reachable -> [Rooms -> SUBSET Clients]]
    BY <1>4, <2>2 DEF PushRoster, TypeOK
  <2> QED
    BY <1>4, <2>1, <2>3 DEF PushRoster, TypeOK, roomVars, laneVars
<1>5. CASE AllPushed
  BY <1>5, TypeDone DEF AllPushed, TypeOK
<1>6. CASE Call
  BY <1>6, TypeDone DEF Call, TypeOK
<1>7. CASE Collect
  <2>1. at \in Rooms /\ EventsAfter(at, task.since) \subseteq Nat
    BY <1>7 DEF Collect, TypeOK, EventsAfter
  <2> QED
    BY <1>7, <2>1 DEF Collect, TypeOK, roomVars, laneVars, clientVars
<1>8. CASE PushOldest
  <2> PICK n \in offer :
        /\ sent' = [c \in Reachable |-> IF c \in targets
                                         THEN [sent[c] EXCEPT ![at] = @ \cup {n}]
                                         ELSE sent[c]]
        /\ offer' = offer \ {n}
    BY <1>8 DEF PushOldest
  <2>1. at \in Rooms /\ n \in Nat
    BY <1>8 DEF PushOldest, TypeOK
  <2>2. \A c \in Reachable : [sent[c] EXCEPT ![at] = @ \cup {n}] \in [Rooms -> SUBSET Nat]
    BY <2>1 DEF TypeOK
  <2>3. sent' \in [Reachable -> [Rooms -> SUBSET Nat]]
    BY <2>2 DEF TypeOK
  <2> QED
    BY <1>8, <2>3 DEF PushOldest, TypeOK, roomVars, laneVars
<1>9. CASE EventsPushed
  BY <1>9, TypeDone DEF EventsPushed, TypeOK
<1> QED
  BY <1>1, <1>2, <1>3, <1>4, <1>5, <1>6, <1>7, <1>8, <1>9 DEF Flush

\* The types hold in every state of every behavior.
THEOREM DispatchTypeCorrect == Spec => []TypeOK
<1>1. Init => TypeOK
  BY TypeInit
<1>2. TypeOK /\ [Next]_vars => TypeOK'
  <2> SUFFICES ASSUME TypeOK, [Next]_vars PROVE TypeOK'
    OBVIOUS
  <2>1. CASE UNCHANGED vars
    BY <2>1 DEF vars, TypeOK
  <2> QED
    BY <2>1, TypeRequest, TypeLane, TypeOthers, TypeFlush DEF Next
<1> QED
  BY <1>1, <1>2, PTL DEF Spec

-----------------------------------------------------------------------------
(* Rosters                                                                  *)

\* What a push carries is the roster of now, or a newer one is due.
SeenIsDue ==
    step = "push" => seen = roster[at] \/ at \in silent \/ SnapshotDue(at)

RosterInv == TypeOK /\ RosterCovered /\ SeenIsDue

LEMMA RosterInit == Init => RosterInv
<1> SUFFICES ASSUME Init PROVE RosterInv
  OBVIOUS
<1>1. TypeOK
  BY TypeInit
<1> QED
  BY <1>1 DEF Init, RosterInv, RosterCovered, SeenIsDue

\* If the rooms whose roster a step changes are announced or silent, and no
\* announcement is lost, and the ticker stays where it is, the invariant is
\* kept.
LEMMA RosterStep ==
    ASSUME RosterInv, TypeOK',
           \A r \in Rooms : roster'[r] = roster[r] \/ r \in silent' \/ SnapshotDue(r)',
           \A r \in Rooms : SnapshotDue(r) => SnapshotDue(r)',
           \A r \in Rooms : r \in silent => r \in silent' \/ SnapshotDue(r)',
           UNCHANGED <<step, at, task, targets, to, seen, told>>
    PROVE  RosterInv'
<1>1. RosterCovered'
  <2> SUFFICES ASSUME NEW r \in Rooms, NEW c \in roster'[r] \cap Reachable,
                      roster'[r] = roster[r], r \notin silent', ~ SnapshotDue(r)'
               PROVE  told'[c][r] = roster'[r] \/ SnapshotOnItsWay(r, c)'
    BY DEF RosterCovered
  <2>1. c \in roster[r] \cap Reachable /\ r \notin silent /\ ~ SnapshotDue(r)
    OBVIOUS
  <2>2. told[c][r] = roster[r] \/ SnapshotOnItsWay(r, c)
    BY <2>1 DEF RosterInv, RosterCovered
  <2> QED
    BY <2>2 DEF SnapshotOnItsWay
<1>2. SeenIsDue'
  <2> SUFFICES ASSUME step = "push" PROVE SeenIsDue'
    BY DEF SeenIsDue
  <2>1. at \in Rooms /\ at' = at /\ seen' = seen
    BY DEF RosterInv, TypeOK
  <2>2. seen = roster[at] \/ at \in silent \/ SnapshotDue(at)
    BY DEF RosterInv, SeenIsDue
  <2>3. seen = roster'[at] \/ at \in silent' \/ SnapshotDue(at)'
    BY <2>1, <2>2
  <2> QED
    BY <2>1, <2>3 DEF SeenIsDue, SnapshotDue
<1> QED
  BY <1>1, <1>2 DEF RosterInv

\* What a request leaves the lane to enqueue.
LEMMA StepsHold ==
    ASSUME NEW c \in Clients, NEW p \in Rooms, NEW r \in Rooms
    PROVE  /\ \A s \in {<<>>, <<Enqueue(r, Snapshot)>>} :
                Holds(<<Enqueue(r, Snapshot), Record(r)>> \o s, Enqueue(r, Snapshot))
           /\ Holds(<<Enqueue(p, Snapshot), Enqueue(r, Snapshot), Record(r)>>, Enqueue(r, Snapshot))
           /\ Holds(<<Enqueue(p, Snapshot), Enqueue(r, Snapshot), Record(r)>>, Enqueue(p, Snapshot))
           /\ Holds(CrossRoom(c, p, r), Enqueue(p, Snapshot))
           /\ Holds(CrossRoom(c, p, r), Enqueue(r, Snapshot))
<1>1. \A a, b, d : /\ Holds(<<a, b, d>>, a) /\ Holds(<<a, b, d>>, b) /\ Holds(<<a, b, d>>, d)
  <2> TAKE a, b, d
  <2>1. DOMAIN <<a, b, d>> = 1 .. 3 /\ <<a, b, d>>[1] = a /\ <<a, b, d>>[2] = b /\ <<a, b, d>>[3] = d
    OBVIOUS
  <2>2. 1 \in 1 .. 3 /\ 2 \in 1 .. 3 /\ 3 \in 1 .. 3
    OBVIOUS
  <2> QED
    BY <2>1, <2>2 DEF Holds
<1>2. \A a, b : Holds(<<a, b>> \o <<>>, a) /\ Holds(<<a, b>> \o <<a>>, a)
  <2> TAKE a, b
  <2>1. /\ <<a, b>> \in Seq({a, b}) /\ <<>> \in Seq({a, b}) /\ <<a>> \in Seq({a, b})
        /\ Len(<<a, b>>) = 2 /\ <<a, b>>[1] = a
    OBVIOUS
  <2>2. ASSUME NEW s \in Seq({a, b}) PROVE Holds(<<a, b>> \o s, a)
    <3>1. 1 \in DOMAIN (<<a, b>> \o s) /\ (<<a, b>> \o s)[1] = a
      BY <2>1
    <3> QED
      BY <3>1 DEF Holds
  <2> QED
    BY <2>1, <2>2
<1> QED
  BY <1>1, <1>2 DEF CrossRoom

LEMMA RosterRequest == RosterInv /\ TypeOK' /\ Request => RosterInv'
<1> SUFFICES ASSUME RosterInv, TypeOK', Request PROVE RosterInv'
  OBVIOUS
<1>1. /\ todo = <<>>
      /\ UNCHANGED <<events, seq, queue, pruned, asked, flushVars, clientVars>>
  BY DEF Request, EnterNew, EnterMove, Go, Say, Address, KickFromAfar, Broadcast, Kick, Take
<1>2. ASSUME NEW r \in Rooms PROVE SnapshotDue(r) => SnapshotDue(r)'
  BY <1>1, HoldsNothing DEF SnapshotDue, flushVars
<1>3. silent \subseteq silent'
  BY DEF Request, EnterNew, EnterMove, Go, Say, Address, KickFromAfar, Broadcast, Kick
<1>4. ASSUME NEW q \in Rooms
      PROVE  roster'[q] = roster[q] \/ q \in silent' \/ Holds(todo', Enqueue(q, Snapshot))
  <2> roster \in [Rooms -> SUBSET Clients]
    BY DEF RosterInv, TypeOK
  <2>1. CASE EnterNew
    <3> PICK c \in Clients, r \in Rooms : \E extra \in {<<>>, <<Enqueue(r, Snapshot)>>} :
          /\ roster' = [roster EXCEPT ![r] = @ \cup {c}]
          /\ Take("enter", <<Enqueue(r, Snapshot), Record(r)>> \o extra)
      BY <2>1 DEF EnterNew
    <3> QED
      BY StepsHold DEF Take
  <2>2. CASE EnterMove
    <3> PICK c \in Clients, p \in Rooms, r \in Rooms :
          /\ Shift(c, p, r)
          /\ Take("enter", <<Enqueue(p, Snapshot), Enqueue(r, Snapshot), Record(r)>>)
      BY <2>2 DEF EnterMove
    <3> QED
      BY StepsHold DEF Take, Shift
  <2>3. CASE Go
    <3> PICK c \in Clients, p \in Rooms, r \in Rooms :
          Shift(c, p, r) /\ Take("go", CrossRoom(c, p, r))
      BY <2>3 DEF Go
    <3> QED
      BY StepsHold DEF Take, Shift
  <2>4. CASE Say \/ Address \/ Broadcast
    BY <2>4 DEF Say, Address, Broadcast
  <2>5. CASE Kick
    BY <2>5 DEF Kick
  <2>6. CASE KickFromAfar
    <3> PICK c \in Clients, k \in Clients, p \in Rooms, r \in Rooms :
          /\ roster' = [roster EXCEPT ![r] = @ \ {k}]
          /\ Take("kick", CrossRoom(c, p, r))
      BY <2>6 DEF KickFromAfar
    <3> QED
      BY StepsHold DEF Take
  <2> QED
    BY <2>1, <2>2, <2>3, <2>4, <2>5, <2>6 DEF Request
<1>5. ASSUME NEW q \in Rooms
      PROVE  roster'[q] = roster[q] \/ q \in silent' \/ SnapshotDue(q)'
  BY <1>4 DEF SnapshotDue
<1> QED
  BY <1>1, <1>2, <1>3, <1>5, RosterStep DEF flushVars, clientVars

\* Enqueueing keeps what is in the queues, and a snapshot makes up for kicks.
LEMMA RosterPush ==
    ASSUME TypeOK, NEW q \in Rooms, NEW t \in Task, Push(q, t), NEW r \in Rooms
    PROVE  /\ Holds(queue[r], Snapshot) => Holds(queue'[r], Snapshot)
           /\ q = r /\ t = Snapshot => Holds(queue'[r], Snapshot)
           /\ r \in silent => r \in silent' \/ Holds(queue'[r], Snapshot)
<1>1. queue[r] \in Seq(Task)
  BY DEF TypeOK
<1>2. queue'[r] = IF r = q THEN Append(queue[r], t) ELSE queue[r]
  BY TypePush
<1>3. Holds(queue[r], Snapshot) => Holds(queue'[r], Snapshot)
  BY <1>1, <1>2, HoldsAppend
<1>4. q = r /\ t = Snapshot => Holds(queue'[r], Snapshot)
  BY <1>1, <1>2, HoldsAppend
<1>5. r \in silent /\ r \notin silent' => q = r /\ t = Snapshot
  BY DEF Push
<1> QED
  BY <1>3, <1>4, <1>5

LEMMA RosterLane == RosterInv /\ TypeOK' /\ Lane => RosterInv'
<1> SUFFICES ASSUME RosterInv, TypeOK', Lane PROVE RosterInv'
  OBVIOUS
<1> TypeOK
  BY DEF RosterInv
<1>1. /\ todo # <<>>
      /\ UNCHANGED <<roster, pruned, asked, flushVars, clientVars>>
  BY DEF Lane, LaneEnqueues, LaneRecords
<1>2. /\ Head(todo).room \in Rooms /\ Head(todo).task \in Task
      /\ Head(todo) \in Step /\ todo \in Seq(Step) /\ Tail(todo) \in Seq(Step)
  BY <1>1, TypeHead DEF TypeOK
<1>3. ASSUME NEW r \in Rooms
      PROVE  /\ SnapshotDue(r) => SnapshotDue(r)'
             /\ r \in silent => r \in silent' \/ SnapshotDue(r)'
  <2>1. CASE LaneEnqueues
    <3>1. Push(Head(todo).room, Head(todo).task) /\ todo' = Tail(todo)
      BY <2>1 DEF LaneEnqueues
    <3>2. /\ Holds(queue[r], Snapshot) => Holds(queue'[r], Snapshot)
          /\ Head(todo) = Enqueue(r, Snapshot) => Holds(queue'[r], Snapshot)
          /\ r \in silent => r \in silent' \/ Holds(queue'[r], Snapshot)
      BY <1>2, <3>1, RosterPush DEF Enqueue
    <3>3. Holds(todo, Enqueue(r, Snapshot)) =>
            Holds(todo', Enqueue(r, Snapshot)) \/ Holds(queue'[r], Snapshot)
      BY <1>1, <1>2, <3>1, <3>2, HoldsTail
    <3> QED
      BY <1>1, <3>2, <3>3 DEF SnapshotDue, flushVars
  <2>2. CASE LaneRecords
    <3>1. /\ Head(todo).act = "record" /\ queue' = queue /\ silent' = silent
          /\ \E t : todo' = <<Enqueue(Head(todo).room, AnnounceAfter(t))>> \o Tail(todo)
      BY <2>2 DEF LaneRecords
    <3>2. Head(todo) # Enqueue(r, Snapshot)
      BY <3>1 DEF Enqueue
    <3>3. PICK y : todo' = <<y>> \o Tail(todo)
      BY <3>1
    <3>4. Holds(todo, Enqueue(r, Snapshot)) => Holds(todo', Enqueue(r, Snapshot))
      <4>1. Holds(todo, Enqueue(r, Snapshot)) => Holds(Tail(todo), Enqueue(r, Snapshot))
        BY <1>1, <1>2, <3>2, HoldsTail
      <4> DEFINE S == Step \cup {y}
      <4>2. Tail(todo) \in Seq(S) /\ y \in S
        BY <1>2
      <4> HIDE DEF S
      <4> QED
        BY <3>3, <4>1, <4>2, HoldsCons
    <3> QED
      BY <1>1, <3>1, <3>4 DEF SnapshotDue, flushVars
  <2> QED
    BY <2>1, <2>2 DEF Lane
<1> QED
  BY <1>1, <1>3, RosterStep DEF flushVars, clientVars

LEMMA RosterOthers == RosterInv /\ TypeOK' /\ (Prune \/ Announce \/ AskRefresh) => RosterInv'
<1> SUFFICES ASSUME RosterInv, TypeOK', Prune \/ Announce \/ AskRefresh PROVE RosterInv'
  OBVIOUS
<1> TypeOK
  BY DEF RosterInv
<1>1. CASE Prune
  <2>1. /\ pruned = {} /\ UNCHANGED <<queue, todo, flushVars, clientVars, silent>>
        /\ \A r \in Rooms : roster'[r] = roster[r] \/ r \in pruned'
    BY <1>1 DEF Prune, TypeOK
  <2>2. ASSUME NEW r \in Rooms
        PROVE  /\ roster'[r] = roster[r] \/ SnapshotDue(r)'
               /\ SnapshotDue(r) => SnapshotDue(r)'
    BY <2>1 DEF SnapshotDue, flushVars
  <2> QED
    BY <2>1, <2>2, RosterStep DEF flushVars, clientVars
<1>2. CASE Announce
  <2> PICK q \in pruned : Push(q, Snapshot) /\ pruned' = pruned \ {q}
    BY <1>2 DEF Announce
  <2>1. q \in Rooms /\ Snapshot \in Task
    BY TaskTypes DEF TypeOK
  <2>2. UNCHANGED <<roster, todo, flushVars, clientVars>>
    BY <1>2 DEF Announce, laneVars
  <2>3. ASSUME NEW r \in Rooms
        PROVE  /\ SnapshotDue(r) => SnapshotDue(r)'
               /\ r \in silent => r \in silent' \/ SnapshotDue(r)'
    <3>1. /\ Holds(queue[r], Snapshot) => Holds(queue'[r], Snapshot)
          /\ q = r => Holds(queue'[r], Snapshot)
          /\ r \in silent => r \in silent' \/ Holds(queue'[r], Snapshot)
      BY <2>1, RosterPush
    <3> QED
      BY <2>2, <3>1 DEF SnapshotDue, flushVars
  <2> QED
    BY <2>2, <2>3, RosterStep DEF flushVars, clientVars
<1>3. CASE AskRefresh
  <2>1. /\ queue' = [r \in Rooms |-> Append(queue[r], Plain("refresh"))]
        /\ UNCHANGED <<roster, todo, pruned, flushVars, clientVars, silent>>
    BY <1>3 DEF AskRefresh
  <2>2. ASSUME NEW r \in Rooms PROVE SnapshotDue(r) => SnapshotDue(r)'
    <3>1. queue[r] \in Seq(Task) /\ Plain("refresh") \in Task
      BY TaskTypes DEF TypeOK
    <3>2. Holds(queue[r], Snapshot) => Holds(queue'[r], Snapshot)
      BY <2>1, <3>1, HoldsAppend
    <3> QED
      BY <2>1, <3>2 DEF SnapshotDue, flushVars
  <2> QED
    BY <2>1, <2>2, RosterStep DEF flushVars, clientVars
<1> QED
  BY <1>1, <1>2, <1>3

\* The ticker changes no roster.
LEMMA FlushFrame == Flush => UNCHANGED <<roster, events, seq, todo, pruned, silent>>
  BY DEF Flush, Drain, NextTask, Context, PushRoster, AllPushed, Call, Collect,
         PushOldest, EventsPushed, Done, roomVars, laneVars

LEMMA RosterFlush == RosterInv /\ TypeOK' /\ Flush => RosterInv'
<1> SUFFICES ASSUME RosterInv, TypeOK', Flush PROVE RosterInv'
  OBVIOUS
<1> TypeOK
  BY DEF RosterInv
<1>0. UNCHANGED <<roster, events, seq, todo, pruned, silent>>
  BY FlushFrame
<1>1. CASE Drain
  <2> PICK q \in Turns :
        /\ at' = Stay(q, queue[q])
        /\ batch' = queue[q]
        /\ queue' = [queue EXCEPT ![q] = <<>>]
    BY <1>1 DEF Drain
  <2>1. q \in Rooms
    BY DEF TypeOK, Turns
  <2>2. step = "task" /\ batch = <<>> /\ step' = "task" /\ told' = told
    BY <1>1 DEF Drain, clientVars
  <2>3. ASSUME NEW r \in Rooms PROVE SnapshotDue(r) => SnapshotDue(r)'
    <3>1. CASE r = q /\ Holds(queue[r], Snapshot)
      <4>1. at' = r /\ batch' = queue[r]
        BY <3>1, HoldsNothing DEF Stay
      <4> QED
        BY <3>1, <4>1 DEF SnapshotDue
    <3>2. CASE r # q
      <4>1. queue'[r] = queue[r]
        BY <3>2 DEF TypeOK
      <4> QED
        BY <1>0, <2>2, <4>1, HoldsNothing DEF SnapshotDue
    <3>3. CASE ~ Holds(queue[r], Snapshot)
      BY <1>0, <2>2, <3>3, HoldsNothing DEF SnapshotDue
    <3> QED
      BY <3>1, <3>2, <3>3
  <2> QED
    BY <1>0, <2>2, <2>3
       DEF RosterInv, RosterCovered, SnapshotOnItsWay, SeenIsDue
<1>2. CASE NextTask
  <2>1. /\ step = "task" /\ batch # <<>> /\ at \in Rooms
        /\ task' = Head(batch) /\ batch' = Tail(batch) /\ step' # "push"
        /\ UNCHANGED <<queue, at, told>>
    BY <1>2 DEF NextTask, TypeOK, roomVars, clientVars
  <2>2. ASSUME NEW r \in Rooms, NEW c \in roster[r], SnapshotDue(r)
        PROVE  SnapshotDue(r)' \/ SnapshotOnItsWay(r, c)'
    <3>1. CASE at = r /\ Holds(batch, Snapshot) /\ Head(batch) = Snapshot
      <4>1. Head(batch).kind = "snapshot"
        BY <3>1 DEF Snapshot, Plain
      <4>2. targets' = roster[at] /\ step' = "each" /\ task' = Head(batch)
        BY <1>2, <4>1 DEF NextTask
      <4> QED
        BY <2>1, <3>1, <4>1, <4>2 DEF SnapshotOnItsWay
    <3>2. CASE at = r /\ Holds(batch, Snapshot) /\ Head(batch) # Snapshot
      <4>1. Holds(Tail(batch), Snapshot)
        BY <2>1, <3>2, HoldsTail DEF TypeOK
      <4> QED
        BY <2>1, <3>2, <4>1 DEF SnapshotDue
    <3>3. CASE ~ (at = r /\ Holds(batch, Snapshot))
      BY <1>0, <2>1, <2>2, <3>3 DEF SnapshotDue
    <3> QED
      BY <3>1, <3>2, <3>3
  <2>3. RosterCovered'
    <3> SUFFICES ASSUME NEW r \in Rooms, NEW c \in roster[r] \cap Reachable
                 PROVE  \/ told[c][r] = roster[r] \/ r \in silent
                        \/ SnapshotDue(r)' \/ SnapshotOnItsWay(r, c)'
      BY <1>0, <2>1 DEF RosterCovered
    <3>1. ~ SnapshotOnItsWay(r, c)
      BY <2>1 DEF SnapshotOnItsWay
    <3> QED
      BY <2>2, <3>1 DEF RosterInv, RosterCovered
  <2> QED
    BY <2>1, <2>3 DEF RosterInv, SeenIsDue
<1>3. CASE Context
  <2>1. /\ step = "each" /\ seen' = roster[at] /\ step' = "push"
        /\ UNCHANGED <<queue, at, batch, task, targets, told>>
    BY <1>3 DEF Context, roomVars, clientVars
  <2>2. ASSUME NEW r \in Rooms PROVE SnapshotDue(r)' <=> SnapshotDue(r)
    BY <1>0, <2>1 DEF SnapshotDue
  <2>3. ASSUME NEW r \in Rooms, NEW c \in Clients, SnapshotOnItsWay(r, c)
        PROVE  SnapshotOnItsWay(r, c)'
    BY <1>0, <2>1, <2>3 DEF SnapshotOnItsWay
  <2>4. RosterCovered'
    BY <1>0, <2>1, <2>2, <2>3 DEF RosterInv, RosterCovered, TypeOK
  <2>5. SeenIsDue'
    BY <1>0, <2>1 DEF SeenIsDue
  <2> QED
    BY <2>4, <2>5 DEF RosterInv
<1>4. CASE PushRoster
  <2>1. /\ step = "push" /\ step' = "each" /\ at \in Rooms
        /\ told' = [c \in Reachable |-> IF c = to THEN [told[c] EXCEPT ![at] = seen] ELSE told[c]]
        /\ targets' = targets \ {to}
        /\ UNCHANGED <<queue, at, batch, task, to, seen>>
    BY <1>4 DEF PushRoster, roomVars, TypeOK
  <2>2. ASSUME NEW r \in Rooms PROVE SnapshotDue(r)' <=> SnapshotDue(r)
    BY <1>0, <2>1 DEF SnapshotDue
  <2>3. ASSUME NEW r \in Rooms, NEW c \in roster[r] \cap Reachable
        PROVE  \/ told'[c][r] = roster[r] \/ r \in silent
               \/ SnapshotDue(r) \/ SnapshotOnItsWay(r, c)'
    <3>1. \/ told[c][r] = roster[r] \/ r \in silent
          \/ SnapshotDue(r) \/ SnapshotOnItsWay(r, c)
      BY DEF RosterInv, RosterCovered
    <3>2. CASE c = to /\ r = at
      <4>1. told'[c][r] = seen
        BY <2>1, <3>2 DEF TypeOK
      <4> QED
        BY <2>1, <3>2, <4>1 DEF RosterInv, SeenIsDue
    <3>3. CASE ~ (c = to /\ r = at)
      <4>1. told'[c][r] = told[c][r]
        BY <2>1, <3>3 DEF TypeOK
      <4>2. SnapshotOnItsWay(r, c) => SnapshotOnItsWay(r, c)'
        BY <2>1, <3>3 DEF SnapshotOnItsWay
      <4> QED
        BY <3>1, <4>1, <4>2
    <3> QED
      BY <3>2, <3>3
  <2>4. RosterCovered'
    BY <1>0, <2>2, <2>3 DEF RosterCovered
  <2> QED
    BY <2>1, <2>4 DEF RosterInv, SeenIsDue
<1>5. CASE AllPushed \/ Call \/ EventsPushed
  <2>1. /\ Done /\ UNCHANGED <<offer, clientVars>>
        /\ \A r \in Rooms, c \in Clients : ~ SnapshotOnItsWay(r, c)
    BY <1>5 DEF AllPushed, Call, EventsPushed, SnapshotOnItsWay
  <2>2. /\ step' = "task" /\ at' = Stay(at, batch)
        /\ UNCHANGED <<queue, batch, told>>
    BY <2>1 DEF Done, roomVars, clientVars
  <2>3. ASSUME NEW r \in Rooms PROVE SnapshotDue(r) => SnapshotDue(r)'
    <3>1. at = r /\ Holds(batch, Snapshot) => at' = r
      BY <2>2, HoldsNothing DEF Stay
    <3> QED
      BY <1>0, <2>2, <3>1 DEF SnapshotDue
  <2>4. RosterCovered'
    BY <1>0, <2>1, <2>2, <2>3 DEF RosterInv, RosterCovered, TypeOK
  <2> QED
    BY <2>2, <2>4 DEF RosterInv, SeenIsDue
<1>6. CASE Collect \/ PushOldest
  <2>1. /\ step \notin {"each", "push"} /\ step' = "events"
        /\ UNCHANGED <<queue, at, batch, told>>
    BY <1>6 DEF Collect, PushOldest, roomVars, clientVars
  <2>2. ASSUME NEW r \in Rooms PROVE SnapshotDue(r)' <=> SnapshotDue(r)
    BY <1>0, <2>1 DEF SnapshotDue
  <2>3. RosterCovered'
    BY <1>0, <2>1, <2>2 DEF RosterInv, RosterCovered, SnapshotOnItsWay
  <2> QED
    BY <2>1, <2>3 DEF RosterInv, SeenIsDue
<1> QED
  BY <1>1, <1>2, <1>3, <1>4, <1>5, <1>6 DEF Flush

\* The invariant holds in every state: no step of any task breaks it.
THEOREM RosterInvAlways == Spec => []RosterInv
<1>1. Init => RosterInv
  BY RosterInit
<1>2. RosterInv /\ TypeOK' /\ [Next]_vars => RosterInv'
  <2> SUFFICES ASSUME RosterInv, TypeOK', [Next]_vars PROVE RosterInv'
    OBVIOUS
  <2>1. CASE UNCHANGED vars
    BY <2>1 DEF vars, RosterInv, RosterCovered, SeenIsDue, SnapshotDue, SnapshotOnItsWay, TypeOK
  <2> QED
    BY <2>1, RosterRequest, RosterLane, RosterOthers, RosterFlush DEF Next
<1> QED
  BY <1>1, <1>2, DispatchTypeCorrect, PTL DEF Spec

\* Nobody's view of a room stays old unless a newer one is on its way, for
\* any number of clients, rooms and requests, kicks aside.
THEOREM RosterAlwaysCovered == Spec => []RosterCovered
<1>1. RosterInv => RosterCovered
  BY DEF RosterInv
<1> QED
  BY <1>1, RosterInvAlways, PTL

-----------------------------------------------------------------------------
(* Events                                                                   *)

EventsInv == TypeOK /\ EventsCovered

LEMMA EventsInit == Init => EventsInv
  BY TypeInit DEF Init, EventsInv, EventsCovered

\* EventDue, with the queues' elements instead of their positions.
LaneOwes(r, n) ==
    \E x : Holds(todo, x) /\ x.act = "enqueue" /\ x.room = r /\ Covers(x.task, n)
QueueOwes(r, n) == \E t : Holds(queue[r], t) /\ Covers(t, n)
TickerOwes(r, n) ==
    at = r /\ (\/ \E t : Holds(batch, t) /\ Covers(t, n)
               \/ step = "collect" /\ Covers(task, n))

LEMMA EventDueIsOwed ==
    ASSUME NEW r, NEW n
    PROVE  EventDue(r, n) <=> LaneOwes(r, n) \/ QueueOwes(r, n) \/ TickerOwes(r, n)
  BY DEF EventDue, LaneOwes, QueueOwes, TickerOwes, Holds

\* A step that logs no event, and after which whoever owed one still does.
LEMMA EventsStep ==
    ASSUME EventsInv, TypeOK', UNCHANGED events,
           \A r \in Rooms : offered[r] \subseteq offered'[r],
           \A r \in Rooms, n \in Nat :
                EventDue(r, n) => EventDue(r, n)' \/ n \notin events[r] \/ n \in offered'[r]
    PROVE  EventsInv'
<1> SUFFICES ASSUME NEW r \in Rooms, NEW n \in events[r] \ offered'[r]
             PROVE  EventDue(r, n)'
  BY DEF EventsInv, EventsCovered
<1>1. n \in Nat /\ n \in events[r] \ offered[r]
  BY DEF EventsInv, TypeOK
<1>2. EventDue(r, n)
  BY <1>1 DEF EventsInv, EventsCovered
<1> QED
  BY <1>1, <1>2

LEMMA EventsRequest == EventsInv /\ TypeOK' /\ Request => EventsInv'
<1> SUFFICES ASSUME EventsInv, TypeOK', Request PROVE EventsInv'
  OBVIOUS
<1>1. /\ todo = <<>>
      /\ UNCHANGED <<events, queue, step, at, batch, task, offered>>
  BY DEF Request, EnterNew, EnterMove, Go, Say, Address, KickFromAfar, Broadcast, Kick, Take, flushVars
<1>2. ASSUME NEW r \in Rooms, NEW n \in Nat PROVE EventDue(r, n) => EventDue(r, n)'
  BY <1>1 DEF EventDue
<1> QED
  BY <1>1, <1>2, EventsStep

\* Enqueueing keeps what the queues owe and adds what the new task covers.
LEMMA OwesPush ==
    ASSUME TypeOK, NEW q \in Rooms, NEW t \in Task, Push(q, t),
           NEW r \in Rooms, NEW n \in Nat
    PROVE  /\ QueueOwes(r, n) => QueueOwes(r, n)'
           /\ q = r /\ Covers(t, n) => QueueOwes(r, n)'
<1>1. queue[r] \in Seq(Task)
  BY DEF TypeOK
<1>2. queue'[r] = IF r = q THEN Append(queue[r], t) ELSE queue[r]
  BY TypePush
<1>3. \A x : Holds(queue[r], x) => Holds(queue'[r], x)
  BY <1>1, <1>2, HoldsAppend
<1>4. q = r => Holds(queue'[r], t)
  BY <1>1, <1>2, HoldsAppend
<1> QED
  BY <1>3, <1>4 DEF QueueOwes

LEMMA EventsLane == EventsInv /\ TypeOK' /\ Lane => EventsInv'
<1> SUFFICES ASSUME EventsInv, TypeOK', Lane PROVE EventsInv'
  OBVIOUS
<1> TypeOK
  BY DEF EventsInv
<1>1. todo # <<>> /\ UNCHANGED <<step, at, batch, task, offered>>
  BY DEF Lane, LaneEnqueues, LaneRecords, flushVars
<1>2. /\ Head(todo).room \in Rooms /\ Head(todo).task \in Task
      /\ Head(todo) \in Step /\ todo \in Seq(Step) /\ Tail(todo) \in Seq(Step)
  BY <1>1, TypeHead DEF TypeOK
<1>3. CASE LaneEnqueues
  <2>1. Push(Head(todo).room, Head(todo).task) /\ todo' = Tail(todo) /\ events' = events
    BY <1>3 DEF LaneEnqueues
  <2>2. ASSUME NEW r \in Rooms, NEW n \in Nat PROVE EventDue(r, n) => EventDue(r, n)'
    <3>1. /\ QueueOwes(r, n) => QueueOwes(r, n)'
          /\ Head(todo).room = r /\ Covers(Head(todo).task, n) => QueueOwes(r, n)'
      BY <1>2, <2>1, OwesPush
    <3>2. ASSUME LaneOwes(r, n) PROVE LaneOwes(r, n)' \/ QueueOwes(r, n)'
      <4> PICK x : Holds(todo, x) /\ x.act = "enqueue" /\ x.room = r /\ Covers(x.task, n)
        BY <3>2 DEF LaneOwes
      <4>1. CASE Head(todo) = x
        BY <3>1, <4>1
      <4>2. CASE Head(todo) # x
        <5>1. Holds(todo', x)
          BY <1>1, <1>2, <2>1, <4>2, HoldsTail
        <5> QED
          BY <5>1 DEF LaneOwes
      <4> QED
        BY <4>1, <4>2
    <3>3. TickerOwes(r, n) => TickerOwes(r, n)'
      BY <1>1 DEF TickerOwes
    <3> QED
      BY <3>1, <3>2, <3>3, EventDueIsOwed
         DEF EventDue, LaneOwes, QueueOwes, TickerOwes, Holds
  <2> QED
    BY <1>1, <2>1, <2>2, EventsStep
<1>4. CASE LaneRecords
  <2> DEFINE q == Head(todo).room
             k == seq[q] + 1
             y == Enqueue(q, AnnounceAfter(k))
  <2>1. /\ Head(todo).act = "record" /\ queue' = queue
        /\ todo' = <<y>> \o Tail(todo)
        /\ events' = [events EXCEPT ![q] = PushEvent(@, k)]
    BY <1>4 DEF LaneRecords
  <2>2. k \in Nat \ {0} /\ k - 1 \in Nat /\ k - 1 < k
    <3>1. seq[q] \in Nat
      BY <1>2 DEF TypeOK
    <3> QED
      BY <3>1
  <2>3. y \in Step /\ Covers(y.task, k) /\ y.act = "enqueue" /\ y.room = q
    BY <1>2, <2>2, TaskTypes DEF AnnounceAfter, Enqueue, EventsSince, Covers
  <2> HIDE DEF y
  <2>4. Holds(todo', y) /\ \A x : Holds(Tail(todo), x) => Holds(todo', x)
    BY <1>2, <2>1, <2>3, HoldsCons
  <2>5. ASSUME NEW r \in Rooms, NEW n \in events'[r] \ offered'[r]
        PROVE  EventDue(r, n)'
    <3>1. CASE r = q /\ n = k
      <4>1. \E x : Holds(todo', x) /\ x.act = "enqueue" /\ x.room = r /\ Covers(x.task, n)
        BY <2>3, <2>4, <3>1
      <4> QED
        BY <4>1 DEF EventDue, Holds
    <3>2. CASE ~ (r = q /\ n = k)
      <4>1. n \in events[r] \ offered[r]
        <5> HIDE DEF k, q
        <5> QED
          BY <1>1, <1>2, <2>1, <3>2 DEF TypeOK, PushEvent
      <4>2. LaneOwes(r, n) \/ QueueOwes(r, n) \/ TickerOwes(r, n)
        BY <4>1, EventDueIsOwed DEF EventsInv, EventsCovered
      <4>3. CASE LaneOwes(r, n)
        <5> PICK x : Holds(todo, x) /\ x.act = "enqueue" /\ x.room = r /\ Covers(x.task, n)
          BY <4>3 DEF LaneOwes
        <5>1. Holds(todo', x)
          BY <1>1, <1>2, <2>1, <2>4, HoldsTail
        <5> QED
          BY <5>1 DEF EventDue, Holds
      <4>4. CASE QueueOwes(r, n) \/ TickerOwes(r, n)
        BY <1>1, <2>1, <4>4 DEF QueueOwes, TickerOwes, EventDue, Holds
      <4> QED
        BY <4>2, <4>3, <4>4
    <3> QED
      BY <3>1, <3>2
  <2> QED
    BY <2>5 DEF EventsInv, EventsCovered
<1> QED
  BY <1>3, <1>4 DEF Lane

LEMMA EventsOthers == EventsInv /\ TypeOK' /\ (Prune \/ Announce \/ AskRefresh) => EventsInv'
<1> SUFFICES ASSUME EventsInv, TypeOK', Prune \/ Announce \/ AskRefresh PROVE EventsInv'
  OBVIOUS
<1> TypeOK
  BY DEF EventsInv
<1>1. UNCHANGED <<events, todo, step, at, batch, task, offered>>
  BY DEF Prune, Announce, AskRefresh, laneVars, flushVars
<1>2. ASSUME NEW r \in Rooms, NEW n \in Nat PROVE QueueOwes(r, n) => QueueOwes(r, n)'
  <2>1. CASE Prune
    BY <2>1 DEF Prune, QueueOwes
  <2>2. CASE Announce
    <3> PICK q \in pruned : Push(q, Snapshot)
      BY <2>2 DEF Announce
    <3>1. q \in Rooms /\ Snapshot \in Task
      BY TaskTypes DEF TypeOK
    <3> QED
      BY <3>1, OwesPush
  <2>3. CASE AskRefresh
    <3>1. /\ queue[r] \in Seq(Task) /\ Plain("refresh") \in Task
          /\ queue'[r] = Append(queue[r], Plain("refresh"))
      BY <2>3, TaskTypes DEF TypeOK, AskRefresh
    <3>2. \A x : Holds(queue[r], x) => Holds(queue'[r], x)
      BY <3>1, HoldsAppend
    <3> QED
      BY <3>2 DEF QueueOwes
  <2> QED
    BY <2>1, <2>2, <2>3
<1>3. ASSUME NEW r \in Rooms, NEW n \in Nat PROVE EventDue(r, n) => EventDue(r, n)'
  BY <1>1, <1>2 DEF EventDue, QueueOwes, Holds
<1> QED
  BY <1>1, <1>3, EventsStep

LEMMA EventsFlush == EventsInv /\ TypeOK' /\ Flush => EventsInv'
<1> SUFFICES ASSUME EventsInv, TypeOK', Flush PROVE EventsInv'
  OBVIOUS
<1> TypeOK
  BY DEF EventsInv
<1>0. UNCHANGED <<events, todo>>
  BY FlushFrame
<1>1. CASE Drain
  <2> PICK q \in Turns :
        /\ at' = Stay(q, queue[q])
        /\ batch' = queue[q]
        /\ queue' = [queue EXCEPT ![q] = <<>>]
    BY <1>1 DEF Drain
  <2>1. /\ q \in Rooms /\ step = "task" /\ batch = <<>> /\ offered' = offered
        /\ queue[q] \in Seq(Task)
    BY <1>1 DEF Drain, TypeOK, Turns
  <2>2. ASSUME NEW r \in Rooms, NEW n \in Nat, EventDue(r, n) PROVE EventDue(r, n)'
    <3>1. LaneOwes(r, n) \/ QueueOwes(r, n)
      BY <2>1, <2>2, EventDueIsOwed, HoldsNothing DEF TickerOwes
    <3>2. CASE LaneOwes(r, n)
      BY <1>0, <3>2 DEF LaneOwes, EventDue, Holds
    <3>3. CASE QueueOwes(r, n) /\ r = q
      <4>1. at' = r /\ batch' = queue[r]
        BY <3>3, HoldsNothing DEF Stay, QueueOwes
      <4> QED
        BY <3>3, <4>1 DEF QueueOwes, EventDue, Holds
    <3>4. CASE QueueOwes(r, n) /\ r # q
      <4>1. queue'[r] = queue[r]
        BY <3>4 DEF TypeOK
      <4> QED
        BY <3>4, <4>1 DEF QueueOwes, EventDue, Holds
    <3> QED
      BY <3>1, <3>2, <3>3, <3>4
  <2> QED
    BY <1>0, <2>1, <2>2, EventsStep
<1>2. CASE NextTask
  <2>1. /\ step = "task" /\ batch # <<>> /\ batch \in Seq(Task)
        /\ task' = Head(batch) /\ batch' = Tail(batch)
        /\ Head(batch).kind = "events" => step' = "collect"
        /\ UNCHANGED <<queue, at, offered>>
    BY <1>2 DEF NextTask, TypeOK, roomVars
  <2>2. ASSUME NEW r \in Rooms, NEW n \in Nat, EventDue(r, n) PROVE EventDue(r, n)'
    <3>1. CASE LaneOwes(r, n) \/ QueueOwes(r, n)
      BY <1>0, <2>1, <3>1 DEF LaneOwes, QueueOwes, EventDue, Holds
    <3>2. CASE TickerOwes(r, n)
      <4> PICK t : at = r /\ Holds(batch, t) /\ Covers(t, n)
        BY <2>1, <3>2 DEF TickerOwes
      <4>1. CASE Head(batch) = t
        BY <2>1, <4>1 DEF EventDue, Covers
      <4>2. CASE Head(batch) # t
        <5>1. Holds(batch', t)
          BY <2>1, <4>2, HoldsTail
        <5> QED
          BY <2>1, <5>1 DEF EventDue, Holds
      <4> QED
        BY <4>1, <4>2
    <3> QED
      BY <2>2, <3>1, <3>2, EventDueIsOwed
  <2> QED
    BY <1>0, <2>1, <2>2, EventsStep
<1>3. CASE Context \/ PushRoster \/ PushOldest
  <2>1. /\ step # "collect"
        /\ UNCHANGED <<queue, at, batch, task, offered>>
    BY <1>3 DEF Context, PushRoster, PushOldest, roomVars
  <2>2. ASSUME NEW r \in Rooms, NEW n \in Nat PROVE EventDue(r, n) => EventDue(r, n)'
    BY <1>0, <2>1 DEF EventDue
  <2> QED
    BY <1>0, <2>1, <2>2, EventsStep
<1>4. CASE AllPushed \/ Call \/ EventsPushed
  <2>1. /\ step # "collect" /\ at' = Stay(at, batch)
        /\ UNCHANGED <<queue, batch, offered>>
    BY <1>4 DEF AllPushed, Call, EventsPushed, Done, roomVars
  <2>2. ASSUME NEW r \in Rooms, NEW n \in Nat PROVE EventDue(r, n) => EventDue(r, n)'
    <3>1. batch # <<>> => at' = at
      BY <2>1 DEF Stay
    <3> QED
      BY <1>0, <2>1, <3>1 DEF EventDue
  <2> QED
    BY <1>0, <2>1, <2>2, EventsStep
<1>5. CASE Collect
  <2>1. /\ step = "collect" /\ at \in Rooms
        /\ offered' = [offered EXCEPT ![at] = @ \cup EventsAfter(at, task.since)]
        /\ UNCHANGED <<queue, at, batch, task>>
    BY <1>5 DEF Collect, TypeOK, roomVars
  <2>2. \A r \in Rooms : offered[r] \subseteq offered'[r]
    BY <2>1 DEF TypeOK
  <2>3. ASSUME NEW r \in Rooms, NEW n \in Nat, EventDue(r, n), n \in events[r], n \notin offered'[r]
        PROVE  EventDue(r, n)'
    <3>1. ~ (at = r /\ Covers(task, n))
      BY <2>1, <2>3 DEF TypeOK, EventsAfter, Covers
    <3> QED
      BY <1>0, <2>1, <2>3, <3>1 DEF EventDue
  <2> QED
    BY <1>0, <2>2, <2>3, EventsStep
<1> QED
  BY <1>1, <1>2, <1>3, <1>4, <1>5 DEF Flush

\* No event that is still in a room's log is forgotten, for any number of
\* clients, rooms and requests and any length of the log.
THEOREM EventsAlwaysCovered == Spec => []EventsCovered
<1>1. Init => EventsInv
  BY EventsInit
<1>2. EventsInv /\ TypeOK' /\ [Next]_vars => EventsInv'
  <2> SUFFICES ASSUME EventsInv, TypeOK', [Next]_vars PROVE EventsInv'
    OBVIOUS
  <2>1. CASE UNCHANGED vars
    BY <2>1 DEF vars, EventsInv, EventsCovered, EventDue, TypeOK
  <2> QED
    BY <2>1, EventsRequest, EventsLane, EventsOthers, EventsFlush DEF Next
<1>3. EventsInv => EventsCovered
  BY DEF EventsInv
<1> QED
  BY <1>1, <1>2, <1>3, DispatchTypeCorrect, PTL DEF Spec

-----------------------------------------------------------------------------
(* The order of events                                                      *)

\* The tasks of a queue that call for events, oldest first.
Calls(s) == {t \in {s[i] : i \in DOMAIN s} : t.kind = "events"}
Sorted(s) ==
    \A i, j \in DOMAIN s :
        i <= j /\ s[i].kind = "events" /\ s[j].kind = "events" => s[i].since <= s[j].since

\* The calls for events of r, from the one at hand to the one about to be queued.
TaskCall(r) == IF at = r /\ step \in {"collect", "events"} THEN {task} ELSE {}
BatchCalls(r) == IF at = r THEN Calls(batch) ELSE {}
QueueCalls(r) == Calls(queue[r])
LaneCalls(r) ==
    {todo[i].task : i \in {j \in DOMAIN todo : /\ todo[j].act = "enqueue" /\ todo[j].room = r
                                               /\ todo[j].task.kind = "events"}}
Before(A, B) == \A t \in A, u \in B : t.since <= u.since

\* They stand in line by the numbers they name.
InLine(r) ==
    /\ Sorted(queue[r]) /\ (at = r => Sorted(batch))
    /\ Before(TaskCall(r), BatchCalls(r) \cup QueueCalls(r) \cup LaneCalls(r))
    /\ Before(BatchCalls(r), QueueCalls(r) \cup LaneCalls(r))
    /\ Before(QueueCalls(r), LaneCalls(r))
    /\ \A t \in TaskCall(r) \cup BatchCalls(r) \cup QueueCalls(r) \cup LaneCalls(r) : t.since <= seq[r]

\* What the lane has left calls for events with its next step at most.
Hushed == {x \in Step : x.act = "enqueue" => x.task.kind # "events"}

\* The calls that are still to look at the log of r.
DueCalls(r) ==
    BatchCalls(r) \cup QueueCalls(r) \cup LaneCalls(r)
      \cup (IF step = "collect" THEN TaskCall(r) ELSE {})

\* An event a client was not sent though it was sent a later one is past all calls.
PassedOver ==
    \A c \in Reachable, r \in Rooms : \A m \in sent[c][r], n \in events[r] \ sent[c][r] :
        n < m => \A t \in DueCalls(r) : n <= t.since

\* What is being pushed comes after all its clients were sent, and what is older and
\* not offered was sent or is past the call.
OfferLater ==
    step = "events" =>
        /\ \A c \in targets \cap Reachable : \A n \in offer, m \in sent[c][at] :
              n \in sent[c][at] \/ m < n
        /\ \A n \in events[at], m \in offer : n < m =>
              \/ n <= task.since \/ n \in offer
              \/ \A c \in targets \cap Reachable : n \in sent[c][at]

SentInv ==
    /\ TypeOK
    /\ \A c \in Reachable, r \in Rooms : \A m \in sent[c][r] : m <= seq[r]
    /\ step = "events" => \A n \in offer : n <= seq[at]
    /\ step \in {"collect", "events"} => task.kind = "events"
    /\ todo # <<>> => Tail(todo) \in Seq(Hushed)
    /\ \A r \in Rooms : InLine(r)
    /\ PassedOver
    /\ OfferLater

\* Queues and their calls.
LEMMA CallsNothing == Calls(<<>>) = {} /\ Sorted(<<>>)
  BY DEF Calls, Sorted

LEMMA CallsAppend ==
    ASSUME NEW s \in Seq(Task), NEW y \in Task, Sorted(s),
           y.kind = "events" => \A t \in Calls(s) : t.since <= y.since
    PROVE  /\ Sorted(Append(s, y))
           /\ Calls(Append(s, y)) \subseteq Calls(s) \cup (IF y.kind = "events" THEN {y} ELSE {})
<1> DEFINE z == Append(s, y)
           k == Len(s) + 1
<1>1. /\ Len(s) \in Nat /\ DOMAIN s = 1 .. Len(s) /\ DOMAIN z = 1 .. k
      /\ \A i \in 1 .. Len(s) : z[i] = s[i]
      /\ z[k] = y
  OBVIOUS
<1>2. k \in Nat /\ \A i \in 1 .. k : i = k \/ (i \in 1 .. Len(s) /\ i < k)
  BY <1>1
<1>3. \A i \in 1 .. Len(s) : s[i].kind = "events" => s[i] \in Calls(s)
  BY <1>1 DEF Calls
<1>4. y.since <= y.since
  BY DEF Task
<1> HIDE DEF z, k
<1>5. Calls(z) \subseteq Calls(s) \cup (IF y.kind = "events" THEN {y} ELSE {})
  <2> SUFFICES ASSUME NEW i \in DOMAIN z, z[i].kind = "events"
               PROVE  z[i] \in Calls(s) \cup (IF y.kind = "events" THEN {y} ELSE {})
    BY DEF Calls
  <2> QED BY <1>1, <1>2, <1>3
<1>6. Sorted(z)
  <2> SUFFICES ASSUME NEW i \in DOMAIN z, NEW j \in DOMAIN z, i <= j,
                      z[i].kind = "events", z[j].kind = "events"
               PROVE  z[i].since <= z[j].since
    BY DEF Sorted
  <2>1. CASE j = k /\ i = k
    BY <1>1, <1>4, <2>1
  <2>2. CASE j = k /\ i # k
    BY <1>1, <1>2, <1>3, <2>2
  <2>3. CASE j # k
    <3>1. j \in 1 .. Len(s) /\ j < k
      BY <1>1, <1>2, <2>3
    <3>2. i \in 1 .. Len(s)
      BY <1>1, <1>2, <3>1
    <3> QED BY <1>1, <3>1, <3>2 DEF Sorted
  <2> QED BY <2>1, <2>2, <2>3
<1> QED BY <1>5, <1>6 DEF z

LEMMA CallsTail ==
    ASSUME NEW s \in Seq(Task), s # <<>>, Sorted(s)
    PROVE  /\ Sorted(Tail(s)) /\ Calls(Tail(s)) \subseteq Calls(s)
           /\ Head(s) \in Task /\ Tail(s) \in Seq(Task)
           /\ Head(s).kind = "events" =>
                Head(s) \in Calls(s) /\ \A t \in Calls(Tail(s)) : Head(s).since <= t.since
<1> DEFINE z == Tail(s)
<1>1. /\ Len(s) \in Nat /\ DOMAIN s = 1 .. Len(s) /\ DOMAIN z = 1 .. (Len(s) - 1)
      /\ \A i \in 1 .. (Len(s) - 1) : i + 1 \in 1 .. Len(s) /\ 1 <= i + 1 /\ z[i] = s[i + 1]
      /\ 1 \in 1 .. Len(s) /\ Head(s) = s[1] /\ s[1] \in Task /\ z \in Seq(Task)
  OBVIOUS
<1> HIDE DEF z
<1>2. Calls(z) \subseteq Calls(s)
  BY <1>1 DEF Calls
<1>3. Sorted(z)
  <2> SUFFICES ASSUME NEW i \in DOMAIN z, NEW j \in DOMAIN z, i <= j,
                      z[i].kind = "events", z[j].kind = "events"
               PROVE  z[i].since <= z[j].since
    BY DEF Sorted
  <2>1. i + 1 <= j + 1
    BY <1>1
  <2> QED BY <1>1, <2>1 DEF Sorted
<1>4. Head(s).kind = "events" =>
        Head(s) \in Calls(s) /\ \A t \in Calls(z) : Head(s).since <= t.since
  BY <1>1 DEF Calls, Sorted
<1> QED BY <1>1, <1>2, <1>3, <1>4 DEF z

\* What the lane calls for.
LEMMA HushedLane ==
    ASSUME NEW s \in Seq(Hushed), NEW i \in DOMAIN s
    PROVE  ~ (s[i].act = "enqueue" /\ s[i].task.kind = "events")
  BY DEF Hushed

LEMMA LaneCall ==
    ASSUME SentInv, todo # <<>>, NEW r \in Rooms, NEW t \in LaneCalls(r)
    PROVE  Head(todo).act = "enqueue" /\ Head(todo).room = r /\ Head(todo).task = t /\ t.kind = "events"
<1>1. PICK i \in DOMAIN todo : /\ todo[i].act = "enqueue" /\ todo[i].room = r
                               /\ todo[i].task.kind = "events" /\ todo[i].task = t
  BY DEF LaneCalls
<1>2. todo \in Seq(Step) /\ Tail(todo) \in Seq(Hushed)
  BY DEF SentInv, TypeOK
<1>3. CASE i = 1
  BY <1>1, <1>2, <1>3
<1>4. CASE i # 1
  <2>1. i - 1 \in DOMAIN Tail(todo) /\ Tail(todo)[i - 1] = todo[i]
    BY <1>1, <1>2, <1>4
  <2> QED BY <1>1, <1>2, <2>1, HushedLane
<1> QED BY <1>3, <1>4

LEMMA HushedSteps ==
    ASSUME NEW c \in Clients, NEW p \in Rooms, NEW r \in Rooms
    PROVE  /\ CrossRoom(c, p, r) \in Seq(Hushed)
           /\ <<Record(r)>> \o CrossRoom(c, p, r) \in Seq(Hushed)
           /\ <<>> \o CrossRoom(c, p, r) \in Seq(Hushed)
           /\ <<Enqueue(r, Snapshot), Record(r)>> \o <<>> \in Seq(Hushed)
           /\ <<Enqueue(r, Snapshot), Record(r)>> \o <<Enqueue(r, Snapshot)>> \in Seq(Hushed)
           /\ <<Enqueue(p, Snapshot), Enqueue(r, Snapshot), Record(r)>> \in Seq(Hushed)
           /\ <<Record(r)>> \in Seq(Hushed)
           /\ <<Enqueue(r, Plain("broadcast"))>> \in Seq(Hushed)
           /\ <<>> \in Seq(Hushed)
<1>1. /\ Enqueue(r, Snapshot) \in Hushed /\ Enqueue(p, Snapshot) \in Hushed
      /\ Record(r) \in Hushed /\ Enqueue(r, StateTo(c)) \in Hushed
      /\ Enqueue(r, Plain("broadcast")) \in Hushed
  BY TaskTypes DEF Hushed, Enqueue, Record, Snapshot, Plain, StateTo
<1>2. CrossRoom(c, p, r) \in Seq(Hushed)
  BY <1>1 DEF CrossRoom
<1>3. <<Record(r)>> \in Seq(Hushed) /\ <<>> \in Seq(Hushed)
  BY <1>1
<1>4. /\ <<Record(r)>> \o CrossRoom(c, p, r) \in Seq(Hushed)
      /\ <<>> \o CrossRoom(c, p, r) \in Seq(Hushed)
  BY <1>2, <1>3
<1>5. <<Enqueue(r, Snapshot), Record(r)>> \in Seq(Hushed) /\ <<Enqueue(r, Snapshot)>> \in Seq(Hushed)
  BY <1>1
<1>6. /\ <<Enqueue(r, Snapshot), Record(r)>> \o <<>> \in Seq(Hushed)
      /\ <<Enqueue(r, Snapshot), Record(r)>> \o <<Enqueue(r, Snapshot)>> \in Seq(Hushed)
  BY <1>3, <1>5
<1> QED
  BY <1>1, <1>2, <1>3, <1>4, <1>6

\* No request calls for events at once: it records them first.
LEMMA RequestHushed == Request => todo' \in Seq(Hushed)
<1> SUFFICES ASSUME Request PROVE todo' \in Seq(Hushed)
  OBVIOUS
<1>1. CASE EnterNew
  BY <1>1, HushedSteps DEF EnterNew, Take
<1>2. CASE EnterMove
  BY <1>2, HushedSteps DEF EnterMove, Take
<1>3. CASE Go
  BY <1>3, HushedSteps DEF Go, Take
<1>4. CASE Say
  BY <1>4, HushedSteps DEF Say, Take
<1>5. CASE Address
  <2> PICK c \in Clients, p \in Rooms, r \in Rooms : \E noted \in {<<>>, <<Record(r)>>} :
        Take("address", noted \o CrossRoom(c, p, r))
    BY <1>5 DEF Address
  <2> PICK noted \in {<<>>, <<Record(r)>>} : Take("address", noted \o CrossRoom(c, p, r))
    OBVIOUS
  <2>1. todo' = noted \o CrossRoom(c, p, r)
    BY DEF Take
  <2> QED BY <2>1, HushedSteps
<1>6. CASE KickFromAfar
  BY <1>6, HushedSteps DEF KickFromAfar, Take
<1>7. CASE Broadcast
  BY <1>7, HushedSteps DEF Broadcast, Take
<1>8. CASE Kick
  BY <1>8, HushedSteps DEF Kick, Take
<1> QED BY <1>1, <1>2, <1>3, <1>4, <1>5, <1>6, <1>7, <1>8 DEF Request

\* A step of nobody who logs or sends, after which nobody calls for events who did not.
LEMMA SentStep ==
    ASSUME SentInv, TypeOK', UNCHANGED <<events, seq, sent>>,
           \A r \in Rooms : DueCalls(r)' \subseteq DueCalls(r),
           \A r \in Rooms : InLine(r)',
           todo' # <<>> => Tail(todo') \in Seq(Hushed),
           (step \in {"collect", "events"} => task.kind = "events")',
           (step = "events" => \A n \in offer : n <= seq[at])',
           OfferLater'
    PROVE  SentInv'
<1>1. PassedOver'
  BY DEF SentInv, PassedOver
<1> QED BY <1>1 DEF SentInv

\* Lines that only get shorter.
LEMMA LineKept ==
    ASSUME SentInv, NEW r \in Rooms, UNCHANGED seq, Sorted(queue[r])', (at = r => Sorted(batch))',
           TaskCall(r)' \subseteq TaskCall(r), BatchCalls(r)' \subseteq BatchCalls(r),
           QueueCalls(r)' \subseteq QueueCalls(r), LaneCalls(r)' \subseteq LaneCalls(r)
    PROVE  InLine(r)'
<1>1. InLine(r)
  BY DEF SentInv
<1> QED BY <1>1 DEF InLine, Before

LEMMA SentInit == Init => SentInv
<1> SUFFICES ASSUME Init PROVE SentInv
  OBVIOUS
<1>1. TypeOK
  BY TypeInit
<1>2. \A r \in Rooms : InLine(r)
  <2> TAKE r \in Rooms
  <2>1. /\ TaskCall(r) = {} /\ QueueCalls(r) = {} /\ Sorted(queue[r]) /\ Sorted(batch)
        /\ BatchCalls(r) = {}
    BY CallsNothing DEF Init, TaskCall, QueueCalls, BatchCalls
  <2>2. LaneCalls(r) = {}
    BY DEF Init, LaneCalls
  <2> QED BY <2>1, <2>2 DEF InLine, Before
<1>3. \A c \in Reachable, r \in Rooms : sent[c][r] = {}
  BY DEF Init
<1>4. step = "task" /\ todo = <<>>
  BY DEF Init
<1> QED BY <1>1, <1>2, <1>3, <1>4 DEF SentInv, PassedOver, OfferLater

LEMMA SentRequest == SentInv /\ TypeOK' /\ Request => SentInv'
<1> SUFFICES ASSUME SentInv, TypeOK', Request PROVE SentInv'
  OBVIOUS
<1>1. /\ todo = <<>>
      /\ UNCHANGED <<events, seq, queue, step, at, batch, task, targets, offer, sent>>
  BY DEF Request, EnterNew, EnterMove, Go, Say, Address, KickFromAfar, Broadcast, Kick, Take,
         flushVars, clientVars
<1>2. todo' \in Seq(Hushed)
  BY RequestHushed
<1>3. \A r \in Rooms : LaneCalls(r)' = {}
  BY <1>2, HushedLane DEF LaneCalls
<1>4. todo' # <<>> => Tail(todo') \in Seq(Hushed)
  BY <1>2
<1>5. \A r \in Rooms : /\ TaskCall(r)' = TaskCall(r) /\ BatchCalls(r)' = BatchCalls(r)
                       /\ QueueCalls(r)' = QueueCalls(r)
  BY <1>1 DEF TaskCall, BatchCalls, QueueCalls
<1>6. \A r \in Rooms : InLine(r)'
  <2> TAKE r \in Rooms
  <2>1. Sorted(queue[r])' /\ (at = r => Sorted(batch))'
    BY <1>1 DEF SentInv, InLine
  <2> QED BY <1>1, <1>3, <1>5, <2>1, LineKept
<1>7. \A r \in Rooms : DueCalls(r)' \subseteq DueCalls(r)
  BY <1>1, <1>3, <1>5 DEF DueCalls
<1>8. OfferLater'
  BY <1>1 DEF SentInv, OfferLater
<1>9. /\ (step \in {"collect", "events"} => task.kind = "events")'
      /\ (step = "events" => \A n \in offer : n <= seq[at])'
  BY <1>1 DEF SentInv
<1> QED BY <1>1, <1>4, <1>6, <1>7, <1>8, <1>9, SentStep

\* Enqueueing what follows all calls of the queue.
LEMMA PushSorted ==
    ASSUME SentInv, NEW q \in Rooms, NEW t \in Task, Push(q, t),
           t.kind = "events" => \A u \in QueueCalls(q) : u.since <= t.since
    PROVE  \A r \in Rooms :
              /\ Sorted(queue[r])'
              /\ QueueCalls(r)' \subseteq
                    QueueCalls(r) \cup (IF r = q /\ t.kind = "events" THEN {t} ELSE {})
<1> TAKE r \in Rooms
<1>1. queue[r] \in Seq(Task) /\ Sorted(queue[r])
  BY DEF SentInv, TypeOK, InLine
<1>2. queue'[r] = IF r = q THEN Append(queue[r], t) ELSE queue[r]
  BY TypePush DEF SentInv
<1>3. CASE r = q
  <2>1. /\ Sorted(Append(queue[r], t))
        /\ Calls(Append(queue[r], t)) \subseteq
              Calls(queue[r]) \cup (IF t.kind = "events" THEN {t} ELSE {})
    BY <1>1, <1>3, CallsAppend DEF QueueCalls
  <2> QED BY <1>2, <1>3, <2>1 DEF QueueCalls
<1>4. CASE r # q
  BY <1>1, <1>2, <1>4 DEF QueueCalls
<1> QED BY <1>3, <1>4

LEMMA SentOthers == SentInv /\ TypeOK' /\ (Prune \/ Announce \/ AskRefresh) => SentInv'
<1> SUFFICES ASSUME SentInv, TypeOK', Prune \/ Announce \/ AskRefresh PROVE SentInv'
  OBVIOUS
<1>1. UNCHANGED <<events, seq, todo, step, at, batch, task, targets, offer, sent>>
  BY DEF Prune, Announce, AskRefresh, laneVars, flushVars, clientVars
<1>2. \A r \in Rooms : Sorted(queue[r])' /\ QueueCalls(r)' \subseteq QueueCalls(r)
  <2>1. CASE Prune
    BY <2>1 DEF Prune, QueueCalls, SentInv, InLine
  <2>2. CASE Announce
    <3> PICK q \in pruned : Push(q, Snapshot)
      BY <2>2 DEF Announce
    <3>1. q \in Rooms /\ Snapshot \in Task /\ Snapshot.kind # "events"
      BY TaskTypes DEF SentInv, TypeOK, Snapshot, Plain
    <3> QED BY <3>1, PushSorted
  <2>3. CASE AskRefresh
    <3> TAKE r \in Rooms
    <3> DEFINE t == Plain("refresh")
    <3>1. /\ queue[r] \in Seq(Task) /\ Sorted(queue[r]) /\ t \in Task /\ t.kind # "events"
          /\ queue'[r] = Append(queue[r], t)
      BY <2>3, TaskTypes DEF SentInv, TypeOK, InLine, AskRefresh, Plain
    <3> HIDE DEF t
    <3> QED BY <3>1, CallsAppend DEF QueueCalls
  <2> QED BY <2>1, <2>2, <2>3
<1>3. \A r \in Rooms : /\ TaskCall(r)' = TaskCall(r) /\ BatchCalls(r)' = BatchCalls(r)
                       /\ LaneCalls(r)' = LaneCalls(r)
  BY <1>1 DEF TaskCall, BatchCalls, LaneCalls
<1>4. \A r \in Rooms : InLine(r)'
  <2> TAKE r \in Rooms
  <2>1. (at = r => Sorted(batch))'
    BY <1>1 DEF SentInv, InLine
  <2> QED BY <1>1, <1>2, <1>3, <2>1, LineKept
<1>5. \A r \in Rooms : DueCalls(r)' \subseteq DueCalls(r)
  BY <1>1, <1>2, <1>3 DEF DueCalls
<1>6. OfferLater'
  BY <1>1 DEF SentInv, OfferLater
<1>7. /\ (step \in {"collect", "events"} => task.kind = "events")'
      /\ (step = "events" => \A n \in offer : n <= seq[at])'
      /\ todo' # <<>> => Tail(todo') \in Seq(Hushed)
  BY <1>1 DEF SentInv
<1> QED BY <1>1, <1>4, <1>5, <1>6, <1>7, SentStep

LEMMA SentLane == SentInv /\ TypeOK' /\ Lane => SentInv'
<1> SUFFICES ASSUME SentInv, TypeOK', Lane PROVE SentInv'
  OBVIOUS
<1> TypeOK
  BY DEF SentInv
<1>1. todo # <<>> /\ UNCHANGED <<step, at, batch, task, targets, offer, sent>>
  BY DEF Lane, LaneEnqueues, LaneRecords, flushVars, clientVars
<1>2. /\ Head(todo).room \in Rooms /\ Head(todo).task \in Task
      /\ Head(todo) \in Step /\ todo \in Seq(Step) /\ Tail(todo) \in Seq(Hushed)
  BY <1>1, TypeHead DEF SentInv
<1>3. \A r \in Rooms : TaskCall(r)' = TaskCall(r) /\ BatchCalls(r)' = BatchCalls(r)
  BY <1>1 DEF TaskCall, BatchCalls
<1>4. (step \in {"collect", "events"} => task.kind = "events")'
  BY <1>1 DEF SentInv
<1>5. \A r \in Rooms : (at = r => Sorted(batch))'
  BY <1>1 DEF SentInv, InLine
<1>6. CASE LaneEnqueues
  <2> DEFINE q == Head(todo).room
             t == Head(todo).task
  <2>1. /\ Push(q, t) /\ todo' = Tail(todo) /\ UNCHANGED <<events, seq>>
        /\ Head(todo).act = "enqueue"
    BY <1>6 DEF LaneEnqueues
  <2>2. t.kind = "events" => t \in LaneCalls(q)
    <3>1. 1 \in DOMAIN todo /\ todo[1] = Head(todo)
      BY <1>1, <1>2
    <3> QED BY <2>1, <3>1 DEF LaneCalls
  <2>3. q \in Rooms /\ t \in Task
    BY <1>2
  <2> HIDE DEF q, t
  <2>4. t.kind = "events" => \A u \in QueueCalls(q) : u.since <= t.since
    BY <2>2, <2>3 DEF SentInv, InLine, Before
  <2>5. \A r \in Rooms : Sorted(queue[r])' /\ QueueCalls(r)' \subseteq QueueCalls(r) \cup LaneCalls(r)
    BY <2>1, <2>2, <2>3, <2>4, PushSorted
  <2>6. \A r \in Rooms : LaneCalls(r)' = {}
    BY <1>2, <2>1, HushedLane DEF LaneCalls
  <2>7. \A r \in Rooms : InLine(r)'
    <3> TAKE r \in Rooms
    <3>1. InLine(r)
      BY DEF SentInv
    <3>2. Before(TaskCall(r)', BatchCalls(r)' \cup QueueCalls(r)' \cup LaneCalls(r)')
      BY <1>3, <2>5, <2>6, <3>1 DEF InLine, Before
    <3>3. Before(BatchCalls(r)', QueueCalls(r)' \cup LaneCalls(r)')
      BY <1>3, <2>5, <2>6, <3>1 DEF InLine, Before
    <3>4. Before(QueueCalls(r)', LaneCalls(r)')
      BY <2>6 DEF Before
    <3>5. \A u \in TaskCall(r)' \cup BatchCalls(r)' \cup QueueCalls(r)' \cup LaneCalls(r)' :
              u.since <= seq'[r]
      BY <1>3, <2>1, <2>5, <2>6, <3>1 DEF InLine
    <3> QED BY <1>5, <2>5, <3>2, <3>3, <3>4, <3>5 DEF InLine, Before
  <2>8. \A r \in Rooms : DueCalls(r)' \subseteq DueCalls(r)
    BY <1>1, <1>3, <2>5, <2>6 DEF DueCalls
  <2>9. OfferLater' /\ (step = "events" => \A n \in offer : n <= seq[at])'
    BY <1>1, <2>1 DEF SentInv, OfferLater
  <2>10. todo' # <<>> => Tail(todo') \in Seq(Hushed)
    BY <1>2, <2>1
  <2> QED BY <1>1, <1>4, <2>1, <2>7, <2>8, <2>9, <2>10, SentStep
<1>7. CASE LaneRecords
  <2> DEFINE q == Head(todo).room
             k == seq[q] + 1
             t == AnnounceAfter(k)
             y == Enqueue(q, t)
  <2>1. /\ Head(todo).act = "record" /\ queue' = queue
        /\ todo' = <<y>> \o Tail(todo)
        /\ events' = [events EXCEPT ![q] = PushEvent(@, k)]
        /\ seq' = [seq EXCEPT ![q] = k]
    BY <1>7 DEF LaneRecords
  <2>2. q \in Rooms /\ seq[q] \in Nat /\ k - 1 = seq[q] /\ seq[q] < k /\ k \in Nat
    <3>1. seq[q] \in Nat
      BY <1>2 DEF TypeOK
    <3> QED BY <1>2, <3>1
  <2>3. t \in Task /\ t.since = seq[q] /\ t.kind = "events"
    BY <2>2, TaskTypes DEF AnnounceAfter, EventsSince
  <2>4. y \in Step /\ y.act = "enqueue" /\ y.room = q /\ y.task = t
    BY <2>2, <2>3, TaskTypes DEF Enqueue
  <2> HIDE DEF y, t, k, q
  <2>5. Tail(todo') = Tail(todo) /\ \A i \in DOMAIN todo' : i = 1 \/ i - 1 \in DOMAIN Tail(todo)
    <3>1. Tail(todo) \in Seq(Step)
      BY <1>2
    <3> QED BY <2>1, <2>4, <3>1
  <2>6. /\ todo'[1] = y
        /\ \A i \in DOMAIN todo' : i # 1 => todo'[i] = Tail(todo)[i - 1]
    <3>1. Tail(todo) \in Seq(Step)
      BY <1>2
    <3> QED BY <2>1, <2>4, <3>1
  <2>7. \A r \in Rooms : LaneCalls(r) = {} /\ LaneCalls(r)' \subseteq (IF r = q THEN {t} ELSE {})
    <3> TAKE r \in Rooms
    <3>1. LaneCalls(r) = {}
      BY <1>1, <2>1, LaneCall
    <3>2. ASSUME NEW u \in LaneCalls(r)' PROVE u \in (IF r = q THEN {t} ELSE {})
      <4>1. PICK i \in DOMAIN todo' : /\ todo'[i].act = "enqueue" /\ todo'[i].room = r
                                      /\ todo'[i].task.kind = "events" /\ todo'[i].task = u
        BY <3>2 DEF LaneCalls
      <4>2. i = 1
        BY <1>2, <2>5, <2>6, <4>1, HushedLane
      <4> QED BY <2>4, <2>6, <4>1, <4>2
    <3> QED BY <3>1, <3>2
  <2>8. \A r \in Rooms : QueueCalls(r)' = QueueCalls(r) /\ Sorted(queue[r])'
    BY <2>1 DEF QueueCalls, SentInv, InLine
  <2>9. \A r \in Rooms : seq[r] \in Nat /\ seq'[r] \in Nat /\ seq[r] <= seq'[r] /\ (r = q => seq'[r] = k)
    BY <2>1, <2>2 DEF TypeOK
  <2>10. \A r \in Rooms : \A u \in TaskCall(r) \cup BatchCalls(r) \cup QueueCalls(r) :
            u.since \in Nat /\ u.since <= seq[r]
    <3> TAKE r \in Rooms
    <3>1. \A s \in Seq(Task) : Calls(s) \subseteq Task
      BY DEF Calls
    <3>2. TaskCall(r) \subseteq Task /\ BatchCalls(r) \subseteq Task /\ QueueCalls(r) \subseteq Task
      BY <3>1 DEF TypeOK, TaskCall, BatchCalls, QueueCalls
    <3> QED BY <3>2 DEF SentInv, InLine, Task
  <2>11. \A r \in Rooms : InLine(r)'
    <3> TAKE r \in Rooms
    <3>1. InLine(r)
      BY DEF SentInv
    <3>2. \A u \in TaskCall(r) \cup BatchCalls(r) \cup QueueCalls(r), v \in LaneCalls(r)' : u.since <= v.since
      BY <2>3, <2>7, <2>10
    <3>3. \A u \in TaskCall(r)' \cup BatchCalls(r)' \cup QueueCalls(r)' \cup LaneCalls(r)' :
              u.since <= seq'[r]
      <4>1. ASSUME NEW u \in TaskCall(r) \cup BatchCalls(r) \cup QueueCalls(r) PROVE u.since <= seq'[r]
        BY <2>9, <2>10
      <4>2. ASSUME NEW u \in LaneCalls(r)' PROVE u.since <= seq'[r]
        BY <2>2, <2>3, <2>7, <2>9
      <4> QED BY <1>3, <2>8, <4>1, <4>2
    <3>4. /\ Before(TaskCall(r)', BatchCalls(r)' \cup QueueCalls(r)' \cup LaneCalls(r)')
          /\ Before(BatchCalls(r)', QueueCalls(r)' \cup LaneCalls(r)')
          /\ Before(QueueCalls(r)', LaneCalls(r)')
      BY <1>3, <2>8, <3>1, <3>2 DEF InLine, Before
    <3> QED BY <1>5, <2>8, <3>3, <3>4 DEF InLine, Before
  <2>12. \A r \in Rooms : \A n \in events'[r] : n \in events[r] \/ (r = q /\ n = k)
    BY <2>1, <2>2 DEF TypeOK, PushEvent
  <2>13. \A c \in Reachable, r \in Rooms : sent[c][r] \subseteq Nat /\ events[r] \subseteq Nat
    BY DEF TypeOK
  <2>14. PassedOver'
    <3> SUFFICES ASSUME NEW c \in Reachable, NEW r \in Rooms, NEW m \in sent[c][r],
                        NEW n \in events'[r] \ sent[c][r], n < m, NEW u \in DueCalls(r)'
                 PROVE  n <= u.since
      BY <1>1 DEF PassedOver
    <3>1. m <= seq[r] /\ m \in Nat
      BY <2>13 DEF SentInv
    <3>2. n \in events[r] /\ n \in Nat
      BY <2>2, <2>9, <2>12, <2>13, <3>1
    <3>3. CASE u \in DueCalls(r)
      BY <3>2, <3>3 DEF SentInv, PassedOver
    <3>4. CASE u \notin DueCalls(r)
      <4>1. u = t /\ r = q
        BY <1>1, <1>3, <2>7, <2>8, <3>4 DEF DueCalls
      <4> QED BY <2>3, <2>9, <3>1, <3>2, <4>1
    <3> QED BY <3>3, <3>4
  <2>15. step = "events" => at \in Rooms /\ offer \subseteq Nat /\ \A n \in offer : n <= seq[at]
    BY DEF TypeOK, SentInv
  <2>16. OfferLater'
    <3> SUFFICES ASSUME step = "events" PROVE OfferLater'
      BY <1>1 DEF OfferLater
    <3>1. \A n \in events'[at], m \in offer : n < m => n \in events[at]
      BY <2>2, <2>9, <2>12, <2>13, <2>15
    <3> QED BY <1>1, <3>1 DEF SentInv, OfferLater
  <2>17. (step = "events" => \A n \in offer : n <= seq[at])'
    BY <1>1, <2>9, <2>15
  <2>18. \A c \in Reachable, r \in Rooms : \A m \in sent'[c][r] : m <= seq'[r]
    <3> SUFFICES ASSUME NEW c \in Reachable, NEW r \in Rooms, NEW m \in sent[c][r]
                 PROVE  m <= seq'[r]
      BY <1>1
    <3>1. m <= seq[r] /\ m \in Nat
      BY <2>13 DEF SentInv
    <3> QED BY <2>9, <3>1
  <2>19. todo' # <<>> => Tail(todo') \in Seq(Hushed)
    BY <1>2, <2>5
  <2> QED BY <1>4, <2>11, <2>14, <2>16, <2>17, <2>18, <2>19 DEF SentInv
<1> QED BY <1>6, <1>7 DEF Lane

\* A step that only gives up the task at hand, or goes on with it.
LEMMA SentOnward ==
    ASSUME SentInv, TypeOK', UNCHANGED <<events, seq, todo, queue, sent, batch>>,
           at' = at \/ (batch = <<>> /\ at' = None),
           step' \notin {"collect", "events"}
    PROVE  SentInv'
<1>1. \A r \in Rooms : /\ TaskCall(r)' = {} /\ BatchCalls(r)' \subseteq BatchCalls(r)
                       /\ QueueCalls(r)' = QueueCalls(r) /\ LaneCalls(r)' = LaneCalls(r)
  BY DispatchAssumption DEF TaskCall, BatchCalls, QueueCalls, LaneCalls
<1>2. \A r \in Rooms : InLine(r)'
  <2> TAKE r \in Rooms
  <2>1. Sorted(queue[r])' /\ (at = r => Sorted(batch))'
    BY DispatchAssumption DEF SentInv, InLine
  <2> QED BY <1>1, <2>1, LineKept
<1>3. \A r \in Rooms : DueCalls(r)' \subseteq DueCalls(r)
  BY <1>1 DEF DueCalls
<1>4. OfferLater' /\ (todo' # <<>> => Tail(todo') \in Seq(Hushed))
  BY DEF SentInv, OfferLater
<1> QED BY <1>2, <1>3, <1>4, SentStep

LEMMA SentDrain == SentInv /\ TypeOK' /\ Drain => SentInv'
<1> SUFFICES ASSUME SentInv, TypeOK', Drain PROVE SentInv'
  OBVIOUS
<1> PICK q \in Turns :
      /\ at' = Stay(q, queue[q])
      /\ batch' = queue[q]
      /\ queue' = [queue EXCEPT ![q] = <<>>]
  BY DEF Drain
<1>1. /\ q \in Rooms /\ step = "task" /\ step' = "task" /\ batch = <<>>
      /\ UNCHANGED <<events, seq, todo, sent>>
  BY DEF Drain, Turns, SentInv, TypeOK, laneVars, clientVars
<1>2. \A r \in Rooms : at' = r => r = q
  BY DispatchAssumption DEF Stay
<1>3. \A r \in Rooms : queue'[r] = IF r = q THEN <<>> ELSE queue[r]
  BY DEF SentInv, TypeOK
<1>4. \A r \in Rooms :
        /\ TaskCall(r)' = {} /\ LaneCalls(r)' = LaneCalls(r)
        /\ BatchCalls(r)' \subseteq (IF r = q THEN QueueCalls(r) ELSE {})
        /\ QueueCalls(r)' = (IF r = q THEN {} ELSE QueueCalls(r))
  BY <1>1, <1>2, <1>3, CallsNothing DEF TaskCall, LaneCalls, BatchCalls, QueueCalls
<1>5. \A r \in Rooms : InLine(r)'
  <2> TAKE r \in Rooms
  <2>1. InLine(r) /\ Sorted(queue[q])
    BY <1>1 DEF SentInv, InLine
  <2>2. Sorted(queue[r])' /\ (at = r => Sorted(batch))'
    BY <1>2, <1>3, <2>1, CallsNothing DEF InLine
  <2> QED BY <1>1, <1>4, <2>1, <2>2 DEF InLine, Before
<1>6. \A r \in Rooms : DueCalls(r)' \subseteq DueCalls(r)
  BY <1>1, <1>4 DEF DueCalls
<1>7. OfferLater' /\ (todo' # <<>> => Tail(todo') \in Seq(Hushed))
  BY <1>1 DEF SentInv, OfferLater
<1> QED BY <1>1, <1>5, <1>6, <1>7, SentStep

LEMMA SentNext == SentInv /\ TypeOK' /\ NextTask => SentInv'
<1> SUFFICES ASSUME SentInv, TypeOK', NextTask PROVE SentInv'
  OBVIOUS
<1>1. /\ step = "task" /\ batch # <<>> /\ batch \in Seq(Task) /\ at \in Rooms
      /\ task' = Head(batch) /\ batch' = Tail(batch)
      /\ step' \in {"each", "collect", "call"}
      /\ (step' = "collect" => Head(batch).kind = "events")
      /\ UNCHANGED <<events, seq, todo, queue, at, sent>>
  BY DEF NextTask, SentInv, TypeOK, roomVars, laneVars, clientVars
<1>2. /\ Sorted(Tail(batch)) /\ Calls(Tail(batch)) \subseteq Calls(batch)
      /\ Head(batch).kind = "events" =>
            Head(batch) \in Calls(batch) /\ \A t \in Calls(Tail(batch)) : Head(batch).since <= t.since
  BY <1>1, CallsTail DEF SentInv, InLine
<1>3. \A r \in Rooms : /\ QueueCalls(r)' = QueueCalls(r) /\ LaneCalls(r)' = LaneCalls(r)
                       /\ BatchCalls(r)' = (IF at = r THEN Calls(Tail(batch)) ELSE {})
                       /\ BatchCalls(r) = (IF at = r THEN Calls(batch) ELSE {})
                       /\ TaskCall(r)' \subseteq
                            (IF at = r /\ Head(batch).kind = "events" THEN {Head(batch)} ELSE {})
  BY <1>1 DEF QueueCalls, LaneCalls, BatchCalls, TaskCall
<1>4. \A r \in Rooms : BatchCalls(r)' \subseteq BatchCalls(r) /\ TaskCall(r)' \subseteq BatchCalls(r)
  BY <1>2, <1>3
<1>5. \A r \in Rooms : InLine(r)'
  <2> TAKE r \in Rooms
  <2>1. InLine(r)
    BY DEF SentInv
  <2>2. Before(TaskCall(r)', BatchCalls(r)')
    BY <1>2, <1>3 DEF Before
  <2>3. Before(TaskCall(r)', QueueCalls(r)' \cup LaneCalls(r)')
    BY <1>3, <1>4, <2>1 DEF InLine, Before
  <2>4. Sorted(queue[r])' /\ (at = r => Sorted(batch))'
    BY <1>1, <1>2, <2>1 DEF InLine
  <2>5. Before(BatchCalls(r)', QueueCalls(r)' \cup LaneCalls(r)') /\ Before(QueueCalls(r)', LaneCalls(r)')
    BY <1>3, <1>4, <2>1 DEF InLine, Before
  <2>6. \A t \in TaskCall(r)' \cup BatchCalls(r)' \cup QueueCalls(r)' \cup LaneCalls(r)' : t.since <= seq'[r]
    BY <1>1, <1>3, <1>4, <2>1 DEF InLine
  <2> QED BY <2>2, <2>3, <2>4, <2>5, <2>6 DEF InLine, Before
<1>6. \A r \in Rooms : DueCalls(r)' \subseteq DueCalls(r)
  BY <1>3, <1>4 DEF DueCalls
<1>7. OfferLater' /\ (todo' # <<>> => Tail(todo') \in Seq(Hushed))
  BY <1>1 DEF SentInv, OfferLater
<1> QED BY <1>1, <1>5, <1>6, <1>7, SentStep

\* The log is read: what the clients were not sent of it is later than all they were.
LEMMA SentCollect == SentInv /\ TypeOK' /\ Collect => SentInv'
<1> SUFFICES ASSUME SentInv, TypeOK', Collect PROVE SentInv'
  OBVIOUS
<1>1. /\ step = "collect" /\ step' = "events" /\ at \in Rooms /\ task.kind = "events"
      /\ offer' = {m \in events[at] : m > task.since}
      /\ UNCHANGED <<events, seq, todo, queue, at, batch, task, targets, sent>>
  BY DEF Collect, SentInv, TypeOK, EventsAfter, roomVars, laneVars, clientVars
<1>2. \A r \in Rooms : /\ TaskCall(r)' = TaskCall(r) /\ BatchCalls(r)' = BatchCalls(r)
                       /\ QueueCalls(r)' = QueueCalls(r) /\ LaneCalls(r)' = LaneCalls(r)
  BY <1>1 DEF TaskCall, BatchCalls, QueueCalls, LaneCalls
<1>3. \A r \in Rooms : InLine(r)'
  <2> TAKE r \in Rooms
  <2>1. Sorted(queue[r])' /\ (at = r => Sorted(batch))'
    BY <1>1 DEF SentInv, InLine
  <2> QED BY <1>1, <1>2, <2>1, LineKept
<1>4. \A r \in Rooms : DueCalls(r)' \subseteq DueCalls(r)
  BY <1>1, <1>2 DEF DueCalls
<1>5. task \in DueCalls(at)
  BY <1>1 DEF DueCalls, TaskCall
<1>6. /\ events[at] \subseteq Nat /\ seq[at] \in Nat /\ task.since \in Nat
      /\ \A c \in Reachable : sent[c][at] \subseteq Nat
      /\ \A n \in events[at] : n <= seq[at]
  BY <1>1 DEF SentInv, TypeOK, Task
<1>7. OfferLater'
  <2>1. ASSUME NEW c \in targets \cap Reachable, NEW n \in offer', NEW m \in sent[c][at],
               n \notin sent[c][at]
        PROVE  m < n
    <3>1. n \in events[at] /\ n \in Nat /\ m \in Nat /\ ~ (n <= task.since)
      BY <1>1, <1>6
    <3>2. ~ (n < m)
      BY <1>1, <1>5, <2>1, <3>1 DEF SentInv, PassedOver
    <3>3. m # n
      BY <2>1
    <3> QED BY <3>1, <3>2, <3>3
  <2>2. \A n \in events[at] : n <= task.since \/ n \in offer'
    BY <1>1, <1>6
  <2> QED BY <1>1, <2>1, <2>2 DEF OfferLater
<1>8. \A n \in offer' : n <= seq'[at']
  BY <1>1, <1>6
<1>9. todo' # <<>> => Tail(todo') \in Seq(Hushed)
  BY <1>1 DEF SentInv
<1> QED BY <1>1, <1>3, <1>4, <1>7, <1>8, <1>9, SentStep

\* What a push of the oldest event does to who was sent what.
LEMMA PushSent ==
    ASSUME SentInv, PushOldest
    PROVE  \E n \in offer :
              /\ \A m \in offer : n <= m
              /\ offer' = offer \ {n}
              /\ \A c \in Reachable, r \in Rooms :
                    sent'[c][r] = IF r = at /\ c \in targets THEN sent[c][r] \cup {n} ELSE sent[c][r]
<1> PICK n \in offer :
      /\ \A m \in offer : n <= m
      /\ sent' = [c \in Reachable |-> IF c \in targets
                                       THEN [sent[c] EXCEPT ![at] = @ \cup {n}] ELSE sent[c]]
      /\ offer' = offer \ {n}
  BY DEF PushOldest
<1>1. \A c \in Reachable : sent[c] \in [Rooms -> SUBSET Nat]
  BY DEF SentInv, TypeOK
<1>2. \A c \in Reachable, r \in Rooms :
        sent'[c][r] = IF r = at /\ c \in targets THEN sent[c][r] \cup {n} ELSE sent[c][r]
  BY <1>1
<1> QED BY <1>2

\* It is later than all that any of them was sent before.
LEMMA SentPush ==
    ASSUME SentInv, TypeOK', PushOldest
    PROVE  /\ SentInv'
           /\ \A c \in Reachable, r \in Rooms :
                 \A n \in sent'[c][r] \ sent[c][r], m \in sent[c][r] : m < n
<1> PICK n \in offer :
        /\ \A m \in offer : n <= m
        /\ offer' = offer \ {n}
        /\ \A c \in Reachable, r \in Rooms :
              sent'[c][r] = IF r = at /\ c \in targets THEN sent[c][r] \cup {n} ELSE sent[c][r]
  BY PushSent
<1>1. /\ step = "events" /\ step' = "events" /\ at \in Rooms /\ task.kind = "events"
      /\ UNCHANGED <<events, seq, todo, queue, at, batch, task, targets>>
  BY DEF PushOldest, SentInv, TypeOK, roomVars, laneVars
<1>2. /\ offer \subseteq Nat /\ n \in Nat /\ n <= seq[at] /\ task.since \in Nat
      /\ \A c \in Reachable, r \in Rooms : sent[c][r] \subseteq Nat /\ events[r] \subseteq Nat
  BY <1>1 DEF SentInv, TypeOK, Task
<1>3. \A c \in Reachable, r \in Rooms :
        \A k \in sent'[c][r] \ sent[c][r], m \in sent[c][r] : m < k
  <2> SUFFICES ASSUME NEW c \in Reachable, NEW r \in Rooms,
                      NEW k \in sent'[c][r] \ sent[c][r], NEW m \in sent[c][r]
               PROVE  m < k
    OBVIOUS
  <2>1. k = n /\ r = at /\ c \in targets
    OBVIOUS
  <2> QED BY <1>1, <2>1 DEF SentInv, OfferLater
<1>4. \A r \in Rooms : /\ TaskCall(r)' = TaskCall(r) /\ BatchCalls(r)' = BatchCalls(r)
                       /\ QueueCalls(r)' = QueueCalls(r) /\ LaneCalls(r)' = LaneCalls(r)
                       /\ DueCalls(r)' = DueCalls(r)
  BY <1>1 DEF TaskCall, BatchCalls, QueueCalls, LaneCalls, DueCalls
<1>5. \A r \in Rooms : InLine(r)'
  <2> TAKE r \in Rooms
  <2>1. Sorted(queue[r])' /\ (at = r => Sorted(batch))'
    BY <1>1 DEF SentInv, InLine
  <2> QED BY <1>1, <1>4, <2>1, LineKept
<1>6. PassedOver'
  <2> SUFFICES ASSUME NEW c \in Reachable, NEW r \in Rooms, NEW m \in sent'[c][r],
                      NEW k \in events[r] \ sent'[c][r], k < m, NEW t \in DueCalls(r)
               PROVE  k <= t.since
    BY <1>1, <1>4 DEF PassedOver
  <2>1. k \notin sent[c][r] /\ k \in Nat
    BY <1>2
  <2>2. CASE m \in sent[c][r]
    BY <2>1, <2>2 DEF SentInv, PassedOver
  <2>3. CASE m \notin sent[c][r]
    <3>1. m = n /\ r = at /\ c \in targets
      BY <2>3
    <3>2. k \notin offer
      BY <1>2, <2>1, <3>1
    <3>3. k <= task.since
      <4>1. \/ k <= task.since \/ k \in offer
            \/ \A x \in targets \cap Reachable : k \in sent[x][at]
        BY <1>1, <3>1 DEF SentInv, OfferLater
      <4> QED BY <2>1, <3>1, <3>2, <4>1
    <3>4. t \in BatchCalls(r) \cup QueueCalls(r) \cup LaneCalls(r) /\ task \in TaskCall(r)
      BY <1>1, <3>1 DEF DueCalls, TaskCall
    <3>5. task.since <= t.since
      BY <3>4 DEF SentInv, InLine, Before
    <3>6. t \in Task
      <4>1. \A s \in Seq(Task) : Calls(s) \subseteq Task
        BY DEF Calls
      <4>2. \A i \in DOMAIN todo : todo[i].task \in Task
        <5>1. todo \in Seq(Step) /\ \A x \in Step : x.task \in Task
          BY DEF SentInv, TypeOK, Step
        <5> HIDE DEF Step
        <5> QED BY <5>1
      <4> QED BY <3>4, <4>1, <4>2 DEF SentInv, TypeOK, BatchCalls, QueueCalls, LaneCalls
    <3> QED BY <1>2, <2>1, <3>3, <3>5, <3>6 DEF Task
  <2> QED BY <2>2, <2>3
<1>7. OfferLater'
  <2>1. ASSUME NEW c \in targets \cap Reachable, NEW k \in offer \ {n}, NEW m \in sent'[c][at]
        PROVE  k \in sent'[c][at] \/ m < k
    <3>1. k \in Nat /\ n <= k /\ n # k
      BY <1>2
    <3>2. CASE m = n
      BY <1>2, <3>1, <3>2
    <3>3. CASE m # n
      <4>1. m \in sent[c][at]
        BY <1>1, <3>3
      <4>2. k \in sent[c][at] \/ m < k
        BY <1>1, <4>1 DEF SentInv, OfferLater
      <4>3. sent[c][at] \subseteq sent'[c][at]
        BY <1>1
      <4> QED BY <4>2, <4>3
    <3> QED BY <3>2, <3>3
  <2>2. ASSUME NEW k \in events[at], NEW m \in offer \ {n}, k < m
        PROVE  \/ k <= task.since \/ k \in offer \ {n}
               \/ \A c \in targets \cap Reachable : k \in sent'[c][at]
    <3>1. \/ k <= task.since \/ k \in offer
          \/ \A c \in targets \cap Reachable : k \in sent[c][at]
      BY <1>1, <2>2 DEF SentInv, OfferLater
    <3> QED BY <1>1, <3>1
  <2> QED BY <1>1, <2>1, <2>2 DEF OfferLater
<1>8. \A c \in Reachable, r \in Rooms : \A m \in sent'[c][r] : m <= seq'[r]
  <2> SUFFICES ASSUME NEW c \in Reachable, NEW r \in Rooms, NEW m \in sent'[c][r]
               PROVE  m <= seq[r]
    BY <1>1
  <2>1. m \in sent[c][r] \/ (m = n /\ r = at)
    OBVIOUS
  <2> QED BY <1>2, <2>1 DEF SentInv
<1>9. /\ \A m \in offer' : m <= seq'[at']
      /\ todo' # <<>> => Tail(todo') \in Seq(Hushed)
  BY <1>1 DEF SentInv
<1> QED BY <1>1, <1>3, <1>5, <1>6, <1>7, <1>8, <1>9 DEF SentInv

LEMMA SentFlush == SentInv /\ TypeOK' /\ Flush => SentInv'
<1> SUFFICES ASSUME SentInv, TypeOK', Flush PROVE SentInv'
  OBVIOUS
<1>1. CASE Context \/ PushRoster
  <2>1. /\ UNCHANGED <<events, seq, todo, queue, at, batch, sent>>
        /\ step' \notin {"collect", "events"}
    BY <1>1 DEF Context, PushRoster, roomVars, laneVars, clientVars
  <2> QED BY <2>1, SentOnward
<1>2. CASE AllPushed \/ Call \/ EventsPushed
  <2>1. /\ UNCHANGED <<events, seq, todo, queue, batch, sent>>
        /\ at' = Stay(at, batch) /\ step' = "task"
    BY <1>2 DEF AllPushed, Call, EventsPushed, Done, roomVars, laneVars, clientVars
  <2>2. at' = at \/ (batch = <<>> /\ at' = None)
    BY <2>1 DEF Stay
  <2> QED BY <2>1, <2>2, SentOnward
<1> QED BY <1>1, <1>2, SentDrain, SentNext, SentCollect, SentPush DEF Flush

\* For any clients, rooms, requests and log lengths: a client that every push reaches
\* is sent the events of a room in the order of their numbers.
THEOREM EventsInOrder == Spec => SentInOrder
<1> DEFINE Later == \A c \in Reachable, r \in Rooms :
                        \A n \in sent'[c][r] \ sent[c][r], m \in sent[c][r] : m < n
<1>1. SentInv /\ TypeOK' /\ [Next]_vars => SentInv' /\ [Later]_vars
  <2> SUFFICES ASSUME SentInv, TypeOK', [Next]_vars PROVE SentInv' /\ (Later \/ UNCHANGED vars)
    OBVIOUS
  <2>1. CASE UNCHANGED vars
    <3>1. /\ UNCHANGED <<events, seq, todo, queue, step, at, batch, task, targets, offer, sent>>
      BY <2>1 DEF vars
    <3>2. \A r \in Rooms : /\ TaskCall(r)' = TaskCall(r) /\ BatchCalls(r)' = BatchCalls(r)
                           /\ QueueCalls(r)' = QueueCalls(r) /\ LaneCalls(r)' = LaneCalls(r)
                           /\ DueCalls(r)' = DueCalls(r)
      BY <3>1 DEF TaskCall, BatchCalls, QueueCalls, LaneCalls, DueCalls
    <3>3. \A r \in Rooms : InLine(r)'
      <4> TAKE r \in Rooms
      <4>1. Sorted(queue[r])' /\ (at = r => Sorted(batch))'
        BY <3>1 DEF SentInv, InLine
      <4> QED BY <3>1, <3>2, <4>1, LineKept
    <3>4. PassedOver' /\ OfferLater'
      BY <3>1, <3>2 DEF SentInv, PassedOver, OfferLater
    <3> QED BY <2>1, <3>1, <3>3, <3>4 DEF SentInv
  <2>2. SentInv' \/ UNCHANGED vars
    BY SentRequest, SentLane, SentOthers, SentFlush DEF Next
  <2>3. CASE PushOldest
    BY <2>3, SentPush
  <2>4. CASE ~ PushOldest
    <3>1. UNCHANGED sent \/ UNCHANGED vars
      BY <2>4 DEF Next, Request, EnterNew, EnterMove, Go, Say, Address, KickFromAfar, Broadcast, Kick,
           Take, Lane, LaneEnqueues, LaneRecords, Prune, Announce, AskRefresh, Flush, Drain, NextTask,
           Context, PushRoster, AllPushed, Call, Collect, EventsPushed, Done, clientVars
    <3> QED BY <2>1, <2>2, <3>1
  <2> QED BY <2>1, <2>2, <2>3, <2>4
<1> QED
  BY <1>1, SentInit, DispatchTypeCorrect, PTL DEF Spec, SentInOrder

=============================================================================
