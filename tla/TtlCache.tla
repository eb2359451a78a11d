------------------------------ MODULE TtlCache ------------------------------
(***************************************************************************)
(* core/src/ttl_cache.rs: a map whose entries age, kept in three structures *)
(* of its own (entries, order, order_key_by_entry) and one of the moka      *)
(* library (presence), which decides when an entry has to go.  The knock    *)
(* inbox of a world and the avatars of its room states are such caches,     *)
(* each under a lock of the world's, so that a call of the cache is a step. *)
(*                                                                          *)
(* A call reads the clock several times; here it does not pass meanwhile.   *)
(***************************************************************************)
EXTENDS Integers, FiniteSets, Sequences, SequencesExt

CONSTANTS
    Keys, Values,
    Epochs,         \* the times that insert_with_epoch_ms is given
    Ages,           \* the ages (max_cache) that callers name
    Forever,        \* an age above all others
    Capacities,     \* what with_capacity is given, Nothing for new
    MaxTime,        \* bound on the clock
    MaxSeq,         \* bound on sequence numbers
    Nothing         \* Option::None

ASSUME KeysAssumption == IsFiniteSet(Keys)
ASSUME AgesAssumption == Ages \subseteq Nat /\ Epochs \subseteq Nat /\ MaxTime \in Nat
ASSUME ForeverAssumption == Forever \in Nat /\ MaxTime < Forever /\ \A a \in Ages : a < Forever
ASSUME CapacityAssumption == Capacities \subseteq Nat \cup {Nothing} /\ MaxSeq \in Nat
ASSUME NothingAssumption ==
    Nothing \notin Nat /\ Nothing \notin Nat \X Nat
        /\ Nothing \notin [value : Values, epoch : Nat, seq : Nat]
        /\ Nothing \notin [age : Nat, key : Keys, value : Values, epoch : Nat]

VARIABLES
    cache,      \* the TtlCache
    taken,      \* what the last call removed for its caller
    now         \* the clock, of the system and of moka

vars == <<cache, taken, now>>

CacheEntry == [value : Values, epoch : Nat, seq : Nat]

TtlCache ==
    [entries : [Keys -> CacheEntry \cup {Nothing}],
     order : SUBSET (Nat \X Nat \X Keys),           \* (epoch_ms, seq_no) -> key
     orderKey : [Keys -> (Nat \X Nat) \cup {Nothing}],
     presence : [Keys -> Nat \cup {Nothing}],       \* when moka was told of the key
     capacity : Nat \cup {Nothing},                 \* how many keys moka is to hold
     span : Nat,                                    \* default_max_cache
     nextSeq : Nat]

Empty == [k \in Keys |-> Nothing]

New(span, capacity) ==
    [entries |-> Empty, order |-> {}, orderKey |-> Empty, presence |-> Empty,
     capacity |-> capacity, span |-> span, nextSeq |-> 0]

Init ==
    /\ \E span \in Ages, capacity \in Capacities : cache = New(span, capacity)
    /\ taken = Nothing
    /\ now = 0

-----------------------------------------------------------------------------
Held(c) == {k \in Keys : c.entries[k] # Nothing}
PlaceOf(e) == <<e.epoch, e.seq>>
Place(p) == <<p[1], p[2]>>
Before(p, q) == p[1] < q[1] \/ (p[1] = q[1] /\ p[2] < q[2])

\* Broken variant of Fresh: an entry of the age asked for is too old.
FreshStrictly(epoch, age) == now - epoch < age

Fresh(epoch, age) == now - epoch <= age

\* moka: the keys it was told of, and those whose time is not over.
Present(c) == {k \in Keys : c.presence[k] # Nothing}
Alive(c) == {k \in Present(c) : now - c.presence[k] < c.span}

\* Broken variant of Kept: moka's pending evictions are not run.
KeptUncounted(c) == {Alive(c)}

\* moka: what it may keep.  Above its capacity it turns away or evicts as many
\* keys as it counts too many, by how often they were asked for.
Kept(c) ==
    {S \in SUBSET Alive(c) :
        IF c.capacity = Nothing \/ Cardinality(Present(c)) <= c.capacity
        THEN S = Alive(c)
        ELSE /\ Cardinality(S) <= c.capacity
             /\ Cardinality(Alive(c) \ S) <= Cardinality(Present(c)) - c.capacity}

\* What moka has not kept goes from the other structures.
Dropped(c, S) ==
    LET stale == Held(c) \ S IN
    [c EXCEPT
        !.entries = [k \in Keys |-> IF k \in stale THEN Nothing ELSE c.entries[k]],
        !.order = {p \in c.order : \A k \in stale : Place(p) # PlaceOf(c.entries[k])},
        !.orderKey = [k \in Keys |-> IF k \in stale THEN Nothing ELSE c.orderKey[k]],
        !.presence = [k \in Keys |-> IF k \in S THEN c.presence[k] ELSE Nothing]]

Compacted(c) == {Dropped(c, S) : S \in Kept(c)}

RemovedAt(c, P) ==
    LET gone == {p[3] : p \in P}
        without(f) == [k \in Keys |-> IF k \in gone THEN Nothing ELSE f[k]]
    IN  [c EXCEPT !.order = c.order \ P, !.orderKey = without(c.orderKey),
                  !.presence = without(c.presence), !.entries = without(c.entries)]

Unplaced(c, place) == [c EXCEPT !.order = {p \in c.order : Place(p) # place}]

\* Broken variant of Placed: moka is told of new keys only.
PlacedUntold(c, k, v, epoch) ==
    LET seq == c.nextSeq + 1 IN
    [c EXCEPT
        !.nextSeq = seq,
        !.order = c.order \cup {<<epoch, seq, k>>},
        !.orderKey = [c.orderKey EXCEPT ![k] = <<epoch, seq>>],
        !.presence = [c.presence EXCEPT ![k] = IF @ = Nothing THEN now ELSE @],
        !.entries = [c.entries EXCEPT ![k] = [value |-> v, epoch |-> epoch, seq |-> seq]]]

Placed(c, k, v, epoch) ==
    LET seq == c.nextSeq + 1 IN
    [c EXCEPT
        !.nextSeq = seq,
        !.order = c.order \cup {<<epoch, seq, k>>},
        !.orderKey = [c.orderKey EXCEPT ![k] = <<epoch, seq>>],
        !.presence = [c.presence EXCEPT ![k] = now],
        !.entries = [c.entries EXCEPT ![k] = [value |-> v, epoch |-> epoch, seq |-> seq]]]

Inserted(c, k, v, epoch) == Placed(Unplaced(c, c.orderKey[k]), k, v, epoch)

Removed(c, k) ==
    LET off == [c EXCEPT !.presence = [c.presence EXCEPT ![k] = Nothing]] IN
    IF c.entries[k] = Nothing THEN off
    ELSE [Unplaced(off, PlaceOf(c.entries[k])) EXCEPT
            !.entries = [c.entries EXCEPT ![k] = Nothing],
            !.orderKey = [c.orderKey EXCEPT ![k] = Nothing]]

-----------------------------------------------------------------------------
(* What is read without a step                                              *)

Sound(c, p) == c.entries[p[3]] # Nothing /\ PlaceOf(c.entries[p[3]]) = Place(p)

Listed(c, age) == {p \in c.order : Sound(c, p) /\ Fresh(p[1], age)}
Firsts(P) == {p \in P : \A q \in P \ {p} : Before(p, q)}
Lasts(P) == {p \in P : \A q \in P \ {p} : Before(q, p)}

Get(c, k, age) ==
    IF c.entries[k] # Nothing /\ Fresh(c.entries[k].epoch, age) THEN c.entries[k].value
                                                                ELSE Nothing

-----------------------------------------------------------------------------
(* The calls                                                                *)

\* Every call but clear begins by dropping what moka has let go.
Leaves(c) == cache' = c /\ taken' = Nothing /\ UNCHANGED now

Takes(c, p, age) ==
    /\ cache' = RemovedAt(c, {p})
    /\ taken' = [age |-> age, key |-> p[3], value |-> c.entries[p[3]].value, epoch |-> p[1]]
    /\ UNCHANGED now

InsertWithEpoch(k, v, epoch) == \E c \in Compacted(cache) :
    c.nextSeq < MaxSeq /\ Leaves(Inserted(c, k, v, epoch))

Insert(k, v) == InsertWithEpoch(k, v, now)
Backdated(k, v) == \E epoch \in Epochs : epoch <= now /\ InsertWithEpoch(k, v, epoch)

\* Broken variant of Touch: the old place is not taken out of the order.
TouchKeepsPlace(k) == \E c \in Compacted(cache) :
    IF c.entries[k] = Nothing THEN Leaves(c)
    ELSE c.nextSeq < MaxSeq /\ Leaves(Placed(c, k, c.entries[k].value, now))

Touch(k) == \E c \in Compacted(cache) :
    IF c.entries[k] = Nothing THEN Leaves(c)
    ELSE /\ c.nextSeq < MaxSeq
         /\ Leaves(Placed(Unplaced(c, PlaceOf(c.entries[k])), k, c.entries[k].value, now))

\* The caller of get_mut may put another value.
GetMut(k, v, age) == \E c \in Compacted(cache) :
    Leaves(IF Get(c, k, age) = Nothing THEN c
           ELSE [c EXCEPT !.entries = [c.entries EXCEPT ![k] = [c.entries[k] EXCEPT !.value = v]]])

RemoveKey(k) == \E c \in Compacted(cache) :
    /\ cache' = Removed(c, k)
    /\ taken' = IF c.entries[k] = Nothing THEN Nothing
                ELSE [age |-> Forever, key |-> k, value |-> c.entries[k].value,
                      epoch |-> c.entries[k].epoch]
    /\ UNCHANGED now

\* Nothing is taken when nothing is there to be taken.
PopFirst(age) == \E c \in Compacted(cache) :
    \/ Listed(c, age) = {} /\ Leaves(c)
    \/ \E p \in Firsts(Listed(c, age)) : Takes(c, p, age)

PopLatest(age) == \E c \in Compacted(cache) :
    \/ Listed(c, age) = {} /\ Leaves(c)
    \/ \E p \in Lasts(Listed(c, age)) : Takes(c, p, age)

\* The _any forms ask for no age.
PopFirstAny == \E c \in Compacted(cache) :
    \/ c.order = {} /\ Leaves(c)
    \/ \E p \in Firsts(c.order) : Takes(c, p, Forever)

PopLatestAny == \E c \in Compacted(cache) :
    \/ c.order = {} /\ Leaves(c)
    \/ \E p \in Lasts(c.order) : Takes(c, p, Forever)

FlushOlderThan(age) == \E c \in Compacted(cache) :
    Leaves(RemovedAt(c, {p \in c.order : p[1] < now - age}))

FlushBeforeSeqNo(n) == \E c \in Compacted(cache) :
    Leaves(RemovedAt(c, {p \in c.order : p[2] <= n}))

\* A new presence cache is told of every entry, as of now, and is given the
\* number of entries there are as its capacity.
SetDefaultMaxCache(age) == \E c \in Compacted(cache) :
    Leaves([c EXCEPT
        !.span = age,
        !.capacity = IF Held(c) = {} THEN 1 ELSE Cardinality(Held(c)),
        !.presence = [k \in Keys |-> IF k \in Held(c) THEN now ELSE Nothing]])

\* Numbers go on after a clear.
Clear ==
    Leaves([cache EXCEPT !.entries = Empty, !.order = {}, !.orderKey = Empty, !.presence = Empty])

Tick == now < MaxTime /\ now' = now + 1 /\ UNCHANGED <<cache, taken>>

Removing ==
    \/ \E k \in Keys : RemoveKey(k)
    \/ \E age \in Ages : PopFirst(age) \/ PopLatest(age)
    \/ PopFirstAny \/ PopLatestAny \/ Clear
    \/ \E n \in 1..MaxSeq : FlushBeforeSeqNo(n)

Keeping ==
    \/ \E k \in Keys, v \in Values : Insert(k, v) \/ Backdated(k, v)
    \/ \E k \in Keys : Touch(k) \/ (\E v \in Values, age \in Ages : GetMut(k, v, age))
    \/ \E age \in Ages : FlushOlderThan(age) \/ SetDefaultMaxCache(age)
    \/ Tick

Next == Removing \/ Keeping

Spec == Init /\ [][Next]_vars

-----------------------------------------------------------------------------
\* The cache and what it hands out have the types of their fields.
TypeOK ==
    /\ cache \in TtlCache
    /\ taken \in [age : Nat, key : Keys, value : Values, epoch : Nat] \cup {Nothing}
    /\ now \in Nat

\* The three structures and moka's tell of the same entries, each in one place
\* of its own under a number that was given out (insert_with_epoch_ms, touch,
\* remove, compact_evicted each mend all of them by hand).
Indexed(c) ==
    /\ c.order = {<<c.entries[k].epoch, c.entries[k].seq, k>> : k \in Held(c)}
    /\ \A k \in Keys : c.orderKey[k] = IF k \in Held(c) THEN PlaceOf(c.entries[k]) ELSE Nothing
    /\ Present(c) = Held(c)
Numbered(c) ==
    /\ \A k \in Held(c) : c.entries[k].seq \in 1..c.nextSeq
    /\ \A k, l \in Held(c) : c.entries[k].seq = c.entries[l].seq => k = l
IndexesAgree == Indexed(cache) /\ Numbered(cache)

\* An entry younger than default_max_cache goes only by a call that is made to
\* take or remove entries, as long as moka has no capacity to keep to: neither
\* by another's insertion, nor by a flush of older ones, nor by a change of
\* default_max_cache, nor in time.
YoungStay ==
    [][\/ Removing
       \/ \A k \in Held(cache) :
            /\ cache.capacity = Nothing
            /\ now - cache.entries[k].epoch < cache.span
            /\ \A age \in Ages : FlushOlderThan(age) => age >= cache.span
            => cache'.entries[k] # Nothing]_vars

-----------------------------------------------------------------------------
\* The order of a cache, as a line of entries.
EntryAt(entries, p) == [key |-> p[3], value |-> entries[p[3]].value, epoch |-> p[1]]
Behind(order, p) == Cardinality({q \in order : Before(q, p)})
NthPlace(order, n) == CHOOSE p \in order : Behind(order, p) = n - 1
LineIn(order, entries) ==
    [n \in 1..Cardinality(order) |-> EntryAt(entries, NthPlace(order, n))]

LineOf == LineIn(cache.order, cache.entries)
TakenOf ==
    IF taken = Nothing THEN Nothing
    ELSE [age |-> taken.age,
          entry |-> [key |-> taken.key, value |-> taken.value, epoch |-> taken.epoch]]

Line == INSTANCE ExpiringLine WITH line <- LineOf, taken <- TakenOf,
                                Epochs <- Epochs \cup (0..MaxTime)

\* A cache is a line of entries that expire: calls place entries by age and
\* turn, and take from the ends (TtlCache implements ExpiringLine).
ImplementsLine == Line!LineSpec
=============================================================================
