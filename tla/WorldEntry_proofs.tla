-------------------------- MODULE WorldEntry_proofs --------------------------
(***************************************************************************)
(* Theorems about WorldEntry, for any visitors, rooms, languages, sizes of  *)
(* the inbox and numbers of handlers: whoever is entitled may enter or is   *)
(* about to be let in, a pending knock waits for its decision, and who is   *)
(* alone about a language loses none of the others.                         *)
(***************************************************************************)
EXTENDS WorldEntry, FiniteSetTheorems, WellFoundedInduction, TLAPS

-----------------------------------------------------------------------------
(* What every step relies on                                                *)

\* What is known of a handler at its steps.
TaskSound(m) ==
    /\ m.op = "knock" => m.who \in Visitors /\ m.hall \in Halls
    /\ m.op \in {"accept", "reject", "delete"} => m.id \in Ids
    /\ m.at \in {"own", "state"} => m.who \in Roots
    /\ m.at = "allow" => m.who \in Known
    /\ m.at = "map" \/ m.op = "tag" => m.tag \in Tags

EntryTypeOK ==
    /\ owner \in Roots /\ allowed \subseteq Known
    /\ lastId \in Nat /\ clock \in Nat
    /\ lang \in LangCids \cup {NoOne} /\ config \in LangCids \cup {NoOne}
    /\ kept \in [owner : Roots, lang : LangCids \cup {NoOne}] \cup {NoOne}
    /\ work \in [Workers -> Course \cup {NoOne}] /\ lone \subseteq Workers
    /\ \A t \in Workers : work[t] # NoOne => TaskSound(work[t])

\* The inbox at a time, with knocks up to a number: it tells of each knock in all
\* of its structures, as of when it came, in the order of their ids, and has never
\* more than it may, so that moka evicts none for its capacity.
Kind(c) == c \in Inbox!TtlCache /\ c.capacity = MaxInbox /\ c.span = PendingSpan
Told(c) ==
    /\ c.order = {<<c.entries[id].epoch, c.entries[id].seq, id>> : id \in Inbox!Held(c)}
    /\ \A id \in Ids : id \notin Inbox!Held(c) => c.orderKey[id] = NoOne /\ c.presence[id] = NoOne
    /\ \A id \in Inbox!Held(c) :
        /\ c.presence[id] = c.entries[id].epoch
        /\ c.entries[id].value.at = c.entries[id].epoch
        /\ c.entries[id].seq <= c.nextSeq
InTurn(c) ==
    \A id, j \in Inbox!Held(c) :
        id < j => c.entries[id].epoch <= c.entries[j].epoch /\ c.entries[id].seq < c.entries[j].seq
UpTo(c, last, time) == \A id \in Inbox!Held(c) : id <= last /\ c.entries[id].epoch <= time
Fits(c) == Cardinality(Inbox!Held(c)) <= MaxInbox
InboxGood(c, last, time) == Kind(c) /\ Told(c) /\ InTurn(c) /\ UpTo(c, last, time) /\ Fits(c)

\* A handler that is alone about a tag has read the languages there are, and has
\* kept in the configuration what it is to set.
LoneSound ==
    \A t \in lone :
        /\ Busy \subseteq {t}
        /\ (work[t] # NoOne /\ work[t].op = "tag") =>
            /\ work[t].at \in {"map", "keep", "lang"}
            /\ work[t].at # "map" =>
                /\ lang # Unreadable
                /\ work[t].lang = (IF lang = NoOne THEN {} ELSE lang) \cup {work[t].tag}
            /\ work[t].at = "lang" => config = work[t].lang

EntryInv == EntryTypeOK /\ InboxGood(inbox, lastId, clock) /\ EntitledEnter /\ LoneSound

-----------------------------------------------------------------------------
(* The inbox                                                                *)

LEMMA IdsFacts == Ids \subseteq Nat /\ IsFiniteSet(Ids) /\ MaxInbox \in Nat \ {0} /\ PendingSpan \in Nat
BY InboxAssumption

LEMMA HeldFinite ==
    ASSUME NEW c
    PROVE  /\ Inbox!Held(c) \subseteq Ids /\ IsFiniteSet(Inbox!Held(c))
           /\ Cardinality(Inbox!Held(c)) \in Nat
BY IdsFacts, FS_Subset, FS_CardinalityType DEF Inbox!Held

\* The cache counts as everybody does.
LEMMA CountIsCardinality == ASSUME NEW S PROVE Inbox!Cardinality(S) = Cardinality(S)
BY DEF Inbox!Cardinality, Cardinality

\* What is held is an entry, at the time its knock came.
LEMMA HeldEntry ==
    ASSUME NEW c, Kind(c), Told(c), NEW id \in Inbox!Held(c)
    PROVE  /\ id \in Nat /\ id \in Ids /\ c.entries[id] # NoOne
           /\ c.entries[id] \in [value : KnockMessage, epoch : Nat, seq : Nat]
           /\ c.entries[id].value.at = c.entries[id].epoch
           /\ c.presence[id] = c.entries[id].epoch /\ c.presence[id] # NoOne
<1>1. id \in Ids /\ c.entries[id] # NoOne
  BY DEF Inbox!Held
<1>2. c.entries[id] \in [value : KnockMessage, epoch : Nat, seq : Nat]
  BY <1>1 DEF Kind, Inbox!TtlCache, Inbox!CacheEntry
<1> QED BY <1>1, <1>2, IdsFacts, NoOneAssumption DEF Told

LEMMA PresentIsHeld ==
    ASSUME NEW c, Kind(c), Told(c)
    PROVE  Inbox!Present(c) = Inbox!Held(c)
<1>1. ASSUME NEW id \in Inbox!Held(c) PROVE id \in Inbox!Present(c)
  BY <1>1, HeldEntry DEF Inbox!Present
<1>2. ASSUME NEW id \in Inbox!Present(c) PROVE id \in Inbox!Held(c)
  BY <1>2 DEF Inbox!Present, Told
<1> QED BY <1>1, <1>2

\* Of the entries of c, d has those of H and is the same otherwise.
Shrunk(c, d, H) ==
    /\ Kind(d) /\ d.nextSeq = c.nextSeq /\ H \subseteq Inbox!Held(c)
    /\ \A id \in H : d.entries[id] = c.entries[id] /\ d.presence[id] = c.presence[id]
    /\ \A id \in Ids \ H : d.entries[id] = NoOne /\ d.orderKey[id] = NoOne /\ d.presence[id] = NoOne
    /\ d.order = {<<c.entries[id].epoch, c.entries[id].seq, id>> : id \in H}

LEMMA ShrunkGood ==
    ASSUME NEW c, NEW last, NEW time, InboxGood(c, last, time), NEW d, NEW H, Shrunk(c, d, H)
    PROVE  InboxGood(d, last, time) /\ Inbox!Held(d) = H
<1>1. Inbox!Held(d) = H
  BY DEF Shrunk, Inbox!Held
<1>2. Kind(d)
  BY DEF Shrunk
<1>3. \A id \in H : id \in Inbox!Held(c) /\ d.entries[id] = c.entries[id] /\ d.presence[id] = c.presence[id]
  BY DEF Shrunk
<1>4. Told(d)
  <2>1. d.order = {<<d.entries[id].epoch, d.entries[id].seq, id>> : id \in H}
    BY <1>3 DEF Shrunk
  <2>2. \A id \in Ids : id \notin H => d.orderKey[id] = NoOne /\ d.presence[id] = NoOne
    BY DEF Shrunk
  <2>3. \A id \in H :
            /\ d.presence[id] = d.entries[id].epoch
            /\ d.entries[id].value.at = d.entries[id].epoch
            /\ d.entries[id].seq <= d.nextSeq
    BY <1>3 DEF InboxGood, Told, Shrunk
  <2> QED BY <1>1, <2>1, <2>2, <2>3 DEF Told
<1>5. InTurn(d)
  BY <1>1, <1>3 DEF InTurn, InboxGood
<1>6. UpTo(d, last, time)
  BY <1>1, <1>3 DEF UpTo, InboxGood
<1>7. Fits(d)
  <2>1. Cardinality(H) <= Cardinality(Inbox!Held(c)) /\ Cardinality(H) \in Nat
    BY HeldFinite, FS_Subset, FS_CardinalityType DEF Shrunk
  <2> QED BY <1>1, <2>1, HeldFinite, IdsFacts DEF Fits, InboxGood
<1> QED BY <1>1, <1>2, <1>4, <1>5, <1>6, <1>7 DEF InboxGood

\* Every entry has a place of its own.
LEMMA PlacesApart ==
    ASSUME NEW c, Kind(c), Told(c), InTurn(c), NEW id \in Inbox!Held(c), NEW j \in Inbox!Held(c),
           c.entries[id].seq = c.entries[j].seq
    PROVE  id = j
<1>1. /\ id \in Nat /\ j \in Nat /\ c.entries[id].seq \in Nat /\ c.entries[j].seq \in Nat
  BY HeldEntry
<1> QED BY <1>1 DEF InTurn

LEMMA DroppedShrinks ==
    ASSUME NEW c, NEW last, NEW time, InboxGood(c, last, time), NEW S \in SUBSET Inbox!Present(c)
    PROVE  Shrunk(c, Inbox!Dropped(c, S), S)
<1> DEFINE d == Inbox!Dropped(c, S)
           stale == Inbox!Held(c) \ S
<1>1. c \in Inbox!TtlCache /\ S \subseteq Inbox!Held(c) /\ Inbox!Held(c) \subseteq Ids
  BY PresentIsHeld, HeldFinite DEF InboxGood, Kind
<1>2. /\ d.entries = [k \in Ids |-> IF k \in stale THEN NoOne ELSE c.entries[k]]
      /\ d.order = {p \in c.order : \A k \in stale : Inbox!Place(p) # Inbox!PlaceOf(c.entries[k])}
      /\ d.orderKey = [k \in Ids |-> IF k \in stale THEN NoOne ELSE c.orderKey[k]]
      /\ d.presence = [k \in Ids |-> IF k \in S THEN c.presence[k] ELSE NoOne]
      /\ d.capacity = c.capacity /\ d.span = c.span /\ d.nextSeq = c.nextSeq
      /\ d \in Inbox!TtlCache
  BY <1>1 DEF Inbox!Dropped, Inbox!TtlCache
<1> HIDE DEF d
<1>3. Kind(d)
  BY <1>2 DEF InboxGood, Kind
<1>4. \A id \in S : d.entries[id] = c.entries[id] /\ d.presence[id] = c.presence[id]
  BY <1>1, <1>2
<1>5. \A id \in Ids \ S : d.entries[id] = NoOne /\ d.orderKey[id] = NoOne /\ d.presence[id] = NoOne
  BY <1>1, <1>2 DEF InboxGood, Told, Inbox!Held
<1>6. d.order = {<<c.entries[id].epoch, c.entries[id].seq, id>> : id \in S}
  <2>1. c.order = {<<c.entries[id].epoch, c.entries[id].seq, id>> : id \in Inbox!Held(c)}
    BY DEF InboxGood, Told
  <2>2. ASSUME NEW id \in Inbox!Held(c)
        PROVE  <<c.entries[id].epoch, c.entries[id].seq, id>> \in d.order <=> id \in S
    <3>1. \A k \in Inbox!Held(c) : c.entries[k].seq = c.entries[id].seq => k = id
      BY PlacesApart DEF InboxGood
    <3>2. <<c.entries[id].epoch, c.entries[id].seq, id>> \in c.order
      BY <2>1
    <3> QED BY <1>2, <3>1, <3>2 DEF Inbox!Place, Inbox!PlaceOf
  <2>3. d.order \subseteq c.order
    BY <1>2
  <2> QED BY <1>1, <2>1, <2>2, <2>3
<1>7. Shrunk(c, d, S)
  BY <1>1, <1>2, <1>3, <1>4, <1>5, <1>6 DEF Shrunk
<1> QED BY <1>7 DEF d

\* As an inbox is never above its capacity, moka lets go of what is old only.
Young(c) == {id \in Inbox!Held(c) : clock - c.entries[id].epoch < PendingSpan}

LEMMA CompactedShrinks ==
    ASSUME NEW c, NEW last, NEW time, InboxGood(c, last, time), NEW d \in Inbox!Compacted(c)
    PROVE  Shrunk(c, d, Young(c))
<1>1. Inbox!Present(c) = Inbox!Held(c)
  BY PresentIsHeld DEF InboxGood
<1>2. c.capacity = MaxInbox /\ Cardinality(Inbox!Present(c)) <= c.capacity
  BY <1>1 DEF InboxGood, Fits, Kind
<1>3. d = Inbox!Dropped(c, Inbox!Alive(c))
  BY <1>2, CountIsCardinality, IdsFacts, NoOneAssumption DEF Inbox!Compacted, Inbox!Kept
<1>4. Inbox!Alive(c) = Young(c)
  BY <1>1 DEF Inbox!Alive, Young, InboxGood, Kind, Told
<1>5. Young(c) \subseteq Inbox!Present(c)
  BY <1>1 DEF Young
<1> QED BY <1>3, <1>4, <1>5, DroppedShrinks

LEMMA RemovedAtShrinks ==
    ASSUME NEW c, NEW last, NEW time, InboxGood(c, last, time), NEW P \in SUBSET c.order
    PROVE  Shrunk(c, Inbox!RemovedAt(c, P), Inbox!Held(c) \ {p[3] : p \in P})
<1> DEFINE d == Inbox!RemovedAt(c, P)
           gone == {p[3] : p \in P}
           H == Inbox!Held(c) \ gone
<1>1. c \in Inbox!TtlCache
  BY DEF InboxGood, Kind
<1>2. /\ d.entries = [k \in Ids |-> IF k \in gone THEN NoOne ELSE c.entries[k]]
      /\ d.order = c.order \ P
      /\ d.orderKey = [k \in Ids |-> IF k \in gone THEN NoOne ELSE c.orderKey[k]]
      /\ d.presence = [k \in Ids |-> IF k \in gone THEN NoOne ELSE c.presence[k]]
      /\ d.capacity = c.capacity /\ d.span = c.span /\ d.nextSeq = c.nextSeq
      /\ d \in Inbox!TtlCache
  BY <1>1 DEF Inbox!RemovedAt, Inbox!TtlCache
<1> HIDE DEF d
<1>3. Kind(d)
  BY <1>2 DEF InboxGood, Kind
<1>4. \A id \in H : d.entries[id] = c.entries[id] /\ d.presence[id] = c.presence[id]
  BY <1>2, HeldFinite
<1>5. \A id \in Ids \ H : d.entries[id] = NoOne /\ d.orderKey[id] = NoOne /\ d.presence[id] = NoOne
  BY <1>2 DEF InboxGood, Told, Inbox!Held
<1>6. d.order = {<<c.entries[id].epoch, c.entries[id].seq, id>> : id \in H}
  <2>1. c.order = {<<c.entries[id].epoch, c.entries[id].seq, id>> : id \in Inbox!Held(c)}
    BY DEF InboxGood, Told
  <2>2. ASSUME NEW id \in Inbox!Held(c)
        PROVE  <<c.entries[id].epoch, c.entries[id].seq, id>> \in P <=> id \in gone
    <3>1. ASSUME NEW p \in P, p[3] = id PROVE p = <<c.entries[id].epoch, c.entries[id].seq, id>>
      <4>1. PICK j \in Inbox!Held(c) : p = <<c.entries[j].epoch, c.entries[j].seq, j>>
        BY <2>1
      <4> QED BY <3>1, <4>1
    <3>2. <<c.entries[id].epoch, c.entries[id].seq, id>>[3] = id
      OBVIOUS
    <3> QED BY <3>1, <3>2
  <2> QED BY <1>2, <2>1, <2>2
<1>7. Shrunk(c, d, H)
  BY <1>2, <1>3, <1>4, <1>5, <1>6 DEF Shrunk
<1> QED BY <1>7 DEF d

LEMMA RemovedShrinks ==
    ASSUME NEW c, NEW last, NEW time, InboxGood(c, last, time), NEW k \in Ids
    PROVE  Shrunk(c, Inbox!Removed(c, k), Inbox!Held(c) \ {k})
<1> DEFINE d == Inbox!Removed(c, k)
           H == Inbox!Held(c) \ {k}
<1>1. c \in Inbox!TtlCache
  BY DEF InboxGood, Kind
<1>2. c.order = {<<c.entries[id].epoch, c.entries[id].seq, id>> : id \in Inbox!Held(c)}
  BY DEF InboxGood, Told
<1>3. /\ d.entries = [c.entries EXCEPT ![k] = NoOne]
      /\ d.presence = [c.presence EXCEPT ![k] = NoOne]
      /\ d.orderKey = [c.orderKey EXCEPT ![k] = NoOne]
      /\ d.capacity = c.capacity /\ d.span = c.span /\ d.nextSeq = c.nextSeq
      /\ d.order = {<<c.entries[id].epoch, c.entries[id].seq, id>> : id \in H}
      /\ d \in Inbox!TtlCache
  <2>1. CASE c.entries[k] = NoOne
    <3>1. k \notin Inbox!Held(c) /\ c.orderKey[k] = NoOne
      BY <2>1 DEF Inbox!Held, InboxGood, Told
    <3>2. c.entries = [c.entries EXCEPT ![k] = NoOne] /\ c.orderKey = [c.orderKey EXCEPT ![k] = NoOne]
      BY <1>1, <2>1, <3>1 DEF Inbox!TtlCache
    <3>3. d = [c EXCEPT !.presence = [c.presence EXCEPT ![k] = NoOne]]
      BY <2>1 DEF Inbox!Removed
    <3>4. H = Inbox!Held(c)
      BY <3>1
    <3> QED BY <1>1, <1>2, <3>2, <3>3, <3>4 DEF Inbox!TtlCache
  <2>2. CASE c.entries[k] # NoOne
    <3>1. d = [c EXCEPT !.order = {p \in c.order : Inbox!Place(p) # Inbox!PlaceOf(c.entries[k])},
                        !.presence = [c.presence EXCEPT ![k] = NoOne],
                        !.entries = [c.entries EXCEPT ![k] = NoOne],
                        !.orderKey = [c.orderKey EXCEPT ![k] = NoOne]]
      BY <1>1, <2>2 DEF Inbox!Removed, Inbox!Unplaced, Inbox!TtlCache
    <3>2. k \in Inbox!Held(c)
      BY <2>2 DEF Inbox!Held
    <3>3. \A id \in Inbox!Held(c) : c.entries[id].seq = c.entries[k].seq => id = k
      BY <3>2, PlacesApart DEF InboxGood
    <3>4. {p \in c.order : Inbox!Place(p) # Inbox!PlaceOf(c.entries[k])}
            = {<<c.entries[id].epoch, c.entries[id].seq, id>> : id \in H}
      BY <1>2, <3>2, <3>3 DEF Inbox!Place, Inbox!PlaceOf
    <3>5. {p \in c.order : Inbox!Place(p) # Inbox!PlaceOf(c.entries[k])} \subseteq c.order
      OBVIOUS
    <3>6. c.order \subseteq Nat \X Nat \X Ids /\ [c.entries EXCEPT ![k] = NoOne] \in [Ids -> Inbox!CacheEntry \cup {NoOne}]
      BY <1>1 DEF Inbox!TtlCache
    <3>7. /\ [c.presence EXCEPT ![k] = NoOne] \in [Ids -> Nat \cup {NoOne}]
          /\ [c.orderKey EXCEPT ![k] = NoOne] \in [Ids -> (Nat \X Nat) \cup {NoOne}]
      BY <1>1 DEF Inbox!TtlCache
    <3> DEFINE o == {p \in c.order : Inbox!Place(p) # Inbox!PlaceOf(c.entries[k])}
               e == [c.entries EXCEPT ![k] = NoOne]
               r == [c.presence EXCEPT ![k] = NoOne]
               y == [c.orderKey EXCEPT ![k] = NoOne]
    <3>8. d = [c EXCEPT !.order = o, !.presence = r, !.entries = e, !.orderKey = y]
      BY <3>1
    <3>9. o \in SUBSET (Nat \X Nat \X Ids)
      BY <3>6
    <3> HIDE DEF d, o, e, r, y
    <3>10. /\ d.entries = e /\ d.presence = r /\ d.orderKey = y /\ d.order = o
           /\ d.capacity = c.capacity /\ d.span = c.span /\ d.nextSeq = c.nextSeq
      BY <1>1, <3>8 DEF Inbox!TtlCache
    <3>11. d \in Inbox!TtlCache
      BY <1>1, <3>6, <3>7, <3>8, <3>9 DEF Inbox!TtlCache, e, r, y
    <3> QED BY <3>4, <3>10, <3>11 DEF o, e, r, y
  <2> QED BY <2>1, <2>2
<1> HIDE DEF d
<1>4. Kind(d)
  BY <1>3 DEF InboxGood, Kind
<1>5. \A id \in H : d.entries[id] = c.entries[id] /\ d.presence[id] = c.presence[id]
  BY <1>1, <1>3, HeldFinite DEF Inbox!TtlCache
<1>6. \A id \in Ids \ H : d.entries[id] = NoOne /\ d.orderKey[id] = NoOne /\ d.presence[id] = NoOne
  BY <1>1, <1>3 DEF InboxGood, Told, Inbox!Held, Inbox!TtlCache
<1>7. Shrunk(c, d, H)
  BY <1>3, <1>4, <1>5, <1>6 DEF Shrunk
<1> QED BY <1>7 DEF d

LEMMA TurnOfHeld ==
    ASSUME NEW c, NEW last, NEW time, InboxGood(c, last, time), NEW id \in Inbox!Held(c)
    PROVE  /\ id \in Nat /\ id <= last
           /\ c.entries[id].epoch \in Nat /\ c.entries[id].epoch <= time
           /\ c.entries[id].seq \in Nat /\ c.entries[id].seq <= c.nextSeq
           /\ c.presence[id] = c.entries[id].epoch /\ c.entries[id].value.at = c.entries[id].epoch
BY HeldEntry DEF InboxGood, UpTo, Told

\* A knock that is put in takes its turn behind all others.
LEMMA InsertedGood ==
    ASSUME NEW c, NEW last \in Nat, NEW time \in Nat, time = clock, InboxGood(c, last, time),
           last + 1 \in Ids, NEW v \in KnockMessage, v.at = time, Cardinality(Inbox!Held(c)) < MaxInbox,
           NEW d, d = Inbox!Inserted(c, last + 1, v, time)
    PROVE  /\ InboxGood(d, last + 1, time) /\ Inbox!Held(d) = Inbox!Held(c) \cup {last + 1}
           /\ \A id \in Inbox!Held(c) : d.entries[id] = c.entries[id]
           /\ d.entries[last + 1].value = v
<1> DEFINE k == last + 1
           n == c.nextSeq + 1
           e == [value |-> v, epoch |-> time, seq |-> n]
<1>1. c \in Inbox!TtlCache /\ c.nextSeq \in Nat /\ n \in Nat /\ k \in Ids
  BY DEF InboxGood, Kind, Inbox!TtlCache
<1>2. k \notin Inbox!Held(c)
  <2>1. k \in Nat /\ last < k
    OBVIOUS
  <2>2. ASSUME k \in Inbox!Held(c) PROVE FALSE
    <3>1. k <= last
      BY <2>2, TurnOfHeld
    <3> QED BY <2>1, <3>1
  <2> QED BY <2>2
<1>3. c.orderKey[k] = NoOne
  BY <1>1, <1>2 DEF InboxGood, Told
<1>4. {p \in c.order : Inbox!Place(p) # NoOne} = c.order
  <2>1. \A p \in c.order : Inbox!Place(p) \in Nat \X Nat
    BY <1>1 DEF Inbox!TtlCache, Inbox!Place
  <2> QED BY <2>1, NoOneAssumption
<1>5. Inbox!Unplaced(c, c.orderKey[k]) = c
  <2>1. Inbox!Unplaced(c, c.orderKey[k]) = [c EXCEPT !.order = c.order]
    BY <1>3, <1>4 DEF Inbox!Unplaced
  <2> QED BY <1>1, <2>1 DEF Inbox!TtlCache
<1>6. d = [c EXCEPT !.nextSeq = n, !.order = c.order \cup {<<time, n, k>>},
                    !.orderKey = [c.orderKey EXCEPT ![k] = <<time, n>>],
                    !.presence = [c.presence EXCEPT ![k] = time],
                    !.entries = [c.entries EXCEPT ![k] = e]]
  BY <1>5 DEF Inbox!Inserted, Inbox!Placed
<1>7. /\ d.nextSeq = n /\ d.order = c.order \cup {<<time, n, k>>}
      /\ d.orderKey = [c.orderKey EXCEPT ![k] = <<time, n>>]
      /\ d.presence = [c.presence EXCEPT ![k] = time]
      /\ d.entries = [c.entries EXCEPT ![k] = e]
      /\ d.capacity = c.capacity /\ d.span = c.span
  BY <1>1, <1>6 DEF Inbox!TtlCache
<1>8. e \in Inbox!CacheEntry /\ e # NoOne /\ e.epoch = time /\ e.seq = n /\ e.value = v
  <2>1. e \in Inbox!CacheEntry
    BY <1>1 DEF Inbox!CacheEntry
  <2> QED BY <2>1, NoOneAssumption DEF Inbox!CacheEntry
<1>9. d \in Inbox!TtlCache
  <2>1. [c.entries EXCEPT ![k] = e] \in [Ids -> Inbox!CacheEntry \cup {NoOne}]
    BY <1>1, <1>8 DEF Inbox!TtlCache
  <2>2. /\ [c.orderKey EXCEPT ![k] = <<time, n>>] \in [Ids -> (Nat \X Nat) \cup {NoOne}]
        /\ [c.presence EXCEPT ![k] = time] \in [Ids -> Nat \cup {NoOne}]
    BY <1>1 DEF Inbox!TtlCache
  <2>3. c.order \cup {<<time, n, k>>} \in SUBSET (Nat \X Nat \X Ids)
    BY <1>1 DEF Inbox!TtlCache
  <2> DEFINE en == [c.entries EXCEPT ![k] = e]
             ok == [c.orderKey EXCEPT ![k] = <<time, n>>]
             pr == [c.presence EXCEPT ![k] = time]
             or == c.order \cup {<<time, n, k>>}
  <2>4. d = [c EXCEPT !.nextSeq = n, !.order = or, !.orderKey = ok, !.presence = pr, !.entries = en]
    BY <1>6
  <2>5. /\ en \in [Ids -> Inbox!CacheEntry \cup {NoOne}] /\ ok \in [Ids -> (Nat \X Nat) \cup {NoOne}]
        /\ pr \in [Ids -> Nat \cup {NoOne}] /\ or \in SUBSET (Nat \X Nat \X Ids)
    BY <2>1, <2>2, <2>3
  <2> HIDE DEF en, ok, pr, or
  <2> QED BY <1>1, <2>4, <2>5 DEF Inbox!TtlCache
<1> HIDE DEF e
<1>10. /\ d.entries[k] = e /\ d.presence[k] = time
       /\ \A id \in Ids \ {k} : d.entries[id] = c.entries[id] /\ d.presence[id] = c.presence[id]
                                /\ d.orderKey[id] = c.orderKey[id]
  BY <1>1, <1>7 DEF Inbox!TtlCache
<1>11. Inbox!Held(d) = Inbox!Held(c) \cup {k}
  BY <1>1, <1>8, <1>10 DEF Inbox!Held
<1>12. \A id \in Inbox!Held(c) : id \in Ids /\ id # k /\ d.entries[id] = c.entries[id] /\ d.presence[id] = c.presence[id]
  BY <1>2, <1>10, HeldFinite
<1>13. Kind(d)
  BY <1>7, <1>9 DEF InboxGood, Kind
<1>14. Told(d)
  <2>1. d.order = {<<d.entries[id].epoch, d.entries[id].seq, id>> : id \in Inbox!Held(d)}
    <3>1. c.order = {<<c.entries[id].epoch, c.entries[id].seq, id>> : id \in Inbox!Held(c)}
      BY DEF InboxGood, Told
    <3>2. c.order = {<<d.entries[id].epoch, d.entries[id].seq, id>> : id \in Inbox!Held(c)}
      BY <1>12, <3>1
    <3>3. <<time, n, k>> = <<d.entries[k].epoch, d.entries[k].seq, k>>
      BY <1>8, <1>10
    <3>4. d.order = c.order \cup {<<d.entries[k].epoch, d.entries[k].seq, k>>}
      BY <1>7, <3>3
    <3> HIDE DEF k
    <3> QED BY <1>11, <3>2, <3>4
  <2>2. \A id \in Ids : id \notin Inbox!Held(d) => d.orderKey[id] = NoOne /\ d.presence[id] = NoOne
    BY <1>10, <1>11 DEF InboxGood, Told
  <2>3. ASSUME NEW id \in Inbox!Held(d)
        PROVE  /\ d.presence[id] = d.entries[id].epoch
               /\ d.entries[id].value.at = d.entries[id].epoch
               /\ d.entries[id].seq <= d.nextSeq
    <3>1. CASE id = k
      BY <1>1, <1>7, <1>8, <1>10, <3>1
    <3>2. CASE id # k
      <4>1. id \in Inbox!Held(c)
        BY <1>11, <3>2
      <4>2. c.entries[id].seq <= c.nextSeq /\ c.entries[id].seq \in Nat
        BY <4>1, TurnOfHeld
      <4>3. c.presence[id] = c.entries[id].epoch /\ c.entries[id].value.at = c.entries[id].epoch
        BY <4>1, TurnOfHeld
      <4>4. d.entries[id] = c.entries[id] /\ d.presence[id] = c.presence[id]
        BY <1>12, <4>1
      <4>5. d.entries[id].seq <= d.nextSeq
        BY <1>1, <1>7, <4>2, <4>4
      <4> QED BY <4>3, <4>4, <4>5
    <3> QED BY <3>1, <3>2
  <2> QED BY <2>1, <2>2, <2>3 DEF Told
<1>15. InTurn(d)
  <2> SUFFICES ASSUME NEW id \in Inbox!Held(d), NEW j \in Inbox!Held(d), id < j
               PROVE  d.entries[id].epoch <= d.entries[j].epoch /\ d.entries[id].seq < d.entries[j].seq
    BY DEF InTurn
  <2>1. CASE id \in Inbox!Held(c) /\ j \in Inbox!Held(c)
    BY <1>12, <2>1 DEF InboxGood, InTurn
  <2>2. CASE id \in Inbox!Held(c) /\ j = k
    <3>1. c.entries[id].epoch <= time /\ c.entries[id].seq <= c.nextSeq /\ c.entries[id].seq \in Nat
      BY <2>2, TurnOfHeld
    <3>2. d.entries[id] = c.entries[id] /\ d.entries[j].epoch = time /\ d.entries[j].seq = n
      BY <1>8, <1>10, <1>12, <2>2
    <3> QED BY <1>1, <3>1, <3>2
  <2>3. CASE id = k
    <3>1. CASE j \in Inbox!Held(c)
      <4>1. j \in Nat /\ j <= last
        BY <3>1, TurnOfHeld
      <4> QED BY <2>3, <4>1
    <3>2. CASE j = k
      BY <2>3, <3>2
    <3> QED BY <1>11, <3>1, <3>2
  <2> QED BY <1>11, <2>1, <2>2, <2>3
<1>16. UpTo(d, last + 1, time)
  <2>1. ASSUME NEW id \in Inbox!Held(c) PROVE id <= last + 1 /\ c.entries[id].epoch <= time
    <3>1. id \in Nat /\ id <= last /\ c.entries[id].epoch <= time
      BY TurnOfHeld
    <3> QED BY <3>1
  <2> QED BY <1>8, <1>10, <1>11, <1>12, <2>1 DEF UpTo
<1>17. Fits(d)
  BY <1>2, <1>11, HeldFinite, FS_AddElement, IdsFacts DEF Fits
<1> QED BY <1>8, <1>10, <1>11, <1>12, <1>13, <1>14, <1>15, <1>16, <1>17 DEF InboxGood

\* A decision leaves everything where it is.
LEMMA DecidedGood ==
    ASSUME NEW c, NEW last, NEW time, InboxGood(c, last, time), NEW id \in Inbox!Held(c), clock \in Nat,
           NEW status \in {"accepted", "rejected"}, NEW d, d = Decided(c, id, status)
    PROVE  /\ InboxGood(d, last, time) /\ Inbox!Held(d) = Inbox!Held(c)
           /\ d.entries[id].value.who = c.entries[id].value.who
           /\ d.entries[id].value.status = status
<1> DEFINE v == [c.entries[id].value EXCEPT !.status = status, !.decided = clock]
           e == [c.entries[id] EXCEPT !.value = v]
           n == [c.entries EXCEPT ![id] = e]
<1>1. c \in Inbox!TtlCache
  BY DEF InboxGood, Kind
<1>2. /\ id \in Ids /\ c.entries[id] \in [value : KnockMessage, epoch : Nat, seq : Nat]
      /\ c.entries[id].value.at = c.entries[id].epoch
  BY HeldEntry DEF InboxGood
<1>3. v \in KnockMessage /\ v.at = c.entries[id].value.at /\ v.who = c.entries[id].value.who /\ v.status = status
  BY <1>2 DEF KnockMessage
<1>4. d = [c EXCEPT !.entries = n]
  BY DEF Decided
<1> HIDE DEF v
<1>5. /\ e \in [value : KnockMessage, epoch : Nat, seq : Nat] /\ e.value = v
      /\ e.epoch = c.entries[id].epoch /\ e.seq = c.entries[id].seq
  BY <1>2, <1>3
<1> HIDE DEF e
<1>6. n \in [Ids -> Inbox!CacheEntry \cup {NoOne}] /\ n[id] = e /\ \A j \in Ids \ {id} : n[j] = c.entries[j]
  BY <1>1, <1>2, <1>5 DEF Inbox!TtlCache, Inbox!CacheEntry
<1> HIDE DEF n
<1>7. /\ d \in Inbox!TtlCache /\ d.entries = n /\ d.order = c.order /\ d.orderKey = c.orderKey
      /\ d.presence = c.presence /\ d.capacity = c.capacity /\ d.span = c.span /\ d.nextSeq = c.nextSeq
  BY <1>1, <1>4, <1>6 DEF Inbox!TtlCache
<1>8. e # NoOne
  BY <1>5, NoOneAssumption
<1>9. Inbox!Held(d) = Inbox!Held(c)
  BY <1>2, <1>6, <1>7, <1>8 DEF Inbox!Held
<1>10. \A j \in Inbox!Held(c) :
            /\ d.entries[j].epoch = c.entries[j].epoch /\ d.entries[j].seq = c.entries[j].seq
            /\ d.entries[j].value.at = c.entries[j].value.at
  <2> SUFFICES ASSUME NEW j \in Inbox!Held(c)
               PROVE  /\ d.entries[j].epoch = c.entries[j].epoch /\ d.entries[j].seq = c.entries[j].seq
                      /\ d.entries[j].value.at = c.entries[j].value.at
    OBVIOUS
  <2>1. CASE j = id
    BY <1>3, <1>5, <1>6, <1>7, <2>1
  <2>2. CASE j # id
    BY <1>6, <1>7, <2>2, HeldFinite
  <2> QED BY <2>1, <2>2
<1>11. Kind(d)
  BY <1>7 DEF InboxGood, Kind
<1>12. Told(d)
  BY <1>7, <1>9, <1>10 DEF InboxGood, Told
<1>13. InTurn(d) /\ UpTo(d, last, time) /\ Fits(d)
  BY <1>9, <1>10 DEF InboxGood, InTurn, UpTo, Fits
<1> QED BY <1>3, <1>5, <1>6, <1>7, <1>9, <1>11, <1>12, <1>13, HeldFinite DEF InboxGood

LEMMA LeastId ==
    ASSUME NEW S, S \subseteq Nat, S # {}
    PROVE  \E m \in S : \A j \in S : m <= j
<1>1. PICK m \in S : \A j \in S : ~ (<<j, m>> \in OpToRel(<, Nat))
  BY NatLessThanWellFounded, WFMin
<1>2. ASSUME NEW j \in S PROVE m <= j
  <2>1. ~ (j < m)
    BY <1>1 DEF OpToRel
  <2> QED BY <2>1
<1> QED BY <1>2

\* The first in the order is the one with the least id.
LEMMA FirstsLeast ==
    ASSUME NEW c, NEW last, NEW time, InboxGood(c, last, time), NEW id \in Inbox!Held(c)
    PROVE  id \in {p[3] : p \in Inbox!Firsts(c.order)} <=> \A j \in Inbox!Held(c) : id <= j
<1> DEFINE At(i) == <<c.entries[i].epoch, c.entries[i].seq, i>>
<1>1. c.order = {At(i) : i \in Inbox!Held(c)}
  BY DEF InboxGood, Told
<1>2. \A i \in Inbox!Held(c) : At(i)[3] = i /\ At(i)[1] = c.entries[i].epoch /\ At(i)[2] = c.entries[i].seq
  OBVIOUS
<1>3. \A i \in Inbox!Held(c) : i \in Nat /\ c.entries[i].epoch \in Nat /\ c.entries[i].seq \in Nat
  BY TurnOfHeld
<1>4. \A i, j \in Inbox!Held(c) : i < j => Inbox!Before(At(i), At(j)) /\ ~ Inbox!Before(At(j), At(i))
  BY <1>2, <1>3 DEF InboxGood, InTurn, Inbox!Before
<1> HIDE DEF At
<1>5. ASSUME id \in {p[3] : p \in Inbox!Firsts(c.order)}, NEW j \in Inbox!Held(c) PROVE id <= j
  <2>1. PICK p \in Inbox!Firsts(c.order) : p[3] = id
    BY <1>5
  <2>2. p = At(id)
    BY <1>1, <1>2, <2>1 DEF Inbox!Firsts
  <2>3. j # id => Inbox!Before(At(id), At(j))
    BY <1>1, <1>2, <2>2 DEF Inbox!Firsts
  <2>4. ~ (j < id)
    BY <1>3, <1>4, <2>3
  <2> QED BY <1>3, <2>4
<1>6. ASSUME \A j \in Inbox!Held(c) : id <= j PROVE id \in {p[3] : p \in Inbox!Firsts(c.order)}
  <2>1. ASSUME NEW q \in c.order \ {At(id)} PROVE Inbox!Before(At(id), q)
    <3>1. PICK j \in Inbox!Held(c) : q = At(j)
      BY <1>1
    <3>2. id < j
      BY <1>3, <1>6, <2>1, <3>1
    <3> QED BY <1>4, <3>1, <3>2
  <2>2. At(id) \in Inbox!Firsts(c.order)
    BY <1>1, <2>1 DEF Inbox!Firsts
  <2> QED BY <1>2, <2>2
<1> QED BY <1>5, <1>6

\* What is left of an inbox that makes room: less than it may hold, and if it was
\* full it is the oldest that went.
LEMMA TrimmedGood ==
    ASSUME NEW c, NEW last, NEW time, InboxGood(c, last, time), NEW d \in Trimmed(c)
    PROVE  /\ InboxGood(d, last, time) /\ Inbox!Held(d) \subseteq Inbox!Held(c)
           /\ \A id \in Inbox!Held(d) : d.entries[id] = c.entries[id]
           /\ Cardinality(Inbox!Held(d)) < MaxInbox
           /\ \A id \in Inbox!Held(c) \ Inbox!Held(d) :
                id \in Young(c) => /\ Cardinality(Inbox!Held(c)) >= MaxInbox
                                   /\ \A j \in Young(c) : id <= j
<1>1. CASE Cardinality(Inbox!Held(c)) < MaxInbox
  BY <1>1 DEF Trimmed
<1>2. CASE ~ (Cardinality(Inbox!Held(c)) < MaxInbox)
  <2>1. PICK e \in Inbox!Compacted(c) : d = Inbox!RemovedAt(e, Inbox!Firsts(e.order))
    BY <1>2 DEF Trimmed
  <2>2. Shrunk(c, e, Young(c))
    BY CompactedShrinks
  <2>3. InboxGood(e, last, time) /\ Inbox!Held(e) = Young(c)
    BY <2>2, ShrunkGood
  <2> DEFINE gone == {p[3] : p \in Inbox!Firsts(e.order)}
  <2>4. Shrunk(e, d, Young(c) \ gone)
    BY <2>1, <2>3, RemovedAtShrinks DEF Inbox!Firsts
  <2>5. InboxGood(d, last, time) /\ Inbox!Held(d) = Young(c) \ gone
    BY <2>3, <2>4, ShrunkGood
  <2>6. \A id \in Young(c) : id \in gone <=> \A j \in Young(c) : id <= j
    BY <2>3, FirstsLeast
  <2>7. \A id \in Inbox!Held(d) : d.entries[id] = c.entries[id]
    BY <2>2, <2>4, <2>5 DEF Shrunk
  <2> HIDE DEF gone
  <2>8. Cardinality(Young(c) \ gone) < MaxInbox
    <3>1. /\ IsFiniteSet(Young(c)) /\ Young(c) \subseteq Nat
          /\ Cardinality(Young(c)) \in Nat /\ Cardinality(Young(c)) <= MaxInbox
      BY <2>3, HeldFinite, IdsFacts DEF InboxGood, Fits
    <3>2. CASE Young(c) = {}
      BY <3>2, FS_EmptySet, IdsFacts
    <3>3. CASE Young(c) # {}
      <4>1. PICK m \in Young(c) : \A j \in Young(c) : m <= j
        BY <3>1, <3>3, LeastId
      <4>2. m \in gone
        BY <2>6, <4>1
      <4>3. Cardinality(Young(c) \ {m}) = Cardinality(Young(c)) - 1 /\ IsFiniteSet(Young(c) \ {m})
        BY <3>1, FS_RemoveElement
      <4>4. /\ Cardinality(Young(c) \ gone) <= Cardinality(Young(c) \ {m})
            /\ Cardinality(Young(c) \ gone) \in Nat
        BY <4>2, <4>3, FS_Subset, FS_CardinalityType
      <4> QED BY <3>1, <4>3, <4>4, IdsFacts
    <3> QED BY <3>2, <3>3
  <2>9. Young(c) \subseteq Inbox!Held(c) /\ Cardinality(Inbox!Held(c)) >= MaxInbox
    BY <1>2, HeldFinite, IdsFacts DEF Young
  <2> QED BY <2>5, <2>6, <2>7, <2>8, <2>9
<1> QED BY <1>1, <1>2

\* Pruning lets go of no pending knock whose time is not over.
LEMMA PrunedGood ==
    ASSUME EntryTypeOK, InboxGood(inbox, lastId, clock), NEW d \in Pruned
    PROVE  /\ InboxGood(d, lastId, clock) /\ Inbox!Held(d) \subseteq Inbox!Held(inbox)
           /\ \A id \in Inbox!Held(d) : d.entries[id] = inbox.entries[id]
           /\ \A id \in Young(inbox) : inbox.entries[id].value.status = "pending" => id \in Inbox!Held(d)
<1> DEFINE stale == {id \in Inbox!Held(inbox) : Lapsed(inbox.entries[id].value)}
<1>1. CASE stale = {}
  BY <1>1 DEF Pruned, Young
<1>2. CASE stale # {}
  <2>1. PICK c \in Inbox!Compacted(inbox) : d = Inbox!RemovedAt(c, {p \in c.order : p[3] \in stale})
    BY <1>2 DEF Pruned
  <2>2. Shrunk(inbox, c, Young(inbox))
    BY CompactedShrinks
  <2>3. InboxGood(c, lastId, clock) /\ Inbox!Held(c) = Young(inbox)
    BY <2>2, ShrunkGood
  <2> DEFINE P == {p \in c.order : p[3] \in stale}
             gone == {p[3] : p \in P}
  <2>4. Shrunk(c, d, Young(inbox) \ gone)
    BY <2>1, <2>3, RemovedAtShrinks
  <2>5. InboxGood(d, lastId, clock) /\ Inbox!Held(d) = Young(inbox) \ gone
    BY <2>3, <2>4, ShrunkGood
  <2>6. \A id \in Inbox!Held(d) : d.entries[id] = inbox.entries[id]
    BY <2>2, <2>4, <2>5 DEF Shrunk
  <2>7. ASSUME NEW id \in Young(inbox), inbox.entries[id].value.status = "pending" PROVE id \notin gone
    <3>1. /\ clock - inbox.entries[id].value.at < PendingSpan
          /\ inbox.entries[id].value.at \in Nat /\ clock \in Nat
      BY TurnOfHeld DEF Young, EntryTypeOK
    <3>2. ~ Lapsed(inbox.entries[id].value)
      BY <2>7, <3>1, IdsFacts DEF Lapsed
    <3> QED BY <3>2
  <2> QED BY <2>5, <2>6, <2>7 DEF Young
<1> QED BY <1>1, <1>2

-----------------------------------------------------------------------------
(* Steps of handlers                                                        *)

\* What a handler is about after a step.
LEMMA WorkStep ==
    ASSUME EntryTypeOK, NEW t \in Workers, NEW m \in Course \cup {NoOne}, m # NoOne => TaskSound(m),
           work' = [work EXCEPT ![t] = m]
    PROVE  /\ work' \in [Workers -> Course \cup {NoOne}] /\ work'[t] = m
           /\ \A u \in Workers : work'[u] # NoOne => TaskSound(work'[u])
           /\ \A u \in Workers \ {t} : work'[u] = work[u]
BY DEF EntryTypeOK

\* Who was entitled still is, or is being seen to.
Seen(d) == \E t \in Workers : work[t] # NoOne /\ work[t].at = "allow" /\ work[t].who = d

LEMMA EntitledStays ==
    ASSUME EntitledEnter, NEW d \in Entitled, allowed \subseteq allowed',
           \A t \in Workers : Reaches(t, "allow") => work'[t] = work[t] \/ work[t].who \in allowed'
    PROVE  d \in allowed' \/ Seen(d)'
<1>1. CASE d \in allowed
  BY <1>1
<1>2. CASE \E t \in Busy : Reaches(t, "allow") /\ work[t].who = d
  <2>1. PICK t \in Busy : Reaches(t, "allow") /\ work[t].who = d
    BY <1>2
  <2>2. t \in Workers /\ work[t] # NoOne /\ work[t].at = "allow"
    BY <2>1 DEF Busy, Reaches
  <2> QED BY <2>1, <2>2 DEF Seen
<1> QED BY <1>1, <1>2 DEF EntitledEnter, can_enter_world

LEMMA EntitledFromSeen ==
    ASSUME \A d \in Entitled' : d \in allowed' \/ Seen(d)'
    PROVE  EntitledEnter'
BY DEF EntitledEnter, can_enter_world, Seen, Busy, Reaches

\* Nobody is entitled by an inbox that only lost knocks.
LEMMA EntitledOfFewer ==
    ASSUME owner' = owner, Inbox!Held(inbox)' \subseteq Inbox!Held(inbox),
           \A id \in Inbox!Held(inbox)' : inbox'.entries[id] = inbox.entries[id]
    PROVE  Entitled' \subseteq Entitled
BY DEF Entitled, Knocks

\* A step that nobody's letting in is disturbed by, and that entitles nobody.
LEMMA EntitledFewer ==
    ASSUME EntitledEnter, owner' = owner, allowed \subseteq allowed',
           Inbox!Held(inbox)' \subseteq Inbox!Held(inbox),
           \A id \in Inbox!Held(inbox)' : inbox'.entries[id] = inbox.entries[id],
           \A t \in Workers : Reaches(t, "allow") => work'[t] = work[t] \/ work[t].who \in allowed'
    PROVE  EntitledEnter'
BY EntitledOfFewer, EntitledStays, EntitledFromSeen

\* A handler under way that goes on, or ends, leaves alone who was.
LEMMA LoneGoesOn ==
    ASSUME EntryInv, NEW t \in Workers, work[t] # NoOne, NEW m \in Course \cup {NoOne},
           work' = [work EXCEPT ![t] = m], lone' = lone,
           t \in lone /\ m # NoOne /\ m.op = "tag" =>
                /\ m.at \in {"map", "keep", "lang"}
                /\ m.at # "map" =>
                    /\ lang' # Unreadable
                    /\ m.lang = (IF lang' = NoOne THEN {} ELSE lang') \cup {m.tag}
                /\ m.at = "lang" => config' = m.lang
    PROVE  LoneSound'
<1> SUFFICES ASSUME NEW u \in lone
             PROVE  /\ Busy' \subseteq {u}
                    /\ (work'[u] # NoOne /\ work'[u].op = "tag") =>
                        /\ work'[u].at \in {"map", "keep", "lang"}
                        /\ work'[u].at # "map" =>
                            /\ lang' # Unreadable
                            /\ work'[u].lang = (IF lang' = NoOne THEN {} ELSE lang') \cup {work'[u].tag}
                        /\ work'[u].at = "lang" => config' = work'[u].lang
  BY DEF LoneSound
<1>1. Busy \subseteq {u} /\ t \in Busy
  BY DEF EntryInv, LoneSound, Busy
<1>2. u = t
  BY <1>1
<1>3. Busy' \subseteq Busy
  BY <1>1 DEF Busy, EntryInv, EntryTypeOK
<1>4. work'[u] = m
  BY <1>2 DEF EntryInv, EntryTypeOK
<1> HIDE DEF Busy
<1> QED BY <1>1, <1>2, <1>3, <1>4

\* One that begins about a tag has nobody beside it or is not alone.
LEMMA LoneBegins ==
    ASSUME EntryInv, NEW t \in Workers, NEW m \in Course, Begins(t, m), m.op = "tag" => m.at = "map"
    PROVE  LoneSound'
<1> SUFFICES ASSUME NEW u \in lone'
             PROVE  /\ Busy' \subseteq {u}
                    /\ (work'[u] # NoOne /\ work'[u].op = "tag") => work'[u].at = "map"
  BY DEF LoneSound
<1>1. u = t /\ Busy = {} /\ m.op = "tag"
  BY DEF Begins
<1>2. work' = [work EXCEPT ![t] = m] /\ work \in [Workers -> Course \cup {NoOne}]
  BY DEF Begins, EntryInv, EntryTypeOK
<1>3. Busy' \subseteq {t}
  BY <1>1, <1>2 DEF Busy
<1>4. work'[t] = m
  BY <1>2
<1> QED BY <1>1, <1>3, <1>4

\* A call that begins: nobody is let in by it, and nobody's letting in waits.
LEMMA BeginStep ==
    ASSUME EntryInv, NEW t \in Workers, NEW m \in Course, Begins(t, m), TaskSound(m),
           m.op = "tag" => m.at = "map",
           UNCHANGED <<owner, allowed, lastId, lang, config, kept, clock>>,
           InboxGood(inbox, lastId, clock)', Inbox!Held(inbox)' \subseteq Inbox!Held(inbox),
           \A id \in Inbox!Held(inbox)' : inbox'.entries[id] = inbox.entries[id]
    PROVE  EntryInv'
<1>1. work' = [work EXCEPT ![t] = m] /\ work[t] = NoOne /\ lone' \subseteq Workers
  BY DEF Begins
<1>2. /\ work' \in [Workers -> Course \cup {NoOne}]
      /\ \A u \in Workers : work'[u] # NoOne => TaskSound(work'[u])
      /\ \A u \in Workers \ {t} : work'[u] = work[u]
  BY <1>1, WorkStep DEF EntryInv
<1>3. EntryTypeOK'
  BY <1>1, <1>2 DEF EntryInv, EntryTypeOK
<1>4. EntitledEnter'
  BY <1>1, <1>2, EntitledFewer DEF EntryInv, Reaches
<1>5. LoneSound'
  BY LoneBegins
<1> QED BY <1>3, <1>4, <1>5 DEF EntryInv

\* A call that is not about to let anybody in goes on, or ends, and the inbox stays.
LEMMA GoOnStep ==
    ASSUME EntryInv, NEW t \in Workers, work[t] # NoOne, work[t].at # "allow",
           NEW m \in Course \cup {NoOne}, m # NoOne => TaskSound(m),
           work' = [work EXCEPT ![t] = m], lone' = lone,
           t \in lone /\ m # NoOne /\ m.op = "tag" =>
                /\ m.at \in {"map", "keep", "lang"}
                /\ m.at # "map" =>
                    /\ lang' # Unreadable
                    /\ m.lang = (IF lang' = NoOne THEN {} ELSE lang') \cup {m.tag}
                /\ m.at = "lang" => config' = m.lang,
           lang' \in LangCids \cup {NoOne}, config' \in LangCids \cup {NoOne},
           kept' \in [owner : Roots, lang : LangCids \cup {NoOne}] \cup {NoOne},
           UNCHANGED <<owner, allowed, inbox, lastId, clock>>
    PROVE  EntryInv'
<1>1. /\ work' \in [Workers -> Course \cup {NoOne}]
      /\ \A u \in Workers : work'[u] # NoOne => TaskSound(work'[u])
      /\ \A u \in Workers \ {t} : work'[u] = work[u]
  BY WorkStep DEF EntryInv
<1>2. EntryTypeOK'
  BY <1>1 DEF EntryInv, EntryTypeOK
<1>3. InboxGood(inbox, lastId, clock)' /\ Inbox!Held(inbox)' = Inbox!Held(inbox)
  BY DEF EntryInv, InboxGood, Kind, Told, InTurn, UpTo, Fits, Inbox!Held, Inbox!TtlCache, Inbox!CacheEntry
<1>4. EntitledEnter'
  BY <1>1, <1>3, EntitledFewer DEF EntryInv, Reaches
<1>5. LoneSound'
  BY LoneGoesOn
<1> QED BY <1>2, <1>3, <1>4, <1>5 DEF EntryInv

LEMMA CallReached ==
    ASSUME EntryInv, NEW t \in Workers, NEW step, Reaches(t, step)
    PROVE  work[t] \in Course /\ TaskSound(work[t]) /\ work[t].at = step /\ work[t] # NoOne
BY DEF EntryInv, EntryTypeOK, Reaches

LEMMA BlankIsCourse == Blank \in Course
BY DEF Blank, Course

-----------------------------------------------------------------------------
(* Every action keeps what they rely on                                     *)

LEMMA InboxNew == InboxGood(Inbox!New(PendingSpan, MaxInbox), 0, clock)
<1> DEFINE c == Inbox!New(PendingSpan, MaxInbox)
<1>1. c \in Inbox!TtlCache
  BY IdsFacts DEF Inbox!New, Inbox!Empty, Inbox!TtlCache
<1>2. Inbox!Held(c) = {}
  BY DEF Inbox!Held, Inbox!New, Inbox!Empty
<1>3. Kind(c) /\ Told(c)
  BY <1>1, <1>2 DEF Kind, Told, Inbox!New, Inbox!Empty
<1>4. Fits(c)
  BY <1>2, FS_EmptySet, IdsFacts DEF Fits
<1> HIDE DEF c
<1>5. InboxGood(c, 0, clock)
  BY <1>2, <1>3, <1>4 DEF InboxGood, InTurn, UpTo
<1> QED BY <1>5 DEF c

\* A good inbox is so for more knocks, and later.
LEMMA GoodLater ==
    ASSUME NEW c, NEW last, NEW time \in Nat, InboxGood(c, last, time),
           NEW later \in Nat, time <= later
    PROVE  InboxGood(c, last, later)
<1>1. ASSUME NEW id \in Inbox!Held(c) PROVE id <= last /\ c.entries[id].epoch <= later
  <2>1. id <= last /\ c.entries[id].epoch \in Nat /\ c.entries[id].epoch <= time
    BY TurnOfHeld
  <2> QED BY <2>1
<1> QED BY <1>1 DEF InboxGood, UpTo

LEMMA EntryStart == EntryInit => EntryInv
<1> SUFFICES ASSUME EntryInit PROVE EntryInv
  OBVIOUS
<1>1. EntryTypeOK
  BY KnownAssumption, NoOneAssumption DEF EntryInit, EntryTypeOK, Known
<1>2. InboxGood(inbox, lastId, clock)
  BY InboxNew DEF EntryInit
<1>3. Inbox!Held(inbox) = {}
  BY DEF EntryInit, Inbox!Held, Inbox!New, Inbox!Empty
<1>4. EntitledEnter
  BY <1>3 DEF EntryInit, EntitledEnter, Entitled, Knocks, can_enter_world
<1> QED BY <1>1, <1>2, <1>4 DEF EntryInv, LoneSound, EntryInit

LEMMA AllowStep == ASSUME EntryInv, NEW t \in Workers, Allow(t) PROVE EntryInv'
<1>1. work[t] \in Course /\ TaskSound(work[t]) /\ work[t].at = "allow" /\ work[t] # NoOne
  BY CallReached DEF Allow
<1>2. /\ allowed' = allowed \cup {work[t].who}
      /\ UNCHANGED <<owner, inbox, lastId, lang, config, kept, clock>>
  BY DEF Allow
<1>3. /\ lone' = lone
      /\ \/ work' = [work EXCEPT ![t] = NoOne]
         \/ work' = [work EXCEPT ![t] = [work[t] EXCEPT !.at = "lang"]] /\ work[t].op = "load"
  BY DEF Allow, Ends, Proceeds
<1>4. PICK m \in Course \cup {NoOne} :
        work' = [work EXCEPT ![t] = m] /\ (m # NoOne => TaskSound(m) /\ m.op = "load")
  <2> DEFINE n == [work[t] EXCEPT !.at = "lang"]
  <2>1. n \in Course
    BY <1>1 DEF Course
  <2>2. /\ n.op = work[t].op /\ n.who = work[t].who /\ n.hall = work[t].hall
        /\ n.id = work[t].id /\ n.at = "lang" /\ n.tag = work[t].tag
    BY <1>1 DEF Course
  <2>3. TaskSound(n)
    BY <1>1, <2>2 DEF TaskSound
  <2> HIDE DEF n
  <2> QED BY <1>3, <2>1, <2>2, <2>3 DEF n
<1>5. /\ work' \in [Workers -> Course \cup {NoOne}]
      /\ \A u \in Workers : work'[u] # NoOne => TaskSound(work'[u])
      /\ \A u \in Workers \ {t} : work'[u] = work[u]
  BY <1>4, WorkStep DEF EntryInv
<1>6. EntryTypeOK'
  BY <1>1, <1>2, <1>3, <1>5 DEF EntryInv, EntryTypeOK, TaskSound
<1>7. InboxGood(inbox, lastId, clock)' /\ Inbox!Held(inbox)' = Inbox!Held(inbox)
  BY <1>2 DEF EntryInv, InboxGood, Kind, Told, InTurn, UpTo, Fits, Inbox!Held, Inbox!TtlCache, Inbox!CacheEntry
<1>8. EntitledEnter'
  BY <1>2, <1>5, <1>7, EntitledFewer DEF EntryInv
<1>9. LoneSound'
  BY <1>1, <1>3, <1>4, LoneGoesOn
<1> QED BY <1>6, <1>7, <1>8, <1>9 DEF EntryInv

LEMMA InviteStep == ASSUME EntryInv, NEW d \in Visitors, Invite(d) PROVE EntryInv'
<1>1. allowed' = allowed \cup {d} /\ UNCHANGED <<owner, inbox, lastId, lang, config, kept, work, lone, clock>>
  BY DEF Invite
<1>2. EntryTypeOK'
  BY <1>1 DEF EntryInv, EntryTypeOK, Known
<1>3. InboxGood(inbox, lastId, clock)' /\ Inbox!Held(inbox)' = Inbox!Held(inbox)
  BY <1>1 DEF EntryInv, InboxGood, Kind, Told, InTurn, UpTo, Fits, Inbox!Held, Inbox!TtlCache, Inbox!CacheEntry
<1>4. EntitledEnter'
  BY <1>1, <1>3, EntitledFewer DEF EntryInv
<1>5. LoneSound'
  BY <1>1 DEF EntryInv, LoneSound, Busy
<1> QED BY <1>2, <1>3, <1>4, <1>5 DEF EntryInv

LEMMA PruneStep == ASSUME EntryInv, NEW t \in Workers, Prune(t) PROVE EntryInv'
<1>1. UNCHANGED <<owner, allowed, lastId, lang, config, kept, clock>> /\ inbox' \in Pruned
  BY DEF Prune
<1>2. /\ InboxGood(inbox', lastId, clock) /\ Inbox!Held(inbox') \subseteq Inbox!Held(inbox)
      /\ \A id \in Inbox!Held(inbox') : inbox'.entries[id] = inbox.entries[id]
  BY <1>1, PrunedGood DEF EntryInv
<1>3. Inbox!Held(inbox') = Inbox!Held(inbox)'
  BY DEF Inbox!Held
<1>4. InboxGood(inbox, lastId, clock)'
  BY <1>1, <1>2 DEF InboxGood, Kind, Told, InTurn, UpTo, Fits, Inbox!Held, Inbox!TtlCache, Inbox!CacheEntry
<1>5. ASSUME NEW m \in Course, Begins(t, m), TaskSound(m), m.op # "tag" PROVE EntryInv'
  BY <1>1, <1>2, <1>3, <1>4, <1>5, BeginStep
<1>6. ASSUME NEW d \in Visitors, NEW h \in Halls, Begins(t, [Blank EXCEPT !.who = d, !.hall = h])
      PROVE  EntryInv'
  <2> DEFINE m == [Blank EXCEPT !.who = d, !.hall = h]
  <2>1. m \in Course /\ TaskSound(m) /\ m.op # "tag"
    BY DEF Blank, Course, TaskSound, Known
  <2> HIDE DEF m
  <2> QED BY <1>5, <1>6, <2>1 DEF m
<1>7. ASSUME NEW op \in {"accept", "reject", "delete"}, NEW id \in Ids,
             Begins(t, [Blank EXCEPT !.op = op, !.id = id])
      PROVE  EntryInv'
  <2> DEFINE m == [Blank EXCEPT !.op = op, !.id = id]
  <2>1. m \in Course /\ TaskSound(m) /\ m.op # "tag"
    BY DEF Blank, Course, TaskSound
  <2>2. Begins(t, m)
    BY <1>7
  <2> HIDE DEF m
  <2> QED BY <1>5, <2>1, <2>2
<1>8. CASE UNCHANGED <<work, lone>>
  <2>1. EntryTypeOK'
    BY <1>1, <1>8 DEF EntryInv, EntryTypeOK
  <2>2. EntitledEnter'
    BY <1>1, <1>2, <1>3, <1>8, EntitledFewer DEF EntryInv
  <2>3. LoneSound'
    BY <1>1, <1>8 DEF EntryInv, LoneSound, Busy
  <2> QED BY <1>4, <2>1, <2>2, <2>3 DEF EntryInv
<1> QED BY <1>6, <1>7, <1>8 DEF Prune

\* Whoever knocks is given a number above all others, or told of the knock there is.
LEMMA EnqueueStep == ASSUME EntryInv, NEW t \in Workers, Enqueue(t) PROVE EntryInv'
<1>1. work[t] \in Course /\ TaskSound(work[t]) /\ work[t].at = "decide" /\ work[t] # NoOne /\ work[t].op = "knock"
  BY CallReached DEF Enqueue
<1>2. /\ UNCHANGED <<owner, allowed, lang, config, kept, clock>> /\ lone' = lone
      /\ work' = [work EXCEPT ![t] = NoOne]
  BY DEF Enqueue, Ends
<1>3. /\ work' \in [Workers -> Course \cup {NoOne}]
      /\ \A u \in Workers : work'[u] # NoOne => TaskSound(work'[u])
      /\ \A u \in Workers \ {t} : work'[u] = work[u]
  BY <1>2, WorkStep DEF EntryInv
<1>4. LoneSound'
  BY <1>1, <1>2, LoneGoesOn
<1>5. CASE UNCHANGED <<inbox, lastId>>
  BY <1>1, <1>2, <1>5, GoOnStep DEF EntryInv, EntryTypeOK
<1>6. CASE /\ lastId + 1 \in Ids /\ lastId' = lastId + 1
           /\ \E c \in Trimmed(inbox) : \E d \in Inbox!Compacted(c) :
                inbox' = Inbox!Inserted(d, lastId + 1,
                    [who |-> work[t].who, hall |-> work[t].hall, at |-> clock, decided |-> clock,
                     status |-> "pending"], clock)
  <2> DEFINE k == [who |-> work[t].who, hall |-> work[t].hall, at |-> clock, decided |-> clock,
                   status |-> "pending"]
  <2>1. PICK c \in Trimmed(inbox) : \E d \in Inbox!Compacted(c) :
                inbox' = Inbox!Inserted(d, lastId + 1, k, clock)
    BY <1>6
  <2>2. PICK d \in Inbox!Compacted(c) : inbox' = Inbox!Inserted(d, lastId + 1, k, clock)
    BY <2>1
  <2>3. lastId \in Nat /\ clock \in Nat
    BY DEF EntryInv, EntryTypeOK
  <2>4. k \in KnockMessage /\ k.at = clock /\ k.status = "pending"
    BY <1>1, <2>3 DEF TaskSound, KnockMessage
  <2> HIDE DEF k
  <2>5. /\ InboxGood(c, lastId, clock) /\ Inbox!Held(c) \subseteq Inbox!Held(inbox)
        /\ \A id \in Inbox!Held(c) : c.entries[id] = inbox.entries[id]
        /\ Cardinality(Inbox!Held(c)) < MaxInbox
    BY TrimmedGood DEF EntryInv
  <2>6. Shrunk(c, d, Young(c))
    BY <2>5, CompactedShrinks
  <2>7. InboxGood(d, lastId, clock) /\ Inbox!Held(d) = Young(c)
    BY <2>5, <2>6, ShrunkGood
  <2>8. Cardinality(Inbox!Held(d)) < MaxInbox
    <3>1. Young(c) \subseteq Inbox!Held(c)
      BY DEF Young
    <3>2. /\ Cardinality(Young(c)) <= Cardinality(Inbox!Held(c))
          /\ Cardinality(Inbox!Held(c)) \in Nat /\ Cardinality(Young(c)) \in Nat
      BY <3>1, HeldFinite, FS_Subset, FS_CardinalityType
    <3> QED BY <2>5, <2>7, <3>2, IdsFacts
  <2>9. /\ InboxGood(inbox', lastId + 1, clock)
        /\ Inbox!Held(inbox') = Inbox!Held(d) \cup {lastId + 1}
        /\ \A id \in Inbox!Held(d) : inbox'.entries[id] = d.entries[id]
        /\ inbox'.entries[lastId + 1].value = k
    BY <1>6, <2>2, <2>3, <2>4, <2>7, <2>8, InsertedGood
  <2>10. Inbox!Held(inbox') = Inbox!Held(inbox)'
    BY DEF Inbox!Held
  <2>11. InboxGood(inbox, lastId, clock)'
    BY <1>2, <1>6, <2>9 DEF InboxGood, Kind, Told, InTurn, UpTo, Fits, Inbox!Held, Inbox!TtlCache, Inbox!CacheEntry
  <2>12. EntryTypeOK'
    BY <1>2, <1>3, <1>6, <2>3 DEF EntryInv, EntryTypeOK
  <2>13. Entitled' \subseteq Entitled
    <3>1. \A id \in Inbox!Held(d) : id \in Inbox!Held(inbox) /\ inbox'.entries[id] = inbox.entries[id]
      BY <2>5, <2>6, <2>7, <2>9 DEF Shrunk
    <3> QED BY <1>2, <2>4, <2>9, <2>10, <3>1 DEF Entitled, Knocks
  <2>14. EntitledEnter'
    BY <1>1, <1>2, <1>3, <2>13, EntitledStays, EntitledFromSeen DEF EntryInv, Reaches
  <2> QED BY <1>4, <2>11, <2>12, <2>14 DEF EntryInv
<1> QED BY <1>5, <1>6 DEF Enqueue

\* Whose knock is accepted is about to be let in by the handler that accepted it.
LEMMA DecideStep == ASSUME EntryInv, NEW t \in Workers, Decide(t) PROVE EntryInv'
<1>1. /\ work[t] \in Course /\ TaskSound(work[t]) /\ work[t].at = "decide" /\ work[t] # NoOne
      /\ work[t].op \in {"accept", "reject"} /\ work[t].id \in Ids
  BY CallReached DEF Decide, TaskSound
<1>2. UNCHANGED <<owner, allowed, lastId, lang, config, kept, clock>> /\ lone' = lone
  BY DEF Decide, Ends
<1> DEFINE i == work[t].id
<1>3. PICK c \in Inbox!Compacted(inbox) :
        \/ ~Decidable(c, i) /\ inbox' = c /\ Ends(t)
        \/ /\ Decidable(c, i) /\ work[t].op = "reject"
           /\ inbox' = Decided(c, i, "rejected")
           /\ Ends(t)
        \/ /\ Decidable(c, i) /\ work[t].op = "accept"
           /\ inbox' = Decided(c, i, "accepted")
           /\ work' = [work EXCEPT ![t].at = "allow",
                                   ![t].who = Admittee(c.entries[i].value)]
  BY DEF Decide
<1>4. Shrunk(inbox, c, Young(inbox))
  BY CompactedShrinks DEF EntryInv
<1>5. InboxGood(c, lastId, clock) /\ Inbox!Held(c) = Young(inbox)
  BY <1>4, ShrunkGood DEF EntryInv
<1>6. \A id \in Inbox!Held(c) : id \in Inbox!Held(inbox) /\ c.entries[id] = inbox.entries[id]
  BY <1>4, <1>5 DEF Shrunk
<1>7. Inbox!Held(inbox') = Inbox!Held(inbox)'
  BY DEF Inbox!Held
<1>8. ASSUME InboxGood(inbox', lastId, clock) PROVE InboxGood(inbox, lastId, clock)'
  BY <1>2, <1>8 DEF InboxGood, Kind, Told, InTurn, UpTo, Fits, Inbox!Held, Inbox!TtlCache, Inbox!CacheEntry
<1>9. ASSUME NEW m \in Course \cup {NoOne}, m # NoOne => TaskSound(m) /\ m.op # "tag",
             work' = [work EXCEPT ![t] = m], InboxGood(inbox', lastId, clock), Entitled' \subseteq Entitled \cup {m.who},
             m = NoOne => Entitled' \subseteq Entitled, m # NoOne => m.at = "allow"
      PROVE  EntryInv'
  <2>1. /\ work' \in [Workers -> Course \cup {NoOne}] /\ work'[t] = m
        /\ \A u \in Workers : work'[u] # NoOne => TaskSound(work'[u])
        /\ \A u \in Workers \ {t} : work'[u] = work[u]
    BY <1>9, WorkStep DEF EntryInv
  <2>2. EntryTypeOK'
    BY <1>2, <2>1 DEF EntryInv, EntryTypeOK
  <2>3. ASSUME NEW d \in Entitled' PROVE d \in allowed' \/ Seen(d)'
    <3>1. CASE d \in Entitled
      BY <1>1, <1>2, <2>1, <3>1, EntitledStays DEF EntryInv, Reaches
    <3>2. CASE m # NoOne /\ d = m.who
      BY <1>9, <2>1, <3>2 DEF Seen
    <3> QED BY <1>9, <3>1, <3>2
  <2>4. EntitledEnter'
    BY <2>3, EntitledFromSeen
  <2>5. LoneSound'
    BY <1>1, <1>2, <1>9, LoneGoesOn
  <2> QED BY <1>8, <1>9, <2>2, <2>4, <2>5 DEF EntryInv
<1>10. CASE ~Decidable(c, i) /\ inbox' = c /\ Ends(t)
  <2>1. Entitled' \subseteq Entitled
    BY <1>2, <1>6, <1>7, <1>10, EntitledOfFewer
  <2> QED BY <1>5, <1>9, <1>10, <2>1 DEF Ends
<1>11. CASE Decidable(c, i)
  <2>1. i \in Inbox!Held(c) /\ clock \in Nat
    BY <1>1, <1>11 DEF Decidable, Inbox!Held, EntryInv, EntryTypeOK
  <2>2. ASSUME NEW status \in {"accepted", "rejected"}, inbox' = Decided(c, i, status)
        PROVE  /\ InboxGood(inbox', lastId, clock) /\ Inbox!Held(inbox') = Inbox!Held(c)
               /\ \A j \in Inbox!Held(c) : j # i => inbox'.entries[j] = inbox.entries[j]
               /\ inbox'.entries[i].value.who = c.entries[i].value.who
               /\ inbox'.entries[i].value.status = status
    <3>1. InboxGood(c, lastId, clock) /\ i \in Inbox!Held(c) /\ clock \in Nat
      BY <1>5, <2>1
    <3> HIDE DEF i
    <3> DEFINE d == inbox'
    <3>2. d = Decided(c, i, status)
      BY <2>2
    <3> HIDE DEF d
    <3>3. /\ InboxGood(d, lastId, clock) /\ Inbox!Held(d) = Inbox!Held(c)
          /\ d.entries[i].value.who = c.entries[i].value.who
          /\ d.entries[i].value.status = status
      BY <3>1, <3>2, DecidedGood
    <3>4. ASSUME NEW j \in Inbox!Held(c), j # i PROVE d.entries[j] = c.entries[j]
      <4>1. c \in Inbox!TtlCache /\ j \in Ids
        BY <3>1, HeldFinite DEF InboxGood, Kind
      <4> QED BY <3>2, <3>4, <4>1 DEF Decided, Inbox!TtlCache
    <3> QED BY <1>6, <3>3, <3>4 DEF d
  <2>3. ASSUME NEW k \in Knocks(inbox)', inbox' = Decided(c, i, "accepted") \/ inbox' = Decided(c, i, "rejected"),
               k.status = "accepted"
        PROVE  \/ k \in Knocks(inbox)
               \/ inbox' = Decided(c, i, "accepted") /\ k.who = c.entries[i].value.who
    <3>1. PICK id \in Inbox!Held(inbox') : k = inbox'.entries[id].value
      BY <1>7, <2>3 DEF Knocks
    <3>2. CASE id # i
      <4>1. id \in Inbox!Held(inbox) /\ inbox'.entries[id] = inbox.entries[id]
        BY <1>6, <2>2, <2>3, <3>1, <3>2
      <4> QED BY <3>1, <4>1 DEF Knocks
    <3>3. CASE id = i
      BY <2>2, <2>3, <3>1, <3>3
    <3> QED BY <3>2, <3>3
  <2>4. CASE work[t].op = "reject" /\ inbox' = Decided(c, i, "rejected") /\ Ends(t)
    <3>1. InboxGood(inbox', lastId, clock) /\ ~ (inbox' = Decided(c, i, "accepted"))
      <4>1. inbox'.entries[i].value.status = "rejected" /\ InboxGood(inbox', lastId, clock)
        BY <2>2, <2>4
      <4>2. inbox' = Decided(c, i, "accepted") => inbox'.entries[i].value.status = "accepted"
        BY <2>2
      <4> QED BY <4>1, <4>2
    <3>2. Entitled' \subseteq Entitled
      BY <1>2, <2>3, <2>4, <3>1 DEF Entitled
    <3> QED BY <1>9, <2>4, <3>1, <3>2 DEF Ends
  <2>5. CASE /\ work[t].op = "accept" /\ inbox' = Decided(c, i, "accepted")
             /\ work' = [work EXCEPT ![t].at = "allow", ![t].who = Admittee(c.entries[i].value)]
    <3> DEFINE w == Admittee(c.entries[i].value)
               m == [work[t] EXCEPT !.at = "allow", !.who = w]
    <3>1. w \in Visitors /\ w = c.entries[i].value.who
      BY <1>5, <2>1, HeldEntry DEF InboxGood, KnockMessage, Admittee
    <3>2. m \in Course
      BY <1>1, <3>1 DEF Course, Known
    <3>3. m.at = "allow" /\ m.who = w /\ m.op = work[t].op /\ m.id = work[t].id /\ m.hall = work[t].hall
      BY <1>1 DEF Course
    <3>4. work' = [work EXCEPT ![t] = m]
      BY <2>5 DEF EntryInv, EntryTypeOK
    <3> HIDE DEF m, w
    <3>5. TaskSound(m) /\ m.op # "tag" /\ m # NoOne
      BY <1>1, <2>5, <3>1, <3>2, <3>3, NoOneAssumption DEF TaskSound, Known
    <3>6. Entitled' \subseteq Entitled \cup {m.who}
      BY <1>2, <2>3, <2>5, <3>1, <3>3 DEF Entitled
    <3>7. InboxGood(inbox', lastId, clock)
      BY <2>2, <2>5
    <3> QED BY <1>9, <3>2, <3>3, <3>4, <3>5, <3>6, <3>7
  <2> QED BY <1>3, <1>11, <2>4, <2>5
<1> QED BY <1>3, <1>10, <1>11

LEMMA DeleteStep == ASSUME EntryInv, NEW t \in Workers, Delete(t) PROVE EntryInv'
<1>1. work[t] \in Course /\ TaskSound(work[t]) /\ work[t].at = "decide" /\ work[t] # NoOne /\ work[t].id \in Ids
  BY CallReached DEF Delete, TaskSound
<1>2. /\ UNCHANGED <<owner, allowed, lastId, lang, config, kept, clock>> /\ lone' = lone
      /\ work' = [work EXCEPT ![t] = NoOne]
  BY DEF Delete, Ends
<1>3. PICK c \in Inbox!Compacted(inbox) : inbox' = Inbox!Removed(c, work[t].id)
  BY DEF Delete
<1>4. Shrunk(inbox, c, Young(inbox))
  BY CompactedShrinks DEF EntryInv
<1>5. InboxGood(c, lastId, clock) /\ Inbox!Held(c) = Young(inbox)
  BY <1>4, ShrunkGood DEF EntryInv
<1>6. Shrunk(c, inbox', Young(inbox) \ {work[t].id})
  BY <1>1, <1>3, <1>5, RemovedShrinks
<1>7. InboxGood(inbox', lastId, clock) /\ Inbox!Held(inbox') = Young(inbox) \ {work[t].id}
  BY <1>5, <1>6, ShrunkGood
<1>8. InboxGood(inbox, lastId, clock)' /\ Inbox!Held(inbox)' = Inbox!Held(inbox')
  BY <1>2, <1>7 DEF InboxGood, Kind, Told, InTurn, UpTo, Fits, Inbox!Held, Inbox!TtlCache, Inbox!CacheEntry
<1>9. \A id \in Inbox!Held(inbox') : id \in Inbox!Held(inbox) /\ inbox'.entries[id] = inbox.entries[id]
  BY <1>4, <1>6, <1>7 DEF Shrunk
<1>10. /\ work' \in [Workers -> Course \cup {NoOne}]
       /\ \A u \in Workers : work'[u] # NoOne => TaskSound(work'[u])
       /\ \A u \in Workers \ {t} : work'[u] = work[u]
  BY <1>2, WorkStep DEF EntryInv
<1>11. EntryTypeOK'
  BY <1>2, <1>10 DEF EntryInv, EntryTypeOK
<1>12. EntitledEnter'
  BY <1>1, <1>2, <1>8, <1>9, <1>10, EntitledFewer DEF EntryInv, Reaches
<1>13. LoneSound'
  BY <1>1, <1>2, LoneGoesOn
<1> QED BY <1>8, <1>11, <1>12, <1>13 DEF EntryInv

LEMMA FlushStep == ASSUME EntryInv, Flush PROVE EntryInv'
<1> DEFINE n == Inbox!New(PendingSpan, MaxInbox)
<1>1. /\ inbox' = [n EXCEPT !.nextSeq = inbox.nextSeq]
      /\ UNCHANGED <<owner, allowed, lastId, lang, config, kept, work, lone, clock>>
  BY DEF Flush
<1>2. inbox.nextSeq \in Nat /\ inbox \in Inbox!TtlCache
  BY DEF EntryInv, InboxGood, Kind, Inbox!TtlCache
<1>3. /\ inbox' \in Inbox!TtlCache /\ inbox'.entries = Inbox!Empty /\ inbox'.order = {}
      /\ inbox'.orderKey = Inbox!Empty /\ inbox'.presence = Inbox!Empty
      /\ inbox'.capacity = MaxInbox /\ inbox'.span = PendingSpan
  BY <1>1, <1>2, IdsFacts DEF Inbox!New, Inbox!Empty, Inbox!TtlCache
<1>4. Inbox!Held(inbox)' = {} /\ Inbox!Held(inbox') = {}
  BY <1>3 DEF Inbox!Held, Inbox!Empty
<1>5. Kind(inbox') /\ Told(inbox')
  BY <1>3, <1>4 DEF Kind, Told, Inbox!Empty
<1>6. Fits(inbox')
  BY <1>4, FS_EmptySet, IdsFacts DEF Fits
<1>7. InboxGood(inbox', lastId, clock)
  BY <1>4, <1>5, <1>6 DEF InboxGood, InTurn, UpTo
<1>8. InboxGood(inbox, lastId, clock)'
  BY <1>1, <1>7 DEF InboxGood, Kind, Told, InTurn, UpTo, Fits, Inbox!Held, Inbox!TtlCache, Inbox!CacheEntry
<1>9. EntryTypeOK'
  BY <1>1 DEF EntryInv, EntryTypeOK
<1>10. EntitledEnter'
  BY <1>1, <1>4, EntitledFewer DEF EntryInv
<1>11. LoneSound'
  BY <1>1 DEF EntryInv, LoneSound, Busy
<1> QED BY <1>8, <1>9, <1>10, <1>11 DEF EntryInv

\* Who is to own the world is first its owner and then let in.
LEMMA OwnStep == ASSUME EntryInv, NEW t \in Workers, Own(t) PROVE EntryInv'
<1>1. /\ work[t] \in Course /\ TaskSound(work[t]) /\ work[t].at = "own" /\ work[t] # NoOne
      /\ work[t].who \in Roots
  BY CallReached DEF Own, TaskSound
<1>2. /\ UNCHANGED <<allowed, inbox, lastId, lang, config, kept, clock>> /\ lone' = lone
      /\ owner' = work[t].who
      /\ work' = [work EXCEPT ![t] = [work[t] EXCEPT !.at = "allow"]]
  BY DEF Own, Proceeds
<1> DEFINE m == [work[t] EXCEPT !.at = "allow"]
<1>3. /\ m \in Course /\ m.at = "allow" /\ m.who = work[t].who /\ m.op = work[t].op
      /\ m.id = work[t].id /\ m.hall = work[t].hall /\ m.tag = work[t].tag
  BY <1>1 DEF Course
<1>4. work' = [work EXCEPT ![t] = m]
  BY <1>2
<1> HIDE DEF m
<1>5. TaskSound(m) /\ m # NoOne
  BY <1>1, <1>3, NoOneAssumption DEF TaskSound, Known
<1>6. /\ work' \in [Workers -> Course \cup {NoOne}] /\ work'[t] = m
      /\ \A u \in Workers : work'[u] # NoOne => TaskSound(work'[u])
      /\ \A u \in Workers \ {t} : work'[u] = work[u]
  BY <1>3, <1>4, <1>5, WorkStep DEF EntryInv
<1>7. EntryTypeOK'
  BY <1>1, <1>2, <1>6 DEF EntryInv, EntryTypeOK
<1>8. InboxGood(inbox, lastId, clock)' /\ Inbox!Held(inbox)' = Inbox!Held(inbox)
  BY <1>2 DEF EntryInv, InboxGood, Kind, Told, InTurn, UpTo, Fits, Inbox!Held, Inbox!TtlCache, Inbox!CacheEntry
<1>9. ASSUME NEW d \in Entitled' PROVE d \in allowed' \/ Seen(d)'
  <2>1. CASE d \in Entitled
    BY <1>1, <1>2, <1>6, <2>1, EntitledStays DEF EntryInv, Reaches
  <2>2. CASE d = owner'
    BY <1>2, <1>3, <1>5, <1>6, <2>2 DEF Seen
  <2> QED BY <1>2, <2>1, <2>2 DEF Entitled, Knocks, Inbox!Held
<1>10. EntitledEnter'
  BY <1>9, EntitledFromSeen
<1>11. LoneSound'
  <2>1. t \in lone => work[t].op # "tag"
    BY <1>1 DEF EntryInv, LoneSound
  <2> QED BY <1>1, <1>2, <1>3, <1>4, <2>1, LoneGoesOn
<1> QED BY <1>7, <1>8, <1>10, <1>11 DEF EntryInv

\* A call that begins elsewhere than in the inbox.
LEMMA AskStep ==
    ASSUME EntryInv, NEW t \in Workers, NEW m \in Course, Begins(t, m), TaskSound(m),
           m.op = "tag" => m.at = "map",
           UNCHANGED <<owner, allowed, inbox, lastId, lang, config, kept, clock>>
    PROVE  EntryInv'
<1>1. InboxGood(inbox, lastId, clock)' /\ Inbox!Held(inbox)' = Inbox!Held(inbox)
  BY DEF EntryInv, InboxGood, Kind, Told, InTurn, UpTo, Fits, Inbox!Held, Inbox!TtlCache, Inbox!CacheEntry
<1> QED BY <1>1, BeginStep

LEMMA AskOwnerStep == ASSUME EntryInv, NEW t \in Workers, AskOwner(t) PROVE EntryInv'
<1>1. PICK r \in Roots : Begins(t, [Blank EXCEPT !.at = "own", !.op = "owner", !.who = r])
  BY DEF AskOwner
<1> DEFINE m == [Blank EXCEPT !.at = "own", !.op = "owner", !.who = r]
<1>2. m \in Course /\ TaskSound(m) /\ m.op # "tag"
  BY DEF Blank, Course, TaskSound, Known
<1>3. Begins(t, m)
  BY <1>1
<1> HIDE DEF m
<1> QED BY <1>2, <1>3, AskStep DEF AskOwner

LEMMA AskLangStep == ASSUME EntryInv, NEW t \in Workers, AskLang(t) PROVE EntryInv'
<1>1. UNCHANGED <<owner, allowed, inbox, lastId, lang, config, kept, clock>>
  BY DEF AskLang
<1>2. ASSUME NEW cid \in LangCids, Begins(t, [Blank EXCEPT !.at = "keep", !.op = "attr", !.lang = cid])
      PROVE  EntryInv'
  <2> DEFINE m == [Blank EXCEPT !.at = "keep", !.op = "attr", !.lang = cid]
  <2>1. m \in Course /\ TaskSound(m) /\ m.op # "tag"
    BY DEF Blank, Course, TaskSound
  <2>2. Begins(t, m)
    BY <1>2
  <2> HIDE DEF m
  <2> QED BY <1>1, <2>1, <2>2, AskStep
<1>3. ASSUME NEW tag \in Tags, Begins(t, [Blank EXCEPT !.at = "map", !.op = "tag", !.tag = tag])
      PROVE  EntryInv'
  <2> DEFINE m == [Blank EXCEPT !.at = "map", !.op = "tag", !.tag = tag]
  <2>1. m \in Course /\ TaskSound(m) /\ m.at = "map"
    BY DEF Blank, Course, TaskSound
  <2>2. Begins(t, m)
    BY <1>3
  <2> HIDE DEF m
  <2> QED BY <1>1, <2>1, <2>2, AskStep
<1> QED BY <1>2, <1>3 DEF AskLang

\* The map that is put has what was read and the tag.
LEMMA PutMapStep == ASSUME EntryInv, NEW t \in Workers, PutMap(t) PROVE EntryInv'
<1>1. /\ work[t] \in Course /\ TaskSound(work[t]) /\ work[t].at = "map" /\ work[t] # NoOne
      /\ work[t].tag \in Tags
  BY CallReached DEF PutMap, TaskSound
<1>2. UNCHANGED <<owner, allowed, inbox, lastId, lang, config, kept, clock>> /\ lone' = lone
  BY DEF PutMap, Ends
<1>3. /\ lang \in LangCids \cup {NoOne} /\ config \in LangCids \cup {NoOne}
      /\ kept \in [owner : Roots, lang : LangCids \cup {NoOne}] \cup {NoOne}
  BY DEF EntryInv, EntryTypeOK
<1>4. CASE Ends(t)
  BY <1>1, <1>2, <1>3, <1>4, GoOnStep DEF Ends
<1>5. ASSUME NEW map \in LoadedMap,
             work' = [work EXCEPT ![t].at = "keep", ![t].lang = map \cup {work[t].tag}]
      PROVE  EntryInv'
  <2> DEFINE l == map \cup {work[t].tag}
             m == [work[t] EXCEPT !.at = "keep", !.lang = l]
  <2>1. lang # Unreadable /\ map = (IF lang = NoOne THEN {} ELSE lang) /\ map \in SUBSET Tags
    BY <1>3, LangAssumption DEF LoadedMap, LangCids
  <2>2. l \in LangCids /\ l = (IF lang = NoOne THEN {} ELSE lang) \cup {work[t].tag}
    BY <1>1, <2>1 DEF LangCids
  <2>3. work' = [work EXCEPT ![t] = m]
    BY <1>5 DEF EntryInv, EntryTypeOK
  <2> HIDE DEF l
  <2>4. /\ m \in Course /\ m.at = "keep" /\ m.lang = l /\ m.tag = work[t].tag
        /\ m.op = work[t].op /\ m.who = work[t].who /\ m.id = work[t].id /\ m.hall = work[t].hall
    BY <1>1, <2>2 DEF Course
  <2> HIDE DEF m
  <2>5. TaskSound(m)
    BY <1>1, <2>4 DEF TaskSound
  <2> QED BY <1>1, <1>2, <1>3, <2>1, <2>2, <2>3, <2>4, <2>5, GoOnStep
<1> QED BY <1>4, <1>5 DEF PutMap

LEMMA KeepStep == ASSUME EntryInv, NEW t \in Workers, Keep(t) PROVE EntryInv'
<1>1. work[t] \in Course /\ TaskSound(work[t]) /\ work[t].at = "keep" /\ work[t] # NoOne
  BY CallReached DEF Keep
<1>2. UNCHANGED <<owner, allowed, inbox, lastId, lang, kept, clock>> /\ lone' = lone
  BY DEF Keep, Ends, Proceeds
<1>3. /\ lang \in LangCids \cup {NoOne} /\ config \in LangCids \cup {NoOne}
      /\ kept \in [owner : Roots, lang : LangCids \cup {NoOne}] \cup {NoOne}
  BY DEF EntryInv, EntryTypeOK
<1>4. CASE Ends(t) /\ config' = config
  BY <1>1, <1>2, <1>3, <1>4, GoOnStep DEF Ends
<1>5. CASE config' = work[t].lang /\ Proceeds(t, "lang")
  <2> DEFINE m == [work[t] EXCEPT !.at = "lang"]
  <2>1. work' = [work EXCEPT ![t] = m]
    BY <1>5 DEF Proceeds, EntryInv, EntryTypeOK
  <2>2. /\ m \in Course /\ m.at = "lang" /\ m.lang = work[t].lang /\ m.tag = work[t].tag
        /\ m.op = work[t].op /\ m.who = work[t].who /\ m.id = work[t].id /\ m.hall = work[t].hall
        /\ work[t].lang \in LangCids \cup {NoOne}
    BY <1>1 DEF Course
  <2> HIDE DEF m
  <2>3. TaskSound(m)
    BY <1>1, <2>2 DEF TaskSound
  <2>4. t \in lone /\ m.op = "tag" =>
            /\ lang # Unreadable
            /\ work[t].lang = (IF lang = NoOne THEN {} ELSE lang) \cup {work[t].tag}
    BY <1>1, <2>2 DEF EntryInv, LoneSound
  <2> QED BY <1>1, <1>2, <1>3, <1>5, <2>1, <2>2, <2>3, <2>4, GoOnStep
<1> QED BY <1>4, <1>5 DEF Keep

LEMMA SetLangStep == ASSUME EntryInv, NEW t \in Workers, SetLang(t) PROVE EntryInv'
<1>1. work[t] \in Course /\ TaskSound(work[t]) /\ work[t].at = "lang" /\ work[t] # NoOne
  BY CallReached DEF SetLang
<1>2. UNCHANGED <<owner, allowed, inbox, lastId, config, kept, clock>> /\ lang' = work[t].lang /\ Ends(t)
  BY DEF SetLang
<1>3. /\ lang' \in LangCids \cup {NoOne} /\ config \in LangCids \cup {NoOne}
      /\ kept \in [owner : Roots, lang : LangCids \cup {NoOne}] \cup {NoOne}
  BY <1>1, <1>2 DEF EntryInv, EntryTypeOK, Course
<1> QED BY <1>1, <1>2, <1>3, GoOnStep DEF Ends

LEMMA AskSaveStep == ASSUME EntryInv, NEW t \in Workers, AskSave(t) PROVE EntryInv'
<1> DEFINE m == [Blank EXCEPT !.at = "state", !.op = "save", !.who = owner]
<1>1. owner \in Roots
  BY DEF EntryInv, EntryTypeOK
<1>2. m \in Course /\ TaskSound(m) /\ m.op # "tag"
  BY <1>1 DEF Blank, Course, TaskSound, Known
<1>3. Begins(t, m)
  BY DEF AskSave
<1> HIDE DEF m
<1> QED BY <1>2, <1>3, AskStep DEF AskSave

LEMMA KeepStateStep == ASSUME EntryInv, NEW t \in Workers, KeepState(t) PROVE EntryInv'
<1>1. /\ work[t] \in Course /\ TaskSound(work[t]) /\ work[t].at = "state" /\ work[t] # NoOne
      /\ work[t].who \in Roots
  BY CallReached DEF KeepState, TaskSound
<1>2. UNCHANGED <<owner, allowed, inbox, lastId, lang, config, clock>> /\ Ends(t)
  BY DEF KeepState
<1>3. /\ lang \in LangCids \cup {NoOne} /\ config \in LangCids \cup {NoOne}
      /\ kept' \in [owner : Roots, lang : LangCids \cup {NoOne}] \cup {NoOne}
  BY <1>1 DEF EntryInv, EntryTypeOK, KeepState
<1> QED BY <1>1, <1>2, <1>3, GoOnStep DEF Ends

LEMMA AskLoadStep == ASSUME EntryInv, NEW t \in Workers, AskLoad(t) PROVE EntryInv'
<1> DEFINE m == [Blank EXCEPT !.at = "own", !.op = "load", !.who = kept.owner, !.lang = kept.lang]
<1>1. kept.owner \in Roots /\ kept.lang \in LangCids \cup {NoOne}
  BY DEF EntryInv, EntryTypeOK, AskLoad
<1>2. m \in Course /\ TaskSound(m) /\ m.op # "tag"
  BY <1>1 DEF Blank, Course, TaskSound, Known
<1>3. Begins(t, m)
  BY DEF AskLoad
<1> HIDE DEF m
<1> QED BY <1>2, <1>3, AskStep DEF AskLoad

LEMMA RestartStep == ASSUME EntryInv, Restart PROVE EntryInv'
<1>1. PICK back \in {NoOne, kept} :
        /\ owner' = IF back = NoOne THEN WorldRoot ELSE back.owner
        /\ allowed' = Configured \cup {WorldRoot, owner'}
        /\ lang' = IF config # NoOne THEN config ELSE IF back = NoOne THEN NoOne ELSE back.lang
  BY DEF Restart
<1>2. /\ inbox' = Inbox!New(PendingSpan, MaxInbox) /\ lastId' = 0
      /\ work' = [t \in Workers |-> NoOne] /\ lone' = {}
      /\ UNCHANGED <<config, kept, clock>>
  BY DEF Restart
<1>3. owner' \in Roots /\ lang' \in LangCids \cup {NoOne}
  BY <1>1, KnownAssumption DEF EntryInv, EntryTypeOK
<1>4. EntryTypeOK'
  BY <1>1, <1>2, <1>3, KnownAssumption DEF EntryInv, EntryTypeOK, Known
<1>5. InboxGood(inbox', 0, clock)
  BY <1>2, InboxNew
<1>6. InboxGood(inbox, lastId, clock)'
  BY <1>2, <1>5 DEF InboxGood, Kind, Told, InTurn, UpTo, Fits, Inbox!Held, Inbox!TtlCache, Inbox!CacheEntry
<1>7. Inbox!Held(inbox)' = {}
  BY <1>2 DEF Inbox!Held, Inbox!New, Inbox!Empty
<1>8. EntitledEnter'
  BY <1>1, <1>7 DEF EntitledEnter, Entitled, Knocks, can_enter_world
<1>9. LoneSound'
  BY <1>2 DEF LoneSound
<1> QED BY <1>4, <1>6, <1>8, <1>9 DEF EntryInv

LEMMA PassStep == ASSUME EntryInv, Pass PROVE EntryInv'
<1>1. UNCHANGED <<owner, allowed, inbox, lastId, lang, config, kept, work, lone>> /\ clock' = clock + 1
  BY DEF Pass
<1>2. clock \in Nat /\ clock' \in Nat /\ clock <= clock'
  BY <1>1 DEF EntryInv, EntryTypeOK
<1>3. EntryTypeOK'
  BY <1>1, <1>2 DEF EntryInv, EntryTypeOK
<1>4. InboxGood(inbox, lastId, clock')
  BY <1>2, GoodLater DEF EntryInv
<1>5. InboxGood(inbox, lastId, clock)'
  BY <1>1, <1>4 DEF InboxGood, Kind, Told, InTurn, UpTo, Fits, Inbox!Held, Inbox!TtlCache, Inbox!CacheEntry
<1>6. Inbox!Held(inbox)' = Inbox!Held(inbox)
  BY <1>1 DEF Inbox!Held
<1>7. EntitledEnter'
  BY <1>1, <1>6, EntitledFewer DEF EntryInv
<1>8. LoneSound'
  BY <1>1 DEF EntryInv, LoneSound, Busy
<1> QED BY <1>3, <1>5, <1>7, <1>8 DEF EntryInv

LEMMA StillStep == ASSUME EntryInv, UNCHANGED entryVars PROVE EntryInv'
<1>1. UNCHANGED <<owner, allowed, inbox, lastId, lang, config, kept, work, lone, clock>>
  BY DEF entryVars
<1>2. EntryTypeOK' /\ LoneSound'
  BY <1>1 DEF EntryInv, EntryTypeOK, LoneSound, Busy
<1>3. InboxGood(inbox, lastId, clock)' /\ Inbox!Held(inbox)' = Inbox!Held(inbox)
  BY <1>1 DEF EntryInv, InboxGood, Kind, Told, InTurn, UpTo, Fits, Inbox!Held, Inbox!TtlCache, Inbox!CacheEntry
<1>4. EntitledEnter'
  BY <1>1, <1>3, EntitledFewer DEF EntryInv
<1> QED BY <1>2, <1>3, <1>4 DEF EntryInv

LEMMA EntryStep == EntryInv /\ [EntryNext]_entryVars => EntryInv'
<1> SUFFICES ASSUME EntryInv, [EntryNext]_entryVars PROVE EntryInv'
  OBVIOUS
<1>1. CASE \E t \in Workers : Inboxes(t) \/ Ownership(t) \/ Languages(t) \/ States(t)
  <2>1. PICK t \in Workers : Inboxes(t) \/ Ownership(t) \/ Languages(t) \/ States(t)
    BY <1>1
  <2>2. CASE Inboxes(t)
    BY <2>2, PruneStep, EnqueueStep, DecideStep, DeleteStep DEF Inboxes
  <2>3. CASE Ownership(t)
    BY <2>3, AskOwnerStep, OwnStep, AllowStep DEF Ownership
  <2>4. CASE Languages(t)
    BY <2>4, AskLangStep, PutMapStep, KeepStep, SetLangStep DEF Languages
  <2>5. CASE States(t)
    BY <2>5, AskSaveStep, KeepStateStep, AskLoadStep DEF States
  <2> QED BY <2>1, <2>2, <2>3, <2>4, <2>5
<1>2. CASE \E d \in Visitors : Invite(d)
  BY <1>2, InviteStep
<1>3. CASE Flush \/ Restart \/ Pass
  BY <1>3, FlushStep, RestartStep, PassStep
<1>4. CASE UNCHANGED entryVars
  BY <1>4, StillStep
<1> QED BY <1>1, <1>2, <1>3, <1>4 DEF EntryNext

LEMMA EntryAlways == EntrySpec => []EntryInv
BY EntryStart, EntryStep, PTL DEF EntrySpec

-----------------------------------------------------------------------------
(* The theorems                                                             *)

\* Owners, knocks, languages and the handlers' locals keep their types, for any
\* handlers, visitors, ids, languages and bounds.
THEOREM EntryTypeCorrect == EntrySpec => []EntryTypeOK
BY EntryAlways, PTL DEF EntryInv

\* Whoever owns the world, and whoever's knock was accepted, may enter it or has a
\* handler about to let it in: owners and decisions are stored first and allowed
\* by a later step, over sets, loads and restarts of any number of handlers
\* (set_owner_did, accept_knock, load_encrypted_state).
THEOREM EntitledAlwaysEnter == EntrySpec => []EntitledEnter
BY EntryAlways, PTL DEF EntryInv

\* What a step that is neither a flush nor a restart leaves of a pending knock.
Waits ==
    \A id \in Inbox!Held(inbox) :
        LET k == inbox.entries[id].value IN
        (k.status = "pending" /\ inbox'.entries[id] = NoOne) =>
            \/ Flush \/ Restart
            \/ ~Current(k)
            \/ \E t \in Busy : Reaches(t, "decide") /\ work[t].op = "delete" /\ work[t].id = id
            \/ Full /\ \A j \in Inbox!Held(inbox) : Current(inbox.entries[j].value) => id <= j

LEMMA CurrentIsYoung ==
    ASSUME EntryInv, NEW id \in Inbox!Held(inbox)
    PROVE  id \in Young(inbox) <=> Current(inbox.entries[id].value)
BY TurnOfHeld DEF EntryInv, Young, Current

LEMMA EnqueueWaits ==
    ASSUME EntryInv, NEW t \in Workers, Enqueue(t), NEW id \in Young(inbox), inbox'.entries[id] = NoOne
    PROVE  Cardinality(Inbox!Held(inbox)) >= MaxInbox /\ \A j \in Young(inbox) : id <= j
<1>1. id \in Inbox!Held(inbox) /\ inbox.entries[id] # NoOne
  BY DEF Young, Inbox!Held
<1>2. inbox' # inbox
  BY <1>1
<1> DEFINE k == [who |-> work[t].who, hall |-> work[t].hall, at |-> clock, decided |-> clock,
                 status |-> "pending"]
<1>3. PICK c \in Trimmed(inbox) : \E d \in Inbox!Compacted(c) :
        inbox' = Inbox!Inserted(d, lastId + 1, k, clock)
  BY <1>2 DEF Enqueue
<1>4. PICK d \in Inbox!Compacted(c) : inbox' = Inbox!Inserted(d, lastId + 1, k, clock)
  BY <1>3
<1> HIDE DEF k
<1>5. /\ InboxGood(c, lastId, clock)
      /\ \A i \in Inbox!Held(c) : c.entries[i] = inbox.entries[i]
      /\ \A i \in Inbox!Held(inbox) \ Inbox!Held(c) :
            i \in Young(inbox) => /\ Cardinality(Inbox!Held(inbox)) >= MaxInbox
                                  /\ \A j \in Young(inbox) : i <= j
  BY TrimmedGood DEF EntryInv
<1>6. CASE id \notin Inbox!Held(c)
  BY <1>1, <1>5, <1>6
<1>7. CASE id \in Inbox!Held(c)
  <2>1. id \in Young(c)
    BY <1>5, <1>7 DEF Young
  <2>2. d.entries[id] = c.entries[id] /\ c.entries[id] # NoOne /\ id \in Ids
    BY <1>5, <2>1, CompactedShrinks DEF Shrunk, Young, Inbox!Held
  <2>3. d \in Inbox!TtlCache
    BY <1>5, CompactedShrinks DEF Shrunk, Kind
  <2>4. id # lastId + 1
    BY <1>7, <1>5, TurnOfHeld DEF EntryInv, EntryTypeOK
  <2>5. inbox'.entries[id] = d.entries[id]
    BY <1>4, <2>2, <2>3, <2>4 DEF Inbox!Inserted, Inbox!Placed, Inbox!Unplaced, Inbox!TtlCache
  <2> QED BY <2>2, <2>5
<1> QED BY <1>6, <1>7

LEMMA DecideWaits ==
    ASSUME EntryInv, NEW t \in Workers, Decide(t), NEW id \in Young(inbox)
    PROVE  inbox'.entries[id] # NoOne
<1>1. PICK c \in Inbox!Compacted(inbox) :
        inbox' = c \/ \E status \in {"accepted", "rejected"} :
                        Decidable(c, work[t].id) /\ inbox' = Decided(c, work[t].id, status)
  BY DEF Decide
<1>2. /\ c.entries[id] # NoOne /\ id \in Ids /\ c \in Inbox!TtlCache
  BY CompactedShrinks DEF EntryInv, Shrunk, Kind, Young, Inbox!Held
<1>3. work[t].id \in Ids
  BY CallReached DEF Decide, TaskSound
<1>4. ASSUME NEW status \in {"accepted", "rejected"}, Decidable(c, work[t].id),
             inbox' = Decided(c, work[t].id, status)
      PROVE  inbox'.entries[id] # NoOne
  <2> DEFINE i == work[t].id
             v == [c.entries[i].value EXCEPT !.status = status, !.decided = clock]
  <2>1. c.entries[i] \in Inbox!CacheEntry
    BY <1>2, <1>3, <1>4 DEF Decidable, Inbox!TtlCache
  <2>2. v \in KnockMessage
    BY <2>1 DEF KnockMessage, Inbox!CacheEntry, EntryInv, EntryTypeOK
  <2>3. inbox'.entries = [c.entries EXCEPT ![i] = [c.entries[i] EXCEPT !.value = v]]
    BY <1>2, <1>4 DEF Decided, Inbox!TtlCache
  <2> HIDE DEF v
  <2>4. [c.entries[i] EXCEPT !.value = v] \in [value : KnockMessage, epoch : Nat, seq : Nat]
    BY <2>1, <2>2 DEF Inbox!CacheEntry
  <2>5. [c.entries[i] EXCEPT !.value = v] # NoOne
    BY <2>4, NoOneAssumption
  <2> QED BY <1>2, <1>3, <2>3, <2>5 DEF Inbox!TtlCache
<1> QED BY <1>1, <1>2, <1>4

LEMMA DeleteWaits ==
    ASSUME EntryInv, NEW t \in Workers, Delete(t), NEW id \in Young(inbox), id # work[t].id
    PROVE  inbox'.entries[id] # NoOne
<1>1. work[t].id \in Ids
  BY CallReached DEF Delete, TaskSound
<1>2. PICK c \in Inbox!Compacted(inbox) : inbox' = Inbox!Removed(c, work[t].id)
  BY DEF Delete
<1>3. Shrunk(inbox, c, Young(inbox))
  BY CompactedShrinks DEF EntryInv
<1>4. InboxGood(c, lastId, clock) /\ Inbox!Held(c) = Young(inbox)
  BY <1>3, ShrunkGood DEF EntryInv
<1>5. Shrunk(c, inbox', Young(inbox) \ {work[t].id})
  BY <1>1, <1>2, <1>4, RemovedShrinks
<1> QED BY <1>4, <1>5 DEF Shrunk, Inbox!Held

LEMMA WaitsStep == EntryInv /\ [EntryNext]_entryVars => [Waits]_entryVars
<1> SUFFICES ASSUME EntryInv, EntryNext, ~Flush, ~Restart,
                    NEW id \in Inbox!Held(inbox), inbox.entries[id].value.status = "pending",
                    inbox'.entries[id] = NoOne, Current(inbox.entries[id].value)
             PROVE  \/ \E t \in Busy : Reaches(t, "decide") /\ work[t].op = "delete" /\ work[t].id = id
                    \/ Full /\ \A j \in Inbox!Held(inbox) : Current(inbox.entries[j].value) => id <= j
  BY DEF Waits
<1>1. id \in Young(inbox) /\ inbox.entries[id] # NoOne
  BY CurrentIsYoung DEF Inbox!Held
<1>2. inbox' # inbox
  BY <1>1
<1>3. PICK t \in Workers : Prune(t) \/ Enqueue(t) \/ Decide(t) \/ Delete(t)
  BY <1>2 DEF EntryNext, Inboxes, Ownership, Languages, States, Invite, Pass, AskOwner, Own, Allow,
              AskLang, PutMap, Keep, SetLang, AskSave, KeepState, AskLoad
<1>4. CASE Prune(t)
  <2>1. id \in Inbox!Held(inbox')
    BY <1>1, <1>4, PrunedGood DEF Prune, EntryInv
  <2> QED BY <2>1 DEF Inbox!Held
<1>5. CASE Enqueue(t)
  BY <1>1, <1>5, EnqueueWaits, CurrentIsYoung DEF Full
<1>6. CASE Decide(t)
  BY <1>1, <1>6, DecideWaits
<1>7. CASE Delete(t)
  <2>1. id = work[t].id
    BY <1>1, <1>7, DeleteWaits
  <2> QED BY <1>7, <2>1 DEF Delete, Reaches, Busy
<1> QED BY <1>3, <1>4, <1>5, <1>6, <1>7

\* A pending knock stays until it is deleted with its id or with all others, its
\* time is over, or it is the oldest of a full inbox, whatever else is knocked,
\* decided and listed (prune_knock_inbox, enqueue_knock, core/src/ttl_cache.rs).
THEOREM PendingAlwaysWaits == EntrySpec => PendingWaits
BY EntryAlways, WaitsStep, PTL DEF EntrySpec, PendingWaits, Waits

\* What the step of a lone handler about a tag makes of the languages.
Grows ==
    \A t \in lone :
        (Reaches(t, "lang") /\ work[t].op = "tag" /\ work'[t] = NoOne /\ lang' # lang) =>
            /\ lang # Unreadable /\ lang' = config'
            /\ lang' = (IF lang = NoOne THEN {} ELSE lang) \cup {work[t].tag}

LEMMA GrowsStep == EntryInv /\ [EntryNext]_entryVars => [Grows]_entryVars
<1> SUFFICES ASSUME EntryInv, EntryNext, NEW t \in lone, Reaches(t, "lang"), work[t].op = "tag", lang' # lang
             PROVE  /\ lang # Unreadable /\ lang' = config'
                    /\ lang' = (IF lang = NoOne THEN {} ELSE lang) \cup {work[t].tag}
  BY DEF Grows
<1>1. /\ t \in Workers /\ work[t] # NoOne /\ work[t].at = "lang" /\ work[t].tag \in Tags
      /\ lang \in LangCids \cup {NoOne}
  BY DEF EntryInv, EntryTypeOK, Reaches, TaskSound
<1>2. /\ lang # Unreadable /\ config = work[t].lang
      /\ work[t].lang = (IF lang = NoOne THEN {} ELSE lang) \cup {work[t].tag}
  BY <1>1 DEF EntryInv, LoneSound
<1>3. config # NoOne
  <2>1. work[t].lang \in SUBSET Tags
    BY <1>1, <1>2 DEF LangCids
  <2> QED BY <1>2, <2>1, LangAssumption
<1>4. (\E u \in Workers : SetLang(u)) \/ Restart
  BY DEF EntryNext, Inboxes, Ownership, Languages, States, Invite, Pass, Flush, AskOwner, Own, Allow,
         AskLang, PutMap, Keep, AskSave, KeepState, AskLoad, Prune, Enqueue, Decide, Delete
<1>5. ASSUME NEW u \in Workers, SetLang(u) PROVE lang' = config /\ config' = config
  <2>1. u \in Busy /\ Busy \subseteq {t}
    BY <1>5 DEF SetLang, Reaches, Busy, EntryInv, LoneSound
  <2> QED BY <1>2, <1>5, <2>1 DEF SetLang
<1>6. ASSUME Restart PROVE lang' = config /\ config' = config
  BY <1>3, <1>6 DEF Restart
<1>7. lang' = config /\ config' = config
  BY <1>4, <1>5, <1>6
<1> QED BY <1>2, <1>7

\* A tag is added to all the languages there were, and is in the configuration
\* first, when a handler had no other beside it, restarts included
\* (save_lang_map, persist_runtime_lang_cid_override, set_lang_cid).
THEOREM LangAlwaysGrows == EntrySpec => LangGrows
BY EntryAlways, GrowsStep, PTL DEF EntrySpec, LangGrows, Grows

=============================================================================
