----------------------------- MODULE WorldEntry -----------------------------
(***************************************************************************)
(* Who may come into the world and who owns it: the entry allowlist, the     *)
(* inbox of knocks, the owner, and the language map that only the owner      *)
(* changes (world_core.rs: can_enter, enqueue_knock and what decides knocks, *)
(* set_owner_did, the attributes of @world; status.rs, update_world_owner).  *)
(*                                                                          *)
(* Each handler is a task that lets go of its locks between steps.  The      *)
(* inbox is a TtlCache.  A CID of a language map is the set of tags of that   *)
(* map, or something else.  Every avatar's DID is under the world's own, so  *)
(* that the world's attributes are anybody's to set while the world is its    *)
(* own owner, and nobody's afterwards.                                      *)
(***************************************************************************)
EXTENDS Integers, FiniteSets

CONSTANTS
    Workers,        \* the handlers under way at once
    Visitors,       \* DIDs that knock or are invited
    Roots, RootOf,  \* DIDs without a fragment, and that of each visitor's
    WorldRoot,      \* that of the world
    Configured,     \* the DIDs that MA_WORLD_ENTRY_ACL names
    Halls,          \* the rooms that visitors knock for
    Tags, Unreadable,           \* languages, and a CID that is of no language map
    Ids, MaxInbox,              \* ids of knocks; MAX_KNOCK_INBOX
    PendingSpan, DecidedSpan,   \* KNOCK_PENDING_TTL_SECS and KNOCK_DECIDED_TTL_SECS
    MaxClock,       \* bound on the clock
    NoOne

Known == Visitors \cup Roots
LangCids == (SUBSET Tags) \cup {Unreadable}

KnockMessage == [who : Visitors, hall : Halls, at : Nat, decided : Nat,
                 status : {"pending", "accepted", "rejected"}]

\* What a handler is about: its step, its call, and what that is given or has found.
Course ==
    [at : {"decide", "allow", "own", "map", "keep", "lang", "state"},
     op : {"knock", "accept", "reject", "delete", "owner", "attr", "tag", "save", "load"},
     id : Ids \cup {NoOne}, who : Known \cup {NoOne}, hall : Halls \cup {NoOne},
     lang : LangCids \cup {NoOne}, tag : Tags \cup {NoOne}]

ASSUME KnownAssumption ==
    /\ RootOf \in [Known -> Roots] /\ \A r \in Roots : RootOf[r] = r
    /\ WorldRoot \in Roots /\ Configured \subseteq Known /\ NoOne \notin Known
ASSUME LangAssumption == Unreadable # NoOne /\ \A S \in SUBSET Tags : S # Unreadable /\ S # NoOne
ASSUME InboxAssumption ==
    /\ Ids \subseteq Nat /\ IsFiniteSet(Ids) /\ MaxInbox \in Nat \ {0} /\ MaxClock \in Nat
    /\ DecidedSpan \in Nat /\ PendingSpan \in Nat /\ DecidedSpan <= PendingSpan
ASSUME NoOneAssumption ==
    /\ NoOne \notin Nat /\ NoOne \notin Nat \X Nat /\ NoOne \notin Course
    /\ NoOne \notin [value : KnockMessage, epoch : Nat, seq : Nat]

VARIABLES
    owner,      \* owner_did
    allowed,    \* allowed_dids of the entry ACL
    inbox,      \* knock_inbox
    lastId,     \* next_knock_id
    lang,       \* lang_cid
    config,     \* lang_cid in the runtime's configuration file
    kept,       \* what the last saved state has of this
    work,       \* what each handler is about
    lone,       \* the handlers of tags that have had no other beside them
    clock

entryVars == <<owner, allowed, inbox, lastId, lang, config, kept, work, lone, clock>>

Blank == [at |-> "decide", op |-> "knock", id |-> NoOne, who |-> NoOne, hall |-> NoOne,
             lang |-> NoOne, tag |-> NoOne]

Inbox == INSTANCE TtlCache WITH
    Keys <- Ids, Values <- KnockMessage, Epochs <- {}, Ages <- {PendingSpan},
    Forever <- PendingSpan + MaxClock + 1, Capacities <- {MaxInbox}, MaxTime <- MaxClock,
    MaxSeq <- Cardinality(Ids), Nothing <- NoOne, cache <- inbox, taken <- NoOne, now <- clock

EntryInit ==
    /\ owner = WorldRoot
    /\ allowed = Configured \cup {WorldRoot}
    /\ inbox = Inbox!New(PendingSpan, MaxInbox) /\ lastId = 0
    /\ lang = NoOne /\ config = NoOne /\ kept = NoOne
    /\ work = [t \in Workers |-> NoOne] /\ lone = {}
    /\ clock = 0

-----------------------------------------------------------------------------
(* A handler's course                                                       *)

Busy == {t \in Workers : work[t] # NoOne}
Reaches(t, step) == work[t] # NoOne /\ work[t].at = step
Ends(t) == work' = [work EXCEPT ![t] = NoOne] /\ UNCHANGED lone
Proceeds(t, step) == work' = [work EXCEPT ![t].at = step] /\ UNCHANGED lone

\* m is Blank but for what the handler has to do.
Begins(t, m) ==
    /\ work[t] = NoOne
    /\ work' = [work EXCEPT ![t] = m]
    /\ lone' = IF Busy = {} /\ m.op = "tag" THEN {t} ELSE {}

\* The list of a world that is open neither to everybody (allow_all) nor to its
\* owner without further ado (allow_owner).
can_enter_world(d) == d \in allowed

\* allow_entry_did, the last step of many.
Allow(t) ==
    /\ Reaches(t, "allow")
    /\ allowed' = allowed \cup {work[t].who}
    /\ IF work[t].op = "load" THEN Proceeds(t, "lang") ELSE Ends(t)
    /\ UNCHANGED <<owner, inbox, lastId, lang, config, kept, clock>>

Invite(d) ==
    /\ allowed' = allowed \cup {d}
    /\ UNCHANGED <<owner, inbox, lastId, lang, config, kept, work, lone, clock>>

-----------------------------------------------------------------------------
(* Knocks                                                                   *)

Knocks(c) == {c.entries[id].value : id \in Inbox!Held(c)}
Lapsed(k) ==
    IF k.status = "pending" THEN clock - k.at > PendingSpan ELSE clock - k.decided > DecidedSpan

\* prune_knock_inbox: what it can leave of the inbox.
Pruned ==
    LET stale == {id \in Inbox!Held(inbox) : Lapsed(inbox.entries[id].value)} IN
    IF stale = {} THEN {inbox}
    ELSE {Inbox!RemovedAt(c, {p \in c.order : p[3] \in stale}) : c \in Inbox!Compacted(inbox)}

\* Knocking, deciding and deleting begin with that, and so does a listing,
\* which ends with it as well.
Prune(t) ==
    /\ work[t] = NoOne
    /\ inbox' \in Pruned
    /\ \/ \E d \in Visitors, h \in Halls :
            Begins(t, [Blank EXCEPT !.who = d, !.hall = h])
       \/ \E op \in {"accept", "reject", "delete"}, id \in Ids :
            Begins(t, [Blank EXCEPT !.op = op, !.id = id])
       \/ inbox' # inbox /\ UNCHANGED <<work, lone>>
    /\ UNCHANGED <<owner, allowed, lastId, lang, config, kept, clock>>

\* Who knocks again is told of the knock there is.
Twins(d, h) == {k \in Knocks(inbox) : k.who = d /\ k.hall = h /\ k.status = "pending"}

\* Broken variant of Trimmed: the latest go.
TrimmedLatest(c) ==
    IF Cardinality(Inbox!Held(c)) < MaxInbox THEN {c}
    ELSE {Inbox!RemovedAt(d, Inbox!Lasts(d.order)) : d \in Inbox!Compacted(c)}

\* The oldest go until there is room: one of them, as nobody else adds any.
Trimmed(c) ==
    IF Cardinality(Inbox!Held(c)) < MaxInbox THEN {c}
    ELSE {Inbox!RemovedAt(d, Inbox!Firsts(d.order)) : d \in Inbox!Compacted(c)}

\* enqueue_knock; the message it leaves in the lobby's mailbox is ObjectRuntime's.
Enqueue(t) ==
    LET m == work[t] IN
    /\ Reaches(t, "decide") /\ m.op = "knock"
    /\ \/ Twins(m.who, m.hall) # {} /\ UNCHANGED <<inbox, lastId>>
       \/ /\ Twins(m.who, m.hall) = {} /\ lastId + 1 \in Ids
          /\ lastId' = lastId + 1
          /\ \E c \in Trimmed(inbox) : \E d \in Inbox!Compacted(c) :
                inbox' = Inbox!Inserted(d, lastId + 1,
                    [who |-> m.who, hall |-> m.hall, at |-> clock, decided |-> clock,
                     status |-> "pending"], clock)
    /\ Ends(t)
    /\ UNCHANGED <<owner, allowed, lang, config, kept, clock>>

Decidable(c, id) == c.entries[id] # NoOne /\ c.entries[id].value.status = "pending"

Decided(c, id, status) ==
    [c EXCEPT !.entries = [c.entries EXCEPT ![id] =
        [c.entries[id] EXCEPT !.value = [c.entries[id].value EXCEPT !.status = status,
                                                                    !.decided = clock]]]]

\* Broken variant of Admittee: the requester's DID without its fragment.
AdmitteeRoot(k) == RootOf[k.who]

Admittee(k) == k.who

\* accept_knock and reject_knock: only a pending knock is decided.
Decide(t) ==
    LET m == work[t] IN
    /\ Reaches(t, "decide") /\ m.op \in {"accept", "reject"}
    /\ \E c \in Inbox!Compacted(inbox) :
        \/ ~Decidable(c, m.id) /\ inbox' = c /\ Ends(t)
        \/ /\ Decidable(c, m.id) /\ m.op = "reject"
           /\ inbox' = Decided(c, m.id, "rejected")
           /\ Ends(t)
        \/ /\ Decidable(c, m.id) /\ m.op = "accept"
           /\ inbox' = Decided(c, m.id, "accepted")
           /\ work' = [work EXCEPT ![t].at = "allow",
                                   ![t].who = Admittee(c.entries[m.id].value)]
           /\ UNCHANGED lone
    /\ UNCHANGED <<owner, allowed, lastId, lang, config, kept, clock>>

Delete(t) ==
    /\ Reaches(t, "decide") /\ work[t].op = "delete"
    /\ \E c \in Inbox!Compacted(inbox) : inbox' = Inbox!Removed(c, work[t].id)
    /\ Ends(t)
    /\ UNCHANGED <<owner, allowed, lastId, lang, config, kept, clock>>

\* flush_knock_inbox: the numbers of the cache go on.
Flush ==
    /\ inbox' = [Inbox!New(PendingSpan, MaxInbox) EXCEPT !.nextSeq = inbox.nextSeq]
    /\ UNCHANGED <<owner, allowed, lastId, lang, config, kept, work, lone, clock>>

-----------------------------------------------------------------------------
(* The owner                                                                *)

\* Of the world's attributes, which anybody's DID is under.
IsAttrOwner == owner = WorldRoot

\* @world.owner looks at the owner first; the status page does not.
AskOwner(t) ==
    /\ \E r \in Roots : Begins(t, [Blank EXCEPT !.at = "own", !.op = "owner", !.who = r])
    /\ UNCHANGED <<owner, allowed, inbox, lastId, lang, config, kept, clock>>

\* set_owner_did, and the same in load_encrypted_state.
Own(t) ==
    /\ Reaches(t, "own")
    /\ owner' = work[t].who
    /\ Proceeds(t, "allow")
    /\ UNCHANGED <<allowed, inbox, lastId, lang, config, kept, clock>>

-----------------------------------------------------------------------------
(* The languages                                                            *)

\* @world.lang_cid takes anything for a CID; @world.lang.<tag> reads the map.
AskLang(t) ==
    /\ IsAttrOwner
    /\ \/ \E cid \in LangCids :
            Begins(t, [Blank EXCEPT !.at = "keep", !.op = "attr", !.lang = cid])
       \/ \E tag \in Tags :
            Begins(t, [Blank EXCEPT !.at = "map", !.op = "tag", !.tag = tag])
    /\ UNCHANGED <<owner, allowed, inbox, lastId, lang, config, kept, clock>>

\* Broken variant of LoadedMap: a map that cannot be had is an empty one.
LoadedMapAnyway == {IF lang \in {NoOne, Unreadable} THEN {} ELSE lang, {}}

\* load_lang_map, if it does not fail.
LoadedMap == IF lang = NoOne THEN {{}} ELSE {lang} \ {Unreadable}

\* The map with the tag in it is put, unless it fails.
PutMap(t) ==
    /\ Reaches(t, "map")
    /\ \/ Ends(t)
       \/ \E map \in LoadedMap :
            work' = [work EXCEPT ![t].at = "keep", ![t].lang = map \cup {work[t].tag}]
            /\ UNCHANGED lone
    /\ UNCHANGED <<owner, allowed, inbox, lastId, lang, config, kept, clock>>

\* persist_runtime_lang_cid_override reads and writes the file, or fails.
Keep(t) ==
    /\ Reaches(t, "keep")
    /\ \/ Ends(t) /\ UNCHANGED config
       \/ config' = work[t].lang /\ Proceeds(t, "lang")
    /\ UNCHANGED <<owner, allowed, inbox, lastId, lang, kept, clock>>

SetLang(t) ==
    /\ Reaches(t, "lang")
    /\ lang' = work[t].lang
    /\ Ends(t)
    /\ UNCHANGED <<owner, allowed, inbox, lastId, config, kept, clock>>

-----------------------------------------------------------------------------
(* What is saved of it                                                      *)

\* save_encrypted_state reads the owner first and the language map later.
AskSave(t) ==
    /\ Begins(t, [Blank EXCEPT !.at = "state", !.op = "save", !.who = owner])
    /\ UNCHANGED <<owner, allowed, inbox, lastId, lang, config, kept, clock>>

KeepState(t) ==
    /\ Reaches(t, "state")
    /\ \/ UNCHANGED kept
       \/ kept' = [owner |-> work[t].who, lang |-> lang]
    /\ Ends(t)
    /\ UNCHANGED <<owner, allowed, inbox, lastId, lang, config, clock>>

\* load_encrypted_state, once the state is fetched and read.
AskLoad(t) ==
    /\ kept # NoOne
    /\ Begins(t, [Blank EXCEPT !.at = "own", !.op = "load", !.who = kept.owner,
                                  !.lang = kept.lang])
    /\ UNCHANGED <<owner, allowed, inbox, lastId, lang, config, kept, clock>>

\* A process that starts is its own owner until the saved state is back, if it
\* comes back; the configuration file has the last word on the languages.
Restart ==
    /\ \E back \in {NoOne, kept} :
        /\ owner' = IF back = NoOne THEN WorldRoot ELSE back.owner
        /\ allowed' = Configured \cup {WorldRoot, owner'}
        /\ lang' = IF config # NoOne THEN config ELSE IF back = NoOne THEN NoOne ELSE back.lang
    /\ inbox' = Inbox!New(PendingSpan, MaxInbox) /\ lastId' = 0
    /\ work' = [t \in Workers |-> NoOne] /\ lone' = {}
    /\ UNCHANGED <<config, kept, clock>>

Pass ==
    /\ clock < MaxClock /\ clock' = clock + 1
    /\ UNCHANGED <<owner, allowed, inbox, lastId, lang, config, kept, work, lone>>

Inboxes(t) == Prune(t) \/ Enqueue(t) \/ Decide(t) \/ Delete(t)
Ownership(t) == AskOwner(t) \/ Own(t) \/ Allow(t)
Languages(t) == AskLang(t) \/ PutMap(t) \/ Keep(t) \/ SetLang(t)
States(t) == AskSave(t) \/ KeepState(t) \/ AskLoad(t)

EntryNext ==
    \/ \E t \in Workers : Inboxes(t) \/ Ownership(t) \/ Languages(t) \/ States(t)
    \/ \E d \in Visitors : Invite(d)
    \/ Flush \/ Restart \/ Pass

EntrySpec == EntryInit /\ [][EntryNext]_entryVars

-----------------------------------------------------------------------------
\* Whoever owns the world, and whoever's knock was accepted, may enter or has a
\* handler about to see to it, however sets, loads, restarts and the decisions of
\* others follow each other: both are stored first and allowed in by a later step
\* (accept_knock, set_owner_did, load_encrypted_state).
Entitled == {owner} \cup {k.who : k \in {q \in Knocks(inbox) : q.status = "accepted"}}
EntitledEnter ==
    \A d \in Entitled :
        can_enter_world(d) \/ \E t \in Busy : Reaches(t, "allow") /\ work[t].who = d

\* A pending knock waits until it is deleted with its id or with all others, until
\* its time is over, or until it is the oldest of a full inbox: the decisions,
\* listings and knocks of others leave it.
Full == Cardinality(Inbox!Held(inbox)) >= MaxInbox
Current(k) == clock - k.at < PendingSpan
PendingWaits ==
    [][\A id \in Inbox!Held(inbox) :
        LET k == inbox.entries[id].value IN
        (k.status = "pending" /\ inbox'.entries[id] = NoOne) =>
            \/ Flush \/ Restart
            \/ ~Current(k)
            \/ \E t \in Busy : Reaches(t, "decide") /\ work[t].op = "delete" /\ work[t].id = id
            \/ Full /\ \A j \in Inbox!Held(inbox) : Current(inbox.entries[j].value) => id <= j]_entryVars

\* A tag is added to the languages there are, and to the configuration first; a
\* handler that had no other beside it loses none of them.
LangGrows ==
    [][\A t \in lone :
        (Reaches(t, "lang") /\ work[t].op = "tag" /\ work'[t] = NoOne /\ lang' # lang) =>
            /\ lang # Unreadable /\ lang' = config'
            /\ lang' = (IF lang = NoOne THEN {} ELSE lang) \cup {work[t].tag}]_entryVars
=============================================================================
