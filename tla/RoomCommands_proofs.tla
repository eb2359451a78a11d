------------------------ MODULE RoomCommands_proofs ------------------------
(***************************************************************************)
(* Proofs about RoomCommands, for any avatars, rooms, exits and number of   *)
(* handlers under way: rights stay sound, exits stay apart, nobody is put   *)
(* out by another's document, and a command alone mends the exit index.     *)
(***************************************************************************)
EXTENDS RoomCommands, TLAPS

-----------------------------------------------------------------------------
(* Rights                                                                   *)

LEMMA AdmittedSound ==
    ASSUME NEW acl \in RoomAcl, NEW who \in Identities \cup {Anyone}
    PROVE  /\ Admitted(acl, who) \in RoomAcl
           /\ AclOf(acl) => AclOf(Admitted(acl, who))
BY NobodyAssumption DEF RoomAcl, Admitted, AclOf

LEMMA BarredSound ==
    ASSUME NEW acl \in RoomAcl, NEW who \in Identities \cup {Anyone}, acl.owner # who
    PROVE  /\ Barred(acl, who) \in RoomAcl
           /\ AclOf(acl) => AclOf(Barred(acl, who))
BY NobodyAssumption DEF RoomAcl, Barred, AclOf

LEMMA OwnedSound ==
    ASSUME NEW acl \in RoomAcl, NEW who \in Identities
    PROVE  /\ Owned(acl, who) \in RoomAcl
           /\ AclOf(acl) => AclOf(Owned(acl, who))
<1>1. Admitted(acl, who) \in RoomAcl /\ (AclOf(acl) => AclOf(Admitted(acl, who)))
  BY AdmittedSound
<1>2. who \notin Admitted(acl, who).deny
  BY DEF Admitted, RoomAcl
<1> QED BY <1>1, <1>2 DEF Owned, RoomAcl, AclOf

LEMMA OpenedSound ==
    ASSUME NEW acl \in RoomAcl
    PROVE  /\ [acl EXCEPT !.allow = @ \cup {Anyone}] \in RoomAcl
           /\ [acl EXCEPT !.allow = @ \ {Anyone}] \in RoomAcl
           /\ AclOf(acl) => /\ AclOf([acl EXCEPT !.allow = @ \cup {Anyone}])
                            /\ AclOf([acl EXCEPT !.allow = @ \ {Anyone}])
BY NobodyAssumption DEF RoomAcl, AclOf

LEMMA NewRoomSound ==
    ASSUME NEW owner \in Identities \cup {None}
    PROVE  /\ NewRoom(owner) \in Room
           /\ AclOf(NewRoom(owner).acl)
           /\ NewRoom(owner).exits = {} /\ NewRoom(owner).avatars = {}
BY DEF NewRoom, open, Room, RoomAcl, AclOf

-----------------------------------------------------------------------------
(* Commands, errands and rooms                                              *)

LEMMA CommandParts ==
    ASSUME NEW k \in Command
    PROVE  /\ k.verb \in RoomVerbs \cup WorldVerbs
           /\ k.verb \in {"invite", "deny"} => k.who \in Identities \cup {Anyone}
           /\ k.verb \in {"owner", "allow", "world-deny", "world-owner"} => k.who \in Identities
           /\ k.verb \in {"dig", "world-dig", "bury", "exit"} => k.exit \in Exits
<1>1. Plain \subseteq Exits
  BY DEF Plain
<1>2. UNION Authored \subseteq Exits
  BY AuthoredAssumption
<1>3. CASE k \in About({"invite", "deny"}, Identities \cup {Anyone}, {None})
  BY <1>3 DEF About, RoomVerbs
<1>4. CASE k \in About({"owner", "allow", "world-deny"}, Identities, {None})
  BY <1>4 DEF About, RoomVerbs, WorldVerbs
<1>5. CASE k \in About({"kick", "world-owner"}, Avatars, {None})
  BY <1>5 DEF About, RoomVerbs, WorldVerbs, Identities
<1>6. CASE k \in About({"cid", "content", "open", "close"}, Nobody, {None})
  BY <1>6 DEF About, RoomVerbs, WorldVerbs
<1>7. CASE k \in About({"dig", "world-dig", "bury"}, Nobody, Plain)
  BY <1>1, <1>7 DEF About, RoomVerbs, WorldVerbs
<1>8. CASE k \in About({"exit"}, Nobody, UNION Authored)
  BY <1>2, <1>8 DEF About, RoomVerbs
<1> QED BY <1>3, <1>4, <1>5, <1>6, <1>7, <1>8 DEF Command

\* A room whose rights and avatars are replaced.
LEMMA RoomPut ==
    ASSUME RoomTypeOK, NEW r \in Live, NEW acl \in RoomAcl, NEW S \in SUBSET Avatars,
           rooms' = [rooms EXCEPT ![r] = [@ EXCEPT !.acl = acl, !.avatars = S]]
    PROVE  /\ rooms' \in [Rooms -> Room \cup {None}]
           /\ rooms'[r] \in Room /\ rooms'[r].acl = acl
           /\ rooms'[r].exits = rooms[r].exits /\ rooms'[r].avatars = S
           /\ \A q \in Rooms : q # r => rooms'[q] = rooms[q]
<1> DEFINE n == [rooms[r] EXCEPT !.acl = acl, !.avatars = S]
<1>1. r \in Rooms /\ rooms[r] \in Room
  BY DEF Live, RoomTypeOK
<1>2. n \in Room /\ n.acl = acl /\ n.exits = rooms[r].exits /\ n.avatars = S
  BY <1>1 DEF Room
<1>3. rooms' = [rooms EXCEPT ![r] = n]
  OBVIOUS
<1> HIDE DEF n
<1> QED BY <1>1, <1>2, <1>3 DEF RoomTypeOK

\* What a command about rights does to its room ...
LEMMA RightsEffect ==
    ASSUME RoomTypeOK, NEW t \in Tasks, Rights(t)
    PROVE  \/ rooms' = rooms
           \/ \E acl \in RoomAcl, S \in SUBSET Avatars :
                LET r == errand[t].room IN
                /\ r \in Live
                /\ rooms' = [rooms EXCEPT ![r] = [@ EXCEPT !.acl = acl, !.avatars = S]]
                /\ AclOf(rooms[r].acl) => AclOf(acl)
                /\ S = rooms[r].avatars
                    \/ (S = rooms[r].avatars \ {errand[t].ask.who} /\ Is(t, {"kick", "deny"}))
<1> DEFINE r == errand[t].room
           who == errand[t].ask.who
           acl == rooms[r].acl
           here == rooms[r].avatars
<1>1. errand[t] \in Errand
  BY DEF Rights, At, RoomTypeOK
<1>2. errand[t].ask \in Command
  BY <1>1 DEF Errand
<1>3. SUFFICES ASSUME r \in Live, rooms' # rooms
      PROVE  \E a \in RoomAcl, S \in SUBSET Avatars :
                /\ rooms' = [rooms EXCEPT ![r] = [@ EXCEPT !.acl = a, !.avatars = S]]
                /\ AclOf(acl) => AclOf(a)
                /\ S = here \/ (S = here \ {who} /\ Is(t, {"kick", "deny"}))
  BY DEF Rights
<1>4. rooms[r] \in Room
  BY <1>3 DEF Live, RoomTypeOK
<1>5. acl \in RoomAcl /\ here \in SUBSET Avatars
  BY <1>4 DEF Room
<1>6. /\ Is(t, {"invite", "deny"}) => who \in Identities \cup {Anyone}
      /\ Is(t, {"owner", "allow", "world-deny", "world-owner"}) => who \in Identities
  BY <1>2, CommandParts DEF Is
<1> DEFINE Becomes(a, S) == rooms' = [rooms EXCEPT ![r] = [@ EXCEPT !.acl = a, !.avatars = S]]
<1>7. \/ Is(t, {"invite", "allow"}) /\ Becomes(Admitted(acl, who), here)
      \/ Is(t, {"owner", "world-owner"}) /\ Becomes(Owned(acl, who), here)
      \/ Is(t, {"deny"}) /\ acl.owner # who /\ Becomes(Barred(acl, who), here \ {who})
      \/ Is(t, {"kick"}) /\ Becomes(acl, here \ {who})
      \/ Is(t, {"world-deny"}) /\ acl.owner # who /\ Becomes(Barred(acl, who), here)
      \/ Becomes([acl EXCEPT !.allow = @ \cup {Anyone}], here)
      \/ Becomes([acl EXCEPT !.allow = @ \ {Anyone}], here)
  BY <1>3 DEF Rights, OwnerNow, Is
<1> HIDE DEF acl, here, who, r
<1>8. CASE Is(t, {"invite", "allow"}) /\ Becomes(Admitted(acl, who), here)
  BY <1>5, <1>6, <1>8, AdmittedSound DEF Is
<1>9. CASE Is(t, {"owner", "world-owner"}) /\ Becomes(Owned(acl, who), here)
  BY <1>5, <1>6, <1>9, OwnedSound DEF Is
<1>10. CASE Is(t, {"deny"}) /\ acl.owner # who /\ Becomes(Barred(acl, who), here \ {who})
  <2>1. who \in Identities \cup {Anyone} /\ Is(t, {"kick", "deny"})
    BY <1>6, <1>10 DEF Is
  <2> QED BY <1>5, <1>10, <2>1, BarredSound
<1>11. CASE Is(t, {"kick"}) /\ Becomes(acl, here \ {who})
  BY <1>5, <1>11 DEF Is
<1>12. CASE Is(t, {"world-deny"}) /\ acl.owner # who /\ Becomes(Barred(acl, who), here)
  BY <1>5, <1>6, <1>12, BarredSound DEF Is
<1>13. CASE Becomes([acl EXCEPT !.allow = @ \cup {Anyone}], here)
  BY <1>5, <1>13, OpenedSound
<1>14. CASE Becomes([acl EXCEPT !.allow = @ \ {Anyone}], here)
  BY <1>5, <1>14, OpenedSound
<1> QED BY <1>7, <1>8, <1>9, <1>10, <1>11, <1>12, <1>13, <1>14

\* ... and to its errand, which is over, or goes on to mend or save.
LEMMA RightsErrand ==
    ASSUME RoomTypeOK, NEW t \in Tasks, Rights(t)
    PROVE  /\ \E e \in Errand \cup {None} :
                /\ errand' = [errand EXCEPT ![t] = e]
                /\ e # None => /\ e.ask = errand[t].ask /\ e.exits = errand[t].exits
                               /\ e.room = errand[t].room /\ e.changed = {e.room}
                               /\ e.at = "scan" \/ (e.at = "save" /\ ~ Is(t, RoomVerbs \cup {"world-dig"}))
           /\ UNCHANGED <<exitIndex, stored, alone>>
<1> DEFINE m == errand[t]
           r == m.room
<1>1. m \in Errand /\ r \in Rooms
  BY DEF Rights, At, RoomTypeOK, Errand
<1> DEFINE scanned == [m EXCEPT !.at = "scan", !.changed = {r}]
           saved == [m EXCEPT !.at = "save", !.changed = {r}]
<1>2. /\ scanned \in Errand /\ scanned.ask = m.ask /\ scanned.exits = m.exits /\ scanned.at = "scan"
      /\ scanned.room = r /\ scanned.changed = {r} /\ saved.room = r /\ saved.changed = {r}
      /\ saved \in Errand /\ saved.ask = m.ask /\ saved.exits = m.exits /\ saved.at = "save"
  BY <1>1 DEF Errand
<1>3. \/ Done(t)
      \/ Changed(t, "scan", {r})
      \/ Changed(t, "save", {r}) /\ ~ Is(t, RoomVerbs \cup {"world-dig"})
  BY DEF Rights, Is, RoomVerbs
<1>4. Changed(t, "scan", {r}) => errand' = [errand EXCEPT ![t] = scanned]
  BY <1>1 DEF Changed, RoomTypeOK
<1>5. Changed(t, "save", {r}) => errand' = [errand EXCEPT ![t] = saved]
  BY <1>1 DEF Changed, RoomTypeOK
<1>6. UNCHANGED <<exitIndex, stored, alone>>
  BY DEF Rights
<1> HIDE DEF scanned, saved
<1> QED BY <1>2, <1>3, <1>4, <1>5, <1>6 DEF Done

\* Digging makes a room at most, and adds an exit that nothing else answers to.
LEMMA DigEffect ==
    ASSUME RoomTypeOK, NEW t \in Tasks, Dig(t)
    PROVE  \E made \in [Rooms -> Room \cup {None}] :
            LET r == errand[t].room
                exit == errand[t].ask.exit
            IN  /\ \A q \in Rooms : made[q] = rooms[q]
                    \/ \E owner \in Identities \cup {None} : rooms[q] = None /\ made[q] = NewRoom(owner)
                /\ r \in Rooms /\ exit \in Exits
                /\ \/ rooms' = made
                   \/ /\ made[r] # None /\ Answering(made[r].exits, exit) = {}
                      /\ rooms' = [made EXCEPT ![r].exits = @ \cup {exit}]
<1> DEFINE m == errand[t]
           r == m.room
           new == {m.ask.exit.to} \ (Live \cup {Elsewhere})
           maker == IF Is(t, {"dig"}) THEN m.caller ELSE None
           made == [q \in Rooms |-> IF q \in new THEN NewRoom(maker) ELSE rooms[q]]
<1>1. m \in Errand
  BY DEF Dig, At, RoomTypeOK
<1>2. r \in Rooms /\ maker \in Identities \cup {None} /\ m.ask.exit \in Exits
  <2>1. m.ask \in Command /\ r \in Rooms /\ m.caller \in Avatars \cup {None}
    BY <1>1 DEF Errand
  <2>2. m.ask.exit \in Exits
    BY <2>1, CommandParts DEF Dig, Is
  <2> QED BY <2>1, <2>2 DEF Identities
<1>3. rooms' = made \/ (/\ made[r] # None /\ Answering(made[r].exits, m.ask.exit) = {}
                        /\ rooms' = [made EXCEPT ![r].exits = @ \cup {m.ask.exit}])
  BY DEF Dig
<1>4. \A q \in Rooms : q \in new => rooms[q] = None
  BY DEF Live
<1> HIDE DEF new, maker
<1>5. made \in [Rooms -> Room \cup {None}]
  BY <1>2, NewRoomSound DEF RoomTypeOK
<1>6. \A q \in Rooms : made[q] = rooms[q]
                    \/ \E owner \in Identities \cup {None} : rooms[q] = None /\ made[q] = NewRoom(owner)
  BY <1>2, <1>4
<1> HIDE DEF made
<1> QED BY <1>2, <1>3, <1>5, <1>6

LEMMA DigMakes ==
    ASSUME RoomTypeOK, NEW t \in Tasks, Dig(t)
    PROVE  errand[t].ask.exit.to \in Live' \cup {Elsewhere}
<1> DEFINE m == errand[t]
           to == m.ask.exit.to
           new == {to} \ (Live \cup {Elsewhere})
           maker == IF Is(t, {"dig"}) THEN m.caller ELSE None
           made == [q \in Rooms |-> IF q \in new THEN NewRoom(maker) ELSE rooms[q]]
<1>1. m \in Errand
  BY DEF Dig, At, RoomTypeOK
<1>2. m.ask \in Command /\ m.caller \in Avatars \cup {None} /\ m.room \in Rooms
  BY <1>1 DEF Errand
<1>3. maker \in Identities \cup {None} /\ to \in Rooms \cup {Elsewhere}
  <2>1. m.ask.exit \in Exits
    BY <1>2, CommandParts DEF Dig, Is
  <2> QED BY <1>2, <2>1 DEF Exits, Identities
<1>4. NewRoom(maker) \in Room /\ NewRoom(maker) # None
  BY <1>3, NewRoomSound, NoneAssumption
<1>5. to # Elsewhere => to \in Rooms /\ made[to] # None
  BY <1>3, <1>4 DEF Live
<1>6. \/ rooms' = made
      \/ /\ rooms' = [made EXCEPT ![m.room].exits = @ \cup {m.ask.exit}]
         /\ made[m.room] # None
  BY DEF Dig
<1>7. made \in [Rooms -> Room \cup {None}]
  BY <1>4 DEF RoomTypeOK
<1> SUFFICES to \in Live' \cup {Elsewhere}
  OBVIOUS
<1> HIDE DEF made, to
<1>8. CASE rooms' = made
  BY <1>3, <1>5, <1>8 DEF Live
<1>9. CASE rooms' = [made EXCEPT ![m.room].exits = @ \cup {m.ask.exit}] /\ made[m.room] # None
  <2> DEFINE n == [made[m.room] EXCEPT !.exits = @ \cup {m.ask.exit}]
  <2>1. n \in Room
    <3>1. m.ask.exit \in Exits
      BY <1>2, CommandParts DEF Dig, Is
    <3> QED BY <1>2, <1>7, <1>9, <3>1 DEF Room
  <2>2. rooms' = [made EXCEPT ![m.room] = n]
    BY <1>9
  <2> HIDE DEF n
  <2> QED BY <1>2, <1>3, <1>5, <1>7, <2>1, <2>2, NoneAssumption DEF Live
<1> QED BY <1>6, <1>8, <1>9

\* The other commands and the steps of an errand, as far as rooms go: Bury ...
LEMMA BuryEffect ==
    ASSUME RoomTypeOK, NEW t \in Tasks, Bury(t)
    PROVE  \/ rooms' = rooms
           \/ \E gone \in SUBSET Exits :
                errand[t].room \in Live /\ rooms' = [rooms EXCEPT ![errand[t].room].exits = @ \ gone]
<1> DEFINE r == errand[t].room
           gone == Answering(rooms[r].exits, errand[t].ask.exit)
<1>1. SUFFICES ASSUME rooms' # rooms
      PROVE  r \in Live /\ gone \in SUBSET Exits /\ rooms' = [rooms EXCEPT ![r].exits = @ \ gone]
  BY Zenon
<1>2. r \in Live /\ rooms' = [rooms EXCEPT ![r].exits = @ \ gone]
  BY <1>1 DEF Bury
<1>3. rooms[r] \in Room
  BY <1>2 DEF Live, RoomTypeOK
<1> QED BY <1>2, <1>3 DEF Answering, Room

\* ... and the replacement by a document.
LEMMA SwapEffect ==
    ASSUME RoomTypeOK, NEW t \in Tasks, Swap(t)
    PROVE  LET r == errand[t].room
               n == [acl |-> open, exits |-> errand[t].exits, avatars |-> Staying(t)]
           IN  r \in Rooms /\ n \in Room /\ rooms' = [rooms EXCEPT ![r] = n]
<1> DEFINE r == errand[t].room
<1>1. errand[t] \in Errand
  BY DEF Swap, At, RoomTypeOK
<1>2. r \in Rooms /\ errand[t].exits \in SUBSET Exits
  BY <1>1 DEF Errand
<1>3. Staying(t) \in SUBSET Avatars
  <2>1. r \in Live => rooms[r] \in Room
    BY DEF Live, RoomTypeOK
  <2> QED BY <2>1 DEF Staying, Room
<1>4. open \in RoomAcl
  BY DEF open, RoomAcl
<1> QED BY <1>2, <1>3, <1>4 DEF Swap, Room

\* A room whose exits are replaced.
LEMMA ExitsPut ==
    ASSUME NEW made \in [Rooms -> Room \cup {None}], NEW r \in Rooms, made[r] # None,
           NEW S \in SUBSET Exits, NEW now, now = [made EXCEPT ![r].exits = S]
    PROVE  /\ now \in [Rooms -> Room \cup {None}]
           /\ now[r] \in Room /\ now[r].acl = made[r].acl
           /\ now[r].exits = S /\ now[r].avatars = made[r].avatars
           /\ \A q \in Rooms : q # r => now[q] = made[q]
<1> DEFINE n == [made[r] EXCEPT !.exits = S]
<1>1. n \in Room /\ n.acl = made[r].acl /\ n.exits = S /\ n.avatars = made[r].avatars
  BY DEF Room
<1>2. now = [made EXCEPT ![r] = n]
  OBVIOUS
<1> HIDE DEF n
<1> QED BY <1>1, <1>2

-----------------------------------------------------------------------------
(* Types                                                                    *)

LEMMA ErrandPut ==
    ASSUME RoomTypeOK, NEW t \in Tasks, NEW e \in Errand \cup {None},
           errand' = [errand EXCEPT ![t] = e]
    PROVE  /\ errand' \in [Tasks -> Errand \cup {None}]
           /\ errand'[t] = e
           /\ \A s \in Tasks : s # t => errand'[s] = errand[s]
BY DEF RoomTypeOK

\* What an errand is once a command has come.
LEMMA StartEffect ==
    ASSUME RoomTypeOK, NEW t \in Tasks, NEW c \in Avatars, NEW r \in Rooms, NEW ask \in Command,
           Ask(t, c, r, ask) \/ AskWorld(t, c, r, ask)
    PROVE  /\ errand[t] = None
           /\ \E e \in Errand : /\ errand' = [errand EXCEPT ![t] = e]
                               /\ e.at \in {"fetch", "act"} /\ e.exits = {} /\ e.changed = {}
           /\ alone' = IF \A s \in Tasks : errand[s] = None THEN {t} ELSE {}
           /\ UNCHANGED <<rooms, exitIndex, stored>>
<1> DEFINE caller == IF ask.verb = "dig" THEN c ELSE None
           owner == IF ask.verb = "deny" THEN rooms[r].acl.owner ELSE None
           there == IF ask.verb \in Documents THEN rooms[r].avatars ELSE {}
           step == IF ask.verb \in Documents THEN "fetch" ELSE "act"
           e == [at |-> step, room |-> r, ask |-> ask, caller |-> caller, owner |-> owner,
                 there |-> there, exits |-> {}, found |-> {}, changed |-> {}]
<1>1. Start(t, c, r, ask)
  BY DEF Ask, AskWorld
<1>2. ask.verb \in RoomVerbs => rooms[r] \in Room
  <2>1. ask.verb \in RoomVerbs => ~ AskWorld(t, c, r, ask)
    BY DEF AskWorld, RoomVerbs, WorldVerbs
  <2> QED BY <2>1 DEF Ask, execute_room_actor_command, Live, RoomTypeOK
<1>3. owner \in Identities \cup {None} /\ there \in SUBSET Avatars
  BY <1>2 DEF RoomVerbs, Documents, Room, RoomAcl
<1>4. errand' = [errand EXCEPT ![t] = e]
  BY <1>1 DEF Start
<1>5. caller \in Avatars \cup {None} /\ step \in {"fetch", "act"}
  OBVIOUS
<1> HIDE DEF caller, owner, there, step
<1>6. e \in Errand /\ e.at = step /\ e.exits = {} /\ e.changed = {}
  BY <1>3, <1>5 DEF Errand
<1> HIDE DEF e
<1> QED BY <1>1, <1>4, <1>5, <1>6 DEF Start

\* What becomes of the errand of a task that handles it.
LEMMA HandlingErrand ==
    ASSUME RoomTypeOK, NEW t \in Tasks, Handling(t)
    PROVE  /\ errand[t] \in Errand
           /\ \E e \in Errand \cup {None} :
                /\ errand' = [errand EXCEPT ![t] = e]
                /\ e # None => /\ e.ask = errand[t].ask
                               /\ e.exits = errand[t].exits \/ Apart(e.exits)
                               /\ e.room = errand[t].room
                               /\ e.changed \subseteq errand[t].changed \cup {e.room} \cup Live'
                               /\ e.at = "mend" => Scan(t) /\ e.found = IncomingExits
                               /\ e.at = "save" => Mend(t) \/ ~ Is(t, RoomVerbs \cup {"world-dig"})
           /\ alone' = alone
<1> DEFINE m == errand[t]
<1>1. m \in Errand
  BY DEF Handling, Rights, Dig, Bury, Fetch, Swap, Scan, Mend, Put, Save, At, RoomTypeOK
<1>2. alone' = alone
  BY DEF Handling, Rights, Dig, Bury, Fetch, Swap, Scan, Mend, Put, Save
<1> DEFINE Stays(e) ==
                /\ errand' = [errand EXCEPT ![t] = e]
                /\ e # None => /\ e.ask = errand[t].ask
                               /\ e.exits = errand[t].exits \/ Apart(e.exits)
                               /\ e.room = errand[t].room
                               /\ e.changed \subseteq errand[t].changed \cup {e.room} \cup Live'
                               /\ e.at = "mend" => Scan(t) /\ e.found = IncomingExits
                               /\ e.at = "save" => Mend(t) \/ ~ Is(t, RoomVerbs \cup {"world-dig"})
<1>3. SUFFICES \E e \in Errand \cup {None} : Stays(e)
  BY <1>1, <1>2
<1>4. CASE Done(t)
  BY <1>4 DEF Done
<1>5. CASE Rights(t)
  BY <1>5, RightsErrand
<1>6. CASE Dig(t)
  <2> DEFINE S == {m.room} \cup ({m.ask.exit.to} \ {Elsewhere})
             e == [m EXCEPT !.at = "scan", !.changed = S]
  <2>1. S \subseteq Rooms
    <3>1. m.ask \in Command
      BY <1>1 DEF Errand
    <3>2. m.ask.exit \in Exits
      BY <1>6, <3>1, CommandParts DEF Dig, Is
    <3> QED BY <1>1, <3>2 DEF Errand, Exits
  <2>2. errand' = [errand EXCEPT ![t] = e]
    BY <1>6 DEF Dig, Changed
  <2> HIDE DEF S
  <2>3. e \in Errand /\ e.ask = m.ask /\ e.exits = m.exits /\ e.at = "scan"
        /\ e.room = m.room /\ e.changed = S
    BY <1>1, <2>1 DEF Errand
  <2>4. S \subseteq {m.room} \cup Live'
    BY <1>6, DigMakes DEF S
  <2> HIDE DEF e
  <2> QED BY <2>2, <2>3, <2>4
<1>7. CASE Bury(t) /\ ~ Done(t)
  <2> DEFINE e == [m EXCEPT !.at = "scan", !.changed = {m.room}]
  <2>1. errand' = [errand EXCEPT ![t] = e]
    BY <1>7 DEF Bury, Changed
  <2>2. e \in Errand /\ e.ask = m.ask /\ e.exits = m.exits /\ e.at = "scan"
        /\ e.room = m.room /\ e.changed = {m.room}
    BY <1>1 DEF Errand
  <2> HIDE DEF e
  <2> QED BY <2>1, <2>2
<1>8. CASE Fetch(t) /\ ~ Done(t)
  <2>1. PICK S \in SUBSET Exits : Apart(S)
                    /\ errand' = [errand EXCEPT ![t] = [@ EXCEPT !.at = "act", !.exits = S]]
    <3>1. CASE Is(t, {"cid", "content"})
      BY <1>8, <3>1, AuthoredAssumption DEF Fetch, Is
    <3>2. CASE Is(t, {"exit"})
      <4>1. m.ask.exit \in Exits /\ m.room \in Rooms
        BY <1>1, <3>2, CommandParts DEF Errand, Is
      <4>2. stored[m.room] # None => stored[m.room] \in SUBSET Exits
        BY <4>1 DEF RoomTypeOK
      <4> QED BY <1>8, <3>2, <4>1, <4>2 DEF Fetch, Is
    <3> QED BY <1>8, <3>1, <3>2 DEF Fetch
  <2> DEFINE e == [m EXCEPT !.at = "act", !.exits = S]
  <2>2. e \in Errand /\ e.ask = m.ask /\ e.exits = S /\ e.at = "act"
        /\ e.room = m.room /\ e.changed = m.changed
    BY <1>1, <2>1 DEF Errand
  <2>3. errand' = [errand EXCEPT ![t] = e]
    BY <2>1
  <2> HIDE DEF e
  <2> QED BY <2>1, <2>2, <2>3
<1>9. CASE Swap(t)
  <2> DEFINE step == IF Is(t, {"exit"}) THEN "scan" ELSE "put"
             e == [m EXCEPT !.at = step]
  <2>1. errand' = [errand EXCEPT ![t] = e]
    BY <1>9 DEF Swap, Goes
  <2>2. step \in {"scan", "put"}
    OBVIOUS
  <2> HIDE DEF step
  <2>3. e \in Errand /\ e.ask = m.ask /\ e.exits = m.exits /\ e.at = step
        /\ e.room = m.room /\ e.changed = m.changed
    BY <1>1, <2>2 DEF Errand
  <2> HIDE DEF e
  <2> QED BY <2>1, <2>2, <2>3
<1>10. CASE Scan(t)
  <2> DEFINE e == [m EXCEPT !.at = "mend", !.found = IncomingExits]
  <2>1. IncomingExits \subseteq Rooms \X Exits
    <3>1. \A r \in Live : r \in Rooms /\ rooms[r] \in Room
      BY DEF Live, RoomTypeOK
    <3>2. \A r \in Live : rooms[r].exits \subseteq Exits
      BY <3>1 DEF Room
    <3> QED BY <3>1, <3>2 DEF IncomingExits
  <2>2. e \in Errand /\ e.ask = m.ask /\ e.exits = m.exits /\ e.at = "mend" /\ e.found = IncomingExits
        /\ e.room = m.room /\ e.changed = m.changed
    BY <1>1, <2>1 DEF Errand
  <2>3. errand' = [errand EXCEPT ![t] = e]
    BY <1>10 DEF Scan
  <2> HIDE DEF e
  <2> QED BY <1>10, <2>2, <2>3
<1>11. CASE Mend(t)
  <2> DEFINE step == IF Is(t, {"exit"}) THEN "put" ELSE "save"
             e == [m EXCEPT !.at = step, !.found = {}]
  <2>1. errand' = [errand EXCEPT ![t] = e]
    BY <1>11 DEF Mend
  <2>2. step \in {"put", "save"}
    OBVIOUS
  <2> HIDE DEF step
  <2>3. e \in Errand /\ e.ask = m.ask /\ e.exits = m.exits /\ e.at = step
        /\ e.room = m.room /\ e.changed = m.changed
    BY <1>1, <2>2 DEF Errand
  <2> HIDE DEF e
  <2> QED BY <1>11, <2>1, <2>2, <2>3
<1>12. CASE Put(t) \/ Save(t)
  BY <1>4, <1>12 DEF Put, Save
<1> QED BY <1>4, <1>5, <1>6, <1>7, <1>8, <1>9, <1>10, <1>11, <1>12 DEF Handling

\* What is kept of every errand: its exits are apart, and the rooms it changed are there.
Drafted == \A t \in Tasks : errand[t] # None => Apart(errand[t].exits)
ChangedLive == \A t \in Tasks : errand[t] # None =>
                    errand[t].changed \subseteq Live \cup {errand[t].room}

\* How rooms become: a room never goes, sound rights stay sound and apart exits
\* apart, and who is put out is kicked, or denied, by the command of task t.
RoomsMove(t) ==
    /\ rooms' \in [Rooms -> Room \cup {None}]
    /\ \A r \in Rooms : rooms[r] # None => rooms'[r] # None
    /\ \A r \in Rooms : rooms'[r] # None =>
        /\ (rooms[r] # None => AclOf(rooms[r].acl)) => AclOf(rooms'[r].acl)
        /\ (rooms[r] # None => Apart(rooms[r].exits)) => Apart(rooms'[r].exits)
    /\ \A r \in Live : \A c \in rooms[r].avatars :
        c \in rooms'[r].avatars \/ (Rights(t) /\ Is(t, {"kick", "deny"}) /\ errand[t].ask.who = c)

LEMMA RightsMove ==
    ASSUME RoomTypeOK, NEW t \in Tasks, Rights(t)
    PROVE  RoomsMove(t)
<1>1. CASE rooms' = rooms
  BY <1>1 DEF RoomsMove, RoomTypeOK
<1>2. CASE rooms' # rooms
  <2> DEFINE r == errand[t].room
             who == errand[t].ask.who
  <2>1. PICK acl \in RoomAcl, S \in SUBSET Avatars :
            /\ r \in Live
            /\ rooms' = [rooms EXCEPT ![r] = [@ EXCEPT !.acl = acl, !.avatars = S]]
            /\ AclOf(rooms[r].acl) => AclOf(acl)
            /\ S = rooms[r].avatars \/ (S = rooms[r].avatars \ {who} /\ Is(t, {"kick", "deny"}))
    BY <1>2, RightsEffect
  <2>2. r \in Rooms /\ rooms[r] # None
    BY <2>1 DEF Live
  <2> HIDE DEF r, who
  <2>3. /\ rooms' \in [Rooms -> Room \cup {None}]
        /\ rooms'[r] \in Room /\ rooms'[r].acl = acl
        /\ rooms'[r].exits = rooms[r].exits /\ rooms'[r].avatars = S
        /\ \A q \in Rooms : q # r => rooms'[q] = rooms[q]
    BY <2>1, RoomPut
  <2>4. \A q \in Live : \A c \in rooms[q].avatars :
            c \in rooms'[q].avatars \/ (Is(t, {"kick", "deny"}) /\ who = c)
    BY <2>1, <2>3 DEF Live
  <2> QED BY <2>1, <2>2, <2>3, <2>4, NoneAssumption DEF RoomsMove, who
<1> QED BY <1>1, <1>2

LEMMA DigMove ==
    ASSUME RoomTypeOK, NEW t \in Tasks, Dig(t)
    PROVE  RoomsMove(t)
<1> DEFINE r == errand[t].room
           exit == errand[t].ask.exit
<1>1. PICK made \in [Rooms -> Room \cup {None}] :
            /\ \A q \in Rooms : made[q] = rooms[q]
                \/ \E owner \in Identities \cup {None} : rooms[q] = None /\ made[q] = NewRoom(owner)
            /\ r \in Rooms /\ exit \in Exits
            /\ \/ rooms' = made
               \/ /\ made[r] # None /\ Answering(made[r].exits, exit) = {}
                  /\ rooms' = [made EXCEPT ![r].exits = @ \cup {exit}]
  BY DigEffect
<1> HIDE DEF r, exit
<1>2. Apart({})
  BY DEF Apart
<1>3. \A q \in Rooms : \/ made[q] = rooms[q]
                        \/ /\ rooms[q] = None /\ made[q] # None /\ AclOf(made[q].acl)
                           /\ made[q].exits = {}
  BY <1>1, NewRoomSound, NoneAssumption
<1>4. CASE rooms' = made
  BY <1>2, <1>3, <1>4 DEF RoomsMove, Live
<1>5. CASE /\ made[r] # None /\ Answering(made[r].exits, exit) = {}
           /\ rooms' = [made EXCEPT ![r].exits = @ \cup {exit}]
  <2> DEFINE S == made[r].exits \cup {exit}
  <2>1. made[r] \in Room
    BY <1>1, <1>5
  <2>2. S \in SUBSET Exits
    BY <1>1, <2>1 DEF Room
  <2>3. Apart(made[r].exits) => Apart(S)
    BY <1>5 DEF Apart, Answering
  <2>4. rooms' = [made EXCEPT ![r].exits = S]
    BY <1>5
  <2> HIDE DEF S
  <2>5. /\ rooms' \in [Rooms -> Room \cup {None}]
        /\ rooms'[r] \in Room /\ rooms'[r].acl = made[r].acl
        /\ rooms'[r].exits = S /\ rooms'[r].avatars = made[r].avatars
        /\ \A q \in Rooms : q # r => rooms'[q] = made[q]
    <3>1. r \in Rooms /\ made[r] # None
      BY <1>1, <1>5
    <3> QED BY <2>2, <2>4, <3>1, ExitsPut
  <2>6. \A q \in Rooms : rooms[q] # None => rooms'[q] # None
    BY <1>3, <2>5, NoneAssumption
  <2>7. \A q \in Rooms : rooms'[q] # None =>
            /\ (rooms[q] # None => AclOf(rooms[q].acl)) => AclOf(rooms'[q].acl)
            /\ (rooms[q] # None => Apart(rooms[q].exits)) => Apart(rooms'[q].exits)
    <3>1. SUFFICES ASSUME NEW q \in Rooms, rooms'[q] # None
          PROVE /\ (rooms[q] # None => AclOf(rooms[q].acl)) => AclOf(rooms'[q].acl)
                /\ (rooms[q] # None => Apart(rooms[q].exits)) => Apart(rooms'[q].exits)
      OBVIOUS
    <3>2. CASE q = r
      BY <1>2, <1>3, <1>5, <2>3, <2>5, <3>2
    <3>3. CASE q # r
      BY <1>2, <1>3, <2>5, <3>1, <3>3
    <3> QED BY <3>2, <3>3
  <2>8. \A q \in Live : rooms'[q].avatars = rooms[q].avatars
    BY <1>3, <2>5 DEF Live
  <2> QED BY <2>5, <2>6, <2>7, <2>8 DEF RoomsMove
<1> QED BY <1>1, <1>4, <1>5

LEMMA BuryMove ==
    ASSUME RoomTypeOK, NEW t \in Tasks, Bury(t)
    PROVE  RoomsMove(t)
<1>1. CASE rooms' = rooms
  BY <1>1 DEF RoomsMove, RoomTypeOK
<1>2. CASE rooms' # rooms
  <2> DEFINE r == errand[t].room
  <2>1. PICK gone \in SUBSET Exits : r \in Live /\ rooms' = [rooms EXCEPT ![r].exits = @ \ gone]
    BY <1>2, BuryEffect
  <2> HIDE DEF r
  <2>2. r \in Rooms /\ rooms[r] # None /\ rooms[r] \in Room /\ rooms \in [Rooms -> Room \cup {None}]
    BY <2>1 DEF Live, RoomTypeOK
  <2> DEFINE S == rooms[r].exits \ gone
  <2>3. S \in SUBSET Exits /\ (Apart(rooms[r].exits) => Apart(S))
    BY <2>2 DEF Room, Apart
  <2>4. rooms' = [rooms EXCEPT ![r].exits = S]
    BY <2>1
  <2> HIDE DEF S
  <2>5. /\ rooms' \in [Rooms -> Room \cup {None}]
        /\ rooms'[r] \in Room /\ rooms'[r].acl = rooms[r].acl
        /\ rooms'[r].exits = S /\ rooms'[r].avatars = rooms[r].avatars
        /\ \A q \in Rooms : q # r => rooms'[q] = rooms[q]
    BY <2>2, <2>3, <2>4, ExitsPut
  <2> QED BY <2>2, <2>3, <2>5, NoneAssumption DEF RoomsMove, Live
<1> QED BY <1>1, <1>2

LEMMA SwapMove ==
    ASSUME RoomTypeOK, Drafted, NEW t \in Tasks, Swap(t)
    PROVE  RoomsMove(t)
<1> DEFINE r == errand[t].room
           n == [acl |-> open, exits |-> errand[t].exits, avatars |-> Staying(t)]
<1>1. r \in Rooms /\ n \in Room /\ rooms' = [rooms EXCEPT ![r] = n]
  BY SwapEffect
<1>2. Apart(n.exits) /\ AclOf(n.acl) /\ (r \in Live => n.avatars = rooms[r].avatars)
  BY DEF Drafted, Swap, At, open, AclOf, Staying
<1> HIDE DEF n, r
<1>3. rooms' \in [Rooms -> Room \cup {None}] /\ rooms'[r] = n
      /\ \A q \in Rooms : q # r => rooms'[q] = rooms[q]
  BY <1>1 DEF RoomTypeOK
<1> QED BY <1>1, <1>2, <1>3, NoneAssumption DEF RoomsMove, Live

LEMMA HandlingMove ==
    ASSUME RoomTypeOK, Drafted, NEW t \in Tasks, Handling(t)
    PROVE  RoomsMove(t)
<1>1. CASE Fetch(t) \/ Scan(t) \/ Mend(t) \/ Put(t) \/ Save(t)
  <2>1. rooms' = rooms
    BY <1>1 DEF Fetch, Scan, Mend, Put, Save
  <2> QED BY <2>1 DEF RoomsMove, RoomTypeOK
<1> QED BY <1>1, RightsMove, DigMove, BuryMove, SwapMove DEF Handling

\* Entering changes nothing but who is where.
LEMMA EnterMove ==
    ASSUME RoomTypeOK, NEW c \in Avatars, NEW r \in Rooms, Enter(c, r)
    PROVE  /\ rooms' \in [Rooms -> Room \cup {None}]
           /\ \A q \in Rooms : rooms[q] = None => rooms'[q] = None
           /\ \A q \in Live : /\ rooms'[q] # None /\ rooms'[q].acl = rooms[q].acl
                              /\ rooms'[q].exits = rooms[q].exits
                              /\ rooms[q].avatars \ {c} \subseteq rooms'[q].avatars
           /\ c \in rooms'[r].avatars
<1>1. rooms' = [q \in Rooms |->
            IF q = r THEN [rooms[q] EXCEPT !.avatars = @ \cup {c}]
            ELSE IF q \in Live THEN [rooms[q] EXCEPT !.avatars = @ \ {c}] ELSE None]
  BY DEF Enter
<1>2. r \in Live
  BY DEF Enter
<1>3. \A q \in Live : rooms[q] \in Room
  BY DEF Live, RoomTypeOK
<1>4. \A q \in Live : LET more == [rooms[q] EXCEPT !.avatars = @ \cup {c}]
                          less == [rooms[q] EXCEPT !.avatars = @ \ {c}]
                      IN  /\ more \in Room /\ less \in Room
                          /\ more.acl = rooms[q].acl /\ less.acl = rooms[q].acl
                          /\ more.exits = rooms[q].exits /\ less.exits = rooms[q].exits
                          /\ more.avatars = rooms[q].avatars \cup {c}
                          /\ less.avatars = rooms[q].avatars \ {c}
  BY <1>3 DEF Room
<1> QED BY <1>1, <1>2, <1>4, NoneAssumption DEF Live

\* Every step of a task, a command that comes, and entering, keep the types.
LEMMA HandlingType ==
    ASSUME RoomTypeOK, Drafted, ChangedLive, NEW t \in Tasks, Handling(t)
    PROVE  RoomTypeOK' /\ Drafted' /\ ChangedLive'
<1>1. rooms' \in [Rooms -> Room \cup {None}] /\ Live \subseteq Live'
  BY HandlingMove DEF RoomsMove, Live
<1>2. errand[t] \in Errand /\ alone' = alone
  BY HandlingErrand
<1>3. PICK e \in Errand \cup {None} :
        /\ errand' = [errand EXCEPT ![t] = e]
        /\ e # None => /\ e.exits = errand[t].exits \/ Apart(e.exits)
                       /\ e.room = errand[t].room
                       /\ e.changed \subseteq errand[t].changed \cup {e.room} \cup Live'
  BY HandlingErrand
<1>4. /\ errand' \in [Tasks -> Errand \cup {None}]
      /\ errand'[t] = e
      /\ \A s \in Tasks : s # t => errand'[s] = errand[s]
  BY <1>3, ErrandPut
<1>5. errand[t] # None
  BY <1>2, NoneAssumption
<1>6. Drafted'
  BY <1>3, <1>4, <1>5 DEF Drafted
<1>7. ChangedLive'
  BY <1>1, <1>3, <1>4, <1>5 DEF ChangedLive
<1>8. exitIndex' \subseteq Rooms \X Exits
  <2>1. CASE Mend(t)
    BY <1>2, <2>1 DEF Mend, Mended, Errand
  <2>2. CASE ~ Mend(t)
    BY <2>2 DEF Handling, Rights, Dig, Bury, Fetch, Swap, Scan, Put, Save, RoomTypeOK
  <2> QED BY <2>1, <2>2
<1>9. stored' \in [Rooms -> (SUBSET Exits) \cup {None}]
  <2>1. CASE Put(t)
    BY <1>2, <2>1 DEF Put, RoomTypeOK, Errand
  <2>2. CASE Save(t)
    <3>1. PICK S \in {{}} \cup (IF errand[t].room \in Live THEN {{errand[t].room}, errand[t].changed}
                                                        ELSE {}) :
            stored' = [r \in Rooms |-> IF r \in S THEN rooms[r].exits ELSE stored[r]]
      BY <2>2 DEF Save
    <3>2. S \subseteq Live
      BY <1>5 DEF ChangedLive
    <3>3. \A r \in Live : rooms[r].exits \in SUBSET Exits
      <4>1. \A r \in Live : rooms[r] \in Room
        BY DEF Live, RoomTypeOK
      <4> QED BY <4>1 DEF Room
    <3> QED BY <3>1, <3>2, <3>3 DEF RoomTypeOK
  <2>3. CASE ~ Put(t) /\ ~ Save(t)
    BY <2>3 DEF Handling, Rights, Dig, Bury, Fetch, Swap, Scan, Mend, RoomTypeOK
  <2> QED BY <2>1, <2>2, <2>3
<1> QED BY <1>1, <1>2, <1>4, <1>6, <1>7, <1>8, <1>9 DEF RoomTypeOK

LEMMA CommandsType ==
    ASSUME RoomTypeOK, Drafted, ChangedLive, NEW t \in Tasks, Commands(t)
    PROVE  RoomTypeOK' /\ Drafted' /\ ChangedLive'
<1>1. PICK c \in Avatars, r \in Rooms, ask \in Command : Ask(t, c, r, ask) \/ AskWorld(t, c, r, ask)
  BY DEF Commands
<1>2. alone' = (IF \A s \in Tasks : errand[s] = None THEN {t} ELSE {})
      /\ UNCHANGED <<rooms, exitIndex, stored>>
  BY <1>1, StartEffect
<1>3. PICK e \in Errand : errand' = [errand EXCEPT ![t] = e] /\ e.exits = {} /\ e.changed = {}
  BY <1>1, StartEffect
<1>4. /\ errand' \in [Tasks -> Errand \cup {None}]
      /\ errand'[t] = e
      /\ \A s \in Tasks : s # t => errand'[s] = errand[s]
  BY <1>3, ErrandPut
<1>5. Apart({})
  BY DEF Apart
<1> QED BY <1>2, <1>3, <1>4, <1>5 DEF RoomTypeOK, Drafted, ChangedLive, Live

LEMMA RoomStepType ==
    ASSUME RoomTypeOK, Drafted, ChangedLive, [RoomNext]_roomVars
    PROVE  RoomTypeOK' /\ Drafted' /\ ChangedLive'
<1>1. CASE UNCHANGED roomVars
  BY <1>1 DEF roomVars, RoomTypeOK, Drafted, ChangedLive, Live
<1>2. ASSUME NEW c \in Avatars, NEW r \in Rooms, Enter(c, r)
      PROVE  RoomTypeOK' /\ Drafted' /\ ChangedLive'
  <2>1. UNCHANGED <<exitIndex, stored, errand, alone>>
    BY <1>2 DEF Enter
  <2>2. rooms' \in [Rooms -> Room \cup {None}] /\ Live \subseteq Live'
    BY <1>2, EnterMove DEF Live
  <2> QED BY <2>1, <2>2 DEF RoomTypeOK, Drafted, ChangedLive
<1> QED BY <1>1, <1>2, HandlingType, CommandsType DEF RoomNext

LEMMA RoomInitType == RoomInit => RoomTypeOK /\ Drafted /\ ChangedLive
<1>1. NewRoom(None) \in Room
  BY NewRoomSound
<1> QED BY <1>1, RoomsAssumption DEF RoomInit, RoomTypeOK, Drafted, ChangedLive

\* Every reachable state is well typed, for any avatars, rooms, exits and number of
\* handlers under way.
THEOREM RoomTypeCorrect == RoomSpec => []RoomTypeOK
<1> DEFINE Inv == RoomTypeOK /\ Drafted /\ ChangedLive
<1>1. RoomInit => Inv
  BY RoomInitType
<1>2. Inv /\ [RoomNext]_roomVars => Inv'
  BY RoomStepType
<1> QED BY <1>1, <1>2, PTL DEF RoomSpec

-----------------------------------------------------------------------------
(* Rights and exits                                                         *)

\* What holds of each room by itself, and what every step keeps of it.
Sound(r) == rooms[r] # None => AclOf(rooms[r].acl) /\ Apart(rooms[r].exits)

LEMMA StepSound ==
    ASSUME RoomTypeOK, Drafted, \A r \in Rooms : Sound(r), [RoomNext]_roomVars
    PROVE  (\A r \in Rooms : Sound(r))'
<1>1. CASE UNCHANGED roomVars
  BY <1>1 DEF roomVars, Sound
<1>2. ASSUME NEW t \in Tasks, Commands(t)
      PROVE  (\A r \in Rooms : Sound(r))'
  <2>1. rooms' = rooms
    BY <1>2, StartEffect DEF Commands
  <2> QED BY <2>1 DEF Sound
<1>3. ASSUME NEW t \in Tasks, Handling(t)
      PROVE  (\A r \in Rooms : Sound(r))'
  BY <1>3, HandlingMove DEF RoomsMove, Sound
<1>4. ASSUME NEW c \in Avatars, NEW r \in Rooms, Enter(c, r)
      PROVE  (\A q \in Rooms : Sound(q))'
  BY <1>4, EnterMove DEF Sound, Live
<1> QED BY <1>1, <1>2, <1>3, <1>4 DEF RoomNext

LEMMA RoomsSound == RoomSpec => [](\A r \in Rooms : Sound(r))
<1> DEFINE Inv == RoomTypeOK /\ Drafted /\ ChangedLive /\ \A r \in Rooms : Sound(r)
<1>1. RoomInit => Inv
  <2>1. AclOf(NewRoom(None).acl) /\ NewRoom(None).exits = {}
    BY NewRoomSound
  <2> QED BY <2>1, RoomInitType DEF RoomInit, Sound, Apart
<1>2. Inv /\ [RoomNext]_roomVars => Inv'
  BY RoomStepType, StepSound
<1> QED BY <1>1, <1>2, PTL DEF RoomSpec

\* For any number of owners, commands and interleavings: no room both lets in and
\* keeps out by name, nor denies its owner.
THEOREM RightsStaySound == RoomSpec => []AclSound
<1>1. (\A r \in Rooms : Sound(r)) => AclSound
  BY DEF Sound, AclSound, Live
<1> QED BY <1>1, RoomsSound, PTL

\* For any exits and names: no two exits of a room ever answer to one name.
THEOREM ExitsStayApart == RoomSpec => []ExitsApart
<1>1. (\A r \in Rooms : Sound(r)) => ExitsApart
  BY DEF Sound, ExitsApart, Live
<1> QED BY <1>1, RoomsSound, PTL

\* For any documents, however long they are in fetching: nobody is put out of a room
\* but by a kick or a deny, or by entering another.
THEOREM OccupantsStay == RoomSpec => OccupantsKept
<1> DEFINE Inv == RoomTypeOK /\ Drafted /\ ChangedLive
           Kept == \A r \in Live : \A c \in rooms[r].avatars :
                    \/ rooms'[r] # None /\ c \in rooms'[r].avatars
                    \/ \E q \in Live \ {r} : c \in rooms'[q].avatars
                    \/ \E t \in Tasks : /\ At(t, "act") /\ errand'[t] # errand[t]
                                        /\ Is(t, {"kick", "deny"}) /\ errand[t].ask.who = c
<1>1. RoomInit => Inv
  BY RoomInitType
<1>2. Inv /\ [RoomNext]_roomVars => Inv'
  BY RoomStepType
<1>3. Inv /\ [RoomNext]_roomVars => [Kept]_roomVars
  <2>1. SUFFICES ASSUME Inv, RoomNext PROVE Kept
    OBVIOUS
  <2>2. CASE \E t \in Tasks : Commands(t)
    <3>1. rooms' = rooms
      BY <2>1, <2>2, StartEffect DEF Commands
    <3> QED BY <3>1 DEF Live
  <2>3. ASSUME NEW t \in Tasks, Handling(t)
        PROVE  Kept
    <3>1. RoomsMove(t)
      BY <2>1, <2>3, HandlingMove
    <3>2. Rights(t) => At(t, "act") /\ errand'[t] # errand[t]
      <4>1. SUFFICES ASSUME Rights(t) PROVE At(t, "act") /\ errand'[t] # errand[t]
        OBVIOUS
      <4>2. At(t, "act") /\ errand[t] # None /\ errand[t].at = "act"
        BY <4>1 DEF Rights, At
      <4>3. PICK e \in Errand \cup {None} : errand' = [errand EXCEPT ![t] = e]
                /\ (e # None => e.at \in {"scan", "save"})
        BY <2>1, <4>1, RightsErrand
      <4> QED BY <2>1, <4>2, <4>3 DEF RoomTypeOK
    <3> QED BY <3>1, <3>2 DEF RoomsMove, Live
  <2>4. ASSUME NEW c \in Avatars, NEW r \in Rooms, Enter(c, r)
        PROVE  Kept
    <3>1. r \in Live /\ c \notin rooms[r].avatars
      BY <2>4 DEF Enter
    <3> QED BY <2>1, <2>4, <3>1, EnterMove DEF Live
  <2> QED BY <2>1, <2>2, <2>3, <2>4 DEF RoomNext
<1> QED BY <1>1, <1>2, <1>3, PTL DEF RoomSpec, OccupantsKept

-----------------------------------------------------------------------------
(* The exit index                                                           *)

\* Of a task that had no other beside it: there is none now, what it read of the
\* exits is what they are, and once it has mended the index that is so.
AloneInv ==
    \A t \in alone :
        /\ \A s \in Tasks : s # t => errand[s] = None
        /\ At(t, "mend") => errand[t].found = IncomingExits
        /\ At(t, "save") /\ Is(t, RoomVerbs \cup {"world-dig"}) => exitIndex = IncomingExits

LEMMA EnterIncoming ==
    ASSUME RoomTypeOK, NEW c \in Avatars, NEW r \in Rooms, Enter(c, r)
    PROVE  IncomingExits' = IncomingExits
<1>1. Live' = Live
  BY EnterMove DEF Live
<1>2. \A q \in Live : rooms'[q].exits = rooms[q].exits
  BY EnterMove
<1> QED BY <1>1, <1>2 DEF IncomingExits

LEMMA StepAlone ==
    ASSUME RoomTypeOK, AloneInv, [RoomNext]_roomVars
    PROVE  AloneInv'
<1>1. CASE UNCHANGED roomVars
  BY <1>1 DEF roomVars, AloneInv, At, Is, IncomingExits, Live
<1>2. ASSUME NEW t \in Tasks, Commands(t)
      PROVE  AloneInv'
  <2>1. PICK c \in Avatars, r \in Rooms, ask \in Command : Ask(t, c, r, ask) \/ AskWorld(t, c, r, ask)
    BY <1>2 DEF Commands
  <2>2. PICK e \in Errand : errand' = [errand EXCEPT ![t] = e] /\ e.at \in {"fetch", "act"}
    BY <2>1, StartEffect
  <2>3. alone' = IF \A s \in Tasks : errand[s] = None THEN {t} ELSE {}
    BY <2>1, StartEffect
  <2>4. errand'[t] = e /\ \A s \in Tasks : s # t => errand'[s] = errand[s]
    BY <2>2, ErrandPut
  <2> QED BY <2>2, <2>3, <2>4 DEF AloneInv, At
<1>3. ASSUME NEW t \in Tasks, Handling(t)
      PROVE  AloneInv'
  <2>1. errand[t] \in Errand /\ alone' = alone
    BY <1>3, HandlingErrand
  <2>2. PICK e \in Errand \cup {None} :
            /\ errand' = [errand EXCEPT ![t] = e]
            /\ e # None => /\ e.ask = errand[t].ask
                           /\ e.at = "mend" => Scan(t) /\ e.found = IncomingExits
                           /\ e.at = "save" => Mend(t) \/ ~ Is(t, RoomVerbs \cup {"world-dig"})
    BY <1>3, HandlingErrand
  <2>3. errand'[t] = e /\ \A s \in Tasks : s # t => errand'[s] = errand[s]
    BY <2>2, ErrandPut
  <2>4. \A s \in alone : s = t
    BY <2>1, NoneAssumption DEF AloneInv
  <2>5. Scan(t) \/ Mend(t) => IncomingExits' = IncomingExits
    BY DEF Scan, Mend, IncomingExits, Live
  <2>6. t \in alone /\ Mend(t) => exitIndex' = IncomingExits
    BY DEF AloneInv, Mend, Mended
  <2>7. ASSUME t \in alone
        PROVE  /\ \A s \in Tasks : s # t => errand'[s] = None
               /\ At(t, "mend")' => errand'[t].found = IncomingExits'
               /\ At(t, "save")' /\ Is(t, RoomVerbs \cup {"world-dig"})' => exitIndex' = IncomingExits'
    <3>1. \A s \in Tasks : s # t => errand'[s] = None
      BY <2>3, <2>7 DEF AloneInv
    <3>2. At(t, "mend")' => errand'[t].found = IncomingExits'
      BY <2>2, <2>3, <2>5 DEF At
    <3>3. At(t, "save")' /\ Is(t, RoomVerbs \cup {"world-dig"})' => Mend(t)
      BY <2>2, <2>3 DEF At, Is
    <3> QED BY <2>5, <2>6, <2>7, <3>1, <3>2, <3>3
  <2> QED BY <2>1, <2>4, <2>7 DEF AloneInv
<1>4. ASSUME NEW c \in Avatars, NEW r \in Rooms, Enter(c, r)
      PROVE  AloneInv'
  <2>1. UNCHANGED <<exitIndex, errand, alone>> /\ IncomingExits' = IncomingExits
    BY <1>4, EnterIncoming DEF Enter
  <2> QED BY <2>1 DEF AloneInv, At, Is
<1> QED BY <1>1, <1>2, <1>3, <1>4 DEF RoomNext

\* For any number of handlers: a command that had none beside it, and replaced no room
\* by a document, leaves the exit index as the exits are.
THEOREM IndexStaysMended == RoomSpec => IndexMended
<1> DEFINE Inv == RoomTypeOK /\ Drafted /\ ChangedLive /\ AloneInv
           Ends == \A t \in alone :
                    (At(t, "save") /\ errand'[t] = None /\ Is(t, RoomVerbs \cup {"world-dig"}))
                        => exitIndex' = IncomingExits'
<1>1. RoomInit => Inv
  BY RoomInitType DEF RoomInit, AloneInv
<1>2. Inv /\ [RoomNext]_roomVars => Inv'
  BY RoomStepType, StepAlone
<1>3. Inv /\ [RoomNext]_roomVars => [Ends]_roomVars
  <2>1. SUFFICES ASSUME Inv, RoomNext,
                        NEW t \in alone, At(t, "save"), errand'[t] = None,
                        Is(t, RoomVerbs \cup {"world-dig"})
                 PROVE  exitIndex' = IncomingExits'
    OBVIOUS
  <2>2. t \in Tasks /\ errand[t] # None /\ exitIndex = IncomingExits
    BY <2>1 DEF RoomTypeOK, AloneInv, At
  <2>3. ASSUME NEW s \in Tasks, Handling(s)
        PROVE  s = t
    BY <2>1, <2>3, HandlingErrand, NoneAssumption DEF AloneInv
  <2>4. ~ (\E s \in Tasks : Commands(s))
    <3>1. SUFFICES ASSUME NEW s \in Tasks, Commands(s) PROVE FALSE
      OBVIOUS
    <3>2. PICK e \in Errand : errand[s] = None /\ errand' = [errand EXCEPT ![s] = e]
      BY <2>1, <3>1, StartEffect DEF Commands
    <3>3. \A q \in Tasks : q # s => errand'[q] = errand[q]
      BY <2>1, <3>2, ErrandPut
    <3> QED BY <2>1, <2>2, <3>2, <3>3
  <2>5. ~ (\E c \in Avatars, r \in Rooms : Enter(c, r))
    BY <2>1, <2>2 DEF Enter
  <2>6. Handling(t)
    BY <2>1, <2>3, <2>4, <2>5 DEF RoomNext
  <2>7. Save(t)
    BY <2>1, <2>6 DEF Handling, Rights, Dig, Bury, Fetch, Swap, Scan, Mend, Put, At
  <2> QED BY <2>2, <2>7 DEF Save, IncomingExits, Live
<1> QED BY <1>1, <1>2, <1>3, PTL DEF RoomSpec, IndexMended
=============================================================================
