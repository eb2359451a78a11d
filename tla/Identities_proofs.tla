------------------------- MODULE Identities_proofs -------------------------
(***************************************************************************)
(* Proofs about those the world and its agents go by, for any numbers of    *)
(* them and of tasks: a message that the published document verifies is not *)
(* refused while its sender publishes nothing else (SenderDocs), the        *)
(* registry follows the owners of the avatars and entering again leaves an  *)
(* avatar its profile (AvatarRegistry), and no agent gets a DID under a name *)
(* that does not lead to the daemon's document (AgentDaemon).               *)
(***************************************************************************)
EXTENDS SenderDocs, AvatarRegistry, AgentDaemon, TLAPS

-----------------------------------------------------------------------------
(* DID documents of senders                                                 *)


\* A check that is still steady is of the published document, and what it
\* fetched for its second look is that document.
SteadyCheck(m) ==
    /\ m.at \in {"look", "cache"} => m.document \in DidDocuments
    /\ m.steady => /\ published[m.sender] = m.signer
                   /\ m.again /\ m.at \in {"look", "cache", "verify"} => m.document = m.signer
                   /\ m.at # "mark"
SteadyChecks == \A l \in Lanes : checks[l] # Absent => SteadyCheck(checks[l])
DocsInv == DocsTypeOK /\ SteadyChecks

\* A step of one lane keeps the invariant if the message it is at then does.
LEMMA LaneStep ==
    ASSUME DocsInv, NEW l \in Lanes, NEW m \in Check \cup {Absent},
           checks' = [checks EXCEPT ![l] = m], published' = published, handedIn' = handedIn,
           didCache' \in [Senders -> CachedDidDocument \cup {Absent}],
           m # Absent => SteadyCheck(m)
    PROVE  DocsInv'
<1>1. DocsTypeOK'
  BY DEF DocsInv, DocsTypeOK
<1>2. SteadyChecks'
  <2> SUFFICES ASSUME NEW k \in Lanes, checks'[k] # Absent PROVE SteadyCheck(checks[k])'
    BY DEF SteadyChecks
  <2>1. CASE k = l
    BY <2>1 DEF DocsInv, DocsTypeOK, SteadyCheck
  <2>2. CASE k # l
    BY <2>2 DEF DocsInv, DocsTypeOK, SteadyChecks, SteadyCheck
  <2> QED BY <2>1, <2>2
<1> QED BY <1>1, <1>2 DEF DocsInv

\* What Looked makes of a message that was just taken is a check.
LEMMA LookedIsCheck ==
    ASSUME DocsInv, NEW m \in Check, ~ m.again, m.at = "fetch", SteadyCheck(m)
    PROVE  Looked(m) \in Check /\ SteadyCheck(Looked(m))
BY DEF Looked, Check, Steps, SteadyCheck, DocsInv, DocsTypeOK, CachedDidDocument

LEMMA InitHolds == DocsInit => DocsInv
BY DEF DocsInit, DocsInv, DocsTypeOK, SteadyChecks

LEMMA ReceiveHolds ==
    ASSUME DocsInv, NEW l \in Lanes, ReceiveSigned(l)
    PROVE  DocsInv'
<1>1. PICK s \in Senders, d \in DidDocuments :
        checks' = [checks EXCEPT ![l] =
            Looked([at |-> "fetch", sender |-> s, signer |-> d, document |-> Absent,
                    dirty |-> FALSE, again |-> FALSE, steady |-> published[s] = d])]
  BY DEF ReceiveSigned
<1> DEFINE m == [at |-> "fetch", sender |-> s, signer |-> d, document |-> Absent,
                 dirty |-> FALSE, again |-> FALSE, steady |-> published[s] = d]
<1>2. m \in Check /\ SteadyCheck(m)
  BY DEF Check, Steps, SteadyCheck
<1>3. Looked(m) \in Check /\ SteadyCheck(Looked(m))
  BY <1>2, LookedIsCheck
<1>4. published' = published /\ handedIn' = handedIn /\ didCache' = didCache
  BY DEF ReceiveSigned
<1> HIDE DEF m
<1> QED BY <1>1, <1>3, <1>4, LaneStep DEF DocsInv, DocsTypeOK, m

\* The steps of a check, one after the other.
LEMMA CheckHolds ==
    ASSUME DocsInv, NEW l \in Lanes, CheckSignature(l)
    PROVE  DocsInv'
<1> DEFINE m == checks[l]
<1>1. m # Absent /\ m \in Check /\ SteadyCheck(m)
  BY DEF CheckSignature, FetchDocument, FetchFails, LookDirty, CacheDocument, VerifySignature,
         SetSenderDirty, Checking, DocsInv, DocsTypeOK, SteadyChecks
<1>2. published' = published /\ handedIn' = handedIn
  BY DEF CheckSignature, FetchDocument, FetchFails, LookDirty, CacheDocument, VerifySignature,
         SetSenderDirty
<1>3. didCache \in [Senders -> CachedDidDocument \cup {Absent}] /\ checks \in [Lanes -> Check \cup {Absent}]
  BY DEF DocsInv, DocsTypeOK
<1>4. CASE FetchDocument(l)
  <2> DEFINE n == [m EXCEPT !.at = "look", !.document = published[m.sender]]
  <2>1. published[m.sender] \in DidDocuments
    BY <1>1, <1>4 DEF FetchDocument, Check, DocsInv, DocsTypeOK
  <2>2. n \in Check /\ SteadyCheck(n)
    BY <1>1, <2>1 DEF Check, Steps, SteadyCheck
  <2> QED BY <1>2, <1>3, <1>4, <2>2, LaneStep DEF FetchDocument
<1>5. CASE FetchFails(l)
  <2>1. didCache' \in [Senders -> CachedDidDocument \cup {Absent}]
    BY <1>1, <1>3, <1>5 DEF FetchFails, Check, CachedDidDocument
  <2> QED BY <1>2, <1>5, <2>1, LaneStep DEF FetchFails, Settle
<1>6. CASE LookDirty(l)
  <2> DEFINE n == [m EXCEPT !.at = "cache", !.dirty = IsDirty(m.sender)]
  <2>1. IsDirty(m.sender) \in BOOLEAN
    BY <1>1, <1>3 DEF IsDirty, Check, CachedDidDocument
  <2>2. n \in Check /\ SteadyCheck(n)
    BY <1>1, <1>6, <2>1 DEF Check, Steps, SteadyCheck, LookDirty, Checking
  <2> QED BY <1>2, <1>3, <1>6, <2>2, LaneStep DEF LookDirty
<1>7. CASE CacheDocument(l)
  <2> DEFINE n == [m EXCEPT !.at = "verify"]
  <2>1. n \in Check /\ SteadyCheck(n)
    BY <1>1, <1>7 DEF Check, Steps, SteadyCheck, CacheDocument, Checking
  <2>2. checks' = [checks EXCEPT ![l] = n]
    BY <1>3, <1>7 DEF CacheDocument, StepTo
  <2>3. didCache' \in [Senders -> CachedDidDocument \cup {Absent}]
    BY <1>1, <1>3, <1>7 DEF CacheDocument, Checking, SteadyCheck, Check, CachedDidDocument
  <2> QED BY <1>2, <2>1, <2>2, <2>3, LaneStep
<1>8. CASE VerifySignature(l)
  <2> DEFINE to(step) == [m EXCEPT !.at = step]
             again == Forced([m EXCEPT !.again = TRUE])
  <2>1. \/ checks' = [checks EXCEPT ![l] = to("clear")]
        \/ checks' = [checks EXCEPT ![l] = Absent]
        \/ checks' = [checks EXCEPT ![l] = to("mark")] /\ m.signer # m.document /\ m.again
        \/ checks' = [checks EXCEPT ![l] = again]
    BY <1>3, <1>8 DEF VerifySignature, StepTo, Settle
  <2>2. to("clear") \in Check /\ SteadyCheck(to("clear"))
    BY <1>1 DEF Check, Steps, SteadyCheck
  <2>3. ASSUME m.signer # m.document, m.again
        PROVE  to("mark") \in Check /\ SteadyCheck(to("mark"))
    <3>1. m.at = "verify"
      BY <1>8 DEF VerifySignature, Checking
    <3> QED BY <1>1, <2>3, <3>1 DEF Check, Steps, SteadyCheck
  <2>4. again \in Check /\ SteadyCheck(again)
    BY <1>1 DEF Check, Steps, SteadyCheck, Forced
  <2>5. didCache' = didCache
    BY <1>8 DEF VerifySignature
  <2> HIDE DEF m, to, again
  <2> QED BY <1>2, <1>3, <2>1, <2>2, <2>3, <2>4, <2>5, LaneStep
<1>9. CASE SetSenderDirty(l)
  <2>1. didCache' = didCache \/ (\E b \in BOOLEAN :
            /\ didCache[m.sender] # Absent
            /\ didCache' = [didCache EXCEPT ![m.sender].dirty = b])
    BY <1>9 DEF SetSenderDirty
  <2>2. m.sender \in Senders
    BY <1>1 DEF Check
  <2>3. didCache' \in [Senders -> CachedDidDocument \cup {Absent}]
    BY <1>3, <2>1, <2>2 DEF CachedDidDocument
  <2> QED BY <1>2, <1>9, <2>3, LaneStep DEF SetSenderDirty, Settle
<1> QED BY <1>4, <1>5, <1>6, <1>7, <1>8, <1>9 DEF CheckSignature

\* A sender that publishes another document unsettles the checks of the old one.
LEMMA PublishesHolds ==
    ASSUME DocsInv, NEW s \in Senders, NEW d \in DidDocuments, Publishes(s, d),
           didCache' = didCache,
           handedIn' \in [sender : Senders, document : DidDocuments] \cup {Absent}
    PROVE  DocsInv'
<1> USE DEF DocsInv, DocsTypeOK, Publishes
<1>1. \A l \in Lanes : checks[l] # Absent =>
        /\ checks'[l] \in Check
        /\ checks'[l] = checks[l] \/ (checks'[l] = [checks[l] EXCEPT !.steady = FALSE])
        /\ checks'[l].steady => checks[l].sender # s \/ checks[l].signer = d
  <2> SUFFICES ASSUME NEW l \in Lanes, checks[l] # Absent
      PROVE  /\ checks'[l] \in Check
             /\ checks'[l] = checks[l] \/ (checks'[l] = [checks[l] EXCEPT !.steady = FALSE])
             /\ checks'[l].steady => checks[l].sender # s \/ checks[l].signer = d
    OBVIOUS
  <2>1. checks[l] \in Check
    OBVIOUS
  <2>2. CASE checks[l].sender = s /\ checks[l].signer # d
    <3>1. checks'[l] = [checks[l] EXCEPT !.steady = FALSE]
      BY <2>2
    <3> QED BY <2>1, <3>1 DEF Check
  <2>3. CASE ~ (checks[l].sender = s /\ checks[l].signer # d)
    <3>1. checks'[l] = checks[l]
      BY <2>3
    <3> QED BY <2>1, <2>3, <3>1
  <2> QED BY <2>2, <2>3
<1>2. \A l \in Lanes : checks[l] = Absent => checks'[l] = Absent
  OBVIOUS
<1>3. checks' \in [Lanes -> Check \cup {Absent}] /\ published' \in [Senders -> DidDocuments \cup {Absent}]
  BY <1>1, <1>2
<1>4. SteadyChecks'
  <2> SUFFICES ASSUME NEW l \in Lanes, checks'[l] # Absent PROVE SteadyCheck(checks[l])'
    BY DEF SteadyChecks
  <2>1. checks[l] # Absent /\ checks[l] \in Check /\ SteadyCheck(checks[l])
    BY <1>2 DEF SteadyChecks
  <2> QED BY <1>1, <2>1 DEF SteadyCheck, Check
<1> QED BY <1>3, <1>4

LEMMA HandInHolds == ASSUME DocsInv, HandIn PROVE DocsInv'
<1>1. PICK s \in Senders, d \in DidDocuments :
        /\ didCache' = [didCache EXCEPT ![s] = [document |-> d, dirty |-> FALSE]]
        /\ handedIn' = [sender |-> s, document |-> d]
  BY DEF HandIn
<1>2. published' = published /\ checks' = checks
  BY DEF HandIn
<1>3. DocsTypeOK'
  BY <1>1, <1>2 DEF DocsInv, DocsTypeOK, CachedDidDocument
<1> QED BY <1>2, <1>3 DEF DocsInv, SteadyChecks, SteadyCheck

LEMMA HandedInHolds == ASSUME DocsInv, PublishHandedIn PROVE DocsInv'
<1>1. CASE published' = published /\ checks' = checks
  BY <1>1 DEF PublishHandedIn, DocsInv, DocsTypeOK, SteadyChecks, SteadyCheck
<1>2. CASE Publishes(handedIn.sender, handedIn.document)
  BY <1>2, PublishesHolds DEF PublishHandedIn, DocsInv, DocsTypeOK
<1> QED BY <1>1, <1>2 DEF PublishHandedIn

LEMMA StepHolds == ASSUME DocsInv, [DocsNext]_docVars PROVE DocsInv'
<1>1. CASE UNCHANGED docVars
  BY <1>1 DEF docVars, DocsInv, DocsTypeOK, SteadyChecks, SteadyCheck
<1>2. CASE \E l \in Lanes : ReceiveSigned(l) \/ CheckSignature(l)
  BY <1>2, ReceiveHolds, CheckHolds
<1>3. CASE HandIn
  BY <1>3, HandInHolds
<1>4. CASE PublishHandedIn
  BY <1>4, HandedInHolds
<1>5. CASE \E s \in Senders, d \in DidDocuments : PublishElsewhere(s, d)
  <2>1. PICK s \in Senders, d \in DidDocuments : PublishElsewhere(s, d)
    BY <1>5
  <2> QED BY <2>1, PublishesHolds DEF PublishElsewhere, DocsInv, DocsTypeOK
<1> QED BY <1>1, <1>2, <1>3, <1>4, <1>5 DEF DocsNext

LEMMA InvHolds == DocsSpec => []DocsInv
BY InitHolds, StepHolds, PTL DEF DocsSpec

\* Every variable of the signature checks keeps its type.
THEOREM DocsTypeCorrect == DocsSpec => []DocsTypeOK
<1>1. DocsInv => DocsTypeOK
  BY DEF DocsInv
<1> QED BY <1>1, InvHolds, PTL

\* No check that is about to refuse a message for its signature
\* (verify_message, after the second fetch) is of a sender whose signing
\* document has been the published one since the message was taken.
THEOREM PublishedAlwaysAccepted == DocsSpec => []PublishedSignerAccepted
<1>1. DocsInv => PublishedSignerAccepted
  BY DEF DocsInv, SteadyChecks, SteadyCheck, PublishedSignerAccepted, Checking
<1> QED BY <1>1, InvHolds, PTL

-----------------------------------------------------------------------------
(* Avatars and their registry                                               *)

LEMMA WhoIsDid == ASSUME ProfilesTypeOK, entering # Nil PROVE Who \in Dids /\ entering \in Entry
BY DEF ProfilesTypeOK, Who, Dids, Entry

LEMMA InitType == ProfilesInit => ProfilesTypeOK
BY DEF ProfilesInit, ProfilesTypeOK

LEMMA FinishType ==
    ASSUME NEW e \in Entry, Finish(e)
    PROVE  entering' \in Entry \cup {Nil}
BY DEF Finish, Entry

LEMMA EnsureType ==
    ASSUME ProfilesTypeOK, NEW a \in Actors, NEW r \in Places, EnsureAvatar(a, r)
    PROVE  ProfilesTypeOK'
<1>1. IsNew(a, r) \in BOOLEAN
  BY DEF IsNew
<1>2. Carried(a) \in Profile \cup {Nil}
  <2>1. DidOf[a] \in Dids
    BY DEF Dids
  <2> QED BY <2>1 DEF Carried, ProfilesTypeOK, Avatar, Profile
<1> DEFINE n == IsNew(a, r)
           b == Carried(a)
<1>3. entering' = [step |-> "join", actor |-> a, room |-> r, isNew |-> n,
                   owner |-> Nil, sound |-> FALSE, before |-> b, calm |-> TRUE]
  BY DEF EnsureAvatar
<1> HIDE DEF n, b
<1>4. entering' \in Entry
  BY <1>1, <1>2, <1>3 DEF Entry, n, b
<1> QED BY <1>4 DEF ProfilesTypeOK, EnsureAvatar

LEMMA EnterType ==
    ASSUME ProfilesTypeOK, EnterStep
    PROVE  ProfilesTypeOK'
<1>1. entering # Nil
  BY DEF EnterStep, JoinRoom, RoomRefuses, CaptureAvatar, InsertEntry, RefreshFails,
         DescribeSkeleton, EnteringAt
<1>2. Who \in Dids /\ entering \in Entry
  BY <1>1, WhoIsDid
<1>3. CASE JoinRoom
  <2>1. present' \in [Dids -> Avatar \cup {Nil}]
    <3> DEFINE o == OwnerOf[entering.actor]
    <3>1. o \in Owners /\ entering.room \in Places
      BY <1>2 DEF Entry, Owners
    <3>2. CASE present[Who] = Nil
      <4> DEFINE n == [room |-> entering.room, owner |-> o, text |-> Unset, thing |-> Nil]
      <4>1. present' = [present EXCEPT ![Who] = n]
        BY <1>3, <3>2 DEF JoinRoom
      <4>2. n \in Avatar
        BY <3>1 DEF Avatar
      <4> HIDE DEF n
      <4> QED BY <4>1, <4>2 DEF ProfilesTypeOK
    <3>3. CASE present[Who] # Nil
      <4> DEFINE n == [present[Who] EXCEPT !.room = entering.room, !.owner = o]
      <4>1. present' = [present EXCEPT ![Who] = n]
        BY <1>3, <3>3 DEF JoinRoom
      <4>2. present[Who] \in Avatar
        BY <1>2, <3>3 DEF ProfilesTypeOK
      <4>3. n \in Avatar
        BY <3>1, <4>2 DEF Avatar
      <4> HIDE DEF n
      <4> QED BY <4>1, <4>3 DEF ProfilesTypeOK
    <3> QED BY <3>2, <3>3
  <2>2. entering' \in Entry \cup {Nil}
    BY <1>2, <1>3, FinishType DEF JoinRoom, Entry
  <2> QED BY <1>3, <2>1, <2>2 DEF JoinRoom, ProfilesTypeOK
<1>4. CASE RoomRefuses
  BY <1>4 DEF RoomRefuses, ProfilesTypeOK
<1>5. CASE CaptureAvatar
  <2>1. entering' \in Entry \cup {Nil}
    <3>1. CASE present[Who] = Nil
      BY <1>2, <1>5, <3>1, FinishType DEF CaptureAvatar
    <3>2. CASE present[Who] # Nil
      <4>1. present[Who].owner \in Owners
        BY <1>2, <3>2 DEF ProfilesTypeOK, Avatar
      <4> QED BY <1>2, <1>5, <3>2, <4>1 DEF CaptureAvatar, Entry
    <3> QED BY <3>1, <3>2
  <2> QED BY <1>5, <2>1 DEF CaptureAvatar, ProfilesTypeOK
<1>6. CASE InsertEntry
  <2>1. registry' \in [Dids -> Owners \cup {Nil}]
    BY <1>2, <1>6 DEF InsertEntry, ProfilesTypeOK, Entry
  <2>2. entering' \in Entry \cup {Nil}
    BY <1>2, <1>6, FinishType DEF InsertEntry
  <2> QED BY <1>2, <1>6, <2>1, <2>2 DEF InsertEntry, ProfilesTypeOK
<1>7. CASE RefreshFails
  <2>1. entering' \in Entry \cup {Nil}
    BY <1>2, <1>7, FinishType DEF RefreshFails
  <2> QED BY <1>2, <1>7, <2>1 DEF RefreshFails, ProfilesTypeOK
<1>8. CASE DescribeSkeleton
  <2>1. present' \in [Dids -> Avatar \cup {Nil}]
    BY <1>2, <1>8 DEF DescribeSkeleton, ProfilesTypeOK, Avatar
  <2> QED BY <1>8, <2>1 DEF DescribeSkeleton, ProfilesTypeOK
<1> QED BY <1>3, <1>4, <1>5, <1>6, <1>7, <1>8 DEF EnterStep

LEMMA CommandType ==
    ASSUME ProfilesTypeOK, NEW d \in Dids, AvatarCommand(d)
    PROVE  ProfilesTypeOK'
<1>1. present' \in [Dids -> Avatar \cup {Nil}]
  BY DEF AvatarCommand, Describe, Use, Unuse, Walk, Prop, Commanded, ProfilesTypeOK, Avatar
<1>2. UNCHANGED <<registry, rooted, entering, post, kept, missed>>
  BY DEF AvatarCommand, Describe, Use, Unuse, Walk, Prop, Commanded
<1> QED BY <1>1, <1>2 DEF ProfilesTypeOK

LEMMA DisturbedType ==
    ASSUME ProfilesTypeOK, NEW ds
    PROVE  /\ Disturbed(ds) \in Entry \cup {Nil}
           /\ entering # Nil => [Disturbed(ds) EXCEPT !.sound = FALSE] \in Entry
<1>1. CASE entering = Nil
  BY <1>1 DEF Disturbed
<1>2. CASE entering # Nil
  <2>1. entering \in Entry /\ (entering.calm /\ Who \notin ds) \in BOOLEAN
    BY <1>2, WhoIsDid
  <2> DEFINE c == entering.calm /\ Who \notin ds
  <2>2. Disturbed(ds) = [entering EXCEPT !.calm = c]
    BY <1>2, <2>1 DEF Disturbed, Entry
  <2> HIDE DEF c
  <2> QED BY <1>2, <2>1, <2>2 DEF Entry, c
<1> QED BY <1>1, <1>2

LEMMA LeaveType ==
    ASSUME ProfilesTypeOK, NEW d \in Dids, LeaveWorld(d)
    PROVE  ProfilesTypeOK'
<1>1. present' \in [Dids -> Avatar \cup {Nil}]
  BY DEF LeaveWorld, ProfilesTypeOK
<1>2. entering' \in Entry \cup {Nil}
  BY DisturbedType DEF LeaveWorld
<1> QED BY <1>1, <1>2 DEF LeaveWorld, ProfilesTypeOK

LEMMA SaveType ==
    ASSUME ProfilesTypeOK, SaveAvatars \/ SaveRegistry
    PROVE  ProfilesTypeOK'
<1>1. CASE SaveAvatars
  <2> DEFINE saved == [d \in Dids |->
            IF present[d] = Nil THEN Nil ELSE [present[d] EXCEPT !.thing = Nil]]
  <2>1. saved \in [Dids -> Avatar \cup {Nil}]
    <3>1. SUFFICES ASSUME NEW d \in Dids, present[d] # Nil
                   PROVE  [present[d] EXCEPT !.thing = Nil] \in Avatar
      OBVIOUS
    <3>2. present[d] \in Avatar
      BY <3>1 DEF ProfilesTypeOK
    <3> QED BY <3>2 DEF Avatar
  <2>2. post' = [op |-> "save", avatars |-> saved]
    BY <1>1 DEF SaveAvatars
  <2> HIDE DEF saved
  <2>3. post' \in [op : {"save"}, avatars : [Dids -> Avatar \cup {Nil}]]
    BY <2>1, <2>2
  <2> QED BY <1>1, <2>3 DEF SaveAvatars, ProfilesTypeOK
<1>2. CASE SaveRegistry
  <2>1. post \in [op : {"save"}, avatars : [Dids -> Avatar \cup {Nil}]]
    BY <1>2 DEF SaveRegistry, ProfilesTypeOK
  <2>2. kept' \in [avatars : [Dids -> Avatar \cup {Nil}], registry : [Dids -> Owners \cup {Nil}]]
    BY <1>2, <2>1 DEF SaveRegistry, ProfilesTypeOK
  <2> QED BY <1>2, <2>2 DEF SaveRegistry, ProfilesTypeOK
<1> QED BY <1>1, <1>2

LEMMA LoadType ==
    ASSUME ProfilesTypeOK, LoadAvatars \/ LoadRegistry \/ LoadRoot
    PROVE  ProfilesTypeOK'
<1>1. CASE LoadAvatars
  <2>1. kept \in [avatars : [Dids -> Avatar \cup {Nil}], registry : [Dids -> Owners \cup {Nil}]]
    BY <1>1 DEF LoadAvatars, ProfilesTypeOK
  <2>2. present' \in [Dids -> Avatar \cup {Nil}]
    BY <1>1, <2>1 DEF LoadAvatars
  <2>3. entering' \in Entry \cup {Nil}
    BY <1>1, DisturbedType DEF LoadAvatars
  <2> QED BY <1>1, <2>2, <2>3 DEF LoadAvatars, ProfilesTypeOK
<1>2. CASE LoadRegistry
  <2>1. kept \in [avatars : [Dids -> Avatar \cup {Nil}], registry : [Dids -> Owners \cup {Nil}]]
    BY <1>2 DEF LoadRegistry, ProfilesTypeOK
  <2> QED BY <1>2, <2>1 DEF LoadRegistry, ProfilesTypeOK
<1>3. CASE LoadRoot
  BY <1>3 DEF LoadRoot, ProfilesTypeOK
<1> QED BY <1>1, <1>2, <1>3

\* One lemma for a step of any kind, which the theorems below use as well.
LEMMA StepType ==
    ASSUME ProfilesTypeOK, [ProfilesNext]_profileVars
    PROVE  ProfilesTypeOK'
<1>1. CASE UNCHANGED profileVars
  BY <1>1 DEF profileVars, ProfilesTypeOK
<1>2. CASE \E a \in Actors, r \in Places : EnsureAvatar(a, r)
  BY <1>2, EnsureType
<1>3. CASE EnterStep
  BY <1>3, EnterType
<1>4. CASE \E d \in Dids : AvatarCommand(d) \/ LeaveWorld(d)
  BY <1>4, CommandType, LeaveType
<1>5. CASE Administered
  BY <1>5, SaveType, LoadType DEF Administered
<1> QED BY <1>1, <1>2, <1>3, <1>4, <1>5 DEF ProfilesNext

\* Every reachable state is well typed, whatever the actors and avatar DIDs: an
\* entry, a save and a load hold what their later steps rely on.
THEOREM ProfilesTypeCorrect == ProfilesSpec => []ProfilesTypeOK
<1>1. ProfilesInit => ProfilesTypeOK
  BY InitType
<1>2. ProfilesTypeOK /\ [ProfilesNext]_profileVars => ProfilesTypeOK'
  BY StepType
<1> QED BY <1>1, <1>2, PTL DEF ProfilesSpec

-----------------------------------------------------------------------------
(* The registry follows the avatars                                         *)

Following(d) == d \notin missed /\ present[d] # Nil => registry[d] = present[d].owner

\* Whose entry is before the capture or after the insertion is followed.
Followed ==
    \A d \in Dids :
        (entering = Nil \/ Who # d \/ entering.step \in {"join", "describe"}) => Following(d)

\* The copy that is about to be inserted has the owner that the avatar has.
CopySound ==
    EnteringAt("insert") =>
        IF entering.sound THEN present[Who] # Nil => present[Who].owner = entering.owner
        ELSE Who \in missed

LEMMA EnterFollows ==
    ASSUME ProfilesTypeOK, Followed, CopySound, EnterStep
    PROVE  Followed' /\ CopySound'
<1>1. entering # Nil
  BY DEF EnterStep, JoinRoom, RoomRefuses, CaptureAvatar, InsertEntry, RefreshFails,
         DescribeSkeleton, EnteringAt
<1>2. Who \in Dids /\ entering \in Entry
  BY <1>1, WhoIsDid
<1> PICK w \in Dids : w = Who
  BY <1>2
<1>3. \A d \in Dids : d # w => Following(d)
  BY <1>1 DEF Followed
<1>4. entering' # Nil => Who' = w
  BY <1>2 DEF EnterStep, JoinRoom, RoomRefuses, CaptureAvatar, InsertEntry, RefreshFails,
         DescribeSkeleton, Finish, Entry, Who
<1>5. SUFFICES /\ \A d \in Dids : d # w => Following(d)'
               /\ (entering' = Nil \/ entering'.step \in {"join", "describe"}) => Following(w)'
               /\ CopySound'
  BY <1>1, <1>2, <1>4 DEF Followed
<1>6. CASE JoinRoom
  <2> DEFINE o == OwnerOf[entering.actor]
  <2>1. \A d \in Dids : d # w => Following(d)'
    BY <1>2, <1>3, <1>6 DEF JoinRoom, Following, ProfilesTypeOK
  <2>2. CASE entering' = [entering EXCEPT !.step = "capture"]
    <3>1. entering' \in Entry /\ entering'.step = "capture"
      BY <1>2, <2>2 DEF Entry
    <3> QED BY <2>1, <3>1, NilAssumption DEF CopySound, EnteringAt
  <2>3. CASE ~ NeedsRefresh(present[w], o) /\ Finish(entering)
    <3>1. entering' = Nil \/ entering'.step = "describe"
      BY <1>2, <2>3 DEF Finish, Entry
    <3>2. Following(w) /\ present[w] # Nil /\ present[w].owner = o
      BY <1>2, <1>6, <2>3 DEF JoinRoom, EnteringAt, Followed, NeedsRefresh
    <3>3. present[w] \in Avatar
      BY <1>2, <3>2 DEF ProfilesTypeOK
    <3>4. present'[w].owner = o
      BY <1>2, <1>6, <3>2, <3>3 DEF JoinRoom, ProfilesTypeOK, Avatar
    <3>5. Following(w)'
      BY <1>6, <3>2, <3>4 DEF JoinRoom, Following
    <3> QED BY <2>1, <3>1, <3>5 DEF CopySound, EnteringAt
  <2> QED BY <1>6, <2>2, <2>3 DEF JoinRoom
<1>7. CASE RoomRefuses
  <2>1. Following(w)
    BY <1>2, <1>7 DEF RoomRefuses, EnteringAt, Followed
  <2> QED BY <1>3, <1>7, <2>1 DEF RoomRefuses, Following, CopySound, EnteringAt
<1>8. CASE CaptureAvatar
  <2>1. \A d \in Dids : d # w => Following(d)'
    BY <1>3, <1>8 DEF CaptureAvatar, Following
  <2>2. CASE present[w] = Nil
    <3>1. entering' = Nil \/ entering'.step = "describe"
      BY <1>2, <1>8, <2>2 DEF CaptureAvatar, Finish, Entry
    <3>2. Following(w)'
      BY <1>8, <2>2 DEF CaptureAvatar, Following
    <3> QED BY <2>1, <3>1, <3>2 DEF CopySound, EnteringAt
  <2>3. CASE present[w] # Nil
    <3>1. /\ entering'.step = "insert" /\ entering'.sound
          /\ entering'.owner = present[w].owner /\ present' = present
          /\ entering' # Nil
      <4>1. present[w].owner \in Owners
        BY <1>2, <2>3 DEF ProfilesTypeOK, Avatar
      <4>2. entering' = [entering EXCEPT !.step = "insert", !.owner = present[w].owner,
                                         !.sound = TRUE]
        BY <1>8, <2>3 DEF CaptureAvatar
      <4>3. entering' \in Entry
        BY <1>2, <4>1, <4>2 DEF Entry
      <4> QED BY <1>2, <1>8, <4>2, <4>3, NilAssumption DEF CaptureAvatar, Entry
    <3> QED BY <1>4, <2>1, <3>1 DEF CopySound
  <2> QED BY <2>2, <2>3
<1>9. CASE InsertEntry
  <2>1. \A d \in Dids : d # w => Following(d)'
    BY <1>2, <1>3, <1>9 DEF InsertEntry, Following, ProfilesTypeOK
  <2>2. entering' = Nil \/ entering'.step = "describe"
    BY <1>2, <1>9 DEF InsertEntry, Finish, Entry
  <2>3. Following(w)'
    <3>1. registry'[w] = entering.owner
      BY <1>2, <1>9 DEF InsertEntry, ProfilesTypeOK
    <3>2. CASE entering.sound
      BY <1>9, <3>1, <3>2 DEF InsertEntry, Following, CopySound
    <3>3. CASE ~ entering.sound
      BY <1>9, <3>3 DEF InsertEntry, Following, CopySound
    <3> QED BY <3>2, <3>3
  <2> QED BY <2>1, <2>2, <2>3 DEF CopySound, EnteringAt
<1>10. CASE RefreshFails
  <2>1. entering' = Nil \/ entering'.step = "describe"
    BY <1>2, <1>10 DEF RefreshFails, Finish, Entry
  <2>2. \A d \in Dids : d # w => Following(d)'
    BY <1>3, <1>10 DEF RefreshFails, Following
  <2>3. Following(w)'
    BY <1>10 DEF RefreshFails, Following
  <2> QED BY <2>1, <2>2, <2>3 DEF CopySound, EnteringAt
<1>11. CASE DescribeSkeleton
  <2>1. Following(w)
    BY <1>2, <1>11 DEF DescribeSkeleton, EnteringAt, Followed
  <2>2. \A d \in Dids : (present'[d] # Nil => present[d] # Nil /\ present'[d].owner = present[d].owner)
    BY <1>2, <1>11 DEF DescribeSkeleton, ProfilesTypeOK, Avatar
  <2> QED BY <1>2, <1>3, <1>11, <2>1, <2>2 DEF DescribeSkeleton, Following, CopySound, EnteringAt
<1> QED BY <1>6, <1>7, <1>8, <1>9, <1>10, <1>11 DEF EnterStep

LEMMA CommandFollows ==
    ASSUME ProfilesTypeOK, Followed, CopySound, NEW c \in Dids, AvatarCommand(c)
    PROVE  Followed' /\ CopySound'
<1>1. entering = Nil /\ UNCHANGED <<registry, rooted, entering, post, kept, missed>>
  BY DEF AvatarCommand, Describe, Use, Unuse, Walk, Prop, Commanded
<1>2. \A d \in Dids : present'[d] # Nil => present[d] # Nil /\ present'[d].owner = present[d].owner
  BY DEF AvatarCommand, Describe, Use, Unuse, Walk, Prop, Commanded, ProfilesTypeOK, Avatar
<1> QED BY <1>1, <1>2 DEF Followed, Following, CopySound, EnteringAt

\* What happens beside the lane keeps the entry's step, its copy and its avatar.
LEMMA DisturbedKeeps ==
    ASSUME ProfilesTypeOK, entering # Nil, NEW ds
    PROVE  /\ Disturbed(ds) \in Entry
           /\ \A f \in {"step", "actor", "owner", "sound", "isNew", "before"} :
                Disturbed(ds)[f] = entering[f]
           /\ Disturbed(ds).calm = (entering.calm /\ Who \notin ds)
<1> DEFINE c == entering.calm /\ Who \notin ds
<1>1. entering \in Entry /\ c \in BOOLEAN
  BY WhoIsDid
<1>2. Disturbed(ds) = [entering EXCEPT !.calm = c]
  BY <1>1 DEF Disturbed, Entry
<1>3. c = (entering.calm /\ Who \notin ds)
  OBVIOUS
<1> HIDE DEF c
<1>4. Disturbed(ds) \in Entry /\ Disturbed(ds).calm = c
  BY <1>1, <1>2 DEF Entry
<1> QED BY <1>1, <1>2, <1>3, <1>4 DEF Entry

LEMMA LeaveFollows ==
    ASSUME ProfilesTypeOK, Followed, CopySound, NEW c \in Dids, LeaveWorld(c)
    PROVE  Followed' /\ CopySound'
<1>1. \A d \in Dids : present'[d] # Nil => present'[d] = present[d]
  BY DEF LeaveWorld, ProfilesTypeOK
<1>2. CASE entering = Nil
  BY <1>1, <1>2 DEF LeaveWorld, Disturbed, Followed, Following, CopySound, EnteringAt
<1>3. CASE entering # Nil
  <2>1. /\ entering' # Nil /\ Who' = Who /\ entering'.step = entering.step
        /\ entering'.owner = entering.owner /\ entering'.sound = entering.sound
    BY <1>3, DisturbedKeeps, NilAssumption DEF LeaveWorld, Who
  <2>2. Who \in Dids
    BY <1>3, WhoIsDid
  <2>3. Followed'
    BY <1>1, <1>3, <2>1 DEF LeaveWorld, Followed, Following
  <2>4. CopySound'
    BY <1>1, <1>3, <2>1, <2>2 DEF LeaveWorld, CopySound, EnteringAt
  <2> QED BY <2>3, <2>4
<1> QED BY <1>2, <1>3

LEMMA AdministeredFollows ==
    ASSUME ProfilesTypeOK, Followed, CopySound, Administered
    PROVE  Followed' /\ CopySound'
<1>1. CASE SaveAvatars \/ SaveRegistry
  BY <1>1 DEF SaveAvatars, SaveRegistry, Followed, Following, CopySound, EnteringAt, Who
<1>2. CASE LoadAvatars
  <2>1. CASE entering = Nil
    BY <1>2, <2>1 DEF LoadAvatars, Followed, Following, CopySound, EnteringAt
  <2>2. CASE entering # Nil
    <3>1. Who \in Dids
      BY <2>2, WhoIsDid
    <3> DEFINE e == Disturbed(Dids)
    <3>2. e \in Entry /\ e.actor = entering.actor
      BY <2>2, DisturbedKeeps
    <3>3. entering' = [e EXCEPT !.sound = FALSE]
      BY <1>2, <2>2 DEF LoadAvatars
    <3> HIDE DEF e
    <3>4. Who' \in Dids /\ ~ entering'.sound
      BY <3>1, <3>2, <3>3 DEF Who, Entry
    <3> QED BY <1>2, <3>4 DEF LoadAvatars, Followed, Following, CopySound
  <2> QED BY <2>1, <2>2
<1>3. CASE LoadRegistry \/ LoadRoot
  BY <1>3, WhoIsDid DEF LoadRegistry, LoadRoot, Followed, Following, CopySound, EnteringAt, Who
<1> QED BY <1>1, <1>2, <1>3 DEF Administered

LEMMA StepFollows ==
    ASSUME ProfilesTypeOK, Followed, CopySound, [ProfilesNext]_profileVars
    PROVE  Followed' /\ CopySound'
<1>1. CASE UNCHANGED profileVars
  BY <1>1 DEF profileVars, Followed, Following, CopySound, EnteringAt, Who
<1>2. ASSUME NEW a \in Actors, NEW r \in Places, EnsureAvatar(a, r)
      PROVE  Followed' /\ CopySound'
  <2>1. entering = Nil /\ entering'.step = "join"
    BY <1>2 DEF EnsureAvatar
  <2> QED BY <1>2, <2>1 DEF EnsureAvatar, Followed, Following, CopySound, EnteringAt
<1> QED BY <1>1, <1>2, EnterFollows, CommandFollows, LeaveFollows, AdministeredFollows
        DEF ProfilesNext

\* For any actors, whatever DIDs they share: while no entry of an avatar is
\* under way, no refresh of it has failed and no load has come since, the world
\* reads from the registry the owner that the avatar has.
THEOREM RegistryFollowsAvatars == ProfilesSpec => []RegistryFollows
<1> DEFINE Inv == ProfilesTypeOK /\ Followed /\ CopySound
<1>1. ProfilesInit => Inv
  BY InitType DEF ProfilesInit, Followed, Following, CopySound, EnteringAt
<1>2. Inv /\ [ProfilesNext]_profileVars => Inv'
  BY StepType, StepFollows
<1>3. Inv => RegistryFollows
  BY DEF Followed, Following, RegistryFollows
<1> QED BY <1>1, <1>2, <1>3, PTL DEF ProfilesSpec

-----------------------------------------------------------------------------
(* Entering again keeps the profile                                         *)

HasProfile(d, p) == present[d] # Nil /\ present[d].text = p.text /\ present[d].thing = p.thing

\* What an undisturbed entry found is what the avatar carries, and it is not new ...
Keeping ==
    entering # Nil /\ entering.before # Nil /\ entering.calm =>
        HasProfile(Who, entering.before) /\ ~ entering.isNew

\* ... and only the new are made skeletons.
NewDescribed == EnteringAt("describe") => entering.isNew

\* The entry under way stays the same entry.
LEMMA EntryGoesOn ==
    ASSUME ProfilesTypeOK, [ProfilesNext]_profileVars, entering # Nil, entering' # Nil
    PROVE  /\ entering'.actor = entering.actor /\ entering'.before = entering.before
           /\ entering'.isNew = entering.isNew
           /\ entering'.calm => entering.calm
           /\ entering'.step = "describe" /\ entering.step # "describe" => entering.isNew
<1>1. entering \in Entry
  BY WhoIsDid
<1>2. CASE entering' = entering
  BY <1>2
<1>3. CASE EnterStep
  BY <1>1, <1>3 DEF EnterStep, JoinRoom, RoomRefuses, CaptureAvatar, InsertEntry,
                    RefreshFails, DescribeSkeleton, Finish, Entry
<1>4. ASSUME NEW d \in Dids, LeaveWorld(d)
      PROVE  entering' = Disturbed({d})
  BY <1>4 DEF LeaveWorld
<1>5. CASE LoadAvatars
  <2> DEFINE e == Disturbed(Dids)
  <2>1. e \in Entry /\ e.actor = entering.actor /\ e.before = entering.before
        /\ e.isNew = entering.isNew /\ e.step = entering.step /\ (e.calm => entering.calm)
    BY DisturbedKeeps
  <2>2. entering' = [e EXCEPT !.sound = FALSE]
    BY <1>5 DEF LoadAvatars
  <2> HIDE DEF e
  <2> QED BY <2>1, <2>2 DEF Entry
<1>6. entering' = entering \/ EnterStep \/ LoadAvatars \/ \E d \in Dids : LeaveWorld(d)
  BY DEF ProfilesNext, profileVars, EnsureAvatar, AvatarCommand, Describe, Use, Unuse, Walk,
         Prop, Commanded, Administered, SaveAvatars, SaveRegistry, LoadRegistry, LoadRoot
<1> QED BY <1>2, <1>3, <1>4, <1>5, <1>6, DisturbedKeeps

\* No step of an undisturbed entry, and none beside it, touches the profile.
LEMMA StepKeeps ==
    ASSUME ProfilesTypeOK, Keeping, NewDescribed, [ProfilesNext]_profileVars,
           entering # Nil, entering.before # Nil, entering.calm, entering' # Nil => entering'.calm
    PROVE  /\ present'[Who] # Nil
           /\ present'[Who].text = entering.before.text
           /\ present'[Who].thing = entering.before.thing
<1>1. Who \in Dids /\ entering \in Entry
  BY WhoIsDid
<1> PICK w \in Dids : w = Who
  BY <1>1
<1>2. HasProfile(w, entering.before) /\ ~ entering.isNew
  BY DEF Keeping
<1>3. present[w] \in Avatar
  BY <1>2 DEF HasProfile, ProfilesTypeOK
<1>4. CASE present'[w] = present[w]
  BY <1>2, <1>4 DEF HasProfile
<1>5. CASE JoinRoom
  <2> DEFINE n == [present[w] EXCEPT !.room = entering.room, !.owner = OwnerOf[entering.actor]]
  <2>1. present'[w] = n
    BY <1>2, <1>5 DEF JoinRoom, HasProfile, ProfilesTypeOK
  <2>2. n \in Avatar /\ n.text = present[w].text /\ n.thing = present[w].thing
    BY <1>1, <1>3 DEF Avatar, Entry, Owners
  <2> HIDE DEF n
  <2> QED BY <1>2, <2>1, <2>2, NilAssumption DEF HasProfile
<1>6. ~ DescribeSkeleton
  BY <1>2 DEF NewDescribed, DescribeSkeleton
<1>7. ASSUME NEW d \in Dids, LeaveWorld(d)
      PROVE  present'[w] = present[w]
  <2>1. entering' = Disturbed({d})
    BY <1>7 DEF LeaveWorld
  <2>2. entering' # Nil /\ w \notin {d}
    BY <2>1, DisturbedKeeps, NilAssumption
  <2> QED BY <1>7, <2>2 DEF LeaveWorld, ProfilesTypeOK
<1>8. ~ LoadAvatars
  <2> SUFFICES ASSUME LoadAvatars PROVE FALSE
    OBVIOUS
  <2> DEFINE e == Disturbed(Dids)
  <2>1. e \in Entry /\ ~ e.calm
    BY <1>1, DisturbedKeeps
  <2>2. entering' = [e EXCEPT !.sound = FALSE]
    BY DEF LoadAvatars
  <2> HIDE DEF e
  <2>3. entering' \in Entry /\ ~ entering'.calm
    BY <2>1, <2>2 DEF Entry
  <2> QED BY <2>3, NilAssumption
<1>9. present' = present \/ JoinRoom \/ DescribeSkeleton \/ LoadAvatars
      \/ \E d \in Dids : LeaveWorld(d)
  BY DEF ProfilesNext, profileVars, EnterStep, EnsureAvatar, RoomRefuses, CaptureAvatar,
         InsertEntry, RefreshFails, AvatarCommand, Describe, Use, Unuse, Walk, Prop, Commanded,
         Administered, SaveAvatars, SaveRegistry, LoadRegistry, LoadRoot
<1> QED BY <1>4, <1>5, <1>6, <1>7, <1>8, <1>9

LEMMA EnsureKeeps ==
    ASSUME ProfilesTypeOK, NEW a \in Actors, NEW r \in Places, EnsureAvatar(a, r)
    PROVE  Keeping' /\ NewDescribed'
<1> DEFINE n == IsNew(a, r)
           b == Carried(a)
           d == DidOf[a]
<1>1. entering' = [step |-> "join", actor |-> a, room |-> r, isNew |-> n,
                   owner |-> Nil, sound |-> FALSE, before |-> b, calm |-> TRUE]
      /\ present' = present
  BY DEF EnsureAvatar
<1>2. b # Nil => HasProfile(d, b) /\ ~ n
  <2>1. d \in Dids
    BY DEF Dids
  <2> QED BY <2>1 DEF Carried, HasProfile, IsNew
<1> HIDE DEF n, b
<1>3. entering'.before = b /\ entering'.isNew = n /\ entering'.step = "join" /\ Who' = d
  BY <1>1 DEF Who
<1> QED BY <1>1, <1>2, <1>3 DEF Keeping, NewDescribed, EnteringAt, HasProfile

LEMMA KeepingKept ==
    ASSUME ProfilesTypeOK, Keeping, NewDescribed, [ProfilesNext]_profileVars
    PROVE  Keeping' /\ NewDescribed'
<1>1. CASE entering' = Nil
  BY <1>1 DEF Keeping, NewDescribed, EnteringAt
<1>2. CASE entering = Nil /\ entering' # Nil
  <2>1. \E a \in Actors, r \in Places : EnsureAvatar(a, r)
    BY <1>2 DEF ProfilesNext, profileVars, EnterStep, JoinRoom, RoomRefuses, CaptureAvatar,
       InsertEntry, RefreshFails, DescribeSkeleton, EnteringAt, AvatarCommand, Describe, Use,
       Unuse, Walk, Prop, Commanded, LeaveWorld, Disturbed, Administered, SaveAvatars,
       SaveRegistry, LoadAvatars, LoadRegistry, LoadRoot
  <2> QED BY <2>1, EnsureKeeps
<1>3. CASE entering # Nil /\ entering' # Nil
  <2>1. Who' = Who
    BY <1>3, EntryGoesOn DEF Who
  <2>2. Keeping'
    BY <1>3, <2>1, EntryGoesOn, StepKeeps DEF Keeping, HasProfile
  <2>3. NewDescribed'
    BY <1>3, EntryGoesOn DEF NewDescribed, EnteringAt
  <2> QED BY <2>2, <2>3
<1> QED BY <1>1, <1>2, <1>3

\* For any actors and rooms: an actor that enters while its avatar is in the
\* world finds it with the description and the shortcuts it had, whatever else
\* happens meanwhile, unless the avatar is pruned or loaded.
THEOREM ReentryKeeps == ProfilesSpec => ReentryKeepsProfile
<1> DEFINE Inv == ProfilesTypeOK /\ Keeping /\ NewDescribed
<1>1. ProfilesInit => Inv
  BY InitType DEF ProfilesInit, Keeping, NewDescribed, EnteringAt
<1>2. Inv /\ [ProfilesNext]_profileVars => Inv'
  BY StepType, KeepingKept
<1>3. Inv /\ [ProfilesNext]_profileVars =>
        [/\ entering # Nil /\ entering.before # Nil
         /\ entering.calm /\ (entering' # Nil => entering'.calm)
         => /\ present'[Who] # Nil
            /\ present'[Who].text = entering.before.text
            /\ present'[Who].thing = entering.before.thing]_profileVars
  BY StepKeeps
<1> QED BY <1>1, <1>2, <1>3, PTL DEF ProfilesSpec, ReentryKeepsProfile

-----------------------------------------------------------------------------
(* The agent daemon                                                         *)

Known(R) == R \cup {Missing}

DaemonTypeOK ==
    /\ cfg \in Config /\ file \in Config
    /\ agents \in [Ids -> Aliases \cup {Missing}]
    /\ call \in [Handlers \cup {Startup} -> Handling \cup {Missing}]
    /\ keys \subseteq Aliases /\ records \subseteq Aliases /\ spoken \subseteq Aliases

\* What a call holds, if R are the bases that are published: whoever is past
\* the publication has one of them, what it read or is to put in place names no
\* other, and the base of its agent's file is one too or an earlier version's.
CallSound(c, R) ==
    /\ c.op \in {"create", "send", "append"} => c.id \in Ids
    /\ c.id \in Ids => c.found \in Known(R) \cup {Legacy[c.id]}
    /\ c.conf # Missing => c.conf.base \in Known(R)
    /\ c.next # Missing => c.next.base \in Known(R)
    /\ c.at \in {"find", "resolve", "publish", "keep"} => c.conf # Missing
    /\ c.at \in {"find", "resolve", "publish"} => c.base # Missing
    /\ c.at = "install" \/ c.op = "update" => c.next # Missing
    /\ c.at \in {"keep", "install"} /\ c.op \notin {"update", "reload"} => c.base \in R
    /\ c.at \in {"granted", "name", "say"} => c.base \in R
    /\ c.op = "append" => c.at = "resave"
    /\ c.at = "granted" => c.op \notin {"update", "reload"}
    /\ c.at \in {"peek", "name", "say"} => c.op = "send"
    /\ c.at = "resave" => c.op = "append"
    /\ c.op = "update" => c.at \in {"keep", "install"}
    /\ c.op = "reload" => c.at = "install"
CallsSound == \A t \in Handlers \cup {Startup} : call[t] # Missing => CallSound(call[t], records)
AgentsSound == \A i \in Ids : agents[i] \in Known(records) \cup {Legacy[i]}
ConfigSound == cfg.base \in Known(records) /\ file.base \in Known(records)
DaemonInv == DaemonTypeOK /\ CallsSound /\ AgentsSound /\ ConfigSound /\ spoken \subseteq records

\* What is published stays published, and what is sound stays so.
LEMMA CallGrows ==
    ASSUME NEW c, NEW R, NEW S, R \subseteq S, CallSound(c, R)
    PROVE  CallSound(c, S)
BY DEF CallSound, Known

LEMMA FileGrows ==
    ASSUME DaemonInv, records \subseteq records', UNCHANGED <<cfg, file, agents>>
    PROVE  AgentsSound' /\ ConfigSound'
BY DEF DaemonInv, AgentsSound, ConfigSound, Known

\* A step of one call leaves all of them sound if it leaves that one so.
LEMMA CallStep ==
    ASSUME DaemonInv, NEW t \in Handlers \cup {Startup}, NEW c \in Handling \cup {Missing},
           Goes(t, c), records \subseteq records', c # Missing => CallSound(c, records')
    PROVE  call' \in [Handlers \cup {Startup} -> Handling \cup {Missing}] /\ CallsSound'
<1>1. call \in [Handlers \cup {Startup} -> Handling \cup {Missing}] /\ CallsSound
  BY DEF DaemonInv, DaemonTypeOK
<1>2. call' \in [Handlers \cup {Startup} -> Handling \cup {Missing}]
  BY <1>1 DEF Goes
<1>3. ASSUME NEW u \in Handlers \cup {Startup}, call'[u] # Missing
      PROVE  CallSound(call'[u], records')
  <2>1. CASE u = t
    BY <1>1, <1>3, <2>1 DEF Goes
  <2>2. CASE u # t
    <3>1. call'[u] = call[u] /\ CallSound(call[u], records)
      BY <1>1, <1>3, <2>2 DEF Goes, CallsSound
    <3> QED BY <3>1, CallGrows
  <2> QED BY <2>1, <2>2
<1> QED BY <1>2, <1>3 DEF CallsSound

\* So does a step that ends it.
LEMMA EndStep ==
    ASSUME DaemonInv, NEW t \in Handlers \cup {Startup}, Ends(t), records \subseteq records'
    PROVE  call' \in [Handlers \cup {Startup} -> Handling \cup {Missing}] /\ CallsSound'
BY CallStep DEF Ends

\* What a call under way is.
LEMMA CallReached ==
    ASSUME DaemonInv, NEW t \in Handlers \cup {Startup}, NEW step, Reached(t, step)
    PROVE  call[t] \in Handling /\ CallSound(call[t], records) /\ call[t].at = step
BY DEF DaemonInv, DaemonTypeOK, CallsSound, Reached

\* A call is a record of its fields, and the next one is what they say.
LEMMA ProceedStep ==
    ASSUME DaemonInv, NEW t \in Handlers \cup {Startup}, NEW step,
           step \in {"find", "resolve", "publish", "keep", "install", "granted", "name", "say", "read"},
           call[t] \in Handling, Proceeds(t, step), records \subseteq records',
           CallSound([call[t] EXCEPT !.at = step], records')
    PROVE  call' \in [Handlers \cup {Startup} -> Handling \cup {Missing}] /\ CallsSound'
<1> DEFINE c == [call[t] EXCEPT !.at = step]
<1>1. c \in Handling
  BY DEF Handling
<1>2. Goes(t, c) /\ CallSound(c, records')
  BY DEF Proceeds
<1> HIDE DEF c
<1> QED BY <1>1, <1>2, CallStep

-----------------------------------------------------------------------------
LEMMA DaemonStart == DaemonInit => DaemonInv
<1> SUFFICES ASSUME DaemonInit PROVE DaemonInv
  OBVIOUS
<1>1. Blank \in Handling
  BY DEF Blank, Handling
<1>2. call \in [Handlers \cup {Startup} -> Handling \cup {Missing}]
  BY <1>1 DEF DaemonInit, Booting
<1>3. CallsSound
  <2> SUFFICES ASSUME NEW t \in Handlers \cup {Startup}, call[t] # Missing
               PROVE  CallSound(call[t], records)
    BY DEF CallsSound
  <2>1. call[t] = Blank
    BY DEF DaemonInit, Booting
  <2> QED BY <2>1, DaemonAssumption DEF CallSound, Blank
<1>4. DaemonTypeOK
  BY <1>2, DaemonAssumption DEF DaemonInit, DaemonTypeOK, Config
<1> QED BY <1>3, <1>4 DEF DaemonInit, DaemonInv, AgentsSound, ConfigSound, Known

LEMMA ReadConfigStep ==
    ASSUME DaemonInv, NEW t \in Handlers \cup {Startup}, ReadConfig(t)
    PROVE  DaemonInv'
<1> DEFINE c == [call[t] EXCEPT !.at = "find", !.conf = cfg, !.base = cfg.alias]
<1>1. call[t] \in Handling /\ CallSound(call[t], records) /\ call[t].at = "read"
  BY CallReached DEF ReadConfig
<1>2. cfg \in Config /\ cfg.alias # Missing /\ cfg # Missing /\ cfg.base \in Known(records)
  BY DaemonAssumption DEF DaemonInv, DaemonTypeOK, ConfigSound, Config
<1>3. c \in Handling
  BY <1>1, <1>2 DEF Handling, Config
<1>4. CallSound(c, records)
  BY <1>1, <1>2 DEF CallSound, Handling
<1>5. Goes(t, c) /\ UNCHANGED <<cfg, file, agents, keys, records, spoken>>
  BY DEF ReadConfig, Outside
<1> HIDE DEF c
<1>6. call' \in [Handlers \cup {Startup} -> Handling \cup {Missing}] /\ CallsSound'
  BY <1>3, <1>4, <1>5, CallStep
<1> QED BY <1>5, <1>6, FileGrows DEF DaemonInv, DaemonTypeOK

LEMMA FindKeyStep ==
    ASSUME DaemonInv, NEW t \in Handlers \cup {Startup}, FindKey(t)
    PROVE  DaemonInv'
<1>1. call[t] \in Handling /\ CallSound(call[t], records) /\ call[t].at = "find"
  BY CallReached DEF FindKey
<1>2. UNCHANGED <<cfg, file, agents, records, spoken>> /\ (Proceeds(t, "resolve") \/ Ends(t))
  BY DEF FindKey
<1>3. keys' \subseteq Aliases
  BY <1>1 DEF FindKey, DaemonInv, DaemonTypeOK, CallSound, Handling
<1>4. CallSound([call[t] EXCEPT !.at = "resolve"], records')
  BY <1>1, <1>2 DEF CallSound, Handling
<1>5. call' \in [Handlers \cup {Startup} -> Handling \cup {Missing}] /\ CallsSound'
  BY <1>1, <1>2, <1>4, ProceedStep, EndStep
<1> QED BY <1>2, <1>3, <1>5, FileGrows DEF DaemonInv, DaemonTypeOK

LEMMA ResolveStep ==
    ASSUME DaemonInv, NEW t \in Handlers \cup {Startup}, Resolve(t)
    PROVE  DaemonInv'
<1>1. call[t] \in Handling /\ CallSound(call[t], records) /\ call[t].at = "resolve"
  BY CallReached DEF Resolve
<1>2. UNCHANGED <<cfg, file, agents, keys, records, spoken>>
  BY DEF Resolve, Outside
<1>3. CASE Found(call[t].base) /\ Proceeds(t, "keep")
  <2>1. CallSound([call[t] EXCEPT !.at = "keep"], records')
    BY <1>1, <1>2, <1>3 DEF CallSound, Handling, Found
  <2>2. call' \in [Handlers \cup {Startup} -> Handling \cup {Missing}] /\ CallsSound'
    BY <1>1, <1>2, <1>3, <2>1, ProceedStep
  <2> QED BY <1>2, <2>2, FileGrows DEF DaemonInv, DaemonTypeOK
<1>4. CASE Proceeds(t, "publish")
  <2>1. CallSound([call[t] EXCEPT !.at = "publish"], records')
    BY <1>1, <1>2 DEF CallSound, Handling
  <2>2. call' \in [Handlers \cup {Startup} -> Handling \cup {Missing}] /\ CallsSound'
    BY <1>1, <1>2, <1>4, <2>1, ProceedStep
  <2> QED BY <1>2, <2>2, FileGrows DEF DaemonInv, DaemonTypeOK
<1> QED BY <1>3, <1>4 DEF Resolve

LEMMA PublishBaseStep ==
    ASSUME DaemonInv, NEW t \in Handlers \cup {Startup}, PublishBase(t)
    PROVE  DaemonInv'
<1>1. call[t] \in Handling /\ CallSound(call[t], records) /\ call[t].at = "publish"
  BY CallReached DEF PublishBase
<1>2. /\ UNCHANGED <<cfg, file, agents, keys, spoken>>
      /\ records \subseteq records' /\ records' \subseteq Aliases
  BY <1>1 DEF PublishBase, CallSound, Handling, DaemonInv, DaemonTypeOK
<1>3. call' \in [Handlers \cup {Startup} -> Handling \cup {Missing}] /\ CallsSound'
  <2>1. CASE Ends(t)
    BY <1>2, <2>1, EndStep
  <2>2. CASE records' = records \cup {call[t].base} /\ Proceeds(t, "keep")
    <3>1. CallSound(call[t], records')
      BY <1>1, <1>2, CallGrows
    <3>2. CallSound([call[t] EXCEPT !.at = "keep"], records')
      BY <1>1, <2>2, <3>1 DEF CallSound, Handling
    <3> QED BY <1>1, <1>2, <2>2, <3>2, ProceedStep
  <2> QED BY <2>1, <2>2 DEF PublishBase
<1> QED BY <1>2, <1>3, FileGrows DEF DaemonInv, DaemonTypeOK

LEMMA KeepBaseStep ==
    ASSUME DaemonInv, NEW t \in Handlers \cup {Startup}, KeepBase(t)
    PROVE  DaemonInv'
<1>1. /\ call[t] \in Handling /\ CallSound(call[t], records) /\ call[t].at = "keep"
      /\ call[t].op # "update"
  BY CallReached DEF KeepBase
<1>2. UNCHANGED <<cfg, agents, keys, records, spoken>>
  BY DEF KeepBase, Outside
<1>3. call[t].conf \in Config /\ call[t].base \in records /\ call[t].op \notin {"update", "reload", "append"}
  BY <1>1 DEF CallSound, Handling
<1>4. CASE file' = file /\ Proceeds(t, "granted")
  <2>1. CallSound([call[t] EXCEPT !.at = "granted"], records')
    BY <1>1, <1>2, <1>3 DEF CallSound, Handling
  <2>2. call' \in [Handlers \cup {Startup} -> Handling \cup {Missing}] /\ CallsSound'
    BY <1>1, <1>2, <1>4, <2>1, ProceedStep
  <2> QED BY <1>2, <1>4, <2>2, FileGrows DEF DaemonInv, DaemonTypeOK
<1>5. CASE file' = file /\ Ends(t)
  <2>1. call' \in [Handlers \cup {Startup} -> Handling \cup {Missing}] /\ CallsSound'
    BY <1>2, <1>5, EndStep
  <2> QED BY <1>2, <1>5, <2>1, FileGrows DEF DaemonInv, DaemonTypeOK
<1>6. CASE /\ file' = [call[t].conf EXCEPT !.base = call[t].base]
           /\ Goes(t, [call[t] EXCEPT !.at = "install", !.next = file'])
  <2> DEFINE c == [call[t] EXCEPT !.at = "install", !.next = file']
  <2>1. file' \in Config /\ file'.base \in records
    BY <1>1, <1>3, <1>6 DEF Config, Handling, DaemonInv, DaemonTypeOK
  <2>2. c \in Handling
    BY <1>1, <2>1 DEF Handling
  <2>3. c.next = file' /\ c.at = "install" /\ c.base = call[t].base
    BY <1>1 DEF Handling
  <2>4. c.op = call[t].op /\ c.id = call[t].id /\ c.found = call[t].found /\ c.conf = call[t].conf
    BY <1>1 DEF Handling
  <2>5. file' # Missing
    BY <2>1, DaemonAssumption
  <2>6. Goes(t, c)
    BY <1>6
  <2> HIDE DEF c
  <2>7. CallSound(c, records')
    BY <1>1, <1>2, <1>3, <2>1, <2>3, <2>4, <2>5 DEF CallSound, Known
  <2>8. call' \in [Handlers \cup {Startup} -> Handling \cup {Missing}] /\ CallsSound'
    BY <1>2, <2>2, <2>6, <2>7, CallStep
  <2> QED BY <1>2, <2>1, <2>8 DEF DaemonInv, DaemonTypeOK, AgentsSound, ConfigSound, Known
<1> QED BY <1>4, <1>5, <1>6 DEF KeepBase

LEMMA InstallConfigStep ==
    ASSUME DaemonInv, NEW t \in Handlers \cup {Startup}, InstallConfig(t)
    PROVE  DaemonInv'
<1>1. call[t] \in Handling /\ CallSound(call[t], records) /\ call[t].at = "install"
  BY CallReached DEF InstallConfig
<1>2. UNCHANGED <<file, agents, keys, records, spoken>> /\ cfg' = call[t].next
  BY DEF InstallConfig, Outside
<1>3. cfg' \in Config /\ cfg'.base \in Known(records)
  BY <1>1, <1>2 DEF CallSound, Handling
<1>4. call' \in [Handlers \cup {Startup} -> Handling \cup {Missing}] /\ CallsSound'
  <2>1. CASE Ends(t)
    BY <1>2, <2>1, EndStep
  <2>2. CASE call[t].op \notin {"update", "reload"} /\ Proceeds(t, "granted")
    <3>1. CallSound([call[t] EXCEPT !.at = "granted"], records')
      BY <1>1, <1>2, <2>2 DEF CallSound, Handling
    <3> QED BY <1>1, <1>2, <2>2, <3>1, ProceedStep
  <2> QED BY <2>1, <2>2 DEF InstallConfig
<1> QED BY <1>2, <1>3, <1>4 DEF DaemonInv, DaemonTypeOK, AgentsSound, ConfigSound

-----------------------------------------------------------------------------
\* A call that a request begins with.
LEMMA StartStep ==
    ASSUME DaemonInv, NEW t \in Handlers \cup {Startup}, NEW c \in Handling, Starts(t, c),
           CallSound(c, records), UNCHANGED <<cfg, file, agents, Outside>>
    PROVE  DaemonInv'
<1>1. Goes(t, c) /\ UNCHANGED <<cfg, file, agents, keys, records, spoken>>
  BY DEF Starts, Outside
<1>2. call' \in [Handlers \cup {Startup} -> Handling \cup {Missing}] /\ CallsSound'
  BY <1>1, CallStep
<1> QED BY <1>1, <1>2, FileGrows DEF DaemonInv, DaemonTypeOK

\* Who writes an agent's file writes a base that is published or what was there.
LEMMA AgentsStep ==
    ASSUME DaemonInv, NEW i \in Ids, NEW b \in Aliases \cup {Missing},
           b \in Known(records) \cup {Legacy[i]}, Saves(i, b), UNCHANGED records
    PROVE  agents' \in [Ids -> Aliases \cup {Missing}] /\ AgentsSound'
<1>1. agents \in [Ids -> Aliases \cup {Missing}] /\ AgentsSound
  BY DEF DaemonInv, DaemonTypeOK
<1>2. CASE agents' = agents
  BY <1>1, <1>2 DEF AgentsSound, Known
<1>3. CASE agents' = [agents EXCEPT ![i] = b]
  BY <1>1, <1>3 DEF AgentsSound, Known
<1> QED BY <1>2, <1>3 DEF Saves

LEMMA AskCreateStep ==
    ASSUME DaemonInv, NEW t \in Handlers \cup {Startup}, NEW i \in Ids, AskCreate(t, i)
    PROVE  DaemonInv'
<1> DEFINE c == [Blank EXCEPT !.op = "create", !.id = i]
<1>1. c \in Handling
  BY DEF Blank, Handling
<1>2. CallSound(c, records)
  BY DEF CallSound, Known, Blank
<1>3. Starts(t, c) /\ UNCHANGED <<cfg, file, agents, Outside>>
  BY DEF AskCreate
<1> HIDE DEF c
<1> QED BY <1>1, <1>2, <1>3, StartStep

LEMMA AskAgentStep ==
    ASSUME DaemonInv, NEW t \in Handlers \cup {Startup}, NEW i \in Ids, AskAgent(t, i)
    PROVE  DaemonInv'
<1>1. PICK op \in {"append", "send"} :
        Starts(t, [Blank EXCEPT !.op = op, !.id = i, !.found = agents[i],
                                !.at = IF op = "append" THEN "resave" ELSE "peek"])
  BY DEF AskAgent
<1> DEFINE c == [Blank EXCEPT !.op = op, !.id = i, !.found = agents[i],
                              !.at = IF op = "append" THEN "resave" ELSE "peek"]
<1>2. agents[i] \in Aliases \cup {Missing} /\ agents[i] \in Known(records) \cup {Legacy[i]}
  BY DEF DaemonInv, DaemonTypeOK, AgentsSound
<1>3. c \in Handling
  BY <1>2 DEF Blank, Handling
<1>4. CallSound(c, records)
  BY <1>2 DEF CallSound, Blank
<1>5. Starts(t, c) /\ UNCHANGED <<cfg, file, agents, Outside>>
  BY <1>1 DEF AskAgent
<1> HIDE DEF c
<1> QED BY <1>3, <1>4, <1>5, StartStep

LEMMA GrantedStep ==
    ASSUME DaemonInv, NEW t \in Handlers \cup {Startup}, Granted(t)
    PROVE  DaemonInv'
<1>1. call[t] \in Handling /\ CallSound(call[t], records) /\ call[t].at = "granted"
  BY CallReached DEF Granted
<1>2. UNCHANGED <<cfg, file, keys, records, spoken>>
  BY DEF Granted, Outside
<1>3. CASE Ends(t) /\ agents' = agents
  <2>1. call' \in [Handlers \cup {Startup} -> Handling \cup {Missing}] /\ CallsSound'
    BY <1>2, <1>3, EndStep
  <2> QED BY <1>2, <1>3, <2>1, FileGrows DEF DaemonInv, DaemonTypeOK
<1>4. CASE call[t].op = "create" /\ Saves(call[t].id, call[t].base) /\ Ends(t)
  <2>1. call[t].id \in Ids /\ call[t].base \in Aliases \cup {Missing} /\ call[t].base \in Known(records)
    BY <1>1, <1>4 DEF CallSound, Known, Handling
  <2>2. agents' \in [Ids -> Aliases \cup {Missing}] /\ AgentsSound'
    BY <1>2, <1>4, <2>1, AgentsStep
  <2>3. call' \in [Handlers \cup {Startup} -> Handling \cup {Missing}] /\ CallsSound'
    BY <1>2, <1>4, EndStep
  <2> QED BY <1>2, <2>2, <2>3 DEF DaemonInv, DaemonTypeOK, ConfigSound
<1>5. CASE call[t].op = "send" /\ Proceeds(t, "name") /\ agents' = agents
  <2>1. CallSound([call[t] EXCEPT !.at = "name"], records')
    BY <1>1, <1>2, <1>5 DEF CallSound, Handling
  <2>2. call' \in [Handlers \cup {Startup} -> Handling \cup {Missing}] /\ CallsSound'
    BY <1>1, <1>2, <1>5, <2>1, ProceedStep
  <2> QED BY <1>2, <1>5, <2>2, FileGrows DEF DaemonInv, DaemonTypeOK
<1> QED BY <1>3, <1>4, <1>5 DEF Granted

LEMMA DeleteStep ==
    ASSUME DaemonInv, NEW i \in Ids, Delete(i)
    PROVE  DaemonInv'
<1>1. UNCHANGED <<cfg, file, call, keys, records, spoken>> /\ Saves(i, Missing)
  BY DEF Delete, Outside, Saves
<1>2. agents' \in [Ids -> Aliases \cup {Missing}] /\ AgentsSound'
  BY <1>1, AgentsStep DEF Known
<1> QED BY <1>1, <1>2 DEF DaemonInv, DaemonTypeOK, CallsSound, ConfigSound

LEMMA ResaveStep ==
    ASSUME DaemonInv, NEW t \in Handlers \cup {Startup}, Resave(t)
    PROVE  DaemonInv'
<1>1. call[t] \in Handling /\ CallSound(call[t], records) /\ call[t].at = "resave"
  BY CallReached DEF Resave
<1>2. UNCHANGED <<cfg, file, keys, records, spoken>> /\ Saves(call[t].id, call[t].found) /\ Ends(t)
  BY DEF Resave, Outside
<1>3. /\ call[t].id \in Ids /\ call[t].found \in Aliases \cup {Missing}
      /\ call[t].found \in Known(records) \cup {Legacy[call[t].id]}
  BY <1>1 DEF CallSound, Handling
<1>4. agents' \in [Ids -> Aliases \cup {Missing}] /\ AgentsSound'
  BY <1>2, <1>3, AgentsStep
<1>5. call' \in [Handlers \cup {Startup} -> Handling \cup {Missing}] /\ CallsSound'
  BY <1>2, EndStep
<1> QED BY <1>2, <1>4, <1>5 DEF DaemonInv, DaemonTypeOK, ConfigSound

LEMMA PeekStep ==
    ASSUME DaemonInv, NEW t \in Handlers \cup {Startup}, Peek(t)
    PROVE  DaemonInv'
<1>1. call[t] \in Handling /\ CallSound(call[t], records) /\ call[t].at = "peek"
  BY CallReached DEF Peek
<1>2. UNCHANGED <<cfg, file, agents, keys, records, spoken>>
  BY DEF Peek, Outside
<1>3. call' \in [Handlers \cup {Startup} -> Handling \cup {Missing}] /\ CallsSound'
  <2>1. CASE Proceeds(t, "read")
    <3>1. CallSound([call[t] EXCEPT !.at = "read"], records')
      BY <1>1, <1>2 DEF CallSound, Handling
    <3> QED BY <1>1, <1>2, <2>1, <3>1, ProceedStep
  <2>2. CASE cfg.base # Missing /\ Goes(t, [call[t] EXCEPT !.at = "name", !.base = cfg.base])
    <3> DEFINE c == [call[t] EXCEPT !.at = "name", !.base = cfg.base]
    <3>1. cfg.base \in Aliases /\ cfg.base \in records
      BY <2>2 DEF DaemonInv, DaemonTypeOK, Config, ConfigSound, Known
    <3>2. c \in Handling
      BY <1>1, <3>1 DEF Handling
    <3>3. CallSound(c, records')
      BY <1>1, <1>2, <3>1 DEF CallSound, Handling
    <3>4. Goes(t, c)
      BY <2>2
    <3> HIDE DEF c
    <3> QED BY <1>2, <3>2, <3>3, <3>4, CallStep
  <2> QED BY <2>1, <2>2 DEF Peek
<1> QED BY <1>2, <1>3, FileGrows DEF DaemonInv, DaemonTypeOK

LEMMA NameStep ==
    ASSUME DaemonInv, NEW t \in Handlers \cup {Startup}, Name(t)
    PROVE  DaemonInv'
<1>1. call[t] \in Handling /\ CallSound(call[t], records) /\ call[t].at = "name"
  BY CallReached DEF Name
<1>2. UNCHANGED <<cfg, file, keys, records, spoken>> /\ Proceeds(t, "say")
  BY DEF Name, Outside
<1>3. /\ call[t].id \in Ids /\ call[t].base \in Aliases \cup {Missing}
      /\ call[t].base \in Known(records)
  BY <1>1 DEF CallSound, Known, Handling
<1>4. Saves(call[t].id, call[t].base)
  BY DEF Name, Saves
<1>5. agents' \in [Ids -> Aliases \cup {Missing}] /\ AgentsSound'
  BY <1>2, <1>3, <1>4, AgentsStep
<1>6. CallSound([call[t] EXCEPT !.at = "say"], records')
  BY <1>1, <1>2 DEF CallSound, Handling
<1>7. call' \in [Handlers \cup {Startup} -> Handling \cup {Missing}] /\ CallsSound'
  BY <1>1, <1>2, <1>6, ProceedStep
<1> QED BY <1>2, <1>5, <1>7 DEF DaemonInv, DaemonTypeOK, ConfigSound

LEMMA SpeakStep ==
    ASSUME DaemonInv, NEW t \in Handlers \cup {Startup}, Speak(t)
    PROVE  DaemonInv'
<1>1. call[t] \in Handling /\ CallSound(call[t], records) /\ call[t].at = "say"
  BY CallReached DEF Speak
<1>2. UNCHANGED <<cfg, file, agents, keys, records>> /\ Ends(t)
  BY DEF Speak
<1>3. spoken' \subseteq records /\ spoken' \subseteq Aliases
  BY <1>1 DEF Speak, CallSound, DaemonInv, DaemonTypeOK
<1>4. call' \in [Handlers \cup {Startup} -> Handling \cup {Missing}] /\ CallsSound'
  BY <1>2, EndStep
<1> QED BY <1>2, <1>3, <1>4, FileGrows DEF DaemonInv, DaemonTypeOK

LEMMA AskUpdateStep ==
    ASSUME DaemonInv, NEW t \in Handlers \cup {Startup}, NEW a \in Aliases, AskUpdate(t, a)
    PROVE  DaemonInv'
<1> DEFINE n == [cfg EXCEPT !.alias = a]
<1>1. cfg \in Config /\ cfg # Missing /\ cfg.base \in Known(records)
  BY DaemonAssumption DEF DaemonInv, DaemonTypeOK, ConfigSound
<1>2. n \in Config /\ n.base = cfg.base
  BY <1>1 DEF Config
<1>3. n # Missing
  BY <1>2, DaemonAssumption
<1> HIDE DEF n
<1> DEFINE c == [Blank EXCEPT !.op = "update", !.at = "keep", !.conf = cfg, !.next = n]
<1>4. c \in Handling
  BY <1>1, <1>2 DEF Blank, Handling
<1>5. CallSound(c, records)
  BY <1>1, <1>2, <1>3, DaemonAssumption DEF CallSound, Blank
<1>6. Starts(t, c) /\ UNCHANGED <<cfg, file, agents, Outside>>
  BY DEF AskUpdate, n
<1> HIDE DEF c
<1> QED BY <1>4, <1>5, <1>6, StartStep

LEMMA WriteUpdateStep ==
    ASSUME DaemonInv, NEW t \in Handlers \cup {Startup}, WriteUpdate(t)
    PROVE  DaemonInv'
<1>1. call[t] \in Handling /\ CallSound(call[t], records) /\ call[t].at = "keep" /\ call[t].op = "update"
  BY CallReached DEF WriteUpdate
<1>2. UNCHANGED <<cfg, agents, keys, records, spoken>>
  BY DEF WriteUpdate, Outside
<1>3. file' \in Config /\ file'.base \in Known(records)
  <2>1. file \in Config /\ file.base \in Known(records)
    BY DEF DaemonInv, DaemonTypeOK, ConfigSound
  <2>2. call[t].next \in Config /\ call[t].next.base \in Known(records)
    BY <1>1 DEF CallSound, Handling
  <2> QED BY <2>1, <2>2 DEF WriteUpdate
<1>4. CallSound([call[t] EXCEPT !.at = "install"], records')
  BY <1>1, <1>2 DEF CallSound, Handling
<1>5. Proceeds(t, "install") \/ Ends(t)
  BY DEF WriteUpdate
<1>6. call' \in [Handlers \cup {Startup} -> Handling \cup {Missing}] /\ CallsSound'
  BY <1>1, <1>2, <1>4, <1>5, ProceedStep, EndStep
<1> QED BY <1>2, <1>3, <1>6 DEF DaemonInv, DaemonTypeOK, AgentsSound, ConfigSound, Known

LEMMA AskReloadStep ==
    ASSUME DaemonInv, NEW t \in Handlers \cup {Startup}, AskReload(t)
    PROVE  DaemonInv'
<1>1. PICK n \in {file} \cup Elsewhere :
        Starts(t, [Blank EXCEPT !.op = "reload", !.at = "install", !.next = n])
  BY DEF AskReload
<1> DEFINE c == [Blank EXCEPT !.op = "reload", !.at = "install", !.next = n]
<1>2. n \in Config /\ n.base \in Known(records)
  BY DaemonAssumption DEF DaemonInv, DaemonTypeOK, ConfigSound, Known, Config
<1>3. c \in Handling
  BY <1>2 DEF Blank, Handling
<1>4. CallSound(c, records)
  BY <1>2, DaemonAssumption DEF CallSound, Blank
<1>5. Starts(t, c) /\ UNCHANGED <<cfg, file, agents, Outside>>
  BY <1>1 DEF AskReload
<1> HIDE DEF c
<1> QED BY <1>3, <1>4, <1>5, StartStep

LEMMA RebootStep == ASSUME DaemonInv, Reboot PROVE DaemonInv'
<1>1. UNCHANGED <<keys, records, spoken>> /\ agents' = Migrated /\ call' = Booting /\ file' = cfg'
  BY DEF Reboot, Outside
<1>2. cfg' \in Config /\ cfg'.base \in Known(records)
  <2>1. PICK a \in Aliases : cfg' = [file EXCEPT !.alias = a]
    BY DEF Reboot
  <2>2. file \in Config /\ file.base \in Known(records)
    BY DEF DaemonInv, DaemonTypeOK, ConfigSound
  <2> QED BY <2>1, <2>2 DEF Config
<1>3. agents' \in [Ids -> Aliases \cup {Missing}] /\ AgentsSound'
  BY <1>1, DaemonAssumption DEF DaemonInv, DaemonTypeOK, AgentsSound, Migrated, Known
<1>4. Blank \in Handling
  BY DEF Blank, Handling
<1>5. call' \in [Handlers \cup {Startup} -> Handling \cup {Missing}] /\ CallsSound'
  <2>1. call' \in [Handlers \cup {Startup} -> Handling \cup {Missing}]
    BY <1>1, <1>4 DEF Booting
  <2>2. ASSUME NEW u \in Handlers \cup {Startup}, call'[u] # Missing PROVE CallSound(call'[u], records')
    <3>1. call'[u] = Blank
      BY <1>1, <2>2 DEF Booting
    <3>2. CallSound(Blank, records')
      BY DaemonAssumption DEF CallSound, Blank
    <3> QED BY <3>1, <3>2
  <2> QED BY <2>1, <2>2 DEF CallsSound
<1> QED BY <1>1, <1>2, <1>3, <1>5 DEF DaemonInv, DaemonTypeOK, ConfigSound

LEMMA DaemonStep == DaemonInv /\ [DaemonNext]_daemonVars => DaemonInv'
<1> SUFFICES ASSUME DaemonInv, [DaemonNext]_daemonVars PROVE DaemonInv'
  OBVIOUS
<1>1. CASE \E t \in Handlers \cup {Startup} : Ensure(t) \/ Agents(t) \/ Configures(t)
  <2>1. PICK t \in Handlers \cup {Startup} : Ensure(t) \/ Agents(t) \/ Configures(t)
    BY <1>1
  <2>2. CASE Ensure(t)
    BY <2>2, ReadConfigStep, FindKeyStep, ResolveStep, PublishBaseStep, KeepBaseStep, InstallConfigStep DEF Ensure
  <2>3. CASE Agents(t)
    BY <2>3, AskCreateStep, AskAgentStep, GrantedStep, ResaveStep, PeekStep, NameStep, SpeakStep DEF Agents
  <2>4. CASE Configures(t)
    BY <2>4, AskUpdateStep, WriteUpdateStep, AskReloadStep DEF Configures
  <2> QED BY <2>1, <2>2, <2>3, <2>4
<1>2. CASE \E i \in Ids : Delete(i)
  BY <1>2, DeleteStep
<1>3. CASE Reboot
  BY <1>3, RebootStep
<1>4. CASE UNCHANGED daemonVars
  BY <1>4 DEF daemonVars, DaemonInv, DaemonTypeOK, CallsSound, AgentsSound, ConfigSound
<1> QED BY <1>1, <1>2, <1>3, <1>4 DEF DaemonNext

\* The daemon's configurations, agents and handlers keep their types, for any ids,
\* aliases and handlers.
THEOREM DaemonTypeCorrect == DaemonSpec => []DaemonTypeOK
<1>1. DaemonInv => DaemonTypeOK
  BY DEF DaemonInv
<1> QED BY <1>1, DaemonStart, DaemonStep, PTL DEF DaemonSpec

\* No agent gets a DID, and no message is sent, under a name that does not lead to
\* the daemon's document: what is kept was found or published before, though
\* requests keep and put in place configurations that others have since changed,
\* and reloads and restarts bring back older ones (ensure_world_base_did_published).
THEOREM BasesAlwaysPublished == DaemonSpec => []BasesPublished
<1>1. DaemonInv => BasesPublished
  BY DEF DaemonInv, AgentsSound, ConfigSound, Known, BasesPublished, Bases
<1> QED BY <1>1, DaemonStart, DaemonStep, PTL DEF DaemonSpec
=============================================================================
