----------------------------- MODULE SenderDocs -----------------------------
(***************************************************************************)
(* How a world checks who signed a message: the cache of DID documents that  *)
(* the inbox and the avatar lane read, refresh and mark dirty, and that the  *)
(* ipfs lane fills with what citizens hand in (world_protocol.rs,            *)
(* get_sender_document, set_sender_dirty, verify_message and IpfsProtocol).  *)
(*                                                                          *)
(* A document is told apart by the key it names, which either signed a       *)
(* message or did not.  A fetch gets the document that is published when     *)
(* Kubo resolves the name, or fails.  Each lane does one message at a time.  *)
(***************************************************************************)
CONSTANTS
    Senders,    \* DIDs without a fragment
    DidDocuments,  \* what is published for them over time
    Lanes,      \* the lanes that check signatures
    Absent

ASSUME AbsentAssumption == Absent \notin DidDocuments /\ Absent \notin Senders

VARIABLES
    published,  \* the document that a sender's name resolves to
    didCache,   \* did_cache
    checks,     \* the message each lane is checking
    handedIn    \* the document the ipfs lane has cached and not published

docVars == <<published, didCache, checks, handedIn>>

CachedDidDocument == [document : DidDocuments, dirty : BOOLEAN]
Steps == {"verify", "fetch", "look", "cache", "clear", "mark"}

\* steady: the document that signed the message has been the published one
\* since the lane took the message.
Check ==
    [at : Steps, sender : Senders, signer : DidDocuments, document : DidDocuments \cup {Absent},
     dirty : BOOLEAN, again : BOOLEAN, steady : BOOLEAN]

DocsInit ==
    /\ published \in [Senders -> DidDocuments \cup {Absent}]
    /\ didCache = [s \in Senders |-> Absent]
    /\ checks = [l \in Lanes |-> Absent]
    /\ handedIn = Absent

-----------------------------------------------------------------------------
Checking(l, step) == checks[l] # Absent /\ checks[l].at = step
Settle(l) == checks' = [checks EXCEPT ![l] = Absent]
StepTo(l, step) == checks' = [checks EXCEPT ![l].at = step]
IsDirty(s) == didCache[s] # Absent /\ didCache[s].dirty

\* get_sender_document, without and with force_refresh: only the former looks
\* into the cache.
Looked(m) ==
    IF didCache[m.sender] = Absent THEN [m EXCEPT !.at = "fetch"]
    ELSE [m EXCEPT !.at = "verify", !.document = didCache[m.sender].document,
                   !.dirty = didCache[m.sender].dirty]

\* Broken variant of Forced: the refresh is content with what is cached.
ForcedLooks(m) == Looked(m)

Forced(m) == [m EXCEPT !.at = "fetch"]

ReceiveSigned(l) ==
    /\ checks[l] = Absent
    /\ \E s \in Senders, d \in DidDocuments :
        checks' = [checks EXCEPT ![l] =
            Looked([at |-> "fetch", sender |-> s, signer |-> d, document |-> Absent,
                    dirty |-> FALSE, again |-> FALSE, steady |-> published[s] = d])]
    /\ UNCHANGED <<published, didCache, handedIn>>

FetchDocument(l) ==
    LET m == checks[l] IN
    /\ Checking(l, "fetch") /\ published[m.sender] # Absent
    /\ checks' = [checks EXCEPT ![l] = [m EXCEPT !.at = "look", !.document = published[m.sender]]]
    /\ UNCHANGED <<published, didCache, handedIn>>

\* A fetch that fails ends the check; if it was the second, the sender's
\* document is marked first.
FetchFails(l) ==
    LET m == checks[l] IN
    /\ Checking(l, "fetch")
    /\ Settle(l)
    /\ didCache' = IF m.again /\ didCache[m.sender] # Absent
                   THEN [didCache EXCEPT ![m.sender].dirty = TRUE] ELSE didCache
    /\ UNCHANGED <<published, handedIn>>

\* The mark is read under one lock and the document cached under another: what
\* was cached meanwhile is overwritten.
LookDirty(l) ==
    LET m == checks[l] IN
    /\ Checking(l, "look")
    /\ checks' = [checks EXCEPT ![l] = [m EXCEPT !.at = "cache", !.dirty = IsDirty(m.sender)]]
    /\ UNCHANGED <<published, didCache, handedIn>>

CacheDocument(l) ==
    LET m == checks[l] IN
    /\ Checking(l, "cache")
    /\ didCache' = [didCache EXCEPT ![m.sender] = [document |-> m.document, dirty |-> m.dirty]]
    /\ StepTo(l, "verify")
    /\ UNCHANGED <<published, handedIn>>

\* A signature that does not verify is checked once more, by a document that is
\* fetched anew.
VerifySignature(l) ==
    LET m == checks[l] IN
    /\ Checking(l, "verify")
    /\ \/ m.signer = m.document /\ (m.dirty \/ m.again) /\ StepTo(l, "clear")
       \/ m.signer = m.document /\ ~m.dirty /\ ~m.again /\ Settle(l)
       \/ m.signer # m.document /\ m.again /\ StepTo(l, "mark")
       \/ m.signer # m.document /\ ~m.again
          /\ checks' = [checks EXCEPT ![l] = Forced([m EXCEPT !.again = TRUE])]
    /\ UNCHANGED <<published, didCache, handedIn>>

\* The message is accepted, or refused.
SetSenderDirty(l) ==
    LET m == checks[l] IN
    /\ Checking(l, "clear") \/ Checking(l, "mark")
    /\ didCache' = IF didCache[m.sender] = Absent THEN didCache
                   ELSE [didCache EXCEPT ![m.sender].dirty = (m.at = "mark")]
    /\ Settle(l)
    /\ UNCHANGED <<published, handedIn>>

-----------------------------------------------------------------------------
(* What is published                                                        *)

Publishes(s, d) ==
    /\ published' = [published EXCEPT ![s] = d]
    /\ checks' = [l \in Lanes |->
            IF checks[l] # Absent /\ checks[l].sender = s /\ checks[l].signer # d
            THEN [checks[l] EXCEPT !.steady = FALSE] ELSE checks[l]]

\* A document that is handed in replaces the cached one before it is published.
HandIn ==
    /\ handedIn = Absent
    /\ \E s \in Senders, d \in DidDocuments :
        /\ didCache' = [didCache EXCEPT ![s] = [document |-> d, dirty |-> FALSE]]
        /\ handedIn' = [sender |-> s, document |-> d]
    /\ UNCHANGED <<published, checks>>

PublishHandedIn ==
    /\ handedIn # Absent
    /\ \/ UNCHANGED <<published, checks>>
       \/ Publishes(handedIn.sender, handedIn.document)
    /\ handedIn' = Absent
    /\ UNCHANGED didCache

\* A sender may publish elsewhere.
PublishElsewhere(s, d) == Publishes(s, d) /\ UNCHANGED <<didCache, handedIn>>

CheckSignature(l) ==
    FetchDocument(l) \/ FetchFails(l) \/ LookDirty(l) \/ CacheDocument(l) \/ VerifySignature(l)
        \/ SetSenderDirty(l)

DocsNext ==
    \/ \E l \in Lanes : ReceiveSigned(l) \/ CheckSignature(l)
    \/ HandIn \/ PublishHandedIn
    \/ \E s \in Senders, d \in DidDocuments : PublishElsewhere(s, d)

DocsSpec == DocsInit /\ [][DocsNext]_docVars

-----------------------------------------------------------------------------
DocsTypeOK ==
    /\ published \in [Senders -> DidDocuments \cup {Absent}]
    /\ didCache \in [Senders -> CachedDidDocument \cup {Absent}]
    /\ checks \in [Lanes -> Check \cup {Absent}]
    /\ handedIn \in [sender : Senders, document : DidDocuments] \cup {Absent}

\* A message whose signer's document was the published one for as long as it
\* was checked is refused only if a fetch failed: neither what the cache holds,
\* nor what the other lanes put into it meanwhile, nor a document that was
\* handed in and never published refuses it (verify_message, "signature
\* verification failed with cached DID doc; retrying fresh fetch").
PublishedSignerAccepted == \A l \in Lanes : Checking(l, "mark") => ~checks[l].steady
=============================================================================
