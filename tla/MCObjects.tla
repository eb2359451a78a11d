----------------------------- MODULE MCObjects -----------------------------
(***************************************************************************)
(* Instances of ObjectRuntime for TLC.  The rules its methods are checked   *)
(* by are sampled in the same run: a behaviour either starts at a sample    *)
(* and stays there, or is one of the objects.                                *)
(***************************************************************************)
EXTENDS ObjectRuntime, RuleSamples

MCVerbs == {"take", "drop", "open", "close", "pop", "ask", "retry", "reply", "pending", "cid", "flush"}

AdminVerbs == {"pop", "ask", "retry", "reply", "pending", "flush"}

\* The mailbox is born with its admin verbs for the world's owner where it is
\* held; a definition from the store asks for the session or its absence.
MCNeeds ==
    [def \in {"builtin", "c"} |-> [verb \in MCVerbs |->
        IF def = "builtin" /\ verb \in AdminVerbs
        THEN {"user == location", "user == world.owner"}
        ELSE IF def = "c" /\ verb = "drop" THEN {"user == location"}
        ELSE IF def = "c" /\ verb = "take" THEN {"opened_by == null"}
        ELSE IF def = "c" /\ verb = "close" THEN {"user == opened_by"} ELSE {}]]
MCPrints == [def \in {"builtin", "c"} |-> {}]

MCEnvelopes == {{}, {<<"lobby", "box">>}, {<<"den", "box">>}}

\* Small lists: three patterns that overlap, three capabilities.
MCListPatterns == {<<"a">>, <<"a", "*">>, <<"*">>}
MCCapabilities == {<<"a">>, <<"a", "b">>, <<"b">>}
MCGrants == [{"*"} -> {{<<"a">>}, {<<"*">>}}] \cup {[s \in {"owner"} |-> {<<"*">>}]}

MCTokens == {Ident(<<"user">>), Ident(<<"opened_by">>), [text |-> <<"alice">>], [bool |-> TRUE],
             Sign("=="), Sign("&&"), Sign("||"), Sign("!"), Sign("("), Sign(")")}
MCNames ==
    {<<"user">>, <<"owner">>, <<"location">>, <<"opened_by">>, <<"inbox">>, <<"world", "owner">>,
     <<"world", "slug">>, <<"world">>, <<"room", "inbox">>, <<"room", "", "inbox">>,
     <<"room", "box", "inbox">>, <<"room", "a", "b", "inbox">>, <<"state">>, <<"state", "open">>,
     <<"admin">>}

\* The objects are looked at in slices, each with its part of the state left
\* free: the mailbox in the hands of two avatars, with loads and restarts; two
\* objects that loads put in other rooms, and the routes to them; the inbox; the
\* requests; the blobs and definitions.
All(P(_)) == \A at \in DOMAIN objects : P(objects[at])
Quiet(o) == o.inbox = <<>> /\ o.outbox = <<>>
Idle(o) == o.holder = None /\ o.expiry = None
Unasked(o) == o.outbox = <<>>
Unsent(o) == Len(o.inbox) < 2
OneCaller == Cardinality(DOMAIN handles) < 2
Direct == OneCaller /\ routes = <<>>
Alone == DOMAIN objects = {Home}
Unwashed == washing = <<>> /\ All(LAMBDA o : o.blobs = {})
InSlice ==
    CASE sample.slice = "sessions" -> All(Quiet) /\ Unwashed /\ Alone /\ now < 2
      [] sample.slice = "routes"   -> All(Quiet) /\ Unwashed /\ OneCaller /\ saved = None /\ now = 0
      [] sample.slice = "inbox"    -> All(Idle) /\ All(Unasked) /\ Unwashed /\ Direct /\ Alone
      [] sample.slice = "requests" -> All(Idle) /\ All(Unsent) /\ Unwashed /\ Direct /\ Alone
                                      /\ nextKnock = 0
      [] sample.slice = "blobs"    -> All(Quiet) /\ All(Idle) /\ Direct /\ now = 0
                                      /\ (saved # None => Alone)
Slices == {"sessions", "routes", "inbox", "requests", "blobs"}

\* Avatars and their handles are as good as one another.
Alike == Permutations(Dids) \cup Permutations(Handles)

MCInit == Init /\ sample \in Samples \cup [slice: Slices]
MCNext == Is("slice") /\ Next /\ UNCHANGED sample /\ InSlice'
MCSpec == MCInit /\ [][MCNext]_<<vars, sample>>
=============================================================================
