---------------------------- MODULE AclSamples ----------------------------
(***************************************************************************)
(* The rules of CapabilityAcl against what they promise: one input per      *)
(* state, a pattern, a list or the lists an object is under.                *)
(***************************************************************************)
EXTENDS CapabilityAcl

CONSTANTS
    Chars,        \* the characters of patterns and capabilities
    MaxPattern, MaxWord,    \* how long these are
    ListPatterns,           \* the patterns of lists
    Capabilities,           \* what is asked of lists
    Grants                  \* the lists that are put over one another

VARIABLE sample   \* the input looked at

Patterns == UNION {[1 .. k -> Chars \cup {"*"}] : k \in 0 .. MaxPattern}
Words == UNION {[1 .. k -> Chars] : k \in 0 .. MaxWord}

Subjects == {"*", "owner"} \cup Actors
Lists == UNION {[S -> SUBSET ListPatterns] : S \in SUBSET Subjects}
CompiledLists(S) == [S -> [exact : SUBSET ListPatterns, wildcard : SUBSET ListPatterns]]

\* A capability holds no star, a list with an empty pattern is refused whole
\* (validate_capability_acl).
ASSUME CharsAssumption == "*" \notin Chars /\ MaxPattern \in Nat /\ MaxWord \in Nat
ASSUME ListsAssumption ==
    /\ ListPatterns \subseteq Seq(Chars \cup {"*"}) \ {<<>>} /\ Capabilities \subseteq Seq(Chars)
    /\ Grants \subseteq Lists
ASSUME AbsentAssumption == \A S \in SUBSET Subjects : Absent \notin CompiledLists(S)

AclInputs ==
    [pattern : Patterns] \cup [acl : Lists]
        \cup [global : Grants \cup {Absent}, cid : Grants \cup {Absent, Lost}, inline : Grants \cup {Absent}]

Is(kind) == kind \in DOMAIN sample

Sampled == sample \in AclInputs
AclSpec == Sampled /\ [][UNCHANGED sample]_sample

-----------------------------------------------------------------------------

\* The matching loop, with its two cursors and one star to come back to, says
\* yes exactly when every star can be given a run of characters
\* (capability_pattern_matches; the capability itself holds no star).
GlobAgrees ==
    Is("pattern") => \A v \in Words :
        capability_pattern_matches(sample.pattern, v) <=> Denotes(sample.pattern, v)

\* Compiling a list, which drops the entries others cover, changes no answer;
\* only an owner gains by it, where the list has no owner entry and everybody's
\* grants (evaluate_compiled_acl_with_owner against the list as written).  And
\* however compiled, a list that an object names by CID has the last word over
\* its inline one: where it denies, or cannot be had, nothing is allowed, and
\* where the world's list denies neither can allow (object_capability_allowed).
Gives(list, s, owner, cap) == evaluate_compiled_acl_with_owner(compile_acl(list), s, owner, cap)

CompiledAlike(acl, s, owner, cap) ==
    LET written   == subject_has_capability_with_owner(acl, s, owner, cap)
        everybody == /\ owner = s /\ "owner" \notin DOMAIN acl
                     /\ "*" \in DOMAIN acl /\ AnyMatches(acl["*"], cap)
    IN  Gives(acl, s, owner, cap) <=> written \/ everybody

LayersDeny(global, cid, inline, s, owner, cap) ==
    LET object  == [owner |-> owner, cid |-> cid, inline |-> inline]
        world   == IF global = Absent THEN Absent ELSE compile_acl(global)
        allowed == object_capability_allowed(world, owner, object, s, cap)
    IN  /\ cid = Lost => ~allowed
        /\ cid \notin {Lost, Absent} /\ ~Gives(cid, s, owner, cap) => ~allowed
        /\ global # Absent /\ ~Gives(global, s, owner, cap) => ~allowed

CompileFaithful ==
    \A s \in Actors, owner \in Actors \cup {Absent}, cap \in Capabilities :
        /\ Is("acl") => CompiledAlike(sample.acl, s, owner, cap)
        /\ Is("cid") => LayersDeny(sample.global, sample.cid, sample.inline, s, owner, cap)
=============================================================================
