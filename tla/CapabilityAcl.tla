--------------------------- MODULE CapabilityAcl ---------------------------
(***************************************************************************)
(* The capability access lists of ma-core: what a list says read as text,   *)
(* what it says once compiled, and how the world layers the lists of an     *)
(* object under its own.                                                     *)
(*                                                                           *)
(* A list is a function from subjects to sets of patterns; a pattern and a  *)
(* capability are sequences of characters, already trimmed.  The code keeps *)
(* patterns in vectors and, compiled, in a hash set and a sorted, deduped   *)
(* vector: no reading of a list depends on their order.                     *)
(***************************************************************************)
EXTENDS Naturals, Sequences, FiniteSets

CONSTANTS
    Actors,      \* the subjects that are DIDs
    Absent,        \* no list, no owner, nothing parsed
    Lost         \* a list that cannot be fetched

ASSUME SubjectAssumption == /\ Absent \notin Actors
                            /\ {"*", "owner", "Owner"} \cap Actors = {}
                            /\ Lost # Absent

\* The special subjects.  Validation takes "owner" in any case ("Owner" stands
\* for the other spellings), evaluation looks up only the lower-case one.
AnyCaseOwner == {"owner", "Owner"}

-----------------------------------------------------------------------------
(* Patterns *)

\* Once the value is used up the rest of the pattern may only be stars.
\* Broken variant: a star with nothing left to stand for fails the match.
NothingLeft(p, i) == i > Len(p)
OnlyStarsLeft(p, i) == \A j \in i .. Len(p) : p[j] = "*"

\* Where the matching loop may be: `pat' and `val' are its two cursors, `star'
\* the place of the last star taken (0: none) and `back' where in the value that
\* star's tail was last tried.
Cursors(p, v) ==
    {at \in [pat : 1 .. Len(p) + 1, val : 1 .. Len(v) + 1,
             star : 0 .. Len(p), back : 1 .. Len(v) + 1] : at.back <= at.val}

Cursor(pat, val, star, back) == [pat |-> pat, val |-> val, star |-> star, back |-> back]

\* What the loop finds there: the same character on both sides, a star, neither.
Same(p, v, at) == at.val <= Len(v) /\ at.pat <= Len(p) /\ p[at.pat] = v[at.val]
Star(p, v, at) == /\ at.val <= Len(v) /\ at.pat <= Len(p)
                  /\ p[at.pat] # v[at.val] /\ p[at.pat] = "*"
Stuck(p, v, at) == /\ at.val <= Len(v)
                   /\ at.pat <= Len(p) => p[at.pat] # v[at.val] /\ p[at.pat] # "*"

\* The matching loop, character for character.
capability_pattern_matches(p, v) ==
    LET loop[at \in Cursors(p, v)] ==
            \/ at.val > Len(v) /\ OnlyStarsLeft(p, at.pat)
            \/ Same(p, v, at) /\ loop[Cursor(at.pat + 1, at.val + 1, at.star, at.back)]
            \/ Star(p, v, at) /\ loop[Cursor(at.pat + 1, at.val, at.pat, at.val)]
            \/ /\ Stuck(p, v, at) /\ at.star > 0
               /\ loop[Cursor(at.star + 1, at.back + 1, at.star, at.back + 1)]
    IN  loop[Cursor(1, 1, 0, 1)]

\* What a pattern promises: every star stands for some run of characters.
Denotes(p, v) ==
    LET denotes[at \in (1 .. Len(p) + 1) \X (1 .. Len(v) + 1)] ==
            LET i == at[1]
                j == at[2]
            IN  \/ i > Len(p) /\ j > Len(v)
                \/ i <= Len(p) /\ p[i] = "*" /\ \E k \in j .. Len(v) + 1 : denotes[<<i + 1, k>>]
                \/ /\ i <= Len(p) /\ j <= Len(v) /\ p[i] # "*" /\ p[i] = v[j]
                   /\ denotes[<<i + 1, j + 1>>]
    IN  denotes[<<1, 1>>]

AnyMatches(patterns, cap) == \E p \in patterns : capability_pattern_matches(p, cap)

-----------------------------------------------------------------------------
(* Lists as they are written *)

validate_capability_acl(acl) ==
    \A s \in DOMAIN acl : s \in {"*"} \cup AnyCaseOwner \cup Actors /\ <<>> \notin acl[s]

\* A file is read as a document or a bare map, in YAML or JSON, whichever
\* reads first; what was read is refused whole if one entry is not valid.
parse_capability_acl_text(raw) ==
    IF raw # Absent /\ validate_capability_acl(raw) THEN raw ELSE Absent

\* The entry that speaks for a subject: its own, or everybody's.
EntryFor(subjects, subject) == IF subject \in subjects THEN subject ELSE "*"

subject_has_capability(acl, subject, cap) ==
    LET entry == EntryFor(DOMAIN acl, subject)
    IN  entry \in DOMAIN acl /\ AnyMatches(acl[entry], cap)

subject_has_capability_with_owner(acl, subject, owner, cap) ==
    \/ owner = subject /\ "owner" \in DOMAIN acl /\ AnyMatches(acl["owner"], cap)
    \/ subject_has_capability(acl, subject, cap)

-----------------------------------------------------------------------------
(* Compiled lists *)

HasStar(p) == \E i \in DOMAIN p : p[i] = "*"

\* Broken variant: a bare star clears both halves of the entry.
CompiledSubjectAclCleared(patterns) ==
    LET stars == {p \in patterns : HasStar(p)}
    IN  IF <<"*">> \in stars THEN [exact |-> {}, wildcard |-> {}]
        ELSE [exact |-> patterns \ stars, wildcard |-> stars]

CompiledSubjectAcl(patterns) ==
    LET stars    == {p \in patterns : HasStar(p)}
        wildcard == IF <<"*">> \in stars THEN {<<"*">>} ELSE stars
    IN  [exact    |-> {p \in patterns \ stars : ~AnyMatches(wildcard, p)},
         wildcard |-> wildcard]

compile_acl(acl) ==
    IF validate_capability_acl(acl)
    THEN [s \in DOMAIN acl |-> CompiledSubjectAcl(acl[s])]
    ELSE Absent

compile_acl_from_text(raw) ==
    IF parse_capability_acl_text(raw) = Absent THEN Absent ELSE compile_acl(raw)

evaluate_compiled_acl(compiled, subject, cap) ==
    LET entry == EntryFor(DOMAIN compiled, subject)
    IN  /\ entry \in DOMAIN compiled
        /\ \/ cap \in compiled[entry].exact
           \/ AnyMatches(compiled[entry].wildcard, cap)

\* Broken variant: the owner is judged by the owner entry alone.
OwnerEntryOnly(compiled, subject, owner, cap) ==
    IF owner = subject /\ "owner" \in DOMAIN compiled
    THEN evaluate_compiled_acl(compiled, "owner", cap)
    ELSE evaluate_compiled_acl(compiled, subject, cap)

\* The owner is looked up as a subject like any other, so a list with no owner
\* entry answers for the owner with everybody's.
evaluate_compiled_acl_with_owner(compiled, subject, owner, cap) ==
    \/ owner = subject /\ evaluate_compiled_acl(compiled, "owner", cap)
    \/ evaluate_compiled_acl(compiled, subject, cap)

-----------------------------------------------------------------------------
(* The layers of an object *)

\* An object carries a list by CID and one inline; the one it names by CID is
\* fetched (the fetch may fail) and shadows the inline one.
\*   object = [owner, cid, inline], cid a list as it is written, Absent when the
\*   object names none, Lost when it names one that cannot be fetched.
LocalAcl(object) == IF object.cid # Absent THEN object.cid ELSE object.inline

\* The check before a method of the object: the world's list speaks first with
\* the world's owner as owner, then the object's with the object's.  A list
\* that cannot be fetched, parsed or compiled denies: the caller of the check
\* turns its error into a refusal.
object_capability_allowed(global, worldOwner, object, caller, cap) ==
    /\ object # Absent
    /\ global # Absent => evaluate_compiled_acl_with_owner(global, caller, worldOwner, cap)
    /\ LET local == LocalAcl(object)
       IN  \/ local = Absent
           \/ /\ local # Lost
              /\ compile_acl_from_text(local) # Absent
              /\ evaluate_compiled_acl_with_owner(compile_acl(local), caller, object.owner, cap)
=============================================================================
