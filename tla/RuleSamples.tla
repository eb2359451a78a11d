---------------------------- MODULE RuleSamples ----------------------------
(***************************************************************************)
(* The rules of Requirements against what they promise, over bounded        *)
(* inputs, beside those of AclSamples.                                       *)
(***************************************************************************)
EXTENDS AclSamples, Requirements

CONSTANTS
    Tokens,       \* the tokens texts are made of
    MaxText,      \* how many of them
    Names         \* names of symbols

ASSUME TextAssumption == MaxText \in Nat
ASSUME NamesAssumption == Names \subseteq Seq(STRING)

Texts(n) == UNION {[1 .. k -> Tokens] : k \in 0 .. n}

Samples ==
    AclInputs \cup [name: Names]
        \cup [start: {t \in Texts(2) : Len(t) = 2}] \cup [start: Texts(1)]

Looked == sample \in Samples
RuleSpec == Looked /\ [][UNCHANGED sample]_sample

-----------------------------------------------------------------------------

\* The parser reads exactly the texts of the grammar, each as its one tree:
\* || binds less than &&, both to the left, ! tightest, comparisons do not
\* chain (parse_or, parse_and, parse_unary, parse_primary).
ParserIsGrammar ==
    Is("start") => \A rest \in (IF Len(sample.start) < 2 THEN {<<>>} ELSE Texts(MaxText - 2)) :
        LET t == sample.start \o rest
            tree == parse_expression(t)
        IN  Derived(t) = (IF tree = Fail THEN {} ELSE {tree.expr})

\* The symbols said to be in an expression are those its value depends on, and
\* the world has a value for each that validation lets pass: it extends the lock
\* of a session exactly on what references_symbol says, and no requirement that
\* was accepted compares with null by mistake (references_symbol and
\* is_allowed_symbol against evaluation and the world's resolve_symbol).
OpenedMatters(e) ==
    LET opened == <<"opened_by">>
        Said(who) == evaluate_expression(e,
            [n \in Names \cup symbols(e) |-> IF n = opened THEN who ELSE [text |-> <<"alice">>]])
    IN  Said(Null) # Said([text |-> <<"alice">>]) => references_symbol(e, opened)
Resolved(name) ==
    LET text == [text |-> <<"alice">>]
        context == [room |-> "hall", user |-> text, owner |-> text, location |-> text,
                    opened_by |-> text, world_owner |-> text]
    IN  is_allowed_symbol(name) => resolve_symbol(context, name) # Fail
SymbolsSound ==
    /\ Is("start") => \A rest \in (IF Len(sample.start) < 2 THEN {<<>>} ELSE Texts(MaxText - 2)) :
            LET spec == parse_expression(sample.start \o rest)
            IN  spec # Fail => OpenedMatters(spec.expr)
    /\ Is("name") => Resolved(sample.name)
=============================================================================
