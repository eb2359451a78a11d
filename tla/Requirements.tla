---------------------------- MODULE Requirements ----------------------------
(***************************************************************************)
(* The requirement language of ma-core: how a requirement is read (a legacy *)
(* name, else an expression), validated and evaluated, and the values the   *)
(* world supplies for its symbols.                                           *)
(*                                                                           *)
(* A text is the sequence of its tokens.  A token is a record of one field  *)
(* that says its kind: [ident |-> name], [text |-> string], [bool |-> b],   *)
(* [null |-> TRUE] or [sign |-> "=="]; a name is the sequence of its parts  *)
(* between dots.  Characters, quotes and white space are not modelled.      *)
(***************************************************************************)
EXTENDS Naturals, Sequences, FiniteSets

Ident(name) == [ident |-> name]
Sign(s) == [sign |-> s]
Null == [null |-> TRUE]
Fail == [fail |-> TRUE]      \* the text is refused

-----------------------------------------------------------------------------
(* Expressions: trees, as functions from the paths of their nodes to what     *)
(* stands there, the sign of the operation or an operand.  An operand is a    *)
(* token: a symbol or a literal.                                              *)

IsSymbol(operand) == "ident" \in DOMAIN operand
IsOperand(token) == "sign" \notin DOMAIN token

Leaf(operand) == [path \in {<<>>} |-> operand]

Node(sign, args) ==
    [path \in {<<>>} \cup UNION {{<<i>> \o p : p \in DOMAIN args[i]} : i \in DOMAIN args} |->
        IF path = <<>> THEN Sign(sign) ELSE args[Head(path)][Tail(path)]]

\* What stands for itself without a comparison: a Boolean or a symbol, never a
\* string or null.
StandsAlone(operand) == "bool" \in DOMAIN operand \/ IsSymbol(operand)

-----------------------------------------------------------------------------
(* The parser.  A call of it is a rule and the place of the token it starts   *)
(* at; `parse' maps the calls to their results: an expression and the place   *)
(* of the next token, or Fail.                                                *)

Read(expr, next) == [expr |-> expr, next |-> next]

Starts(t) == {"or", "and", "unary"} \X (1 .. Len(t) + 1)

At(t, i) == IF i <= Len(t) THEN t[i] ELSE Fail

\* A place where an operand must stand.
parse_operand(t, i) ==
    IF i <= Len(t) /\ IsOperand(t[i]) THEN Read(Leaf(t[i]), i + 1) ELSE Fail

\* A comparison or a bare operand, or an expression in parentheses.
parse_primary(t, i, parse) ==
    LET inner == parse[<<"or", i + 1>>]
        left  == parse_operand(t, i)
        right == parse_operand(t, i + 2)
        Against(sign) == IF right = Fail THEN Fail
                         ELSE Read(Node(sign, <<left.expr, right.expr>>), i + 3)
    IN  IF At(t, i) = Sign("(")
        THEN IF inner # Fail /\ At(t, inner.next) = Sign(")")
             THEN Read(inner.expr, inner.next + 1) ELSE Fail
        ELSE IF left = Fail THEN Fail
        ELSE IF At(t, i + 1) = Sign("==") THEN Against("==")
        ELSE IF At(t, i + 1) = Sign("!=") THEN Against("!=")
        ELSE IF StandsAlone(t[i]) THEN left ELSE Fail

parse_unary(t, i, parse) ==
    LET inner == parse[<<"unary", i + 1>>]
    IN  IF At(t, i) # Sign("!") THEN parse_primary(t, i, parse)
        ELSE IF inner = Fail THEN Fail ELSE Read(Node("!", <<inner.expr>>), inner.next)

\* A round of a loop: a further operand, to the right of what was read.
More(t, sign, rule, left, parse) ==
    LET right == parse[<<rule, left.next + 1>>]
    IN  IF left = Fail \/ At(t, left.next) # Sign(sign) THEN left
        ELSE IF right = Fail THEN Fail
        ELSE Read(Node(sign, <<left.expr, right.expr>>), right.next)

\* The loop, which no text keeps going for more rounds than it has tokens.
Loop(t, sign, rule, i, parse) ==
    LET round[n \in 0 .. Len(t)] ==
            IF n = 0 THEN parse[<<rule, i>>] ELSE More(t, sign, rule, round[n - 1], parse)
    IN  round[Len(t)]

parse_and(t, i, parse) == Loop(t, "&&", "unary", i, parse)
parse_or(t, i, parse) == Loop(t, "||", "and", i, parse)

Call(t, rule, i, parse) ==
    CASE rule = "or"    -> parse_or(t, i, parse)
      [] rule = "and"   -> parse_and(t, i, parse)
      [] rule = "unary" -> parse_unary(t, i, parse)

Parsed(t) ==
    LET parse[start \in Starts(t)] == Call(t, start[1], start[2], parse)
    IN  parse[<<"or", 1>>]

\* Broken variant: what follows the expression is ignored.
ReadPrefix(t) == IF Parsed(t) = Fail THEN Fail ELSE [expr |-> Parsed(t).expr]

parse_expression(t) ==
    IF Parsed(t) # Fail /\ Parsed(t).next = Len(t) + 1 THEN [expr |-> Parsed(t).expr] ELSE Fail

-----------------------------------------------------------------------------
(* The grammar, as a reference for the parser: the trees that the tokens from *)
(* one place up to another derive.                                            *)

Spans(t) == {"or", "and", "unary", "primary"} \X (1 .. Len(t) + 1) \X (1 .. Len(t) + 1)

Joined(sign, left, right) == {Node(sign, sides) : sides \in left \X right}

\* What stands on either side of a sign.
Split(t, left, sign, right, i, j, trees) ==
    UNION {Joined(sign, trees[<<left, i, k>>], trees[<<right, k + 1, j>>])
           : k \in {n \in i + 1 .. j - 2 : t[n] = Sign(sign)}}

Negated(t, i, j, trees) == {Node("!", <<e>>) : e \in trees[<<"unary", i + 1, j>>]}

Compared(t, i) ==
    {Node(sign, <<Leaf(t[i]), Leaf(t[i + 2])>>) : sign \in
        {s \in {"==", "!="} : IsOperand(t[i]) /\ t[i + 1] = Sign(s) /\ IsOperand(t[i + 2])}}

Bare(t, i) == {Leaf(operand) : operand \in {o \in {t[i]} : IsOperand(o) /\ StandsAlone(o)}}

Derives(t, rule, i, j, trees) ==
    CASE rule = "or" ->
            trees[<<"and", i, j>>] \cup Split(t, "or", "||", "and", i, j, trees)
      [] rule = "and" ->
            trees[<<"unary", i, j>>] \cup Split(t, "and", "&&", "unary", i, j, trees)
      [] rule = "unary" ->
            IF i < j /\ t[i] = Sign("!") THEN Negated(t, i, j, trees)
            ELSE trees[<<"primary", i, j>>]
      [] rule = "primary" ->
            IF i + 2 < j /\ t[i] = Sign("(") /\ t[j - 1] = Sign(")")
            THEN trees[<<"or", i + 1, j - 1>>]
            ELSE IF j = i + 3 THEN Compared(t, i) ELSE IF j = i + 1 THEN Bare(t, i) ELSE {}

Derived(t) ==
    LET trees[span \in Spans(t)] == Derives(t, span[1], span[2], span[3], trees)
    IN  trees[<<"or", 1, Len(t) + 1>>]

-----------------------------------------------------------------------------
(* What an expression says.  `values' maps its symbols to their values, Fail  *)
(* for one the world does not know.                                           *)

OperandSymbols(operand) == IF IsSymbol(operand) THEN {operand.ident} ELSE {}

\* Broken variant: an operation is about its left side.
LeftSymbols(e) ==
    UNION {OperandSymbols(e[path]) : path \in {p \in DOMAIN e : \A i \in DOMAIN p : p[i] = 1}}

symbols(e) == UNION {OperandSymbols(e[path]) : path \in DOMAIN e}

references_symbol(e, name) == name \in symbols(e)

\* An unknown symbol counts as null in a comparison, as false on its own.
resolve_operand_value(operand, values) ==
    IF ~IsSymbol(operand) THEN operand
    ELSE IF values[operand.ident] = Fail THEN Null ELSE values[operand.ident]

\* Whether an expression holds whose operands are known to have these values.
Says(e, valued) ==
    LET holds[path \in DOMAIN e] ==
            LET Value(i) == valued[Append(path, i)]
                Side(i)  == holds[Append(path, i)]
            IN  CASE e[path] = Sign("==") -> Value(1) = Value(2)
                  [] e[path] = Sign("!=") -> Value(1) # Value(2)
                  [] e[path] = Sign("&&") -> Side(1) /\ Side(2)
                  [] e[path] = Sign("||") -> Side(1) \/ Side(2)
                  [] e[path] = Sign("!")  -> ~Side(1)
                  [] OTHER                -> valued[path] = [bool |-> TRUE]
    IN  holds[<<>>]

evaluate_expression(e, values) ==
    Says(e, [path \in DOMAIN e |-> resolve_operand_value(e[path], values)])

-----------------------------------------------------------------------------
(* Requirements: a legacy name with an optional argument, or an expression. *)

CONSTANT MixedCase    \* the parts of names that hold a capital letter

\* The legacy requirements and whether they take an argument ("none" or
\* "optional"; the code also knows "required", which no signature uses).
REQUIREMENT_SIGNATURES ==
    [n \in {<<"object", s>> : s \in {"exists", "held", "not_held", "held_by_self",
                                      "held_by_other", "open", "closed",
                                      "opened_by_self", "opened_by_other"}}
           \cup {<<"world", "owned">>, <<"room", "in">>, <<"avatar", "present">>}
     |-> IF n = <<"room", "in">> THEN "optional" ELSE "none"]

CONTRADICTIONS ==
    {{<<"object", p[1]>>, <<"object", p[2]>>} :
        p \in {<<"held", "not_held">>, <<"open", "closed">>,
               <<"held_by_self", "held_by_other">>, <<"opened_by_self", "opened_by_other">>}}

\* A dotted name in lower case.
validate_legacy_name(name) ==
    Len(name) > 1 /\ \A i \in DOMAIN name : name[i] \notin MixedCase

\* Everything between the first parenthesis and a last one is the argument.
parse_legacy_requirement(t) ==
    IF t = <<>> \/ ~("ident" \in DOMAIN t[1]) \/ ~validate_legacy_name(t[1].ident) THEN Fail
    ELSE IF Len(t) = 1 THEN [name |-> t[1].ident, arg |-> <<>>]
    ELSE IF Len(t) > 3 /\ t[2] = Sign("(") /\ t[Len(t)] = Sign(")")
    THEN [name |-> t[1].ident, arg |-> SubSeq(t, 3, Len(t) - 1)]
    ELSE Fail

IsLegacy(spec) == "name" \in DOMAIN spec

\* RequirementSpec::parse: the legacy reading comes first.
ParseSpec(t) ==
    IF parse_legacy_requirement(t) # Fail THEN parse_legacy_requirement(t)
    ELSE parse_expression(t)

\* room.<something>.inbox, for the validation: longer than "room..inbox".
AllowedRoomInbox(name) ==
    /\ Len(name) > 2 /\ name[1] = "room" /\ name[Len(name)] = "inbox"
    /\ name # <<"room", "", "inbox">>

is_allowed_symbol(name) ==
    \/ name \in {<<"user">>, <<"owner">>, <<"location">>, <<"opened_by">>,
                 <<"world", "owner">>, <<"world", "slug">>, <<"inbox">>}
    \/ AllowedRoomInbox(name)
    \/ Len(name) > 1 /\ name[1] = "state"

\* One requirement is well formed: a known legacy name with a fitting argument,
\* or an expression over known symbols.
SpecValid(spec) ==
    IF IsLegacy(spec)
    THEN /\ spec.name \in DOMAIN REQUIREMENT_SIGNATURES
         /\ REQUIREMENT_SIGNATURES[spec.name] = "none" => spec.arg = <<>>
    ELSE \A name \in symbols(spec.expr) : is_allowed_symbol(name)

\* A list of requirements validates: each is well formed, and no two legacy
\* ones repeat or contradict each other.
validate_requirements(specs) ==
    /\ \A i \in DOMAIN specs : SpecValid(specs[i])
    /\ \A i, j \in DOMAIN specs :
          i < j /\ IsLegacy(specs[i]) /\ IsLegacy(specs[j])
          => /\ specs[i] # specs[j]
             /\ {specs[i].name, specs[j].name} \notin CONTRADICTIONS

-----------------------------------------------------------------------------
(* The checker of the world: ObjectRequirementRuntime.  `context' is what the  *)
(* call collected: [room, user, owner, location, opened_by, world_owner], an   *)
(* owner or opener nobody has being Null.                                      *)

\* room.<object>.inbox, for the world: a prefix, a suffix and an object between.
parse_room_inbox_symbol(name) ==
    IF Len(name) > 2 /\ name[1] = "room" /\ name[Len(name)] = "inbox"
    THEN SubSeq(name, 2, Len(name) - 1) ELSE <<"">>
IsRoomInbox(name) == parse_room_inbox_symbol(name) # <<"">>

RoomInboxOf(room) == [text |-> <<"room", room, "inbox">>]

resolve_symbol(context, name) ==
    CASE name = <<"user">>           -> context.user
      [] name = <<"owner">>          -> context.owner
      [] name = <<"location">>       -> context.location
      [] name = <<"opened_by">>      -> context.opened_by
      [] name = <<"world", "owner">> -> context.world_owner
      [] name = <<"world", "slug">>  -> [text |-> <<"ma">>]
      [] name = <<"inbox">>          -> RoomInboxOf(context.room)
      [] IsRoomInbox(name)           -> [text |-> name]
      [] Len(name) > 1 /\ name[1] = "state" -> Null
      [] OTHER -> Fail

\* Of the legacy names only three are ever true.
check_legacy_requirement(context, spec) ==
    \/ spec.name = <<"object", "opened_by_self">> /\ context.opened_by = context.user
    \/ spec.name = <<"world", "owned">> /\ context.world_owner = context.user
    \/ spec.name = <<"room", "in">> /\ spec.arg \in {<<>>, <<Ident(<<context.room>>)>>}

RequirementHolds(context, spec) ==
    IF IsLegacy(spec) THEN check_legacy_requirement(context, spec)
    ELSE evaluate_expression(spec.expr,
            [name \in symbols(spec.expr) |-> resolve_symbol(context, name)])

\* The whole list of a method: read, validated and evaluated; a list that does
\* not read or validate refuses the call.
evaluate_requirements(context, texts) ==
    LET specs == [i \in DOMAIN texts |-> ParseSpec(texts[i])]
    IN  /\ \A i \in DOMAIN specs : specs[i] # Fail
        /\ validate_requirements(specs)
        /\ \A i \in DOMAIN specs : RequirementHolds(context, specs[i])
=============================================================================
