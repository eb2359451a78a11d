---------------------------- MODULE ExpiringLine ----------------------------
(***************************************************************************)
(* What a TtlCache promises to those who use it: a line of entries, oldest  *)
(* first and the later written last among equals, with one entry per key.   *)
(* Entries may be lost at any call, as in any cache, but the line never     *)
(* changes otherwise than by a write, and whoever takes from an end of it   *)
(* gets the first entry from there that is young enough.                    *)
(***************************************************************************)
EXTENDS Integers, Sequences, FiniteSets, SequencesExt

CONSTANTS
    Keys, Values,
    Epochs,     \* the times that entries can be dated
    Ages,       \* the ages up to which callers take entries
    Forever,    \* an age above all others
    Nothing     \* no entry

VARIABLES
    line,   \* the entries, in order
    taken,  \* what the last call took out of the line, Nothing if it took none
    now     \* the clock

lineVars == <<line, taken, now>>

LineInit == line = <<>> /\ taken = Nothing /\ now = 0

\* The n-th place of P, and the entries there in their order.
Nth(P, n) == CHOOSE i \in P : Cardinality({j \in P : j < i}) = n - 1
At(P) == LET whole == line IN [n \in 1..Cardinality(P) |-> whole[Nth(P, n)]]

\* The line without the entries of other keys.
Of(S) == LET whole == line IN At({i \in DOMAIN whole : whole[i].key \in S})

\* The line of S with an entry put behind those that are as old or older.
Placed(S, e) == LET rest == Of(S) IN
    InsertAt(rest, Cardinality({i \in DOMAIN rest : rest[i].epoch <= e.epoch}) + 1, e)

Young(e, age) == now - e.epoch <= age

Write(k, v, epoch) ==
    /\ taken' = Nothing
    /\ \E S \in SUBSET (Keys \ {k}) : line' = Placed(S, [key |-> k, value |-> v, epoch |-> epoch])
    /\ UNCHANGED now

\* What is written anew keeps its value.
Renew(k) == \E i \in DOMAIN line : line[i].key = k /\ Write(k, line[i].value, now)

Change(k, v) ==
    /\ taken' = Nothing
    /\ \E i \in DOMAIN line : line[i].key = k
    /\ \E S \in SUBSET Keys : LET rest == Of(S) IN
        line' = [i \in DOMAIN rest |-> IF rest[i].key = k THEN [rest[i] EXCEPT !.value = v]
                                                          ELSE rest[i]]
    /\ UNCHANGED now

Lose ==
    /\ taken' = Nothing
    /\ \E S \in SUBSET Keys : line' = Of(S)
    /\ UNCHANGED now

Take(k) ==
    /\ \E i \in DOMAIN line : line[i].key = k /\ taken' = [age |-> Forever, entry |-> line[i]]
    /\ \E S \in SUBSET (Keys \ {k}) : line' = Of(S)
    /\ UNCHANGED now

\* The n-th entry of what a call finds in the line is taken.
TakeAt(S, n, age) ==
    LET e == Of(S)[n] IN
    /\ taken' = [age |-> age, entry |-> e]
    /\ Young(e, age)
    /\ line' = Of(S \ {e.key})
    /\ UNCHANGED now

TakeFirst(age) == \E S \in SUBSET Keys : LET rest == Of(S) IN \E n \in DOMAIN rest :
    TakeAt(S, n, age) /\ \A j \in 1..(n - 1) : ~ Young(rest[j], age)

TakeLast(age) == \E S \in SUBSET Keys : LET rest == Of(S) IN \E n \in DOMAIN rest :
    TakeAt(S, n, age) /\ \A j \in (n + 1)..Len(rest) : ~ Young(rest[j], age)

Pass == now' > now /\ UNCHANGED <<line, taken>>

LineNext ==
    \/ Lose \/ Pass
    \/ \E k \in Keys, v \in Values : Change(k, v) \/ (\E epoch \in Epochs : Write(k, v, epoch))
    \/ \E k \in Keys : Renew(k) \/ Take(k)
    \/ \E age \in Ages \cup {Forever} : TakeFirst(age) \/ TakeLast(age)

LineSpec == LineInit /\ [][LineNext]_lineVars

=============================================================================
