----------------------------- MODULE Core_proofs -----------------------------
(***************************************************************************)
(* Theorems about what the world takes from ma-core.                        *)
(*                                                                          *)
(* The rules of capability lists (AclSamples), for any characters, lengths  *)
(* and lists: the matching loop and what a pattern denotes are both         *)
(* recursions over finite sets of places whose measure falls at each step,  *)
(* so each has a solution; a least counterexample then shows that the loop, *)
(* from every place it can be in, says yes exactly when the pattern fits    *)
(* from there or its last star can stand for more.  Lists follow from that. *)
(*                                                                          *)
(* The requirement language (RuleSamples), for any tokens, lengths and      *)
(* names: the parser's calls and the grammar's trees are such recursions    *)
(* too.  Each call reads only trees of the grammar and finds every tree     *)
(* that ends where the text goes on otherwise, so a text has no tree or     *)
(* the one that is read; an expression says the same wherever the symbols   *)
(* it is said to be about have the same values.                             *)
(*                                                                          *)
(* The cache (TtlCache), for any keys, values, ages and capacities and      *)
(* whatever moka chooses to evict: it keeps its type, the three structures  *)
(* and moka's keep telling of the same entries, entries that are young      *)
(* stay, and every call is a step of the line of entries that ExpiringLine  *)
(* describes.                                                               *)
(***************************************************************************)
EXTENDS TtlCache, RuleSamples, FiniteSetTheorems, NaturalsInduction, WellFoundedInduction, TLAPS

-----------------------------------------------------------------------------
(* Recursion over a measured set                                             *)

LEMMA LeastNumber ==
    ASSUME NEW S, S \subseteq Nat, S # {}
    PROVE  \E m \in S : \A j \in S : m <= j
<1>1. PICK m \in S : \A j \in S : ~ (<<j, m>> \in OpToRel(<, Nat))
  BY NatLessThanWellFounded, WFMin
<1>2. ASSUME NEW j \in S PROVE m <= j
  <2>1. ~ (j < m)
    BY <1>1 DEF OpToRel
  <2> QED BY <2>1
<1> QED BY <1>2

\* A recursion over S, whose step D at a place uses only the values at places of
\* lower measure, has a solution.
Solves(S, m, D, f, n) == \A x \in S : m[x] < n => f[x] = D[x][f]

LEMMA Recursion ==
    ASSUME NEW S, NEW V, NEW any \in V, NEW m \in [S -> Nat], NEW D \in [S -> [[S -> V] -> V]],
           \A x \in S : \A f, g \in [S -> V] :
                (\A y \in S : m[y] < m[x] => f[y] = g[y]) => D[x][f] = D[x][g],
           NEW n \in Nat
    PROVE  \E f \in [S -> V] : Solves(S, m, D, f, n)
<1> DEFINE Bad == {k \in Nat : ~ \E f \in [S -> V] : Solves(S, m, D, f, k)}
<1> SUFFICES ASSUME Bad # {} PROVE FALSE
  OBVIOUS
<1>1. PICK k \in Bad : \A j \in Bad : k <= j
  BY LeastNumber
<1>2. k # 0
  <2>2. [x \in S |-> any] \in [S -> V]
    OBVIOUS
  <2>3. Solves(S, m, D, [x \in S |-> any], 0)
    BY DEF Solves
  <2> QED BY <2>2, <2>3
<1>3. PICK f \in [S -> V] : Solves(S, m, D, f, k - 1)
  BY <1>1, <1>2
<1> DEFINE g == [x \in S |-> D[x][f]]
<1>4. g \in [S -> V]
  OBVIOUS
<1>5. ASSUME NEW x \in S, m[x] < k
      PROVE  g[x] = D[x][g]
  <2>1. \A y \in S : m[y] < m[x] => f[y] = g[y]
    BY <1>3, <1>5, <1>2 DEF Solves
  <2> HIDE DEF g
  <2>2. D[x][f] = D[x][g]
    BY <2>1, <1>4
  <2> QED BY <2>2 DEF g
<1> QED BY <1>4, <1>5 DEF Solves

-----------------------------------------------------------------------------
(* What a pattern denotes                                                    *)

IsText(s) == Len(s) \in Nat
Pairs(p, v) == (1 .. Len(p) + 1) \X (1 .. Len(v) + 1)

DenotesStep(p, v, f, at) ==
    \/ at[1] > Len(p) /\ at[2] > Len(v)
    \/ at[1] <= Len(p) /\ p[at[1]] = "*" /\ \E k \in at[2] .. Len(v) + 1 : f[<<at[1] + 1, k>>]
    \/ /\ at[1] <= Len(p) /\ at[2] <= Len(v) /\ p[at[1]] # "*" /\ p[at[1]] = v[at[2]]
       /\ f[<<at[1] + 1, at[2] + 1>>]

LEMMA DenotesUnfolded ==
    \A p, v, f, i, j : DenotesStep(p, v, f, <<i, j>>) <=>
        \/ i > Len(p) /\ j > Len(v)
        \/ i <= Len(p) /\ p[i] = "*" /\ \E k \in j .. Len(v) + 1 : f[<<i + 1, k>>]
        \/ /\ i <= Len(p) /\ j <= Len(v) /\ p[i] # "*" /\ p[i] = v[j]
           /\ f[<<i + 1, j + 1>>]
<1> SUFFICES ASSUME NEW p, NEW v, NEW f, NEW i, NEW j
             PROVE  DenotesStep(p, v, f, <<i, j>>) <=>
                        \/ i > Len(p) /\ j > Len(v)
                        \/ i <= Len(p) /\ p[i] = "*" /\ \E k \in j .. Len(v) + 1 : f[<<i + 1, k>>]
                        \/ /\ i <= Len(p) /\ j <= Len(v) /\ p[i] # "*" /\ p[i] = v[j]
                           /\ f[<<i + 1, j + 1>>]
  OBVIOUS
<1> QED BY DEF DenotesStep

DenotesSolved(p, v, f) == f = [at \in Pairs(p, v) |-> DenotesStep(p, v, f, at)]

LEMMA DenotesSolvable ==
    ASSUME NEW p, NEW v, IsText(p), IsText(v)
    PROVE  \E f \in [Pairs(p, v) -> BOOLEAN] : DenotesSolved(p, v, f)
<1> DEFINE S == Pairs(p, v)
           F == [S -> BOOLEAN]
           m == [at \in S |-> Len(p) + 1 - at[1]]
           D == [at \in S |-> [f \in F |-> DenotesStep(p, v, f, at)]]
<1>1. m \in [S -> Nat]
  BY DEF Pairs, IsText
<1>2. D \in [S -> [F -> BOOLEAN]]
  <2>1. \A at \in S, f \in F : DenotesStep(p, v, f, at) \in BOOLEAN
    BY DEF DenotesStep
  <2> QED BY <2>1
<1>3. ASSUME NEW at \in S, NEW f \in F, NEW g \in F,
             \A y \in S : m[y] < m[at] => f[y] = g[y]
      PROVE  DenotesStep(p, v, f, at) = DenotesStep(p, v, g, at)
  <2>1. PICK i \in 1 .. Len(p) + 1, j \in 1 .. Len(v) + 1 : at = <<i, j>>
    BY DEF Pairs
  <2>2. ASSUME i <= Len(p), NEW k \in 1 .. Len(v) + 1
        PROVE  f[<<i + 1, k>>] = g[<<i + 1, k>>]
    <3>1. <<i + 1, k>> \in S
      BY <2>2 DEF Pairs, IsText
    <3>2. m[<<i + 1, k>>] < m[at]
      BY <2>1, <2>2, <3>1 DEF IsText
    <3> QED BY <1>3, <3>1, <3>2
  <2>3. i <= Len(p) => \A k \in j .. Len(v) + 1 : f[<<i + 1, k>>] = g[<<i + 1, k>>]
    BY <2>2 DEF IsText
  <2>4. i <= Len(p) /\ j <= Len(v) => f[<<i + 1, j + 1>>] = g[<<i + 1, j + 1>>]
    BY <2>2 DEF IsText
  <2>5. at[1] = i /\ at[2] = j
    BY <2>1
  <2> QED BY <2>5, <2>3, <2>4 DEF DenotesStep, IsText
<1>4. \A at \in S : \A f, g \in F :
          (\A y \in S : m[y] < m[at] => f[y] = g[y]) => D[at][f] = D[at][g]
  <2> HIDE DEF m, F, S
  <2> QED BY <1>3
<1>5. \A at \in S : m[at] < Len(p) + 1
  BY DEF Pairs, IsText
<1>6. Len(p) + 1 \in Nat /\ TRUE \in BOOLEAN
  BY DEF IsText
<1>7. PICK f \in F : Solves(S, m, D, f, Len(p) + 1)
  <2> HIDE DEF m, D, S
  <2> QED BY <1>1, <1>2, <1>4, <1>6, Recursion
<1>8. \A at \in S : f[at] = DenotesStep(p, v, f, at)
  <2>1. \A at \in S : f[at] = D[at][f]
    <3> HIDE DEF m, D, S
    <3> QED BY <1>5, <1>7 DEF Solves
  <2> QED BY <2>1
<1> QED BY <1>8 DEF DenotesSolved

Denoted(p, v) == CHOOSE f : DenotesSolved(p, v, f)

LEMMA DenotesIs ==
    ASSUME NEW p, NEW v, IsText(p), IsText(v)
    PROVE  /\ Denotes(p, v) = Denoted(p, v)[<<1, 1>>]
           /\ \A i \in 1 .. Len(p) + 1, j \in 1 .. Len(v) + 1 :
                Denoted(p, v)[<<i, j>>] = DenotesStep(p, v, Denoted(p, v), <<i, j>>)
           /\ Denoted(p, v) \in [Pairs(p, v) -> BOOLEAN]
<1>1. Denotes(p, v) = Denoted(p, v)[<<1, 1>>]
  BY DEF Denotes, Denoted, DenotesSolved, DenotesStep, Pairs
<1>2. DenotesSolved(p, v, Denoted(p, v))
  BY DenotesSolvable DEF Denoted
<1> DEFINE f == Denoted(p, v)
<1>3. f = [at \in Pairs(p, v) |-> DenotesStep(p, v, f, at)]
  BY <1>2 DEF DenotesSolved
<1> HIDE DEF f
<1>4. \A at \in Pairs(p, v) : DenotesStep(p, v, f, at) \in BOOLEAN
  BY DEF DenotesStep
<1>5. f \in [Pairs(p, v) -> BOOLEAN]
  BY <1>3, <1>4
<1>6. \A at \in Pairs(p, v) : f[at] = DenotesStep(p, v, f, at)
  BY <1>3
<1>7. \A i \in 1 .. Len(p) + 1, j \in 1 .. Len(v) + 1 : <<i, j>> \in Pairs(p, v)
  BY DEF Pairs
<1> QED BY <1>1, <1>5, <1>6, <1>7 DEF f

-----------------------------------------------------------------------------
(* The matching loop                                                         *)

GlobStep(p, v, f, at) ==
    \/ at.val > Len(v) /\ OnlyStarsLeft(p, at.pat)
    \/ Same(p, v, at) /\ f[Cursor(at.pat + 1, at.val + 1, at.star, at.back)]
    \/ Star(p, v, at) /\ f[Cursor(at.pat + 1, at.val, at.pat, at.val)]
    \/ /\ Stuck(p, v, at) /\ at.star > 0
       /\ f[Cursor(at.star + 1, at.back + 1, at.star, at.back + 1)]

GlobSolved(p, v, f) == f = [at \in Cursors(p, v) |-> GlobStep(p, v, f, at)]

\* Where it goes on.
Both(at) == Cursor(at.pat + 1, at.val + 1, at.star, at.back)
Starred(at) == Cursor(at.pat + 1, at.val, at.pat, at.val)
Again(at) == Cursor(at.star + 1, at.back + 1, at.star, at.back + 1)

LEMMA GlobCases ==
    ASSUME NEW p, NEW v, IsText(p), IsText(v), NEW f, NEW at \in Cursors(p, v)
    PROVE  /\ at.val > Len(v) => GlobStep(p, v, f, at) = OnlyStarsLeft(p, at.pat)
           /\ Same(p, v, at) => (GlobStep(p, v, f, at) <=> f[Both(at)])
           /\ Star(p, v, at) => (GlobStep(p, v, f, at) <=> f[Starred(at)])
           /\ Stuck(p, v, at) /\ at.star > 0 => (GlobStep(p, v, f, at) <=> f[Again(at)])
           /\ Stuck(p, v, at) /\ ~ (at.star > 0) => ~ GlobStep(p, v, f, at)
           /\ at.val > Len(v) \/ Same(p, v, at) \/ Star(p, v, at) \/ Stuck(p, v, at)
<1>1. at.val \in Nat /\ at.pat \in Nat /\ Len(v) \in Nat /\ Len(p) \in Nat
  BY DEF Cursors, IsText
<1> QED BY <1>1 DEF GlobStep, Same, Star, Stuck, Both, Starred, Again, OnlyStarsLeft

LEMMA CursorThere ==
    ASSUME NEW p, NEW v, IsText(p), IsText(v), NEW i \in 1 .. Len(p) + 1, NEW j \in 1 .. Len(v) + 1,
           NEW star \in 0 .. Len(p), NEW back \in 1 .. Len(v) + 1, back <= j
    PROVE  /\ Cursor(i, j, star, back) \in Cursors(p, v)
           /\ Cursor(i, j, star, back).pat = i /\ Cursor(i, j, star, back).val = j
           /\ Cursor(i, j, star, back).star = star /\ Cursor(i, j, star, back).back = back
BY DEF Cursor, Cursors

\* How much is left to try: the value behind the last star, then the pattern.
Left(p, v, at) == (Len(v) + 1 - at.back) * (Len(p) + 2) + (Len(p) + 1 - at.pat)

LEMMA Product ==
    ASSUME NEW a \in Nat, NEW b \in Nat, NEW k \in Nat, a < b
    PROVE  a * k \in Nat /\ b * k \in Nat /\ a * k + k <= b * k
OBVIOUS

LEMMA Steps ==
    ASSUME NEW p, NEW v, IsText(p), IsText(v), NEW at \in Cursors(p, v)
    PROVE  /\ Left(p, v, at) \in Nat
           /\ Left(p, v, at) <= (Len(v) + 1) * (Len(p) + 2)
           /\ Same(p, v, at) =>
                Both(at) \in Cursors(p, v) /\ Left(p, v, Both(at)) < Left(p, v, at)
           /\ Star(p, v, at) =>
                Starred(at) \in Cursors(p, v) /\ Left(p, v, Starred(at)) < Left(p, v, at)
           /\ Stuck(p, v, at) /\ at.star > 0 =>
                Again(at) \in Cursors(p, v) /\ Left(p, v, Again(at)) < Left(p, v, at)
<1> DEFINE n == Len(p)
           w == Len(v)
           k == Len(p) + 2
           L(b, i) == (w + 1 - b) * k + (n + 1 - i)
<1>1. n \in Nat /\ w \in Nat /\ k \in Nat /\ k = n + 2
  BY DEF IsText
<1>2. /\ at.pat \in 1 .. n + 1 /\ at.val \in 1 .. w + 1
      /\ at.star \in 0 .. n /\ at.back \in 1 .. w + 1 /\ at.back <= at.val
  BY DEF Cursors
<1> HIDE DEF n, w, k
<1>3. \A b \in 1 .. w + 1, i \in 1 .. n + 1 : L(b, i) \in Nat /\ L(b, i) <= (w + 1) * k
  <2> SUFFICES ASSUME NEW b \in 1 .. w + 1, NEW i \in 1 .. n + 1
               PROVE  L(b, i) \in Nat /\ L(b, i) <= (w + 1) * k
    OBVIOUS
  <2> DEFINE c == w + 1 - b
  <2>1. c \in Nat /\ w + 1 \in Nat /\ c < w + 1
    BY <1>1
  <2> HIDE DEF c
  <2>2. c * k \in Nat /\ (w + 1) * k \in Nat /\ c * k + k <= (w + 1) * k
    BY <2>1, <1>1, Product
  <2>3. c * k + (n + 1 - i) \in Nat /\ c * k + (n + 1 - i) <= (w + 1) * k
    BY <2>2, <1>1
  <2> QED BY <2>3 DEF c
<1>4. ASSUME NEW b \in 1 .. w + 1, NEW i \in 1 .. n + 1, NEW c \in 1 .. w + 1, NEW j \in 1 .. n + 1,
             b < c \/ (b = c /\ i < j)
      PROVE  L(c, j) < L(b, i)
  <2>1. CASE b = c /\ i < j
    <3> DEFINE x == (w + 1 - b) * k
    <3>1. x \in Int
      BY <1>1
    <3> HIDE DEF x
    <3>2. x + (n + 1 - j) < x + (n + 1 - i)
      BY <2>1, <3>1, <1>1
    <3> QED BY <3>2, <2>1 DEF x
  <2>2. CASE b < c
    <3> DEFINE x == w + 1 - b
               y == w + 1 - c
    <3>1. x \in Nat /\ y \in Nat /\ y < x
      BY <1>1, <2>2
    <3> HIDE DEF x, y
    <3>2. y * k \in Nat /\ x * k \in Nat /\ y * k + k <= x * k
      BY <3>1, <1>1, Product
    <3>3. y * k + (n + 1 - j) < x * k + (n + 1 - i)
      BY <3>2, <1>1
    <3> QED BY <3>3 DEF x, y
  <2> QED BY <1>4, <2>1, <2>2
<1>5. \A x \in Cursors(p, v) : Left(p, v, x) = L(x.back, x.pat)
  BY DEF Left, n, w, k
<1> HIDE DEF L
<1>6. Same(p, v, at) => /\ Both(at) \in Cursors(p, v)
                           /\ Both(at).back = at.back /\ Both(at).pat = at.pat + 1
  <2> SUFFICES ASSUME Same(p, v, at)
               PROVE  Both(at) \in Cursors(p, v) /\ Both(at).back = at.back /\ Both(at).pat = at.pat + 1
    OBVIOUS
  <2>1. at.pat + 1 \in 1 .. n + 1 /\ at.val + 1 \in 1 .. w + 1 /\ at.back <= at.val + 1
    <3>1. at.val <= w /\ at.pat <= n
      BY <1>1 DEF Same, n, w
    <3> QED BY <3>1, <1>1, <1>2
  <2>2. /\ at.pat + 1 \in 1 .. Len(p) + 1 /\ at.val + 1 \in 1 .. Len(v) + 1
        /\ at.star \in 0 .. Len(p) /\ at.back \in 1 .. Len(v) + 1 /\ at.back <= at.val + 1
    BY <2>1, <1>2 DEF n, w
  <2>3. /\ Cursor(at.pat + 1, at.val + 1, at.star, at.back) \in Cursors(p, v)
        /\ Cursor(at.pat + 1, at.val + 1, at.star, at.back).back = at.back
        /\ Cursor(at.pat + 1, at.val + 1, at.star, at.back).pat = at.pat + 1
    BY <2>2, CursorThere
  <2> QED BY <2>3 DEF Both
<1>7. Star(p, v, at) => /\ Starred(at) \in Cursors(p, v)
                            /\ Starred(at).back = at.val /\ Starred(at).pat = at.pat + 1
  <2> SUFFICES ASSUME Star(p, v, at)
               PROVE  Starred(at) \in Cursors(p, v) /\ Starred(at).back = at.val /\ Starred(at).pat = at.pat + 1
    OBVIOUS
  <2>1. at.pat + 1 \in 1 .. n + 1 /\ at.pat \in 0 .. n /\ at.val <= at.val
    <3>1. at.val <= w /\ at.pat <= n
      BY <1>1 DEF Star, n, w
    <3> QED BY <3>1, <1>1, <1>2
  <2>2. /\ at.pat + 1 \in 1 .. Len(p) + 1 /\ at.val \in 1 .. Len(v) + 1
        /\ at.pat \in 0 .. Len(p) /\ at.val \in 1 .. Len(v) + 1 /\ at.val <= at.val
    BY <2>1, <1>2 DEF n, w
  <2>3. /\ Cursor(at.pat + 1, at.val, at.pat, at.val) \in Cursors(p, v)
        /\ Cursor(at.pat + 1, at.val, at.pat, at.val).back = at.val
        /\ Cursor(at.pat + 1, at.val, at.pat, at.val).pat = at.pat + 1
    BY <2>2, CursorThere
  <2> QED BY <2>3 DEF Starred
<1>8. Stuck(p, v, at) /\ at.star > 0 =>
          Again(at) \in Cursors(p, v) /\ Again(at).back = at.back + 1
  <2> SUFFICES ASSUME Stuck(p, v, at)
               PROVE  Again(at) \in Cursors(p, v) /\ Again(at).back = at.back + 1
    OBVIOUS
  <2>1. at.star + 1 \in 1 .. n + 1 /\ at.back + 1 \in 1 .. w + 1 /\ at.back + 1 <= at.back + 1
    <3>1. at.val <= w
      BY <1>1 DEF Stuck, n, w
    <3> QED BY <3>1, <1>1, <1>2
  <2>2. /\ at.star + 1 \in 1 .. Len(p) + 1 /\ at.back + 1 \in 1 .. Len(v) + 1
        /\ at.star \in 0 .. Len(p) /\ at.back + 1 \in 1 .. Len(v) + 1 /\ at.back + 1 <= at.back + 1
    BY <2>1, <1>2 DEF n, w
  <2>3. /\ Cursor(at.star + 1, at.back + 1, at.star, at.back + 1) \in Cursors(p, v)
        /\ Cursor(at.star + 1, at.back + 1, at.star, at.back + 1).back = at.back + 1
        /\ Cursor(at.star + 1, at.back + 1, at.star, at.back + 1).pat = at.star + 1
    BY <2>2, CursorThere
  <2> QED BY <2>3 DEF Again
<1>9. \A x \in Cursors(p, v) : x.back \in 1 .. w + 1 /\ x.pat \in 1 .. n + 1
  BY DEF Cursors, n, w
<1>10. \A x \in Cursors(p, v) : at.back < x.back \/ (at.back = x.back /\ at.pat < x.pat)
            => Left(p, v, x) < Left(p, v, at)
  BY <1>4, <1>5, <1>9
<1>11. Same(p, v, at) => Left(p, v, Both(at)) < Left(p, v, at)
  BY <1>1, <1>2, <1>6, <1>10
<1>12. Star(p, v, at) => Left(p, v, Starred(at)) < Left(p, v, at)
  BY <1>1, <1>2, <1>7, <1>10
<1>13. Stuck(p, v, at) /\ at.star > 0 => Left(p, v, Again(at)) < Left(p, v, at)
  <2> SUFFICES ASSUME Stuck(p, v, at), at.star > 0 PROVE Left(p, v, Again(at)) < Left(p, v, at)
    OBVIOUS
  <2>1. at.back < Again(at).back /\ Again(at) \in Cursors(p, v)
    BY <1>1, <1>2, <1>8
  <2> QED BY <2>1, <1>10
<1>14. Left(p, v, at) \in Nat /\ Left(p, v, at) <= (Len(v) + 1) * (Len(p) + 2)
  BY <1>2, <1>3, <1>5 DEF n, w, k
<1> QED BY <1>6, <1>7, <1>8, <1>11, <1>12, <1>13, <1>14

LEMMA GlobSolvable ==
    ASSUME NEW p, NEW v, IsText(p), IsText(v)
    PROVE  \E f \in [Cursors(p, v) -> BOOLEAN] : GlobSolved(p, v, f)
<1> DEFINE S == Cursors(p, v)
           F == [S -> BOOLEAN]
           m == [at \in S |-> Left(p, v, at)]
           D == [at \in S |-> [f \in F |-> GlobStep(p, v, f, at)]]
           bound == (Len(v) + 1) * (Len(p) + 2)
<1>1. m \in [S -> Nat]
  BY Steps
<1>2. D \in [S -> [F -> BOOLEAN]]
  <2>1. \A at \in S, f \in F : GlobStep(p, v, f, at) \in BOOLEAN
    BY DEF GlobStep
  <2> QED BY <2>1
<1>3. ASSUME NEW at \in S, NEW f \in F, NEW g \in F,
             \A y \in S : m[y] < m[at] => f[y] = g[y]
      PROVE  GlobStep(p, v, f, at) = GlobStep(p, v, g, at)
  <2>1. \A y \in S : Left(p, v, y) < Left(p, v, at) => f[y] = g[y]
    BY <1>3
  <2>2. /\ Same(p, v, at) => f[Both(at)] = g[Both(at)]
        /\ Star(p, v, at) => f[Starred(at)] = g[Starred(at)]
        /\ Stuck(p, v, at) /\ at.star > 0 => f[Again(at)] = g[Again(at)]
    BY <2>1, Steps
  <2> QED BY <2>2 DEF GlobStep, Both, Starred, Again
<1>4. \A at \in S : \A f, g \in F :
          (\A y \in S : m[y] < m[at] => f[y] = g[y]) => D[at][f] = D[at][g]
  <2> HIDE DEF m, F, S
  <2> QED BY <1>3
<1>5. bound \in Nat
  <2>1. Len(p) \in Nat /\ Len(v) \in Nat
    BY DEF IsText
  <2> QED BY <2>1, Product
<1>6. \A at \in S : m[at] < bound + 1
  <2>1. \A at \in S : m[at] <= bound /\ m[at] \in Nat
    BY <1>1, Steps
  <2> HIDE DEF m, S, bound
  <2> QED BY <2>1, <1>5
<1>7. PICK f \in F : Solves(S, m, D, f, bound + 1)
  <2>1. bound + 1 \in Nat /\ TRUE \in BOOLEAN
    BY <1>5
  <2> HIDE DEF m, D, S, bound
  <2> QED BY <1>1, <1>2, <1>4, <2>1, Recursion
<1>8. \A at \in S : f[at] = GlobStep(p, v, f, at)
  <2>1. \A at \in S : f[at] = D[at][f]
    <3> HIDE DEF m, D, S, bound
    <3> QED BY <1>6, <1>7 DEF Solves
  <2> QED BY <2>1
<1> QED BY <1>8 DEF GlobSolved

Globbed(p, v) == CHOOSE f : GlobSolved(p, v, f)

LEMMA GlobIs ==
    ASSUME NEW p, NEW v, IsText(p), IsText(v)
    PROVE  /\ capability_pattern_matches(p, v) = Globbed(p, v)[Cursor(1, 1, 0, 1)]
           /\ \A at \in Cursors(p, v) : Globbed(p, v)[at] = GlobStep(p, v, Globbed(p, v), at)
<1>1. capability_pattern_matches(p, v) = Globbed(p, v)[Cursor(1, 1, 0, 1)]
  BY DEF capability_pattern_matches, Globbed, GlobSolved, GlobStep
<1>2. GlobSolved(p, v, Globbed(p, v))
  BY GlobSolvable DEF Globbed
<1> DEFINE f == Globbed(p, v)
<1>3. f = [at \in Cursors(p, v) |-> GlobStep(p, v, f, at)]
  BY <1>2 DEF GlobSolved
<1> HIDE DEF f
<1>4. \A at \in Cursors(p, v) : f[at] = GlobStep(p, v, f, at)
  BY <1>3
<1> QED BY <1>1, <1>4 DEF f

-----------------------------------------------------------------------------
(* The loop finds what the pattern denotes                                   *)

\* What starts at a run of characters goes on behind it.
LEMMA RunKept ==
    ASSUME NEW p, NEW v, IsText(p), IsText(v), NEW i \in 1 .. Len(p) + 1, NEW k \in 1 .. Len(v) + 1,
           NEW n \in Nat, i + n <= Len(p) + 1, \A x \in 0 .. n - 1 : p[i + x] # "*",
           Denoted(p, v)[<<i, k>>]
    PROVE  k + n <= Len(v) + 1 /\ Denoted(p, v)[<<i + n, k + n>>]
<1> DEFINE g == Denoted(p, v)
           Bad == {x \in 0 .. n : ~ (k + x <= Len(v) + 1 /\ g[<<i + x, k + x>>])}
<1>1. Len(p) \in Nat /\ Len(v) \in Nat
  BY DEF IsText
<1>2. \A a \in 1 .. Len(p) + 1, b \in 1 .. Len(v) + 1 : g[<<a, b>>] = DenotesStep(p, v, g, <<a, b>>)
  BY DenotesIs
<1>3. i + 0 = i /\ k + 0 = k /\ g[<<i, k>>] /\ k <= Len(v) + 1
  BY <1>1
<1> HIDE DEF g
<1>4. Bad = {}
  <2> SUFFICES ASSUME Bad # {} PROVE FALSE
    OBVIOUS
  <2>1. PICK x \in Bad : \A y \in Bad : x <= y
    <3>1. Bad \subseteq Nat
      OBVIOUS
    <3> HIDE DEF Bad
    <3> QED BY <3>1, LeastNumber
  <2>2. x \in 0 .. n /\ ~ (k + x <= Len(v) + 1 /\ g[<<i + x, k + x>>])
    BY <2>1
  <2>3. \A y \in 0 .. n : y \notin Bad => k + y <= Len(v) + 1 /\ g[<<i + y, k + y>>]
    OBVIOUS
  <2> HIDE DEF Bad
  <2>4. x # 0
    BY <2>2, <1>3
  <2> DEFINE y == x - 1
             a == i + y
             b == k + y
  <2>5. y \in 0 .. n - 1 /\ y \in 0 .. n /\ ~ (x <= y) /\ y + 1 = x
    BY <2>2, <2>4
  <2>6. b <= Len(v) + 1 /\ g[<<a, b>>]
    <3>1. y \notin Bad
      BY <2>1, <2>5
    <3> QED BY <2>3, <2>5, <3>1
  <2>7. p[a] # "*"
    BY <2>5
  <2> HIDE DEF y
  <2>8. a \in 1 .. Len(p) /\ b \in 1 .. Len(v) + 1 /\ a + 1 = i + x /\ b + 1 = k + x
    <3>1. y \in Nat /\ x = y + 1 /\ i \in Nat /\ k \in Nat /\ y < n
      BY <2>5, <1>1
    <3>2. b \in 1 .. Len(v) + 1
      BY <2>6, <3>1, <1>1
    <3>3. a \in 1 .. Len(p)
      BY <3>1, <1>1
    <3>4. a + 1 = i + x /\ b + 1 = k + x
      BY <3>1
    <3> QED BY <3>2, <3>3, <3>4
  <2> HIDE DEF a, b
  <2>9. DenotesStep(p, v, g, <<a, b>>)
    <3>1. a \in 1 .. Len(p) + 1
      BY <2>8, <1>1
    <3> QED BY <2>6, <2>8, <3>1, <1>2
  <2>10. b <= Len(v) /\ g[<<a + 1, b + 1>>]
    <3>1. ~ (a > Len(p))
      BY <2>8, <1>1
    <3> QED BY <2>7, <2>9, <3>1, DenotesUnfolded
  <2>11. k + x <= Len(v) + 1
    BY <2>8, <2>10, <1>1
  <2> QED BY <2>2, <2>8, <2>10, <2>11
<1>5. n \in 0 .. n
  OBVIOUS
<1>6. n \notin Bad
  <2> HIDE DEF Bad
  <2> QED BY <1>4
<1> QED BY <1>5, <1>6 DEF g

\* Where the value is used up, stars are all that is left.
LEMMA OnlyStars ==
    ASSUME NEW p, NEW v, IsText(p), IsText(v), NEW i \in 1 .. Len(p) + 1
    PROVE  Denoted(p, v)[<<i, Len(v) + 1>>] <=> OnlyStarsLeft(p, i)
<1> DEFINE g == Denoted(p, v)
           w == Len(v) + 1
           n == Len(p) + 1
           Bad == {x \in 0 .. Len(p) : ~ (g[<<n - x, w>>] <=> OnlyStarsLeft(p, n - x))}
<1>1. Len(p) \in Nat /\ Len(v) \in Nat /\ w \in 1 .. w /\ n = Len(p) + 1
  BY DEF IsText
<1>2. \A a \in 1 .. n : g[<<a, w>>] = DenotesStep(p, v, g, <<a, w>>)
  BY DenotesIs, <1>1
<1>3. \A a \in 1 .. n : DenotesStep(p, v, g, <<a, w>>) <=>
            a > Len(p) \/ (p[a] = "*" /\ g[<<a + 1, w>>])
  <2> SUFFICES ASSUME NEW a \in 1 .. n
               PROVE  DenotesStep(p, v, g, <<a, w>>) <=> a > Len(p) \/ (p[a] = "*" /\ g[<<a + 1, w>>])
    OBVIOUS
  <2>1. \A k : k \in w .. w <=> k = w
    BY <1>1
  <2>2. w > Len(v) /\ ~ (w <= Len(v)) /\ Len(v) + 1 = w
    BY <1>1
  <2>3. a <= Len(p) <=> ~ (a > Len(p))
    BY <1>1
  <2> HIDE DEF g, w
  <2>4. DenotesStep(p, v, g, <<a, w>>) <=>
            \/ a > Len(p) /\ w > Len(v)
            \/ a <= Len(p) /\ p[a] = "*" /\ \E k \in w .. Len(v) + 1 : g[<<a + 1, k>>]
            \/ /\ a <= Len(p) /\ w <= Len(v) /\ p[a] # "*" /\ p[a] = v[w]
               /\ g[<<a + 1, w + 1>>]
    BY DenotesUnfolded
  <2>6. w .. Len(v) + 1 = w .. w
    BY <2>2
  <2>5. (\E k \in w .. w : g[<<a + 1, k>>]) <=> g[<<a + 1, w>>]
    BY <2>1
  <2> QED BY <2>2, <2>3, <2>4, <2>5, <2>6
<1> HIDE DEF g, w, n
<1>4. OnlyStarsLeft(p, n)
  BY <1>1 DEF OnlyStarsLeft
<1>5. \A a \in 1 .. Len(p) : OnlyStarsLeft(p, a) <=> p[a] = "*" /\ OnlyStarsLeft(p, a + 1)
  <2> SUFFICES ASSUME NEW a \in 1 .. Len(p)
               PROVE  OnlyStarsLeft(p, a) <=> p[a] = "*" /\ OnlyStarsLeft(p, a + 1)
    OBVIOUS
  <2>1. \A j : j \in a .. Len(p) <=> j = a \/ j \in a + 1 .. Len(p)
    BY <1>1
  <2> QED BY <2>1 DEF OnlyStarsLeft
<1>6. Bad = {}
  <2> SUFFICES ASSUME Bad # {} PROVE FALSE
    OBVIOUS
  <2>1. PICK x \in Bad : \A y \in Bad : x <= y
    <3>1. Bad \subseteq Nat
      BY <1>1
    <3> HIDE DEF Bad
    <3> QED BY <3>1, LeastNumber
  <2>2. CASE x = 0
    <3>1. n - x = n /\ n \in 1 .. n /\ n > Len(p)
      BY <2>2, <1>1
    <3> QED BY <2>1, <3>1, <1>2, <1>3, <1>4
  <2>3. CASE x # 0
    <3>1. x - 1 \in 0 .. Len(p) /\ ~ (x <= x - 1)
      BY <2>1, <2>3, <1>1
    <3>2. g[<<n - (x - 1), w>>] <=> OnlyStarsLeft(p, n - (x - 1))
      BY <2>1, <3>1
    <3>3. n - (x - 1) = (n - x) + 1 /\ n - x \in 1 .. Len(p) /\ n - x \in 1 .. n /\ ~ (n - x > Len(p))
      BY <2>1, <2>3, <1>1
    <3>4. g[<<n - x, w>>] <=> OnlyStarsLeft(p, n - x)
      BY <3>2, <3>3, <1>2, <1>3, <1>5
    <3> QED BY <2>1, <3>4
  <2> QED BY <2>2, <2>3
<1>7. n - i \in 0 .. Len(p) /\ n - (n - i) = i
  BY <1>1
<1>8. g[<<i, w>>] <=> OnlyStarsLeft(p, i)
  BY <1>6, <1>7
<1> QED BY <1>8 DEF g, w

Starless(v) == \A j \in 1 .. Len(v) : v[j] # "*"

\* While a star is being tried, the pattern behind it has matched the value from
\* `back' on, character for character.
Tracking(p, v, at) ==
    at.star = 0 \/
      /\ at.star < at.pat /\ p[at.star] = "*"
      /\ at.pat - at.star - 1 = at.val - at.back
      /\ \A x \in 0 .. (at.val - at.back) - 1 : p[at.star + 1 + x] = v[at.back + x]

\* The pattern fits from here, or the last star can stand for more.
LaterFits(p, v, star, back) == star > 0 /\ \E k \in back + 1 .. Len(v) + 1 : Denoted(p, v)[<<star + 1, k>>]
Means(p, v, at) == Denoted(p, v)[<<at.pat, at.val>>] \/ LaterFits(p, v, at.star, at.back)

\* The cursors and the place of the last star, as numbers.
LEMMA CursorNumbers ==
    ASSUME NEW at, at.pat \in Nat, at.val \in Nat, at.star \in Nat, at.back \in Nat,
           at.star < at.pat, at.back <= at.val, at.pat - at.star - 1 = at.val - at.back
    PROVE  /\ at.val - at.back \in Nat
           /\ at.star + 1 + (at.val - at.back) = at.pat /\ at.back + (at.val - at.back) = at.val
           /\ at.star < at.pat + 1 /\ (at.pat + 1) - at.star - 1 = (at.val + 1) - at.back
           /\ \A x \in 0 .. (at.val - at.back) - 1 : at.back + x \in at.back .. at.val - 1
           /\ \A x \in 0 .. ((at.val + 1) - at.back) - 1 :
                \/ x \in 0 .. (at.val - at.back) - 1
                \/ x = at.val - at.back /\ at.star + 1 + x = at.pat /\ at.back + x = at.val
<1> DEFINE pat == at.pat
           val == at.val
           star == at.star
           back == at.back
<1>1. /\ pat \in Nat /\ val \in Nat /\ star \in Nat /\ back \in Nat
      /\ star < pat /\ back <= val /\ pat - star - 1 = val - back
  OBVIOUS
<1> HIDE DEF pat, val, star, back
<1>2. /\ val - back \in Nat
      /\ star + 1 + (val - back) = pat /\ back + (val - back) = val
      /\ star < pat + 1 /\ (pat + 1) - star - 1 = (val + 1) - back
      /\ \A x \in 0 .. (val - back) - 1 : back + x \in back .. val - 1
      /\ \A x \in 0 .. ((val + 1) - back) - 1 :
            \/ x \in 0 .. (val - back) - 1
            \/ x = val - back /\ star + 1 + x = pat /\ back + x = val
  BY <1>1
<1> QED BY <1>2 DEF pat, val, star, back

\* Where the last star can stand for more, what has matched behind it matches there.
LEMMA LaterKept ==
    ASSUME NEW p, NEW v, IsText(p), IsText(v), Starless(v), NEW at \in Cursors(p, v),
           Tracking(p, v, at), LaterFits(p, v, at.star, at.back)
    PROVE  \E k \in at.val + 1 .. Len(v) + 1 : Denoted(p, v)[<<at.pat, k>>]
<1> DEFINE n == at.val - at.back
<1>1. /\ at.pat \in 1 .. Len(p) + 1 /\ at.val \in 1 .. Len(v) + 1 /\ at.star \in 1 .. Len(p)
      /\ at.back \in 1 .. Len(v) + 1 /\ at.back <= at.val /\ Len(p) \in Nat /\ Len(v) \in Nat
      /\ at.pat \in Nat /\ at.val \in Nat /\ at.star \in Nat /\ at.back \in Nat
  <2>1. at.star \in 0 .. Len(p) /\ at.star > 0
    BY DEF Cursors, LaterFits
  <2> QED BY <2>1 DEF Cursors, IsText
<1>2. PICK k \in at.back + 1 .. Len(v) + 1 : Denoted(p, v)[<<at.star + 1, k>>]
  BY DEF LaterFits
<1>3. /\ at.star < at.pat
      /\ at.pat - at.star - 1 = n
      /\ \A x \in 0 .. n - 1 : p[at.star + 1 + x] = v[at.back + x]
  BY <1>1 DEF Tracking
<1>4. n \in Nat /\ at.star + 1 \in 1 .. Len(p) + 1 /\ at.star + 1 + n = at.pat /\ at.back + n = at.val
  <2>1. n \in Nat /\ at.star + 1 + n = at.pat /\ at.back + n = at.val
    BY <1>1, <1>3, CursorNumbers
  <2>2. at.star + 1 \in 1 .. Len(p) + 1
    BY <1>1
  <2> QED BY <2>1, <2>2
<1>5. \A x \in 0 .. n - 1 : p[at.star + 1 + x] # "*"
  <2>1. \A x \in 0 .. n - 1 : at.back + x \in 1 .. Len(v)
    <3>1. \A x \in 0 .. n - 1 : at.back + x \in at.back .. at.val - 1
      BY <1>1, <1>3, CursorNumbers
    <3>2. at.back .. at.val - 1 \subseteq 1 .. Len(v)
      BY <1>1
    <3> QED BY <3>1, <3>2
  <2> QED BY <1>3, <2>1 DEF Starless
<1>6. k \in 1 .. Len(v) + 1 /\ at.star + 1 + n <= Len(p) + 1
  BY <1>1, <1>4
<1> HIDE DEF n
<1>7. k + n <= Len(v) + 1 /\ Denoted(p, v)[<<at.star + 1 + n, k + n>>]
  BY <1>2, <1>4, <1>5, <1>6, RunKept
<1>8. k + n \in at.val + 1 .. Len(v) + 1
  BY <1>1, <1>4, <1>7
<1> QED BY <1>4, <1>7, <1>8

\* The loop keeps track, wherever it goes on.
LEMMA TrackingKept ==
    ASSUME NEW p, NEW v, IsText(p), IsText(v), NEW at \in Cursors(p, v), Tracking(p, v, at)
    PROVE  /\ Same(p, v, at) => Tracking(p, v, Both(at))
           /\ Star(p, v, at) => Tracking(p, v, Starred(at))
           /\ Stuck(p, v, at) /\ at.star > 0 => Tracking(p, v, Again(at))
<1>1. /\ at.pat \in 1 .. Len(p) + 1 /\ at.val \in 1 .. Len(v) + 1 /\ at.star \in 0 .. Len(p)
      /\ at.back \in 1 .. Len(v) + 1 /\ at.back <= at.val /\ Len(p) \in Nat /\ Len(v) \in Nat
      /\ at.pat \in Nat /\ at.val \in Nat /\ at.star \in Nat /\ at.back \in Nat
  BY DEF Cursors, IsText
<1>2. ASSUME Same(p, v, at) PROVE Tracking(p, v, Both(at))
  <2>1. /\ Both(at).star = at.star /\ Both(at).back = at.back
        /\ Both(at).pat = at.pat + 1 /\ Both(at).val = at.val + 1
    BY DEF Both, Cursor
  <2>2. CASE at.star = 0
    BY <2>1, <2>2 DEF Tracking
  <2>3. CASE at.star # 0
    <3>1. /\ at.star < at.pat /\ p[at.star] = "*"
          /\ at.pat - at.star - 1 = at.val - at.back
          /\ \A x \in 0 .. (at.val - at.back) - 1 : p[at.star + 1 + x] = v[at.back + x]
      BY <2>3 DEF Tracking
    <3>2. at.star < at.pat + 1 /\ (at.pat + 1) - at.star - 1 = (at.val + 1) - at.back
      BY <1>1, <3>1, CursorNumbers
    <3>3. p[at.pat] = v[at.val]
      BY <1>2 DEF Same
    <3>4. ASSUME NEW x \in 0 .. ((at.val + 1) - at.back) - 1
          PROVE  p[at.star + 1 + x] = v[at.back + x]
      <4>1. \/ x \in 0 .. (at.val - at.back) - 1
            \/ x = at.val - at.back /\ at.star + 1 + x = at.pat /\ at.back + x = at.val
        BY <1>1, <3>1, CursorNumbers
      <4> QED BY <4>1, <3>1, <3>3
    <3> QED BY <2>1, <3>1, <3>2, <3>4 DEF Tracking
  <2> QED BY <2>2, <2>3
<1>3. ASSUME Star(p, v, at) PROVE Tracking(p, v, Starred(at))
  <2>1. /\ Starred(at).star = at.pat /\ Starred(at).back = at.val
        /\ Starred(at).pat = at.pat + 1 /\ Starred(at).val = at.val
    BY DEF Starred, Cursor
  <2>2. /\ at.pat < at.pat + 1 /\ (at.pat + 1) - at.pat - 1 = at.val - at.val
        /\ 0 .. (at.val - at.val) - 1 = {}
    BY <1>1
  <2>3. p[at.pat] = "*"
    BY <1>3 DEF Star
  <2> QED BY <2>1, <2>2, <2>3 DEF Tracking
<1>4. ASSUME Stuck(p, v, at), at.star > 0 PROVE Tracking(p, v, Again(at))
  <2>1. /\ Again(at).star = at.star /\ Again(at).back = at.back + 1
        /\ Again(at).pat = at.star + 1 /\ Again(at).val = at.back + 1
    BY DEF Again, Cursor
  <2>2. /\ at.star < at.star + 1 /\ (at.star + 1) - at.star - 1 = (at.back + 1) - (at.back + 1)
        /\ 0 .. ((at.back + 1) - (at.back + 1)) - 1 = {}
    BY <1>1
  <2>3. p[at.star] = "*"
    BY <1>1, <1>4 DEF Tracking
  <2> QED BY <2>1, <2>2, <2>3 DEF Tracking
<1> QED BY <1>2, <1>3, <1>4

\* What one step of the loop keeps of what the place means.
LEMMA MeaningKept ==
    ASSUME NEW p, NEW v, IsText(p), IsText(v), Starless(v), NEW at \in Cursors(p, v), Tracking(p, v, at)
    PROVE  /\ at.val > Len(v) => (Means(p, v, at) <=> OnlyStarsLeft(p, at.pat))
           /\ Same(p, v, at) => (Means(p, v, at) <=> Means(p, v, Both(at)))
           /\ Star(p, v, at) => (Means(p, v, at) <=> Means(p, v, Starred(at)))
           /\ Stuck(p, v, at) /\ at.star > 0 => (Means(p, v, at) <=> Means(p, v, Again(at)))
           /\ Stuck(p, v, at) /\ ~ (at.star > 0) => ~ Means(p, v, at)
<1> DEFINE g == Denoted(p, v)
           i == at.pat
           j == at.val
<1>1. /\ i \in 1 .. Len(p) + 1 /\ j \in 1 .. Len(v) + 1 /\ at.star \in 0 .. Len(p)
      /\ at.back \in 1 .. Len(v) + 1 /\ at.back <= j /\ Len(p) \in Nat /\ Len(v) \in Nat
  BY DEF Cursors, IsText
<1>2. g[<<i, j>>] <=>
        \/ i > Len(p) /\ j > Len(v)
        \/ i <= Len(p) /\ p[i] = "*" /\ \E k \in j .. Len(v) + 1 : g[<<i + 1, k>>]
        \/ /\ i <= Len(p) /\ j <= Len(v) /\ p[i] # "*" /\ p[i] = v[j]
           /\ g[<<i + 1, j + 1>>]
  <2>1. g[<<i, j>>] = DenotesStep(p, v, g, <<i, j>>)
    BY <1>1, DenotesIs
  <2> HIDE DEF g, i, j
  <2> QED BY <2>1, DenotesUnfolded
<1>3. Means(p, v, at) <=> g[<<i, j>>] \/ LaterFits(p, v, at.star, at.back)
  BY DEF Means
<1>4. LaterFits(p, v, at.star, at.back) => \E k \in j + 1 .. Len(v) + 1 : g[<<i, k>>]
  BY LaterKept
<1>5. ASSUME at.val > Len(v) PROVE Means(p, v, at) <=> OnlyStarsLeft(p, at.pat)
  <2>1. j = Len(v) + 1 /\ j + 1 .. Len(v) + 1 = {}
    BY <1>1, <1>5
  <2>2. g[<<i, j>>] <=> OnlyStarsLeft(p, i)
    BY <2>1, <1>1, OnlyStars
  <2> QED BY <2>1, <2>2, <1>3, <1>4
<1>6. ASSUME Same(p, v, at) PROVE Means(p, v, at) <=> Means(p, v, Both(at))
  <2>1. i <= Len(p) /\ j <= Len(v) /\ p[i] = v[j] /\ p[i] # "*" /\ ~ (i > Len(p))
    BY <1>1, <1>6 DEF Same, Starless
  <2>2. Means(p, v, Both(at)) <=> g[<<i + 1, j + 1>>] \/ LaterFits(p, v, at.star, at.back)
    BY DEF Means, Both, Cursor
  <2> HIDE DEF g, i, j
  <2> QED BY <2>1, <2>2, <1>2, <1>3
<1>7. ASSUME Star(p, v, at) PROVE Means(p, v, at) <=> Means(p, v, Starred(at))
  <2>1. i <= Len(p) /\ j <= Len(v) /\ p[i] = "*" /\ ~ (i > Len(p)) /\ i > 0
    BY <1>1, <1>7 DEF Star
  <2>2. Means(p, v, Starred(at)) <=> g[<<i + 1, j>>] \/ \E k \in j + 1 .. Len(v) + 1 : g[<<i + 1, k>>]
    BY <2>1 DEF Means, Starred, Cursor, LaterFits
  <2>3. \A k : k \in j .. Len(v) + 1 <=> k = j \/ k \in j + 1 .. Len(v) + 1
    BY <1>1
  <2>4. g[<<i, j>>] <=> \E k \in j .. Len(v) + 1 : g[<<i + 1, k>>]
    <3> HIDE DEF g, i, j
    <3> QED BY <2>1, <1>2
  <2>5. Means(p, v, Starred(at)) <=> g[<<i, j>>]
    <3> HIDE DEF g, i, j
    <3> QED BY <2>2, <2>3, <2>4
  <2>6. (\E k \in j + 1 .. Len(v) + 1 : g[<<i, k>>]) => g[<<i, j>>]
    <3> SUFFICES ASSUME NEW k \in j + 1 .. Len(v) + 1, g[<<i, k>>] PROVE g[<<i, j>>]
      OBVIOUS
    <3>1. k \in 1 .. Len(v) + 1
      BY <1>1
    <3>2. DenotesStep(p, v, g, <<i, k>>)
      BY <3>1, <1>1, DenotesIs
    <3> HIDE DEF g, i, j
    <3>5. \/ i > Len(p) /\ k > Len(v)
          \/ i <= Len(p) /\ p[i] = "*" /\ \E l \in k .. Len(v) + 1 : g[<<i + 1, l>>]
          \/ /\ i <= Len(p) /\ k <= Len(v) /\ p[i] # "*" /\ p[i] = v[k]
             /\ g[<<i + 1, k + 1>>]
      BY <3>2, DenotesUnfolded
    <3>3. PICK l \in k .. Len(v) + 1 : g[<<i + 1, l>>]
      BY <2>1, <3>5
    <3>4. l \in j .. Len(v) + 1
      BY <1>1
    <3> QED BY <2>4, <3>3, <3>4
  <2> QED BY <2>5, <2>6, <1>3, <1>4
<1>8. ASSUME Stuck(p, v, at) PROVE ~ g[<<i, j>>]
  <2>1. ~ (j > Len(v)) /\ (i <= Len(p) => p[i] # v[j] /\ p[i] # "*")
    BY <1>1, <1>8 DEF Stuck
  <2> HIDE DEF g, i, j
  <2> QED BY <2>1, <1>2
<1>9. ASSUME Stuck(p, v, at), at.star > 0 PROVE Means(p, v, at) <=> Means(p, v, Again(at))
  <2>1. at.back <= Len(v)
    BY <1>1, <1>9 DEF Stuck
  <2>2. \A k : k \in at.back + 1 .. Len(v) + 1 <=> k = at.back + 1 \/ k \in at.back + 1 + 1 .. Len(v) + 1
    BY <1>1, <2>1
  <2>3. Means(p, v, Again(at)) <=> \/ g[<<at.star + 1, at.back + 1>>]
                                   \/ \E k \in at.back + 1 + 1 .. Len(v) + 1 : g[<<at.star + 1, k>>]
    BY <1>9 DEF Means, Again, Cursor, LaterFits
  <2>4. Means(p, v, at) <=> \E k \in at.back + 1 .. Len(v) + 1 : g[<<at.star + 1, k>>]
    BY <1>3, <1>8, <1>9 DEF LaterFits
  <2> HIDE DEF g
  <2> QED BY <2>2, <2>3, <2>4
<1>10. ASSUME Stuck(p, v, at), ~ (at.star > 0) PROVE ~ Means(p, v, at)
  BY <1>3, <1>8, <1>10 DEF LaterFits
<1> QED BY <1>5, <1>6, <1>7, <1>9, <1>10

\* From every place it can be in, the loop says yes exactly when that holds.
LEMMA GlobMeans ==
    ASSUME NEW p, NEW v, IsText(p), IsText(v), Starless(v)
    PROVE  \A at \in Cursors(p, v) : Tracking(p, v, at) => (Globbed(p, v)[at] <=> Means(p, v, at))
<1> DEFINE f == Globbed(p, v)
           Bad(at) == Tracking(p, v, at) /\ ~ (f[at] <=> Means(p, v, at))
           Lefts == {n \in Nat : \E at \in Cursors(p, v) : Bad(at) /\ Left(p, v, at) = n}
<1> SUFFICES ASSUME Lefts # {} PROVE FALSE
  <2>1. \A at \in Cursors(p, v) : Left(p, v, at) \in Nat
    BY Steps
  <2> QED BY <2>1
<1>1. PICK n \in Lefts : \A y \in Lefts : n <= y
  <2>1. Lefts \subseteq Nat
    OBVIOUS
  <2> HIDE DEF Lefts
  <2> QED BY <2>1, LeastNumber
<1>2. PICK at \in Cursors(p, v) : Bad(at) /\ Left(p, v, at) = n
  BY <1>1
<1>3. \A x \in Cursors(p, v) : Left(p, v, x) < Left(p, v, at) /\ Tracking(p, v, x)
          => (f[x] <=> Means(p, v, x))
  <2> SUFFICES ASSUME NEW x \in Cursors(p, v), Left(p, v, x) < Left(p, v, at), Bad(x)
               PROVE  FALSE
    OBVIOUS
  <2>1. Left(p, v, x) \in Nat /\ Left(p, v, at) \in Nat
    BY Steps
  <2>2. Left(p, v, x) \in Lefts
    BY <2>1
  <2> HIDE DEF Lefts
  <2> QED BY <1>1, <1>2, <2>1, <2>2
<1>4. Tracking(p, v, at)
  BY <1>2
<1>5. f[at] = GlobStep(p, v, f, at)
  BY GlobIs
<1> HIDE DEF f
<1>6. /\ at.val > Len(v) => GlobStep(p, v, f, at) = OnlyStarsLeft(p, at.pat)
      /\ Same(p, v, at) => (GlobStep(p, v, f, at) <=> f[Both(at)])
      /\ Star(p, v, at) => (GlobStep(p, v, f, at) <=> f[Starred(at)])
      /\ Stuck(p, v, at) /\ at.star > 0 => (GlobStep(p, v, f, at) <=> f[Again(at)])
      /\ Stuck(p, v, at) /\ ~ (at.star > 0) => ~ GlobStep(p, v, f, at)
      /\ at.val > Len(v) \/ Same(p, v, at) \/ Star(p, v, at) \/ Stuck(p, v, at)
  BY GlobCases
<1>7. /\ Same(p, v, at) => (f[Both(at)] <=> Means(p, v, Both(at)))
      /\ Star(p, v, at) => (f[Starred(at)] <=> Means(p, v, Starred(at)))
      /\ Stuck(p, v, at) /\ at.star > 0 => (f[Again(at)] <=> Means(p, v, Again(at)))
  BY <1>3, <1>4, Steps, TrackingKept
<1>8. f[at] <=> Means(p, v, at)
  <2>1. /\ at.val > Len(v) => (Means(p, v, at) <=> OnlyStarsLeft(p, at.pat))
        /\ Same(p, v, at) => (Means(p, v, at) <=> Means(p, v, Both(at)))
        /\ Star(p, v, at) => (Means(p, v, at) <=> Means(p, v, Starred(at)))
        /\ Stuck(p, v, at) /\ at.star > 0 => (Means(p, v, at) <=> Means(p, v, Again(at)))
        /\ Stuck(p, v, at) /\ ~ (at.star > 0) => ~ Means(p, v, at)
    BY <1>4, MeaningKept
  <2> QED BY <1>5, <1>6, <1>7, <2>1
<1> QED BY <1>2, <1>8

LEMMA MatchesDenotes ==
    ASSUME NEW p, NEW v, IsText(p), IsText(v), Starless(v)
    PROVE  capability_pattern_matches(p, v) <=> Denotes(p, v)
<1> DEFINE s == Cursor(1, 1, 0, 1)
<1>1. Len(p) \in Nat /\ Len(v) \in Nat
  BY DEF IsText
<1>2. s \in Cursors(p, v) /\ s.pat = 1 /\ s.val = 1 /\ s.star = 0
  <2>1. 1 \in 1 .. Len(p) + 1 /\ 1 \in 1 .. Len(v) + 1 /\ 0 \in 0 .. Len(p) /\ 1 <= 1
    BY <1>1
  <2> QED BY <2>1, CursorThere
<1>3. Tracking(p, v, s)
  BY <1>2 DEF Tracking
<1>4. Means(p, v, s) <=> Denoted(p, v)[<<1, 1>>]
  BY <1>2 DEF Means, LaterFits
<1> HIDE DEF s
<1>5. Globbed(p, v)[s] <=> Means(p, v, s)
  BY <1>2, <1>3, GlobMeans
<1>6. /\ capability_pattern_matches(p, v) = Globbed(p, v)[s]
      /\ Denotes(p, v) = Denoted(p, v)[<<1, 1>>]
  BY GlobIs, DenotesIs DEF s
<1> QED BY <1>4, <1>5, <1>6

-----------------------------------------------------------------------------
(* Patterns and lists *)

LEMMA WordIsStarless ==
    ASSUME NEW v \in Seq(Chars)
    PROVE  IsText(v) /\ Starless(v)
BY CharsAssumption DEF IsText, Starless

\* Every pattern of a list, and every pattern a sample looks at, matches a
\* capability exactly when its stars can be given runs of the capability's
\* characters, whatever their characters and lengths (capability_pattern_matches).
THEOREM GlobCorrect ==
    \A p \in Seq(Chars \cup {"*"}), v \in Seq(Chars) :
        capability_pattern_matches(p, v) <=> Denotes(p, v)
<1> SUFFICES ASSUME NEW p \in Seq(Chars \cup {"*"}), NEW v \in Seq(Chars)
             PROVE  capability_pattern_matches(p, v) <=> Denotes(p, v)
  OBVIOUS
<1>1. IsText(p) /\ IsText(v) /\ Starless(v)
  BY WordIsStarless DEF IsText
<1> QED BY <1>1, MatchesDenotes

\* The samples, as texts.
LEMMA SampleTexts ==
    Patterns \subseteq Seq(Chars \cup {"*"}) /\ Words \subseteq Seq(Chars)
<1>1. ASSUME NEW S, NEW n \in Nat PROVE UNION {[1 .. k -> S] : k \in 0 .. n} \subseteq Seq(S)
  OBVIOUS
<1> QED BY <1>1, CharsAssumption DEF Patterns, Words

LEMMA SampleKept == AclSpec => []Sampled
<1>1. Sampled /\ [UNCHANGED sample]_sample => Sampled'
  BY DEF Sampled
<1> QED BY <1>1, PTL DEF AclSpec

LEMMA SampleIs ==
    ASSUME Sampled
    PROVE  /\ Is("pattern") => sample.pattern \in Patterns
           /\ Is("acl") => sample.acl \in Lists
           /\ Is("cid") => /\ sample.global \in Grants \cup {Absent}
                           /\ sample.cid \in Grants \cup {Absent, Lost}
                           /\ sample.inline \in Grants \cup {Absent}
BY DEF Sampled, AclInputs, Is

\* So it is for every input a sample is taken from (GlobAgrees of RuleSamples'
\* run, for any characters and lengths).
THEOREM GlobAlwaysAgrees == AclSpec => []GlobAgrees
<1>1. Sampled => GlobAgrees
  BY SampleIs, SampleTexts, GlobCorrect DEF GlobAgrees
<1> QED BY <1>1, SampleKept, PTL

\* A bare star stands for anything.
LEMMA StarDenotes ==
    ASSUME NEW p, NEW v, IsText(p), IsText(v)
    PROVE  Len(p) = 1 /\ p[1] = "*" => Denotes(p, v)
<1> DEFINE g == Denoted(p, v)
           w == Len(v) + 1
<1>1. /\ Denotes(p, v) = g[<<1, 1>>]
      /\ \A i \in 1 .. Len(p) + 1, j \in 1 .. Len(v) + 1 : g[<<i, j>>] = DenotesStep(p, v, g, <<i, j>>)
  BY DenotesIs
<1> HIDE DEF g
<1> SUFFICES ASSUME Len(p) = 1, p[1] = "*" PROVE Denotes(p, v)
  OBVIOUS
<1>2. /\ w \in 1 .. Len(v) + 1 /\ 1 \in 1 .. Len(v) + 1 /\ w > Len(v)
      /\ 1 \in 1 .. Len(p) + 1 /\ 2 \in 1 .. Len(p) + 1 /\ 1 <= Len(p) /\ 2 > Len(p)
  BY DEF IsText
<1> HIDE DEF w
<1>3. ASSUME NEW i, NEW j, i > Len(p), j > Len(v) PROVE DenotesStep(p, v, g, <<i, j>>)
  BY <1>3, DenotesUnfolded
<1>4. ASSUME NEW i, NEW j, i <= Len(p), p[i] = "*", NEW k \in j .. Len(v) + 1, g[<<i + 1, k>>]
      PROVE  DenotesStep(p, v, g, <<i, j>>)
  BY <1>4, DenotesUnfolded
<1>5. g[<<2, w>>]
  BY <1>1, <1>2, <1>3
<1>6. 1 + 1 = 2
  OBVIOUS
<1>7. DenotesStep(p, v, g, <<1, 1>>)
  BY <1>2, <1>4, <1>5, <1>6
<1> QED BY <1>1, <1>2, <1>7

LEMMA StarMatches ==
    ASSUME NEW v \in Seq(Chars)
    PROVE  capability_pattern_matches(<<"*">>, v)
<1>1. IsText(<<"*">>) /\ Len(<<"*">>) = 1 /\ <<"*">>[1] = "*" /\ IsText(v) /\ Starless(v)
  BY WordIsStarless DEF IsText
<1>2. Denotes(<<"*">>, v)
  BY <1>1, StarDenotes
<1> QED BY <1>1, <1>2, MatchesDenotes

\* A pattern without stars matches itself alone.
LEMMA ExactMatches ==
    ASSUME NEW p \in Seq(Chars \cup {"*"}), ~ HasStar(p), NEW v \in Seq(Chars)
    PROVE  capability_pattern_matches(p, v) <=> p = v
<1> DEFINE g == Denoted(p, v)
           n == Len(p)
           w == Len(v)
<1>1. /\ IsText(p) /\ IsText(v) /\ Starless(v) /\ n \in Nat /\ w \in Nat
      /\ DOMAIN p = 1 .. n /\ DOMAIN v = 1 .. w
  BY WordIsStarless DEF IsText
<1>2. \A i \in 1 .. n : p[i] # "*"
  BY <1>1 DEF HasStar
<1>3. \A i \in 1 .. n + 1, j \in 1 .. w + 1 : g[<<i, j>>] <=>
          \/ i > n /\ j > w
          \/ i <= n /\ j <= w /\ p[i] = v[j] /\ g[<<i + 1, j + 1>>]
  <2> SUFFICES ASSUME NEW i \in 1 .. n + 1, NEW j \in 1 .. w + 1
               PROVE  g[<<i, j>>] <=>
                        \/ i > n /\ j > w
                        \/ i <= n /\ j <= w /\ p[i] = v[j] /\ g[<<i + 1, j + 1>>]
    OBVIOUS
  <2>1. g[<<i, j>>] = DenotesStep(p, v, g, <<i, j>>)
    BY <1>1, DenotesIs
  <2>2. i <= n => i \in 1 .. n
    BY <1>1
  <2> HIDE DEF g
  <2>3. DenotesStep(p, v, g, <<i, j>>) <=>
            \/ i > Len(p) /\ j > Len(v)
            \/ i <= Len(p) /\ p[i] = "*" /\ \E k \in j .. Len(v) + 1 : g[<<i + 1, k>>]
            \/ /\ i <= Len(p) /\ j <= Len(v) /\ p[i] # "*" /\ p[i] = v[j]
               /\ g[<<i + 1, j + 1>>]
    BY DenotesUnfolded
  <2> QED BY <2>1, <2>2, <2>3, <1>2
<1> HIDE DEF g
<1>4. capability_pattern_matches(p, v) <=> g[<<1, 1>>]
  BY <1>1, MatchesDenotes, DenotesIs DEF g
<1> HIDE DEF n, w
<1>5. ASSUME g[<<1, 1>>] PROVE p = v
  <2> DEFINE Bad == {i \in 1 .. n + 1 : ~ (i <= w + 1 /\ g[<<i, i>>] /\ (i > 1 => p[i - 1] = v[i - 1]))}
  <2>1. Bad = {}
    <3> SUFFICES ASSUME Bad # {} PROVE FALSE
      OBVIOUS
    <3>1. PICK i \in Bad : \A y \in Bad : i <= y
      <4>1. Bad \subseteq Nat
        BY <1>1
      <4> HIDE DEF Bad
      <4> QED BY <4>1, LeastNumber
    <3>2. i \in 1 .. n + 1 /\ ~ (i <= w + 1 /\ g[<<i, i>>] /\ (i > 1 => p[i - 1] = v[i - 1]))
      BY <3>1
    <3>3. i # 1
      <4>1. 1 <= w + 1 /\ ~ (1 > 1)
        BY <1>1
      <4> QED BY <3>2, <4>1, <1>5
    <3> DEFINE a == i - 1
    <3>4. a \in 1 .. n /\ a \in 1 .. n + 1 /\ a + 1 = i /\ ~ (i <= a)
      BY <3>2, <3>3, <1>1
    <3>5. a \notin Bad
      <4> HIDE DEF Bad, a
      <4> QED BY <3>1, <3>4
    <3>6. a <= w + 1 /\ g[<<a, a>>]
      BY <3>4, <3>5
    <3> HIDE DEF a, Bad
    <3>7. a \in 1 .. w + 1 /\ ~ (a > n)
      BY <3>4, <3>6, <1>1
    <3>8. a <= w /\ p[a] = v[a] /\ g[<<a + 1, a + 1>>]
      BY <3>4, <3>6, <3>7, <1>3
    <3>9. i <= w + 1
      BY <3>4, <3>8, <1>1
    <3> QED BY <3>2, <3>4, <3>8, <3>9 DEF a
  <2>2. \A i \in 1 .. n + 1 : i <= w + 1 /\ g[<<i, i>>] /\ (i > 1 => p[i - 1] = v[i - 1])
    BY <2>1
  <2>3. n + 1 \in 1 .. n + 1 /\ ~ (n + 1 <= n)
    BY <1>1
  <2>4. n + 1 \in 1 .. w + 1 /\ g[<<n + 1, n + 1>>]
    BY <2>2, <2>3, <1>1
  <2>5. n + 1 > w
    BY <1>3, <2>3, <2>4
  <2>6. n = w
    BY <1>1, <2>4, <2>5
  <2>7. \A i \in 1 .. n : p[i] = v[i]
    <3> SUFFICES ASSUME NEW i \in 1 .. n PROVE p[i] = v[i]
      OBVIOUS
    <3>1. i + 1 \in 1 .. n + 1 /\ i + 1 > 1 /\ (i + 1) - 1 = i
      BY <1>1
    <3> QED BY <2>2, <3>1
  <2>8. p = [i \in 1 .. n |-> p[i]] /\ v = [i \in 1 .. n |-> v[i]]
    <3>1. p = [i \in DOMAIN p |-> p[i]] /\ v = [i \in DOMAIN v |-> v[i]]
      OBVIOUS
    <3> QED BY <3>1, <1>1, <2>6
  <2> QED BY <2>7, <2>8
<1>6. ASSUME p = v PROVE g[<<1, 1>>]
  <2>1. n = w
    BY <1>6 DEF n, w
  <2> DEFINE Bad == {x \in 0 .. n : ~ g[<<n + 1 - x, n + 1 - x>>]}
  <2>2. Bad = {}
    <3> SUFFICES ASSUME Bad # {} PROVE FALSE
      OBVIOUS
    <3>1. PICK x \in Bad : \A y \in Bad : x <= y
      <4>1. Bad \subseteq Nat
        BY <1>1
      <4> HIDE DEF Bad
      <4> QED BY <4>1, LeastNumber
    <3>2. x \in 0 .. n /\ ~ g[<<n + 1 - x, n + 1 - x>>]
      BY <3>1
    <3> DEFINE a == n + 1 - x
    <3>3. a \in 1 .. n + 1 /\ a \in 1 .. w + 1 /\ (x = 0 => a > n /\ a > w) /\ (x # 0 => a <= n /\ a <= w)
      BY <3>2, <2>1, <1>1
    <3>4. x # 0
      <4> HIDE DEF a
      <4>1. ~ g[<<a, a>>]
        BY <3>2 DEF a
      <4> QED BY <3>3, <4>1, <1>3
    <3> DEFINE y == x - 1
    <3>5. y \in 0 .. n /\ ~ (x <= y) /\ n + 1 - y = a + 1
      BY <3>2, <3>4, <1>1
    <3>6. y \notin Bad
      <4> HIDE DEF Bad, y, a
      <4> QED BY <3>1, <3>5
    <3>7. g[<<a + 1, a + 1>>]
      <4>1. g[<<n + 1 - y, n + 1 - y>>]
        BY <3>5, <3>6
      <4> HIDE DEF y, a
      <4> QED BY <3>5, <4>1
    <3>8. ~ g[<<a, a>>]
      BY <3>2
    <3> HIDE DEF a
    <3> QED BY <3>3, <3>4, <3>7, <3>8, <1>3, <1>6
  <2>3. n \in 0 .. n /\ n + 1 - n = 1
    BY <1>1
  <2>4. n \notin Bad
    <3> HIDE DEF Bad
    <3> QED BY <2>2
  <2> QED BY <2>3, <2>4
<1> QED BY <1>4, <1>5, <1>6

\* An entry answers compiled as it does written.
LEMMA EntryAlike ==
    ASSUME NEW S \in SUBSET Seq(Chars \cup {"*"}), NEW cap \in Seq(Chars)
    PROVE  AnyMatches(S, cap) <=>
              \/ cap \in CompiledSubjectAcl(S).exact
              \/ AnyMatches(CompiledSubjectAcl(S).wildcard, cap)
<1> DEFINE stars == {p \in S : HasStar(p)}
           wild == IF <<"*">> \in stars THEN {<<"*">>} ELSE stars
           exact == {p \in S \ stars : ~AnyMatches(wild, p)}
<1>1. CompiledSubjectAcl(S).exact = exact /\ CompiledSubjectAcl(S).wildcard = wild
  BY DEF CompiledSubjectAcl
<1>2. wild \subseteq S
  OBVIOUS
<1>3. AnyMatches(wild, cap) => AnyMatches(S, cap)
  <2> HIDE DEF wild
  <2> QED BY <1>2 DEF AnyMatches
<1>4. \A p \in S \ stars : capability_pattern_matches(p, cap) <=> p = cap
  BY ExactMatches
<1>5. exact \subseteq S \ stars
  OBVIOUS
<1>6. cap \in exact => AnyMatches(S, cap)
  <2> HIDE DEF exact, stars
  <2> QED BY <1>4, <1>5 DEF AnyMatches
<1>7. ASSUME AnyMatches(S, cap), ~AnyMatches(wild, cap) PROVE cap \in exact
  <2>1. PICK p \in S : capability_pattern_matches(p, cap)
    BY <1>7 DEF AnyMatches
  <2>2. p \notin stars
    <3>1. CASE <<"*">> \in stars
      <4>1. AnyMatches({<<"*">>}, cap)
        BY StarMatches DEF AnyMatches
      <4> QED BY <3>1, <4>1, <1>7
    <3>2. CASE <<"*">> \notin stars
      <4>1. ~AnyMatches(stars, cap)
        BY <3>2, <1>7
      <4> HIDE DEF stars
      <4> QED BY <4>1, <2>1 DEF AnyMatches
    <3> QED BY <3>1, <3>2
  <2>3. p = cap /\ p \in S \ stars
    <3>1. p \in S \ stars
      BY <2>2
    <3> HIDE DEF stars
    <3> QED BY <3>1, <2>1, <1>4
  <2> HIDE DEF wild
  <2> QED BY <2>3, <1>7
<1> HIDE DEF wild, exact
<1> QED BY <1>1, <1>3, <1>6, <1>7

\* What a list says once compiled, to any subject.
LEMMA ListAlike ==
    ASSUME NEW acl \in Lists, NEW s, NEW cap \in Seq(Chars)
    PROVE  /\ compile_acl(acl) = [t \in DOMAIN acl |-> CompiledSubjectAcl(acl[t])]
           /\ evaluate_compiled_acl(compile_acl(acl), s, cap) <=> subject_has_capability(acl, s, cap)
<1>1. /\ DOMAIN acl \subseteq Subjects
      /\ \A t \in DOMAIN acl : acl[t] \subseteq ListPatterns
  BY DEF Lists
<1>2. ListPatterns \subseteq Seq(Chars \cup {"*"}) /\ <<>> \notin ListPatterns
  BY ListsAssumption
<1>3. validate_capability_acl(acl)
  BY <1>1, <1>2 DEF validate_capability_acl, Subjects, AnyCaseOwner
<1>4. compile_acl(acl) = [t \in DOMAIN acl |-> CompiledSubjectAcl(acl[t])]
  BY <1>3 DEF compile_acl
<1> DEFINE c == compile_acl(acl)
<1>5. DOMAIN c = DOMAIN acl /\ \A t \in DOMAIN acl : c[t] = CompiledSubjectAcl(acl[t])
  BY <1>4
<1>6. \A t \in DOMAIN acl : AnyMatches(acl[t], cap) <=>
          cap \in c[t].exact \/ AnyMatches(c[t].wildcard, cap)
  <2> SUFFICES ASSUME NEW t \in DOMAIN acl
               PROVE  AnyMatches(acl[t], cap) <=> cap \in c[t].exact \/ AnyMatches(c[t].wildcard, cap)
    OBVIOUS
  <2>1. acl[t] \in SUBSET Seq(Chars \cup {"*"})
    BY <1>1, <1>2
  <2>2. c[t] = CompiledSubjectAcl(acl[t])
    BY <1>5
  <2> HIDE DEF c
  <2> QED BY <2>1, <2>2, EntryAlike
<1> HIDE DEF c
<1>7. evaluate_compiled_acl(c, s, cap) <=> subject_has_capability(acl, s, cap)
  <2> DEFINE e == EntryFor(DOMAIN acl, s)
  <2>1. evaluate_compiled_acl(c, s, cap) <=>
            e \in DOMAIN acl /\ (cap \in c[e].exact \/ AnyMatches(c[e].wildcard, cap))
    BY <1>5 DEF evaluate_compiled_acl
  <2>2. subject_has_capability(acl, s, cap) <=> e \in DOMAIN acl /\ AnyMatches(acl[e], cap)
    BY DEF subject_has_capability
  <2> HIDE DEF e
  <2> QED BY <1>6, <2>1, <2>2
<1> QED BY <1>4, <1>7 DEF c

LEMMA CompiledSaysWritten ==
    ASSUME NEW acl \in Lists, NEW s, NEW owner, NEW cap \in Seq(Chars)
    PROVE  CompiledAlike(acl, s, owner, cap)
<1> DEFINE c == compile_acl(acl)
<1>1. \A t : evaluate_compiled_acl(c, t, cap) <=> subject_has_capability(acl, t, cap)
  BY ListAlike
<1> HIDE DEF c
<1>2. Gives(acl, s, owner, cap) <=>
          \/ owner = s /\ subject_has_capability(acl, "owner", cap)
          \/ subject_has_capability(acl, s, cap)
  BY <1>1 DEF Gives, evaluate_compiled_acl_with_owner, c
<1>3. subject_has_capability(acl, "owner", cap) <=>
          \/ "owner" \in DOMAIN acl /\ AnyMatches(acl["owner"], cap)
          \/ "owner" \notin DOMAIN acl /\ "*" \in DOMAIN acl /\ AnyMatches(acl["*"], cap)
  BY DEF subject_has_capability, EntryFor
<1> QED BY <1>2, <1>3 DEF CompiledAlike, subject_has_capability_with_owner

\* A list is never mistaken, compiled, for none.
LEMMA CompiledThere ==
    ASSUME NEW acl \in Lists
    PROVE  compile_acl(acl) # Absent
<1>1. PICK S \in SUBSET Subjects : acl \in [S -> SUBSET ListPatterns]
  BY DEF Lists
<1>2. \A t \in S : CompiledSubjectAcl(acl[t]) \in [exact : SUBSET ListPatterns, wildcard : SUBSET ListPatterns]
  <2> SUFFICES ASSUME NEW t \in S
               PROVE  CompiledSubjectAcl(acl[t]) \in [exact : SUBSET ListPatterns, wildcard : SUBSET ListPatterns]
    OBVIOUS
  <2>1. acl[t] \subseteq ListPatterns
    BY <1>1
  <2> QED BY <2>1 DEF CompiledSubjectAcl
<1>3. compile_acl(acl) = [t \in S |-> CompiledSubjectAcl(acl[t])]
  <2>1. <<>> \in Seq(Chars)
    OBVIOUS
  <2>2. compile_acl(acl) = [t \in DOMAIN acl |-> CompiledSubjectAcl(acl[t])]
    BY <2>1, ListAlike
  <2> QED BY <1>1, <2>2
<1>4. compile_acl(acl) \in CompiledLists(S)
  BY <1>2, <1>3 DEF CompiledLists
<1> QED BY <1>4, AbsentAssumption

LEMMA LayersAlwaysDeny ==
    ASSUME NEW global \in Lists \cup {Absent}, NEW cid, NEW inline, NEW s, NEW owner, NEW cap
    PROVE  LayersDeny(global, cid, inline, s, owner, cap)
<1> DEFINE object == [owner |-> owner, cid |-> cid, inline |-> inline]
           world == IF global = Absent THEN Absent ELSE compile_acl(global)
           allowed == object_capability_allowed(world, owner, object, s, cap)
<1>1. object.cid = cid /\ object.owner = owner
  OBVIOUS
<1>2. cid # Absent => LocalAcl(object) = cid
  BY DEF LocalAcl
<1> HIDE DEF object
<1>3. Lost # Absent
  BY SubjectAssumption
<1>4. cid = Lost => ~allowed
  BY <1>2, <1>3 DEF object_capability_allowed
<1>5. cid \notin {Lost, Absent} /\ ~Gives(cid, s, owner, cap) => ~allowed
  BY <1>1, <1>2 DEF object_capability_allowed, Gives
<1>6. global # Absent /\ ~Gives(global, s, owner, cap) => ~allowed
  <2>1. global # Absent => world # Absent /\ world = compile_acl(global)
    BY CompiledThere
  <2> HIDE DEF world
  <2> QED BY <2>1 DEF object_capability_allowed, Gives
<1> QED BY <1>4, <1>5, <1>6 DEF LayersDeny, object

\* Compiling keeps what every list of valid patterns says, for any subjects and
\* capabilities, and the layers deny where one of them denies or is lost
\* (CompileFaithful; compile_acl, evaluate_compiled_acl_with_owner and
\* object_capability_allowed).
THEOREM CompilingAlwaysFaithful == AclSpec => []CompileFaithful
<1>1. Sampled => CompileFaithful
  <2> SUFFICES ASSUME Sampled,
                      NEW s \in Actors, NEW owner \in Actors \cup {Absent}, NEW cap \in Capabilities
               PROVE  /\ Is("acl") => CompiledAlike(sample.acl, s, owner, cap)
                      /\ Is("cid") => LayersDeny(sample.global, sample.cid, sample.inline, s, owner, cap)
    BY DEF CompileFaithful
  <2>1. cap \in Seq(Chars) /\ Grants \subseteq Lists
    BY ListsAssumption
  <2>2. Is("acl") => CompiledAlike(sample.acl, s, owner, cap)
    BY <2>1, SampleIs, CompiledSaysWritten
  <2>3. Is("cid") => LayersDeny(sample.global, sample.cid, sample.inline, s, owner, cap)
    <3> SUFFICES ASSUME Is("cid")
                 PROVE  LayersDeny(sample.global, sample.cid, sample.inline, s, owner, cap)
      OBVIOUS
    <3>1. sample.global \in Lists \cup {Absent}
      BY <2>1, SampleIs
    <3> QED BY <3>1, LayersAlwaysDeny
  <2> QED BY <2>2, <2>3
<1> QED BY <1>1, SampleKept, PTL

-----------------------------------------------------------------------------
(* The parser's calls                                                        *)

LEMMA UpTo ==
    ASSUME NEW n \in Nat, NEW S, 0 \in S, \A k \in 0 .. n - 1 : k \in S => k + 1 \in S
    PROVE  \A k \in 0 .. n : k \in S
<1> DEFINE Bad == {k \in 0 .. n : k \notin S}
<1> SUFFICES ASSUME Bad # {} PROVE FALSE
  OBVIOUS
<1>1. PICK k \in Bad : \A j \in Bad : k <= j
  <2>1. Bad \subseteq Nat
    OBVIOUS
  <2> HIDE DEF Bad
  <2> QED BY <2>1, LeastNumber
<1>2. k # 0 /\ k \in 1 .. n
  OBVIOUS
<1>3. k - 1 \in S
  BY <1>1, <1>2
<1> QED BY <1>2, <1>3

LEMMA Marks ==
    /\ \A s : Fail # Sign(s) /\ ~ IsOperand(Sign(s))
    /\ \A r, s : Sign(r) = Sign(s) => r = s
    /\ \A e, n : Read(e, n) # Fail /\ Read(e, n).expr = e /\ Read(e, n).next = n
<1>1. DOMAIN Fail = {"fail"}
  BY DEF Fail
<1>2. \A s : DOMAIN Sign(s) = {"sign"} /\ Sign(s).sign = s
  BY DEF Sign
<1>3. \A e, n : DOMAIN Read(e, n) = {"expr", "next"}
  BY DEF Read
<1>4. \A s : Fail # Sign(s)
  BY <1>1, <1>2
<1>5. \A e, n : Read(e, n) # Fail
  BY <1>1, <1>3
<1>6. \A e, n : Read(e, n).expr = e /\ Read(e, n).next = n
  BY DEF Read
<1>7. \A r, s : Sign(r) = Sign(s) => r = s
  BY <1>2
<1>8. \A s : ~ IsOperand(Sign(s))
  BY <1>2 DEF IsOperand
<1> QED BY <1>4, <1>5, <1>6, <1>7, <1>8

\* A sign stands at a place of the text.
LEMMA Stands ==
    ASSUME NEW t, IsText(t), NEW i \in Nat, NEW s, At(t, i) = Sign(s)
    PROVE  i <= Len(t) /\ t[i] = Sign(s)
BY Marks DEF At

RoundStep(t, sign, rule, i, f, r, n) ==
    IF n = 0 THEN f[<<rule, i>>] ELSE More(t, sign, rule, r[n - 1], f)

Rounds(t, sign, rule, i, f, r) == r = [n \in 0 .. Len(t) |-> RoundStep(t, sign, rule, i, f, r, n)]

LEMMA RoundsSolvable ==
    ASSUME NEW t, IsText(t), NEW sign, NEW rule, NEW i, NEW f
    PROVE  \E r : Rounds(t, sign, rule, i, f, r)
<1> DEFINE N == 0 .. Len(t)
           Step(r, n) == RoundStep(t, sign, rule, i, f, r, n)
           Upto(r, k) == r = [n \in N |-> r[n]] /\ \A n \in N : n < k => r[n] = Step(r, n)
           S == {k \in Nat : \E r : Upto(r, k)}
<1>1. 0 \in S
  <2>1. Upto([n \in N |-> Fail], 0)
    BY DEF IsText
  <2> QED BY <2>1
<1>2. ASSUME NEW k \in Nat, k \in S PROVE k + 1 \in S
  <2>1. PICK r : Upto(r, k)
    BY <1>2
  <2> DEFINE g == [n \in N |-> Step(r, n)]
  <2>2. ASSUME NEW n \in N, n < k + 1
        PROVE  g[n] = Step(g, n)
    <3>1. CASE n = 0
      BY <3>1 DEF RoundStep
    <3>2. CASE n # 0
      <4>1. n - 1 \in N /\ n - 1 < k
        BY <3>2, <2>2 DEF IsText
      <4>2. r[n - 1] = g[n - 1]
        BY <4>1, <2>1
      <4>3. g[n] = More(t, sign, rule, r[n - 1], f)
        BY <3>2 DEF RoundStep
      <4> HIDE DEF g
      <4> QED BY <3>2, <4>2, <4>3 DEF RoundStep
    <3> QED BY <3>1, <3>2
  <2>3. g = [n \in N |-> g[n]]
    OBVIOUS
  <2> HIDE DEF g
  <2>4. Upto(g, k + 1)
    BY <2>2, <2>3
  <2> QED BY <2>4
<1>3. Len(t) + 1 \in S
  <2> HIDE DEF S
  <2>1. Len(t) + 1 \in Nat
    BY DEF IsText
  <2>2. \A k \in 0 .. (Len(t) + 1) - 1 : k \in S => k + 1 \in S
    BY <1>2
  <2>3. \A k \in 0 .. Len(t) + 1 : k \in S
    <3> DEFINE m == Len(t) + 1
    <3> HIDE DEF m
    <3> SUFFICES \A k \in 0 .. m : k \in S
      BY DEF m
    <3> QED BY <1>1, <2>1, <2>2, UpTo DEF m
  <2> QED BY <2>1, <2>3
<1>4. PICK r : Upto(r, Len(t) + 1)
  BY <1>3
<1>5. \A n \in N : n < Len(t) + 1
  BY DEF IsText
<1>6. r = [n \in N |-> Step(r, n)]
  BY <1>4, <1>5
<1> QED BY <1>6 DEF Rounds

\* The loop, round by round.
Run(t, sign, rule, i, f, r) ==
    /\ Loop(t, sign, rule, i, f) = r[Len(t)]
    /\ r[0] = f[<<rule, i>>]
    /\ \A n \in 1 .. Len(t) : r[n] = More(t, sign, rule, r[n - 1], f)

LEMMA LoopIs ==
    ASSUME NEW t, IsText(t), NEW sign, NEW rule, NEW i, NEW f
    PROVE  \E r : Run(t, sign, rule, i, f, r)
<1> DEFINE r == CHOOSE r : Rounds(t, sign, rule, i, f, r)
<1>1. Loop(t, sign, rule, i, f) = r[Len(t)]
  BY DEF Loop, Rounds, RoundStep
<1>2. Rounds(t, sign, rule, i, f, r)
  BY RoundsSolvable
<1> HIDE DEF r
<1>3. \A n \in 0 .. Len(t) : r[n] = RoundStep(t, sign, rule, i, f, r, n)
  BY <1>2 DEF Rounds
<1>4. 0 \in 0 .. Len(t) /\ \A n \in 1 .. Len(t) : n \in 0 .. Len(t) /\ n # 0
  BY DEF IsText
<1> QED BY <1>1, <1>3, <1>4 DEF RoundStep, Run

Level(rule) == IF rule = "or" THEN 2 ELSE IF rule = "and" THEN 1 ELSE 0

Rules == {"or", "and", "unary"}

\* How much of the text a call has before it, and how deep it may go at its place.
ToGo(t, rule, i) == 3 * (Len(t) + 1 - i) + Level(rule)

Places(t) == 1 .. Len(t) + 1

\* A result has moved on.
Advances(t, i, result) ==
    result = Fail \/ (result = Read(result.expr, result.next) /\ result.next \in i + 1 .. Len(t) + 1)

\* The calls below one have.
Below3(t, f, rule, i) ==
    \A r \in Rules, k \in Places(t) : ToGo(t, r, k) < ToGo(t, rule, i) => Advances(t, k, f[<<r, k>>])

\* The two loops: what each is over, and the sign that goes on with it.
LoopOver(rule, sub, sign) ==
    (rule = "or" /\ sub = "and" /\ sign = "||") \/ (rule = "and" /\ sub = "unary" /\ sign = "&&")

LEMMA Deeper ==
    ASSUME NEW t, IsText(t), NEW i \in Places(t)
    PROVE  /\ \A rule \in Rules, r \in Rules, k \in Places(t) :
                i < k => ToGo(t, r, k) < ToGo(t, rule, i)
           /\ \A rule, sub, sign : LoopOver(rule, sub, sign) =>
                /\ rule \in Rules /\ sub \in Rules
                /\ ToGo(t, sub, i) < ToGo(t, rule, i)
           /\ \A rule \in Rules : ToGo(t, rule, i) \in 0 .. 3 * Len(t) + 2
<1>1. \A rule : Level(rule) \in 0 .. 2
  BY DEF Level
<1>2. \A rule \in Rules, r \in Rules, k \in Places(t) : i < k => ToGo(t, r, k) < ToGo(t, rule, i)
  BY <1>1 DEF ToGo, Places, IsText
<1>3. \A rule, sub, sign : LoopOver(rule, sub, sign) =>
            rule \in Rules /\ sub \in Rules /\ Level(sub) < Level(rule)
  BY DEF LoopOver, Rules, Level
<1>4. \A rule, sub, sign : LoopOver(rule, sub, sign) => ToGo(t, sub, i) < ToGo(t, rule, i)
  BY <1>1, <1>3 DEF ToGo, Places, IsText
<1>5. \A rule \in Rules : ToGo(t, rule, i) \in 0 .. 3 * Len(t) + 2
  BY <1>1 DEF ToGo, Places, IsText
<1> QED BY <1>2, <1>3, <1>4, <1>5

LEMMA MoreAdvances ==
    ASSUME NEW t, IsText(t), NEW i \in Places(t), NEW rule, NEW sub, NEW sign, LoopOver(rule, sub, sign),
           NEW f, Below3(t, f, rule, i), NEW left, Advances(t, i, left)
    PROVE  Advances(t, i, More(t, sign, sub, left, f))
<1> DEFINE right == f[<<sub, left.next + 1>>]
<1>1. CASE left = Fail \/ At(t, left.next) # Sign(sign)
  <2>1. More(t, sign, sub, left, f) = left
    BY <1>1 DEF More
  <2> QED BY <2>1
<1>2. CASE ~ (left = Fail \/ At(t, left.next) # Sign(sign))
  <2>1. left.next \in i + 1 .. Len(t) + 1 /\ left.next \in Nat
    BY <1>2 DEF Advances, Places, IsText
  <2>2. left.next <= Len(t)
    BY <1>2, <2>1, Stands
  <2>3. left.next + 1 \in Places(t) /\ i < left.next + 1
    BY <2>1, <2>2 DEF Places, IsText
  <2>4. Advances(t, left.next + 1, right)
    BY <2>3, Deeper DEF Below3
  <2>5. CASE right = Fail
    <3>1. More(t, sign, sub, left, f) = Fail
      BY <1>2, <2>5 DEF More
    <3> QED BY <3>1 DEF Advances
  <2>6. CASE right # Fail
    <3> DEFINE e == Node(sign, <<left.expr, right.expr>>)
    <3>1. More(t, sign, sub, left, f) = Read(e, right.next)
      BY <1>2, <2>6 DEF More
    <3>2. right.next \in (left.next + 1) + 1 .. Len(t) + 1
      BY <2>4, <2>6 DEF Advances
    <3>3. right.next \in i + 1 .. Len(t) + 1
      BY <2>1, <3>2 DEF Places, IsText
    <3> HIDE DEF e, right
    <3> QED BY <3>1, <3>3, Marks DEF Advances
  <2> QED BY <2>5, <2>6
<1> QED BY <1>1, <1>2

\* A loop and one whose calls below are the same go the same rounds.
LEMMA LoopAlike ==
    ASSUME NEW t, IsText(t), NEW i \in Places(t), NEW rule, NEW sub, NEW sign, LoopOver(rule, sub, sign),
           NEW f, Below3(t, f, rule, i),
           NEW g, \A r \in Rules, k \in Places(t) :
                    ToGo(t, r, k) < ToGo(t, rule, i) => f[<<r, k>>] = g[<<r, k>>]
    PROVE  /\ Loop(t, sign, sub, i, f) = Loop(t, sign, sub, i, g)
           /\ Advances(t, i, Loop(t, sign, sub, i, f))
<1> DEFINE n == Len(t)
<1>1. PICK r : Run(t, sign, sub, i, f, r)
  BY LoopIs
<1>2. PICK s : Run(t, sign, sub, i, g, s)
  BY LoopIs
<1> DEFINE S == {k \in Nat : r[k] = s[k] /\ Advances(t, i, r[k])}
<1>3. 0 \in S
  <2>1. sub \in Rules /\ ToGo(t, sub, i) < ToGo(t, rule, i)
    BY Deeper
  <2>2. f[<<sub, i>>] = g[<<sub, i>>] /\ Advances(t, i, f[<<sub, i>>])
    BY <2>1 DEF Below3
  <2> QED BY <1>1, <1>2, <2>2 DEF Run
<1>4. ASSUME NEW k \in 0 .. n - 1, k \in S PROVE k + 1 \in S
  <2>1. r[k] = s[k] /\ Advances(t, i, r[k])
    BY <1>4
  <2>2. k + 1 \in 1 .. n /\ (k + 1) - 1 = k /\ k + 1 \in Nat
    BY DEF IsText
  <2>3. r[k + 1] = More(t, sign, sub, r[k], f) /\ s[k + 1] = More(t, sign, sub, r[k], g)
    BY <1>1, <1>2, <2>1, <2>2 DEF Run
  <2>4. Advances(t, i, r[k + 1])
    BY <2>1, <2>3, MoreAdvances
  <2>5. r[k + 1] = s[k + 1]
    <3> DEFINE left == r[k]
    <3>1. CASE left = Fail \/ At(t, left.next) # Sign(sign)
      BY <2>3, <3>1 DEF More
    <3>2. CASE ~ (left = Fail \/ At(t, left.next) # Sign(sign))
      <4>1. left.next \in i + 1 .. Len(t) + 1 /\ left.next \in Nat
        BY <2>1, <3>2 DEF Advances, Places, IsText
      <4>2. left.next <= Len(t)
        BY <3>2, <4>1, Stands
      <4>3. left.next + 1 \in Places(t) /\ i < left.next + 1
        BY <4>1, <4>2 DEF Places, IsText
      <4>4. f[<<sub, left.next + 1>>] = g[<<sub, left.next + 1>>]
        BY <4>3, Deeper
      <4> HIDE DEF left
      <4>5. More(t, sign, sub, left, f) = More(t, sign, sub, left, g)
        BY <4>4 DEF More
      <4> QED BY <2>3, <4>5 DEF left
    <3> QED BY <3>1, <3>2
  <2> QED BY <2>2, <2>4, <2>5
<1>5. n \in Nat
  BY DEF IsText
<1>6. n \in S
  <2> HIDE DEF S, n
  <2>1. \A k \in 0 .. n - 1 : k \in S => k + 1 \in S
    BY <1>4
  <2>2. \A k \in 0 .. n : k \in S
    BY <1>3, <1>5, <2>1, UpTo
  <2> QED BY <1>5, <2>2
<1> QED BY <1>1, <1>2, <1>6 DEF Run

LEMMA OperandAdvances ==
    ASSUME NEW t, IsText(t), NEW i \in Nat
    PROVE  /\ parse_operand(t, i) # Fail <=> i <= Len(t) /\ IsOperand(t[i])
           /\ parse_operand(t, i) # Fail => parse_operand(t, i) = Read(Leaf(t[i]), i + 1)
BY Marks DEF parse_operand

\* What a place that holds no parenthesis reads.
LEMMA PrimaryIs ==
    ASSUME NEW t, IsText(t), NEW i \in Places(t), NEW f, At(t, i) # Sign("(")
    PROVE  LET compares(s) == /\ i + 2 <= Len(t) /\ IsOperand(t[i]) /\ IsOperand(t[i + 2])
                              /\ t[i + 1] = Sign(s)
               P == parse_primary(t, i, f)
           IN  /\ \A s \in {"==", "!="} : compares(s) =>
                    P = Read(Node(s, <<Leaf(t[i]), Leaf(t[i + 2])>>), i + 3)
               /\ /\ i <= Len(t) /\ IsOperand(t[i]) /\ StandsAlone(t[i])
                  /\ At(t, i + 1) \notin {Sign("=="), Sign("!=")}
                  => P = Read(Leaf(t[i]), i + 1)
               /\ \/ P = Fail
                  \/ \E s \in {"==", "!="} :
                        compares(s) /\ P = Read(Node(s, <<Leaf(t[i]), Leaf(t[i + 2])>>), i + 3)
                  \/ /\ i <= Len(t) /\ IsOperand(t[i]) /\ StandsAlone(t[i])
                     /\ P = Read(Leaf(t[i]), i + 1)
<1> DEFINE compares(s) == /\ i + 2 <= Len(t) /\ IsOperand(t[i]) /\ IsOperand(t[i + 2])
                          /\ t[i + 1] = Sign(s)
           P == parse_primary(t, i, f)
           left == parse_operand(t, i)
           right == parse_operand(t, i + 2)
           compared(s) == Read(Node(s, <<Leaf(t[i]), Leaf(t[i + 2])>>), i + 3)
           Against(s) == IF right = Fail THEN Fail ELSE Read(Node(s, <<left.expr, right.expr>>), i + 3)
<1>1. P = IF left = Fail THEN Fail
          ELSE IF At(t, i + 1) = Sign("==") THEN Against("==")
          ELSE IF At(t, i + 1) = Sign("!=") THEN Against("!=")
          ELSE IF StandsAlone(t[i]) THEN left ELSE Fail
  BY DEF parse_primary
<1>2. /\ left # Fail <=> i <= Len(t) /\ IsOperand(t[i])
      /\ left # Fail => left = Read(Leaf(t[i]), i + 1)
  BY OperandAdvances DEF Places
<1>3. /\ right # Fail <=> i + 2 <= Len(t) /\ IsOperand(t[i + 2])
      /\ right # Fail => right = Read(Leaf(t[i + 2]), (i + 2) + 1)
  BY OperandAdvances DEF Places
<1>4. left # Fail => left.expr = Leaf(t[i])
  BY <1>2, Marks
<1>5. right # Fail => right.expr = Leaf(t[i + 2])
  BY <1>3, Marks
<1>6. \A s : left # Fail => Against(s) = IF right = Fail THEN Fail ELSE compared(s)
  BY <1>4, <1>5
<1>7. Sign("==") # Sign("!=")
  BY Marks
<1>8. i + 2 <= Len(t) => i <= Len(t) /\ i + 1 <= Len(t)
  BY DEF Places, IsText
<1>9. \A s : At(t, i + 1) = Sign(s) => t[i + 1] = Sign(s)
  BY Marks DEF At
<1>10. i + 1 <= Len(t) => At(t, i + 1) = t[i + 1]
  BY DEF At
<1> HIDE DEF P, left, right, compared, Against
<1>11. ASSUME NEW s \in {"==", "!="}, compares(s)
       PROVE  P = compared(s)
  <2>1. left # Fail /\ right # Fail /\ At(t, i + 1) = Sign(s)
    BY <1>2, <1>3, <1>8, <1>10, <1>11
  <2> QED BY <1>1, <1>6, <1>7, <2>1
<1>12. ASSUME i <= Len(t), IsOperand(t[i]), StandsAlone(t[i]),
              At(t, i + 1) \notin {Sign("=="), Sign("!=")}
       PROVE  P = Read(Leaf(t[i]), i + 1)
  BY <1>1, <1>2, <1>12
<1>13. \/ P = Fail
       \/ \E s \in {"==", "!="} : compares(s) /\ P = compared(s)
       \/ /\ i <= Len(t) /\ IsOperand(t[i]) /\ StandsAlone(t[i])
          /\ P = Read(Leaf(t[i]), i + 1)
  <2>1. CASE left = Fail
    BY <1>1, <2>1
  <2>2. ASSUME left # Fail, NEW s \in {"==", "!="}, At(t, i + 1) = Sign(s)
        PROVE  P = Fail \/ (compares(s) /\ P = compared(s))
    <3>1. P = Against(s)
      BY <1>1, <1>7, <2>2
    <3>2. CASE right = Fail
      BY <1>6, <2>2, <3>1, <3>2
    <3>3. CASE right # Fail
      <4>1. compares(s)
        BY <1>2, <1>3, <1>9, <2>2, <3>3
      <4>2. P = compared(s)
        BY <1>6, <2>2, <3>1, <3>3
      <4> QED BY <4>1, <4>2
    <3> QED BY <3>2, <3>3
  <2>3. CASE left # Fail /\ At(t, i + 1) \notin {Sign("=="), Sign("!=")}
    BY <1>1, <1>2, <2>3
  <2> HIDE DEF compares
  <2> QED BY <2>1, <2>2, <2>3
<1> QED BY <1>11, <1>12, <1>13 DEF P, compared

LEMMA UnaryAlike ==
    ASSUME NEW t, IsText(t), NEW i \in Places(t), NEW f, Below3(t, f, "unary", i),
           NEW g, \A r \in Rules, k \in Places(t) :
                    ToGo(t, r, k) < ToGo(t, "unary", i) => f[<<r, k>>] = g[<<r, k>>]
    PROVE  /\ parse_unary(t, i, f) = parse_unary(t, i, g)
           /\ Advances(t, i, parse_unary(t, i, f))
<1>1. ASSUME NEW r \in Rules, i <= Len(t)
      PROVE  f[<<r, i + 1>>] = g[<<r, i + 1>>] /\ Advances(t, i + 1, f[<<r, i + 1>>])
  <2>1. i + 1 \in Places(t) /\ i < i + 1
    BY <1>1 DEF Places, IsText
  <2>2. ToGo(t, r, i + 1) < ToGo(t, "unary", i)
    BY <2>1, Deeper DEF Rules
  <2> QED BY <2>1, <2>2 DEF Below3
<1>2. i \in Nat
  BY DEF Places
<1>3. "or" \in Rules /\ "unary" \in Rules
  BY DEF Rules
<1>4. CASE At(t, i) = Sign("!")
  <2> DEFINE inner == f[<<"unary", i + 1>>]
  <2>1. i <= Len(t)
    BY <1>2, <1>4, Stands
  <2>2. inner = g[<<"unary", i + 1>>] /\ Advances(t, i + 1, inner)
    BY <1>1, <1>3, <2>1
  <2> HIDE DEF inner
  <2>3. parse_unary(t, i, f) = IF inner = Fail THEN Fail ELSE Read(Node("!", <<inner.expr>>), inner.next)
    BY <1>4 DEF parse_unary, inner
  <2>4. parse_unary(t, i, g) = IF inner = Fail THEN Fail ELSE Read(Node("!", <<inner.expr>>), inner.next)
    BY <1>4, <2>2 DEF parse_unary
  <2>5. inner # Fail => inner.next \in i + 1 .. Len(t) + 1
    BY <1>2, <2>2 DEF Advances, IsText
  <2> DEFINE e == Node("!", <<inner.expr>>)
  <2> HIDE DEF e
  <2>6. Advances(t, i, parse_unary(t, i, f))
    BY <2>3, <2>5, Marks DEF Advances, e
  <2> QED BY <2>3, <2>4, <2>6
<1>5. CASE At(t, i) # Sign("!") /\ At(t, i) = Sign("(")
  <2> DEFINE inner == f[<<"or", i + 1>>]
             P == IF inner # Fail /\ At(t, inner.next) = Sign(")")
                  THEN Read(inner.expr, inner.next + 1) ELSE Fail
  <2>1. i <= Len(t)
    BY <1>2, <1>5, Stands
  <2>2. inner = g[<<"or", i + 1>>] /\ Advances(t, i + 1, inner)
    BY <1>1, <1>3, <2>1
  <2> HIDE DEF inner
  <2>3. parse_unary(t, i, f) = P
    BY <1>5 DEF parse_unary, parse_primary, inner
  <2>4. parse_unary(t, i, g) = P
    BY <1>5, <2>2 DEF parse_unary, parse_primary
  <2>5. Advances(t, i, P)
    <3>1. CASE inner # Fail /\ At(t, inner.next) = Sign(")")
      <4>1. inner.next \in (i + 1) + 1 .. Len(t) + 1 /\ inner.next \in Nat
        BY <1>2, <2>2, <3>1 DEF Advances, IsText
      <4>2. inner.next <= Len(t)
        BY <3>1, <4>1, Stands
      <4>3. inner.next + 1 \in i + 1 .. Len(t) + 1
        BY <1>2, <4>1, <4>2 DEF IsText
      <4> QED BY <3>1, <4>3, Marks DEF Advances
    <3>2. CASE ~ (inner # Fail /\ At(t, inner.next) = Sign(")"))
      BY <3>2 DEF Advances
    <3> QED BY <3>1, <3>2
  <2> QED BY <2>3, <2>4, <2>5
<1>6. CASE At(t, i) # Sign("!") /\ At(t, i) # Sign("(")
  <2> DEFINE P == parse_primary(t, i, f)
  <2>1. parse_unary(t, i, f) = P /\ parse_unary(t, i, g) = P
    BY <1>6 DEF parse_unary, parse_primary
  <2>2. Advances(t, i, P)
    <3>1. CASE P = Fail
      BY <3>1 DEF Advances
    <3>2. CASE \E e : i + 2 <= Len(t) /\ P = Read(e, i + 3)
      <4>1. i + 2 <= Len(t) /\ P = Read(P.expr, P.next) /\ P.next = i + 3
        BY <3>2, Marks
      <4>2. i + 3 \in i + 1 .. Len(t) + 1
        BY <1>2, <4>1 DEF IsText
      <4> HIDE DEF P
      <4> QED BY <4>1, <4>2 DEF Advances
    <3>3. CASE \E e : i <= Len(t) /\ P = Read(e, i + 1)
      <4>1. i <= Len(t) /\ P = Read(P.expr, P.next) /\ P.next = i + 1
        BY <3>3, Marks
      <4>2. i + 1 \in i + 1 .. Len(t) + 1
        BY <1>2, <4>1 DEF IsText
      <4> HIDE DEF P
      <4> QED BY <4>1, <4>2 DEF Advances
    <3> QED BY <1>6, <3>1, <3>2, <3>3, PrimaryIs
  <2> QED BY <2>1, <2>2
<1> QED BY <1>4, <1>5, <1>6

\* What a call reads depends on the calls below it alone; where these move on,
\* so does it.
LEMMA CallAlike ==
    ASSUME NEW t, IsText(t), NEW rule \in Rules, NEW i \in Places(t), NEW f, Below3(t, f, rule, i),
           NEW g, \A r \in Rules, k \in Places(t) :
                    ToGo(t, r, k) < ToGo(t, rule, i) => f[<<r, k>>] = g[<<r, k>>]
    PROVE  /\ Call(t, rule, i, f) = Call(t, rule, i, g)
           /\ Advances(t, i, Call(t, rule, i, f))
<1>1. CASE rule = "or"
  <2>1. LoopOver(rule, "and", "||")
    BY <1>1 DEF LoopOver
  <2>2. /\ Loop(t, "||", "and", i, f) = Loop(t, "||", "and", i, g)
        /\ Advances(t, i, Loop(t, "||", "and", i, f))
    BY <2>1, LoopAlike
  <2> QED BY <1>1, <2>2 DEF Call, parse_or
<1>2. CASE rule = "and"
  <2>1. LoopOver(rule, "unary", "&&")
    BY <1>2 DEF LoopOver
  <2>2. /\ Loop(t, "&&", "unary", i, f) = Loop(t, "&&", "unary", i, g)
        /\ Advances(t, i, Loop(t, "&&", "unary", i, f))
    BY <2>1, LoopAlike
  <2> QED BY <1>2, <2>2 DEF Call, parse_and
<1>3. CASE rule = "unary"
  <2>1. /\ parse_unary(t, i, f) = parse_unary(t, i, g)
        /\ Advances(t, i, parse_unary(t, i, f))
    BY <1>3, UnaryAlike
  <2> QED BY <1>3, <2>1 DEF Call
<1> QED BY <1>1, <1>2, <1>3 DEF Rules

Parses(t, f) == f = [start \in Starts(t) |-> Call(t, start[1], start[2], f)]

LEMMA StartsAre ==
    ASSUME NEW t
    PROVE  /\ \A r \in Rules, k \in Places(t) : <<r, k>> \in Starts(t)
           /\ \A start \in Starts(t) : start[1] \in Rules /\ start[2] \in Places(t)
                                       /\ start = <<start[1], start[2]>>
BY DEF Starts, Rules, Places

LEMMA ParsesSolvable ==
    ASSUME NEW t, IsText(t)
    PROVE  \E f : Parses(t, f)
<1> DEFINE S == Starts(t)
           Step(f, x) == Call(t, x[1], x[2], f)
           m(x) == ToGo(t, x[1], x[2])
           Upto(f, n) == /\ f = [x \in S |-> f[x]]
                         /\ \A x \in S : m(x) < n => f[x] = Step(f, x) /\ Advances(t, x[2], f[x])
           N == {n \in Nat : \E f : Upto(f, n)}
           last == 3 * Len(t) + 3
<1>1. \A x \in S : m(x) \in Nat /\ m(x) < last
  <2>1. \A x \in S : m(x) \in 0 .. 3 * Len(t) + 2
    BY StartsAre, Deeper
  <2> HIDE DEF S, m
  <2> QED BY <2>1 DEF IsText
<1>2. 0 \in N
  <2> DEFINE f == [x \in S |-> Fail]
  <2>1. f = [x \in S |-> f[x]]
    OBVIOUS
  <2>2. \A x \in S : ~ (m(x) < 0)
    BY <1>1
  <2> HIDE DEF f, S, m
  <2>3. Upto(f, 0)
    BY <2>1, <2>2
  <2> QED BY <2>3
<1>3. ASSUME NEW n \in Nat, n \in N PROVE n + 1 \in N
  <2>1. PICK f : Upto(f, n)
    BY <1>3
  <2> DEFINE g == [x \in S |-> Step(f, x)]
  <2>2. g = [x \in S |-> g[x]]
    OBVIOUS
  <2>3. ASSUME NEW x \in S, m(x) < n + 1
        PROVE  g[x] = Step(g, x) /\ Advances(t, x[2], g[x])
    <3>1. x[1] \in Rules /\ x[2] \in Places(t)
      BY StartsAre
    <3>2. ASSUME NEW r \in Rules, NEW k \in Places(t), ToGo(t, r, k) < ToGo(t, x[1], x[2])
          PROVE  f[<<r, k>>] = g[<<r, k>>] /\ Advances(t, k, f[<<r, k>>])
      <4>1. <<r, k>> \in S /\ <<r, k>>[1] = r /\ <<r, k>>[2] = k
        BY StartsAre
      <4>2. m(<<r, k>>) < m(x)
        BY <3>2
      <4>3. m(<<r, k>>) < n
        <5>1. m(<<r, k>>) \in Nat /\ m(x) \in Nat
          BY <1>1, <4>1
        <5> HIDE DEF m
        <5> QED BY <5>1, <4>2, <2>3
      <4> DEFINE y == <<r, k>>
      <4> HIDE DEF y, m, S
      <4>4. y \in S /\ y[2] = k /\ m(y) < n
        BY <4>1, <4>3 DEF y
      <4>5. f[y] = Step(f, y) /\ Advances(t, k, f[y])
        BY <2>1, <4>4
      <4>6. g[y] = Step(f, y)
        BY <4>4
      <4> QED BY <4>5, <4>6 DEF y
    <3> HIDE DEF g
    <3>3. /\ Below3(t, f, x[1], x[2])
          /\ \A r \in Rules, k \in Places(t) :
                ToGo(t, r, k) < ToGo(t, x[1], x[2]) => f[<<r, k>>] = g[<<r, k>>]
      BY <3>2 DEF Below3
    <3>4. /\ Call(t, x[1], x[2], f) = Call(t, x[1], x[2], g)
          /\ Advances(t, x[2], Call(t, x[1], x[2], f))
      BY <3>1, <3>3, CallAlike
    <3>5. g[x] = Call(t, x[1], x[2], f)
      BY DEF g
    <3> QED BY <3>4, <3>5
  <2> HIDE DEF g, S, m
  <2>4. Upto(g, n + 1)
    BY <2>2, <2>3
  <2> QED BY <2>4
<1>4. last \in N
  <2>1. last \in Nat
    BY DEF IsText
  <2> HIDE DEF N, last
  <2>2. \A k \in 0 .. last - 1 : k \in N => k + 1 \in N
    BY <1>3
  <2>3. \A k \in 0 .. last : k \in N
    BY <1>2, <2>1, <2>2, UpTo
  <2> QED BY <2>1, <2>3
<1>5. PICK f : Upto(f, last)
  BY <1>4
<1>6. f = [x \in S |-> f[x]] /\ \A x \in S : f[x] = Step(f, x)
  <2> HIDE DEF last, m, S
  <2> QED BY <1>1, <1>5
<1>7. f = [x \in S |-> Step(f, x)]
  <2> DEFINE g == [x \in S |-> Step(f, x)]
  <2> HIDE DEF S
  <2>1. [x \in S |-> f[x]] = g
    BY <1>6
  <2> QED BY <1>6, <2>1
<1> QED BY <1>7 DEF Parses

\* The parser's results: what each of its calls reads.
LEMMA ParsedIs ==
    ASSUME NEW t, IsText(t)
    PROVE  \E f : /\ Parsed(t) = f[<<"or", 1>>]
                  /\ \A rule \in Rules, i \in Places(t) : f[<<rule, i>>] = Call(t, rule, i, f)
<1> DEFINE f == CHOOSE f : Parses(t, f)
<1>1. Parsed(t) = f[<<"or", 1>>]
  BY DEF Parsed, Parses
<1>2. Parses(t, f)
  BY ParsesSolvable
<1> HIDE DEF f
<1>3. \A x \in Starts(t) : f[x] = Call(t, x[1], x[2], f)
  BY <1>2 DEF Parses
<1>4. ASSUME NEW rule \in Rules, NEW i \in Places(t)
      PROVE  f[<<rule, i>>] = Call(t, rule, i, f)
  <2>1. <<rule, i>> \in Starts(t) /\ <<rule, i>>[1] = rule /\ <<rule, i>>[2] = i
    BY StartsAre
  <2> DEFINE x == <<rule, i>>
  <2> HIDE DEF x
  <2>2. x \in Starts(t) /\ x[1] = rule /\ x[2] = i
    BY <2>1 DEF x
  <2>3. f[x] = Call(t, rule, i, f)
    BY <1>3, <2>2
  <2> QED BY <2>3 DEF x
<1> QED BY <1>1, <1>4

-----------------------------------------------------------------------------
(* What the grammar derives                                                  *)

Kinds == {"or", "and", "unary", "primary"}

Height(rule) ==
    IF rule = "or" THEN 3 ELSE IF rule = "and" THEN 2 ELSE IF rule = "unary" THEN 1 ELSE 0

\* How much text a span holds, and how deep it may go there.
Extent(rule, i, j) == (IF i < j THEN 4 * (j - i) ELSE 0) + Height(rule)

LEMMA ExtentIs ==
    ASSUME NEW t, IsText(t), NEW i \in Places(t), NEW j \in Places(t)
    PROVE  /\ \A rule \in Kinds : Extent(rule, i, j) \in 0 .. 4 * Len(t) + 3
           /\ \A rule \in Kinds, r \in Kinds, k \in Places(t), l \in Places(t) :
                i < j /\ l - k < j - i => Extent(r, k, l) < Extent(rule, i, j)
           /\ Extent("and", i, j) < Extent("or", i, j)
           /\ Extent("unary", i, j) < Extent("and", i, j)
           /\ Extent("primary", i, j) < Extent("unary", i, j)
<1>1. \A rule : Height(rule) \in 0 .. 3
  BY DEF Height
<1>2. Height("and") < Height("or") /\ Height("unary") < Height("and") /\ Height("primary") < Height("unary")
  BY DEF Height
<1> HIDE DEF Height
<1>3. \A rule \in Kinds : Extent(rule, i, j) \in 0 .. 4 * Len(t) + 3
  BY <1>1 DEF Extent, Places, IsText
<1>4. \A rule \in Kinds, r \in Kinds, k \in Places(t), l \in Places(t) :
        i < j /\ l - k < j - i => Extent(r, k, l) < Extent(rule, i, j)
  BY <1>1 DEF Extent, Places, IsText
<1>5. /\ Extent("and", i, j) < Extent("or", i, j)
      /\ Extent("unary", i, j) < Extent("and", i, j)
      /\ Extent("primary", i, j) < Extent("unary", i, j)
  BY <1>1, <1>2 DEF Extent, Places, IsText
<1> QED BY <1>3, <1>4, <1>5

\* What a span derives depends on the spans below it alone.
Same3(t, rule, i, j, f, g) ==
    \A r \in Kinds, k \in Places(t), l \in Places(t) :
        Extent(r, k, l) < Extent(rule, i, j) => f[<<r, k, l>>] = g[<<r, k, l>>]

LEMMA SplitAlike ==
    ASSUME NEW t, IsText(t), NEW i \in Places(t), NEW j \in Places(t), NEW left \in Kinds, NEW right \in Kinds,
           NEW rule \in Kinds, NEW sign, NEW f, NEW g, Same3(t, rule, i, j, f, g)
    PROVE  Split(t, left, sign, right, i, j, f) = Split(t, left, sign, right, i, j, g)
<1> DEFINE K == {n \in i + 1 .. j - 2 : t[n] = Sign(sign)}
<1>1. ASSUME NEW k \in K
      PROVE  f[<<left, i, k>>] = g[<<left, i, k>>] /\ f[<<right, k + 1, j>>] = g[<<right, k + 1, j>>]
  <2>1. k \in Int /\ i < k /\ k + 1 < j
    BY DEF Places, IsText
  <2>2. k \in Places(t) /\ k + 1 \in Places(t) /\ i < j /\ k - i < j - i /\ j - (k + 1) < j - i
    BY <2>1 DEF Places, IsText
  <2>3. Extent(left, i, k) < Extent(rule, i, j) /\ Extent(right, k + 1, j) < Extent(rule, i, j)
    BY <2>2, ExtentIs
  <2> QED BY <2>2, <2>3 DEF Same3
<1>2. \A k \in K : Joined(sign, f[<<left, i, k>>], f[<<right, k + 1, j>>])
                 = Joined(sign, g[<<left, i, k>>], g[<<right, k + 1, j>>])
  BY <1>1
<1> HIDE DEF K
<1>3. UNION {Joined(sign, f[<<left, i, k>>], f[<<right, k + 1, j>>]) : k \in K}
    = UNION {Joined(sign, g[<<left, i, k>>], g[<<right, k + 1, j>>]) : k \in K}
  BY <1>2
<1>4. /\ Split(t, left, sign, right, i, j, f)
           = UNION {Joined(sign, f[<<left, i, k>>], f[<<right, k + 1, j>>]) : k \in K}
      /\ Split(t, left, sign, right, i, j, g)
           = UNION {Joined(sign, g[<<left, i, k>>], g[<<right, k + 1, j>>]) : k \in K}
  BY DEF Split, K
<1> QED BY <1>3, <1>4

LEMMA DerivesAlike ==
    ASSUME NEW t, IsText(t), NEW rule \in Kinds, NEW i \in Places(t), NEW j \in Places(t), NEW f, NEW g,
           Same3(t, rule, i, j, f, g)
    PROVE  Derives(t, rule, i, j, f) = Derives(t, rule, i, j, g)
<1>0. {"or", "and", "unary", "primary"} = Kinds
  BY DEF Kinds
<1>1. CASE rule = "or"
  <2>1. f[<<"and", i, j>>] = g[<<"and", i, j>>]
    BY <1>0, <1>1, ExtentIs DEF Same3
  <2>2. Split(t, "or", "||", "and", i, j, f) = Split(t, "or", "||", "and", i, j, g)
    BY <1>0, SplitAlike
  <2> QED BY <1>1, <2>1, <2>2 DEF Derives
<1>2. CASE rule = "and"
  <2>1. f[<<"unary", i, j>>] = g[<<"unary", i, j>>]
    BY <1>0, <1>2, ExtentIs DEF Same3
  <2>2. Split(t, "and", "&&", "unary", i, j, f) = Split(t, "and", "&&", "unary", i, j, g)
    BY <1>0, SplitAlike
  <2> QED BY <1>2, <2>1, <2>2 DEF Derives
<1>3. CASE rule = "unary"
  <2>1. f[<<"primary", i, j>>] = g[<<"primary", i, j>>]
    BY <1>0, <1>3, ExtentIs DEF Same3
  <2>2. i < j => f[<<"unary", i + 1, j>>] = g[<<"unary", i + 1, j>>]
    <3>1. i < j => i + 1 \in Places(t) /\ j - (i + 1) < j - i
      BY DEF Places, IsText
    <3>2. i < j => Extent("unary", i + 1, j) < Extent(rule, i, j)
      BY <3>1, <1>0, ExtentIs
    <3> QED BY <1>0, <3>1, <3>2 DEF Same3
  <2>3. i < j => Negated(t, i, j, f) = Negated(t, i, j, g)
    BY <2>2 DEF Negated
  <2> QED BY <1>3, <2>1, <2>3 DEF Derives
<1>4. CASE rule = "primary"
  <2>1. i + 2 < j => f[<<"or", i + 1, j - 1>>] = g[<<"or", i + 1, j - 1>>]
    <3>1. i + 2 < j => /\ i + 1 \in Places(t) /\ j - 1 \in Places(t) /\ i < j
                       /\ (j - 1) - (i + 1) < j - i
      BY DEF Places, IsText
    <3>2. i + 2 < j => Extent("or", i + 1, j - 1) < Extent(rule, i, j)
      BY <3>1, <1>0, ExtentIs
    <3> QED BY <1>0, <3>1, <3>2 DEF Same3
  <2> QED BY <1>4, <2>1 DEF Derives
<1> QED BY <1>1, <1>2, <1>3, <1>4 DEF Kinds

Grown(t, d) == d = [span \in Spans(t) |-> Derives(t, span[1], span[2], span[3], d)]

LEMMA SpansAre ==
    ASSUME NEW t
    PROVE  /\ \A r \in Kinds, k \in Places(t), l \in Places(t) :
                /\ <<r, k, l>> \in Spans(t)
                /\ <<r, k, l>>[1] = r /\ <<r, k, l>>[2] = k /\ <<r, k, l>>[3] = l
           /\ \A x \in Spans(t) : x[1] \in Kinds /\ x[2] \in Places(t) /\ x[3] \in Places(t)
BY DEF Spans, Kinds, Places

LEMMA GrownSolvable ==
    ASSUME NEW t, IsText(t)
    PROVE  \E d : Grown(t, d)
<1> DEFINE S == Spans(t)
           Step(d, x) == Derives(t, x[1], x[2], x[3], d)
           m(x) == Extent(x[1], x[2], x[3])
           Upto(d, n) == d = [x \in S |-> d[x]] /\ \A x \in S : m(x) < n => d[x] = Step(d, x)
           N == {n \in Nat : \E d : Upto(d, n)}
           last == 4 * Len(t) + 4
<1>1. \A x \in S : m(x) \in Nat /\ m(x) < last
  <2>1. \A x \in S : m(x) \in 0 .. 4 * Len(t) + 3
    BY SpansAre, ExtentIs
  <2> HIDE DEF S, m
  <2> QED BY <2>1 DEF IsText
<1>2. 0 \in N
  <2> DEFINE d == [x \in S |-> {}]
  <2>1. d = [x \in S |-> d[x]]
    OBVIOUS
  <2>2. \A x \in S : ~ (m(x) < 0)
    BY <1>1
  <2> HIDE DEF d, S, m
  <2>3. Upto(d, 0)
    BY <2>1, <2>2
  <2> QED BY <2>3
<1>3. ASSUME NEW n \in Nat, n \in N PROVE n + 1 \in N
  <2>1. PICK d : Upto(d, n)
    BY <1>3
  <2> DEFINE g == [x \in S |-> Step(d, x)]
  <2>2. g = [x \in S |-> g[x]]
    OBVIOUS
  <2>3. ASSUME NEW x \in S, m(x) < n + 1
        PROVE  g[x] = Step(g, x)
    <3>1. x[1] \in Kinds /\ x[2] \in Places(t) /\ x[3] \in Places(t)
      BY SpansAre
    <3>2. ASSUME NEW r \in Kinds, NEW k \in Places(t), NEW l \in Places(t),
                 Extent(r, k, l) < Extent(x[1], x[2], x[3])
          PROVE  d[<<r, k, l>>] = g[<<r, k, l>>]
      <4> DEFINE y == <<r, k, l>>
      <4>1. y \in S /\ y[1] = r /\ y[2] = k /\ y[3] = l
        BY SpansAre
      <4> HIDE DEF y
      <4>2. m(y) < m(x)
        BY <3>2, <4>1
      <4>3. m(y) \in Nat /\ m(x) \in Nat
        BY <1>1, <4>1
      <4> HIDE DEF m, S
      <4>4. m(y) < n
        BY <4>2, <4>3, <2>3
      <4>5. d[y] = Step(d, y)
        BY <2>1, <4>1, <4>4
      <4>6. g[y] = Step(d, y)
        BY <4>1
      <4> QED BY <4>5, <4>6 DEF y
    <3> HIDE DEF g
    <3>3. Same3(t, x[1], x[2], x[3], d, g)
      BY <3>2 DEF Same3
    <3>4. Derives(t, x[1], x[2], x[3], d) = Derives(t, x[1], x[2], x[3], g)
      BY <3>1, <3>3, DerivesAlike
    <3>5. g[x] = Step(d, x)
      BY DEF g
    <3> QED BY <3>4, <3>5
  <2> HIDE DEF g, S, m
  <2>4. Upto(g, n + 1)
    BY <2>2, <2>3
  <2> QED BY <2>4
<1>4. last \in N
  <2>1. last \in Nat
    BY DEF IsText
  <2> HIDE DEF N, last
  <2>2. \A k \in 0 .. last - 1 : k \in N => k + 1 \in N
    BY <1>3
  <2>3. \A k \in 0 .. last : k \in N
    BY <1>2, <2>1, <2>2, UpTo
  <2> QED BY <2>1, <2>3
<1>5. PICK d : Upto(d, last)
  BY <1>4
<1>6. d = [x \in S |-> d[x]] /\ \A x \in S : d[x] = Step(d, x)
  <2> HIDE DEF last, m, S
  <2> QED BY <1>1, <1>5
<1>7. d = [x \in S |-> Step(d, x)]
  <2> DEFINE g == [x \in S |-> Step(d, x)]
  <2> HIDE DEF S
  <2>1. [x \in S |-> d[x]] = g
    BY <1>6
  <2> QED BY <1>6, <2>1
<1> QED BY <1>7 DEF Grown

\* The trees that the grammar has: those each span derives.
LEMMA DerivedIs ==
    ASSUME NEW t, IsText(t)
    PROVE  \E d : /\ Derived(t) = d[<<"or", 1, Len(t) + 1>>]
                  /\ \A rule \in Kinds, i \in Places(t), j \in Places(t) :
                        d[<<rule, i, j>>] = Derives(t, rule, i, j, d)
<1> DEFINE d == CHOOSE d : Grown(t, d)
<1>1. Derived(t) = d[<<"or", 1, Len(t) + 1>>]
  BY DEF Derived, Grown
<1>2. Grown(t, d)
  BY GrownSolvable
<1> HIDE DEF d
<1>3. \A x \in Spans(t) : d[x] = Derives(t, x[1], x[2], x[3], d)
  BY <1>2 DEF Grown
<1>4. ASSUME NEW rule \in Kinds, NEW i \in Places(t), NEW j \in Places(t)
      PROVE  d[<<rule, i, j>>] = Derives(t, rule, i, j, d)
  <2> DEFINE x == <<rule, i, j>>
  <2>1. x \in Spans(t) /\ x[1] = rule /\ x[2] = i /\ x[3] = j
    BY SpansAre
  <2> HIDE DEF x
  <2>2. d[x] = Derives(t, rule, i, j, d)
    BY <1>3, <2>1
  <2> QED BY <2>2 DEF x
<1> QED BY <1>1, <1>4

-----------------------------------------------------------------------------
(* The parser reads what the grammar derives                                 *)

\* The trees of a text, and the results of the calls on it.
Trees(t, d) == \A rule \in Kinds, i \in Places(t), j \in Places(t) :
                    d[<<rule, i, j>>] = Derives(t, rule, i, j, d)

Results(t, f) == \A rule \in Rules, i \in Places(t) : f[<<rule, i>>] = Call(t, rule, i, f)

\* The signs a rule would go on with.
Goes(rule) == IF rule = "or" THEN {"==", "!=", "&&", "||"}
              ELSE IF rule = "and" THEN {"==", "!=", "&&"} ELSE {"==", "!="}

Ended(t, rule, j) == \A s \in Goes(rule) : At(t, j) # Sign(s)

\* What a call reads is derived; and where a tree ends and nothing goes on with
\* it, the call reads that tree.
Reads(t, d, rule, i, result) ==
    result = Fail
        \/ \E j \in i + 1 .. Len(t) + 1 : \E e \in d[<<rule, i, j>>] : result = Read(e, j)

Finds(t, d, rule, i, result) ==
    \A j \in Places(t) : Ended(t, rule, j) => \A e \in d[<<rule, i, j>>] : result = Read(e, j)

Correct(t, d, f, rule, i) ==
    Reads(t, d, rule, i, f[<<rule, i>>]) /\ Finds(t, d, rule, i, f[<<rule, i>>])

LEMMA RuleTrees ==
    ASSUME NEW t, NEW d, Trees(t, d), NEW rule, NEW sub, NEW sign, LoopOver(rule, sub, sign),
           NEW i \in Places(t), NEW j \in Places(t)
    PROVE  d[<<rule, i, j>>] = d[<<sub, i, j>>] \cup Split(t, rule, sign, sub, i, j, d)
<1>1. CASE rule = "or" /\ sub = "and" /\ sign = "||"
  <2>1. d[<<"or", i, j>>] = Derives(t, "or", i, j, d)
    BY DEF Trees, Kinds
  <2> QED BY <1>1, <2>1 DEF Derives
<1>2. CASE rule = "and" /\ sub = "unary" /\ sign = "&&"
  <2>1. d[<<"and", i, j>>] = Derives(t, "and", i, j, d)
    BY DEF Trees, Kinds
  <2> QED BY <1>2, <2>1 DEF Derives
<1> QED BY <1>1, <1>2 DEF LoopOver

Joins(sign, L, M, e) == \E a \in L, b \in M : e = Node(sign, <<a, b>>)

LEMMA JoinedHas ==
    ASSUME NEW sign, NEW L, NEW M, NEW e
    PROVE  e \in Joined(sign, L, M) <=> Joins(sign, L, M, e)
<1>1. ASSUME e \in Joined(sign, L, M)
      PROVE  Joins(sign, L, M, e)
  <2>1. PICK sides \in L \X M : e = Node(sign, sides)
    BY <1>1 DEF Joined
  <2>2. sides[1] \in L /\ sides[2] \in M /\ sides = <<sides[1], sides[2]>>
    OBVIOUS
  <2> QED BY <2>1, <2>2 DEF Joins
<1>2. ASSUME NEW a \in L, NEW b \in M, e = Node(sign, <<a, b>>)
      PROVE  e \in Joined(sign, L, M)
  <2>1. <<a, b>> \in L \X M
    OBVIOUS
  <2> DEFINE sides == <<a, b>>
  <2> HIDE DEF sides
  <2>2. sides \in L \X M /\ e = Node(sign, sides)
    BY <1>2, <2>1 DEF sides
  <2> QED BY <2>2 DEF Joined
<1> QED BY <1>1, <1>2 DEF Joins

Splits(t, left, sign, right, i, j, d, e) ==
    \E k \in i + 1 .. j - 2 :
        t[k] = Sign(sign) /\ Joins(sign, d[<<left, i, k>>], d[<<right, k + 1, j>>], e)

LEMMA SplitHas ==
    ASSUME NEW t, NEW left, NEW sign, NEW right, NEW i, NEW j, NEW d, NEW e
    PROVE  e \in Split(t, left, sign, right, i, j, d) <=> Splits(t, left, sign, right, i, j, d, e)
<1> DEFINE K == {n \in i + 1 .. j - 2 : t[n] = Sign(sign)}
<1>1. e \in Split(t, left, sign, right, i, j, d) <=>
        \E k \in K : e \in Joined(sign, d[<<left, i, k>>], d[<<right, k + 1, j>>])
  BY DEF Split
<1>2. \A k : e \in Joined(sign, d[<<left, i, k>>], d[<<right, k + 1, j>>]) <=>
              Joins(sign, d[<<left, i, k>>], d[<<right, k + 1, j>>], e)
  BY JoinedHas
<1> QED BY <1>1, <1>2 DEF Splits

\* No tree on no text.
LEMMA NoTree ==
    ASSUME NEW t, IsText(t), NEW d, Trees(t, d), NEW i \in Places(t), NEW j \in Places(t), ~ (i < j)
    PROVE  \A rule \in Kinds : d[<<rule, i, j>>] = {}
<1>1. i \in Nat /\ j \in Nat
  BY DEF Places
<1>2. d[<<"primary", i, j>>] = {}
  <2>1. d[<<"primary", i, j>>] = Derives(t, "primary", i, j, d)
    BY DEF Trees, Kinds
  <2>2. ~ (i + 2 < j) /\ j # i + 3 /\ j # i + 1
    BY <1>1
  <2> QED BY <2>1, <2>2 DEF Derives
<1>3. d[<<"unary", i, j>>] = {}
  <2>1. d[<<"unary", i, j>>] = Derives(t, "unary", i, j, d)
    BY DEF Trees, Kinds
  <2> QED BY <1>2, <2>1 DEF Derives
<1>4. i + 1 .. j - 2 = {}
  BY <1>1
<1>5. \A left, sign, right : Split(t, left, sign, right, i, j, d) = {}
  <2>1. \A left, sign, right, e : e \notin Split(t, left, sign, right, i, j, d)
    BY <1>4, SplitHas DEF Splits
  <2> QED BY <2>1
<1>6. d[<<"and", i, j>>] = {}
  <2>1. LoopOver("and", "unary", "&&")
    BY DEF LoopOver
  <2> QED BY <1>3, <1>5, <2>1, RuleTrees
<1>7. d[<<"or", i, j>>] = {}
  <2>1. LoopOver("or", "and", "||")
    BY DEF LoopOver
  <2> QED BY <1>5, <1>6, <2>1, RuleTrees
<1> QED BY <1>2, <1>3, <1>6, <1>7 DEF Kinds

\* What is known of the calls below one.
Known(t, d, f, rule, i) ==
    \A r \in Rules, k \in Places(t) : ToGo(t, r, k) < ToGo(t, rule, i) => Correct(t, d, f, r, k)

LEMMA LoopReads ==
    ASSUME NEW t, IsText(t), NEW d, Trees(t, d), NEW f, NEW rule, NEW sub, NEW sign,
           LoopOver(rule, sub, sign), NEW i \in Places(t), Known(t, d, f, rule, i)
    PROVE  Reads(t, d, rule, i, Loop(t, sign, sub, i, f))
<1>1. PICK r : Run(t, sign, sub, i, f, r)
  BY LoopIs
<1> DEFINE n == Len(t)
           S == {k \in Nat : Reads(t, d, rule, i, r[k])}
<1>2. rule \in Rules /\ sub \in Rules /\ rule \in Kinds /\ sub \in Kinds
  BY DEF LoopOver, Rules, Kinds
<1>3. i \in Nat /\ n \in Nat /\ i <= n + 1
  BY DEF Places, IsText
<1>7. \A l \in Places(t) : d[<<sub, i, l>>] \subseteq d[<<rule, i, l>>]
                              /\ Split(t, rule, sign, sub, i, l, d) \subseteq d[<<rule, i, l>>]
  BY RuleTrees
<1>4. 0 \in S
  <2>1. Reads(t, d, sub, i, r[0])
    BY <1>1, Deeper DEF Run, Known, Correct
  <2>2. \A j \in i + 1 .. Len(t) + 1 : d[<<sub, i, j>>] \subseteq d[<<rule, i, j>>]
    <3>1. \A j \in i + 1 .. Len(t) + 1 : j \in Places(t)
      BY <1>3 DEF Places
    <3> QED BY <1>7, <3>1
  <2>3. Reads(t, d, rule, i, r[0])
    BY <2>1, <2>2 DEF Reads
  <2> QED BY <2>3
<1>5. ASSUME NEW k \in 0 .. n - 1, k \in S PROVE k + 1 \in S
  <2> DEFINE left == r[k]
             right == f[<<sub, left.next + 1>>]
  <2>1. k + 1 \in 1 .. n /\ (k + 1) - 1 = k /\ k + 1 \in Nat
    BY <1>3
  <2>2. r[k + 1] = More(t, sign, sub, left, f)
    BY <1>1, <2>1 DEF Run
  <2>3. Reads(t, d, rule, i, left)
    BY <1>5
  <2>4. CASE left = Fail \/ At(t, left.next) # Sign(sign)
    <3>1. r[k + 1] = left
      BY <2>2, <2>4 DEF More
    <3> QED BY <2>1, <2>3, <3>1
  <2>5. CASE left # Fail /\ At(t, left.next) = Sign(sign)
    <3>0. PICK j \in i + 1 .. Len(t) + 1 : \E a \in d[<<rule, i, j>>] : left = Read(a, j)
      BY <2>3, <2>5 DEF Reads
    <3>1. PICK a \in d[<<rule, i, j>>] : left = Read(a, j)
      BY <3>0
    <3>2. left.next = j /\ left.expr = a /\ j \in Nat
      BY <1>3, <3>1, Marks
    <3>3. j <= n /\ t[j] = Sign(sign)
      BY <2>5, <3>2, Stands
    <3>4. j + 1 \in Places(t) /\ i < j + 1
      BY <1>3, <3>1, <3>2, <3>3 DEF Places
    <3>5. Reads(t, d, sub, j + 1, right)
      BY <1>2, <3>2, <3>4, Deeper DEF Known, Correct
    <3>6. CASE right = Fail
      <4>1. r[k + 1] = Fail
        BY <2>2, <2>5, <3>6 DEF More
      <4> QED BY <2>1, <4>1 DEF Reads
    <3>7. CASE right # Fail
      <4>0. PICK l \in (j + 1) + 1 .. Len(t) + 1 : \E b \in d[<<sub, j + 1, l>>] : right = Read(b, l)
        BY <3>5, <3>7 DEF Reads
      <4>1. PICK b \in d[<<sub, j + 1, l>>] : right = Read(b, l)
        BY <4>0
      <4>2. right.next = l /\ right.expr = b
        BY <4>1, Marks
      <4>3. r[k + 1] = Read(Node(sign, <<a, b>>), l)
        BY <2>2, <2>5, <3>2, <3>7, <4>2 DEF More
      <4>4. j \in i + 1 .. l - 2 /\ l \in i + 1 .. Len(t) + 1 /\ l \in Places(t)
        BY <1>3, <3>1, <3>2, <4>1 DEF Places
      <4>5. Node(sign, <<a, b>>) \in Split(t, rule, sign, sub, i, l, d)
        <5>1. Joins(sign, d[<<rule, i, j>>], d[<<sub, j + 1, l>>], Node(sign, <<a, b>>))
          BY DEF Joins
        <5>2. Splits(t, rule, sign, sub, i, l, d, Node(sign, <<a, b>>))
          BY <3>3, <4>4, <5>1 DEF Splits
        <5> QED BY <5>2, SplitHas
      <4>6. Node(sign, <<a, b>>) \in d[<<rule, i, l>>]
        BY <1>7, <4>4, <4>5
      <4> QED BY <2>1, <4>3, <4>4, <4>6 DEF Reads
    <3> QED BY <3>6, <3>7
  <2> QED BY <2>4, <2>5
<1>6. n \in S
  <2> HIDE DEF S, n
  <2>1. \A k \in 0 .. n - 1 : k \in S => k + 1 \in S
    BY <1>5
  <2>2. \A k \in 0 .. n : k \in S
    BY <1>3, <1>4, <2>1, UpTo
  <2> QED BY <1>3, <2>2
<1> QED BY <1>1, <1>6 DEF Run

\* A tree behind which nothing goes on at its level is reached in some round.
LEMMA LoopReaches ==
    ASSUME NEW t, IsText(t), NEW d, Trees(t, d), NEW f, NEW rule, NEW sub, NEW sign,
           LoopOver(rule, sub, sign), NEW i \in Places(t), Known(t, d, f, rule, i),
           NEW r, Run(t, sign, sub, i, f, r)
    PROVE  \A l \in Places(t) : Ended(t, sub, l) => \A e \in d[<<rule, i, l>>] :
                \E n \in 0 .. l - i - 1 : r[n] = Read(e, l)
<1> DEFINE Reached(l) == Ended(t, sub, l) => \A e \in d[<<rule, i, l>>] :
                            \E n \in 0 .. l - i - 1 : r[n] = Read(e, l)
           S == {m \in Nat : \A l \in Places(t) : l <= m => Reached(l)}
<1>1. rule \in Rules /\ sub \in Rules /\ rule \in Kinds /\ sub \in Kinds /\ sign \notin Goes(sub)
  BY DEF LoopOver, Rules, Kinds, Goes
<1>2. i \in Nat /\ i <= Len(t) + 1 /\ Len(t) \in Nat /\ \A l \in Places(t) : l \in Nat /\ 1 <= l
  BY DEF Places, IsText
<1>3. \A l \in Places(t) : d[<<rule, i, l>>] = d[<<sub, i, l>>] \cup Split(t, rule, sign, sub, i, l, d)
  BY RuleTrees
<1>4. 0 \in S
  <2>1. \A l \in Places(t) : ~ (l <= 0)
    BY DEF Places
  <2> HIDE DEF Reached
  <2> QED BY <2>1
<1>5. ASSUME NEW m \in Nat, m \in S, NEW l \in Places(t), l = m + 1, Ended(t, sub, l),
             NEW e \in d[<<rule, i, l>>]
      PROVE  \E n \in 0 .. l - i - 1 : r[n] = Read(e, l)
  <2>1. i < l
    BY <1>1, NoTree
  <2>2. CASE e \in d[<<sub, i, l>>]
    <3>1. ToGo(t, sub, i) < ToGo(t, rule, i)
      BY Deeper
    <3>2. Finds(t, d, sub, i, f[<<sub, i>>])
      BY <1>1, <3>1 DEF Known, Correct
    <3>3. r[0] = Read(e, l)
      BY <1>5, <2>2, <3>2 DEF Run, Finds
    <3>4. 0 \in 0 .. l - i - 1
      BY <1>2, <2>1
    <3> QED BY <3>3, <3>4
  <2>3. CASE e \in Split(t, rule, sign, sub, i, l, d)
    <3>1. PICK k \in i + 1 .. l - 2 :
            t[k] = Sign(sign) /\ Joins(sign, d[<<rule, i, k>>], d[<<sub, k + 1, l>>], e)
      <4>1. Splits(t, rule, sign, sub, i, l, d, e)
        BY <2>3, SplitHas
      <4> QED BY <4>1 DEF Splits
    <3>2. PICK a \in d[<<rule, i, k>>], b \in d[<<sub, k + 1, l>>] : e = Node(sign, <<a, b>>)
      BY <3>1 DEF Joins
    <3>3. k \in Nat /\ k \in Places(t) /\ k <= Len(t) /\ k <= m /\ k + 1 \in Places(t) /\ i < k + 1
          /\ k < l /\ l \in Nat
      BY <1>2, <1>5 DEF Places
    <3>4. At(t, k) = Sign(sign)
      BY <3>1, <3>3 DEF At
    <3>5. Ended(t, sub, k)
      BY <1>1, <3>4, Marks DEF Ended
    <3>6. PICK n \in 0 .. k - i - 1 : r[n] = Read(a, k)
      BY <1>5, <3>3, <3>5
    <3>7. n \in Nat /\ n + 1 \in 1 .. Len(t) /\ (n + 1) - 1 = n /\ n + 1 \in 0 .. l - i - 1
      <4>1. i \in Nat /\ k \in Nat /\ l \in Nat /\ Len(t) \in Nat /\ k < l /\ k <= Len(t)
        BY <1>2, <3>3
      <4>2. n \in Nat /\ n <= k - i - 1
        BY <4>1
      <4> QED BY <4>1, <4>2
    <3>8. ToGo(t, sub, k + 1) < ToGo(t, rule, i)
      BY <1>1, <3>3, Deeper
    <3>9. Finds(t, d, sub, k + 1, f[<<sub, k + 1>>])
      BY <1>1, <3>3, <3>8 DEF Known, Correct
    <3>10. f[<<sub, k + 1>>] = Read(b, l)
      BY <1>5, <3>9 DEF Finds
    <3>11. r[n + 1] = More(t, sign, sub, Read(a, k), f)
      BY <3>6, <3>7 DEF Run
    <3>12. More(t, sign, sub, Read(a, k), f) = Read(Node(sign, <<a, b>>), l)
      BY <3>4, <3>10, Marks DEF More
    <3> QED BY <3>2, <3>7, <3>11, <3>12
  <2> QED BY <1>3, <2>2, <2>3
<1>6. ASSUME NEW m \in Nat, m \in S PROVE m + 1 \in S
  <2>1. ASSUME NEW l \in Places(t), l <= m + 1
        PROVE  Reached(l)
    <3>1. CASE l <= m
      BY <1>6, <3>1
    <3>2. CASE ~ (l <= m)
      <4>1. l = m + 1
        BY <1>2, <2>1, <3>2
      <4> HIDE DEF S
      <4> QED BY <1>5, <1>6, <4>1
    <3> QED BY <3>1, <3>2
  <2> HIDE DEF Reached
  <2> QED BY <2>1
<1>7. Len(t) + 1 \in S
  <2> HIDE DEF S
  <2> DEFINE n == Len(t) + 1
  <2>1. n \in Nat
    BY <1>2
  <2> HIDE DEF n
  <2>2. \A k \in 0 .. n - 1 : k \in S => k + 1 \in S
    BY <1>6
  <2>3. \A k \in 0 .. n : k \in S
    BY <1>4, <2>1, <2>2, UpTo
  <2> QED BY <2>1, <2>3 DEF n
<1>8. \A l \in Places(t) : l <= Len(t) + 1
  BY DEF Places
<1> QED BY <1>7, <1>8

LEMMA LoopFinds ==
    ASSUME NEW t, IsText(t), NEW d, Trees(t, d), NEW f, NEW rule, NEW sub, NEW sign,
           LoopOver(rule, sub, sign), NEW i \in Places(t), Known(t, d, f, rule, i)
    PROVE  Finds(t, d, rule, i, Loop(t, sign, sub, i, f))
<1> SUFFICES ASSUME NEW l \in Places(t), Ended(t, rule, l), NEW e \in d[<<rule, i, l>>]
             PROVE  Loop(t, sign, sub, i, f) = Read(e, l)
  BY DEF Finds
<1>1. PICK r : Run(t, sign, sub, i, f, r)
  BY LoopIs
<1>2. Ended(t, sub, l) /\ At(t, l) # Sign(sign)
  BY DEF LoopOver, Ended, Goes
<1>3. PICK n \in 0 .. l - i - 1 : r[n] = Read(e, l)
  BY <1>1, <1>2, LoopReaches
<1>4. n \in Nat /\ Len(t) \in Nat /\ Len(t) - n \in Nat /\ n + (Len(t) - n) = Len(t)
  BY DEF Places, IsText
<1> DEFINE m == Len(t) - n
           S == {k \in Nat : r[n + k] = Read(e, l)}
<1>5. 0 \in S
  BY <1>3, <1>4
<1>6. ASSUME NEW k \in 0 .. m - 1, k \in S PROVE k + 1 \in S
  <2>1. n + (k + 1) \in 1 .. Len(t) /\ (n + (k + 1)) - 1 = n + k /\ k + 1 \in Nat
    <3> DEFINE last == Len(t)
    <3>1. k \in Nat /\ last \in Nat /\ n \in Nat /\ k <= last - n - 1
      BY <1>4
    <3> HIDE DEF last
    <3>2. n + (k + 1) \in 1 .. last /\ (n + (k + 1)) - 1 = n + k /\ k + 1 \in Nat
      BY <3>1
    <3> QED BY <3>2 DEF last
  <2>2. r[n + (k + 1)] = More(t, sign, sub, Read(e, l), f)
    BY <1>1, <1>6, <2>1 DEF Run
  <2>3. More(t, sign, sub, Read(e, l), f) = Read(e, l)
    BY <1>2, Marks DEF More
  <2> QED BY <2>1, <2>2, <2>3
<1>7. m \in S
  <2> HIDE DEF S, m
  <2>1. m \in Nat
    BY <1>4 DEF m
  <2>2. \A k \in 0 .. m - 1 : k \in S => k + 1 \in S
    BY <1>6
  <2>3. \A k \in 0 .. m : k \in S
    BY <1>5, <2>1, <2>2, UpTo
  <2> QED BY <2>1, <2>3
<1>8. r[Len(t)] = Read(e, l)
  BY <1>4, <1>7
<1> QED BY <1>1, <1>8 DEF Run

ComparedAt(t, i, j, e) ==
    \E s \in {"==", "!="} :
        /\ j = i + 3 /\ IsOperand(t[i]) /\ IsOperand(t[i + 2]) /\ t[i + 1] = Sign(s)
        /\ e = Node(s, <<Leaf(t[i]), Leaf(t[i + 2])>>)

BareAt(t, i, j, e) == j = i + 1 /\ IsOperand(t[i]) /\ StandsAlone(t[i]) /\ e = Leaf(t[i])

\* What a span of a primary derives.
LEMMA PrimaryTrees ==
    ASSUME NEW t, IsText(t), NEW d, Trees(t, d), NEW i \in Places(t), NEW j \in Places(t)
    PROVE  /\ i + 2 < j /\ t[i] = Sign("(") /\ t[j - 1] = Sign(")")
              => d[<<"primary", i, j>>] = d[<<"or", i + 1, j - 1>>]
           /\ t[i] # Sign("(") => \A e :
                e \in d[<<"primary", i, j>>] <=> ComparedAt(t, i, j, e) \/ BareAt(t, i, j, e)
           /\ t[i] = Sign("(") /\ ~ (i + 2 < j /\ t[j - 1] = Sign(")")) => d[<<"primary", i, j>>] = {}
<1>1. d[<<"primary", i, j>>] = Derives(t, "primary", i, j, d)
  BY DEF Trees, Kinds
<1>2. Derives(t, "primary", i, j, d) =
        IF i + 2 < j /\ t[i] = Sign("(") /\ t[j - 1] = Sign(")")
        THEN d[<<"or", i + 1, j - 1>>]
        ELSE IF j = i + 3 THEN Compared(t, i) ELSE IF j = i + 1 THEN Bare(t, i) ELSE {}
  BY DEF Derives
<1>3. \A e : e \in Compared(t, i) <=>
        \E s \in {"==", "!="} : /\ IsOperand(t[i]) /\ IsOperand(t[i + 2]) /\ t[i + 1] = Sign(s)
                                /\ e = Node(s, <<Leaf(t[i]), Leaf(t[i + 2])>>)
  BY DEF Compared
<1>4. \A e : e \in Bare(t, i) <=> IsOperand(t[i]) /\ StandsAlone(t[i]) /\ e = Leaf(t[i])
  BY DEF Bare
<1>5. i + 3 # i + 1
  BY DEF Places
<1>6. CASE i + 2 < j /\ t[i] = Sign("(") /\ t[j - 1] = Sign(")")
  BY <1>1, <1>2, <1>6
<1>7. CASE t[i] = Sign("(") /\ ~ (i + 2 < j /\ t[j - 1] = Sign(")"))
  <2>1. ~ IsOperand(t[i])
    BY <1>7, Marks
  <2>2. \A e : e \notin Compared(t, i) /\ e \notin Bare(t, i)
    BY <1>3, <1>4, <2>1
  <2>3. Compared(t, i) = {} /\ Bare(t, i) = {}
    BY <2>2
  <2> QED BY <1>1, <1>2, <1>7, <2>3
<1>8. CASE t[i] # Sign("(")
  <2>1. d[<<"primary", i, j>>] =
            IF j = i + 3 THEN Compared(t, i) ELSE IF j = i + 1 THEN Bare(t, i) ELSE {}
    BY <1>1, <1>2, <1>8
  <2>2. CASE j = i + 3
    BY <1>3, <1>5, <1>8, <2>1, <2>2 DEF ComparedAt, BareAt
  <2>3. CASE j = i + 1
    BY <1>4, <1>5, <1>8, <2>1, <2>3 DEF ComparedAt, BareAt
  <2>4. CASE j # i + 1 /\ j # i + 3
    BY <1>8, <2>1, <2>4 DEF ComparedAt, BareAt
  <2> QED BY <2>2, <2>3, <2>4
<1> QED BY <1>6, <1>7, <1>8

LEMMA UnaryCorrect ==
    ASSUME NEW t, IsText(t), NEW d, Trees(t, d), NEW f, NEW i \in Places(t),
           Known(t, d, f, "unary", i)
    PROVE  /\ Reads(t, d, "unary", i, parse_unary(t, i, f))
           /\ Finds(t, d, "unary", i, parse_unary(t, i, f))
<1> DEFINE U == parse_unary(t, i, f)
<1>1. i \in Nat /\ Len(t) \in Nat /\ 1 <= i
  BY DEF Places, IsText
<1>2. \A j \in i + 1 .. Len(t) + 1 : j \in Places(t) /\ i < j
  BY <1>1 DEF Places
<1>3. i <= Len(t) => \A r \in Rules : Correct(t, d, f, r, i + 1)
  <2>1. i <= Len(t) => i + 1 \in Places(t) /\ i < i + 1
    BY <1>1 DEF Places
  <2>2. i <= Len(t) => \A r \in Rules : ToGo(t, r, i + 1) < ToGo(t, "unary", i)
    BY <2>1, Deeper DEF Rules
  <2> QED BY <2>1, <2>2 DEF Known
<1>4. \A j \in Places(t) : d[<<"unary", i, j>>] =
        IF i < j /\ t[i] = Sign("!") THEN Negated(t, i, j, d) ELSE d[<<"primary", i, j>>]
  <2> SUFFICES ASSUME NEW j \in Places(t)
               PROVE  d[<<"unary", i, j>>] = IF i < j /\ t[i] = Sign("!") THEN Negated(t, i, j, d)
                                             ELSE d[<<"primary", i, j>>]
    OBVIOUS
  <2>1. d[<<"unary", i, j>>] = Derives(t, "unary", i, j, d)
    BY DEF Trees, Kinds
  <2> QED BY <2>1 DEF Derives
<1>5. \A j \in Places(t) : \A e \in d[<<"unary", i, j>>] : i < j /\ i <= Len(t) /\ At(t, i) = t[i]
  <2> SUFFICES ASSUME NEW j \in Places(t), NEW e \in d[<<"unary", i, j>>]
               PROVE  i < j /\ i <= Len(t) /\ At(t, i) = t[i]
    OBVIOUS
  <2>1. i < j
    BY NoTree DEF Kinds
  <2>2. i <= Len(t)
    BY <1>1, <2>1 DEF Places
  <2> QED BY <2>1, <2>2 DEF At
<1>6. CASE At(t, i) = Sign("!")
  <2> DEFINE inner == f[<<"unary", i + 1>>]
  <2>1. i <= Len(t) /\ t[i] = Sign("!")
    BY <1>1, <1>6, Stands
  <2>2. Reads(t, d, "unary", i + 1, inner) /\ Finds(t, d, "unary", i + 1, inner)
    BY <1>3, <2>1 DEF Correct, Rules
  <2>3. U = IF inner = Fail THEN Fail ELSE Read(Node("!", <<inner.expr>>), inner.next)
    BY <1>6 DEF parse_unary
  <2> HIDE DEF U, inner
  <2>4. \A j \in Places(t) : i < j => d[<<"unary", i, j>>] = Negated(t, i, j, d)
    BY <1>4, <2>1
  <2>5. Reads(t, d, "unary", i, U)
    <3>1. CASE inner = Fail
      BY <2>3, <3>1 DEF Reads
    <3>2. CASE inner # Fail
      <4>1. PICK j \in (i + 1) + 1 .. Len(t) + 1 : \E e \in d[<<"unary", i + 1, j>>] : inner = Read(e, j)
        BY <2>2, <3>2 DEF Reads
      <4>2. PICK e \in d[<<"unary", i + 1, j>>] : inner = Read(e, j)
        BY <4>1
      <4>3. U = Read(Node("!", <<e>>), j)
        BY <2>3, <3>2, <4>2, Marks
      <4>4. j \in i + 1 .. Len(t) + 1
        BY <1>1
      <4>5. Node("!", <<e>>) \in d[<<"unary", i, j>>]
        BY <1>2, <2>4, <4>4 DEF Negated
      <4> QED BY <4>3, <4>4, <4>5 DEF Reads
    <3> QED BY <3>1, <3>2
  <2>6. ASSUME NEW j \in Places(t), Ended(t, "unary", j), NEW x \in d[<<"unary", i, j>>]
        PROVE  U = Read(x, j)
    <3>1. x \in Negated(t, i, j, d)
      BY <1>5, <2>4
    <3>2. PICK e \in d[<<"unary", i + 1, j>>] : x = Node("!", <<e>>)
      BY <3>1 DEF Negated
    <3>3. inner = Read(e, j)
      BY <2>2, <2>6 DEF Finds
    <3> QED BY <2>3, <3>2, <3>3, Marks
  <2>7. Finds(t, d, "unary", i, U)
    BY <2>6 DEF Finds
  <2> QED BY <2>5, <2>7 DEF U
<1>7. CASE At(t, i) # Sign("!") /\ At(t, i) = Sign("(")
  <2> DEFINE inner == f[<<"or", i + 1>>]
  <2>1. i <= Len(t) /\ t[i] = Sign("(") /\ t[i] # Sign("!")
    BY <1>1, <1>7, Stands, Marks
  <2>2. Reads(t, d, "or", i + 1, inner) /\ Finds(t, d, "or", i + 1, inner)
    BY <1>3, <2>1 DEF Correct, Rules
  <2>3. U = IF inner # Fail /\ At(t, inner.next) = Sign(")")
            THEN Read(inner.expr, inner.next + 1) ELSE Fail
    BY <1>7 DEF parse_unary, parse_primary
  <2> HIDE DEF U, inner
  <2>4. \A j \in Places(t) : d[<<"unary", i, j>>] = d[<<"primary", i, j>>]
    BY <1>4, <2>1
  <2>5. Reads(t, d, "unary", i, U)
    <3>1. CASE ~ (inner # Fail /\ At(t, inner.next) = Sign(")"))
      BY <2>3, <3>1 DEF Reads
    <3>2. CASE inner # Fail /\ At(t, inner.next) = Sign(")")
      <4>1. PICK k \in (i + 1) + 1 .. Len(t) + 1 : \E e \in d[<<"or", i + 1, k>>] : inner = Read(e, k)
        BY <2>2, <3>2 DEF Reads
      <4>2. PICK e \in d[<<"or", i + 1, k>>] : inner = Read(e, k)
        BY <4>1
      <4>3. U = Read(e, k + 1)
        BY <2>3, <3>2, <4>2, Marks
      <4>4. k \in Nat /\ k <= Len(t) /\ t[k] = Sign(")")
        <5>1. k \in Nat /\ At(t, k) = Sign(")")
          BY <1>1, <3>2, <4>2, Marks
        <5> QED BY <5>1, Stands
      <4>5. k + 1 \in i + 1 .. Len(t) + 1 /\ i + 2 < k + 1 /\ (k + 1) - 1 = k
        BY <1>1, <4>4
      <4> DEFINE j == k + 1
      <4>6. j \in Places(t) /\ i + 2 < j /\ j - 1 = k
        BY <1>2, <4>5
      <4> HIDE DEF j
      <4>7. d[<<"primary", i, j>>] = d[<<"or", i + 1, j - 1>>]
        BY <2>1, <4>4, <4>6, PrimaryTrees
      <4>8. e \in d[<<"unary", i, j>>]
        BY <2>4, <4>6, <4>7
      <4> QED BY <4>3, <4>5, <4>8 DEF Reads, j
    <3> QED BY <3>1, <3>2
  <2>6. ASSUME NEW j \in Places(t), Ended(t, "unary", j), NEW e \in d[<<"unary", i, j>>]
        PROVE  U = Read(e, j)
    <3>1. e \in d[<<"primary", i, j>>]
      BY <2>4
    <3>2. i + 2 < j /\ t[j - 1] = Sign(")")
      BY <2>1, <3>1, PrimaryTrees
    <3>3. e \in d[<<"or", i + 1, j - 1>>]
      BY <2>1, <3>1, <3>2, PrimaryTrees
    <3>4. j - 1 \in Places(t) /\ j - 1 <= Len(t) /\ (j - 1) + 1 = j
      BY <1>1, <3>2 DEF Places
    <3>5. At(t, j - 1) = Sign(")")
      BY <3>2, <3>4 DEF At
    <3>6. Ended(t, "or", j - 1)
      BY <3>5, Marks DEF Ended, Goes
    <3>7. inner = Read(e, j - 1)
      BY <2>2, <3>3, <3>4, <3>6 DEF Finds
    <3> QED BY <2>3, <3>4, <3>5, <3>7, Marks
  <2>7. Finds(t, d, "unary", i, U)
    BY <2>6 DEF Finds
  <2> QED BY <2>5, <2>7 DEF U
<1>8. CASE At(t, i) # Sign("!") /\ At(t, i) # Sign("(")
  <2>1. U = parse_primary(t, i, f)
    BY <1>8 DEF parse_unary
  <2> HIDE DEF U
  <2>2. i <= Len(t) => t[i] # Sign("!") /\ t[i] # Sign("(")
    BY <1>8 DEF At
  <2>3. \A j \in Places(t) : i <= Len(t) => d[<<"unary", i, j>>] = d[<<"primary", i, j>>]
    BY <1>4, <2>2
  <2> DEFINE compares(s) == /\ i + 2 <= Len(t) /\ IsOperand(t[i]) /\ IsOperand(t[i + 2])
                            /\ t[i + 1] = Sign(s)
             compared(s) == Node(s, <<Leaf(t[i]), Leaf(t[i + 2])>>)
  <2>4. /\ \A s \in {"==", "!="} : compares(s) => U = Read(compared(s), i + 3)
        /\ i <= Len(t) /\ IsOperand(t[i]) /\ StandsAlone(t[i])
              /\ At(t, i + 1) \notin {Sign("=="), Sign("!=")} => U = Read(Leaf(t[i]), i + 1)
        /\ \/ U = Fail
           \/ \E s \in {"==", "!="} : compares(s) /\ U = Read(compared(s), i + 3)
           \/ i <= Len(t) /\ IsOperand(t[i]) /\ StandsAlone(t[i]) /\ U = Read(Leaf(t[i]), i + 1)
    BY <1>8, <2>1, PrimaryIs
  <2>5. ASSUME NEW s \in {"==", "!="}, compares(s)
        PROVE  i + 3 \in i + 1 .. Len(t) + 1 /\ compared(s) \in d[<<"unary", i, i + 3>>]
    <3>1. i <= Len(t) /\ i + 3 \in i + 1 .. Len(t) + 1
      BY <1>1, <2>5
    <3> DEFINE j == i + 3
    <3>2. j \in Places(t) /\ j = i + 3
      BY <1>2, <3>1
    <3> HIDE DEF j
    <3>3. compared(s) \in d[<<"primary", i, j>>]
      <4>1. ComparedAt(t, i, j, compared(s)) /\ t[i] # Sign("(")
        BY <2>2, <2>5, <3>1, <3>2 DEF ComparedAt
      <4> DEFINE x == compared(s)
      <4> HIDE DEF x
      <4>2. ComparedAt(t, i, j, x) /\ t[i] # Sign("(") /\ j \in Places(t)
        BY <3>2, <4>1 DEF x
      <4>3. x \in d[<<"primary", i, j>>]
        BY <4>2, PrimaryTrees
      <4> QED BY <4>3 DEF x
    <3>4. compared(s) \in d[<<"unary", i, j>>]
      BY <2>3, <3>1, <3>2, <3>3
    <3> QED BY <3>1, <3>4 DEF j
  <2>6. ASSUME i <= Len(t), IsOperand(t[i]), StandsAlone(t[i])
        PROVE  i + 1 \in i + 1 .. Len(t) + 1 /\ Leaf(t[i]) \in d[<<"unary", i, i + 1>>]
    <3>1. i + 1 \in i + 1 .. Len(t) + 1
      BY <1>1, <2>6
    <3> DEFINE j == i + 1
    <3>2. j \in Places(t) /\ j = i + 1
      BY <1>2, <3>1
    <3> HIDE DEF j
    <3>3. Leaf(t[i]) \in d[<<"primary", i, j>>]
      <4>1. BareAt(t, i, j, Leaf(t[i])) /\ t[i] # Sign("(")
        BY <2>2, <2>6, <3>2 DEF BareAt
      <4> QED BY <3>2, <4>1, PrimaryTrees
    <3>4. Leaf(t[i]) \in d[<<"unary", i, j>>]
      BY <2>3, <2>6, <3>2, <3>3
    <3> QED BY <3>1, <3>4 DEF j
  <2>7. Reads(t, d, "unary", i, U)
    <3> HIDE DEF compares, compared
    <3> QED BY <2>4, <2>5, <2>6 DEF Reads
  <2>8. ASSUME NEW j \in Places(t), Ended(t, "unary", j), NEW e \in d[<<"unary", i, j>>]
        PROVE  U = Read(e, j)
    <3>1. i <= Len(t) /\ t[i] # Sign("(") /\ e \in d[<<"primary", i, j>>]
      BY <1>5, <2>2, <2>3
    <3>2. \/ \E s \in {"==", "!="} :
                /\ j = i + 3 /\ IsOperand(t[i]) /\ IsOperand(t[i + 2]) /\ t[i + 1] = Sign(s)
                /\ e = Node(s, <<Leaf(t[i]), Leaf(t[i + 2])>>)
          \/ j = i + 1 /\ IsOperand(t[i]) /\ StandsAlone(t[i]) /\ e = Leaf(t[i])
      <4>1. ComparedAt(t, i, j, e) \/ BareAt(t, i, j, e)
        BY <3>1, PrimaryTrees
      <4> QED BY <4>1 DEF ComparedAt, BareAt
    <3>3. CASE j = i + 1 /\ IsOperand(t[i]) /\ StandsAlone(t[i]) /\ e = Leaf(t[i])
      <4>1. At(t, i + 1) \notin {Sign("=="), Sign("!=")}
        BY <2>8, <3>3 DEF Ended, Goes
      <4> QED BY <2>4, <3>1, <3>3, <4>1
    <3>4. ASSUME NEW s \in {"==", "!="}, j = i + 3, IsOperand(t[i]), IsOperand(t[i + 2]),
                 t[i + 1] = Sign(s), e = compared(s)
          PROVE  U = Read(e, j)
      <4>1. i + 2 <= Len(t)
        BY <1>1, <3>4 DEF Places
      <4> QED BY <2>4, <3>4, <4>1
    <3> QED BY <3>2, <3>3, <3>4
  <2>9. Finds(t, d, "unary", i, U)
    BY <2>8 DEF Finds
  <2> QED BY <2>7, <2>9 DEF U
<1> QED BY <1>6, <1>7, <1>8

LEMMA AllCorrect ==
    ASSUME NEW t, IsText(t), NEW d, Trees(t, d), NEW f, Results(t, f)
    PROVE  \A rule \in Rules, i \in Places(t) : Correct(t, d, f, rule, i)
<1> DEFINE S == {n \in Nat : \A rule \in Rules, i \in Places(t) :
                                ToGo(t, rule, i) < n => Correct(t, d, f, rule, i)}
           last == 3 * Len(t) + 3
<1>1. \A rule \in Rules, i \in Places(t) : ToGo(t, rule, i) \in Nat /\ ToGo(t, rule, i) < last
  <2>1. \A rule \in Rules, i \in Places(t) : ToGo(t, rule, i) \in 0 .. 3 * Len(t) + 2
    BY Deeper
  <2> QED BY <2>1 DEF IsText
<1>2. 0 \in S
  BY <1>1
<1>3. ASSUME NEW n \in Nat, n \in S PROVE n + 1 \in S
  <2>1. ASSUME NEW rule \in Rules, NEW i \in Places(t), ToGo(t, rule, i) < n + 1
        PROVE  Correct(t, d, f, rule, i)
    <3>1. ASSUME NEW r \in Rules, NEW k \in Places(t), ToGo(t, r, k) < ToGo(t, rule, i)
          PROVE  Correct(t, d, f, r, k)
      <4>1. ToGo(t, r, k) < n
        BY <1>1, <2>1, <3>1
      <4> QED BY <1>3, <4>1
    <3>2. Known(t, d, f, rule, i)
      BY <3>1 DEF Known
    <3>3. f[<<rule, i>>] = Call(t, rule, i, f)
      BY DEF Results
    <3>4. CASE rule = "or"
      <4>1. LoopOver(rule, "and", "||") /\ f[<<rule, i>>] = Loop(t, "||", "and", i, f)
        BY <3>3, <3>4 DEF LoopOver, Call, parse_or
      <4>2. /\ Reads(t, d, rule, i, Loop(t, "||", "and", i, f))
            /\ Finds(t, d, rule, i, Loop(t, "||", "and", i, f))
        BY <3>2, <4>1, LoopReads, LoopFinds
      <4> QED BY <4>1, <4>2 DEF Correct
    <3>5. CASE rule = "and"
      <4>1. LoopOver(rule, "unary", "&&") /\ f[<<rule, i>>] = Loop(t, "&&", "unary", i, f)
        BY <3>3, <3>5 DEF LoopOver, Call, parse_and
      <4>2. /\ Reads(t, d, rule, i, Loop(t, "&&", "unary", i, f))
            /\ Finds(t, d, rule, i, Loop(t, "&&", "unary", i, f))
        BY <3>2, <4>1, LoopReads, LoopFinds
      <4> QED BY <4>1, <4>2 DEF Correct
    <3>6. CASE rule = "unary"
      <4>1. f[<<rule, i>>] = parse_unary(t, i, f)
        BY <3>3, <3>6 DEF Call
      <4> QED BY <3>2, <3>6, <4>1, UnaryCorrect DEF Correct
    <3> QED BY <3>4, <3>5, <3>6 DEF Rules
  <2> QED BY <2>1
<1>4. last \in S
  <2>1. last \in Nat
    BY DEF IsText
  <2> HIDE DEF S, last
  <2>2. \A k \in 0 .. last - 1 : k \in S => k + 1 \in S
    BY <1>3
  <2>3. \A k \in 0 .. last : k \in S
    BY <1>2, <2>1, <2>2, UpTo
  <2> QED BY <2>1, <2>3
<1> QED BY <1>1, <1>4

\* Every text is read as its one tree of the grammar, and refused where it has
\* none, however long it is and whatever tokens it is made of: || binds less than
\* &&, both to the left, ! tightest, comparisons do not chain (parse_expression).
THEOREM ParserCorrect ==
    \A t : IsText(t) =>
        Derived(t) = (IF parse_expression(t) = Fail THEN {} ELSE {parse_expression(t).expr})
<1> SUFFICES ASSUME NEW t, IsText(t)
             PROVE  Derived(t) =
                        (IF parse_expression(t) = Fail THEN {} ELSE {parse_expression(t).expr})
  OBVIOUS
<1> DEFINE n == Len(t) + 1
           all == Parsed(t)
           trees == Derived(t)
           spec == parse_expression(t)
<1>1. PICK d : trees = d[<<"or", 1, n>>] /\ Trees(t, d)
  BY DerivedIs DEF Trees
<1>2. PICK f : all = f[<<"or", 1>>] /\ Results(t, f)
  BY ParsedIs DEF Results
<1>3. n \in Places(t) /\ 1 \in Places(t) /\ n \in Nat
  BY DEF Places, IsText
<1>4. Reads(t, d, "or", 1, all) /\ Finds(t, d, "or", 1, all)
  BY <1>1, <1>2, <1>3, AllCorrect DEF Correct, Rules
<1>5. At(t, n) = Fail
  BY DEF At, IsText
<1>6. Ended(t, "or", n)
  BY <1>5, Marks DEF Ended
<1>7. \A e \in trees : all = Read(e, n)
  BY <1>1, <1>3, <1>4, <1>6 DEF Finds
<1>8. spec = IF all # Fail /\ all.next = n THEN [expr |-> all.expr] ELSE Fail
  BY DEF parse_expression
<1>9. \A e : [expr |-> e] # Fail /\ [expr |-> e].expr = e
  <2>1. \A e : DOMAIN [expr |-> e] = {"expr"} /\ [expr |-> e].expr = e
    OBVIOUS
  <2>2. DOMAIN Fail = {"fail"}
    BY DEF Fail
  <2> QED BY <2>1, <2>2
<1> HIDE DEF all, trees, spec
<1>10. CASE trees = {}
  <2>1. ~ (all # Fail /\ all.next = n)
    <3> SUFFICES ASSUME all # Fail, all.next = n PROVE FALSE
      OBVIOUS
    <3>1. PICK j \in 1 + 1 .. Len(t) + 1 : \E e \in d[<<"or", 1, j>>] : all = Read(e, j)
      BY <1>4 DEF Reads
    <3>2. j = n
      BY <3>1, Marks
    <3> QED BY <1>1, <1>10, <3>1, <3>2
  <2> QED BY <1>8, <1>10, <2>1 DEF trees, spec
<1>11. ASSUME NEW e \in trees
       PROVE  trees = {e} /\ spec # Fail /\ spec.expr = e
  <2>1. all = Read(e, n)
    BY <1>7
  <2>2. all # Fail /\ all.next = n /\ all.expr = e
    BY <2>1, Marks
  <2>3. \A x \in trees : x = e
    BY <1>7, <2>2, Marks
  <2> QED BY <1>8, <1>9, <2>2, <2>3
<1> QED BY <1>10, <1>11 DEF trees, spec

LEMMA LookedKept == RuleSpec => []Looked
<1>1. Looked /\ [UNCHANGED sample]_sample => Looked'
  BY DEF Looked
<1> QED BY <1>1, PTL DEF RuleSpec

\* The samples, as texts.
LEMMA LookedIs ==
    ASSUME Looked
    PROVE  /\ Is("start") => sample.start \in Seq(Tokens)
           /\ Is("name") => sample.name \in Names
<1>1. \A n \in Nat : Texts(n) \subseteq Seq(Tokens)
  BY DEF Texts
<1>2. Is("start") => sample.start \in Texts(2) \cup Texts(1)
  BY DEF Looked, Samples, AclInputs, Is
<1>3. Is("name") => sample.name \in Names
  BY DEF Looked, Samples, AclInputs, Is
<1> QED BY <1>1, <1>2, <1>3

LEMMA RestIs ==
    ASSUME Looked, Is("start"),
           NEW rest \in (IF Len(sample.start) < 2 THEN {<<>>} ELSE Texts(MaxText - 2))
    PROVE  IsText(sample.start \o rest)
<1>1. sample.start \in Seq(Tokens)
  BY LookedIs
<1>2. rest \in Seq(Tokens)
  <2>1. MaxText - 2 \in Int
    BY TextAssumption
  <2>2. CASE rest = <<>>
    BY <2>2
  <2>3. CASE rest \in Texts(MaxText - 2)
    <3>1. PICK k \in 0 .. MaxText - 2 : rest \in [1 .. k -> Tokens]
      BY <2>3 DEF Texts
    <3>2. k \in Nat
      BY <2>1
    <3> QED BY <3>1, <3>2
  <2> QED BY <2>2, <2>3
<1>3. sample.start \o rest \in Seq(Tokens)
  BY <1>1, <1>2
<1> QED BY <1>3 DEF IsText

\* The parser reads exactly the texts of the grammar, each as its one tree, for
\* any tokens and lengths (parse_expression).
THEOREM ParserAlwaysGrammar == RuleSpec => []ParserIsGrammar
<1>1. Looked => ParserIsGrammar
  <2> SUFFICES ASSUME Looked, Is("start"),
                      NEW rest \in (IF Len(sample.start) < 2 THEN {<<>>} ELSE Texts(MaxText - 2))
               PROVE  LET t == sample.start \o rest
                          tree == parse_expression(t)
                      IN  Derived(t) = (IF tree = Fail THEN {} ELSE {tree.expr})
    BY DEF ParserIsGrammar
  <2> DEFINE t == sample.start \o rest
  <2>1. IsText(t)
    BY RestIs
  <2> HIDE DEF t
  <2>2. Derived(t) = (IF parse_expression(t) = Fail THEN {} ELSE {parse_expression(t).expr})
    BY <2>1, ParserCorrect
  <2> QED BY <2>2 DEF t
<1> QED BY <1>1, LookedKept, PTL

-----------------------------------------------------------------------------
(* What symbols an expression is about                                       *)

\* An expression says the same wherever the symbols it is said to be about have
\* the same values (references_symbol against evaluate_expression).
THEOREM SymbolsDecide ==
    \A e, v, w : (\A name \in symbols(e) : v[name] = w[name])
                    => evaluate_expression(e, v) = evaluate_expression(e, w)
<1> SUFFICES ASSUME NEW e, NEW v, NEW w, \A name \in symbols(e) : v[name] = w[name]
             PROVE  evaluate_expression(e, v) = evaluate_expression(e, w)
  OBVIOUS
<1>1. ASSUME NEW path \in DOMAIN e
      PROVE  resolve_operand_value(e[path], v) = resolve_operand_value(e[path], w)
  <2>1. IsSymbol(e[path]) => e[path].ident \in symbols(e)
    BY DEF symbols, OperandSymbols
  <2> QED BY <2>1 DEF resolve_operand_value
<1>2. [path \in DOMAIN e |-> resolve_operand_value(e[path], v)]
    = [path \in DOMAIN e |-> resolve_operand_value(e[path], w)]
  BY <1>1
<1> QED BY <1>2 DEF evaluate_expression

LEMMA OpenedDecides == \A e : OpenedMatters(e)
<1> SUFFICES ASSUME NEW e, <<"opened_by">> \notin symbols(e)
             PROVE  OpenedMatters(e)
  BY DEF OpenedMatters, references_symbol
<1> DEFINE alice == [text |-> <<"alice">>]
           Who(who) == [n \in Names \cup symbols(e) |-> IF n = <<"opened_by">> THEN who ELSE alice]
           v == Who(Null)
           w == Who(alice)
<1>1. \A name \in symbols(e) : v[name] = w[name]
  OBVIOUS
<1> HIDE DEF v, w
<1>2. evaluate_expression(e, v) = evaluate_expression(e, w)
  BY <1>1, SymbolsDecide
<1> QED BY <1>2 DEF OpenedMatters, v, w

LEMMA ValuesAre ==
    /\ \A x : [text |-> x] # Fail
    /\ Null # Fail
<1>1. \A x : DOMAIN [text |-> x] = {"text"}
  OBVIOUS
<1>2. DOMAIN Null = {"null"} /\ DOMAIN Fail = {"fail"}
  BY DEF Null, Fail
<1> QED BY <1>1, <1>2

LEMMA Middle ==
    ASSUME NEW T, NEW s \in Seq(T), Len(s) > 2
    PROVE  Len(SubSeq(s, 2, Len(s) - 1)) = Len(s) - 2 /\ SubSeq(s, 2, Len(s) - 1)[1] = s[2]
<1>1. Len(s) \in Nat /\ Len(s) - 1 \in Nat /\ Len(s) - 1 <= Len(s) /\ 2 <= Len(s) - 1
  OBVIOUS
<1> DEFINE n == Len(s) - 1
<1>2. n + 1 = Len(s)
  BY <1>1
<1> HIDE DEF n
<1>3. n \in Nat /\ n <= Len(s) /\ 2 <= n
  BY <1>1 DEF n
<1>4. \A i \in 2 .. n : s[i] \in T
  BY <1>1, <1>3
<1>5. Len(SubSeq(s, 2, n)) = n + 1 - 2 /\ SubSeq(s, 2, n)[1] = s[2]
  BY <1>3, <1>4
<1> QED BY <1>2, <1>5 DEF n

LEMMA Single == \A x : Len(<<x>>) = 1 /\ <<x>>[1] = x
OBVIOUS

LEMMA Lone == \A s : s = <<"">> => Len(s) = 1 /\ s[1] = ""
BY Single, Zenon

LEMMA Triple == \A T : \A s \in Seq(T) : Len(s) = 3 => s = <<s[1], s[2], s[3]>>
OBVIOUS

LEMMA AllowedInbox == \A name \in Seq(STRING) : AllowedRoomInbox(name) => IsRoomInbox(name)
<1> SUFFICES ASSUME NEW name \in Seq(STRING), AllowedRoomInbox(name), ~ IsRoomInbox(name)
             PROVE  FALSE
  OBVIOUS
<1>1. /\ Len(name) > 2 /\ name[1] = "room" /\ name[Len(name)] = "inbox"
      /\ ~ (name = <<"room", "", "inbox">>)
  BY Zenon DEF AllowedRoomInbox
<1> DEFINE s == SubSeq(name, 2, Len(name) - 1)
<1>2. s = <<"">>
  BY <1>1 DEF IsRoomInbox, parse_room_inbox_symbol
<1>3. Len(s) = Len(name) - 2 /\ s[1] = name[2]
  BY <1>1, Middle
<1> HIDE DEF s
<1>4. Len(s) = 1 /\ s[1] = ""
  BY <1>2, Lone
<1>5. Len(name) \in Nat
  OBVIOUS
<1>6. Len(name) = 3
  <2> DEFINE n == Len(name)
             l == Len(s)
  <2>1. n \in Nat /\ l = n - 2 /\ l = 1
    BY <1>3, <1>4, <1>5
  <2> HIDE DEF n, l
  <2>2. n = 3
    BY <2>1
  <2> QED BY <2>2 DEF n
<1>7. Len(name) = 3 /\ name[1] = "room" /\ name[2] = "" /\ name[3] = "inbox"
  BY <1>1, <1>3, <1>4, <1>6
<1>8. name = <<name[1], name[2], name[3]>>
  BY <1>7, Triple
<1>9. name = <<"room", "", "inbox">>
  BY <1>7, <1>8, Zenon
<1> QED BY <1>1, <1>9, Zenon

LEMMA NameResolved == \A name \in Seq(STRING) : Resolved(name)
<1> SUFFICES ASSUME NEW name \in Seq(STRING), is_allowed_symbol(name)
             PROVE  Resolved(name)
  BY DEF Resolved
<1> DEFINE text == [text |-> <<"alice">>]
           context == [room |-> "hall", user |-> text, owner |-> text, location |-> text,
                       opened_by |-> text, world_owner |-> text]
<1>1. /\ context.user # Fail /\ context.owner # Fail /\ context.location # Fail
      /\ context.opened_by # Fail /\ context.world_owner # Fail
      /\ [text |-> <<"ma">>] # Fail /\ [text |-> name] # Fail /\ Null # Fail
  BY ValuesAre
<1>2. RoomInboxOf(context.room) # Fail
  BY ValuesAre DEF RoomInboxOf
<1>3. \/ name \in {<<"user">>, <<"owner">>, <<"location">>, <<"opened_by">>,
                   <<"world", "owner">>, <<"world", "slug">>, <<"inbox">>}
      \/ IsRoomInbox(name)
      \/ Len(name) > 1 /\ name[1] = "state"
  BY AllowedInbox DEF is_allowed_symbol
<1> HIDE DEF context
<1>4. resolve_symbol(context, name) # Fail
  BY <1>1, <1>2, <1>3 DEF resolve_symbol
<1> QED BY <1>4 DEF Resolved, context

\* The symbols said to be in an expression are all its value depends on, and the
\* world has a value for each that validation lets pass, whatever the expression
\* and the name (references_symbol and is_allowed_symbol against evaluation).
THEOREM SymbolsAlwaysSound == RuleSpec => []SymbolsSound
<1>1. Looked => SymbolsSound
  BY LookedIs, NamesAssumption, OpenedDecides, NameResolved DEF SymbolsSound
<1> QED BY <1>1, LookedKept, PTL

-----------------------------------------------------------------------------
(* The cache                                                                 *)

USE DEF TtlCache, CacheEntry

\* What every call relies on and restores: neither structure is mended by
\* itself, each place is found through the entry that another one holds.
Good(c) == c \in TtlCache /\ Indexed(c) /\ Numbered(c)

LEMMA DroppedKeeps ==
  ASSUME NEW c, Good(c), NEW S \in SUBSET Present(c)
  PROVE  Good(Dropped(c, S)) /\ Dropped(c, S).nextSeq = c.nextSeq
  <1> DEFINE d == Dropped(c, S)
  <1>1. /\ d \in TtlCache
        /\ d.nextSeq = c.nextSeq
        /\ d.entries = [k \in Keys |-> IF k \in Held(c) \ S THEN Nothing ELSE c.entries[k]]
        /\ d.orderKey = [k \in Keys |-> IF k \in Held(c) \ S THEN Nothing ELSE c.orderKey[k]]
        /\ d.presence = [k \in Keys |-> IF k \in S THEN c.presence[k] ELSE Nothing]
        /\ d.order = {p \in c.order : \A k \in Held(c) \ S : Place(p) # PlaceOf(c.entries[k])}
    BY DEF Good, Dropped
  <1> HIDE DEF d
  <1>2. Held(d) = Held(c) \cap S
    BY <1>1 DEF Held
  <1>3. Present(d) = S /\ Present(c) = Held(c)
    BY <1>1 DEF Present, Good, Indexed
  <1>4. Numbered(d)
    BY <1>1, <1>2 DEF Numbered, Good, Held
  <1>5. d.order = {<<d.entries[k].epoch, d.entries[k].seq, k>> : k \in Held(d)}
    <2>1. ASSUME NEW k \in Held(c)
          PROVE  <<c.entries[k].epoch, c.entries[k].seq, k>> \in d.order <=> k \in S
      <3>1. \A l \in Held(c) : c.entries[l].seq = c.entries[k].seq => l = k
        BY DEF Good, Numbered
      <3>2. <<c.entries[k].epoch, c.entries[k].seq, k>> \in c.order
        BY DEF Good, Indexed
      <3> QED BY <1>1, <3>1, <3>2 DEF Place, PlaceOf
    <2>2. \A k \in Held(d) : d.entries[k] = c.entries[k]
      BY <1>1, <1>2 DEF Held
    <2>3. d.order \subseteq {<<c.entries[k].epoch, c.entries[k].seq, k>> : k \in Held(c)}
      BY <1>1 DEF Good, Indexed
    <2> QED BY <1>2, <2>1, <2>2, <2>3
  <1>6. \A k \in Keys : d.orderKey[k] = IF k \in Held(d) THEN PlaceOf(d.entries[k]) ELSE Nothing
    BY <1>1, <1>2 DEF Good, Indexed, Held
  <1>7. Present(d) = Held(d)
    BY <1>2, <1>3
  <1>8. Good(d)
    BY <1>1, <1>4, <1>5, <1>6, <1>7 DEF Good, Indexed
  <1> QED
    BY <1>1, <1>8 DEF d

\* Every call starts from a cache like this.
LEMMA CompactedKeeps ==
  ASSUME NEW c, Good(c), NEW d \in Compacted(c)
  PROVE  Good(d) /\ d.nextSeq = c.nextSeq
  <1>1. PICK S \in Kept(c) : d = Dropped(c, S)
    BY DEF Compacted
  <1>2. S \in SUBSET Present(c)
    BY DEF Kept, Alive
  <1> QED BY <1>1, <1>2, DroppedKeeps

LEMMA RemovedAtKeeps ==
  ASSUME NEW c, Good(c), NEW P \in SUBSET c.order
  PROVE  Good(RemovedAt(c, P))
  <1> DEFINE d == RemovedAt(c, P)
             gone == {p[3] : p \in P}
  <1>1. /\ d \in TtlCache
        /\ d.nextSeq = c.nextSeq
        /\ d.entries = [k \in Keys |-> IF k \in gone THEN Nothing ELSE c.entries[k]]
        /\ d.orderKey = [k \in Keys |-> IF k \in gone THEN Nothing ELSE c.orderKey[k]]
        /\ d.presence = [k \in Keys |-> IF k \in gone THEN Nothing ELSE c.presence[k]]
        /\ d.order = c.order \ P
    BY DEF Good, RemovedAt
  <1> HIDE DEF d
  <1>2. Held(d) = Held(c) \ gone
    BY <1>1 DEF Held
  <1>3. Present(d) = Held(d)
    BY <1>1, <1>2 DEF Present, Good, Indexed
  <1>4. Numbered(d)
    BY <1>1, <1>2 DEF Numbered, Good, Held
  <1>5. d.order = {<<d.entries[k].epoch, d.entries[k].seq, k>> : k \in Held(d)}
    <2>1. c.order = {<<c.entries[k].epoch, c.entries[k].seq, k>> : k \in Held(c)}
      BY DEF Good, Indexed
    <2>2. \A k \in Held(c) : k \in gone <=> <<c.entries[k].epoch, c.entries[k].seq, k>> \in P
      BY <2>1
    <2>3. \A k \in Held(d) : d.entries[k] = c.entries[k]
      BY <1>1, <1>2 DEF Held
    <2> QED BY <1>1, <1>2, <2>1, <2>2, <2>3
  <1>6. \A k \in Keys : d.orderKey[k] = IF k \in Held(d) THEN PlaceOf(d.entries[k]) ELSE Nothing
    BY <1>1, <1>2 DEF Good, Indexed, Held
  <1> QED
    BY <1>1, <1>3, <1>4, <1>5, <1>6 DEF d, Good, Indexed

LEMMA InsertedKeeps ==
  ASSUME NEW c, Good(c), NEW k \in Keys, NEW v \in Values, NEW epoch \in Nat, now \in Nat
  PROVE  Good(Inserted(c, k, v, epoch))
  <1> DEFINE d == Inserted(c, k, v, epoch)
             e == [value |-> v, epoch |-> epoch, seq |-> c.nextSeq + 1]
             left == {p \in c.order : Place(p) # c.orderKey[k]}
             u == Unplaced(c, c.orderKey[k])
  <1>0. /\ u \in TtlCache
        /\ u.order = left
        /\ u.nextSeq = c.nextSeq /\ u.entries = c.entries
        /\ u.orderKey = c.orderKey /\ u.presence = c.presence
    BY DEF Good, Unplaced
  <1> HIDE DEF u
  <1>1. /\ d \in TtlCache
        /\ d.nextSeq = c.nextSeq + 1
        /\ d.entries = [c.entries EXCEPT ![k] = e]
        /\ d.orderKey = [c.orderKey EXCEPT ![k] = <<epoch, c.nextSeq + 1>>]
        /\ d.presence = [c.presence EXCEPT ![k] = now]
        /\ d.order = left \cup {<<epoch, c.nextSeq + 1, k>>}
    <2>1. d = Placed(u, k, v, epoch)
      BY DEF u, Inserted
    <2> HIDE DEF d
    <2>2. e \in CacheEntry /\ <<epoch, c.nextSeq + 1>> \in Nat \X Nat
          /\ <<epoch, c.nextSeq + 1, k>> \in Nat \X Nat \X Keys
      BY DEF Good
    <2> QED BY <1>0, <2>1, <2>2 DEF Placed
  <1> HIDE DEF d
  <1>2. Held(d) = Held(c) \cup {k} /\ d.entries[k] = e
    BY <1>1, NothingAssumption DEF Held, Good
  <1>3. Present(d) = Held(d)
    BY <1>1, <1>2, NothingAssumption DEF Present, Good, Indexed
  <1>4. Numbered(d)
    BY <1>1, <1>2 DEF Numbered, Good, Held
  <1>5. left = {<<c.entries[l].epoch, c.entries[l].seq, l>> : l \in Held(c) \ {k}}
    <2>1. c.order = {<<c.entries[l].epoch, c.entries[l].seq, l>> : l \in Held(c)}
      BY DEF Good, Indexed
    <2>2. ASSUME NEW l \in Held(c)
          PROVE  Place(<<c.entries[l].epoch, c.entries[l].seq, l>>) = c.orderKey[k] <=> l = k
      <3>0. /\ c.entries[l] \in CacheEntry
            /\ Place(<<c.entries[l].epoch, c.entries[l].seq, l>>) = PlaceOf(c.entries[l])
            /\ PlaceOf(c.entries[l]) \in Nat \X Nat
        BY DEF Good, Held, Place, PlaceOf
      <3>1. CASE k \in Held(c)
        <4>1. c.orderKey[k] = PlaceOf(c.entries[k])
          BY <3>1 DEF Good, Indexed
        <4>2. c.entries[l].seq = c.entries[k].seq => l = k
          BY <3>1 DEF Good, Numbered
        <4> QED BY <3>0, <4>1, <4>2 DEF PlaceOf
      <3>2. CASE k \notin Held(c)
        <4>1. c.orderKey[k] = Nothing
          BY <3>2 DEF Good, Indexed
        <4> QED BY <3>0, <3>2, <4>1, NothingAssumption
      <3> QED BY <3>1, <3>2
    <2> QED BY <2>1, <2>2
  <1>6. d.order = {<<d.entries[l].epoch, d.entries[l].seq, l>> : l \in Held(d)}
    <2>1. \A l \in Held(c) \ {k} : d.entries[l] = c.entries[l]
      BY <1>1 DEF Held
    <2> QED BY <1>1, <1>2, <1>5, <2>1
  <1>7. \A l \in Keys : d.orderKey[l] = IF l \in Held(d) THEN PlaceOf(d.entries[l]) ELSE Nothing
    BY <1>1, <1>2 DEF Good, Indexed, PlaceOf, Held
  <1> QED
    BY <1>1, <1>3, <1>4, <1>6, <1>7 DEF d, Good, Indexed

\* touch finds the old place in the entry, insert in order_key_by_entry.
LEMMA TouchedKeeps ==
  ASSUME NEW c, Good(c), NEW k \in Held(c), now \in Nat
  PROVE  Good(Placed(Unplaced(c, PlaceOf(c.entries[k])), k, c.entries[k].value, now))
  <1>1. c.orderKey[k] = PlaceOf(c.entries[k]) /\ c.entries[k].value \in Values /\ k \in Keys
    BY DEF Good, Indexed, Held
  <1> QED BY <1>1, InsertedKeeps DEF Inserted

LEMMA RemovedKeeps ==
  ASSUME NEW c, Good(c), NEW k \in Keys
  PROVE  Good(Removed(c, k))
  <1>1. CASE c.entries[k] = Nothing
    <2>1. c.presence[k] = Nothing
      BY <1>1 DEF Good, Indexed, Held, Present
    <2>2. Removed(c, k) = c
      BY <1>1, <2>1 DEF Removed, Good
    <2> QED BY <2>2
  <1>2. CASE c.entries[k] # Nothing
    <2> DEFINE p == <<c.entries[k].epoch, c.entries[k].seq, k>>
    <2>1. p \in c.order
      BY <1>2 DEF Good, Indexed, Held
    <2>2. \A q \in c.order : Place(q) = PlaceOf(c.entries[k]) <=> q = p
      <3>1. c.order = {<<c.entries[l].epoch, c.entries[l].seq, l>> : l \in Held(c)}
        BY DEF Good, Indexed
      <3>2. \A l \in Held(c) : c.entries[l].seq = c.entries[k].seq => l = k
        BY <1>2 DEF Good, Numbered, Held
      <3> QED BY <3>1, <3>2 DEF Place, PlaceOf
    <2>3. Removed(c, k) = RemovedAt(c, {p})
      <3>1. {q \in c.order : Place(q) # PlaceOf(c.entries[k])} = c.order \ {p}
        BY <2>2
      <3>2. {q[3] : q \in {p}} = {k}
        OBVIOUS
      <3>3. ASSUME NEW T, NEW f \in [Keys -> T]
            PROVE  [f EXCEPT ![k] = Nothing]
                     = [l \in Keys |-> IF l \in {k} THEN Nothing ELSE f[l]]
        OBVIOUS
      <3>4. /\ [c.orderKey EXCEPT ![k] = Nothing]
                 = [l \in Keys |-> IF l \in {k} THEN Nothing ELSE c.orderKey[l]]
            /\ [c.presence EXCEPT ![k] = Nothing]
                 = [l \in Keys |-> IF l \in {k} THEN Nothing ELSE c.presence[l]]
            /\ [c.entries EXCEPT ![k] = Nothing]
                 = [l \in Keys |-> IF l \in {k} THEN Nothing ELSE c.entries[l]]
        BY <3>3 DEF Good
      <3> DEFINE ok == [c.orderKey EXCEPT ![k] = Nothing]
                 pr == [c.presence EXCEPT ![k] = Nothing]
                 en == [c.entries EXCEPT ![k] = Nothing]
      <3>5. Removed(c, k) = [c EXCEPT !.order = c.order \ {p}, !.orderKey = ok,
                                     !.presence = pr, !.entries = en]
        BY <1>2, <3>1 DEF Removed, Unplaced, Good
      <3>6. RemovedAt(c, {p}) = [c EXCEPT !.order = c.order \ {p}, !.orderKey = ok,
                                         !.presence = pr, !.entries = en]
        BY <3>2, <3>4 DEF RemovedAt
      <3> QED BY <3>5, <3>6
    <2> QED BY <2>1, <2>3, RemovedAtKeeps
  <1> QED BY <1>1, <1>2

LEMMA ChangedKeeps ==
  ASSUME NEW c, Good(c), NEW k \in Held(c), NEW v \in Values
  PROVE  Good([c EXCEPT !.entries = [c.entries EXCEPT
                            ![k] = [c.entries[k] EXCEPT !.value = v]]])
  <1> DEFINE e == [c.entries[k] EXCEPT !.value = v]
             d == [c EXCEPT !.entries = [c.entries EXCEPT ![k] = e]]
  <1>0. /\ k \in Keys /\ e \in CacheEntry
        /\ e.epoch = c.entries[k].epoch /\ e.seq = c.entries[k].seq
    BY DEF Good, Held
  <1> HIDE DEF e
  <1>1. /\ d \in TtlCache
        /\ d.entries = [c.entries EXCEPT ![k] = e]
        /\ d.nextSeq = c.nextSeq /\ d.order = c.order
        /\ d.orderKey = c.orderKey /\ d.presence = c.presence
    BY <1>0 DEF Good
  <1> HIDE DEF d
  <1>2. Held(d) = Held(c)
    BY <1>0, <1>1, NothingAssumption DEF Held, Good
  <1>3. \A l \in Held(c) : /\ d.entries[l].epoch = c.entries[l].epoch
                          /\ d.entries[l].seq = c.entries[l].seq
    BY <1>0, <1>1 DEF Held, Good
  <1>4. Numbered(d)
    BY <1>1, <1>2, <1>3 DEF Numbered, Good
  <1>5. d.order = {<<d.entries[l].epoch, d.entries[l].seq, l>> : l \in Held(d)}
    BY <1>1, <1>2, <1>3 DEF Good, Indexed
  <1>6. \A l \in Keys : d.orderKey[l] = IF l \in Held(d) THEN PlaceOf(d.entries[l]) ELSE Nothing
    BY <1>1, <1>2, <1>3 DEF Good, Indexed, PlaceOf
  <1>7. Present(d) = Held(d)
    BY <1>1, <1>2 DEF Good, Indexed, Present
  <1>8. Good(d)
    BY <1>1, <1>4, <1>5, <1>6, <1>7 DEF Good, Indexed
  <1> QED BY <1>8 DEF d, e

\* Neither default_max_cache nor the capacity is part of the agreement, and the
\* new presence cache is told of every entry.
LEMMA RebuiltKeeps ==
  ASSUME NEW c, Good(c), NEW span \in Nat, NEW capacity \in Nat, now \in Nat
  PROVE  Good([c EXCEPT !.span = span, !.capacity = capacity,
                        !.presence = [k \in Keys |-> IF k \in Held(c) THEN now ELSE Nothing]])
  <1> DEFINE pr == [k \in Keys |-> IF k \in Held(c) THEN now ELSE Nothing]
             d == [c EXCEPT !.span = span, !.capacity = capacity, !.presence = pr]
  <1>1. /\ pr \in [Keys -> Nat \cup {Nothing}]
        /\ \A k \in Keys : pr[k] # Nothing <=> k \in Held(c)
    BY NothingAssumption
  <1> HIDE DEF pr
  <1>2. /\ d \in TtlCache
        /\ d.entries = c.entries /\ d.nextSeq = c.nextSeq /\ d.order = c.order
        /\ d.orderKey = c.orderKey /\ d.presence = pr
    BY <1>1 DEF Good
  <1> HIDE DEF d
  <1>3. Held(d) = Held(c) /\ Present(d) = Held(c)
    BY <1>1, <1>2 DEF Held, Present
  <1>4. Good(d)
    BY <1>2, <1>3 DEF Good, Indexed, Numbered
  <1> QED BY <1>4 DEF d, pr

LEMMA EmptyGood ==
  ASSUME NEW c \in TtlCache, c.entries = Empty, c.order = {}, c.orderKey = Empty,
         c.presence = Empty
  PROVE  Good(c)
  <1>1. Held(c) = {} /\ Present(c) = {}
    BY DEF Held, Present, Empty
  <1> QED BY <1>1 DEF Good, Indexed, Numbered, Empty

-----------------------------------------------------------------------------
IInv == TypeOK /\ Good(cache)

LEMMA InitGood == Init => IInv
  <1> SUFFICES ASSUME Init PROVE IInv
    OBVIOUS
  <1>1. PICK span \in Ages, capacity \in Capacities : cache = New(span, capacity)
    BY DEF Init
  <1>2. Empty \in [Keys -> CacheEntry \cup {Nothing}] /\ Empty \in [Keys -> (Nat \X Nat) \cup {Nothing}]
          /\ Empty \in [Keys -> Nat \cup {Nothing}]
    BY DEF Empty
  <1>3. /\ cache \in TtlCache
        /\ cache.entries = Empty /\ cache.order = {} /\ cache.orderKey = Empty /\ cache.presence = Empty
    BY <1>1, <1>2, AgesAssumption, CapacityAssumption DEF New
  <1> QED BY <1>3, EmptyGood DEF Init, TypeOK, IInv

\* What a call that leaves the clock has to show.
LEMMA LeavesKeeps ==
  ASSUME IInv, NEW c, Good(c), Leaves(c)
  PROVE  IInv'
  BY DEF IInv, TypeOK, Leaves, Good, Indexed, Numbered, Held, Present

LEMMA TakesKeeps ==
  ASSUME IInv, NEW c, Good(c), NEW p \in c.order, NEW age \in Nat, Takes(c, p, age)
  PROVE  IInv'
  <1>1. Good(RemovedAt(c, {p}))
    BY RemovedAtKeeps
  <1>2. p[3] \in Held(c) /\ p \in Nat \X Nat \X Keys
    BY DEF Good, Indexed
  <1>3. c.entries[p[3]].value \in Values /\ p[3] \in Keys /\ p[1] \in Nat
    BY <1>2 DEF Good, Held
  <1>4. taken' \in [age : Nat, key : Keys, value : Values, epoch : Nat]
    BY <1>3 DEF Takes
  <1>5. Good(cache')
    BY <1>1 DEF Takes
  <1>6. TypeOK'
    BY <1>4, <1>5 DEF IInv, TypeOK, Takes, Good
  <1> QED BY <1>5, <1>6 DEF IInv, Good, Indexed, Numbered, Held, Present

\* The clock passes.
LEMMA TickKeeps ==
  ASSUME IInv, Tick
  PROVE  IInv'
  <1>1. Good(cache')
    BY DEF IInv, Tick
  <1>2. TypeOK'
    BY DEF IInv, Tick, TypeOK
  <1> QED BY <1>1, <1>2 DEF IInv, Good, Indexed, Numbered, Held, Present

LEMMA KeepingKeeps ==
  ASSUME IInv, Keeping
  PROVE  IInv'
  <1>0. now \in Nat /\ \A c \in Compacted(cache) : Good(c)
    BY CompactedKeeps DEF IInv, TypeOK
  <1>1. ASSUME NEW k \in Keys, NEW v \in Values, NEW epoch \in Nat, InsertWithEpoch(k, v, epoch)
        PROVE  IInv'
    <2>1. PICK c \in Compacted(cache) : Leaves(Inserted(c, k, v, epoch))
      BY <1>1 DEF InsertWithEpoch
    <2>2. Good(Inserted(c, k, v, epoch))
      BY <1>0, InsertedKeeps
    <2> QED BY <2>1, <2>2, LeavesKeeps
  <1>2. ASSUME NEW k \in Keys, Touch(k)
        PROVE  IInv'
    <2>1. PICK c \in Compacted(cache) :
            IF c.entries[k] = Nothing THEN Leaves(c)
            ELSE Leaves(Placed(Unplaced(c, PlaceOf(c.entries[k])), k, c.entries[k].value, now))
      BY <1>2 DEF Touch
    <2>2. CASE c.entries[k] = Nothing
      BY <1>0, <2>1, <2>2, LeavesKeeps
    <2>3. CASE c.entries[k] # Nothing
      <3>1. Good(Placed(Unplaced(c, PlaceOf(c.entries[k])), k, c.entries[k].value, now))
        BY <1>0, <2>3, TouchedKeeps DEF Held
      <3> QED BY <2>1, <2>3, <3>1, LeavesKeeps
    <2> QED BY <2>2, <2>3
  <1>3. ASSUME NEW k \in Keys, NEW v \in Values, NEW age \in Ages, GetMut(k, v, age)
        PROVE  IInv'
    <2>1. PICK c \in Compacted(cache) :
            Leaves(IF Get(c, k, age) = Nothing THEN c
                   ELSE [c EXCEPT !.entries = [c.entries EXCEPT
                            ![k] = [c.entries[k] EXCEPT !.value = v]]])
      BY <1>3 DEF GetMut
    <2>2. CASE Get(c, k, age) = Nothing
      BY <1>0, <2>1, <2>2, LeavesKeeps
    <2>3. CASE Get(c, k, age) # Nothing
      <3>1. k \in Held(c)
        BY <2>3 DEF Get, Held
      <3>2. Good([c EXCEPT !.entries = [c.entries EXCEPT
                      ![k] = [c.entries[k] EXCEPT !.value = v]]])
        BY <1>0, <3>1, ChangedKeeps
      <3> QED BY <2>1, <2>3, <3>2, LeavesKeeps
    <2> QED BY <2>2, <2>3
  <1>4. ASSUME NEW age \in Ages, FlushOlderThan(age)
        PROVE  IInv'
    <2>1. PICK c \in Compacted(cache) :
            Leaves(RemovedAt(c, {p \in c.order : p[1] < now - age}))
      BY <1>4 DEF FlushOlderThan
    <2>2. Good(RemovedAt(c, {p \in c.order : p[1] < now - age}))
      BY <1>0, RemovedAtKeeps
    <2> QED BY <2>1, <2>2, LeavesKeeps
  <1>5. ASSUME NEW age \in Ages, SetDefaultMaxCache(age)
        PROVE  IInv'
    <2> DEFINE room(c) == IF Held(c) = {} THEN 1 ELSE Cardinality(Held(c))
               new(c) == [c EXCEPT !.span = age, !.capacity = room(c),
                            !.presence = [k \in Keys |-> IF k \in Held(c) THEN now ELSE Nothing]]
    <2>1. PICK c \in Compacted(cache) : Leaves(new(c))
      BY <1>5 DEF SetDefaultMaxCache
    <2>2. Held(c) \subseteq Keys
      BY DEF Held
    <2>3. room(c) \in Nat
      BY <2>2, KeysAssumption, FS_Subset, FS_CardinalityType
    <2> HIDE DEF room
    <2>4. Good(new(c))
      BY <1>0, <2>3, RebuiltKeeps, AgesAssumption
    <2> QED BY <2>1, <2>4, LeavesKeeps
  <1>6. now \in Nat /\ Epochs \subseteq Nat
    BY <1>0, AgesAssumption
  <1> QED
    BY <1>1, <1>2, <1>3, <1>4, <1>5, <1>6, TickKeeps DEF Keeping, Insert, Backdated

LEMMA RemovingKeeps ==
  ASSUME IInv, Removing
  PROVE  IInv'
  <1>0. now \in Nat /\ \A c \in Compacted(cache) : Good(c)
    BY CompactedKeeps DEF IInv, TypeOK
  <1>1. ASSUME NEW k \in Keys, RemoveKey(k)
        PROVE  IInv'
    <2>1. PICK c \in Compacted(cache) :
            /\ cache' = Removed(c, k)
            /\ taken' = IF c.entries[k] = Nothing THEN Nothing
                        ELSE [age |-> Forever, key |-> k, value |-> c.entries[k].value,
                              epoch |-> c.entries[k].epoch]
            /\ UNCHANGED now
      BY <1>1 DEF RemoveKey
    <2>2. Good(cache')
      BY <1>0, <2>1, RemovedKeeps
    <2>3. c.entries[k] # Nothing => c.entries[k] \in CacheEntry
      BY <1>0 DEF Good
    <2>4. taken' \in [age : Nat, key : Keys, value : Values, epoch : Nat] \cup {Nothing}
      BY <2>1, <2>3, ForeverAssumption
    <2>5. TypeOK'
      BY <1>0, <2>1, <2>2, <2>4 DEF TypeOK, Good
    <2> QED BY <2>2, <2>5 DEF IInv, Good, Indexed, Numbered, Held, Present
  <1>2. ASSUME NEW age \in Nat, NEW c \in Compacted(cache), NEW p \in c.order, Takes(c, p, age)
        PROVE  IInv'
    BY <1>0, <1>2, TakesKeeps
  <1>3. ASSUME NEW c \in Compacted(cache), Leaves(c)
        PROVE  IInv'
    BY <1>0, <1>3, LeavesKeeps
  <1>4. ASSUME NEW age \in Ages, PopFirst(age) \/ PopLatest(age)
        PROVE  IInv'
    BY <1>2, <1>3, <1>4, AgesAssumption DEF PopFirst, PopLatest, Firsts, Lasts, Listed
  <1>5. ASSUME PopFirstAny \/ PopLatestAny
        PROVE  IInv'
    BY <1>2, <1>3, <1>5, ForeverAssumption DEF PopFirstAny, PopLatestAny, Firsts, Lasts
  <1>6. ASSUME Clear
        PROVE  IInv'
    <2> DEFINE c == [cache EXCEPT !.entries = Empty, !.order = {}, !.orderKey = Empty,
                                  !.presence = Empty]
    <2>1. /\ Empty \in [Keys -> CacheEntry \cup {Nothing}]
          /\ Empty \in [Keys -> (Nat \X Nat) \cup {Nothing}]
          /\ Empty \in [Keys -> Nat \cup {Nothing}]
      BY DEF Empty
    <2>2. /\ c \in TtlCache /\ c.entries = Empty /\ c.order = {} /\ c.orderKey = Empty
          /\ c.presence = Empty
      BY <2>1 DEF IInv, TypeOK
    <2>3. Leaves(c)
      BY <1>6 DEF Clear
    <2> HIDE DEF c
    <2> QED BY <2>2, <2>3, EmptyGood, LeavesKeeps
  <1>7. ASSUME NEW n \in 1..MaxSeq, FlushBeforeSeqNo(n)
        PROVE  IInv'
    <2>1. PICK c \in Compacted(cache) : Leaves(RemovedAt(c, {p \in c.order : p[2] <= n}))
      BY <1>7 DEF FlushBeforeSeqNo
    <2>2. Good(RemovedAt(c, {p \in c.order : p[2] <= n}))
      BY <1>0, RemovedAtKeeps
    <2> QED BY <2>1, <2>2, LeavesKeeps
  <1> QED
    BY <1>1, <1>4, <1>5, <1>6, <1>7 DEF Removing

LEMMA GoodInvariant == Spec => []IInv
  <1>1. ASSUME IInv, [Next]_vars
        PROVE  IInv'
    <2>1. CASE UNCHANGED vars
      BY <1>1, <2>1 DEF vars, IInv, TypeOK, Good, Indexed, Numbered, Held, Present
    <2> QED BY <1>1, <2>1, KeepingKeeps, RemovingKeeps DEF Next
  <1> QED BY <1>1, InitGood, PTL DEF Spec

\* The cache keeps its type, for any keys, ages and capacities (TtlCache).
THEOREM CacheTypeCorrect == Spec => []TypeOK
  BY GoodInvariant, PTL DEF IInv

\* The entries, their order, the keys' places and moka's presence go on telling
\* of the same entries, whatever moka evicts and whichever calls are made
\* (insert_with_epoch_ms, touch, remove_by_order_key, compact_evicted).
THEOREM IndexesAlwaysAgree == Spec => []IndexesAgree
  <1>1. IInv => IndexesAgree
    BY DEF IInv, Good, IndexesAgree
  <1> QED BY <1>1, GoodInvariant, PTL

-----------------------------------------------------------------------------
(* How long an entry stays                                                  *)

\* moka was told of an entry when it was dated or later, and not in the future.
Told(c) ==
  \A k \in Held(c) :
    c.presence[k] \in Nat /\ c.entries[k].epoch <= c.presence[k] /\ c.presence[k] <= now

\* The entries of d are entries of c, as moka knew them.
Among(d, c) ==
  \A k \in Held(d) :
    k \in Held(c) /\ d.entries[k].epoch = c.entries[k].epoch /\ d.presence[k] = c.presence[k]

LEMMA AmongTold ==
  ASSUME NEW c, NEW d, Told(c), Among(d, c)
  PROVE  Told(d)
  BY DEF Told, Among

LEMMA DroppedAmong ==
  ASSUME NEW c, Good(c), NEW S \in SUBSET Present(c)
  PROVE  /\ Among(Dropped(c, S), c)
         /\ \A k \in S : k \in Held(c) /\ Dropped(c, S).entries[k] = c.entries[k]
  <1> DEFINE d == Dropped(c, S)
  <1>1. /\ d.entries = [k \in Keys |-> IF k \in Held(c) \ S THEN Nothing ELSE c.entries[k]]
        /\ d.presence = [k \in Keys |-> IF k \in S THEN c.presence[k] ELSE Nothing]
    BY DEF Good, Dropped
  <1> HIDE DEF d
  <1>2. Present(c) = Held(c) /\ Held(c) \subseteq Keys
    BY DEF Good, Indexed, Held
  <1>3. \A k \in Held(d) : k \in S /\ k \in Held(c)
    BY <1>1, <1>2 DEF Held
  <1> QED BY <1>1, <1>2, <1>3 DEF Among, d

LEMMA RemovedAtAmong ==
  ASSUME NEW c, Good(c), NEW P \in SUBSET c.order
  PROVE  /\ Among(RemovedAt(c, P), c)
         /\ \A k \in Held(c) : (\A p \in P : p[3] # k) =>
               RemovedAt(c, P).entries[k] = c.entries[k]
  <1> DEFINE d == RemovedAt(c, P)
             gone == {p[3] : p \in P}
  <1>1. /\ d.entries = [k \in Keys |-> IF k \in gone THEN Nothing ELSE c.entries[k]]
        /\ d.presence = [k \in Keys |-> IF k \in gone THEN Nothing ELSE c.presence[k]]
    BY DEF Good, RemovedAt
  <1> HIDE DEF d
  <1> QED BY <1>1 DEF Among, Held, d

LEMMA CompactedAmong ==
  ASSUME NEW c, Good(c), NEW d \in Compacted(c)
  PROVE  Among(d, c)
  <1>1. PICK S \in Kept(c) : d = Dropped(c, S)
    BY DEF Compacted
  <1>2. S \in SUBSET Present(c)
    BY DEF Kept, Alive
  <1> QED BY <1>1, <1>2, DroppedAmong

\* An entry that is written is dated now or before, and moka is told of it.
LEMMA PlacedTold ==
  ASSUME NEW c \in TtlCache, Told(c), NEW k \in Keys, NEW v \in Values, NEW epoch \in Nat,
         now \in Nat, epoch <= now
  PROVE  /\ Told(Placed(c, k, v, epoch))
         /\ \A l \in Held(c) : Placed(c, k, v, epoch).entries[l] # Nothing
  <1> DEFINE n == c.nextSeq + 1
             e == [value |-> v, epoch |-> epoch, seq |-> n]
             d == Placed(c, k, v, epoch)
  <1>1. n \in Nat /\ e \in CacheEntry /\ e.epoch = epoch
    OBVIOUS
  <1>2. d.entries = [c.entries EXCEPT ![k] = e] /\ d.presence = [c.presence EXCEPT ![k] = now]
    BY DEF Placed
  <1> HIDE DEF d, e
  <1>3. \A l \in Keys : /\ d.entries[l] = (IF l = k THEN e ELSE c.entries[l])
                       /\ d.presence[l] = (IF l = k THEN now ELSE c.presence[l])
    BY <1>2
  <1>4. e # Nothing
    BY <1>1, NothingAssumption
  <1>5. Told(d)
    BY <1>1, <1>3 DEF Told, Held
  <1>6. \A l \in Held(c) : d.entries[l] # Nothing
    BY <1>3, <1>4 DEF Held
  <1> QED BY <1>5, <1>6 DEF d

LEMMA InsertedTold ==
  ASSUME NEW c, Good(c), Told(c), NEW k \in Keys, NEW v \in Values, NEW epoch \in Nat, NEW place,
         now \in Nat, epoch <= now
  PROVE  /\ Told(Placed(Unplaced(c, place), k, v, epoch))
         /\ \A l \in Held(c) : Placed(Unplaced(c, place), k, v, epoch).entries[l] # Nothing
  <1> DEFINE u == Unplaced(c, place)
  <1>1. u \in TtlCache /\ u.entries = c.entries /\ u.presence = c.presence
    BY DEF Good, Unplaced
  <1> HIDE DEF u
  <1>2. Told(u) /\ Held(u) = Held(c)
    BY <1>1 DEF Told, Held
  <1> QED BY <1>1, <1>2, PlacedTold DEF u

LEMMA ChangedTold ==
  ASSUME NEW c, Good(c), Told(c), NEW k \in Held(c), NEW v \in Values
  PROVE  LET d == [c EXCEPT !.entries = [c.entries EXCEPT ![k] = [c.entries[k] EXCEPT !.value = v]]]
         IN  Told(d) /\ \A l \in Held(c) : d.entries[l] # Nothing
  <1> DEFINE e == [c.entries[k] EXCEPT !.value = v]
             d == [c EXCEPT !.entries = [c.entries EXCEPT ![k] = e]]
  <1>0. k \in Keys /\ e \in CacheEntry /\ e.epoch = c.entries[k].epoch
    BY DEF Good, Held
  <1> HIDE DEF e
  <1>1. d.entries = [c.entries EXCEPT ![k] = e] /\ d.presence = c.presence /\ c.entries \in [Keys -> CacheEntry \cup {Nothing}]
    BY <1>0 DEF Good
  <1> HIDE DEF d
  <1>2. \A l \in Keys : d.entries[l] = (IF l = k THEN e ELSE c.entries[l])
    BY <1>1
  <1>3. e # Nothing
    BY <1>0, NothingAssumption
  <1>4. Told(d)
    BY <1>0, <1>1, <1>2 DEF Told, Held
  <1>5. \A l \in Held(c) : d.entries[l] # Nothing
    BY <1>2, <1>3 DEF Held
  <1> QED BY <1>4, <1>5 DEF d, e

LEMMA RebuiltTold ==
  ASSUME NEW c, Good(c), Told(c), NEW span, NEW capacity, now \in Nat
  PROVE  LET d == [c EXCEPT !.span = span, !.capacity = capacity,
                            !.presence = [k \in Keys |-> IF k \in Held(c) THEN now ELSE Nothing]]
         IN  Told(d) /\ d.entries = c.entries
  <1> DEFINE pr == [k \in Keys |-> IF k \in Held(c) THEN now ELSE Nothing]
             d == [c EXCEPT !.span = span, !.capacity = capacity, !.presence = pr]
  <1>1. d.entries = c.entries /\ d.presence = pr
    BY DEF Good
  <1> HIDE DEF d
  <1>2. Held(d) = Held(c)
    BY <1>1 DEF Held
  <1>3. Told(d)
    <2> SUFFICES ASSUME NEW k \in Held(d)
                 PROVE  d.presence[k] \in Nat /\ d.entries[k].epoch <= d.presence[k] /\ d.presence[k] <= now
      BY DEF Told
    <2>1. k \in Held(c) /\ k \in Keys /\ c.entries[k] \in CacheEntry
      BY <1>2 DEF Held, Good
    <2>2. c.presence[k] \in Nat /\ c.entries[k].epoch <= c.presence[k] /\ c.presence[k] <= now
      BY <2>1 DEF Told
    <2>3. d.presence[k] = now /\ c.entries[k].epoch \in Nat
      BY <1>1, <2>1
    <2> QED BY <1>1, <2>2, <2>3
  <1> QED BY <1>1, <1>3 DEF d, pr

\* A young entry of a cache without a capacity is not among those moka lets go.
LEMMA YoungCompacted ==
  ASSUME IInv, Told(cache), NEW k \in Held(cache), cache.capacity = Nothing,
         now - cache.entries[k].epoch < cache.span, NEW c \in Compacted(cache)
  PROVE  k \in Held(c) /\ c.entries[k] = cache.entries[k]
  <1>1. k \in Keys /\ k \in Present(cache)
    BY DEF IInv, Good, Indexed, Held
  <1>2. /\ now \in Nat /\ cache.span \in Nat /\ cache.entries[k] \in CacheEntry
        /\ cache.presence[k] \in Nat /\ cache.entries[k].epoch <= cache.presence[k]
    BY <1>1 DEF IInv, TypeOK, Told, Held
  <1>3. k \in Alive(cache)
    BY <1>1, <1>2 DEF Alive
  <1>4. c = Dropped(cache, Alive(cache)) /\ Alive(cache) \in SUBSET Present(cache)
    BY DEF Compacted, Kept, Alive
  <1>5. c.entries[k] = cache.entries[k]
    BY <1>3, <1>4, DroppedAmong DEF IInv
  <1> QED BY <1>1, <1>5 DEF Held

\* The step keeps what is young, and what moka was told of.
Stays ==
  \A k \in Held(cache) :
    /\ cache.capacity = Nothing
    /\ now - cache.entries[k].epoch < cache.span
    /\ \A age \in Ages : FlushOlderThan(age) => age >= cache.span
    => cache'.entries[k] # Nothing

\* A call that forgets none of the entries the compacted cache has.
LEMMA LeavesStays ==
  ASSUME IInv, Told(cache), NEW c \in Compacted(cache), NEW d, Leaves(d), Told(d),
         \A k \in Held(c) : d.entries[k] # Nothing
  PROVE  Told(cache)' /\ Stays
  <1>1. cache' = d /\ now' = now
    BY DEF Leaves
  <1>2. Told(cache)'
    BY <1>1 DEF Told, Held
  <1>3. Stays
    BY <1>1, YoungCompacted DEF Stays
  <1> QED BY <1>2, <1>3

LEMMA KeepingStays ==
  ASSUME IInv, Told(cache), Keeping
  PROVE  Told(cache)' /\ Stays
  <1>0. now \in Nat /\ Good(cache) /\ \A c \in Compacted(cache) : Good(c) /\ Told(c)
    BY CompactedKeeps, CompactedAmong, AmongTold DEF IInv, TypeOK
  <1>1. ASSUME NEW k \in Keys, NEW v \in Values, NEW epoch \in Nat, epoch <= now,
               InsertWithEpoch(k, v, epoch)
        PROVE  Told(cache)' /\ Stays
    <2>1. PICK c \in Compacted(cache) : Leaves(Inserted(c, k, v, epoch))
      BY <1>1 DEF InsertWithEpoch
    <2> DEFINE d == Inserted(c, k, v, epoch)
    <2>2. Told(d) /\ \A l \in Held(c) : d.entries[l] # Nothing
      BY <1>0, <1>1, InsertedTold DEF Inserted
    <2> HIDE DEF d
    <2>3. Leaves(d)
      BY <2>1 DEF d
    <2> QED BY <2>2, <2>3, LeavesStays
  <1>2. ASSUME NEW k \in Keys, Touch(k)
        PROVE  Told(cache)' /\ Stays
    <2>1. PICK c \in Compacted(cache) :
            IF c.entries[k] = Nothing THEN Leaves(c)
            ELSE Leaves(Placed(Unplaced(c, PlaceOf(c.entries[k])), k, c.entries[k].value, now))
      BY <1>2 DEF Touch
    <2>2. CASE c.entries[k] = Nothing
      BY <1>0, <2>1, <2>2, LeavesStays DEF Held
    <2>3. CASE c.entries[k] # Nothing
      <3> DEFINE d == Placed(Unplaced(c, PlaceOf(c.entries[k])), k, c.entries[k].value, now)
      <3>1. c.entries[k].value \in Values /\ now <= now
        BY <1>0, <2>3 DEF Good
      <3>2. Told(d) /\ \A l \in Held(c) : d.entries[l] # Nothing
        BY <1>0, <3>1, InsertedTold
      <3> HIDE DEF d
      <3>3. Leaves(d)
        BY <2>1, <2>3 DEF d
      <3> QED BY <3>2, <3>3, LeavesStays
    <2> QED BY <2>2, <2>3
  <1>3. ASSUME NEW k \in Keys, NEW v \in Values, NEW age \in Ages, GetMut(k, v, age)
        PROVE  Told(cache)' /\ Stays
    <2>1. PICK c \in Compacted(cache) :
            Leaves(IF Get(c, k, age) = Nothing THEN c
                   ELSE [c EXCEPT !.entries = [c.entries EXCEPT
                            ![k] = [c.entries[k] EXCEPT !.value = v]]])
      BY <1>3 DEF GetMut
    <2>2. CASE Get(c, k, age) = Nothing
      BY <1>0, <2>1, <2>2, LeavesStays DEF Held
    <2>3. CASE Get(c, k, age) # Nothing
      <3> DEFINE d == [c EXCEPT !.entries = [c.entries EXCEPT
                          ![k] = [c.entries[k] EXCEPT !.value = v]]]
      <3>1. k \in Held(c)
        BY <2>3 DEF Get, Held
      <3>2. Told(d) /\ \A l \in Held(c) : d.entries[l] # Nothing
        BY <1>0, <3>1, ChangedTold
      <3>3. Leaves(d)
        BY <2>1, <2>3
      <3> HIDE DEF d
      <3> QED BY <3>2, <3>3, LeavesStays
    <2> QED BY <2>2, <2>3
  <1>4. ASSUME NEW age \in Ages, FlushOlderThan(age)
        PROVE  Told(cache)' /\ Stays
    <2>1. PICK c \in Compacted(cache) :
            Leaves(RemovedAt(c, {p \in c.order : p[1] < now - age}))
      BY <1>4 DEF FlushOlderThan
    <2> DEFINE P == {p \in c.order : p[1] < now - age}
               d == RemovedAt(c, P)
    <2>2. Told(d)
      BY <1>0, RemovedAtAmong, AmongTold
    <2>3. cache' = d /\ now' = now
      BY <2>1 DEF Leaves
    <2>4. Told(cache)'
      <3> HIDE DEF d
      <3> QED BY <2>2, <2>3 DEF Told, Held
    <2>5. ASSUME NEW k \in Held(cache), cache.capacity = Nothing,
                 now - cache.entries[k].epoch < cache.span, age >= cache.span
          PROVE  cache'.entries[k] # Nothing
      <3>1. k \in Held(c) /\ c.entries[k] = cache.entries[k] /\ k \in Keys
        BY <2>5, YoungCompacted DEF Held
      <3>2. c.entries[k].epoch \in Nat /\ age \in Nat /\ cache.span \in Nat
        BY <1>0, <3>1, AgesAssumption DEF Good, Held, IInv, TypeOK
      <3>3. \A p \in P : p[3] # k
        <4> SUFFICES ASSUME NEW p \in c.order, p[1] < now - age, p[3] = k PROVE FALSE
          OBVIOUS
        <4>1. p[1] = c.entries[k].epoch
          BY <1>0 DEF Good, Indexed
        <4> QED BY <1>0, <2>5, <3>1, <3>2, <4>1
      <3>4. d.entries[k] = c.entries[k]
        BY <1>0, <3>1, <3>3, RemovedAtAmong
      <3> QED BY <2>3, <3>1, <3>4 DEF Held
    <2> QED BY <1>4, <2>4, <2>5 DEF Stays
  <1>5. ASSUME NEW age \in Ages, SetDefaultMaxCache(age)
        PROVE  Told(cache)' /\ Stays
    <2> DEFINE room(c) == IF Held(c) = {} THEN 1 ELSE Cardinality(Held(c))
               new(c) == [c EXCEPT !.span = age, !.capacity = room(c),
                            !.presence = [k \in Keys |-> IF k \in Held(c) THEN now ELSE Nothing]]
    <2>1. PICK c \in Compacted(cache) : Leaves(new(c))
      BY <1>5 DEF SetDefaultMaxCache
    <2> HIDE DEF room
    <2>2. Told(new(c)) /\ new(c).entries = c.entries
      BY <1>0, RebuiltTold
    <2> HIDE DEF new
    <2> QED BY <2>1, <2>2, LeavesStays DEF Held
  <1>6. ASSUME Tick
        PROVE  Told(cache)' /\ Stays
    <2>1. cache' = cache /\ now' = now + 1 /\ now' \in Nat /\ now <= now'
      BY <1>0, <1>6 DEF Tick
    <2>2. Told(cache)'
      BY <1>0, <2>1 DEF Told, Held
    <2> QED BY <2>1, <2>2 DEF Stays, Held
  <1>7. now \in Nat /\ now <= now /\ Epochs \subseteq Nat
    BY <1>0, AgesAssumption
  <1> QED
    BY <1>1, <1>2, <1>3, <1>4, <1>5, <1>6, <1>7 DEF Keeping, Insert, Backdated

LEMMA RemovingTold ==
  ASSUME IInv, Told(cache), Removing
  PROVE  Told(cache)'
  <1>0. now \in Nat /\ Good(cache) /\ \A c \in Compacted(cache) : Good(c) /\ Told(c)
    BY CompactedKeeps, CompactedAmong, AmongTold DEF IInv, TypeOK
  <1>1. ASSUME NEW d, cache' = d, now' = now, Told(d)
        PROVE  Told(cache)'
    BY <1>1 DEF Told, Held
  <1>2. ASSUME NEW k \in Keys, RemoveKey(k)
        PROVE  Told(cache)'
    <2>1. PICK c \in Compacted(cache) : cache' = Removed(c, k) /\ UNCHANGED now
      BY <1>2 DEF RemoveKey
    <2> DEFINE d == Removed(c, k)
    <2>2. Among(d, c)
      <3>1. c \in TtlCache /\ Present(c) = Held(c)
        BY <1>0 DEF Good, Indexed
      <3>2. /\ d.entries = [c.entries EXCEPT ![k] = Nothing]
            /\ d.presence = [c.presence EXCEPT ![k] = Nothing]
        BY <3>1 DEF Removed, Unplaced
      <3> HIDE DEF d
      <3> QED BY <3>1, <3>2 DEF Among, Held
    <2> HIDE DEF d
    <2>3. Told(d)
      BY <1>0, <2>2, AmongTold
    <2> QED BY <1>1, <2>1, <2>3 DEF d
  <1>3. ASSUME NEW c \in Compacted(cache), NEW P \in SUBSET c.order, cache' = RemovedAt(c, P), now' = now
        PROVE  Told(cache)'
    BY <1>0, <1>1, <1>3, RemovedAtAmong, AmongTold
  <1>4. ASSUME NEW c \in Compacted(cache), NEW p \in c.order, NEW age, Takes(c, p, age)
        PROVE  Told(cache)'
    BY <1>3, <1>4 DEF Takes
  <1>5. ASSUME NEW c \in Compacted(cache), Leaves(c)
        PROVE  Told(cache)'
    BY <1>0, <1>1, <1>5 DEF Leaves
  <1>6. ASSUME NEW age \in Ages, PopFirst(age) \/ PopLatest(age)
        PROVE  Told(cache)'
    BY <1>4, <1>5, <1>6 DEF PopFirst, PopLatest, Firsts, Lasts, Listed
  <1>7. ASSUME PopFirstAny \/ PopLatestAny
        PROVE  Told(cache)'
    BY <1>4, <1>5, <1>7 DEF PopFirstAny, PopLatestAny, Firsts, Lasts
  <1>8. ASSUME Clear
        PROVE  Told(cache)'
    <2>1. cache'.entries = Empty
      BY <1>0, <1>8 DEF Clear, Leaves, Good
    <2> QED BY <2>1 DEF Told, Held, Empty
  <1>9. ASSUME NEW n \in 1..MaxSeq, FlushBeforeSeqNo(n)
        PROVE  Told(cache)'
    BY <1>3, <1>9 DEF FlushBeforeSeqNo, Leaves
  <1> QED
    BY <1>2, <1>6, <1>7, <1>8, <1>9 DEF Removing

\* For any keys, ages and times: an entry younger than default_max_cache goes only by a
\* call that takes or removes entries, as long as no capacity makes moka choose.
THEOREM YoungAlwaysStay == Spec => YoungStay
  <1>1. Init => Told(cache)
    <2> SUFFICES ASSUME Init PROVE Told(cache)
      OBVIOUS
    <2>1. cache.entries = Empty
      BY DEF Init, New
    <2> QED BY <2>1 DEF Told, Held, Empty
  <1>2. IInv /\ Told(cache) /\ [Next]_vars => Told(cache)'
    <2> SUFFICES ASSUME IInv, Told(cache), [Next]_vars PROVE Told(cache)'
      OBVIOUS
    <2>1. CASE UNCHANGED vars
      BY <2>1 DEF vars, Told, Held
    <2> QED BY <2>1, KeepingStays, RemovingTold DEF Next
  <1>3. IInv /\ Told(cache) /\ [Next]_vars => [Removing \/ Stays]_vars
    BY KeepingStays DEF Next
  <1> QED BY <1>1, <1>2, <1>3, GoodInvariant, PTL DEF Spec, YoungStay, Stays

-----------------------------------------------------------------------------
(* Places in a strict order                                                 *)

\* R orders the elements of S.
Strict(R, S) ==
    /\ \A p \in S : <<p, p>> \notin R
    /\ \A p, q \in S : p # q => <<p, q>> \in R \/ <<q, p>> \in R
    /\ \A p, q, r \in S : <<p, q>> \in R /\ <<q, r>> \in R => <<p, r>> \in R

Below(R, S, p) == {q \in S : <<q, p>> \in R}
Rank(R, S, p) == Cardinality(Below(R, S, p))

\* There are fewer elements below the lower one, and always fewer than all.
LEMMA RankGrows ==
  ASSUME NEW R, NEW S, IsFiniteSet(S), Strict(R, S), NEW p \in S
  PROVE  /\ Rank(R, S, p) \in 0 .. (Cardinality(S) - 1)
         /\ \A q \in S : <<p, q>> \in R => Rank(R, S, p) < Rank(R, S, q)
  <1>1. \A q \in S : IsFiniteSet(Below(R, S, q)) /\ Rank(R, S, q) \in Nat
    BY FS_Subset, FS_CardinalityType DEF Below, Rank
  <1>2. Rank(R, S, p) < Cardinality(S)
    <2>1. Below(R, S, p) \in SUBSET S /\ Below(R, S, p) # S
      BY DEF Below, Strict
    <2> QED BY <1>1, <2>1, FS_Subset, FS_CardinalityType DEF Rank
  <1>3. ASSUME NEW q \in S, <<p, q>> \in R
        PROVE  Rank(R, S, p) < Rank(R, S, q)
    <2>1. p \in Below(R, S, q) /\ p \notin Below(R, S, p)
      BY <1>3 DEF Below, Strict
    <2>2. Below(R, S, p) \in SUBSET Below(R, S, q)
      BY <1>3 DEF Below, Strict
    <2> QED BY <1>1, <2>1, <2>2, FS_Subset DEF Rank
  <1>4. Cardinality(S) \in Nat
    BY FS_CardinalityType
  <1> QED BY <1>1, <1>2, <1>3, <1>4

\* Every number below the size of S is the rank of one element.
LEMMA RankNames ==
  ASSUME NEW R, NEW S, IsFiniteSet(S), Strict(R, S)
  PROVE  /\ \A p, q \in S : Rank(R, S, p) = Rank(R, S, q) => p = q
         /\ \A n \in 0 .. (Cardinality(S) - 1) : \E p \in S : Rank(R, S, p) = n
  <1> DEFINE size == Cardinality(S)
             f == [p \in S |-> Rank(R, S, p)]
  <1>1. \A p, q \in S : Rank(R, S, p) = Rank(R, S, q) => p = q
    <2> SUFFICES ASSUME NEW p \in S, NEW q \in S, p # q
                 PROVE  Rank(R, S, p) # Rank(R, S, q)
      OBVIOUS
    <2>1. <<p, q>> \in R \/ <<q, p>> \in R
      BY DEF Strict
    <2>2. /\ <<p, q>> \in R => Rank(R, S, p) < Rank(R, S, q)
          /\ <<q, p>> \in R => Rank(R, S, q) < Rank(R, S, p)
          /\ Rank(R, S, p) \in 0 .. (size - 1) /\ Rank(R, S, q) \in 0 .. (size - 1)
      BY RankGrows
    <2> QED BY <2>1, <2>2
  <1>2. size \in Nat
    BY FS_CardinalityType
  <1>3. f \in [S -> 0 .. (size - 1)]
    BY RankGrows
  <1>4. f \in Injection(S, 0 .. (size - 1))
    BY <1>1, <1>3 DEF Injection, IsInjective
  <1>5. IsFiniteSet(0 .. (size - 1)) /\ Cardinality(0 .. (size - 1)) = size
    BY <1>2, FS_Interval
  <1>6. f \in Surjection(S, 0 .. (size - 1))
    BY <1>4, <1>5, FS_Injection
  <1> QED BY <1>1, <1>6 DEF Surjection

-----------------------------------------------------------------------------
(* The order of a cache, as a line                                          *)

\* What Good says of an order of its own.
Ordered(O) ==
    /\ O \subseteq Nat \X Nat \X Keys /\ IsFiniteSet(O)
    /\ \A p, q \in O : p[2] = q[2] => p = q

Turn(O) == {x \in O \X O : Before(x[1], x[2])}

LEMMA GoodOrdered ==
  ASSUME NEW c, Good(c)
  PROVE  Ordered(c.order)
  <1> DEFINE at == [k \in Held(c) |-> <<c.entries[k].epoch, c.entries[k].seq, k>>]
  <1>1. Held(c) \subseteq Keys /\ IsFiniteSet(Held(c))
    BY KeysAssumption, FS_Subset DEF Held
  <1>2. c.order = {<<c.entries[k].epoch, c.entries[k].seq, k>> : k \in Held(c)}
    BY DEF Good, Indexed
  <1>3. at \in Surjection(Held(c), c.order)
    BY <1>2 DEF Surjection
  <1>4. IsFiniteSet(c.order)
    BY <1>1, <1>3, FS_Surjection
  <1>5. c.order \subseteq Nat \X Nat \X Keys
    BY DEF Good
  <1>6. \A p, q \in c.order : p[2] = q[2] => p = q
    BY <1>2 DEF Good, Numbered
  <1> QED BY <1>4, <1>5, <1>6 DEF Ordered

LEMMA TurnStrict ==
  ASSUME NEW O, Ordered(O)
  PROVE  Strict(Turn(O), O) /\ \A p \in O : Rank(Turn(O), O, p) = Behind(O, p)
  <1>1. \A p, q \in O : <<p, q>> \in Turn(O) <=> Before(p, q)
    BY DEF Turn
  <1>2. \A p \in O : p[1] \in Nat /\ p[2] \in Nat
    BY DEF Ordered
  <1>3. \A p \in O : ~ Before(p, p)
    BY <1>2 DEF Before
  <1>4. \A p, q \in O : p # q => Before(p, q) \/ Before(q, p)
    BY <1>2 DEF Before, Ordered
  <1>5. \A p, q, r \in O : Before(p, q) /\ Before(q, r) => Before(p, r)
    BY <1>2 DEF Before
  <1>6. \A p \in O : Below(Turn(O), O, p) = {q \in O : Before(q, p)}
    BY <1>1 DEF Below
  <1> QED BY <1>1, <1>3, <1>4, <1>5, <1>6 DEF Strict, Rank, Behind

\* Each place has a number in the line, and each number a place.
LEMMA PlacesNumbered ==
  ASSUME NEW O, Ordered(O)
  PROVE  /\ Cardinality(O) \in Nat
         /\ \A p \in O : /\ Behind(O, p) \in 0 .. (Cardinality(O) - 1)
                         /\ NthPlace(O, Behind(O, p) + 1) = p
         /\ \A p, q \in O : Before(p, q) <=> Behind(O, p) < Behind(O, q)
         /\ \A n \in 1 .. Cardinality(O) : \E p \in O : n = Behind(O, p) + 1
  <1>1. Cardinality(O) \in Nat
    BY FS_CardinalityType DEF Ordered
  <1>2. \A p, q \in O : <<p, q>> \in Turn(O) <=> Before(p, q)
    BY DEF Turn
  <1>3. \A p \in O : /\ Behind(O, p) \in 0 .. (Cardinality(O) - 1)
                     /\ \A q \in O : Before(p, q) => Behind(O, p) < Behind(O, q)
    <2> SUFFICES ASSUME NEW p \in O
                 PROVE  /\ Behind(O, p) \in 0 .. (Cardinality(O) - 1)
                        /\ \A q \in O : Before(p, q) => Behind(O, p) < Behind(O, q)
      OBVIOUS
    <2>1. IsFiniteSet(O) /\ Strict(Turn(O), O)
      BY TurnStrict DEF Ordered
    <2>2. /\ Rank(Turn(O), O, p) \in 0 .. (Cardinality(O) - 1)
          /\ \A q \in O : <<p, q>> \in Turn(O) => Rank(Turn(O), O, p) < Rank(Turn(O), O, q)
      BY <2>1, RankGrows
    <2> QED BY <1>2, <2>2, TurnStrict
  <1>4. /\ \A p, q \in O : Behind(O, p) = Behind(O, q) => p = q
        /\ \A n \in 0 .. (Cardinality(O) - 1) : \E p \in O : Behind(O, p) = n
    BY TurnStrict, RankNames DEF Ordered
  <1>5. ASSUME NEW p \in O
        PROVE  NthPlace(O, Behind(O, p) + 1) = p
    <2>1. \A q \in O : Behind(O, q) = (Behind(O, p) + 1) - 1 <=> q = p
      BY <1>3, <1>4
    <2> QED BY <2>1 DEF NthPlace
  <1>6. ASSUME NEW p \in O, NEW q \in O, Behind(O, p) < Behind(O, q)
        PROVE  Before(p, q)
    <2>1. p = q \/ Before(p, q) \/ Before(q, p)
      BY <1>2, TurnStrict DEF Strict
    <2> QED BY <1>3, <1>6, <2>1
  <1>7. ASSUME NEW n \in 1 .. Cardinality(O)
        PROVE  \E p \in O : n = Behind(O, p) + 1
    <2>1. n - 1 \in 0 .. (Cardinality(O) - 1)
      BY <1>1
    <2>2. PICK p \in O : Behind(O, p) = n - 1
      BY <1>4, <2>1
    <2> QED BY <2>2
  <1> QED BY <1>1, <1>3, <1>5, <1>6, <1>7

\* A line is what it holds at the number of each place.
LEMMA LineAt ==
  ASSUME NEW O, Ordered(O), NEW E
  PROVE  /\ DOMAIN LineIn(O, E) = 1 .. Cardinality(O)
         /\ Len(LineIn(O, E)) = Cardinality(O)
         /\ LineIn(O, E) = [n \in 1 .. Cardinality(O) |-> LineIn(O, E)[n]]
         /\ \A p \in O : LineIn(O, E)[Behind(O, p) + 1] = EntryAt(E, p)
  <1>1. \A p \in O : Behind(O, p) + 1 \in 1 .. Cardinality(O)
    BY PlacesNumbered
  <1>2. Cardinality(O) \in Nat
    BY PlacesNumbered
  <1> QED BY <1>1, <1>2, PlacesNumbered DEF LineIn

LEMMA LineIs ==
  ASSUME NEW O, Ordered(O), NEW E, NEW T, NEW G \in [1 .. Cardinality(O) -> T],
         \A p \in O : G[Behind(O, p) + 1] = EntryAt(E, p)
  PROVE  G = LineIn(O, E)
  <1>1. ASSUME NEW n \in 1 .. Cardinality(O)
        PROVE  G[n] = LineIn(O, E)[n]
    <2>1. PICK p \in O : n = Behind(O, p) + 1
      BY PlacesNumbered
    <2> QED BY <2>1, LineAt
  <1> QED BY <1>1, LineAt

\* An instance has its own name for what a library module defines.
LEMMA SameCount ==
  ASSUME NEW S
  PROVE  Line!Cardinality(S) = Cardinality(S)
  BY DEF Line!Cardinality, Cardinality

LEMMA OrderedPart ==
  ASSUME NEW O, Ordered(O), NEW Q \in SUBSET O
  PROVE  Ordered(Q)
  BY FS_Subset DEF Ordered

\* The entries of some keys are in line as they are without the others.
LEMMA ThinnedLine ==
  ASSUME Ordered(cache.order), NEW S
  PROVE  Line!Of(S) = LineIn({p \in cache.order : p[3] \in S}, cache.entries)
  <1> DEFINE O == cache.order
             Q == {p \in O : p[3] \in S}
             size == Cardinality(O)
             P == {i \in DOMAIN LineOf : LineOf[i].key \in S}
             R == {x \in P \X P : x[1] < x[2]}
             at == [p \in Q |-> Behind(O, p) + 1]
  <1>1. Ordered(Q) /\ Ordered(O)
    BY OrderedPart
  <1>2. /\ DOMAIN LineOf = 1 .. size /\ size \in Nat
        /\ \A p \in O : LineOf[Behind(O, p) + 1] = EntryAt(cache.entries, p)
    BY <1>1, LineAt, PlacesNumbered DEF LineOf
  <1>3. \A p \in O : Behind(O, p) \in 0 .. (size - 1)
    BY <1>1, PlacesNumbered
  <1>4. \A p, q \in O : Before(p, q) <=> Behind(O, p) < Behind(O, q)
    BY <1>1, PlacesNumbered
  <1>5. \A n \in 1 .. size : \E p \in O : n = Behind(O, p) + 1
    BY <1>1, PlacesNumbered
  <1>6. P \subseteq 1 .. size
    BY <1>2
  <1>7. ASSUME NEW p \in O
        PROVE  Behind(O, p) + 1 \in P <=> p \in Q
    <2>1. EntryAt(cache.entries, p).key = p[3]
      BY DEF EntryAt
    <2> QED BY <1>2, <1>3, <2>1
  <1> HIDE DEF O, Q, P, size
  <1>8. Q \subseteq O
    BY DEF Q
  <1>9. at \in Surjection(Q, P) /\ \A p, q \in Q : at[p] = at[q] => p = q
    <2>1. \A p, q \in Q : Behind(O, p) = Behind(O, q) => p = q
      <3>1. \A p \in O : NthPlace(O, Behind(O, p) + 1) = p
        BY <1>1, PlacesNumbered
      <3> QED BY <1>8, <3>1
    <2>2. \A p \in Q : at[p] \in P
      BY <1>7, <1>8
    <2>3. \A i \in P : \E p \in Q : at[p] = i
      BY <1>5, <1>6, <1>7
    <2>4. \A p, q \in Q : at[p] = at[q] => p = q
      BY <1>3, <1>8, <2>1
    <2> QED BY <2>2, <2>3, <2>4 DEF Surjection
  <1>10. IsFiniteSet(Q) /\ IsFiniteSet(P) /\ Cardinality(P) = Cardinality(Q)
    <2>1. IsFiniteSet(Q)
      BY <1>1 DEF Ordered
    <2>2. at \in Injection(Q, P)
      BY <1>9 DEF Surjection, Injection, IsInjective
    <2> QED BY <1>9, <2>1, <2>2, FS_Surjection
  <1>11. ASSUME NEW p \in Q
         PROVE  Cardinality({j \in P : j < Behind(O, p) + 1}) = Behind(Q, p)
    <2> DEFINE A == {q \in Q : Before(q, p)}
               B == {j \in P : j < Behind(O, p) + 1}
               part == [q \in A |-> Behind(O, q) + 1]
    <2>1. \A q \in Q : q \in A <=> Behind(O, q) + 1 \in B
      BY <1>3, <1>4, <1>7, <1>8
    <2>2. part \in Surjection(A, B)
      <3>1. \A q \in A : part[q] \in B
        BY <2>1
      <3>2. ASSUME NEW j \in B PROVE \E q \in A : part[q] = j
        <4>1. PICK q \in Q : at[q] = j
          BY <1>9 DEF Surjection
        <4> QED BY <2>1, <4>1
      <3> QED BY <3>1, <3>2 DEF Surjection
    <2>3. part \in Injection(A, B)
      BY <1>9, <2>2 DEF Surjection, Injection, IsInjective
    <2>4. IsFiniteSet(A)
      BY <1>10, FS_Subset
    <2>5. Cardinality(B) = Cardinality(A)
      BY <2>2, <2>3, <2>4, FS_Surjection
    <2> QED BY <2>5 DEF Behind
  <1>12. Strict(R, P) /\ \A i \in P : Rank(R, P, i) = Cardinality({j \in P : j < i})
    <2>1. \A i, j \in P : <<i, j>> \in R <=> i < j
      OBVIOUS
    <2>2. \A i \in P : i \in Nat
      BY <1>2, <1>6
    <2>3. \A i \in P : Below(R, P, i) = {j \in P : j < i}
      BY <2>1 DEF Below
    <2> HIDE DEF R
    <2>4. Strict(R, P)
      BY <2>1, <2>2 DEF Strict
    <2> QED BY <2>3, <2>4 DEF Rank
  <1>13. ASSUME NEW p \in Q
         PROVE  Line!Nth(P, Behind(Q, p) + 1) = Behind(O, p) + 1
    <2> DEFINE count(i) == Cardinality({j \in P : j < i})
    <2>1. \A i, j \in P : count(i) = count(j) => i = j
      BY <1>10, <1>12, RankNames
    <2>2. Behind(O, p) + 1 \in P /\ count(Behind(O, p) + 1) = Behind(Q, p)
      BY <1>7, <1>8, <1>11
    <2>3. Behind(Q, p) \in Nat
      BY <1>1, PlacesNumbered
    <2> HIDE DEF count
    <2>4. \A i \in P : count(i) = (Behind(Q, p) + 1) - 1 <=> i = Behind(O, p) + 1
      BY <2>1, <2>2, <2>3
    <2> QED BY <2>2, <2>4, SameCount DEF Line!Nth, count
  <1>14. Line!Of(S) = Line!At(P)
    BY DEF Line!Of, P
  <1>15. Line!At(P) = LineIn(Q, cache.entries)
    <2> DEFINE G == Line!At(P)
    <2>1. G = [n \in 1 .. Cardinality(Q) |-> LineOf[Line!Nth(P, n)]]
      BY <1>10, SameCount DEF Line!At
    <2>2. ASSUME NEW p \in Q
          PROVE  G[Behind(Q, p) + 1] = EntryAt(cache.entries, p)
      <3>1. Behind(Q, p) + 1 \in 1 .. Cardinality(Q)
        BY <1>1, PlacesNumbered
      <3> QED BY <1>2, <1>8, <1>13, <2>1, <3>1
    <2>3. G \in [1 .. Cardinality(Q) -> {LineOf[Line!Nth(P, n)] : n \in 1 .. Cardinality(Q)}]
      BY <2>1
    <2> HIDE DEF G
    <2>4. G = LineIn(Q, cache.entries)
      BY <1>1, <2>2, <2>3, LineIs
    <2> QED BY <2>4 DEF G
  <1> QED BY <1>14, <1>15 DEF Q, O

\* A line depends on the values of its own keys alone.
LEMMA LineValues ==
  ASSUME NEW O, Ordered(O), NEW E, NEW F, \A p \in O : E[p[3]].value = F[p[3]].value
  PROVE  LineIn(O, E) = LineIn(O, F)
  <1>1. \A p \in O : EntryAt(E, p) = EntryAt(F, p)
    BY DEF EntryAt
  <1>2. LineIn(O, E) \in [1 .. Cardinality(O) -> {LineIn(O, E)[n] : n \in 1 .. Cardinality(O)}]
    BY LineAt
  <1>3. \A p \in O : LineIn(O, E)[Behind(O, p) + 1] = EntryAt(F, p)
    BY <1>1, LineAt
  <1> QED BY <1>2, <1>3, LineIs

LEMMA InsertAtPlaces ==
  ASSUME NEW T, NEW s \in Seq(T), NEW m \in 0 .. Len(s), NEW e \in T
  PROVE  /\ Line!InsertAt(s, m + 1, e) \in [1 .. (Len(s) + 1) -> T]
         /\ \A i \in 1 .. m : Line!InsertAt(s, m + 1, e)[i] = s[i]
         /\ Line!InsertAt(s, m + 1, e)[m + 1] = e
         /\ \A i \in (m + 1) .. Len(s) : Line!InsertAt(s, m + 1, e)[i + 1] = s[i]
  <1> DEFINE a == SubSeq(s, 1, m)
             b == SubSeq(s, m + 1, Len(s))
             r == Line!InsertAt(s, m + 1, e)
  <1>1. r = a \o <<e>> \o b
    <2>1. (m + 1) - 1 = m
      OBVIOUS
    <2>2. r = SubSeq(s, 1, (m + 1) - 1) \o <<e>> \o b
      BY DEF Line!InsertAt
    <2> QED BY <2>1, <2>2
  <1>2. /\ a \in Seq(T) /\ Len(a) = m
        /\ \A i \in 1 .. m : a[i] = s[i]
    OBVIOUS
  <1>3. /\ b \in Seq(T) /\ Len(b) = Len(s) - m
        /\ \A i \in 1 .. (Len(s) - m) : b[i] = s[i + m]
    OBVIOUS
  <1> HIDE DEF a, b, r
  <1>4. /\ a \o <<e>> \in Seq(T) /\ Len(a \o <<e>>) = m + 1
        /\ \A i \in 1 .. m : (a \o <<e>>)[i] = s[i]
        /\ (a \o <<e>>)[m + 1] = e
    BY <1>2
  <1>5. /\ r \in Seq(T) /\ Len(r) = Len(s) + 1
        /\ \A i \in 1 .. (m + 1) : r[i] = (a \o <<e>>)[i]
        /\ \A i \in (m + 2) .. (Len(s) + 1) : r[i] = b[i - (m + 1)]
    BY <1>1, <1>3, <1>4
  <1>6. r \in [1 .. (Len(s) + 1) -> T]
    BY <1>5
  <1>7. ASSUME NEW i \in (m + 1) .. Len(s)
        PROVE  r[i + 1] = s[i]
    <2>1. i + 1 \in (m + 2) .. (Len(s) + 1) /\ (i + 1) - (m + 1) = i - m /\ i - m \in 1 .. (Len(s) - m)
      OBVIOUS
    <2>2. b[i - m] = s[(i - m) + m] /\ (i - m) + m = i
      BY <1>3, <2>1
    <2> QED BY <1>5, <2>1, <2>2
  <1>8. \A i \in 1 .. m : r[i] = s[i]
    BY <1>4, <1>5
  <1>9. r[m + 1] = e
    BY <1>4, <1>5
  <1> QED BY <1>6, <1>7, <1>8, <1>9 DEF r

\* A place with the last of all numbers is behind those of its age and older.
LEMMA InsertedLine ==
  ASSUME NEW Q, NEW new, Ordered(Q \cup {new}), \A q \in Q : q[2] < new[2], NEW E
  PROVE  LineIn(Q \cup {new}, E) =
           Line!InsertAt(LineIn(Q, E),
                         Cardinality({i \in DOMAIN LineIn(Q, E) :
                                        LineIn(Q, E)[i].epoch <= new[1]}) + 1,
                         EntryAt(E, new))
  <1> DEFINE O == Q \cup {new}
             L == LineIn(Q, E)
             size == Cardinality(Q)
             m == Behind(O, new)
  <1>1. /\ Ordered(O) /\ Ordered(Q) /\ Q \subseteq O /\ new \in O
        /\ \A q \in O : q[1] \in Nat /\ q[2] \in Nat
    BY OrderedPart DEF Ordered
  <1>2. new \notin Q
    BY <1>1
  <1>3. IsFiniteSet(Q) /\ size \in Nat /\ Cardinality(O) = size + 1
    BY <1>1, <1>2, FS_AddElement, FS_CardinalityType DEF Ordered
  <1>4. \A q \in Q : /\ Before(q, new) <=> q[1] <= new[1]
                     /\ Before(new, q) <=> ~ (q[1] <= new[1])
    BY <1>1 DEF Before
  <1>5. ~ Before(new, new)
    BY <1>1 DEF Before
  <1>6. m = Cardinality({q \in Q : q[1] <= new[1]})
    <2>1. {q \in O : Before(q, new)} = {q \in Q : q[1] <= new[1]}
      BY <1>4, <1>5
    <2> QED BY <2>1 DEF Behind
  <1>7. m \in 0 .. size
    BY <1>1, <1>3, PlacesNumbered
  <1>8. ASSUME NEW q \in Q
        PROVE  /\ Before(q, new) => Behind(O, q) = Behind(Q, q) /\ Behind(Q, q) < m
               /\ ~ Before(q, new) => Behind(O, q) = Behind(Q, q) + 1 /\ m <= Behind(Q, q)
               /\ Behind(Q, q) \in 0 .. (size - 1)
    <2> DEFINE A == {r \in Q : Before(r, q)}
    <2>1. IsFiniteSet(A) /\ new \notin A
      BY <1>2, <1>3, FS_Subset
    <2>2. Behind(Q, q) \in 0 .. (size - 1) /\ Behind(O, q) \in Nat
      BY <1>1, <1>3, PlacesNumbered
    <2>3. CASE Before(q, new)
      <3>1. {r \in O : Before(r, q)} = A
        BY <1>4, <2>3
      <3>2. Behind(O, q) = Behind(Q, q)
        BY <3>1 DEF Behind
      <3>3. Behind(O, q) < m
        BY <1>1, <2>3, PlacesNumbered
      <3> QED BY <2>2, <2>3, <3>2, <3>3
    <2>4. CASE ~ Before(q, new)
      <3>1. {r \in O : Before(r, q)} = A \cup {new}
        BY <1>4, <2>4
      <3>2. Behind(O, q) = Behind(Q, q) + 1
        BY <2>1, <3>1, FS_AddElement DEF Behind
      <3>3. m < Behind(O, q)
        BY <1>1, <1>4, <2>4, PlacesNumbered
      <3> QED BY <1>7, <2>2, <2>4, <3>2, <3>3
    <2> QED BY <2>3, <2>4
  <1>9. Cardinality({i \in DOMAIN L : L[i].epoch <= new[1]}) = m
    <2> DEFINE A == {q \in Q : q[1] <= new[1]}
               B == {i \in DOMAIN L : L[i].epoch <= new[1]}
               at == [q \in A |-> Behind(Q, q) + 1]
    <2>1. /\ DOMAIN L = 1 .. size
          /\ \A q \in Q : L[Behind(Q, q) + 1] = EntryAt(E, q)
      BY <1>1, LineAt
    <2>2. /\ \A q \in Q : Behind(Q, q) + 1 \in 1 .. size /\ NthPlace(Q, Behind(Q, q) + 1) = q
          /\ \A n \in 1 .. size : \E q \in Q : n = Behind(Q, q) + 1
      BY <1>1, <1>3, PlacesNumbered
    <2>3. \A q \in Q : EntryAt(E, q).epoch = q[1]
      BY DEF EntryAt
    <2> HIDE DEF L, size
    <2>4. \A q \in Q : q \in A <=> Behind(Q, q) + 1 \in B
      BY <2>1, <2>2, <2>3
    <2>5. at \in Surjection(A, B)
      <3>1. \A q \in A : at[q] \in B
        BY <2>4
      <3>2. \A i \in B : \E q \in A : at[q] = i
        BY <2>1, <2>2, <2>4
      <3> QED BY <3>1, <3>2 DEF Surjection
    <2>6. at \in Injection(A, B)
      <3>1. \A q, r \in A : at[q] = at[r] => q = r
        BY <2>2
      <3> QED BY <2>5, <3>1 DEF Surjection, Injection, IsInjective
    <2>7. IsFiniteSet(A)
      BY <1>3, FS_Subset
    <2>8. Cardinality(B) = Cardinality(A)
      BY <2>5, <2>6, <2>7, FS_Surjection
    <2> QED BY <1>6, <2>8
  <1> DEFINE T == {EntryAt(E, p) : p \in O}
             e == EntryAt(E, new)
             G == Line!InsertAt(L, m + 1, e)
  <1>10. L \in Seq(T) /\ Len(L) = size /\ e \in T
    <2>1. L \in [1 .. size -> T]
      <3>1. \A n \in 1 .. size : L[n] \in T
        <4> SUFFICES ASSUME NEW n \in 1 .. size PROVE L[n] \in T
          OBVIOUS
        <4>1. PICK q \in Q : n = Behind(Q, q) + 1
          BY <1>1, PlacesNumbered
        <4>2. L[n] = EntryAt(E, q)
          BY <1>1, <4>1, LineAt
        <4> QED BY <4>2
      <3> QED BY <1>1, <3>1, LineAt
    <2> QED BY <1>1, <1>3, <2>1, LineAt
  <1> HIDE DEF L, T, e, m, size
  <1>11. /\ G \in [1 .. (size + 1) -> T]
         /\ \A i \in 1 .. m : G[i] = L[i]
         /\ G[m + 1] = e
         /\ \A i \in (m + 1) .. size : G[i + 1] = L[i]
    BY <1>7, <1>10, InsertAtPlaces
  <1> HIDE DEF G, O
  <1>12. ASSUME NEW p \in O
         PROVE  G[Behind(O, p) + 1] = EntryAt(E, p)
    <2>1. CASE p = new
      BY <1>11, <2>1 DEF m, e
    <2>2. CASE p \in Q
      <3>1. L[Behind(Q, p) + 1] = EntryAt(E, p)
        BY <1>1, <2>2, LineAt DEF L
      <3>2. CASE Before(p, new)
        <4>1. Behind(Q, p) + 1 \in 1 .. m /\ Behind(O, p) = Behind(Q, p)
          BY <1>3, <1>7, <1>8, <2>2, <3>2
        <4> QED BY <1>11, <3>1, <4>1
      <3>3. CASE ~ Before(p, new)
        <4>1. Behind(Q, p) + 1 \in (m + 1) .. size /\ Behind(O, p) = Behind(Q, p) + 1
          BY <1>3, <1>7, <1>8, <2>2, <3>3
        <4> QED BY <1>11, <3>1, <4>1
      <3> QED BY <3>2, <3>3
    <2> QED BY <2>1, <2>2 DEF O
  <1>13. G = LineIn(O, E)
    <2>1. G \in [1 .. Cardinality(O) -> T]
      BY <1>3, <1>11 DEF O
    <2> QED BY <1>1, <1>12, <2>1, LineIs
  <1> QED BY <1>9, <1>13 DEF G, L, e, O

-----------------------------------------------------------------------------
(* Calls as steps of the line                                               *)

\* The entries of d are entries of c.
From(d, c) == Held(d) \subseteq Held(c) /\ \A k \in Held(d) : d.entries[k] = c.entries[k]

LEMMA FromFrom ==
  ASSUME NEW b, NEW c, NEW d, From(d, c), From(c, b)
  PROVE  From(d, b)
  BY DEF From

LEMMA DroppedFrom ==
  ASSUME NEW c, Good(c), NEW S \in SUBSET Present(c)
  PROVE  From(Dropped(c, S), c)
  <1> DEFINE d == Dropped(c, S)
  <1>1. d.entries = [k \in Keys |-> IF k \in Held(c) \ S THEN Nothing ELSE c.entries[k]]
    BY DEF Good, Dropped
  <1> HIDE DEF d
  <1>2. From(d, c)
    BY <1>1 DEF From, Held
  <1> QED BY <1>2 DEF d

LEMMA CompactedFrom ==
  ASSUME NEW c, Good(c), NEW d \in Compacted(c)
  PROVE  From(d, c)
  <1>1. PICK S \in Kept(c) : d = Dropped(c, S)
    BY DEF Compacted
  <1>2. S \in SUBSET Present(c)
    BY DEF Kept, Alive
  <1> QED BY <1>1, <1>2, DroppedFrom

LEMMA RemovedAtFrom ==
  ASSUME NEW c, Good(c), NEW P \in SUBSET c.order
  PROVE  /\ From(RemovedAt(c, P), c)
         /\ Held(RemovedAt(c, P)) = Held(c) \ {p[3] : p \in P}
  <1> DEFINE d == RemovedAt(c, P)
  <1>1. d.entries = [k \in Keys |-> IF k \in {p[3] : p \in P} THEN Nothing ELSE c.entries[k]]
    BY DEF Good, RemovedAt
  <1> HIDE DEF d
  <1>2. From(d, c) /\ Held(d) = Held(c) \ {p[3] : p \in P}
    BY <1>1 DEF From, Held
  <1> QED BY <1>2 DEF d

LEMMA RemovedFrom ==
  ASSUME NEW c, Good(c), NEW k \in Keys
  PROVE  From(Removed(c, k), c) /\ Held(Removed(c, k)) = Held(c) \ {k}
  <1> DEFINE d == Removed(c, k)
  <1>1. d.entries = [c.entries EXCEPT ![k] = Nothing]
    <2>1. CASE c.entries[k] = Nothing
      BY <2>1 DEF Good, Removed
    <2>2. CASE c.entries[k] # Nothing
      BY <2>2 DEF Good, Removed, Unplaced
    <2> QED BY <2>1, <2>2
  <1> HIDE DEF d
  <1>2. From(d, c) /\ Held(d) = Held(c) \ {k}
    BY <1>1 DEF Good, From, Held
  <1> QED BY <1>2 DEF d

\* What is left of a cache is left of its line, in the order it had.
LEMMA OrderFrom ==
  ASSUME NEW c, NEW d, Good(c), Good(d), From(d, c)
  PROVE  d.order = {p \in c.order : p[3] \in Held(d)}
  <1>1. /\ c.order = {<<c.entries[k].epoch, c.entries[k].seq, k>> : k \in Held(c)}
        /\ d.order = {<<d.entries[k].epoch, d.entries[k].seq, k>> : k \in Held(d)}
    BY DEF Good, Indexed
  <1> QED BY <1>1 DEF From

LEMMA LineFrom ==
  ASSUME NEW d, Good(cache), Good(d), From(d, cache)
  PROVE  Line!Of(Held(d)) = LineIn(d.order, d.entries)
  <1>1. Ordered(cache.order) /\ Ordered(d.order)
    BY GoodOrdered
  <1>2. Line!Of(Held(d)) = LineIn(d.order, cache.entries)
    BY <1>1, OrderFrom, ThinnedLine
  <1>3. \A p \in d.order : p[3] \in Held(d)
    BY DEF Good, Indexed
  <1>4. \A p \in d.order : cache.entries[p[3]].value = d.entries[p[3]].value
    BY <1>3 DEF From
  <1> QED BY <1>1, <1>2, <1>4, LineValues

\* The places of the keys that are held have their entries in the line.
LEMMA HeldInLine ==
  ASSUME NEW c, Good(c), NEW k \in Held(c)
  PROVE  \E i \in DOMAIN LineIn(c.order, c.entries) :
           LineIn(c.order, c.entries)[i] =
             [key |-> k, value |-> c.entries[k].value, epoch |-> c.entries[k].epoch]
  <1> DEFINE p == <<c.entries[k].epoch, c.entries[k].seq, k>>
  <1>1. p \in c.order
    BY DEF Good, Indexed
  <1>2. Ordered(c.order)
    BY GoodOrdered
  <1>3. Behind(c.order, p) + 1 \in DOMAIN LineIn(c.order, c.entries)
    BY <1>1, <1>2, LineAt, PlacesNumbered
  <1>4. LineIn(c.order, c.entries)[Behind(c.order, p) + 1] = EntryAt(c.entries, p)
    BY <1>1, <1>2, LineAt
  <1> QED BY <1>3, <1>4 DEF EntryAt

LEMMA LoseStep ==
  ASSUME NEW d, Good(cache), Good(d), From(d, cache), Leaves(d)
  PROVE  Line!Lose
  <1>1. LineOf' = LineIn(d.order, d.entries) /\ TakenOf' = Nothing /\ now' = now
    BY DEF Leaves, LineOf, TakenOf
  <1>2. LineOf' = Line!Of(Held(d)) /\ Held(d) \in SUBSET Keys
    BY <1>1, LineFrom DEF Held
  <1> QED BY <1>1, <1>2 DEF Line!Lose

\* What insert puts into the map and the order (insert_with_epoch_ms).
LEMMA InsertedParts ==
  ASSUME NEW c, Good(c), NEW k \in Keys, NEW v \in Values, NEW epoch \in Nat, now \in Nat
  PROVE  LET d == Inserted(c, k, v, epoch)
             e == [value |-> v, epoch |-> epoch, seq |-> c.nextSeq + 1]
         IN  /\ Good(d)
             /\ Held(d) = Held(c) \cup {k}
             /\ d.entries[k] = e
             /\ \A l \in Held(c) \ {k} : d.entries[l] = c.entries[l]
  <1> DEFINE d == Inserted(c, k, v, epoch)
             e == [value |-> v, epoch |-> epoch, seq |-> c.nextSeq + 1]
  <1>1. Good(d)
    BY InsertedKeeps
  <1>2. d.entries = [c.entries EXCEPT ![k] = e] /\ e \in CacheEntry
    BY DEF Good, Inserted, Placed, Unplaced
  <1>3. c.entries \in [Keys -> CacheEntry \cup {Nothing}]
    BY DEF Good
  <1> HIDE DEF d, e
  <1>4. e # Nothing
    BY <1>2, NothingAssumption
  <1>5. \A l \in Keys : d.entries[l] = IF l = k THEN e ELSE c.entries[l]
    BY <1>2, <1>3
  <1>6. Held(d) = Held(c) \cup {k}
    BY <1>4, <1>5 DEF Held
  <1>7. d.entries[k] = e /\ \A l \in Held(c) \ {k} : d.entries[l] = c.entries[l]
    BY <1>5 DEF Held
  <1> QED BY <1>1, <1>6, <1>7 DEF d, e

LEMMA WriteStep ==
  ASSUME NEW c, Good(cache), Good(c), From(c, cache),
         NEW k \in Keys, NEW v \in Values, NEW epoch \in Nat, now \in Nat,
         Leaves(Inserted(c, k, v, epoch))
  PROVE  Line!Write(k, v, epoch)
  <1> DEFINE d == Inserted(c, k, v, epoch)
             new == <<epoch, c.nextSeq + 1, k>>
             S == Held(c) \ {k}
             Q == {p \in cache.order : p[3] \in S}
             entry == [key |-> k, value |-> v, epoch |-> epoch]
  <1>1. /\ Good(d)
        /\ Held(d) = S \cup {k} /\ k \notin S
        /\ d.entries[k] = [value |-> v, epoch |-> epoch, seq |-> c.nextSeq + 1]
        /\ \A l \in S : d.entries[l] = c.entries[l]
    <2>1. Held(c) \cup {k} = S \cup {k}
      OBVIOUS
    <2> QED BY <2>1, InsertedParts
  <1>2. LineOf' = LineIn(d.order, d.entries) /\ TakenOf' = Nothing /\ now' = now
    BY DEF Leaves, LineOf, TakenOf
  <1> HIDE DEF d
  <1>3. S \subseteq Held(cache) /\ \A l \in S : d.entries[l] = cache.entries[l]
    BY <1>1 DEF From
  <1>4. Q = {<<d.entries[l].epoch, d.entries[l].seq, l>> : l \in S}
    <2>1. cache.order = {<<cache.entries[l].epoch, cache.entries[l].seq, l>> : l \in Held(cache)}
      BY DEF Good, Indexed
    <2> QED BY <1>3, <2>1
  <1>5. d.order = Q \cup {new}
    <2>1. d.order = {<<d.entries[l].epoch, d.entries[l].seq, l>> : l \in Held(d)}
      BY <1>1 DEF Good, Indexed
    <2>2. <<d.entries[k].epoch, d.entries[k].seq, k>> = new
      BY <1>1
    <2> QED BY <1>1, <1>4, <2>1, <2>2
  <1>6. \A q \in Q : q[2] < new[2]
    <2>1. \A l \in S : c.entries[l].seq \in 1 .. c.nextSeq
      BY DEF Good, Numbered
    <2>2. c.nextSeq \in Nat
      BY DEF Good
    <2> QED BY <1>1, <1>4, <2>1, <2>2
  <1>7. Ordered(Q \cup {new}) /\ Ordered(Q) /\ Ordered(cache.order)
    BY <1>1, <1>5, GoodOrdered, OrderedPart
  <1>8. Line!Of(S) = LineIn(Q, d.entries)
    <2>1. Line!Of(S) = LineIn(Q, cache.entries)
      BY <1>7, ThinnedLine
    <2>2. \A p \in Q : cache.entries[p[3]].value = d.entries[p[3]].value
      BY <1>3
    <2> QED BY <1>7, <2>1, <2>2, LineValues
  <1>9. EntryAt(d.entries, new) = entry
    BY <1>1 DEF EntryAt
  <1>10. LineIn(d.order, d.entries) = Line!Placed(S, entry)
    <2> DEFINE L == LineIn(Q, d.entries)
               n == Cardinality({i \in DOMAIN L : L[i].epoch <= epoch})
    <2> HIDE DEF Q
    <2>1. LineIn(Q \cup {new}, d.entries) = Line!InsertAt(L, n + 1, entry)
      BY <1>6, <1>7, <1>9, InsertedLine
    <2>2. Line!Placed(S, entry) = Line!InsertAt(L, n + 1, entry)
      BY <1>8, SameCount DEF Line!Placed
    <2> QED BY <1>5, <2>1, <2>2
  <1>11. S \in SUBSET (Keys \ {k})
    BY DEF Held
  <1> QED BY <1>2, <1>10, <1>11 DEF Line!Write

LEMMA RenewStep ==
  ASSUME NEW c, Good(cache), Good(c), From(c, cache), NEW k \in Held(c), now \in Nat,
         Leaves(Placed(Unplaced(c, PlaceOf(c.entries[k])), k, c.entries[k].value, now))
  PROVE  Line!Renew(k)
  <1>1. c.orderKey[k] = PlaceOf(c.entries[k]) /\ c.entries[k].value \in Values /\ k \in Keys
    BY DEF Good, Indexed, Held
  <1>2. Line!Write(k, c.entries[k].value, now)
    BY <1>1, WriteStep DEF Inserted
  <1>3. k \in Held(cache) /\ c.entries[k] = cache.entries[k]
    BY DEF From
  <1>4. PICK i \in DOMAIN LineOf :
          LineOf[i] = [key |-> k, value |-> cache.entries[k].value,
                       epoch |-> cache.entries[k].epoch]
    BY <1>3, HeldInLine DEF LineOf
  <1> QED BY <1>2, <1>3, <1>4 DEF Line!Renew

LEMMA ChangeStep ==
  ASSUME NEW c, Good(cache), Good(c), From(c, cache), NEW k \in Held(c), NEW v \in Values,
         Leaves([c EXCEPT !.entries = [c.entries EXCEPT
                            ![k] = [c.entries[k] EXCEPT !.value = v]]])
  PROVE  Line!Change(k, v)
  <1> DEFINE e == [c.entries[k] EXCEPT !.value = v]
             E == [c.entries EXCEPT ![k] = e]
             d == [c EXCEPT !.entries = E]
             O == c.order
             rest == LineIn(O, c.entries)
             G == [i \in DOMAIN rest |->
                     IF rest[i].key = k THEN [rest[i] EXCEPT !.value = v] ELSE rest[i]]
  <1>1. /\ k \in Keys /\ c.entries \in [Keys -> CacheEntry \cup {Nothing}]
        /\ c.entries[k] \in CacheEntry
    BY DEF Good, Held
  <1>2. e.value = v
    BY <1>1
  <1>3. \A l \in Keys : E[l] = IF l = k THEN e ELSE c.entries[l]
    BY <1>1
  <1>4. d.order = O /\ d.entries = E
    BY DEF Good
  <1> HIDE DEF e, E, d
  <1>5. LineOf' = LineIn(O, E) /\ TakenOf' = Nothing /\ now' = now
    BY <1>4 DEF Leaves, LineOf, TakenOf, d, E, e
  <1>6. Ordered(O) /\ \A p \in O : p[3] \in Keys
    BY GoodOrdered DEF Ordered
  <1> HIDE DEF O, rest
  <1>7. /\ DOMAIN rest = 1 .. Cardinality(O)
        /\ \A p \in O : /\ Behind(O, p) + 1 \in 1 .. Cardinality(O)
                        /\ rest[Behind(O, p) + 1] = EntryAt(c.entries, p)
    BY <1>6, LineAt, PlacesNumbered DEF rest
  <1>8. ASSUME NEW p \in O
        PROVE  G[Behind(O, p) + 1] = EntryAt(E, p)
    <2>1. G[Behind(O, p) + 1] = IF p[3] = k THEN [EntryAt(c.entries, p) EXCEPT !.value = v]
                                            ELSE EntryAt(c.entries, p)
      <3>1. EntryAt(c.entries, p).key = p[3]
        BY DEF EntryAt
      <3> QED BY <1>7, <3>1
    <2>2. E[p[3]].value = IF p[3] = k THEN v ELSE c.entries[p[3]].value
      BY <1>2, <1>3, <1>6
    <2> HIDE DEF G
    <2> QED BY <2>1, <2>2 DEF EntryAt
  <1>9. G \in [1 .. Cardinality(O) -> {G[i] : i \in 1 .. Cardinality(O)}]
    BY <1>7
  <1>10. LineIn(O, E) = G
    <2> HIDE DEF G
    <2> QED BY <1>6, <1>8, <1>9, LineIs
  <1>11. Line!Of(Held(c)) = rest /\ Held(c) \in SUBSET Keys
    BY LineFrom DEF Held, rest, O
  <1>12. \E i \in DOMAIN LineOf : LineOf[i].key = k
    <2>1. k \in Held(cache)
      BY DEF From
    <2>2. PICK i \in DOMAIN LineOf :
            LineOf[i] = [key |-> k, value |-> cache.entries[k].value,
                         epoch |-> cache.entries[k].epoch]
      BY <2>1, HeldInLine DEF LineOf
    <2> QED BY <2>2
  <1> QED BY <1>5, <1>10, <1>11, <1>12 DEF Line!Change

LEMMA TakeStep ==
  ASSUME NEW c, Good(cache), Good(c), From(c, cache), NEW k \in Held(c),
         cache' = Removed(c, k), UNCHANGED now,
         taken' = [age |-> Forever, key |-> k, value |-> c.entries[k].value,
                   epoch |-> c.entries[k].epoch]
  PROVE  Line!Take(k)
  <1> DEFINE d == Removed(c, k)
             e == [key |-> k, value |-> c.entries[k].value, epoch |-> c.entries[k].epoch]
  <1>1. k \in Keys /\ k \in Held(cache) /\ c.entries[k] = cache.entries[k]
        /\ c.entries[k] \in CacheEntry
    BY DEF Good, From, Held
  <1>2. Good(d) /\ From(d, cache) /\ Held(d) = Held(c) \ {k}
    BY <1>1, RemovedKeeps, RemovedFrom, FromFrom
  <1> HIDE DEF d
  <1>3. LineOf' = Line!Of(Held(d)) /\ Held(d) \in SUBSET (Keys \ {k})
    BY <1>2, LineFrom DEF LineOf, Held, d
  <1>4. TakenOf' = [age |-> Forever, entry |-> e]
    <2>1. taken' \in [age : Nat, key : Keys, value : Values, epoch : Nat]
      BY <1>1, ForeverAssumption
    <2>2. taken' # Nothing
      BY <2>1, NothingAssumption
    <2> QED BY <2>2 DEF TakenOf
  <1>5. \E i \in DOMAIN LineOf : LineOf[i] = e
    BY <1>1, HeldInLine DEF LineOf
  <1>6. e.key = k
    OBVIOUS
  <1> HIDE DEF e
  <1> QED BY <1>3, <1>4, <1>5, <1>6 DEF Line!Take

\* What a pop takes from either end: S is what it found, n the place it took.
LEMMA EndStep ==
  ASSUME NEW c, Good(cache), Good(c), From(c, cache), NEW p \in c.order, NEW age \in Nat,
         Fresh(p[1], age), Takes(c, p, age)
  PROVE  LET n == Behind(c.order, p) + 1
         IN  /\ Line!Of(Held(c)) = LineIn(c.order, c.entries)
             /\ n \in DOMAIN Line!Of(Held(c))
             /\ Line!TakeAt(Held(c), n, age)
  <1> DEFINE L == LineIn(c.order, c.entries)
             n == Behind(c.order, p) + 1
             e == EntryAt(c.entries, p)
             d == RemovedAt(c, {p})
  <1>1. Ordered(c.order) /\ Line!Of(Held(c)) = L
    BY GoodOrdered, LineFrom
  <1>2. n \in DOMAIN L /\ L[n] = e
    BY <1>1, LineAt, PlacesNumbered
  <1>3. p[3] \in Held(c) /\ p[3] \in Keys /\ p[1] \in Nat /\ c.entries[p[3]] \in CacheEntry
    BY DEF Good, Indexed, Held
  <1>4. Good(d) /\ From(d, cache) /\ Held(d) = Held(c) \ {p[3]}
    <2>1. {q[3] : q \in {p}} = {p[3]}
      OBVIOUS
    <2> QED BY <2>1, RemovedAtKeeps, RemovedAtFrom, FromFrom
  <1> HIDE DEF d
  <1>5. LineOf' = Line!Of(Held(c) \ {p[3]}) /\ now' = now
    BY <1>4, LineFrom DEF Takes, LineOf, d
  <1>6. TakenOf' = [age |-> age, entry |-> e]
    <2>1. taken' \in [age : Nat, key : Keys, value : Values, epoch : Nat]
      BY <1>3 DEF Takes
    <2>2. taken' # Nothing
      BY <2>1, NothingAssumption
    <2> QED BY <2>2 DEF TakenOf, Takes, EntryAt
  <1>7. e.key = p[3] /\ e.epoch = p[1]
    BY DEF EntryAt
  <1>8. Line!Young(e, age)
    BY <1>7 DEF Line!Young, Fresh
  <1> HIDE DEF e, L, n
  <1>9. Line!TakeAt(Held(c), n, age)
    BY <1>1, <1>2, <1>5, <1>6, <1>7, <1>8 DEF Line!TakeAt
  <1> QED BY <1>1, <1>2, <1>9 DEF L, n

\* The places that a pop asked for an age passes over hold older entries.
LEMMA FirstStep ==
  ASSUME NEW c, Good(cache), Good(c), From(c, cache), NEW age \in Nat,
         NEW p \in Firsts({q \in c.order : Fresh(q[1], age)}), Takes(c, p, age)
  PROVE  Line!TakeFirst(age)
  <1> DEFINE L == LineIn(c.order, c.entries)
             n == Behind(c.order, p) + 1
  <1>1. p \in c.order /\ Fresh(p[1], age)
    BY DEF Firsts
  <1>2. Line!Of(Held(c)) = L /\ n \in DOMAIN L /\ Line!TakeAt(Held(c), n, age)
    BY <1>1, EndStep
  <1>3. Ordered(c.order)
    BY GoodOrdered
  <1>4. ASSUME NEW j \in 1 .. (n - 1)
        PROVE  ~ Line!Young(L[j], age)
    <2>1. n - 1 = Behind(c.order, p) /\ n - 1 \in 0 .. (Cardinality(c.order) - 1)
      BY <1>1, <1>3, PlacesNumbered
    <2>2. j \in 1 .. Cardinality(c.order)
      BY <1>3, <2>1, PlacesNumbered
    <2>3. PICK q \in c.order : j = Behind(c.order, q) + 1
      BY <1>3, <2>2, PlacesNumbered
    <2>4. Behind(c.order, q) < Behind(c.order, p) /\ Behind(c.order, q) \in Nat
      BY <1>3, <2>1, <2>3, PlacesNumbered
    <2>5. q # p /\ ~ Before(p, q)
      BY <1>1, <1>3, <2>1, <2>4, PlacesNumbered
    <2>6. ~ Fresh(q[1], age)
      BY <2>5 DEF Firsts
    <2>7. L[j] = EntryAt(c.entries, q)
      BY <1>3, <2>3, LineAt
    <2> QED BY <2>6, <2>7 DEF Line!Young, Fresh, EntryAt
  <1>5. Held(c) \in SUBSET Keys
    BY DEF Held
  <1> HIDE DEF L, n
  <1> QED BY <1>2, <1>4, <1>5 DEF Line!TakeFirst

LEMMA LastStep ==
  ASSUME NEW c, Good(cache), Good(c), From(c, cache), NEW age \in Nat,
         NEW p \in Lasts({q \in c.order : Fresh(q[1], age)}), Takes(c, p, age)
  PROVE  Line!TakeLast(age)
  <1> DEFINE L == LineIn(c.order, c.entries)
             n == Behind(c.order, p) + 1
  <1>1. p \in c.order /\ Fresh(p[1], age)
    BY DEF Lasts
  <1>2. Line!Of(Held(c)) = L /\ n \in DOMAIN L /\ Line!TakeAt(Held(c), n, age)
    BY <1>1, EndStep
  <1>3. Ordered(c.order)
    BY GoodOrdered
  <1>4. ASSUME NEW j \in (n + 1) .. Len(L)
        PROVE  ~ Line!Young(L[j], age)
    <2>1. n - 1 = Behind(c.order, p) /\ n - 1 \in 0 .. (Cardinality(c.order) - 1)
      BY <1>1, <1>3, PlacesNumbered
    <2>2. j \in 1 .. Cardinality(c.order)
      BY <1>3, <2>1, LineAt, PlacesNumbered
    <2>3. PICK q \in c.order : j = Behind(c.order, q) + 1
      BY <1>3, <2>2, PlacesNumbered
    <2>4. Behind(c.order, p) < Behind(c.order, q) /\ Behind(c.order, q) \in Nat
      BY <1>3, <2>1, <2>3, PlacesNumbered
    <2>5. q # p /\ ~ Before(q, p)
      BY <1>1, <1>3, <2>1, <2>4, PlacesNumbered
    <2>6. ~ Fresh(q[1], age)
      BY <2>5 DEF Lasts
    <2>7. L[j] = EntryAt(c.entries, q)
      BY <1>3, <2>3, LineAt
    <2> QED BY <2>6, <2>7 DEF Line!Young, Fresh, EntryAt
  <1>5. Held(c) \in SUBSET Keys
    BY DEF Held
  <1> HIDE DEF L, n
  <1> QED BY <1>2, <1>4, <1>5 DEF Line!TakeLast

\* Which places a pop looks at: those that are young enough, or all of them.
LEMMA ListedFresh ==
  ASSUME NEW c, Good(c), NEW age
  PROVE  Listed(c, age) = {q \in c.order : Fresh(q[1], age)}
  <1>1. \A q \in c.order : Sound(c, q)
    <2>1. c.order = {<<c.entries[k].epoch, c.entries[k].seq, k>> : k \in Held(c)}
      BY DEF Good, Indexed
    <2> QED BY <2>1 DEF Sound, PlaceOf, Place, Held
  <1> QED BY <1>1 DEF Listed

LEMMA AllFresh ==
  ASSUME NEW c, Good(c), now \in 0 .. MaxTime
  PROVE  c.order = {q \in c.order : Fresh(q[1], Forever)}
  <1>1. \A q \in c.order : q[1] \in Nat
    BY DEF Good
  <1> QED BY <1>1, ForeverAssumption, AgesAssumption DEF Fresh

Timed == now \in 0 .. MaxTime

LEMMA TimedInvariant == Spec => [](IInv /\ Timed)
  <1>1. Init => Timed
    BY AgesAssumption DEF Init, Timed
  <1>2. ASSUME Timed, [Next]_vars
        PROVE  Timed'
    <2>1. CASE UNCHANGED vars
      BY <1>2, <2>1 DEF vars, Timed
    <2>2. CASE Tick
      BY <1>2, <2>2, AgesAssumption DEF Tick, Timed
    <2>3. CASE Removing
      BY <1>2, <2>3 DEF Removing, RemoveKey, PopFirst, PopLatest, PopFirstAny, PopLatestAny,
                        Clear, FlushBeforeSeqNo, Leaves, Takes, Timed
    <2>4. CASE Keeping /\ ~ Tick
      BY <1>2, <2>4 DEF Keeping, Insert, Backdated, InsertWithEpoch, Touch, GetMut,
                        FlushOlderThan, SetDefaultMaxCache, Leaves, Timed
    <2> QED BY <1>2, <2>1, <2>2, <2>3, <2>4 DEF Next
  <1> QED BY <1>1, <1>2, GoodInvariant, PTL DEF Spec

LEMMA KeepingInLine ==
  ASSUME IInv, Timed, Keeping
  PROVE  Line!LineNext
  <1>0. /\ Good(cache) /\ now \in Nat /\ now \in 0 .. MaxTime
        /\ \A c \in Compacted(cache) : Good(c) /\ From(c, cache)
    BY CompactedKeeps, CompactedFrom DEF IInv, TypeOK, Timed
  <1>1. ASSUME NEW c \in Compacted(cache), Leaves(c)
        PROVE  Line!LineNext
    BY <1>0, <1>1, LoseStep DEF Line!LineNext
  <1>2. ASSUME NEW c \in Compacted(cache), NEW P \in SUBSET c.order, Leaves(RemovedAt(c, P))
        PROVE  Line!LineNext
    <2>1. Good(RemovedAt(c, P)) /\ From(RemovedAt(c, P), cache)
      BY <1>0, RemovedAtKeeps, RemovedAtFrom, FromFrom
    <2> QED BY <1>0, <1>2, <2>1, LoseStep DEF Line!LineNext
  <1>3. ASSUME NEW k \in Keys, NEW v \in Values, NEW epoch \in Nat,
               epoch \in Epochs \cup (0 .. MaxTime), InsertWithEpoch(k, v, epoch)
        PROVE  Line!LineNext
    <2>1. PICK c \in Compacted(cache) : Leaves(Inserted(c, k, v, epoch))
      BY <1>3 DEF InsertWithEpoch
    <2>2. Line!Write(k, v, epoch)
      BY <1>0, <2>1, WriteStep
    <2> QED BY <1>3, <2>2 DEF Line!LineNext
  <1>4. ASSUME NEW k \in Keys, Touch(k)
        PROVE  Line!LineNext
    <2>1. PICK c \in Compacted(cache) :
            IF c.entries[k] = Nothing THEN Leaves(c)
            ELSE Leaves(Placed(Unplaced(c, PlaceOf(c.entries[k])), k, c.entries[k].value, now))
      BY <1>4 DEF Touch
    <2>2. CASE c.entries[k] = Nothing
      BY <1>1, <2>1, <2>2
    <2>3. CASE c.entries[k] # Nothing
      <3>1. k \in Held(c)
        BY <2>3 DEF Held
      <3>2. Line!Renew(k)
        BY <1>0, <2>1, <2>3, <3>1, RenewStep
      <3> QED BY <3>2 DEF Line!LineNext
    <2> QED BY <2>2, <2>3
  <1>5. ASSUME NEW k \in Keys, NEW v \in Values, NEW age \in Ages, GetMut(k, v, age)
        PROVE  Line!LineNext
    <2>1. PICK c \in Compacted(cache) :
            Leaves(IF Get(c, k, age) = Nothing THEN c
                   ELSE [c EXCEPT !.entries = [c.entries EXCEPT
                            ![k] = [c.entries[k] EXCEPT !.value = v]]])
      BY <1>5 DEF GetMut
    <2>2. CASE Get(c, k, age) = Nothing
      BY <1>1, <2>1, <2>2
    <2>3. CASE Get(c, k, age) # Nothing
      <3>1. k \in Held(c)
        BY <2>3 DEF Get, Held
      <3>2. Line!Change(k, v)
        BY <1>0, <2>1, <2>3, <3>1, ChangeStep
      <3> QED BY <3>2 DEF Line!LineNext
    <2> QED BY <2>2, <2>3
  <1>6. ASSUME NEW age \in Ages, FlushOlderThan(age)
        PROVE  Line!LineNext
    BY <1>2, <1>6 DEF FlushOlderThan
  <1>7. ASSUME NEW age \in Ages, SetDefaultMaxCache(age)
        PROVE  Line!LineNext
    <2> DEFINE room(c) == IF Held(c) = {} THEN 1 ELSE Cardinality(Held(c))
               new(c) == [c EXCEPT !.span = age, !.capacity = room(c),
                            !.presence = [k \in Keys |-> IF k \in Held(c) THEN now ELSE Nothing]]
    <2>1. PICK c \in Compacted(cache) : Leaves(new(c))
      BY <1>7 DEF SetDefaultMaxCache
    <2>2. Held(c) \subseteq Keys
      BY DEF Held
    <2>3. room(c) \in Nat
      BY <2>2, KeysAssumption, FS_Subset, FS_CardinalityType
    <2> HIDE DEF room
    <2>4. Good(new(c))
      BY <1>0, <2>3, RebuiltKeeps, AgesAssumption
    <2>5. From(new(c), c)
      <3>1. new(c).entries = c.entries
        BY <1>0 DEF Good
      <3> HIDE DEF new
      <3> QED BY <3>1 DEF From, Held
    <2> HIDE DEF new
    <2>6. From(new(c), cache)
      BY <1>0, <2>5, FromFrom
    <2> QED BY <1>0, <2>1, <2>4, <2>6, LoseStep DEF Line!LineNext
  <1>8. ASSUME Tick
        PROVE  Line!LineNext
    BY <1>0, <1>8 DEF Tick, LineOf, TakenOf, Line!Pass, Line!LineNext
  <1>9. now \in Epochs \cup (0 .. MaxTime) /\ Epochs \subseteq Nat
    BY <1>0, AgesAssumption
  <1> QED
    BY <1>0, <1>3, <1>4, <1>5, <1>6, <1>7, <1>8, <1>9 DEF Keeping, Insert, Backdated

LEMMA RemovingInLine ==
  ASSUME IInv, Timed, Removing
  PROVE  Line!LineNext
  <1>0. /\ Good(cache) /\ now \in 0 .. MaxTime
        /\ \A c \in Compacted(cache) : Good(c) /\ From(c, cache)
    BY CompactedKeeps, CompactedFrom DEF IInv, TypeOK, Timed
  <1>1. ASSUME NEW c \in Compacted(cache), Leaves(c)
        PROVE  Line!LineNext
    BY <1>0, <1>1, LoseStep DEF Line!LineNext
  <1>2. ASSUME NEW c \in Compacted(cache), NEW age \in Ages \cup {Forever},
               NEW p \in Firsts({q \in c.order : Fresh(q[1], age)}), Takes(c, p, age)
        PROVE  Line!LineNext
    <2>1. Line!TakeFirst(age)
      BY <1>0, <1>2, FirstStep, AgesAssumption, ForeverAssumption
    <2> QED BY <2>1 DEF Line!LineNext
  <1>3. ASSUME NEW c \in Compacted(cache), NEW age \in Ages \cup {Forever},
               NEW p \in Lasts({q \in c.order : Fresh(q[1], age)}), Takes(c, p, age)
        PROVE  Line!LineNext
    <2>1. Line!TakeLast(age)
      BY <1>0, <1>3, LastStep, AgesAssumption, ForeverAssumption
    <2> QED BY <2>1 DEF Line!LineNext
  <1>4. ASSUME NEW age \in Ages, PopFirst(age) \/ PopLatest(age)
        PROVE  Line!LineNext
    <2>1. \A c \in Compacted(cache) : Listed(c, age) = {q \in c.order : Fresh(q[1], age)}
      BY <1>0, ListedFresh
    <2> QED BY <1>1, <1>2, <1>3, <1>4, <2>1 DEF PopFirst, PopLatest
  <1>5. ASSUME PopFirstAny \/ PopLatestAny
        PROVE  Line!LineNext
    <2>1. \A c \in Compacted(cache) : c.order = {q \in c.order : Fresh(q[1], Forever)}
      BY <1>0, AllFresh
    <2>2. ASSUME NEW c \in Compacted(cache), NEW p, Takes(c, p, Forever),
                 p \in Firsts(c.order) \/ p \in Lasts(c.order)
          PROVE  Line!LineNext
      <3>1. c.order = {q \in c.order : Fresh(q[1], Forever)}
        BY <2>1
      <3> DEFINE O == {q \in c.order : Fresh(q[1], Forever)}
      <3>2. p \in Firsts(O) \/ p \in Lasts(O)
        BY <2>2, <3>1
      <3> QED BY <1>2, <1>3, <2>2, <3>2
    <2> QED BY <1>1, <1>5, <2>2 DEF PopFirstAny, PopLatestAny
  <1>6. ASSUME NEW k \in Keys, RemoveKey(k)
        PROVE  Line!LineNext
    <2>1. PICK c \in Compacted(cache) :
            /\ cache' = Removed(c, k)
            /\ taken' = IF c.entries[k] = Nothing THEN Nothing
                        ELSE [age |-> Forever, key |-> k, value |-> c.entries[k].value,
                              epoch |-> c.entries[k].epoch]
            /\ UNCHANGED now
      BY <1>6 DEF RemoveKey
    <2>2. CASE c.entries[k] = Nothing
      <3>1. Good(Removed(c, k)) /\ From(Removed(c, k), cache)
        BY <1>0, RemovedKeeps, RemovedFrom, FromFrom
      <3>2. Leaves(Removed(c, k))
        BY <2>1, <2>2 DEF Leaves
      <3> QED BY <1>0, <3>1, <3>2, LoseStep DEF Line!LineNext
    <2>3. CASE c.entries[k] # Nothing
      <3>1. k \in Held(c)
        BY <2>3 DEF Held
      <3>2. Line!Take(k)
        BY <1>0, <2>1, <2>3, <3>1, TakeStep
      <3> QED BY <3>2 DEF Line!LineNext
    <2> QED BY <2>2, <2>3
  <1>7. ASSUME Clear
        PROVE  Line!LineNext
    <2> DEFINE c == [cache EXCEPT !.entries = Empty, !.order = {}, !.orderKey = Empty,
                                  !.presence = Empty]
    <2>1. /\ Empty \in [Keys -> CacheEntry \cup {Nothing}]
          /\ Empty \in [Keys -> (Nat \X Nat) \cup {Nothing}]
          /\ Empty \in [Keys -> Nat \cup {Nothing}]
      BY DEF Empty
    <2>2. /\ c \in TtlCache /\ c.entries = Empty /\ c.order = {} /\ c.orderKey = Empty
          /\ c.presence = Empty
      BY <2>1 DEF IInv, TypeOK
    <2>3. Leaves(c)
      BY <1>7 DEF Clear
    <2> HIDE DEF c
    <2>4. Good(c) /\ From(c, cache)
      BY <2>2, EmptyGood DEF From, Held, Empty
    <2> QED BY <1>0, <2>3, <2>4, LoseStep DEF Line!LineNext
  <1>8. ASSUME NEW n \in 1..MaxSeq, FlushBeforeSeqNo(n)
        PROVE  Line!LineNext
    <2>1. PICK c \in Compacted(cache) : Leaves(RemovedAt(c, {p \in c.order : p[2] <= n}))
      BY <1>8 DEF FlushBeforeSeqNo
    <2> DEFINE d == RemovedAt(c, {p \in c.order : p[2] <= n})
    <2>2. Good(d) /\ From(d, cache)
      BY <1>0, RemovedAtKeeps, RemovedAtFrom, FromFrom
    <2> QED BY <1>0, <2>1, <2>2, LoseStep DEF Line!LineNext
  <1> QED
    BY <1>4, <1>5, <1>6, <1>7, <1>8 DEF Removing

\* A cache is a line of entries that expire, whatever moka evicts: each call
\* writes where age and turn say, or takes the first young enough from an end,
\* and changes the line in no other way (TtlCache implements ExpiringLine).
THEOREM CacheImplementsLine == Spec => ImplementsLine
  <1>1. Init => Line!LineInit
    <2> SUFFICES ASSUME Init PROVE Line!LineInit
      OBVIOUS
    <2>1. cache.order = {} /\ taken = Nothing /\ now = 0
      BY DEF Init, New
    <2>2. Cardinality(cache.order) = 0
      BY <2>1, FS_EmptySet
    <2>3. LineOf = <<>>
      BY <2>2 DEF LineOf, LineIn
    <2> QED BY <2>1, <2>3 DEF Line!LineInit, TakenOf
  <1>2. ASSUME IInv, Timed, [Next]_vars
        PROVE  [Line!LineNext]_(Line!lineVars)
    <2>1. CASE UNCHANGED vars
      BY <2>1 DEF vars, Line!lineVars, LineOf, TakenOf
    <2> QED BY <1>2, <2>1, KeepingInLine, RemovingInLine DEF Next
  <1> QED BY <1>1, <1>2, TimedInvariant, PTL DEF Spec, ImplementsLine, Line!LineSpec

=============================================================================
