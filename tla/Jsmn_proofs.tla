------------------------------ MODULE Jsmn_proofs ------------------------------
(***************************************************************************)
(* The tokens of a body form a tree, for bodies of any length over any     *)
(* words and for a token array of any size.  jsmn_parse keeps no stack: it *)
(* finds the container to close by looking for the last open token.  The   *)
(* argument is therefore about the whole array: tokens are in the order of *)
(* their starts, an open token covers everything after it, and two closed  *)
(* tokens are nested or apart.                                             *)
(*                                                                         *)
(* On such a tree the lookups of json_util.cpp do what they should:        *)
(* skip_item returns the token after an item and all it covers, find_key   *)
(* finds the first member with the key and the type, and the zeros that    *)
(* find_key, find_int and find_key_in_array cut into the body miss the     *)
(* text of the strings.  find_key_in_array, which compares its key with    *)
(* every token in sight, finds the key of the peer it is asked for if      *)
(* nothing else in sight has that text.                                    *)
(***************************************************************************)
EXTENDS JsonUtil, FiniteSetTheorems, SequenceTheorems, TLAPS

Types == {"OBJECT", "ARRAY", "STRING", "PRIMITIVE"}

Tok == [type : Types, start : Nat, end : Nat \cup {-1}, size : Nat]

\* Token i covers token j: it began before and is open or ended later.
Covers(toks, i, j) == i < j /\ (toks[i].end = -1 \/ toks[j].start < toks[i].end)

\* The tokens that token i is the innermost one to cover.
Kids(toks, i) ==
  {j \in DOMAIN toks : Covers(toks, i, j) /\ \A k \in DOMAIN toks : i < k => ~ Covers(toks, k, j)}

\* No token reaches beyond the position front, and an open one began before it.
Placed(toks, front) ==
  \A i \in DOMAIN toks :
    /\ toks[i].start <= front
    /\ toks[i].end <= front
    /\ toks[i].end = -1 => toks[i].start < front

\* What token i and a later token j have to do with each other: covered means
\* strictly inside, and not covered means that i ended before.
Apart(toks, i, j) ==
  /\ toks[i].start <= toks[j].start
  /\ Covers(toks, i, j) => toks[i].start < toks[j].start
  /\ toks[i].end # -1 /\ Covers(toks, i, j) => toks[j].end # -1 /\ toks[j].end <= toks[i].end
  /\ ~ Covers(toks, i, j) /\ toks[j].end # -1 => toks[i].end < toks[j].end

Nested(toks) == \A i, j \in DOMAIN toks : i < j => Apart(toks, i, j)

\* The size of every token, open or closed, is the number of its members so far.
Sized(toks) == \A i \in DOMAIN toks : toks[i].size = Cardinality(Kids(toks, i))

-------------------------------------------------------------------------------
(* Induction *)

\* A set of numbers up to n that is not empty has a largest one.
LEMMA LargestExists ==
  ASSUME NEW n \in Nat, NEW S \in SUBSET (0 .. n), S # {}
  PROVE  \E x \in S : \A y \in S : x >= y
<1> DEFINE R == {p \in Nat \X Nat : p[1] < p[2]}
<1> DEFINE T == {k \in Nat : \E x \in S : k = n - x}
<1>1. IsWellFoundedOn(R, Nat)
  BY NatLessThanWellFounded DEF OpToRel
<1>2. T \in SUBSET Nat
  OBVIOUS
<1>3. T # {}
  <2>1. PICK x \in S : TRUE
    OBVIOUS
  <2>2. n - x \in Nat
    OBVIOUS
  <2>3. QED
    BY <2>1, <2>2
<1>4. PICK k \in T : \A y \in T : ~ (<<y, k>> \in R)
  <2> HIDE DEF R, T
  <2>1. QED
    BY <1>1, <1>2, <1>3, WFMin
<1>5. PICK x \in S : k = n - x
  BY <1>4
<1>6. ASSUME NEW y \in S PROVE x >= y
  <2>1. n - y \in T /\ n - y \in Nat
    OBVIOUS
  <2>2. k \in Nat
    BY <1>4
  <2>3. ~ (n - y < k)
    BY <1>4, <2>1, <2>2
  <2>4. QED
    BY <1>5, <2>2, <2>3
<1>7. QED
  BY <1>5, <1>6

\* The least element of a set of positive numbers.
LEMMA MinIs ==
  ASSUME NEW S \in SUBSET (Nat \ {0}), S # {}
  PROVE  Min(S) \in S /\ \A y \in S : Min(S) <= y
<1> DEFINE R == {p \in Nat \X Nat : p[1] < p[2]}
<1>1. IsWellFoundedOn(R, Nat)
  BY NatLessThanWellFounded DEF OpToRel
<1>2. PICK x \in S : \A y \in S : ~ (<<y, x>> \in R)
  <2>1. S \in SUBSET Nat
    OBVIOUS
  <2> HIDE DEF R
  <2>2. QED
    BY <1>1, <2>1, WFMin
<1>3. ASSUME NEW y \in S PROVE x <= y
  <2>1. x \in Nat /\ y \in Nat /\ <<y, x>> \in Nat \X Nat /\ ~ (y < x)
    BY <1>2
  <2>2. QED
    BY <2>1
<1>4. QED
  BY <1>3 DEF Min

\* Induction downwards: a set that holds every number above which it holds all numbers
\* up to n holds all of them.
LEMMA Downwards ==
  ASSUME NEW n \in Nat, NEW S, \A i \in 1 .. n : (\A j \in 1 .. n : i < j => j \in S) => i \in S
  PROVE  \A i \in 1 .. n : i \in S
<1> DEFINE B == {i \in 1 .. n : i \notin S}
<1>1. CASE B = {}
  BY <1>1
<1>2. CASE B # {}
  <2>1. B \in SUBSET (0 .. n)
    OBVIOUS
  <2>2. PICK x \in B : \A y \in B : x >= y
    <3> HIDE DEF B
    <3>1. QED
      BY <1>2, <2>1, LargestExists
  <2>3. x \in 1 .. n /\ x \notin S
    BY <2>2
  <2>4. \A j \in 1 .. n : x < j => j \in S
    BY <2>2, <2>3
  <2>5. QED
    BY <2>3, <2>4
<1>3. QED
  BY <1>1, <1>2

\* Induction upwards.
LEMMA Upwards ==
  ASSUME NEW n \in Nat, NEW S, 0 \in S, \A i \in 1 .. n : i - 1 \in S => i \in S
  PROVE  \A i \in 0 .. n : i \in S
<1> DEFINE T == {k \in 1 .. n + 1 : n + 1 - k \in S}
<1>1. n + 1 \in Nat
  OBVIOUS
<1>2. ASSUME NEW k \in 1 .. n + 1, \A j \in 1 .. n + 1 : k < j => j \in T PROVE k \in T
  <2>1. CASE k = n + 1
    <3>1. n + 1 - k = 0
      BY <2>1
    <3>2. QED
      BY <2>1, <3>1
  <2>2. CASE k # n + 1
    <3>1. k + 1 \in 1 .. n + 1 /\ k < k + 1 /\ n + 1 - k \in 1 .. n /\ (n + 1 - k) - 1 = n + 1 - (k + 1)
      BY <2>2
    <3>2. n + 1 - (k + 1) \in S
      BY <1>2, <3>1
    <3>3. n + 1 - k \in S
      BY <3>1, <3>2
    <3>4. QED
      BY <3>3
  <2>3. QED
    BY <2>1, <2>2
<1>3. \A k \in 1 .. n + 1 : k \in T
  <2> HIDE DEF T
  <2>1. QED
    BY <1>1, <1>2, Downwards
<1>4. ASSUME NEW i \in 0 .. n PROVE i \in S
  <2>1. n + 1 - i \in 1 .. n + 1 /\ n + 1 - (n + 1 - i) = i
    OBVIOUS
  <2>2. n + 1 - (n + 1 - i) \in S
    BY <1>3, <2>1
  <2>3. QED
    BY <2>1, <2>2
<1>5. QED
  BY <1>4

\* R makes a value at i from the values of a function above i.
FromAbove(R, n, V) ==
  /\ R \in [(1 .. n) \X [1 .. n -> V] -> V]
  /\ \A i \in 1 .. n : \A f, g \in [1 .. n -> V] :
       (\A j \in 1 .. n : i < j => f[j] = g[j]) => R[<<i, f>>] = R[<<i, g>>]

\* A function on 1 .. n whose value at i is made from its values above i exists: the
\* equation of a recursive definition that goes downwards has a solution.
LEMMA RecursionDown ==
  ASSUME NEW n \in Nat, NEW V, NEW v \in V, NEW R, FromAbove(R, n, V)
  PROVE  \E f \in [1 .. n -> V] : \A i \in 1 .. n : f[i] = R[<<i, f>>]
<1> USE DEF FromAbove
<1> DEFINE Solves(lo, f) == \A i \in 1 .. n : lo <= i => f[i] = R[<<i, f>>]
<1> DEFINE S == {lo \in 1 .. n : \E f \in [1 .. n -> V] : Solves(lo, f)}
<1>1. ASSUME NEW lo \in 1 .. n, \A j \in 1 .. n : lo < j => j \in S PROVE lo \in S
  <2>1. PICK g \in [1 .. n -> V] : \A i \in 1 .. n : lo < i => g[i] = R[<<i, g>>]
    <3>1. CASE lo = n
      <4>1. [j \in 1 .. n |-> v] \in [1 .. n -> V]
        OBVIOUS
      <4>2. \A i \in 1 .. n : ~ (lo < i)
        BY <3>1
      <4>3. QED
        BY <4>1, <4>2
    <3>2. CASE lo # n
      <4>1. lo + 1 \in 1 .. n /\ lo < lo + 1
        BY <3>2
      <4>2. PICK f \in [1 .. n -> V] : Solves(lo + 1, f)
        BY <1>1, <4>1
      <4>3. \A i \in 1 .. n : lo < i => lo + 1 <= i
        OBVIOUS
      <4>4. QED
        BY <4>2, <4>3
    <3>3. QED
      BY <3>1, <3>2
  <2> DEFINE h == [g EXCEPT ![lo] = R[<<lo, g>>]]
  <2>2. R[<<lo, g>>] \in V
    OBVIOUS
  <2>3. h \in [1 .. n -> V] /\ h[lo] = R[<<lo, g>>] /\ \A j \in 1 .. n : j # lo => h[j] = g[j]
    BY <2>2
  <2> HIDE DEF h
  <2>4. ASSUME NEW i \in 1 .. n, lo <= i PROVE h[i] = R[<<i, h>>]
    <3>1. \A j \in 1 .. n : i < j => h[j] = g[j]
      BY <2>3, <2>4
    <3>2. R[<<i, h>>] = R[<<i, g>>]
      BY <2>3, <3>1
    <3>3. CASE i = lo
      BY <2>3, <3>2, <3>3
    <3>4. CASE i # lo
      BY <2>1, <2>3, <2>4, <3>2, <3>4
    <3>5. QED
      BY <3>3, <3>4
  <2>5. QED
    BY <2>3, <2>4
<1>2. \A i \in 1 .. n : i \in S
  <2> HIDE DEF S
  <2>1. QED
    BY <1>1, Downwards
<1>3. CASE n = 0
  <2>1. [j \in 1 .. n |-> v] \in [1 .. n -> V] /\ 1 .. n = {}
    BY <1>3
  <2>2. QED
    BY <2>1
<1>4. CASE n # 0
  <2>1. 1 \in S
    <3> HIDE DEF S
    <3>1. 1 \in 1 .. n
      BY <1>4
    <3>2. QED
      BY <1>2, <3>1
  <2>2. PICK f \in [1 .. n -> V] : Solves(1, f)
    BY <2>1
  <2>3. QED
    BY <2>2
<1>5. QED
  BY <1>3, <1>4

\* f starts with b, and each of its values is made from the one before.
BuiltUp(f, n, b, R) == f[0] = b /\ \A i \in 1 .. n : f[i] = R[<<i, f[i - 1]>>]

\* There is such a function.
LEMMA RecursionUp ==
  ASSUME NEW n \in Nat, NEW V, NEW b \in V, NEW R \in [(1 .. n) \X V -> V]
  PROVE  \E f \in [0 .. n -> V] : BuiltUp(f, n, b, R)
<1> DEFINE Solves(hi, f) == f[0] = b /\ \A i \in 1 .. n : i <= hi => f[i] = R[<<i, f[i - 1]>>]
<1> DEFINE S == {hi \in 0 .. n : \E f \in [0 .. n -> V] : Solves(hi, f)}
<1>1. 0 \in S
  <2>1. [j \in 0 .. n |-> b] \in [0 .. n -> V] /\ [j \in 0 .. n |-> b][0] = b
    OBVIOUS
  <2>2. \A i \in 1 .. n : ~ (i <= 0)
    OBVIOUS
  <2>3. \E f \in [0 .. n -> V] : Solves(0, f)
    BY <2>1, <2>2
  <2> HIDE DEF Solves
  <2>4. 0 \in 0 .. n
    OBVIOUS
  <2>5. QED
    BY <2>3, <2>4
<1>2. ASSUME NEW hi \in 1 .. n, hi - 1 \in S PROVE hi \in S
  <2>1. PICK g \in [0 .. n -> V] : Solves(hi - 1, g)
    BY <1>2
  <2> DEFINE w == R[<<hi, g[hi - 1]>>]
  <2> DEFINE h == [g EXCEPT ![hi] = w]
  <2>2. w \in V
    <3>1. hi - 1 \in 0 .. n
      OBVIOUS
    <3>2. QED
      BY <3>1
  <2>3. h \in [0 .. n -> V] /\ h[hi] = w /\ \A j \in 0 .. n : j # hi => h[j] = g[j]
    BY <2>2
  <2> HIDE DEF h
  <2>4. ASSUME NEW i \in 1 .. n, i <= hi PROVE h[i] = R[<<i, h[i - 1]>>]
    <3>1. i - 1 \in 0 .. n /\ i - 1 # hi /\ h[i - 1] = g[i - 1]
      BY <2>3, <2>4
    <3>2. CASE i = hi
      BY <2>3, <3>1, <3>2
    <3>3. CASE i # hi
      <4>1. i <= hi - 1
        BY <2>4, <3>3
      <4>2. QED
        BY <2>1, <2>3, <3>1, <3>3, <4>1
    <3>4. QED
      BY <3>2, <3>3
  <2>5. h[0] = b
    BY <2>1, <2>3
  <2>6. QED
    BY <2>3, <2>4, <2>5
<1>3. \A i \in 0 .. n : i \in S
  <2> HIDE DEF S
  <2>1. QED
    BY <1>1, <1>2, Upwards
<1>4. PICK f \in [0 .. n -> V] : Solves(n, f)
  <2>1. n \in S
    BY <1>3
  <2>2. QED
    BY <2>1
<1>5. QED
  BY <1>4 DEF BuiltUp

-------------------------------------------------------------------------------
(* The last open token *)

\* LastOpen is the number of an open token after which all are closed, or 0 if no
\* token is open.
LEMMA LastOpenIs ==
  ASSUME NEW toks \in Seq(Tok)
  PROVE  /\ LastOpen(toks) \in 0 .. Len(toks)
         /\ LastOpen(toks) # 0 => toks[LastOpen(toks)].end = -1
         /\ \A i \in 1 .. Len(toks) : i > LastOpen(toks) => toks[i].end # -1
<1> DEFINE S == {0} \cup {i \in DOMAIN toks : IsOpen(toks[i])}
<1>1. Len(toks) \in Nat /\ DOMAIN toks = 1 .. Len(toks) /\ \A i \in 1 .. Len(toks) : toks[i] \in Tok
  OBVIOUS
<1>2. \A i \in 1 .. Len(toks) : IsOpen(toks[i]) <=> toks[i].end = -1
  <2>1. ASSUME NEW i \in 1 .. Len(toks) PROVE toks[i].start \in Nat
    BY <1>1 DEF Tok
  <2>2. QED
    BY <2>1 DEF IsOpen
<1>3. S \in SUBSET (0 .. Len(toks)) /\ S # {} /\ 0 \in S
  BY <1>1
<1>4. \E x \in S : \A y \in S : x >= y
  <2> HIDE DEF S
  <2>1. QED
    BY <1>1, <1>3, LargestExists
<1>5. LastOpen(toks) \in S /\ \A y \in S : LastOpen(toks) >= y
  <2>1. LastOpen(toks) = CHOOSE x \in S : \A y \in S : x >= y
    BY DEF LastOpen, Max
  <2> HIDE DEF S
  <2>2. QED
    BY <1>4, <2>1
<1>6. ASSUME NEW i \in 1 .. Len(toks), i > LastOpen(toks) PROVE toks[i].end # -1
  <2>1. i \notin S
    BY <1>3, <1>5, <1>6
  <2>2. QED
    BY <1>1, <1>2, <2>1
<1>7. QED
  BY <1>1, <1>2, <1>3, <1>5, <1>6

\* And it is the only such number.
LEMMA LastOpenOnly ==
  ASSUME NEW toks \in Seq(Tok), NEW k \in 0 .. Len(toks),
         k # 0 => toks[k].end = -1,
         \A i \in 1 .. Len(toks) : i > k => toks[i].end # -1
  PROVE  LastOpen(toks) = k
<1> DEFINE m == LastOpen(toks)
<1>1. m \in 0 .. Len(toks) /\ (m # 0 => toks[m].end = -1) /\ \A i \in 1 .. Len(toks) : i > m => toks[i].end # -1
  BY LastOpenIs
<1> HIDE DEF m
<1>2. ~ (k > m)
  BY <1>1
<1>3. ~ (m > k)
  BY <1>1
<1>4. QED
  BY <1>1, <1>2, <1>3 DEF m

-------------------------------------------------------------------------------
(* A token is added *)

\* What '{', '[', a string and a primitive do to the array: the token is counted in
\* token s and comes last.
Grow(toks, s, t) == Append(IF s = 0 THEN toks ELSE [toks EXCEPT ![s].size = @ + 1], t)

IsGrown(g, toks, s, t) ==
  /\ g \in Seq(Tok) /\ Len(g) = Len(toks) + 1 /\ g[Len(toks) + 1] = t
  /\ \A i \in 1 .. Len(toks) :
       /\ g[i].start = toks[i].start /\ g[i].end = toks[i].end /\ g[i].type = toks[i].type
       /\ g[i].size = IF i = s THEN toks[i].size + 1 ELSE toks[i].size

\* A token that is counted keeps its place.
LEMMA CountedToken ==
  ASSUME NEW r \in Tok
  PROVE  LET u == [r EXCEPT !.size = @ + 1]
         IN  u \in Tok /\ u.start = r.start /\ u.end = r.end /\ u.type = r.type /\ u.size = r.size + 1
BY DEF Tok

\* Only the size of token s changes in the tokens that were there.
LEMMA GrownTokens ==
  ASSUME NEW toks \in Seq(Tok), NEW s \in 0 .. Len(toks), NEW t \in Tok, NEW g, g = Grow(toks, s, t)
  PROVE  IsGrown(g, toks, s, t)
<1> DEFINE n == Len(toks)
<1> DEFINE c == IF s = 0 THEN toks ELSE [toks EXCEPT ![s].size = @ + 1]
<1>1. n \in Nat /\ DOMAIN toks = 1 .. n /\ \A i \in 1 .. n : toks[i] \in Tok
  OBVIOUS
<1>2. /\ c \in Seq(Tok) /\ Len(c) = n
      /\ \A i \in 1 .. n :
           /\ c[i].start = toks[i].start /\ c[i].end = toks[i].end /\ c[i].type = toks[i].type
           /\ c[i].size = IF i = s THEN toks[i].size + 1 ELSE toks[i].size
  <2>1. CASE s = 0
    BY <1>1, <2>1
  <2>2. CASE s # 0
    <3> DEFINE u == [toks[s] EXCEPT !.size = @ + 1]
    <3>1. s \in 1 .. n /\ toks[s] \in Tok
      BY <1>1, <2>2
    <3>2. /\ u \in Tok /\ u.start = toks[s].start /\ u.end = toks[s].end /\ u.type = toks[s].type
          /\ u.size = toks[s].size + 1
      BY <3>1, CountedToken
    <3>3. c = [toks EXCEPT ![s] = u]
      BY <2>2
    <3> HIDE DEF u
    <3>4. c \in Seq(Tok) /\ Len(c) = n /\ c[s] = u /\ \A i \in 1 .. n : i # s => c[i] = toks[i]
      BY <3>1, <3>2, <3>3, <1>1
    <3> HIDE DEF c
    <3>5. QED
      BY <3>2, <3>4
  <2>3. QED
    BY <2>1, <2>2
<1>3. g = Append(c, t)
  BY DEF Grow
<1> HIDE DEF c
<1>4. g \in Seq(Tok) /\ Len(g) = n + 1 /\ g[n + 1] = t /\ \A i \in 1 .. n : g[i] = c[i]
  BY <1>2, <1>3, AppendProperties
<1>5. QED
  BY <1>1, <1>2, <1>4 DEF IsGrown

\* The kids of a token are finitely many.
LEMMA KidsFinite ==
  ASSUME NEW toks \in Seq(Tok), NEW i PROVE IsFiniteSet(Kids(toks, i)) /\ Cardinality(Kids(toks, i)) \in Nat
<1>1. Len(toks) \in Nat /\ DOMAIN toks = 1 .. Len(toks)
  OBVIOUS
<1>2. IsFiniteSet(1 .. Len(toks))
  BY <1>1, FS_Interval
<1>3. Kids(toks, i) \in SUBSET (1 .. Len(toks))
  BY <1>1 DEF Kids
<1>4. IsFiniteSet(Kids(toks, i))
  BY <1>2, <1>3, FS_Subset
<1>5. QED
  BY <1>4, FS_CardinalityType

\* A token that begins at or beyond front, and ends beyond it or is open, is apart
\* from the earlier ones or inside the open ones.
LEMMA GrownNested ==
  ASSUME NEW toks \in Seq(Tok), NEW s \in 0 .. Len(toks), NEW t \in Tok, NEW g, g = Grow(toks, s, t),
         NEW front \in Nat, Placed(toks, front), Nested(toks),
         front <= t.start, t.end = -1 \/ front < t.end
  PROVE  Nested(g)
<1> DEFINE n == Len(toks)
<1>1. n \in Nat /\ DOMAIN toks = 1 .. n /\ \A i \in 1 .. n : toks[i] \in Tok
  OBVIOUS
<1>2. /\ g \in Seq(Tok) /\ Len(g) = n + 1 /\ g[n + 1] = t
      /\ \A i \in 1 .. n : g[i].start = toks[i].start /\ g[i].end = toks[i].end
  <2>1. IsGrown(g, toks, s, t)
    BY GrownTokens
  <2>2. QED
    BY <2>1 DEF IsGrown
<1>3. DOMAIN g = 1 .. n + 1
  BY <1>2
<1>4. \A i \in 1 .. n : toks[i].start \in Nat /\ toks[i].end \in Int
  BY <1>1 DEF Tok
<1>5. t.start \in Nat /\ t.end \in Int
  BY DEF Tok
<1> SUFFICES ASSUME NEW i \in 1 .. n + 1, NEW j \in 1 .. n + 1, i < j PROVE Apart(g, i, j)
  BY <1>3 DEF Nested
<1>6. i \in 1 .. n
  BY <1>1
<1>7. CASE j \in 1 .. n
  <2>1. Apart(toks, i, j)
    BY <1>1, <1>6, <1>7 DEF Nested
  <2>2. QED
    BY <1>2, <1>6, <1>7, <2>1 DEF Apart, Covers
<1>8. CASE j = n + 1
  <2>1. /\ toks[i].start <= front /\ toks[i].end <= front
        /\ toks[i].end = -1 => toks[i].start < front
    BY <1>1, <1>6 DEF Placed
  <2>2. g[j] = t /\ g[i].start = toks[i].start /\ g[i].end = toks[i].end
    BY <1>2, <1>6, <1>8
  <2>3. Covers(g, i, j) <=> toks[i].end = -1
    BY <1>4, <1>5, <1>6, <2>1, <2>2 DEF Covers
  <2>4. QED
    BY <1>4, <1>5, <1>6, <2>1, <2>2, <2>3 DEF Apart
<1>9. QED
  BY <1>1, <1>7, <1>8

\* The new token is a member of the last open one and of no other, so counting it
\* there keeps all sizes right.
LEMMA GrownSized ==
  ASSUME NEW toks \in Seq(Tok), NEW s \in 0 .. Len(toks), NEW t \in Tok, NEW g, g = Grow(toks, s, t),
         NEW front \in Nat, Placed(toks, front), Sized(toks), s = LastOpen(toks),
         front <= t.start, t.size = 0
  PROVE  Sized(g)
<1> DEFINE n == Len(toks)
<1>1. n \in Nat /\ DOMAIN toks = 1 .. n /\ \A i \in 1 .. n : toks[i] \in Tok
  OBVIOUS
<1>2. /\ g \in Seq(Tok) /\ Len(g) = n + 1 /\ g[n + 1] = t
      /\ \A i \in 1 .. n :
              /\ g[i].start = toks[i].start /\ g[i].end = toks[i].end
              /\ g[i].size = IF i = s THEN toks[i].size + 1 ELSE toks[i].size
  <2>1. IsGrown(g, toks, s, t)
    BY GrownTokens
  <2>2. QED
    BY <2>1 DEF IsGrown
<1>3. DOMAIN g = 1 .. n + 1
  BY <1>2
<1>4. \A i \in 1 .. n : toks[i].start \in Nat /\ toks[i].end \in Int /\ toks[i].size \in Nat
  BY <1>1 DEF Tok
<1>5. t.start \in Nat
  BY DEF Tok
<1>6. /\ s # 0 => toks[s].end = -1
      /\ \A i \in 1 .. n : i > s => toks[i].end # -1
  BY LastOpenIs
<1>7. ASSUME NEW i \in 1 .. n, NEW j \in 1 .. n PROVE Covers(g, i, j) <=> Covers(toks, i, j)
  BY <1>2, <1>7 DEF Covers
<1>8. ASSUME NEW i \in 1 .. n PROVE Covers(g, i, n + 1) <=> toks[i].end = -1
  <2>1. toks[i].end <= front /\ g[n + 1] = t /\ g[i].end = toks[i].end /\ i < n + 1
    BY <1>1, <1>2 DEF Placed
  <2>2. QED
    BY <1>4, <1>5, <2>1 DEF Covers
<1>9. ASSUME NEW j \in 1 .. n + 1 PROVE ~ Covers(g, n + 1, j)
  BY <1>1 DEF Covers
<1>10. ASSUME NEW i \in 1 .. n
       PROVE  Kids(g, i) = IF i = s THEN Kids(toks, i) \cup {n + 1} ELSE Kids(toks, i)
  <2>1. ASSUME NEW j \in 1 .. n PROVE j \in Kids(g, i) <=> j \in Kids(toks, i)
    <3>1. j \in Kids(toks, i) <=> Covers(toks, i, j) /\ \A k \in 1 .. n : i < k => ~ Covers(toks, k, j)
      BY <1>1 DEF Kids
    <3>2. j \in Kids(g, i) <=> Covers(g, i, j) /\ \A k \in 1 .. n + 1 : i < k => ~ Covers(g, k, j)
      BY <1>1, <1>3 DEF Kids
    <3>3. (\A k \in 1 .. n + 1 : i < k => ~ Covers(g, k, j)) <=> (\A k \in 1 .. n : i < k => ~ Covers(toks, k, j))
      BY <1>1, <1>7, <1>9
    <3>4. QED
      BY <1>7, <3>1, <3>2, <3>3
  <2>2. n + 1 \in Kids(g, i) <=> i = s
    <3>1. n + 1 \in Kids(g, i) <=> Covers(g, i, n + 1) /\ \A k \in 1 .. n + 1 : i < k => ~ Covers(g, k, n + 1)
      BY <1>1, <1>3 DEF Kids
    <3>2. (\A k \in 1 .. n + 1 : i < k => ~ Covers(g, k, n + 1)) <=> (\A k \in 1 .. n : i < k => toks[k].end # -1)
      BY <1>1, <1>8, <1>9
    <3>3. toks[i].end = -1 /\ (\A k \in 1 .. n : i < k => toks[k].end # -1) <=> i = s
      BY <1>1, <1>6
    <3>4. QED
      BY <1>8, <3>1, <3>2, <3>3
  <2>3. Kids(g, i) \subseteq 1 .. n + 1 /\ Kids(toks, i) \subseteq 1 .. n
    BY <1>1, <1>3 DEF Kids
  <2>4. 1 .. n + 1 = (1 .. n) \cup {n + 1}
    BY <1>1
  <2>5. CASE i = s
    <3>1. ASSUME NEW j PROVE j \in Kids(g, i) <=> j \in Kids(toks, i) \cup {n + 1}
      BY <2>1, <2>2, <2>3, <2>4, <2>5
    <3>2. Kids(g, i) = Kids(toks, i) \cup {n + 1}
      BY <3>1
    <3>3. QED
      BY <2>5, <3>2
  <2>6. CASE i # s
    <3>1. ASSUME NEW j PROVE j \in Kids(g, i) <=> j \in Kids(toks, i)
      BY <2>1, <2>2, <2>3, <2>4, <2>6
    <3>2. Kids(g, i) = Kids(toks, i)
      BY <3>1
    <3>3. QED
      BY <2>6, <3>2
  <2>7. QED
    BY <2>5, <2>6
<1>11. ASSUME NEW i \in 1 .. n PROVE g[i].size = Cardinality(Kids(g, i))
  <2>1. toks[i].size = Cardinality(Kids(toks, i))
    BY <1>1 DEF Sized
  <2>2. CASE i = s
    <3>1. n + 1 \notin Kids(toks, i)
      BY <1>1 DEF Kids
    <3>2. Cardinality(Kids(toks, i) \cup {n + 1}) = Cardinality(Kids(toks, i)) + 1
      BY <3>1, KidsFinite, FS_AddElement
    <3>3. QED
      BY <1>2, <1>10, <2>1, <2>2, <3>2
  <2>3. CASE i # s
    BY <1>2, <1>10, <2>1, <2>3
  <2>4. QED
    BY <2>2, <2>3
<1>12. g[n + 1].size = Cardinality(Kids(g, n + 1))
  <2>1. Kids(g, n + 1) = {}
    BY <1>3, <1>9 DEF Kids
  <2>2. QED
    BY <1>2, <2>1, FS_EmptySet
<1>13. QED
  BY <1>1, <1>3, <1>11, <1>12 DEF Sized

\* The last open token afterwards.
LEMMA GrownLastOpen ==
  ASSUME NEW toks \in Seq(Tok), NEW s \in 0 .. Len(toks), NEW t \in Tok, NEW g, g = Grow(toks, s, t),
         s = LastOpen(toks)
  PROVE  LastOpen(g) = IF t.end = -1 THEN Len(toks) + 1 ELSE s
<1> DEFINE n == Len(toks)
<1> DEFINE k == IF t.end = -1 THEN n + 1 ELSE s
<1>1. n \in Nat
  OBVIOUS
<1>2. /\ g \in Seq(Tok) /\ Len(g) = n + 1 /\ g[n + 1] = t
      /\ \A i \in 1 .. n : g[i].end = toks[i].end
  <2>1. IsGrown(g, toks, s, t)
    BY GrownTokens
  <2>2. QED
    BY <2>1 DEF IsGrown
<1>3. /\ s # 0 => toks[s].end = -1
      /\ \A i \in 1 .. n : i > s => toks[i].end # -1
  BY LastOpenIs
<1>4. k \in 0 .. Len(g) /\ (k # 0 => g[k].end = -1)
  BY <1>1, <1>2, <1>3
<1>5. \A i \in 1 .. Len(g) : i > k => g[i].end # -1
  BY <1>1, <1>2, <1>3
<1> HIDE DEF k
<1>6. LastOpen(g) = k
  BY <1>2, <1>4, <1>5, LastOpenOnly
<1>7. QED
  BY <1>6 DEF k

-------------------------------------------------------------------------------
(* A container is closed *)

\* What '}' and ']' do to token i.
LEMMA ClosedTokens ==
  ASSUME NEW toks \in Seq(Tok), NEW i \in 1 .. Len(toks), NEW e \in Nat, NEW g,
         g = [toks EXCEPT ![i].end = e]
  PROVE  /\ g \in Seq(Tok) /\ Len(g) = Len(toks)
         /\ g[i].end = e /\ g[i].start = toks[i].start /\ g[i].size = toks[i].size /\ g[i].type = toks[i].type
         /\ \A k \in 1 .. Len(toks) : k # i => g[k] = toks[k]
<1> DEFINE u == [toks[i] EXCEPT !.end = e]
<1>1. toks[i] \in Tok
  OBVIOUS
<1>2. u \in Tok /\ u.end = e /\ u.start = toks[i].start /\ u.size = toks[i].size /\ u.type = toks[i].type
  <2>1. ASSUME NEW r \in Tok PROVE LET v == [r EXCEPT !.end = e]
                                   IN  v \in Tok /\ v.end = e /\ v.start = r.start /\ v.size = r.size /\ v.type = r.type
    BY DEF Tok
  <2>2. QED
    BY <1>1, <2>1
<1>3. g = [toks EXCEPT ![i] = u]
  OBVIOUS
<1> HIDE DEF u
<1>4. QED
  BY <1>2, <1>3

\* The last open token is closed at a position beyond all that has been read: it still
\* covers what it covered, so nothing changes in the tree.
LEMMA ClosedTree ==
  ASSUME NEW toks \in Seq(Tok), NEW front \in Nat, Placed(toks, front), Nested(toks), Sized(toks),
         NEW i \in 1 .. Len(toks), i = LastOpen(toks), NEW g, g = [toks EXCEPT ![i].end = front + 1]
  PROVE  Placed(g, front + 1) /\ Nested(g) /\ Sized(g)
<1> DEFINE n == Len(toks)
<1>1. n \in Nat /\ DOMAIN toks = 1 .. n /\ i \in 1 .. n /\ \A k \in 1 .. n : toks[k] \in Tok
  OBVIOUS
<1>2. /\ g \in Seq(Tok) /\ Len(g) = n
      /\ g[i].end = front + 1 /\ g[i].start = toks[i].start /\ g[i].size = toks[i].size
      /\ \A k \in 1 .. n : k # i => g[k] = toks[k]
  <2>1. front + 1 \in Nat
    OBVIOUS
  <2>2. QED
    BY <2>1, ClosedTokens
<1>3. DOMAIN g = 1 .. n
  BY <1>2
<1>4. \A k \in 1 .. n : toks[k].start \in Nat /\ toks[k].end \in Nat \cup {-1}
  BY <1>1 DEF Tok
<1>5. toks[i].end = -1 /\ \A k \in 1 .. n : k > i => toks[k].end # -1
  BY LastOpenIs
<1>6. \A k \in 1 .. n : g[k].start = toks[k].start /\ g[k].size = toks[k].size /\ (k # i => g[k].end = toks[k].end)
  BY <1>2
<1>7. \A k \in 1 .. n : toks[k].start <= front /\ toks[k].end <= front /\ (toks[k].end = -1 => toks[k].start < front)
  BY <1>1 DEF Placed
<1>8. Placed(g, front + 1)
  <2>1. ASSUME NEW k \in 1 .. n
        PROVE  /\ g[k].start <= front + 1 /\ g[k].end <= front + 1
               /\ g[k].end = -1 => g[k].start < front + 1
    BY <1>2, <1>4, <1>6, <1>7
  <2>2. QED
    BY <1>3, <2>1 DEF Placed
<1>9. ASSUME NEW k \in 1 .. n, NEW j \in 1 .. n PROVE Covers(g, k, j) <=> Covers(toks, k, j)
  <2>1. CASE k = i
    BY <1>2, <1>4, <1>5, <1>6, <1>7, <2>1 DEF Covers
  <2>2. CASE k # i
    BY <1>6, <2>2 DEF Covers
  <2>3. QED
    BY <2>1, <2>2
<1>10. Nested(g)
  <2> SUFFICES ASSUME NEW k \in 1 .. n, NEW j \in 1 .. n, k < j PROVE Apart(g, k, j)
    BY <1>3 DEF Nested
  <2>1. Apart(toks, k, j)
    BY <1>1 DEF Nested
  <2>2. /\ g[k].start = toks[k].start /\ g[j].start = toks[j].start
        /\ Covers(g, k, j) <=> Covers(toks, k, j)
    BY <1>6, <1>9
  <2>3. /\ toks[k].start \in Nat /\ toks[j].start \in Nat
        /\ toks[k].end \in Nat \cup {-1} /\ toks[j].end \in Nat \cup {-1}
    BY <1>4
  <2>4. CASE k = i
    <3>1. /\ g[k].end = front + 1 /\ j # i /\ g[j].end = toks[j].end /\ toks[j].end # -1
          /\ toks[j].end <= front /\ Covers(toks, k, j)
      BY <1>2, <1>5, <1>6, <1>7, <2>4 DEF Covers
    <3>2. QED
      BY <2>1, <2>2, <2>3, <3>1 DEF Apart
  <2>5. CASE j = i
    <3>1. g[j].end = front + 1 /\ k # i /\ g[k].end = toks[k].end /\ toks[k].end <= front /\ toks[j].end = -1
      BY <1>2, <1>5, <1>6, <1>7, <2>5
    <3>2. QED
      BY <2>1, <2>2, <2>3, <3>1 DEF Apart
  <2>6. CASE k # i /\ j # i
    <3>1. g[k].end = toks[k].end /\ g[j].end = toks[j].end
      BY <1>6, <2>6
    <3>2. QED
      BY <2>1, <2>2, <3>1 DEF Apart
  <2>7. QED
    BY <2>4, <2>5, <2>6
<1>11. Sized(g)
  <2>1. ASSUME NEW k \in 1 .. n PROVE g[k].size = Cardinality(Kids(g, k))
    <3>1. Kids(g, k) = Kids(toks, k)
      BY <1>1, <1>3, <1>9 DEF Kids
    <3>2. toks[k].size = Cardinality(Kids(toks, k))
      BY <1>1 DEF Sized
    <3>3. QED
      BY <1>6, <3>1, <3>2
  <2>2. QED
    BY <1>3, <2>1 DEF Sized
<1>12. QED
  BY <1>8, <1>10, <1>11

-------------------------------------------------------------------------------
(* The end of the body *)

\* In a body that was accepted, what lies inside a token is what it covers, and its
\* children are its members.
LEMMA ChildrenAreKids ==
  ASSUME tokens \in Seq(Tok), Nested(tokens), Sized(tokens), \A i \in DOMAIN tokens : tokens[i].end # -1
  PROVE  /\ \A i, j \in DOMAIN tokens : Inside(j, i) <=> Covers(tokens, i, j)
         /\ \A i \in DOMAIN tokens : Children(i) = Kids(tokens, i)
<1> DEFINE n == Len(tokens)
<1>1. n \in Nat /\ DOMAIN tokens = 1 .. n /\ \A k \in 1 .. n : tokens[k] \in Tok
  OBVIOUS
<1>2. \A k \in 1 .. n : tokens[k].start \in Nat /\ tokens[k].end \in Nat
  BY <1>1 DEF Tok
<1>3. ASSUME NEW i \in 1 .. n, NEW j \in 1 .. n PROVE Inside(j, i) <=> Covers(tokens, i, j)
  <2>1. CASE i < j
    <3>1. Apart(tokens, i, j) /\ tokens[i].end # -1 /\ tokens[j].end # -1
      BY <1>1, <2>1 DEF Nested
    <3>2. QED
      BY <1>2, <2>1, <3>1 DEF Inside, Apart
  <2>2. CASE j < i
    <3>1. Apart(tokens, j, i)
      BY <1>1, <2>2 DEF Nested
    <3>2. tokens[j].start <= tokens[i].start
      BY <3>1 DEF Apart
    <3>3. QED
      BY <1>2, <2>2, <3>2 DEF Inside, Covers
  <2>3. CASE i = j
    BY <1>2, <2>3 DEF Inside, Covers
  <2>4. QED
    BY <2>1, <2>2, <2>3
<1>4. ASSUME NEW i \in 1 .. n PROVE Children(i) = Kids(tokens, i)
  <2>1. ASSUME NEW j \in 1 .. n, Covers(tokens, i, j), NEW k \in 1 .. n
        PROVE  Inside(j, k) /\ Inside(k, i) <=> i < k /\ Covers(tokens, k, j)
    <3>1. Inside(j, k) /\ Inside(k, i) => i < k /\ Covers(tokens, k, j)
      BY <1>3 DEF Covers
    <3>2. ASSUME i < k, Covers(tokens, k, j) PROVE Inside(k, i)
      <4>1. k < j /\ Apart(tokens, k, j)
        BY <1>1, <3>2 DEF Nested, Covers
      <4>2. tokens[k].start <= tokens[j].start /\ tokens[j].start < tokens[i].end
        BY <1>1, <2>1, <4>1 DEF Apart, Covers
      <4>3. Covers(tokens, i, k)
        BY <1>2, <3>2, <4>2 DEF Covers
      <4>4. QED
        BY <1>3, <4>3
    <3>3. QED
      BY <1>3, <3>1, <3>2
  <2>2. ASSUME NEW j \in 1 .. n PROVE j \in Children(i) <=> j \in Kids(tokens, i)
    <3>1. j \in Children(i) <=> Covers(tokens, i, j) /\ ~ \E k \in 1 .. n : Inside(j, k) /\ Inside(k, i)
      BY <1>1, <1>3 DEF Children
    <3>2. j \in Kids(tokens, i) <=> Covers(tokens, i, j) /\ \A k \in 1 .. n : i < k => ~ Covers(tokens, k, j)
      BY <1>1 DEF Kids
    <3>3. QED
      BY <2>1, <3>1, <3>2
  <2>3. Children(i) \subseteq 1 .. n /\ Kids(tokens, i) \subseteq 1 .. n
    BY <1>1 DEF Children, Kids
  <2>4. QED
    BY <2>2, <2>3
<1>5. QED
  BY <1>1, <1>3, <1>4

\* So its size counts its children, and of two tokens one lies inside the other or they
\* are apart.
LEMMA TreeAtEnd ==
  ASSUME tokens \in Seq(Tok), Nested(tokens), Sized(tokens), \A i \in DOMAIN tokens : tokens[i].end # -1
  PROVE  \A i \in DOMAIN tokens :
           /\ tokens[i].size = Cardinality(Children(i))
           /\ \A j \in DOMAIN tokens : i < j => Inside(j, i) \/ tokens[i].end <= tokens[j].start
<1> DEFINE n == Len(tokens)
<1>1. n \in Nat /\ DOMAIN tokens = 1 .. n /\ \A k \in 1 .. n : tokens[k] \in Tok
  OBVIOUS
<1>2. \A k \in 1 .. n : tokens[k].start \in Nat /\ tokens[k].end \in Nat
  BY <1>1 DEF Tok
<1>3. \A i \in 1 .. n : Children(i) = Kids(tokens, i) /\ \A j \in 1 .. n : Inside(j, i) <=> Covers(tokens, i, j)
  BY <1>1, ChildrenAreKids
<1>4. ASSUME NEW i \in 1 .. n, NEW j \in 1 .. n, i < j
      PROVE  Inside(j, i) \/ tokens[i].end <= tokens[j].start
  BY <1>1, <1>2, <1>3, <1>4 DEF Covers
<1>5. QED
  BY <1>1, <1>3, <1>4 DEF Sized

-------------------------------------------------------------------------------
(* The steps of jsmn_parse *)

\* The tokens read up to front form a tree whose innermost open container is super.
TreeAt(toks, super, front) ==
  /\ toks \in Seq(Tok)
  /\ Placed(toks, front)
  /\ Nested(toks)
  /\ Sized(toks)
  /\ super = LastOpen(toks)

\* Reading on does no harm.
LEMMA TreeFurther ==
  ASSUME NEW toks, NEW super, NEW front \in Nat, NEW next \in Nat, front <= next, TreeAt(toks, super, front)
  PROVE  TreeAt(toks, super, next)
<1>1. toks \in Seq(Tok) /\ Placed(toks, front)
  BY DEF TreeAt
<1>2. ASSUME NEW i \in DOMAIN toks
      PROVE  toks[i].start <= next /\ toks[i].end <= next /\ (toks[i].end = -1 => toks[i].start < next)
  <2>1. toks[i] \in Tok
    BY <1>1
  <2>2. toks[i].start \in Nat /\ toks[i].end \in Int
    BY <2>1 DEF Tok
  <2>3. QED
    BY <1>1, <2>2 DEF Placed
<1>3. QED
  BY <1>2 DEF TreeAt, Placed

\* A token that begins at or beyond front is added.
LEMMA TreeGrows ==
  ASSUME NEW toks, NEW super, NEW front \in Nat, NEW next \in Nat, TreeAt(toks, super, front), front <= next,
         NEW t \in Tok, t.size = 0, front <= t.start, t.end = -1 \/ front < t.end,
         t.start <= next, t.end <= next, t.end = -1 => t.start < next
  PROVE  TreeAt(Grow(toks, super, t), IF t.end = -1 THEN Len(toks) + 1 ELSE super, next)
<1> DEFINE g == Grow(toks, super, t)
<1>1. /\ toks \in Seq(Tok) /\ Placed(toks, front) /\ Nested(toks) /\ Sized(toks) /\ super = LastOpen(toks)
  BY DEF TreeAt
<1>2. super \in 0 .. Len(toks)
  BY <1>1, LastOpenIs
<1>3. IsGrown(g, toks, super, t)
  BY <1>1, <1>2, GrownTokens
<1>4. Nested(g)
  BY <1>1, <1>2, GrownNested
<1>5. Sized(g)
  BY <1>1, <1>2, GrownSized
<1>6. LastOpen(g) = IF t.end = -1 THEN Len(toks) + 1 ELSE super
  BY <1>1, <1>2, GrownLastOpen
<1>7. Placed(toks, next)
  BY TreeFurther DEF TreeAt
<1> HIDE DEF g
<1>8. Placed(g, next)
  <2>1. /\ g \in Seq(Tok) /\ Len(g) = Len(toks) + 1 /\ g[Len(toks) + 1] = t
        /\ \A i \in 1 .. Len(toks) : g[i].start = toks[i].start /\ g[i].end = toks[i].end
    BY <1>3 DEF IsGrown
  <2>2. Len(toks) \in Nat /\ DOMAIN g = 1 .. Len(toks) + 1 /\ DOMAIN toks = 1 .. Len(toks)
    BY <1>1, <2>1
  <2>3. ASSUME NEW i \in 1 .. Len(toks) + 1
        PROVE  g[i].start <= next /\ g[i].end <= next /\ (g[i].end = -1 => g[i].start < next)
    <3>1. CASE i \in 1 .. Len(toks)
      BY <1>7, <2>1, <2>2, <3>1 DEF Placed
    <3>2. CASE i = Len(toks) + 1
      BY <2>1, <3>2
    <3>3. QED
      BY <2>2, <3>1, <3>2
  <2>4. QED
    BY <2>2, <2>3 DEF Placed
<1>9. g \in Seq(Tok)
  BY <1>3 DEF IsGrown
<1>10. QED
  BY <1>4, <1>5, <1>6, <1>8, <1>9 DEF TreeAt, g

\* The innermost open container is closed.
LEMMA TreeCloses ==
  ASSUME NEW toks, NEW super, NEW front \in Nat, TreeAt(toks, super, front), super # 0,
         NEW g, g = [toks EXCEPT ![super].end = front + 1]
  PROVE  TreeAt(g, LastOpen(g), front + 1)
<1>1. /\ toks \in Seq(Tok) /\ Placed(toks, front) /\ Nested(toks) /\ Sized(toks) /\ super = LastOpen(toks)
  BY DEF TreeAt
<1>2. super \in 1 .. Len(toks)
  <2>1. super \in 0 .. Len(toks)
    BY <1>1, LastOpenIs
  <2>2. QED
    BY <1>1, <2>1
<1>3. front + 1 \in Nat
  OBVIOUS
<1>4. g \in Seq(Tok)
  BY <1>1, <1>2, <1>3, ClosedTokens
<1>5. Placed(g, front + 1) /\ Nested(g) /\ Sized(g)
  BY <1>1, <1>2, ClosedTree
<1>6. QED
  BY <1>4, <1>5 DEF TreeAt

\* The position from which the next token may begin.
ReadTo == IF mode = "value" THEN pos ELSE start

Delimiters == {"separator", "]", "}", NUL}

\* The inductive invariant of the parser.  A primitive that has just begun will not
\* end at once, since its first character is no delimiter: an empty primitive would
\* lie inside the token that ends where it begins.
ParserInv ==
  /\ js \in Seq(Chars \cup {NUL})
  /\ pos \in Nat /\ start \in Nat
  /\ mode \in Scanning \cup Errors \cup {"SUCCESS"}
  /\ mode \in Scanning => TreeAt(tokens, toksuper, ReadTo) /\ pos <= Len(js) /\ start <= pos
  /\ mode \in {"string", "escape"} => start < pos
  /\ mode = "primitive" /\ pos = start => pos < Len(js) /\ js[pos + 1] \notin Delimiters
  /\ mode = "SUCCESS" => /\ tokens \in Seq(Tok) /\ Nested(tokens) /\ Sized(tokens)
                         /\ \A i \in DOMAIN tokens : tokens[i].end # -1

\* jsmn_init.
LEMMA ParserStarts == ASSUME ParserInit PROVE ParserInv
<1>1. tokens = <<>> /\ tokens \in Seq(Tok) /\ DOMAIN tokens = {} /\ Len(tokens) = 0
  <2>1. tokens = <<>>
    BY DEF ParserInit
  <2>2. <<>> \in Seq(Tok) /\ Len(<<>>) = 0 /\ DOMAIN <<>> = {}
    OBVIOUS
  <2>3. QED
    BY <2>1, <2>2
<1>2. LastOpen(tokens) = 0
  <2>1. LastOpen(tokens) \in 0 .. Len(tokens)
    BY <1>1, LastOpenIs
  <2>2. QED
    BY <1>1, <2>1
<1>3. Placed(tokens, 0) /\ Nested(tokens) /\ Sized(tokens)
  BY <1>1 DEF Placed, Nested, Sized
<1>4. js \in Seq(Chars \cup {NUL}) /\ Len(js) = 0
  BY DEF ParserInit
<1>5. QED
  BY <1>1, <1>2, <1>3, <1>4 DEF ParserInit, ParserInv, TreeAt, ReadTo, Scanning

\* Reading a character: it is at pos afterwards.
LEMMA ReadCharacter ==
  ASSUME NEW c \in Chars \cup {NUL}, Reading(c), js \in Seq(Chars \cup {NUL}), pos \in Nat, pos <= Len(js)
  PROVE  /\ js' \in Seq(Chars \cup {NUL}) /\ Len(js') \in Nat /\ pos < Len(js') /\ pos + 1 <= Len(js')
         /\ js'[pos + 1] = c
         /\ pos < Len(js) => js[pos + 1] = c
<1>1. Len(js) \in Nat
  OBVIOUS
<1>2. CASE pos < Len(js)
  BY <1>1, <1>2 DEF Reading
<1>3. CASE ~ (pos < Len(js))
  <2>1. js' = Append(js, c) /\ pos = Len(js)
    BY <1>1, <1>3 DEF Reading
  <2>2. /\ Append(js, c) \in Seq(Chars \cup {NUL}) /\ Len(Append(js, c)) = Len(js) + 1
        /\ Append(js, c)[Len(js) + 1] = c
    BY AppendProperties
  <2>3. QED
    BY <1>1, <1>3, <2>1, <2>2
<1>4. QED
  BY <1>2, <1>3

\* The numbers of a token that is made.
LEMMA TokenIs ==
  ASSUME NEW type \in Types, NEW from \in Nat, NEW to \in Nat \cup {-1}
  PROVE  LET t == Token(type, from, to) IN t \in Tok /\ t.start = from /\ t.end = to /\ t.size = 0 /\ t.type = type
BY DEF Token, Tok

\* '{' and '['.
LEMMA OpenKeeps == ASSUME ParserInv, NEW c \in Chars, Open(c) PROVE ParserInv'
<1>1. /\ js \in Seq(Chars \cup {NUL}) /\ pos \in Nat /\ start \in Nat /\ pos <= Len(js) /\ start <= pos
      /\ TreeAt(tokens, toksuper, pos) /\ mode = "value"
  BY DEF ParserInv, Open, ReadTo, Scanning
<1>2. js' \in Seq(Chars \cup {NUL}) /\ pos + 1 <= Len(js')
  BY <1>1, ReadCharacter DEF Open
<1>3. start' = start
  BY DEF Open
<1>4. CASE Len(tokens) = NumTokens
  BY <1>1, <1>2, <1>3, <1>4 DEF Open, ParserInv, Scanning, Errors
<1>5. CASE Len(tokens) # NumTokens
  <2> DEFINE type == IF c = "{" THEN "OBJECT" ELSE "ARRAY"
  <2> DEFINE t == Token(type, pos, -1)
  <2>1. t \in Tok /\ t.start = pos /\ t.end = -1 /\ t.size = 0
    <3>1. type \in Types
      BY DEF Types
    <3> HIDE DEF type
    <3>2. -1 \in Nat \cup {-1} /\ pos \in Nat
      BY <1>1
    <3>3. ASSUME NEW to \in Nat \cup {-1}, to = -1
          PROVE  LET u == Token(type, pos, to) IN u \in Tok /\ u.start = pos /\ u.end = to /\ u.size = 0
      BY <3>1, <3>2, TokenIs
    <3>4. QED
      BY <3>2, <3>3
  <2>2. tokens' = Grow(tokens, toksuper, t) /\ toksuper' = Len(tokens) + 1 /\ pos' = pos + 1 /\ mode' = "value"
    BY <1>1, <1>5 DEF Open, Grow, Counted
  <2> HIDE DEF t
  <2>3. TreeAt(Grow(tokens, toksuper, t), Len(tokens) + 1, pos + 1)
    <3>1. /\ pos + 1 \in Nat /\ pos <= pos + 1 /\ pos <= t.start /\ t.start <= pos + 1 /\ t.end <= pos + 1
          /\ t.start < pos + 1
      BY <1>1, <2>1
    <3>2. TreeAt(Grow(tokens, toksuper, t), IF t.end = -1 THEN Len(tokens) + 1 ELSE toksuper, pos + 1)
      BY <1>1, <2>1, <3>1, TreeGrows
    <3>3. QED
      BY <2>1, <3>2
  <2>4. TreeAt(tokens', toksuper', pos')
    BY <2>2, <2>3
  <2>5. pos' \in Nat /\ start' <= pos' /\ pos' <= Len(js') /\ start' \in Nat
    BY <1>1, <1>2, <1>3, <2>2
  <2>6. QED
    BY <1>2, <2>2, <2>4, <2>5 DEF ParserInv, ReadTo, Scanning
<1>6. QED
  BY <1>4, <1>5

\* '}' and ']'.
LEMMA CloseKeeps == ASSUME ParserInv, NEW c \in Chars, Close(c) PROVE ParserInv'
<1>1. /\ js \in Seq(Chars \cup {NUL}) /\ pos \in Nat /\ start \in Nat /\ pos <= Len(js) /\ start <= pos
      /\ TreeAt(tokens, toksuper, pos) /\ mode = "value"
  BY DEF ParserInv, Close, ReadTo, Scanning
<1>2. js' \in Seq(Chars \cup {NUL}) /\ pos + 1 <= Len(js')
  BY <1>1, ReadCharacter DEF Close
<1>3. start' = start /\ toksuper = LastOpen(tokens)
  BY <1>1 DEF Close, TreeAt
<1> DEFINE bad == toksuper = 0 \/ tokens[toksuper].type # (IF c = "}" THEN "OBJECT" ELSE "ARRAY")
<1>4. CASE bad
  <2>1. mode' = "INVAL" /\ pos' = pos
    BY <1>3, <1>4 DEF Close
  <2>2. QED
    BY <1>1, <1>2, <1>3, <2>1 DEF ParserInv, Scanning, Errors
<1>5. CASE ~ bad
  <2>1. /\ tokens' = [tokens EXCEPT ![toksuper].end = pos + 1]
        /\ toksuper' = LastOpen(tokens') /\ pos' = pos + 1 /\ mode' = "value"
    BY <1>1, <1>3, <1>5 DEF Close
  <2>2. toksuper # 0
    BY <1>5
  <2>3. ASSUME NEW g, g = [tokens EXCEPT ![toksuper].end = pos + 1] PROVE TreeAt(g, LastOpen(g), pos + 1)
    BY <1>1, <2>2, <2>3, TreeCloses
  <2>4. TreeAt(tokens', toksuper', pos')
    BY <2>1, <2>3
  <2>5. pos' \in Nat /\ start' <= pos' /\ pos' <= Len(js') /\ start' \in Nat
    BY <1>1, <1>2, <1>3, <2>1
  <2>6. QED
    BY <1>2, <2>1, <2>4, <2>5 DEF ParserInv, ReadTo, Scanning
<1>6. QED
  BY <1>4, <1>5

\* Separators, and the first character of a string or a primitive.
LEMMA BeginKeeps ==
  ASSUME ParserInv, NEW c \in Chars, Skip(c) \/ BeginString(c) \/ BeginPrimitive(c) PROVE ParserInv'
<1>1. /\ js \in Seq(Chars \cup {NUL}) /\ pos \in Nat /\ start \in Nat /\ pos <= Len(js) /\ start <= pos
      /\ TreeAt(tokens, toksuper, pos) /\ mode = "value"
  BY DEF ParserInv, Skip, BeginString, BeginPrimitive, ReadTo, Scanning
<1>2. js' \in Seq(Chars \cup {NUL}) /\ pos + 1 <= Len(js') /\ pos < Len(js') /\ Len(js') \in Nat /\ js'[pos + 1] = c
  BY <1>1, ReadCharacter DEF Skip, BeginString, BeginPrimitive
<1>3. tokens' = tokens /\ toksuper' = toksuper
  BY DEF Skip, BeginString, BeginPrimitive
<1>4. CASE Skip(c)
  <2>1. pos' = pos + 1 /\ start' = start /\ mode' = "value"
    BY <1>1, <1>4 DEF Skip
  <2>2. TreeAt(tokens, toksuper, pos + 1)
    BY <1>1, TreeFurther
  <2>3. TreeAt(tokens', toksuper', pos')
    BY <1>3, <2>1, <2>2
  <2>4. QED
    BY <1>1, <1>2, <2>1, <2>3 DEF ParserInv, ReadTo, Scanning
<1>5. CASE BeginString(c)
  <2>1. pos' = pos + 1 /\ start' = pos /\ mode' = "string"
    BY <1>5 DEF BeginString
  <2>2. TreeAt(tokens', toksuper', start')
    BY <1>1, <1>3, <2>1
  <2>3. QED
    BY <1>1, <1>2, <2>1, <2>2 DEF ParserInv, ReadTo, Scanning
<1>6. CASE BeginPrimitive(c)
  <2>1. pos' = pos /\ start' = pos /\ mode' = "primitive"
    BY <1>6 DEF BeginPrimitive
  <2>2. TreeAt(tokens', toksuper', start')
    BY <1>1, <1>3, <2>1
  <2>3. c \notin Delimiters
    <3>1. c \in {"backslash", "control"} \cup Words
      BY <1>6 DEF BeginPrimitive
    <3>2. \A d \in Delimiters : d \notin Words
      BY JsmnAssumption DEF Delimiters, Marks
    <3>3. QED
      BY <3>1, <3>2 DEF Delimiters, NUL
  <2>4. QED
    BY <1>1, <1>2, <2>1, <2>2, <2>3 DEF ParserInv, ReadTo, Scanning
<1>7. QED
  BY <1>4, <1>5, <1>6

\* A string or a primitive that ends beyond its start becomes a token.
LEMMA LeafTree ==
  ASSUME NEW type \in Types, NEW from \in Nat, NEW to \in Nat, NEW front \in Nat, NEW next \in Nat,
         TreeAt(tokens, toksuper, front), front <= from, front < to, from <= next, to <= next,
         Leaf(type, from, to), Len(tokens) # NumTokens
  PROVE  mode' = "value" /\ TreeAt(tokens', toksuper, next)
<1> DEFINE t == Token(type, from, to)
<1>1. t \in Tok /\ t.start = from /\ t.end = to /\ t.size = 0
  BY TokenIs
<1>2. mode' = "value" /\ tokens' = Grow(tokens, toksuper, t)
  BY DEF Leaf, Grow, Counted
<1> HIDE DEF t
<1>3. TreeAt(Grow(tokens, toksuper, t), IF t.end = -1 THEN Len(tokens) + 1 ELSE toksuper, next)
  <2>1. front <= next /\ (t.end = -1 \/ front < t.end) /\ front <= t.start /\ t.start <= next /\ t.end <= next
        /\ (t.end = -1 => t.start < next)
    BY <1>1
  <2>2. QED
    BY <1>1, <2>1, TreeGrows
<1>4. t.end # -1
  BY <1>1
<1>5. QED
  BY <1>2, <1>3, <1>4

\* jsmn_parse_string.
LEMMA InStringKeeps == ASSUME ParserInv, NEW c \in Chars \cup {NUL}, InString(c) PROVE ParserInv'
<1>1. /\ js \in Seq(Chars \cup {NUL}) /\ pos \in Nat /\ start \in Nat /\ pos <= Len(js) /\ start < pos
      /\ TreeAt(tokens, toksuper, start) /\ mode = "string"
  BY DEF ParserInv, InString, ReadTo, Scanning
<1>2. js' \in Seq(Chars \cup {NUL}) /\ pos + 1 <= Len(js') /\ Len(js') \in Nat
  BY <1>1, ReadCharacter DEF InString
<1>3. start' = start /\ toksuper' = toksuper
  BY DEF InString
<1>4. ASSUME mode' \in Errors PROVE ParserInv'
  <2>1. pos' = start
    BY <1>4 DEF InString
  <2>2. mode' \notin Scanning /\ mode' # "SUCCESS" /\ mode' \notin {"string", "escape"} /\ mode' # "primitive"
    BY <1>4 DEF Errors, Scanning
  <2>3. QED
    BY <1>1, <1>2, <1>3, <1>4, <2>1, <2>2 DEF ParserInv
<1>5. CASE c = "quote"
  <2>1. Leaf("STRING", start + 1, pos)
    BY <1>5, Zenon DEF InString, NUL
  <2>2. CASE Len(tokens) = NumTokens
    <3>1. mode' \in Errors
      BY <2>1, <2>2 DEF Leaf, Errors
    <3>2. QED
      BY <1>4, <3>1
  <2>3. CASE Len(tokens) # NumTokens
    <3>1. /\ start + 1 \in Nat /\ pos + 1 \in Nat /\ start <= start + 1 /\ start + 1 <= pos + 1 /\ pos <= pos + 1
          /\ "STRING" \in Types
      BY <1>1 DEF Types
    <3>2. mode' = "value" /\ TreeAt(tokens', toksuper, pos + 1)
      BY <1>1, <2>1, <2>3, <3>1, LeafTree
    <3>3. pos' = pos + 1
      BY <3>2 DEF InString, Errors
    <3>4. TreeAt(tokens', toksuper', pos')
      BY <1>3, <3>2, <3>3
    <3>5. QED
      BY <1>1, <1>2, <1>3, <3>2, <3>3, <3>4 DEF ParserInv, ReadTo, Scanning
  <2>4. QED
    BY <2>2, <2>3
<1>6. CASE c # "quote" /\ mode' \notin Errors
  <2>1. mode' \in {"string", "escape"} /\ tokens' = tokens
    BY <1>1, <1>6 DEF InString, Errors, NUL
  <2>2. pos' = pos + 1
    BY <1>6 DEF InString
  <2>3. TreeAt(tokens', toksuper', start')
    BY <1>1, <1>3, <2>1
  <2>4. QED
    BY <1>1, <1>2, <1>3, <2>1, <2>2, <2>3 DEF ParserInv, ReadTo, Scanning
<1>7. QED
  BY <1>4, <1>5, <1>6

\* The character after a backslash.
LEMMA InEscapeKeeps == ASSUME ParserInv, NEW c \in Chars \cup {NUL}, InEscape(c) PROVE ParserInv'
<1>1. /\ js \in Seq(Chars \cup {NUL}) /\ pos \in Nat /\ start \in Nat /\ pos <= Len(js) /\ start < pos
      /\ TreeAt(tokens, toksuper, start) /\ mode = "escape"
  BY DEF ParserInv, InEscape, ReadTo, Scanning
<1>2. js' \in Seq(Chars \cup {NUL}) /\ pos + 1 <= Len(js') /\ Len(js') \in Nat
  BY <1>1, ReadCharacter DEF InEscape
<1>3. start' = start /\ toksuper' = toksuper /\ tokens' = tokens
  BY DEF InEscape
<1>4. CASE mode' = "INVAL"
  <2>1. pos' = start
    BY <1>4 DEF InEscape
  <2>2. QED
    BY <1>1, <1>2, <1>3, <1>4, <2>1 DEF ParserInv, Scanning, Errors
<1>5. CASE mode' = "string"
  <2>1. pos' = pos + 1
    BY <1>5 DEF InEscape
  <2>2. TreeAt(tokens', toksuper', start')
    BY <1>1, <1>3
  <2>3. QED
    BY <1>1, <1>2, <1>3, <1>5, <2>1, <2>2 DEF ParserInv, ReadTo, Scanning
<1>6. QED
  BY <1>4, <1>5 DEF InEscape

\* jsmn_parse_primitive.
LEMMA InPrimitiveKeeps == ASSUME ParserInv, NEW c \in Chars \cup {NUL}, InPrimitive(c) PROVE ParserInv'
<1>1. /\ js \in Seq(Chars \cup {NUL}) /\ pos \in Nat /\ start \in Nat /\ pos <= Len(js) /\ start <= pos
      /\ TreeAt(tokens, toksuper, start) /\ mode = "primitive"
      /\ pos = start => pos < Len(js) /\ js[pos + 1] \notin Delimiters
  BY DEF ParserInv, InPrimitive, ReadTo, Scanning
<1>2. /\ js' \in Seq(Chars \cup {NUL}) /\ pos + 1 <= Len(js') /\ Len(js') \in Nat /\ pos < Len(js')
      /\ pos < Len(js) => js[pos + 1] = c
  BY <1>1, ReadCharacter DEF InPrimitive
<1>3. start' = start /\ toksuper' = toksuper
  BY DEF InPrimitive
<1>4. ASSUME mode' \in Errors PROVE ParserInv'
  <2>1. pos' = start
    BY <1>4 DEF InPrimitive, Errors
  <2>2. mode' \notin Scanning /\ mode' # "SUCCESS" /\ mode' \notin {"string", "escape"} /\ mode' # "primitive"
    BY <1>4 DEF Errors, Scanning
  <2>3. QED
    BY <1>1, <1>2, <1>3, <1>4, <2>1, <2>2 DEF ParserInv
<1>5. CASE c \in Delimiters
  <2>1. Leaf("PRIMITIVE", start, pos)
    BY <1>5, Zenon DEF InPrimitive, Delimiters, NUL
  <2>2. CASE Len(tokens) = NumTokens
    <3>1. mode' \in Errors
      BY <2>1, <2>2 DEF Leaf, Errors
    <3>2. QED
      BY <1>4, <3>1
  <2>3. CASE Len(tokens) # NumTokens
    <3>1. start < pos /\ start <= start /\ pos <= pos /\ "PRIMITIVE" \in Types
      BY <1>1, <1>2, <1>5 DEF Types
    <3>2. mode' = "value" /\ TreeAt(tokens', toksuper, pos)
      BY <1>1, <2>1, <2>3, <3>1, LeafTree
    <3>3. pos' = pos
      BY <3>2 DEF InPrimitive, Errors
    <3>4. TreeAt(tokens', toksuper', pos')
      BY <1>3, <3>2, <3>3
    <3>5. QED
      BY <1>1, <1>2, <1>3, <3>2, <3>3, <3>4 DEF ParserInv, ReadTo, Scanning
  <2>4. QED
    BY <2>2, <2>3
<1>6. CASE c \notin Delimiters /\ mode' \notin Errors
  <2>1. mode' = "primitive" /\ tokens' = tokens
    BY <1>1, <1>6 DEF InPrimitive, Errors, Delimiters
  <2>2. pos' = pos + 1
    BY <2>1 DEF InPrimitive, Errors
  <2>3. TreeAt(tokens', toksuper', start')
    BY <1>1, <1>3, <2>1
  <2>4. QED
    BY <1>1, <1>2, <1>3, <2>1, <2>2, <2>3 DEF ParserInv, ReadTo, Scanning
<1>7. QED
  BY <1>4, <1>5, <1>6

\* The end of the body.
LEMMA EndKeeps == ASSUME ParserInv, EndOfBody PROVE ParserInv'
<1>1. /\ js \in Seq(Chars \cup {NUL}) /\ pos \in Nat /\ start \in Nat /\ pos <= Len(js) /\ start <= pos
      /\ TreeAt(tokens, toksuper, pos) /\ mode = "value"
  BY DEF ParserInv, EndOfBody, ReadTo, Scanning
<1>2. js' \in Seq(Chars \cup {NUL})
  BY <1>1, ReadCharacter DEF EndOfBody
<1>3. pos' = pos /\ start' = start /\ tokens' = tokens
  BY DEF EndOfBody
<1>4. CASE LastOpen(tokens) = 0
  <2>1. mode' = "SUCCESS"
    BY <1>4 DEF EndOfBody
  <2>2. tokens \in Seq(Tok) /\ Nested(tokens) /\ Sized(tokens)
    BY <1>1 DEF TreeAt
  <2>3. \A i \in 1 .. Len(tokens) : i > 0 => tokens[i].end # -1
    BY <1>4, <2>2, LastOpenIs
  <2>4. \A i \in DOMAIN tokens : tokens[i].end # -1
    BY <2>2, <2>3
  <2>5. QED
    BY <1>1, <1>2, <1>3, <2>1, <2>2, <2>4 DEF ParserInv, Scanning
<1>5. CASE LastOpen(tokens) # 0
  <2>1. mode' = "PART"
    BY <1>5 DEF EndOfBody
  <2>2. QED
    BY <1>1, <1>2, <1>3, <2>1 DEF ParserInv, Scanning, Errors
<1>6. QED
  BY <1>4, <1>5

\* Every step of the parser keeps its invariant.
LEMMA ParserKeeps == ASSUME ParserInv, [ParserStep]_parserVars PROVE ParserInv'
<1>1. CASE UNCHANGED parserVars
  BY <1>1 DEF parserVars, ParserInv, ReadTo
<1>2. CASE ParserStep
  BY <1>2, OpenKeeps, CloseKeeps, BeginKeeps, InStringKeeps, InEscapeKeeps, InPrimitiveKeeps, EndKeeps DEF ParserStep
<1>3. QED
  BY <1>1, <1>2

\* What the invariant is for: the container in which the next token will be counted
\* is the innermost open one, and the tokens of a body that was accepted form a tree.
LEMMA ParserTree == ASSUME ParserInv PROVE TokensFormTree
<1>1. mode \in Scanning => toksuper = LastOpen(tokens)
  BY DEF ParserInv, TreeAt
<1>2. CASE mode = "SUCCESS"
  <2>1. /\ tokens \in Seq(Tok) /\ Nested(tokens) /\ Sized(tokens)
        /\ \A i \in DOMAIN tokens : tokens[i].end # -1
    BY <1>2 DEF ParserInv
  <2>2. QED
    BY <1>1, <2>1, TreeAtEnd DEF TokensFormTree
<1>3. CASE mode # "SUCCESS"
  BY <1>1, <1>3 DEF TokensFormTree
<1>4. QED
  BY <1>2, <1>3

-------------------------------------------------------------------------------
(* The members of a token in their order *)

\* What a body that was accepted leaves behind: a tree of closed tokens.
Tree(toks) ==
  /\ toks \in Seq(Tok) /\ Len(toks) <= NumTokens
  /\ Nested(toks) /\ Sized(toks)
  /\ \A i \in DOMAIN toks : toks[i].end # -1

\* The numbers in such a tree.
LEMMA TreeNumbers ==
  ASSUME NEW toks, Tree(toks)
  PROVE  /\ Len(toks) \in 0 .. NumTokens /\ DOMAIN toks = 1 .. Len(toks) /\ NumTokens \in Nat
         /\ \A i \in 1 .. Len(toks) :
              toks[i] \in Tok /\ toks[i].start \in Nat /\ toks[i].end \in Nat /\ toks[i].size \in Nat
<1>1. /\ toks \in Seq(Tok) /\ Len(toks) \in Nat /\ DOMAIN toks = 1 .. Len(toks) /\ NumTokens \in Nat
      /\ Len(toks) <= NumTokens /\ \A i \in 1 .. Len(toks) : toks[i].end # -1
  BY JsmnAssumption DEF Tree
<1>2. \A i \in 1 .. Len(toks) : toks[i] \in Tok
  BY <1>1
<1>3. \A i \in 1 .. Len(toks) : toks[i].start \in Nat /\ toks[i].end \in Nat \cup {-1} /\ toks[i].size \in Nat
  BY <1>2 DEF Tok
<1>4. QED
  BY <1>1, <1>2, <1>3

\* A token that covers another one covers the tokens between them and the tokens
\* that one covers.
LEMMA CoversMore ==
  ASSUME NEW toks, Tree(toks), NEW i \in 1 .. Len(toks), NEW k \in 1 .. Len(toks), NEW j \in 1 .. Len(toks)
  PROVE  /\ Covers(toks, i, j) /\ i < k /\ k <= j => Covers(toks, i, k)
         /\ Covers(toks, i, k) /\ Covers(toks, k, j) => Covers(toks, i, j)
<1>1. /\ DOMAIN toks = 1 .. Len(toks) /\ Len(toks) \in Nat
      /\ toks[i].start \in Nat /\ toks[k].start \in Nat /\ toks[j].start \in Nat
      /\ toks[i].end \in Nat /\ toks[k].end \in Nat /\ toks[j].end \in Nat
  BY TreeNumbers
<1>2. /\ k < j => Apart(toks, k, j)
      /\ i < k => Apart(toks, i, k)
  BY <1>1 DEF Tree, Nested
<1>3. ASSUME Covers(toks, i, j), i < k, k <= j PROVE Covers(toks, i, k)
  BY <1>1, <1>2, <1>3 DEF Covers, Apart
<1>4. ASSUME Covers(toks, i, k), Covers(toks, k, j) PROVE Covers(toks, i, j)
  <2>1. i < k /\ k < j /\ toks[k].end <= toks[i].end /\ toks[j].start < toks[k].end
    BY <1>1, <1>2, <1>4 DEF Covers, Apart
  <2>2. QED
    BY <1>1, <2>1 DEF Covers
<1>5. QED
  BY <1>3, <1>4

\* a is the number of the token after i and all that i covers.
IsAfter(toks, i, a) ==
  /\ a \in i + 1 .. Len(toks) + 1
  /\ \A j \in i + 1 .. Len(toks) : Covers(toks, i, j) <=> j < a

After(toks, i) == CHOOSE a : IsAfter(toks, i, a)

\* There is such a token number: what a token covers follows it without a gap.
LEMMA AfterIs ==
  ASSUME NEW toks, Tree(toks), NEW i \in 1 .. Len(toks)
  PROVE  IsAfter(toks, i, After(toks, i))
<1> DEFINE n == Len(toks)
<1> DEFINE B == {j \in i + 1 .. n + 1 : j = n + 1 \/ ~ Covers(toks, i, j)}
<1>1. n \in Nat /\ i \in 1 .. n
  BY TreeNumbers
<1>2. B \in SUBSET (Nat \ {0}) /\ n + 1 \in B
  BY <1>1
<1>3. PICK a \in B : \A y \in B : a <= y
  <2> HIDE DEF B
  <2>1. B # {}
    BY <1>2
  <2>2. QED
    BY <1>2, <2>1, MinIs
<1>4. a \in i + 1 .. n + 1 /\ (a = n + 1 \/ ~ Covers(toks, i, a))
  BY <1>3
<1>5. ASSUME NEW j \in i + 1 .. n PROVE Covers(toks, i, j) <=> j < a
  <2>1. ASSUME j < a PROVE Covers(toks, i, j)
    <3>1. j \notin B
      BY <1>1, <1>3, <1>4, <2>1
    <3>2. j \in i + 1 .. n + 1 /\ j # n + 1
      BY <1>1
    <3>3. QED
      BY <3>1, <3>2
  <2>2. ASSUME Covers(toks, i, j), ~ (j < a) PROVE FALSE
    <3>1. a \in 1 .. n /\ a # n + 1 /\ i < a /\ a <= j /\ j \in 1 .. n
      BY <1>1, <1>4, <2>2
    <3>2. Covers(toks, i, a)
      BY <1>1, <2>2, <3>1, CoversMore
    <3>3. QED
      BY <1>4, <3>1, <3>2
  <2>3. QED
    BY <2>1, <2>2
<1>6. IsAfter(toks, i, a)
  BY <1>4, <1>5 DEF IsAfter
<1>7. QED
  BY <1>6 DEF After

\* The place of x in a set of numbers.
Rank(S, x) == Cardinality({y \in S : y <= x})

\* Places count upwards from 1 to the size of the set.
LEMMA Ranks ==
  ASSUME NEW n \in Nat, NEW S \in SUBSET (1 .. n), NEW x \in S
  PROVE  /\ Rank(S, x) \in 1 .. Cardinality(S)
         /\ (\A y \in S : y <= x) <=> Rank(S, x) = Cardinality(S)
         /\ (\A y \in S : x <= y) => Rank(S, x) = 1
         /\ \A z \in S : x < z => Rank(S, x) < Rank(S, z)
         /\ \A z \in S : x < z /\ (\A y \in S : x < y => z <= y) => Rank(S, z) = Rank(S, x) + 1
<1> DEFINE U(a) == {y \in S : y <= a}
<1>0. \A y \in S : y \in Int
  OBVIOUS
<1>1. IsFiniteSet(1 .. n)
  BY FS_Interval
<1>2. IsFiniteSet(S) /\ Cardinality(S) \in Nat
  BY <1>1, FS_Subset, FS_CardinalityType
<1>3. ASSUME NEW a \in S PROVE U(a) \in SUBSET S /\ IsFiniteSet(U(a)) /\ Cardinality(U(a)) \in Nat /\ Rank(S, a) = Cardinality(U(a))
  <2>1. U(a) \in SUBSET S
    OBVIOUS
  <2>2. Rank(S, a) = Cardinality(U(a))
    BY DEF Rank
  <2> HIDE DEF U
  <2>3. QED
    BY <1>2, <2>1, <2>2, FS_Subset, FS_CardinalityType
<1>4. Cardinality(U(x)) <= Cardinality(S) /\ (Cardinality(S) = Cardinality(U(x)) => S = U(x))
  <2> HIDE DEF U
  <2>1. QED
    BY <1>2, <1>3, FS_Subset
<1>5. Cardinality(U(x)) # 0
  <2>1. x \in U(x)
    OBVIOUS
  <2> HIDE DEF U
  <2>2. QED
    BY <1>3, <2>1, FS_EmptySet
<1>6. (\A y \in S : y <= x) <=> S = U(x)
  OBVIOUS
<1>7. (\A y \in S : x <= y) => Rank(S, x) = 1
  <2>1. ASSUME \A y \in S : x <= y PROVE U(x) = {x}
    <3>1. ASSUME NEW y \in S, y <= x PROVE y = x
      <4>1. x <= y
        BY <2>1
      <4>2. QED
        BY <1>0, <3>1, <4>1
    <3>2. x \in U(x) /\ \A y \in U(x) : y \in S /\ y <= x
      BY <1>0
    <3> HIDE DEF U
    <3>3. QED
      BY <3>1, <3>2
  <2>2. Cardinality({x}) = 1
    BY FS_Singleton
  <2> HIDE DEF U
  <2>3. QED
    BY <1>3, <2>1, <2>2
<1>8. ASSUME NEW z \in S, x < z PROVE Rank(S, x) < Rank(S, z)
  <2>1. U(x) \in SUBSET U(z) /\ z \in U(z) /\ z \notin U(x)
    <3>1. ASSUME NEW y \in S, y <= x PROVE y <= z
      BY <1>0, <1>8, <3>1
    <3>2. z <= z /\ ~ (z <= x)
      BY <1>0, <1>8
    <3>3. QED
      BY <3>1, <3>2
  <2> HIDE DEF U
  <2>2. Cardinality(U(x)) <= Cardinality(U(z)) /\ (Cardinality(U(z)) = Cardinality(U(x)) => U(z) = U(x))
    BY <1>3, <2>1, FS_Subset
  <2>3. QED
    BY <1>3, <2>1, <2>2
<1>9. ASSUME NEW z \in S, x < z, \A y \in S : x < y => z <= y PROVE Rank(S, z) = Rank(S, x) + 1
  <2>1. U(z) = U(x) \cup {z} /\ z \notin U(x)
    <3>1. ASSUME NEW y \in S PROVE y <= z <=> y <= x \/ y = z
      BY <1>0, <1>9
    <3>2. ~ (z <= x)
      BY <1>0, <1>9
    <3>3. ASSUME NEW y PROVE y \in U(z) <=> y \in U(x) \cup {z}
      BY <3>1
    <3>4. QED
      BY <3>2, <3>3
  <2> HIDE DEF U
  <2>2. Cardinality(U(z)) = Cardinality(U(x)) + 1
    BY <1>3, <2>1, FS_AddElement
  <2>3. QED
    BY <1>3, <2>2
<1>10. QED
  <2> HIDE DEF U
  <2>1. Rank(S, x) = Cardinality(U(x)) /\ Cardinality(U(x)) \in Nat
    BY <1>3
  <2>2. Rank(S, x) \in 1 .. Cardinality(S)
    BY <1>2, <1>4, <1>5, <2>1
  <2>3. S = U(x) => Rank(S, x) = Cardinality(S)
    BY <2>1
  <2>4. QED
    BY <1>4, <1>6, <1>7, <1>8, <1>9, <2>1, <2>2, <2>3

\* Nth finds the element at a place.
LEMMA NthIs ==
  ASSUME NEW n \in Nat, NEW S \in SUBSET (1 .. n), NEW x \in S, NEW k, Rank(S, x) = k
  PROVE  Nth(S, k) = x
<1>1. Nth(S, k) = CHOOSE z \in S : Rank(S, z) = k
  BY DEF Nth, Rank
<1>2. ASSUME NEW z \in S, Rank(S, z) = k PROVE z = x
  <2>1. x < z => Rank(S, x) < Rank(S, z)
    BY Ranks
  <2>2. z < x => Rank(S, z) < Rank(S, x)
    BY Ranks
  <2>3. Rank(S, x) \in Int /\ Rank(S, z) \in Int
    <3>1. Rank(S, x) \in 1 .. Cardinality(S) /\ Rank(S, z) \in 1 .. Cardinality(S)
      BY Ranks
    <3>2. QED
      BY <3>1
  <2>4. QED
    BY <1>2, <2>1, <2>2, <2>3
<1>3. QED
  BY <1>1, <1>2

\* The members of a token are tokens after it.
LEMMA KidsAre ==
  ASSUME NEW toks, Tree(toks), NEW o \in 1 .. Len(toks)
  PROVE  /\ Kids(toks, o) \in SUBSET (1 .. Len(toks))
         /\ toks[o].size = Cardinality(Kids(toks, o))
         /\ \A j \in 1 .. Len(toks) :
              j \in Kids(toks, o) <=> Covers(toks, o, j) /\ \A k \in 1 .. Len(toks) : o < k => ~ Covers(toks, k, j)
<1>1. DOMAIN toks = 1 .. Len(toks)
  BY TreeNumbers
<1>2. QED
  BY <1>1 DEF Kids, Tree, Sized

\* Nth finds the member at a place.
LEMMA NthKid ==
  ASSUME NEW toks, Tree(toks), NEW o \in 1 .. Len(toks), NEW K, K = Kids(toks, o), NEW y \in K, NEW k, Rank(K, y) = k
  PROVE  Nth(K, k) = y
<1>1. Len(toks) \in Nat /\ K \in SUBSET (1 .. Len(toks))
  BY TreeNumbers, KidsAre
<1>2. QED
  BY <1>1, NthIs

\* The first member comes right after its container; without members, the token after
\* it is the next one.
LEMMA FirstKid ==
  ASSUME NEW toks, Tree(toks), NEW o \in 1 .. Len(toks), NEW K, K = Kids(toks, o)
  PROVE  /\ K = {} => After(toks, o) = o + 1
         /\ K # {} => o + 1 \in K /\ Rank(K, o + 1) = 1
<1> DEFINE n == Len(toks)
<1> DEFINE a == After(toks, o)
<1>1. n \in Nat /\ o \in 1 .. n
  BY TreeNumbers
<1>2. a \in o + 1 .. n + 1 /\ \A j \in o + 1 .. n : Covers(toks, o, j) <=> j < a
  BY AfterIs DEF IsAfter
<1> HIDE DEF a
<1>3. ASSUME NEW j \in 1 .. n, Covers(toks, o, j) PROVE o + 1 \in K
  <2>1. o < j
    BY <1>3 DEF Covers
  <2>2. o + 1 \in 1 .. n /\ o < o + 1 /\ o + 1 <= j
    BY <1>1, <2>1
  <2>3. Covers(toks, o, o + 1)
    BY <1>1, <1>3, <2>2, CoversMore
  <2>4. \A k \in 1 .. n : o < k => ~ Covers(toks, k, o + 1)
    BY <1>1 DEF Covers
  <2>5. QED
    BY <2>2, <2>3, <2>4, KidsAre
<1>4. \A j \in K : j \in 1 .. n /\ Covers(toks, o, j) /\ o + 1 <= j
  <2>1. K \in SUBSET (1 .. n)
    BY KidsAre
  <2>2. \A j \in K : Covers(toks, o, j)
    BY <2>1, KidsAre
  <2>3. \A j \in K : o < j
    BY <2>2 DEF Covers
  <2>4. QED
    BY <1>1, <2>1, <2>2, <2>3
<1>5. ASSUME K = {} PROVE a = o + 1
  <2>1. ASSUME a # o + 1 PROVE FALSE
    <3>1. o + 1 \in o + 1 .. n /\ o + 1 < a /\ o + 1 \in 1 .. n
      BY <1>1, <1>2, <2>1
    <3>2. Covers(toks, o, o + 1)
      BY <1>2, <3>1
    <3>3. QED
      BY <1>3, <1>5, <3>1, <3>2
  <2>2. QED
    BY <2>1
<1>6. ASSUME K # {} PROVE o + 1 \in K /\ Rank(K, o + 1) = 1
  <2>1. o + 1 \in K
    BY <1>3, <1>4, <1>6
  <2>2. K \in SUBSET (1 .. n)
    BY KidsAre
  <2>3. QED
    BY <1>1, <1>4, <2>1, <2>2, Ranks
<1>7. QED
  BY <1>5, <1>6 DEF a

\* After a member and all it covers comes the next member, or what comes after the
\* container.
LEMMA NextKid ==
  ASSUME NEW toks, Tree(toks), NEW o \in 1 .. Len(toks), NEW K, K = Kids(toks, o), NEW x \in K,
         NEW a, a = After(toks, x)
  PROVE  /\ Rank(K, x) < toks[o].size => a \in K /\ Rank(K, a) = Rank(K, x) + 1
         /\ Rank(K, x) = toks[o].size => a = After(toks, o)
<1> DEFINE n == Len(toks)
<1>1. n \in Nat /\ o \in 1 .. n
  BY TreeNumbers
<1>2. K \in SUBSET (1 .. n) /\ toks[o].size = Cardinality(K)
  BY KidsAre
<1>3. /\ x \in 1 .. n /\ Covers(toks, o, x) /\ o < x
      /\ \A k \in 1 .. n : o < k => ~ Covers(toks, k, x)
  <2>1. x \in 1 .. n
    BY <1>2
  <2>2. Covers(toks, o, x) /\ \A k \in 1 .. n : o < k => ~ Covers(toks, k, x)
    BY <2>1, KidsAre
  <2>3. QED
    BY <2>1, <2>2 DEF Covers
<1>4. a \in x + 1 .. n + 1 /\ \A j \in x + 1 .. n : Covers(toks, x, j) <=> j < a
  BY <1>3, AfterIs DEF IsAfter
\* No member lies between x and a.
<1>5. ASSUME NEW y \in K, x < y PROVE a <= y
  <2>1. y \in 1 .. n
    BY <1>2
  <2>2. ~ Covers(toks, x, y)
    BY <1>3, <2>1, KidsAre
  <2>3. y \in x + 1 .. n
    BY <1>1, <1>3, <1>5, <2>1
  <2>4. ~ (y < a)
    BY <1>4, <2>2, <2>3
  <2>5. QED
    BY <1>1, <1>4, <2>1, <2>4
\* If the container still covers a, then a is its member.
<1>6. ASSUME a \in 1 .. n, Covers(toks, o, a) PROVE a \in K
  <2>1. ASSUME NEW k \in 1 .. n, o < k, Covers(toks, k, a) PROVE FALSE
    <3>1. k < a
      BY <2>1 DEF Covers
    <3>2. CASE k < x
      <4>1. x <= a
        BY <1>1, <1>3, <1>4
      <4>2. Covers(toks, k, x)
        BY <1>3, <1>6, <2>1, <3>2, <4>1, CoversMore
      <4>3. QED
        BY <1>3, <2>1, <4>2
    <3>3. CASE k >= x
      <4>1. ~ Covers(toks, x, a)
        BY <1>1, <1>3, <1>4, <1>6
      <4>2. CASE k = x
        BY <2>1, <4>1, <4>2
      <4>3. CASE k > x
        <5>1. Covers(toks, x, k)
          BY <1>1, <1>3, <1>4, <3>1, <4>3
        <5>2. QED
          BY <1>3, <1>6, <2>1, <4>1, <5>1, CoversMore
      <4>4. QED
        BY <1>1, <1>3, <3>3, <4>2, <4>3
    <3>4. QED
      BY <1>1, <1>3, <3>2, <3>3
  <2>2. QED
    BY <1>6, <2>1, KidsAre
<1>7. ASSUME Rank(K, x) < toks[o].size PROVE a \in K /\ Rank(K, a) = Rank(K, x) + 1
  <2>1. PICK y \in K : ~ (y <= x)
    <3>1. Rank(K, x) # Cardinality(K)
      <4>1. Cardinality(K) \in Nat /\ Rank(K, x) \in 1 .. Cardinality(K)
        <5>1. toks[o].size \in Nat
          BY TreeNumbers
        <5>2. QED
          BY <1>1, <1>2, <5>1, Ranks
      <4>2. QED
        BY <1>2, <1>7, <4>1
    <3>2. QED
      BY <1>1, <1>2, <3>1, Ranks
  <2>2. x < y /\ y \in 1 .. n /\ a <= y
    BY <1>2, <1>3, <1>5, <2>1
  <2>3. a \in 1 .. n /\ o < a
    BY <1>1, <1>3, <1>4, <2>2
  <2>4. Covers(toks, o, y)
    BY <1>1, <2>1, <2>2, KidsAre
  <2>5. Covers(toks, o, a)
    BY <1>1, <2>2, <2>3, <2>4, CoversMore
  <2>6. a \in K
    BY <1>6, <2>3, <2>5
  <2>7. x < a
    BY <1>1, <1>3, <1>4
  <2>8. QED
    BY <1>1, <1>2, <1>5, <2>6, <2>7, Ranks
<1>8. ASSUME Rank(K, x) = toks[o].size PROVE a = After(toks, o)
  <2> DEFINE e == After(toks, o)
  <2>1. e \in o + 1 .. n + 1 /\ \A j \in o + 1 .. n : Covers(toks, o, j) <=> j < e
    BY AfterIs DEF IsAfter
  <2>2. \A y \in K : y <= x
    BY <1>1, <1>2, <1>8, Ranks
  <2> HIDE DEF e
  <2>3. ~ (a < e)
    <3>1. ASSUME a < e PROVE FALSE
      <4>1. a \in 1 .. n /\ a \in o + 1 .. n /\ x < a
        BY <1>1, <1>3, <1>4, <2>1, <3>1
      <4>2. Covers(toks, o, a)
        BY <2>1, <3>1, <4>1
      <4>3. a \in K
        BY <1>6, <4>1, <4>2
      <4>4. a <= x
        BY <2>2, <4>3
      <4>5. QED
        BY <1>3, <4>1, <4>4
    <3>2. QED
      BY <3>1
  <2>4. ~ (e < a)
    <3>1. ASSUME e < a PROVE FALSE
      <4>1. e \in 1 .. n /\ e \in o + 1 .. n
        BY <1>1, <1>4, <2>1, <3>1
      <4>2. ~ Covers(toks, o, e)
        BY <2>1, <4>1
      <4>3. CASE e <= x
        BY <1>1, <1>3, <2>1, <4>1, <4>2, <4>3, CoversMore
      <4>4. CASE e > x
        <5>1. e \in x + 1 .. n
          BY <1>1, <1>3, <4>1, <4>4
        <5>2. Covers(toks, x, e)
          BY <1>4, <3>1, <5>1
        <5>3. QED
          BY <1>1, <1>3, <4>1, <4>2, <5>2, CoversMore
      <4>5. QED
        BY <1>1, <1>3, <4>1, <4>3, <4>4
    <3>2. QED
      BY <3>1
  <2>5. a \in Int /\ e \in Int
    BY <1>1, <1>3, <1>4, <2>1
  <2>6. a = e
    BY <2>3, <2>4, <2>5
  <2>7. QED
    BY <2>6 DEF e
<1>9. QED
  BY <1>7, <1>8

-------------------------------------------------------------------------------
(* skip_item *)

\* The loop of skip_item at token k, if f is what the inner calls return.
WalkEq(f, k, g) == g = [n \in 0 .. NumTokens |-> IF n = 0 THEN k + 1 ELSE f[g[n - 1]]]

Walk(f, k) == CHOOSE g : WalkEq(f, k, g)

SkipEq(toks, f) == f = [k \in 1 .. NumTokens + 1 |-> Walk(f, k)[Slot(toks, k).size]]

\* skip_item is a solution of that equation.
LEMMA SkipItemIs ==
  ASSUME NEW toks, NEW i PROVE SkipItem(toks, i) = (CHOOSE f : SkipEq(toks, f))[i]
BY DEF SkipItem, SkipEq, Walk, WalkEq

\* The loop is well defined.
LEMMA WalkIs ==
  ASSUME NEW f, NEW k
  PROVE  /\ Walk(f, k)[0] = k + 1
         /\ \A n \in 1 .. NumTokens : Walk(f, k)[n] = f[Walk(f, k)[n - 1]]
<1> DEFINE N == NumTokens
<1> DEFINE To(m, g) == g[0] = k + 1 /\ \A n \in 1 .. N : n <= m => g[n] = f[g[n - 1]]
<1> DEFINE S == {m \in 0 .. N : \E g : To(m, g)}
<1>1. N \in Nat
  BY JsmnAssumption
<1> HIDE DEF N
<1>2. 0 \in S
  <2> DEFINE g == [n \in 0 .. N |-> k + 1]
  <2>1. 0 \in 0 .. N /\ g[0] = k + 1 /\ \A n \in 1 .. N : ~ (n <= 0)
    BY <1>1
  <2> HIDE DEF g
  <2>2. To(0, g)
    BY <2>1
  <2> HIDE DEF To
  <2>3. QED
    BY <2>1, <2>2
<1>3. ASSUME NEW m \in 1 .. N, m - 1 \in S PROVE m \in S
  <2>1. PICK h : To(m - 1, h)
    BY <1>3
  <2> DEFINE g == [n \in 0 .. N |-> IF n < m THEN h[n] ELSE f[h[m - 1]]]
  <2>2. \A n \in 0 .. N : g[n] = IF n < m THEN h[n] ELSE f[h[m - 1]]
    OBVIOUS
  <2> HIDE DEF g
  <2>3. g[0] = k + 1
    <3>1. 0 \in 0 .. N /\ 0 < m
      BY <1>1
    <3>2. QED
      BY <2>1, <2>2, <3>1
  <2>4. ASSUME NEW n \in 1 .. N, n <= m PROVE g[n] = f[g[n - 1]]
    <3>1. n \in 0 .. N /\ n - 1 \in 0 .. N /\ n - 1 < m
      BY <1>1, <2>4
    <3>2. g[n - 1] = h[n - 1]
      BY <2>2, <3>1
    <3>3. CASE n < m
      <4>1. n <= m - 1
        BY <3>3
      <4>2. g[n] = h[n] /\ h[n] = f[h[n - 1]]
        BY <2>1, <2>2, <3>1, <3>3, <4>1
      <4>3. QED
        BY <3>2, <4>2
    <3>4. CASE ~ (n < m)
      <4>1. n = m /\ n - 1 = m - 1
        BY <2>4, <3>4
      <4>2. g[n] = f[h[n - 1]]
        BY <2>2, <3>1, <3>4, <4>1
      <4>3. QED
        BY <3>2, <4>2
    <3>5. QED
      BY <3>3, <3>4
  <2>5. To(m, g)
    BY <2>3, <2>4
  <2>6. m \in 0 .. N
    BY <1>1
  <2> HIDE DEF To
  <2>7. QED
    BY <2>5, <2>6
<1>4. \A m \in 0 .. N : m \in S
  <2> HIDE DEF S
  <2>1. QED
    BY <1>1, <1>2, <1>3, Upwards
<1>5. PICK h : To(N, h)
  <2>1. N \in S
    BY <1>1, <1>4
  <2>2. QED
    BY <2>1
<1> DEFINE g == [n \in 0 .. N |-> h[n]]
<1>6. WalkEq(f, k, g)
  <2>1. \A n \in 0 .. N : g[n] = h[n]
    OBVIOUS
  <2>2. ASSUME NEW n \in 0 .. N PROVE g[n] = IF n = 0 THEN k + 1 ELSE f[g[n - 1]]
    <3>1. CASE n = 0
      BY <1>5, <2>1, <3>1
    <3>2. CASE n # 0
      <4>1. n \in 1 .. N /\ n - 1 \in 0 .. N /\ n <= N
        BY <1>1, <3>2
      <4>2. g[n] = h[n] /\ g[n - 1] = h[n - 1] /\ h[n] = f[h[n - 1]]
        BY <1>5, <2>1, <4>1
      <4>3. QED
        BY <3>2, <4>2
    <3>3. QED
      BY <3>1, <3>2
  <2>3. g = [n \in 0 .. N |-> IF n = 0 THEN k + 1 ELSE f[g[n - 1]]]
    BY <2>2
  <2> HIDE DEF g
  <2>4. QED
    BY <2>3 DEF WalkEq, N
<1> DEFINE w == Walk(f, k)
<1>7. WalkEq(f, k, w)
  BY <1>6 DEF Walk
<1> HIDE DEF w
<1>8. \A n \in 0 .. N : w[n] = IF n = 0 THEN k + 1 ELSE f[w[n - 1]]
  BY <1>7 DEF WalkEq, N
<1>9. w[0] = k + 1 /\ \A n \in 1 .. N : w[n] = f[w[n - 1]]
  BY <1>1, <1>8
<1>10. QED
  BY <1>9 DEF w, N

\* If the inner calls skip the members, the loop goes from one member to the next and
\* ends after the container.
LEMMA WalkSkips ==
  ASSUME NEW toks, Tree(toks), NEW o \in 1 .. Len(toks), NEW f,
         \A j \in 1 .. Len(toks) : o < j => f[j] = After(toks, j)
  PROVE  Walk(f, o)[toks[o].size] = After(toks, o)
<1> DEFINE n == Len(toks)
<1> DEFINE K == Kids(toks, o)
<1> DEFINE s == toks[o].size
<1> DEFINE w == Walk(f, o)
<1>1. n \in Nat /\ n <= NumTokens /\ NumTokens \in Nat /\ o \in 1 .. n /\ s \in Nat
  BY TreeNumbers
<1>2. K \in SUBSET (1 .. n) /\ s = Cardinality(K) /\ \A j \in K : o < j
  <2>1. K \in SUBSET (1 .. n) /\ s = Cardinality(K)
    BY KidsAre
  <2>2. \A j \in K : Covers(toks, o, j)
    BY <2>1, KidsAre
  <2>3. QED
    BY <2>1, <2>2 DEF Covers
<1>3. IsFiniteSet(K)
  BY KidsFinite DEF Tree
<1>4. s <= n
  <2>1. IsFiniteSet(1 .. n) /\ Cardinality(1 .. n) = n
    <3> HIDE DEF n
    <3>1. n \in Int /\ 1 \in Int /\ (IF 1 > n THEN 0 ELSE n - 1 + 1) = n
      BY <1>1
    <3>2. QED
      BY <3>1, FS_Interval
  <2> HIDE DEF K, s
  <2>2. QED
    BY <1>2, <2>1, FS_Subset
<1>5. w[0] = o + 1 /\ \A m \in 1 .. NumTokens : w[m] = f[w[m - 1]]
  BY WalkIs
<1>6. K = {} => After(toks, o) = o + 1
  BY FirstKid
<1>7. K # {} => o + 1 \in K /\ Rank(K, o + 1) = 1
  BY FirstKid
<1>8. ASSUME NEW x \in K
      PROVE  /\ f[x] = After(toks, x)
             /\ Rank(K, x) < s => f[x] \in K /\ Rank(K, f[x]) = Rank(K, x) + 1
             /\ Rank(K, x) = s => f[x] = After(toks, o)
  <2>1. x \in 1 .. n /\ o < x
    BY <1>2
  <2>2. f[x] = After(toks, x)
    BY <2>1
  <2>3. QED
    BY <2>2, NextKid
<1> HIDE DEF w, K, s, n
<1>9. CASE s = 0
  <2>1. K = {}
    BY <1>2, <1>3, <1>9, FS_EmptySet
  <2>2. QED
    BY <1>5, <1>6, <1>9, <2>1 DEF w, s
<1>10. CASE s # 0
  <2> DEFINE S == {m \in 0 .. s - 1 : w[m] \in K /\ Rank(K, w[m]) = m + 1}
  <2>1. K # {}
    BY <1>2, <1>10, FS_EmptySet
  <2>2. 0 \in S
    BY <1>1, <1>5, <1>7, <1>10, <2>1
  <2>3. ASSUME NEW m \in 1 .. s - 1, m - 1 \in S PROVE m \in S
    <3>1. w[m - 1] \in K /\ Rank(K, w[m - 1]) = m
      BY <1>1, <2>3
    <3>2. m \in 1 .. NumTokens /\ m < s /\ m \in 0 .. s - 1
      BY <1>1, <1>4
    <3>3. w[m] = f[w[m - 1]]
      BY <1>5, <3>2
    <3>4. QED
      BY <1>8, <3>1, <3>2, <3>3
  <2>4. s - 1 \in Nat
    BY <1>1, <1>10
  <2>5. \A m \in 0 .. s - 1 : m \in S
    <3> HIDE DEF S
    <3>1. QED
      BY <2>2, <2>3, <2>4, Upwards
  <2>6. w[s - 1] \in K /\ Rank(K, w[s - 1]) = s
    BY <1>1, <2>4, <2>5
  <2>7. s \in 1 .. NumTokens
    BY <1>1, <1>4, <1>10
  <2>8. w[s] = After(toks, o)
    BY <1>5, <1>8, <2>6, <2>7
  <2>9. QED
    BY <2>8 DEF w, s
<1>11. QED
  BY <1>9, <1>10

\* Behind the last token there are only free slots, which skip_item steps over.
LEMMA SlotIs ==
  ASSUME NEW toks, Tree(toks), NEW k \in Nat
  PROVE  /\ k <= Len(toks) => Slot(toks, k) = toks[k]
         /\ k > Len(toks) => Slot(toks, k).size = 0 /\ Slot(toks, k).type = "PRIMITIVE" /\ Slot(toks, k).start = -1
BY TreeNumbers DEF Slot, Token

\* skip_item returns the token after the item and all its members, however they are
\* nested.
LEMMA SkipItemSkips ==
  ASSUME NEW toks, Tree(toks), NEW i \in 1 .. Len(toks)
  PROVE  SkipItem(toks, i) = After(toks, i)
<1> DEFINE n == Len(toks)
<1> DEFINE N == NumTokens + 1
<1>1. n \in Nat /\ n < N /\ N \in Nat /\ i \in 1 .. n
  BY TreeNumbers
<1> DEFINE f == [k \in 1 .. N |-> IF k <= n THEN After(toks, k) ELSE k + 1]
<1>2. \A k \in 1 .. N : f[k] = IF k <= n THEN After(toks, k) ELSE k + 1
  OBVIOUS
<1>3. SkipEq(toks, f)
  <2>1. f = [k \in 1 .. N |-> f[k]]
    OBVIOUS
  <2> HIDE DEF f
  <2>2. ASSUME NEW k \in 1 .. N PROVE Walk(f, k)[Slot(toks, k).size] = f[k]
    <3>1. CASE k <= n
      <4>1. k \in 1 .. n
        BY <1>1, <3>1
      <4>2. \A j \in 1 .. n : k < j => f[j] = After(toks, j)
        BY <1>1, <1>2
      <4>3. Slot(toks, k) = toks[k]
        BY <4>1, SlotIs
      <4>4. QED
        BY <1>2, <3>1, <4>1, <4>2, <4>3, WalkSkips
    <3>2. CASE ~ (k <= n)
      <4>1. Slot(toks, k).size = 0
        BY <1>1, <3>2, SlotIs
      <4>2. QED
        BY <1>2, <3>2, <4>1, WalkIs
    <3>3. QED
      BY <3>1, <3>2
  <2>3. f = [k \in 1 .. N |-> Walk(f, k)[Slot(toks, k).size]]
    BY <2>1, <2>2
  <2>4. QED
    BY <2>3 DEF SkipEq
<1> HIDE DEF f
<1> DEFINE F == CHOOSE g : SkipEq(toks, g)
<1>4. SkipEq(toks, F)
  BY <1>3
<1>5. SkipItem(toks, i) = F[i]
  BY SkipItemIs
<1> HIDE DEF F
<1> DEFINE S == {k \in 1 .. n : F[k] = After(toks, k)}
<1>6. ASSUME NEW k \in 1 .. n, \A j \in 1 .. n : k < j => j \in S PROVE k \in S
  <2>1. \A j \in 1 .. n : k < j => F[j] = After(toks, j)
    BY <1>6
  <2>2. k \in 1 .. N /\ k \in Nat /\ k <= n
    BY <1>1
  <2>3. F[k] = Walk(F, k)[Slot(toks, k).size]
    BY <1>4, <2>2 DEF SkipEq
  <2>4. Slot(toks, k) = toks[k]
    BY <2>2, SlotIs
  <2>5. F[k] = After(toks, k)
    BY <2>1, <2>3, <2>4, WalkSkips
  <2>6. QED
    BY <2>5
<1>7. \A k \in 1 .. n : k \in S
  <2> HIDE DEF S
  <2>1. QED
    BY <1>1, <1>6, Downwards
<1>8. QED
  BY <1>5, <1>7

-------------------------------------------------------------------------------
(* Strings and primitives *)

LeafTypes == {"STRING", "PRIMITIVE"}

\* Strings and primitives are closed, everything after them begins beyond their end,
\* and no token ends where the text of a string begins.
Leaves(toks) ==
  \A i \in DOMAIN toks :
    /\ toks[i].type \in LeafTypes => toks[i].end # -1 /\ toks[i].start <= toks[i].end
    /\ \A j \in DOMAIN toks : i < j =>
         /\ toks[i].type \in LeafTypes => toks[i].end < toks[j].start
         /\ toks[j].type = "STRING" => toks[i].end # toks[j].start

\* Every string and primitive has its end before front.
Ended(toks, front) == \A i \in DOMAIN toks : toks[i].type \in LeafTypes => toks[i].end < front

\* A token is added.
LEMMA LeavesGrow ==
  ASSUME NEW toks \in Seq(Tok), NEW s \in 0 .. Len(toks), NEW t \in Tok, NEW g, g = Grow(toks, s, t),
         NEW front \in Nat, Placed(toks, front), Leaves(toks), Ended(toks, t.start),
         t.type \in LeafTypes => t.end # -1 /\ t.start <= t.end,
         t.type = "STRING" => front < t.start,
         NEW next \in Nat, t.start < next, t.type \in LeafTypes => t.end < next
  PROVE  Leaves(g) /\ Ended(g, next) /\ Len(g) = Len(toks) + 1
<1> DEFINE n == Len(toks)
<1>1. n \in Nat /\ DOMAIN toks = 1 .. n /\ \A i \in 1 .. n : toks[i] \in Tok
  OBVIOUS
<1>2. /\ g \in Seq(Tok) /\ Len(g) = n + 1 /\ g[n + 1] = t
      /\ \A i \in 1 .. n : g[i].start = toks[i].start /\ g[i].end = toks[i].end /\ g[i].type = toks[i].type
  <2>1. IsGrown(g, toks, s, t)
    BY GrownTokens
  <2>2. QED
    BY <2>1 DEF IsGrown
<1>3. DOMAIN g = 1 .. n + 1
  BY <1>2
<1>4. \A i \in 1 .. n : toks[i].start \in Nat /\ toks[i].end \in Int /\ toks[i].end <= front
  <2>1. \A i \in 1 .. n : toks[i].start \in Nat /\ toks[i].end \in Int
    BY <1>1 DEF Tok
  <2>2. QED
    BY <1>1, <2>1 DEF Placed
<1>5. t.start \in Nat /\ t.end \in Int
  BY DEF Tok
<1>6. \A i \in 1 .. n : toks[i].type \in LeafTypes => toks[i].end < t.start
  BY <1>1 DEF Ended
<1>7. ASSUME NEW i \in 1 .. n + 1
      PROVE  /\ g[i].type \in LeafTypes => g[i].end # -1 /\ g[i].start <= g[i].end
             /\ g[i].type \in LeafTypes => g[i].end < next
  <2>1. CASE i \in 1 .. n
    <3>1. toks[i].type \in LeafTypes => toks[i].end # -1 /\ toks[i].start <= toks[i].end
      BY <1>1, <2>1 DEF Leaves
    <3>2. toks[i].end \in Int /\ (toks[i].end < t.start => toks[i].end < next)
      BY <1>4, <1>5, <2>1
    <3>3. QED
      BY <1>2, <1>6, <2>1, <3>1, <3>2
  <2>2. CASE i = n + 1
    BY <1>2, <2>2
  <2>3. QED
    BY <1>1, <2>1, <2>2
<1>8. ASSUME NEW i \in 1 .. n + 1, NEW j \in 1 .. n + 1, i < j
      PROVE  /\ g[i].type \in LeafTypes => g[i].end < g[j].start
             /\ g[j].type = "STRING" => g[i].end # g[j].start
  <2>1. i \in 1 .. n
    BY <1>1, <1>8
  <2>2. CASE j \in 1 .. n
    <3>1. /\ toks[i].type \in LeafTypes => toks[i].end < toks[j].start
          /\ toks[j].type = "STRING" => toks[i].end # toks[j].start
      BY <1>1, <1>8, <2>1, <2>2 DEF Leaves
    <3>2. QED
      BY <1>2, <2>1, <2>2, <3>1
  <2>3. CASE j = n + 1
    <3>1. g[j].start = t.start /\ g[j].type = t.type /\ g[i].end = toks[i].end /\ g[i].type = toks[i].type
      BY <1>2, <2>1, <2>3
    <3>2. front < t.start => toks[i].end # t.start
      BY <1>4, <1>5, <2>1
    <3>3. QED
      BY <1>6, <2>1, <3>1, <3>2
  <2>4. QED
    BY <1>1, <2>2, <2>3
<1>9. QED
  BY <1>2, <1>3, <1>7, <1>8 DEF Leaves, Ended

\* A container is closed.
Closed(toks, i, e) == [toks EXCEPT ![i].end = e]

\* A container is closed.
LEMMA LeavesClose ==
  ASSUME NEW toks \in Seq(Tok), NEW front \in Nat, Placed(toks, front), Leaves(toks), Ended(toks, front + 1),
         NEW i \in 1 .. Len(toks), toks[i].end = -1, NEW g, g = Closed(toks, i, front + 1)
  PROVE  Leaves(g) /\ Ended(g, front + 1) /\ Len(g) = Len(toks)
<1> DEFINE n == Len(toks)
<1>1. n \in Nat /\ DOMAIN toks = 1 .. n /\ i \in 1 .. n /\ \A k \in 1 .. n : toks[k] \in Tok
  OBVIOUS
<1>2. /\ g \in Seq(Tok) /\ Len(g) = n
      /\ g[i].end = front + 1 /\ g[i].start = toks[i].start /\ g[i].type = toks[i].type
      /\ \A k \in 1 .. n : k # i => g[k] = toks[k]
  <2>1. front + 1 \in Nat /\ g = [toks EXCEPT ![i].end = front + 1]
    BY DEF Closed
  <2>2. QED
    BY <2>1, ClosedTokens
<1>3. DOMAIN g = 1 .. n
  BY <1>2
<1>4. \A k \in 1 .. n : toks[k].start \in Nat /\ toks[k].start <= front
  <2>1. \A k \in 1 .. n : toks[k].start \in Nat
    BY <1>1 DEF Tok
  <2>2. QED
    BY <1>1, <2>1 DEF Placed
<1>5. g[i].type \notin LeafTypes
  BY <1>1, <1>2 DEF Leaves, LeafTypes
<1>6. ASSUME NEW k \in 1 .. n
      PROVE  /\ g[k].type \in LeafTypes => g[k].end # -1 /\ g[k].start <= g[k].end
             /\ g[k].type \in LeafTypes => g[k].end < front + 1
  <2>1. CASE k = i
    BY <1>5, <2>1
  <2>2. CASE k # i
    <3>1. g[k] = toks[k]
      BY <1>2, <2>2
    <3>2. /\ toks[k].type \in LeafTypes => toks[k].end # -1 /\ toks[k].start <= toks[k].end
          /\ toks[k].type \in LeafTypes => toks[k].end < front + 1
      BY <1>1 DEF Leaves, Ended
    <3>3. QED
      BY <3>1, <3>2
  <2>3. QED
    BY <2>1, <2>2
<1>7. ASSUME NEW k \in 1 .. n, NEW j \in 1 .. n, k < j
      PROVE  /\ g[k].type \in LeafTypes => g[k].end < g[j].start
             /\ g[j].type = "STRING" => g[k].end # g[j].start
  <2>1. g[j].start = toks[j].start /\ g[j].type = toks[j].type
    BY <1>2
  <2>2. CASE k = i
    <3>1. g[k].end # g[j].start
      BY <1>2, <1>4, <2>1, <2>2
    <3>2. QED
      BY <1>5, <2>2, <3>1
  <2>3. CASE k # i
    <3>1. g[k] = toks[k]
      BY <1>2, <2>3
    <3>2. QED
      BY <1>1, <1>7, <2>1, <3>1 DEF Leaves
  <2>4. QED
    BY <2>2, <2>3
<1>8. QED
  BY <1>2, <1>3, <1>6, <1>7 DEF Leaves, Ended

\* Reading on does no harm.
LEMMA EndedFurther ==
  ASSUME NEW toks \in Seq(Tok), NEW front \in Nat, NEW next \in Nat, front <= next, Ended(toks, front)
  PROVE  Ended(toks, next)
<1>1. \A i \in DOMAIN toks : toks[i] \in Tok
  OBVIOUS
<1>2. \A i \in DOMAIN toks : toks[i].end \in Int
  BY <1>1 DEF Tok
<1>3. QED
  BY <1>2 DEF Ended

\* The first p characters hold no zero.
NoZero(text, p) == \A k \in 1 .. p : text[k] # NUL

\* What ParserInv leaves out: where strings and primitives lie, that there is room for
\* the tokens, and that the body ends at its first zero.  A primitive ends at the
\* position to which the parser has read only if a delimiter is there, with which no
\* token begins.
LeafInv ==
  /\ mode \in Scanning \cup {"SUCCESS"} => Leaves(tokens) /\ Len(tokens) <= NumTokens /\ NoZero(js, pos)
  /\ mode \in Scanning \ {"value"} => Ended(tokens, start)
  /\ mode = "value" => Ended(tokens, pos) \/ (pos < Len(js) /\ js[pos + 1] \in Delimiters /\ Ended(tokens, pos + 1))
  /\ mode = "SUCCESS" => pos < Len(js) /\ Placed(tokens, pos)

\* jsmn_init.
LEMMA LeafStarts == ASSUME ParserInit PROVE LeafInv
<1>1. tokens = <<>> /\ pos = 0 /\ mode = "value" /\ NumTokens \in Nat
  BY JsmnAssumption DEF ParserInit
<1>2. DOMAIN tokens = {} /\ Len(tokens) = 0
  BY <1>1
<1>3. Leaves(tokens) /\ Ended(tokens, pos)
  BY <1>2 DEF Leaves, Ended
<1>4. NoZero(js, pos)
  BY <1>1 DEF NoZero
<1>5. QED
  BY <1>1, <1>2, <1>3, <1>4 DEF LeafInv

\* A zero is not read over.
LEMMA ReadText ==
  ASSUME NEW c \in Chars \cup {NUL}, Reading(c), js \in Seq(Chars \cup {NUL}), pos \in Nat, pos <= Len(js),
         NoZero(js, pos)
  PROVE  NoZero(js', pos) /\ (c # NUL => NoZero(js', pos + 1))
<1>1. Len(js) \in Nat
  OBVIOUS
<1>2. \A k \in 1 .. pos : js'[k] = js[k]
  <2>1. CASE pos < Len(js)
    BY <2>1 DEF Reading
  <2>2. CASE ~ (pos < Len(js))
    <3>1. js' = Append(js, c)
      BY <2>2 DEF Reading
    <3>2. \A k \in 1 .. Len(js) : Append(js, c)[k] = js[k]
      BY AppendProperties
    <3>3. QED
      BY <1>1, <3>1, <3>2
  <2>3. QED
    BY <2>1, <2>2
<1>3. js'[pos + 1] = c
  BY ReadCharacter
<1>4. QED
  BY <1>2, <1>3 DEF NoZero

\* Only the end of the body is a zero.
LEMMA CharNotZero == ASSUME NEW c \in Chars PROVE c # NUL
BY JsmnAssumption DEF Chars, Marks, NUL

\* What the two invariants say while a body is read.
LEMMA LeafScanning ==
  ASSUME ParserInv, LeafInv, mode \in Scanning
  PROVE  /\ js \in Seq(Chars \cup {NUL}) /\ pos \in Nat /\ start \in Nat /\ pos <= Len(js) /\ start <= pos
         /\ tokens \in Seq(Tok) /\ Len(tokens) \in Nat /\ Len(tokens) <= NumTokens /\ NumTokens \in Nat
         /\ toksuper = LastOpen(tokens) /\ toksuper \in 0 .. Len(tokens)
         /\ Leaves(tokens) /\ NoZero(js, pos)
         /\ mode = "value" => Placed(tokens, pos)
         /\ mode # "value" => Placed(tokens, start) /\ Ended(tokens, start)
<1>1. /\ js \in Seq(Chars \cup {NUL}) /\ pos \in Nat /\ start \in Nat /\ pos <= Len(js) /\ start <= pos
      /\ TreeAt(tokens, toksuper, ReadTo)
  BY DEF ParserInv
<1>2. tokens \in Seq(Tok) /\ toksuper = LastOpen(tokens) /\ Placed(tokens, ReadTo)
  BY <1>1 DEF TreeAt
<1>3. toksuper \in 0 .. Len(tokens) /\ Len(tokens) \in Nat
  BY <1>2, LastOpenIs
<1>4. /\ Len(tokens) <= NumTokens /\ NoZero(js, pos) /\ Leaves(tokens)
      /\ mode # "value" => Ended(tokens, start)
  BY DEF LeafInv, Scanning
<1>5. QED
  BY <1>1, <1>2, <1>3, <1>4, JsmnAssumption DEF ReadTo

\* No string or primitive reaches the position from which the next token begins.
LEMMA ReadPast ==
  ASSUME ParserInv, LeafInv, mode = "value", NEW c \in Chars \cup {NUL}, Reading(c)
  PROVE  Ended(tokens, pos + 1) /\ (c \notin Delimiters => Ended(tokens, pos))
<1>1. /\ js \in Seq(Chars \cup {NUL}) /\ pos \in Nat /\ pos <= Len(js) /\ tokens \in Seq(Tok)
  BY LeafScanning DEF Scanning
<1>2. pos < Len(js) => js[pos + 1] = c
  BY <1>1, ReadCharacter
<1>3. Ended(tokens, pos) \/ (pos < Len(js) /\ js[pos + 1] \in Delimiters /\ Ended(tokens, pos + 1))
  BY DEF LeafInv
<1>4. Ended(tokens, pos) => Ended(tokens, pos + 1)
  BY <1>1, EndedFurther
<1>5. QED
  BY <1>2, <1>3, <1>4

\* '{' and '['.
LEMMA OpenLeaves == ASSUME ParserInv, LeafInv, NEW c \in Chars, Open(c) PROVE LeafInv'
<1>1. mode = "value" /\ Reading(c) /\ c \in {"{", "["}
  BY DEF Open
<1>2. /\ js \in Seq(Chars \cup {NUL}) /\ pos \in Nat /\ pos <= Len(js)
      /\ tokens \in Seq(Tok) /\ Len(tokens) \in Nat /\ Len(tokens) <= NumTokens /\ NumTokens \in Nat
      /\ toksuper \in 0 .. Len(tokens) /\ NoZero(js, pos) /\ Placed(tokens, pos) /\ Leaves(tokens)
  BY <1>1, LeafScanning DEF Scanning
<1>3. NoZero(js', pos + 1)
  BY <1>1, <1>2, CharNotZero, ReadText
<1>4. Ended(tokens, pos)
  <2>1. c \notin Delimiters
    BY <1>1 DEF Delimiters, NUL
  <2>2. QED
    BY <1>1, <2>1, ReadPast
<1>5. CASE Len(tokens) = NumTokens
  BY <1>5 DEF Open, LeafInv, Scanning
<1>6. CASE Len(tokens) # NumTokens
  <2> DEFINE type == IF c = "{" THEN "OBJECT" ELSE "ARRAY"
  <2> DEFINE t == Token(type, pos, -1)
  <2>1. type \in Types /\ type \notin LeafTypes /\ type # "STRING"
    BY DEF Types, LeafTypes
  <2>2. tokens' = Grow(tokens, toksuper, t) /\ pos' = pos + 1 /\ mode' = "value"
    BY <1>1, <1>6 DEF Open, Grow, Counted
  <2> HIDE DEF type
  <2>3. ASSUME NEW to \in Nat \cup {-1}, to = -1
        PROVE  LET u == Token(type, pos, to) IN u \in Tok /\ u.start = pos /\ u.type = type
    BY <1>2, <2>1, TokenIs
  <2>4. -1 \in Nat \cup {-1}
    OBVIOUS
  <2>5. t \in Tok /\ t.start = pos /\ t.type = type
    BY <2>3, <2>4
  <2> HIDE DEF t
  <2>6. Leaves(tokens') /\ Ended(tokens', pos + 1) /\ Len(tokens') = Len(tokens) + 1
    <3>1. pos + 1 \in Nat /\ t.start < pos + 1 /\ Ended(tokens, t.start) /\ t.type \notin LeafTypes /\ t.type # "STRING"
      BY <1>2, <1>4, <2>1, <2>5
    <3>2. QED
      BY <1>2, <2>2, <2>5, <3>1, LeavesGrow
  <2>7. Len(tokens') <= NumTokens
    BY <1>2, <1>6, <2>6
  <2>8. QED
    BY <1>3, <2>2, <2>6, <2>7 DEF LeafInv, Scanning
<1>7. QED
  BY <1>5, <1>6

\* '}' and ']'.
LEMMA CloseLeaves == ASSUME ParserInv, LeafInv, NEW c \in Chars, Close(c) PROVE LeafInv'
<1>1. mode = "value" /\ Reading(c)
  BY DEF Close
<1>2. /\ js \in Seq(Chars \cup {NUL}) /\ pos \in Nat /\ pos <= Len(js)
      /\ tokens \in Seq(Tok) /\ Len(tokens) \in Nat /\ Len(tokens) <= NumTokens
      /\ toksuper \in 0 .. Len(tokens) /\ toksuper = LastOpen(tokens)
      /\ NoZero(js, pos) /\ Placed(tokens, pos) /\ Leaves(tokens)
  BY <1>1, LeafScanning DEF Scanning
<1>3. NoZero(js', pos + 1) /\ Ended(tokens, pos + 1)
  BY <1>1, <1>2, CharNotZero, ReadText, ReadPast
<1> DEFINE bad == toksuper = 0 \/ tokens[toksuper].type # (IF c = "}" THEN "OBJECT" ELSE "ARRAY")
<1>4. CASE bad
  <2>1. mode' = "INVAL"
    BY <1>2, <1>4 DEF Close
  <2>2. QED
    BY <2>1 DEF LeafInv, Scanning
<1>5. CASE ~ bad
  <2>1. tokens' = Closed(tokens, toksuper, pos + 1) /\ pos' = pos + 1 /\ mode' = "value"
    BY <1>1, <1>2, <1>5 DEF Close, Closed
  <2>2. toksuper \in 1 .. Len(tokens)
    <3>1. toksuper # 0
      BY <1>5
    <3> HIDE DEF bad
    <3>2. QED
      BY <1>2, <3>1
  <2>3. tokens[toksuper].end = -1
    BY <1>2, <2>2, LastOpenIs
  <2>4. Leaves(tokens') /\ Ended(tokens', pos + 1) /\ Len(tokens') = Len(tokens)
    BY <1>2, <1>3, <2>1, <2>2, <2>3, LeavesClose
  <2>5. QED
    BY <1>2, <1>3, <2>1, <2>4 DEF LeafInv, Scanning
<1>6. QED
  BY <1>4, <1>5

\* Separators, and the first character of a string or a primitive.
LEMMA BeginLeaves ==
  ASSUME ParserInv, LeafInv, NEW c \in Chars, Skip(c) \/ BeginString(c) \/ BeginPrimitive(c) PROVE LeafInv'
<1>1. mode = "value" /\ Reading(c) /\ tokens' = tokens
  BY DEF Skip, BeginString, BeginPrimitive
<1>2. /\ js \in Seq(Chars \cup {NUL}) /\ pos \in Nat /\ pos <= Len(js)
      /\ Len(tokens) <= NumTokens /\ NoZero(js, pos) /\ Leaves(tokens)
  BY <1>1, LeafScanning DEF Scanning
<1>3. NoZero(js', pos) /\ NoZero(js', pos + 1) /\ Ended(tokens, pos + 1) /\ (c \notin Delimiters => Ended(tokens, pos))
  BY <1>1, <1>2, CharNotZero, ReadText, ReadPast
<1>4. CASE Skip(c)
  <2>1. pos' = pos + 1 /\ mode' = "value"
    BY <1>1, <1>4 DEF Skip
  <2>2. QED
    BY <1>1, <1>2, <1>3, <2>1 DEF LeafInv, Scanning
<1>5. CASE BeginString(c)
  <2>1. pos' = pos + 1 /\ mode' = "string" /\ start' = pos /\ c \notin Delimiters
    BY <1>5 DEF BeginString, Delimiters, NUL
  <2>2. QED
    BY <1>1, <1>2, <1>3, <2>1 DEF LeafInv, Scanning
<1>6. CASE BeginPrimitive(c)
  <2>1. pos' = pos /\ mode' = "primitive" /\ start' = pos /\ c \in {"backslash", "control"} \cup Words
    BY <1>6 DEF BeginPrimitive
  <2>2. \A d \in Delimiters : d \notin Words
    BY JsmnAssumption DEF Delimiters, Marks
  <2>3. c \notin Delimiters
    BY <2>1, <2>2 DEF Delimiters, NUL
  <2>4. QED
    BY <1>1, <1>2, <1>3, <2>1, <2>3 DEF LeafInv, Scanning
<1>7. QED
  BY <1>4, <1>5, <1>6

\* A string or a primitive becomes a token.
LEMMA LeafLeaves ==
  ASSUME NEW type \in LeafTypes, NEW from \in Nat, NEW to \in Nat, NEW front \in Nat, NEW next \in Nat,
         tokens \in Seq(Tok), toksuper \in 0 .. Len(tokens), Len(tokens) <= NumTokens, NumTokens \in Nat,
         Placed(tokens, front), Leaves(tokens), Ended(tokens, front), front <= from, from <= to, to < next,
         type = "STRING" => front < from,
         Leaf(type, from, to), Len(tokens) # NumTokens
  PROVE  Leaves(tokens') /\ Ended(tokens', next) /\ Len(tokens') <= NumTokens /\ mode' = "value"
<1> DEFINE t == Token(type, from, to)
<1>1. type \in Types
  BY DEF Types, LeafTypes
<1>2. t \in Tok /\ t.start = from /\ t.end = to /\ t.type = type
  BY <1>1, TokenIs
<1>3. mode' = "value" /\ tokens' = Grow(tokens, toksuper, t)
  BY DEF Leaf, Grow, Counted
<1> HIDE DEF t
<1>4. Leaves(tokens') /\ Ended(tokens', next) /\ Len(tokens') = Len(tokens) + 1
  <2>1. t.end # -1 /\ t.start <= t.end /\ t.start < next /\ t.end < next
    BY <1>2
  <2>2. Ended(tokens, t.start)
    BY <1>2, EndedFurther
  <2>3. t.type = "STRING" => front < t.start
    BY <1>2
  <2>4. QED
    BY <1>2, <1>3, <2>1, <2>2, <2>3, LeavesGrow
<1>5. Len(tokens) \in Nat
  OBVIOUS
<1>6. QED
  BY <1>3, <1>4, <1>5

\* jsmn_parse_string.
LEMMA InStringLeaves == ASSUME ParserInv, LeafInv, NEW c \in Chars \cup {NUL}, InString(c) PROVE LeafInv'
<1>1. mode = "string" /\ start < pos
  BY DEF InString, ParserInv
<1>2. /\ js \in Seq(Chars \cup {NUL}) /\ pos \in Nat /\ start \in Nat /\ pos <= Len(js)
      /\ tokens \in Seq(Tok) /\ Len(tokens) <= NumTokens /\ NumTokens \in Nat /\ toksuper \in 0 .. Len(tokens)
      /\ NoZero(js, pos) /\ Placed(tokens, start) /\ Leaves(tokens) /\ Ended(tokens, start)
  BY <1>1, LeafScanning DEF Scanning
<1>3. c # NUL => NoZero(js', pos + 1)
  BY <1>2, ReadText DEF InString
<1>4. start' = start
  BY DEF InString
<1>5. ASSUME mode' \in Errors PROVE LeafInv'
  BY <1>5 DEF LeafInv, Errors, Scanning
<1>6. CASE c = "quote"
  <2>1. Leaf("STRING", start + 1, pos)
    BY <1>6, Zenon DEF InString, NUL
  <2>2. CASE Len(tokens) = NumTokens
    <3>1. mode' \in Errors
      BY <2>1, <2>2 DEF Leaf, Errors
    <3>2. QED
      BY <1>5, <3>1
  <2>3. CASE Len(tokens) # NumTokens
    <3>1. /\ start + 1 \in Nat /\ pos + 1 \in Nat /\ start <= start + 1 /\ start + 1 <= pos
          /\ start < start + 1 /\ pos < pos + 1 /\ "STRING" \in LeafTypes
      BY <1>1, <1>2 DEF LeafTypes
    <3>2. Leaves(tokens') /\ Ended(tokens', pos + 1) /\ Len(tokens') <= NumTokens /\ mode' = "value"
      BY <1>2, <2>1, <2>3, <3>1, LeafLeaves
    <3>3. pos' = pos + 1
      BY <3>2 DEF InString, Errors
    <3>4. c # NUL
      BY <1>6 DEF NUL
    <3>5. QED
      BY <1>3, <3>2, <3>3, <3>4 DEF LeafInv, Scanning
  <2>4. QED
    BY <2>2, <2>3
<1>7. CASE c # "quote" /\ mode' \notin Errors
  <2>1. mode' \in {"string", "escape"} /\ tokens' = tokens /\ c # NUL
    BY <1>1, <1>7 DEF InString, Errors, NUL
  <2>2. pos' = pos + 1
    BY <1>7 DEF InString
  <2>3. QED
    BY <1>2, <1>3, <1>4, <2>1, <2>2 DEF LeafInv, Scanning
<1>8. QED
  BY <1>5, <1>6, <1>7

\* The character after a backslash.
LEMMA InEscapeLeaves == ASSUME ParserInv, LeafInv, NEW c \in Chars \cup {NUL}, InEscape(c) PROVE LeafInv'
<1>1. mode = "escape"
  BY DEF InEscape
<1>2. /\ js \in Seq(Chars \cup {NUL}) /\ pos \in Nat /\ pos <= Len(js) /\ Len(tokens) <= NumTokens
      /\ NoZero(js, pos) /\ Leaves(tokens) /\ Ended(tokens, start)
  BY <1>1, LeafScanning DEF Scanning
<1>3. c # NUL => NoZero(js', pos + 1)
  BY <1>2, ReadText DEF InEscape
<1>4. start' = start /\ tokens' = tokens
  BY DEF InEscape
<1>5. CASE mode' = "INVAL"
  BY <1>5 DEF LeafInv, Scanning
<1>6. CASE mode' = "string"
  <2>1. pos' = pos + 1 /\ c \in {"quote", "backslash"} \cup Escapable
    BY <1>6 DEF InEscape
  <2>2. c # NUL
    BY <2>1, JsmnAssumption DEF NUL
  <2>3. QED
    BY <1>2, <1>3, <1>4, <1>6, <2>1, <2>2 DEF LeafInv, Scanning
<1>7. QED
  BY <1>5, <1>6 DEF InEscape

\* jsmn_parse_primitive.
LEMMA InPrimitiveLeaves == ASSUME ParserInv, LeafInv, NEW c \in Chars \cup {NUL}, InPrimitive(c) PROVE LeafInv'
<1>1. mode = "primitive" /\ Reading(c)
  BY DEF InPrimitive
<1>2. /\ js \in Seq(Chars \cup {NUL}) /\ pos \in Nat /\ start \in Nat /\ pos <= Len(js) /\ start <= pos
      /\ tokens \in Seq(Tok) /\ Len(tokens) <= NumTokens /\ NumTokens \in Nat /\ toksuper \in 0 .. Len(tokens)
      /\ NoZero(js, pos) /\ Placed(tokens, start) /\ Leaves(tokens) /\ Ended(tokens, start)
  BY <1>1, LeafScanning DEF Scanning
<1>3. NoZero(js', pos) /\ (c # NUL => NoZero(js', pos + 1))
  BY <1>1, <1>2, ReadText
<1>4. start' = start
  BY DEF InPrimitive
<1>5. ASSUME mode' \in Errors PROVE LeafInv'
  BY <1>5 DEF LeafInv, Errors, Scanning
<1>6. CASE c \in Delimiters
  <2>1. Leaf("PRIMITIVE", start, pos)
    BY <1>6, Zenon DEF InPrimitive, Delimiters, NUL
  <2>2. CASE Len(tokens) = NumTokens
    <3>1. mode' \in Errors
      BY <2>1, <2>2 DEF Leaf, Errors
    <3>2. QED
      BY <1>5, <3>1
  <2>3. CASE Len(tokens) # NumTokens
    <3>1. /\ start <= start /\ pos + 1 \in Nat /\ pos < pos + 1
          /\ "PRIMITIVE" \in LeafTypes /\ "PRIMITIVE" # "STRING"
      BY <1>2 DEF LeafTypes
    <3>2. Leaves(tokens') /\ Ended(tokens', pos + 1) /\ Len(tokens') <= NumTokens /\ mode' = "value"
      BY <1>2, <2>1, <2>3, <3>1, LeafLeaves
    <3>3. pos' = pos
      BY <3>2 DEF InPrimitive, Errors
    <3>4. pos < Len(js') /\ js'[pos + 1] \in Delimiters
      BY <1>1, <1>2, <1>6, ReadCharacter
    <3>5. QED
      BY <1>3, <3>2, <3>3, <3>4 DEF LeafInv, Scanning
  <2>4. QED
    BY <2>2, <2>3
<1>7. CASE c \notin Delimiters /\ mode' \notin Errors
  <2>1. mode' = "primitive" /\ tokens' = tokens /\ c # NUL
    BY <1>1, <1>7 DEF InPrimitive, Errors, Delimiters
  <2>2. pos' = pos + 1
    BY <2>1 DEF InPrimitive, Errors
  <2>3. QED
    BY <1>2, <1>3, <1>4, <2>1, <2>2 DEF LeafInv, Scanning
<1>8. QED
  BY <1>5, <1>6, <1>7

\* The end of the body.
LEMMA EndLeaves == ASSUME ParserInv, LeafInv, EndOfBody PROVE LeafInv'
<1>1. mode = "value" /\ Reading(NUL)
  BY DEF EndOfBody
<1>2. /\ js \in Seq(Chars \cup {NUL}) /\ pos \in Nat /\ pos <= Len(js) /\ Len(tokens) <= NumTokens
      /\ NoZero(js, pos) /\ Placed(tokens, pos) /\ Leaves(tokens)
  BY <1>1, LeafScanning DEF Scanning
<1>3. NoZero(js', pos) /\ pos < Len(js')
  <2>1. NUL \in Chars \cup {NUL}
    OBVIOUS
  <2>2. QED
    BY <1>1, <1>2, <2>1, ReadText, ReadCharacter
<1>4. pos' = pos /\ tokens' = tokens /\ mode' \in {"SUCCESS", "PART"}
  BY DEF EndOfBody
<1>5. QED
  BY <1>2, <1>3, <1>4 DEF LeafInv, Scanning

\* Every step of the parser keeps the invariant.
LEMMA LeafKeeps == ASSUME ParserInv, LeafInv, [ParserStep]_parserVars PROVE LeafInv'
<1>1. CASE UNCHANGED parserVars
  BY <1>1 DEF parserVars, LeafInv
<1>2. CASE ParserStep
  BY <1>2, OpenLeaves, CloseLeaves, BeginLeaves, InStringLeaves, InEscapeLeaves, InPrimitiveLeaves, EndLeaves
     DEF ParserStep
<1>3. QED
  BY <1>1, <1>2

-------------------------------------------------------------------------------
(* The text of the tokens *)

\* What is known of a body that was accepted.
Accepted ==
  /\ Tree(tokens) /\ Leaves(tokens) /\ Placed(tokens, pos)
  /\ js \in Seq(Chars \cup {NUL}) /\ pos \in Nat /\ pos < Len(js) /\ NoZero(js, pos)

\* The invariants of the parser give this.
LEMMA AcceptedIs == ASSUME ParserInv, LeafInv, mode = "SUCCESS" PROVE Accepted
BY DEF ParserInv, LeafInv, Accepted, Tree

\* A copy of the body with zeros after some of its tokens.
Copy(b) ==
  /\ b \in Seq(Chars \cup {NUL}) /\ Len(b) = Len(js)
  /\ \A k \in 1 .. Len(js) : b[k] = js[k] \/ \E x \in 1 .. Len(tokens) : b[k] = NUL /\ k = tokens[x].end + 1

\* Token i still has its text.
Intact(b, i) == \A k \in tokens[i].start + 1 .. tokens[i].end : b[k] = js[k]

\* A zero after token x does not hit the text of token i.
Harmless(x, i) ==
  \/ tokens[i].type = "STRING"
  \/ tokens[i].type = "PRIMITIVE" /\ (tokens[x].type \in LeafTypes \/ x = i \/ Covers(tokens, x, i))

\* A zero cut into the body after token x leaves the text of those tokens alone.
LEMMA CutKeeps ==
  ASSUME Accepted, NEW b, Copy(b), NEW x \in 1 .. Len(tokens), NEW c, c = Terminate(b, tokens[x].end)
  PROVE  /\ Copy(c) /\ c[tokens[x].end + 1] = NUL /\ tokens[x].end + 1 \in 1 .. Len(js)
         /\ \A i \in 1 .. Len(tokens) : Harmless(x, i) /\ Intact(b, i) => Intact(c, i)
<1> DEFINE n == Len(tokens)
<1> DEFINE e == tokens[x].end
<1>1. /\ n \in Nat /\ DOMAIN tokens = 1 .. n
      /\ \A i \in 1 .. n : tokens[i].start \in Nat /\ tokens[i].end \in Nat
  BY TreeNumbers DEF Accepted
<1>2. Len(js) \in Nat /\ pos \in Nat /\ pos < Len(js)
  BY DEF Accepted
<1>3. e \in Nat /\ e <= pos /\ e + 1 \in 1 .. Len(js)
  <2>1. e \in Nat /\ e <= pos
    BY <1>1 DEF Accepted, Placed
  <2> HIDE DEF e
  <2>2. QED
    BY <1>2, <2>1
<1> HIDE DEF e
<1>4. /\ Copy(c) /\ c[e + 1] = NUL /\ \A k \in 1 .. Len(js) : k # e + 1 => c[k] = b[k]
  <2>1. c = [b EXCEPT ![e + 1] = NUL]
    BY DEF Terminate, e
  <2>2. /\ b \in Seq(Chars \cup {NUL}) /\ Len(b) = Len(js)
        /\ \A k \in 1 .. Len(js) : b[k] = js[k] \/ \E y \in 1 .. n : b[k] = NUL /\ k = tokens[y].end + 1
    BY DEF Copy
  <2>3. /\ c \in Seq(Chars \cup {NUL}) /\ Len(c) = Len(js)
        /\ c[e + 1] = NUL /\ \A k \in 1 .. Len(js) : k # e + 1 => c[k] = b[k]
    BY <1>2, <1>3, <2>1, <2>2
  <2>4. ASSUME NEW k \in 1 .. Len(js) PROVE c[k] = js[k] \/ \E y \in 1 .. n : c[k] = NUL /\ k = tokens[y].end + 1
    <3>1. CASE k = e + 1
      BY <2>3, <3>1 DEF e
    <3>2. CASE k # e + 1
      BY <2>2, <2>3, <3>2
    <3>3. QED
      BY <3>1, <3>2
  <2>5. QED
    BY <2>3, <2>4 DEF Copy
<1>5. ASSUME NEW i \in 1 .. n, Harmless(x, i), Intact(b, i) PROVE Intact(c, i)
  <2>1. tokens[i].start \in Nat /\ tokens[i].end \in Nat /\ tokens[x].start \in Nat
    BY <1>1
  <2>2. tokens[i].type \in LeafTypes
    BY <1>5 DEF Harmless, LeafTypes
  <2>3. e < tokens[i].start \/ tokens[i].end <= e
    <3>1. CASE x = i
      BY <1>3, <2>1, <3>1 DEF e
    <3>2. CASE i < x
      <4>1. tokens[i].end < tokens[x].start
        BY <1>1, <2>2, <3>2 DEF Accepted, Leaves
      <4>2. Apart(tokens, i, x)
        BY <1>1, <3>2 DEF Accepted, Tree, Nested
      <4>3. ~ Covers(tokens, i, x)
        BY <1>1, <2>1, <4>1 DEF Covers
      <4>4. tokens[i].end < e
        BY <1>1, <4>2, <4>3 DEF Apart, e
      <4>5. QED
        BY <1>3, <2>1, <4>4
    <3>3. CASE x < i
      <4>1. Apart(tokens, x, i)
        BY <1>1, <3>3 DEF Accepted, Tree, Nested
      <4>2. CASE Covers(tokens, x, i)
        BY <1>1, <1>3, <4>1, <4>2 DEF Apart, e
      <4>3. CASE ~ Covers(tokens, x, i)
        <5>1. ~ (tokens[i].start < e)
          BY <1>3, <3>3, <4>3 DEF Covers, e
        <5>2. CASE tokens[i].type = "STRING"
          <6>1. e # tokens[i].start
            BY <1>1, <3>3, <5>2 DEF Accepted, Leaves, e
          <6>2. QED
            BY <1>3, <2>1, <5>1, <6>1
        <5>3. CASE tokens[i].type # "STRING"
          <6>1. tokens[x].type \in LeafTypes
            BY <1>5, <3>3, <4>3, <5>3 DEF Harmless
          <6>2. e < tokens[i].start
            BY <1>1, <3>3, <6>1 DEF Accepted, Leaves, e
          <6>3. QED
            BY <6>2
        <5>4. QED
          BY <5>2, <5>3
      <4>4. QED
        BY <4>2, <4>3
    <3>4. QED
      BY <1>1, <3>1, <3>2, <3>3
  <2>4. tokens[i].end <= pos
    BY <1>1 DEF Accepted, Placed
  <2>5. ASSUME NEW k \in tokens[i].start + 1 .. tokens[i].end PROVE c[k] = js[k]
    <3>1. k \in 1 .. Len(js) /\ k # e + 1
      BY <1>2, <1>3, <2>1, <2>3, <2>4
    <3>2. QED
      BY <1>4, <1>5, <3>1 DEF Intact
  <2>6. QED
    BY <2>5 DEF Intact
<1>6. QED
  BY <1>3, <1>4, <1>5 DEF e

\* What strcmp sees at the start of a token that has its text and a zero behind it is
\* that text.
LEMMA TextSeen ==
  ASSUME Accepted, NEW b, Copy(b), NEW x \in 1 .. Len(tokens), tokens[x].start <= tokens[x].end,
         Intact(b, x), b[tokens[x].end + 1] = NUL
  PROVE  CString(b, tokens[x].start) = SubSeq(js, tokens[x].start + 1, tokens[x].end)
<1> DEFINE s == tokens[x].start
<1> DEFINE e == tokens[x].end
<1>1. s \in Nat /\ e \in Nat /\ s <= e /\ e <= pos
  <2>1. DOMAIN tokens = 1 .. Len(tokens) /\ s \in Nat /\ e \in Nat
    BY TreeNumbers DEF Accepted
  <2>2. QED
    BY <2>1 DEF Accepted, Placed
<1>2. /\ js \in Seq(Chars \cup {NUL}) /\ Len(js) \in Nat /\ pos \in Nat /\ pos < Len(js)
      /\ b \in Seq(Chars \cup {NUL}) /\ Len(b) = Len(js) /\ \A k \in 1 .. pos : js[k] # NUL
  BY DEF Accepted, Copy, NoZero
<1>3. \A k \in s + 1 .. e : b[k] = js[k]
  BY DEF Intact
<1>4. b[e + 1] = NUL
  OBVIOUS
<1> HIDE DEF s, e
<1> DEFINE Z == {k \in s + 1 .. Len(b) : b[k] = NUL}
<1>5. e + 1 \in Z /\ Z \in SUBSET (Nat \ {0})
  BY <1>1, <1>2, <1>4
<1>6. ASSUME NEW k \in Z PROVE e + 1 <= k
  <2>1. ASSUME k <= e PROVE FALSE
    <3>1. k \in s + 1 .. e /\ k \in 1 .. pos /\ b[k] = NUL
      BY <1>1, <1>2, <2>1
    <3>2. QED
      BY <1>2, <1>3, <3>1
  <2>2. QED
    BY <1>1, <1>2, <2>1
<1> HIDE DEF Z
<1>7. Min(Z) = e + 1
  <2>1. Min(Z) \in Z /\ Min(Z) <= e + 1
    BY <1>5, MinIs
  <2>2. e + 1 <= Min(Z) /\ Min(Z) \in Nat
    BY <1>5, <1>6, <2>1
  <2>3. QED
    BY <1>1, <2>1, <2>2
<1>8. CString(b, s) = SubSeq(b, s + 1, e)
  <2>1. CString(b, s) = SubSeq(b, s + 1, Min(Z) - 1)
    BY DEF CString, Z
  <2>2. Min(Z) - 1 = e
    BY <1>1, <1>7
  <2>3. QED
    BY <2>1, <2>2
<1>9. SubSeq(b, s + 1, e) = SubSeq(js, s + 1, e)
  <2> DEFINE p == SubSeq(b, s + 1, e)
  <2> DEFINE q == SubSeq(js, s + 1, e)
  <2>1. p = [k \in 1 .. e - s |-> b[s + k]] /\ q = [k \in 1 .. e - s |-> js[s + k]]
    BY <1>1, <1>2
  <2>2. \A k \in 1 .. e - s : b[s + k] = js[s + k]
    BY <1>1, <1>3
  <2>3. QED
    BY <2>1, <2>2
<1>10. QED
  BY <1>8, <1>9 DEF s, e

-------------------------------------------------------------------------------
(* find_key *)

\* The pair number k of members in K has this key and a value of this type.
Hit(K, k, key, type) ==
  /\ tokens[Nth(K, 2 * k - 1)].type = "STRING"
  /\ SubSeq(js, tokens[Nth(K, 2 * k - 1)].start + 1, tokens[Nth(K, 2 * k - 1)].end) = <<key>>
  /\ tokens[Nth(K, 2 * k)].type = type

\* The strings of a body have their text.
Texts(b) == \A i \in 1 .. Len(tokens) : tokens[i].type = "STRING" => Intact(b, i)

\* Strings and primitives that have their text in b have it in c.
Kept(b, c) == \A i \in 1 .. Len(tokens) : tokens[i].type \in LeafTypes /\ Intact(b, i) => Intact(c, i)

\* One round of the loop of find_key.
ScanNext(toks, s, key, type) ==
  LET t == Slot(toks, s.i)
      b == IF t.type = "STRING" THEN Terminate(s.buf, t.end) ELSE s.buf
      hit == t.type = "STRING" /\ CString(b, t.start) = <<key>> /\ Slot(toks, s.i + 1).type = type
  IN  IF s.at # 0 THEN s
      ELSE [i |-> IF hit THEN s.i ELSE SkipItem(toks, SkipItem(toks, s.i)),
            at |-> IF hit THEN s.i + 1 ELSE 0,
            buf |-> b]

ScanStart(b, o) == [i |-> o + 1, at |-> 0, buf |-> b]

ScanEq(toks, b, o, key, type, f) ==
  f = [n \in 0 .. NumTokens |-> IF n = 0 THEN ScanStart(b, o) ELSE ScanNext(toks, f[n - 1], key, type)]

\* The loop is well defined.
LEMMA ScanSolved ==
  ASSUME NEW toks, NEW b, NEW o, NEW key, NEW type
  PROVE  \E f : /\ f[0] = ScanStart(b, o)
                /\ \A n \in 1 .. NumTokens : f[n] = ScanNext(toks, f[n - 1], key, type)
                /\ FindKey(toks, b, o, key, type) =
                     IF Slot(toks, o).type # "OBJECT" THEN [at |-> 0, buf |-> b]
                     ELSE [at |-> f[Slot(toks, o).size \div 2].at, buf |-> f[Slot(toks, o).size \div 2].buf]
<1> DEFINE N == NumTokens
<1> DEFINE To(m, g) == g[0] = ScanStart(b, o) /\ \A n \in 1 .. N : n <= m => g[n] = ScanNext(toks, g[n - 1], key, type)
<1> DEFINE S == {m \in 0 .. N : \E g : To(m, g)}
<1>1. N \in Nat
  BY JsmnAssumption
<1> HIDE DEF N
<1>2. 0 \in S
  <2> DEFINE g == [n \in 0 .. N |-> ScanStart(b, o)]
  <2>1. 0 \in 0 .. N /\ g[0] = ScanStart(b, o) /\ \A n \in 1 .. N : ~ (n <= 0)
    BY <1>1
  <2> HIDE DEF g
  <2>2. To(0, g)
    BY <2>1
  <2> HIDE DEF To
  <2>3. QED
    BY <2>1, <2>2
<1>3. ASSUME NEW m \in 1 .. N, m - 1 \in S PROVE m \in S
  <2>1. PICK h : To(m - 1, h)
    BY <1>3
  <2> DEFINE g == [n \in 0 .. N |-> IF n < m THEN h[n] ELSE ScanNext(toks, h[m - 1], key, type)]
  <2>2. \A n \in 0 .. N : g[n] = IF n < m THEN h[n] ELSE ScanNext(toks, h[m - 1], key, type)
    OBVIOUS
  <2> HIDE DEF g
  <2>3. g[0] = ScanStart(b, o)
    <3>1. 0 \in 0 .. N /\ 0 < m
      BY <1>1
    <3>2. QED
      BY <2>1, <2>2, <3>1
  <2>4. ASSUME NEW n \in 1 .. N, n <= m PROVE g[n] = ScanNext(toks, g[n - 1], key, type)
    <3>1. n \in 0 .. N /\ n - 1 \in 0 .. N /\ n - 1 < m
      BY <1>1, <2>4
    <3>2. g[n - 1] = h[n - 1]
      BY <2>2, <3>1
    <3>3. CASE n < m
      <4>1. n <= m - 1
        BY <3>3
      <4>2. g[n] = h[n] /\ h[n] = ScanNext(toks, h[n - 1], key, type)
        BY <2>1, <2>2, <3>1, <3>3, <4>1
      <4>3. QED
        BY <3>2, <4>2
    <3>4. CASE ~ (n < m)
      <4>1. n = m
        BY <2>4, <3>4
      <4>2. g[n] = ScanNext(toks, h[n - 1], key, type)
        BY <2>2, <3>1, <3>4, <4>1
      <4>3. QED
        BY <3>2, <4>2
    <3>5. QED
      BY <3>3, <3>4
  <2>5. To(m, g)
    BY <2>3, <2>4
  <2>6. m \in 0 .. N
    BY <1>1
  <2> HIDE DEF To
  <2>7. QED
    BY <2>5, <2>6
<1>4. \A m \in 0 .. N : m \in S
  <2> HIDE DEF S
  <2>1. QED
    BY <1>1, <1>2, <1>3, Upwards
<1>5. PICK h : To(N, h)
  <2>1. N \in S
    BY <1>1, <1>4
  <2>2. QED
    BY <2>1
<1> DEFINE g == [n \in 0 .. N |-> h[n]]
<1>6. ScanEq(toks, b, o, key, type, g)
  <2>1. \A n \in 0 .. N : g[n] = h[n]
    OBVIOUS
  <2>2. ASSUME NEW n \in 0 .. N PROVE g[n] = IF n = 0 THEN ScanStart(b, o) ELSE ScanNext(toks, g[n - 1], key, type)
    <3>1. CASE n = 0
      BY <1>5, <2>1, <3>1
    <3>2. CASE n # 0
      <4>1. n \in 1 .. N /\ n - 1 \in 0 .. N /\ n <= N
        BY <1>1, <3>2
      <4>2. g[n] = h[n] /\ g[n - 1] = h[n - 1] /\ h[n] = ScanNext(toks, h[n - 1], key, type)
        BY <1>5, <2>1, <4>1
      <4>3. QED
        BY <3>2, <4>2
    <3>3. QED
      BY <3>1, <3>2
  <2>3. g = [n \in 0 .. N |-> IF n = 0 THEN ScanStart(b, o) ELSE ScanNext(toks, g[n - 1], key, type)]
    BY <2>2
  <2> HIDE DEF g
  <2>4. QED
    BY <2>3 DEF ScanEq, N
<1> DEFINE F == CHOOSE f : ScanEq(toks, b, o, key, type, f)
<1>7. ScanEq(toks, b, o, key, type, F)
  BY <1>6
<1>8. FindKey(toks, b, o, key, type) =
        IF Slot(toks, o).type # "OBJECT" THEN [at |-> 0, buf |-> b]
        ELSE [at |-> F[Slot(toks, o).size \div 2].at, buf |-> F[Slot(toks, o).size \div 2].buf]
  BY DEF FindKey, ScanEq, ScanNext, ScanStart
<1> HIDE DEF F
<1>9. \A n \in 0 .. N : F[n] = IF n = 0 THEN ScanStart(b, o) ELSE ScanNext(toks, F[n - 1], key, type)
  BY <1>7 DEF ScanEq, N
<1>10. F[0] = ScanStart(b, o) /\ \A n \in 1 .. N : F[n] = ScanNext(toks, F[n - 1], key, type)
  BY <1>1, <1>9
<1>11. QED
  BY <1>8, <1>10 DEF N

\* A round of find_key that begins at the key of pair n + 1 tells whether that pair is a
\* hit, and otherwise goes on to the key of the next pair.
LEMMA ScanRound ==
  ASSUME Accepted, NEW o \in 1 .. Len(tokens), NEW K, K = Kids(tokens, o), NEW half \in Nat, 2 * half <= tokens[o].size,
         NEW n \in Nat, n < half, NEW s, s.at = 0, s.i \in K, Rank(K, s.i) = 2 * n + 1,
         Copy(s.buf), Texts(s.buf), NEW key, NEW type, NEW r, r = ScanNext(tokens, s, key, type)
  PROVE  /\ Copy(r.buf) /\ Kept(s.buf, r.buf)
         /\ Hit(K, n + 1, key, type) => r.at # 0 /\ r.at \in K /\ r.at = Nth(K, 2 * (n + 1))
         /\ ~ Hit(K, n + 1, key, type) =>
              r.at = 0 /\ (n + 1 < half => r.i \in K /\ Rank(K, r.i) = 2 * (n + 1) + 1)
<1> DEFINE x == s.i
<1> DEFINE a == After(tokens, x)
<1>1. Tree(tokens) /\ Leaves(tokens)
  BY DEF Accepted
<1>2. /\ DOMAIN tokens = 1 .. Len(tokens) /\ Len(tokens) \in Nat
      /\ \A i \in 1 .. Len(tokens) : tokens[i].start \in Nat /\ tokens[i].end \in Nat /\ tokens[i].size \in Nat
  BY <1>1, TreeNumbers
<1>3. K \in SUBSET (1 .. Len(tokens))
  BY <1>1, KidsAre
<1>4. x \in K /\ x \in 1 .. Len(tokens) /\ x \in Nat /\ Rank(K, x) = 2 * n + 1
  BY <1>2, <1>3
<1>5. a \in K /\ Rank(K, a) = 2 * n + 2
  <2>1. tokens[o].size \in Nat /\ 2 * n + 1 < tokens[o].size
    BY <1>2
  <2>2. a \in K /\ Rank(K, a) = Rank(K, x) + 1
    BY <1>1, <1>4, <2>1, NextKid
  <2> HIDE DEF a
  <2>3. QED
    BY <1>4, <2>2
<1>6. Nth(K, 2 * (n + 1) - 1) = x /\ Nth(K, 2 * (n + 1)) = a
  <2>1. 2 * (n + 1) - 1 = 2 * n + 1 /\ 2 * (n + 1) = 2 * n + 2
    OBVIOUS
  <2>2. ASSUME NEW y \in K, NEW k, Rank(K, y) = k PROVE Nth(K, k) = y
    BY <1>1, <2>2, NthKid
  <2> HIDE DEF a, x
  <2>3. QED
    BY <1>4, <1>5, <2>1, <2>2
<1>7. a \in 1 .. Len(tokens) /\ a \in Nat
  BY <1>2, <1>3, <1>5
<1>8. SkipItem(tokens, SkipItem(tokens, x)) = After(tokens, a)
  <2>1. SkipItem(tokens, x) = a
    BY <1>1, <1>4, SkipItemSkips
  <2>2. SkipItem(tokens, a) = After(tokens, a)
    BY <1>1, <1>7, SkipItemSkips
  <2>3. QED
    BY <2>1, <2>2
<1>9. n + 1 < half => After(tokens, a) \in K /\ Rank(K, After(tokens, a)) = 2 * (n + 1) + 1
  <2>1. ASSUME n + 1 < half PROVE tokens[o].size \in Nat /\ 2 * n + 2 < tokens[o].size
    BY <1>2, <2>1
  <2>2. ASSUME n + 1 < half
        PROVE  After(tokens, a) \in K /\ Rank(K, After(tokens, a)) = Rank(K, a) + 1
    BY <1>1, <1>5, <2>1, <2>2, NextKid
  <2> HIDE DEF a
  <2>3. QED
    BY <1>5, <2>2
<1>10. Slot(tokens, x) = tokens[x]
  BY <1>1, <1>4, SlotIs
<1> DEFINE c == IF tokens[x].type = "STRING" THEN Terminate(s.buf, tokens[x].end) ELSE s.buf
<1> DEFINE hit == tokens[x].type = "STRING" /\ CString(c, tokens[x].start) = <<key>> /\ Slot(tokens, x + 1).type = type
<1>11. r = [i |-> IF hit THEN x ELSE After(tokens, a), at |-> IF hit THEN x + 1 ELSE 0, buf |-> c]
  <2>1. r = [i |-> IF hit THEN x ELSE SkipItem(tokens, SkipItem(tokens, x)), at |-> IF hit THEN x + 1 ELSE 0, buf |-> c]
    BY <1>10 DEF ScanNext
  <2>2. QED
    BY <1>8, <2>1
<1>12. CASE tokens[x].type = "STRING"
  <2>1. c = Terminate(s.buf, tokens[x].end)
    BY <1>12
  <2> HIDE DEF c
  <2>2. /\ Copy(c) /\ c[tokens[x].end + 1] = NUL
        /\ \A i \in 1 .. Len(tokens) : Harmless(x, i) /\ Intact(s.buf, i) => Intact(c, i)
    BY <1>4, <2>1, CutKeeps
  <2>3. \A i \in 1 .. Len(tokens) : tokens[i].type \in LeafTypes => Harmless(x, i)
    BY <1>12 DEF LeafTypes, Harmless
  <2>4. Kept(s.buf, c)
    BY <2>2, <2>3 DEF Kept
  <2>5. Intact(c, x)
    BY <1>4, <1>12, <2>4 DEF Kept, Texts, LeafTypes
  <2>6. tokens[x].start <= tokens[x].end
    BY <1>1, <1>2, <1>4, <1>12 DEF Leaves, LeafTypes
  <2>7. CString(c, tokens[x].start) = SubSeq(js, tokens[x].start + 1, tokens[x].end)
    BY <1>4, <2>2, <2>5, <2>6, TextSeen
  <2>8. a = x + 1
    <3>1. IsAfter(tokens, x, a)
      BY <1>1, <1>4, AfterIs
    <3>2. a \in x + 1 .. Len(tokens) + 1 /\ \A j \in x + 1 .. Len(tokens) : Covers(tokens, x, j) <=> j < a
      BY <3>1 DEF IsAfter
    <3> HIDE DEF a
    <3>3. ASSUME a # x + 1 PROVE FALSE
      <4>1. x + 1 \in x + 1 .. Len(tokens) /\ x + 1 < a /\ x + 1 \in 1 .. Len(tokens) /\ x < x + 1
        <5>1. x \in Nat /\ a \in Nat /\ Len(tokens) \in Nat /\ a <= Len(tokens) /\ x + 1 <= a
          BY <1>2, <1>4, <1>7, <3>2
        <5> HIDE DEF x
        <5>2. QED
          BY <3>3, <5>1
      <4>2. Covers(tokens, x, x + 1)
        BY <3>2, <4>1
      <4>3. tokens[x + 1].start < tokens[x].end
        BY <1>2, <1>4, <4>2 DEF Covers
      <4>4. tokens[x].end < tokens[x + 1].start
        BY <1>1, <1>2, <1>4, <1>12, <4>1 DEF Leaves, LeafTypes
      <4>5. QED
        BY <1>2, <1>4, <4>1, <4>3, <4>4
    <3>4. QED
      BY <3>3
  <2>9. Slot(tokens, x + 1) = tokens[a]
    BY <1>1, <1>7, <2>8, SlotIs
  <2>10. hit <=> Hit(K, n + 1, key, type)
    BY <1>6, <1>12, <2>7, <2>9 DEF Hit
  <2>11. x + 1 # 0
    BY <1>4
  <2> HIDE DEF hit, x, a
  <2>12. r.buf = c
    BY <1>11
  <2>13. ASSUME hit PROVE r.at # 0 /\ r.at \in K /\ r.at = Nth(K, 2 * (n + 1))
    BY <1>5, <1>6, <1>11, <2>8, <2>11, <2>13
  <2>14. ASSUME ~ hit PROVE r.at = 0 /\ (n + 1 < half => r.i \in K /\ Rank(K, r.i) = 2 * (n + 1) + 1)
    BY <1>9, <1>11, <2>14
  <2>15. QED
    BY <2>2, <2>4, <2>10, <2>12, <2>13, <2>14
<1>13. CASE tokens[x].type # "STRING"
  <2>1. c = s.buf /\ ~ hit /\ ~ Hit(K, n + 1, key, type)
    BY <1>6, <1>13 DEF Hit
  <2>2. Kept(s.buf, s.buf)
    BY DEF Kept
  <2> HIDE DEF c, hit
  <2>3. r.buf = s.buf /\ r.at = 0 /\ r.i = After(tokens, a)
    BY <1>11, <2>1
  <2>4. QED
    BY <1>9, <2>1, <2>2, <2>3
<1>14. QED
  BY <1>12, <1>13

\* The text of strings survives whatever keeps strings and primitives.
LEMMA TextsKept == ASSUME NEW b, NEW c, Texts(b), Kept(b, c) PROVE Texts(c)
BY DEF Texts, Kept, LeafTypes

\* What is kept twice is kept.
LEMMA KeptOn == ASSUME NEW b, NEW c, NEW d, Kept(b, c), Kept(c, d) PROVE Kept(b, d)
BY DEF Kept

\* What find_key should find, in terms of the members of the tree.
LEMMA MemberIs ==
  ASSUME Accepted, NEW o \in 1 .. Len(tokens), NEW K, K = Kids(tokens, o),
         NEW half, half = tokens[o].size \div 2, NEW key, NEW type
  PROVE  /\ half \in Nat /\ 2 * half <= tokens[o].size
         /\ (\A k \in 1 .. half : ~ Hit(K, k, key, type)) => Member(o, key, type) = 0
         /\ \A k \in 1 .. half : Hit(K, k, key, type) /\ (\A j \in 1 .. k - 1 : ~ Hit(K, j, key, type)) =>
              Member(o, key, type) = Nth(K, 2 * k)
<1> DEFINE H == {k \in 1 .. half : Hit(K, k, key, type)}
<1>1. Tree(tokens)
  BY DEF Accepted
<1>2. DOMAIN tokens = 1 .. Len(tokens) /\ tokens[o].size \in Nat
  BY <1>1, TreeNumbers
<1>3. half \in Nat /\ 2 * half <= tokens[o].size
  BY <1>2
<1>4. Children(o) = K /\ tokens[o].size = Cardinality(K)
  <2>1. Children(o) = Kids(tokens, o)
    BY <1>1, <1>2, ChildrenAreKids DEF Tree
  <2>2. QED
    BY <1>1, <2>1, KidsAre
<1>5. Member(o, key, type) = IF H = {} THEN 0 ELSE Nth(K, 2 * Min(H))
  <2>1. Member(o, key, type) =
          LET hits == {k \in 1 .. half : Hit(K, k, key, type)}
          IN  IF hits = {} THEN 0 ELSE Nth(K, 2 * Min(hits))
    BY <1>4 DEF Member, Hit
  <2>2. QED
    BY <2>1
<1>6. ASSUME NEW k \in 1 .. half, Hit(K, k, key, type), \A j \in 1 .. k - 1 : ~ Hit(K, j, key, type)
      PROVE  H # {} /\ Min(H) = k
  <2>1. H \in SUBSET (Nat \ {0}) /\ k \in H
    BY <1>3, <1>6
  <2>2. ASSUME NEW j \in H PROVE k <= j
    <3>1. j \in 1 .. half /\ Hit(K, j, key, type)
      OBVIOUS
    <3>2. ASSUME j < k PROVE FALSE
      <4>1. j \in 1 .. k - 1
        BY <1>3, <3>1, <3>2
      <4>2. QED
        BY <1>6, <3>1, <4>1
    <3>3. QED
      BY <1>3, <3>1, <3>2
  <2> HIDE DEF H
  <2>3. Min(H) \in H /\ Min(H) <= k
    BY <2>1, MinIs
  <2>4. k <= Min(H) /\ Min(H) \in Nat
    BY <2>1, <2>2, <2>3
  <2>5. QED
    BY <1>3, <2>1, <2>3, <2>4
<1>7. (\A k \in 1 .. half : ~ Hit(K, k, key, type)) => H = {}
  OBVIOUS
<1> HIDE DEF H
<1>8. QED
  BY <1>3, <1>5, <1>6, <1>7

\* find_key finds the member it should find, in any body whose strings have their text.
\* The body it leaves behind keeps the text of strings and primitives.
LEMMA FindKeyFinds ==
  ASSUME Accepted, NEW b, Copy(b), Texts(b), NEW o \in 1 .. Len(tokens), tokens[o].type = "OBJECT",
         NEW key, NEW type, NEW r, r = FindKey(tokens, b, o, key, type)
  PROVE  /\ r = [at |-> r.at, buf |-> r.buf]
         /\ Copy(r.buf) /\ Kept(b, r.buf) /\ r.at = Member(o, key, type)
         /\ r.at # 0 => r.at \in 1 .. Len(tokens) /\ tokens[r.at].type = type /\ Covers(tokens, o, r.at)
<1> DEFINE K == Kids(tokens, o)
<1> DEFINE half == tokens[o].size \div 2
<1>1. Tree(tokens)
  BY DEF Accepted
<1>2. /\ Len(tokens) \in Nat /\ Len(tokens) <= NumTokens /\ NumTokens \in Nat
      /\ \A i \in 1 .. Len(tokens) : tokens[i].size \in Nat
  BY <1>1, TreeNumbers
<1>3. Slot(tokens, o) = tokens[o]
  BY <1>1, <1>2, SlotIs
<1>4. PICK f : /\ f[0] = ScanStart(b, o)
               /\ \A n \in 1 .. NumTokens : f[n] = ScanNext(tokens, f[n - 1], key, type)
               /\ r = [at |-> f[half].at, buf |-> f[half].buf]
  BY <1>3, ScanSolved
<1>5. /\ half \in Nat /\ 2 * half <= tokens[o].size
      /\ (\A k \in 1 .. half : ~ Hit(K, k, key, type)) => Member(o, key, type) = 0
      /\ \A k \in 1 .. half : Hit(K, k, key, type) /\ (\A j \in 1 .. k - 1 : ~ Hit(K, j, key, type)) =>
           Member(o, key, type) = Nth(K, 2 * k)
  BY MemberIs
<1>6. /\ K \in SUBSET (1 .. Len(tokens)) /\ tokens[o].size = Cardinality(K)
      /\ \A j \in K : Covers(tokens, o, j)
  <2>1. K \in SUBSET (1 .. Len(tokens)) /\ tokens[o].size = Cardinality(K)
    BY <1>1, KidsAre
  <2>2. QED
    BY <1>1, <2>1, KidsAre
<1>7. half <= NumTokens
  <2>1. Cardinality(K) <= Len(tokens)
    <3>1. IsFiniteSet(1 .. Len(tokens)) /\ Cardinality(1 .. Len(tokens)) = Len(tokens)
      <4>1. ASSUME NEW n \in Nat PROVE IsFiniteSet(1 .. n) /\ Cardinality(1 .. n) = n
        <5>1. 1 \in Int /\ n \in Int
          OBVIOUS
        <5>2. IsFiniteSet(1 .. n) /\ Cardinality(1 .. n) = IF 1 > n THEN 0 ELSE n - 1 + 1
          BY <5>1, FS_Interval
        <5>3. QED
          BY <5>2
      <4>2. QED
        BY <1>2, <4>1
    <3> HIDE DEF K
    <3>2. QED
      BY <1>6, <3>1, FS_Subset
  <2> HIDE DEF K, half
  <2>2. QED
    BY <1>2, <1>5, <1>6, <2>1
<1> DEFINE Good(n) ==
      /\ Copy(f[n].buf) /\ Kept(b, f[n].buf)
      /\ f[n].at = 0 =>
           /\ \A k \in 1 .. n : ~ Hit(K, k, key, type)
           /\ n < half => f[n].i \in K /\ Rank(K, f[n].i) = 2 * n + 1
      /\ f[n].at # 0 =>
           /\ f[n].at \in K
           /\ \E k \in 1 .. n : /\ Hit(K, k, key, type) /\ f[n].at = Nth(K, 2 * k)
                                /\ \A j \in 1 .. k - 1 : ~ Hit(K, j, key, type)
<1> DEFINE S == {n \in 0 .. half : Good(n)}
<1>8. 0 \in S
  <2>1. f[0].i = o + 1 /\ f[0].at = 0 /\ f[0].buf = b
    BY <1>4 DEF ScanStart
  <2>2. Kept(b, b)
    BY DEF Kept
  <2>3. ASSUME 0 < half PROVE o + 1 \in K /\ Rank(K, o + 1) = 1
    <3>1. K # {}
      <4>1. tokens[o].size # 0
        BY <1>2, <1>5, <2>3
      <4>2. Cardinality({}) = 0
        BY FS_EmptySet
      <4>3. QED
        BY <1>6, <4>1, <4>2
    <3>2. QED
      BY <1>1, <3>1, FirstKid
  <2> HIDE DEF half, K
  <2>4. Good(0)
    BY <2>1, <2>2, <2>3
  <2> HIDE DEF Good
  <2>5. QED
    BY <1>5, <2>4
<1>9. ASSUME NEW m \in 1 .. half, m - 1 \in S PROVE m \in S
  <2> DEFINE s == f[m - 1]
  <2>1. m - 1 \in Nat /\ m - 1 < half /\ m \in 1 .. NumTokens /\ m \in 0 .. half /\ (m - 1) + 1 = m
    <3> HIDE DEF half
    <3>1. QED
      BY <1>2, <1>5, <1>7
  <2>2. Good(m - 1)
    BY <1>9
  <2>3. f[m] = ScanNext(tokens, s, key, type)
    BY <1>4, <2>1
  <2>4. Copy(s.buf) /\ Kept(b, s.buf)
    BY <2>2
  <2>5. CASE s.at = 0
    <3>1. s.i \in K /\ Rank(K, s.i) = 2 * (m - 1) + 1 /\ \A k \in 1 .. m - 1 : ~ Hit(K, k, key, type)
      BY <2>1, <2>2, <2>5
    <3>2. Texts(s.buf)
      BY <2>4, TextsKept
    <3> HIDE DEF half, Good
    <3>3. /\ Copy(f[m].buf) /\ Kept(s.buf, f[m].buf)
          /\ Hit(K, m, key, type) => f[m].at # 0 /\ f[m].at \in K /\ f[m].at = Nth(K, 2 * m)
          /\ ~ Hit(K, m, key, type) =>
               f[m].at = 0 /\ (m < half => f[m].i \in K /\ Rank(K, f[m].i) = 2 * m + 1)
      <4>1. ASSUME NEW n, n = m - 1
            PROVE  /\ Copy(f[m].buf) /\ Kept(s.buf, f[m].buf)
                   /\ Hit(K, n + 1, key, type) => f[m].at # 0 /\ f[m].at \in K /\ f[m].at = Nth(K, 2 * (n + 1))
                   /\ ~ Hit(K, n + 1, key, type) =>
                        f[m].at = 0 /\ (n + 1 < half => f[m].i \in K /\ Rank(K, f[m].i) = 2 * (n + 1) + 1)
        <5>1. n \in Nat /\ n < half /\ Rank(K, s.i) = 2 * n + 1
          BY <2>1, <3>1, <4>1
        <5>2. half \in Nat /\ 2 * half <= tokens[o].size
          BY <1>5
        <5> HIDE DEF K, s
        <5>3. K = Kids(tokens, o)
          BY DEF K
        <5>4. QED
          BY <2>3, <2>4, <2>5, <3>1, <3>2, <5>1, <5>2, <5>3, ScanRound
      <4> HIDE DEF K, s
      <4>2. QED
        BY <2>1, <4>1
    <3>4. Kept(b, f[m].buf)
      BY <2>4, <3>3, KeptOn
    <3> HIDE DEF s, K
    <3>5. ASSUME NEW k \in 1 .. m PROVE k = m \/ k \in 1 .. m - 1
      BY <2>1
    <3>6. CASE Hit(K, m, key, type)
      <4>1. m \in 1 .. m
        BY <2>1
      <4>2. Good(m)
        BY <3>1, <3>3, <3>4, <3>6, <4>1 DEF Good
      <4>3. QED
        BY <2>1, <4>2
    <3>7. CASE ~ Hit(K, m, key, type)
      <4>1. Good(m)
        BY <3>1, <3>3, <3>4, <3>5, <3>7 DEF Good
      <4>2. QED
        BY <2>1, <4>1
    <3>8. QED
      BY <3>6, <3>7
  <2>6. CASE s.at # 0
    <3>1. f[m] = s
      BY <2>3, <2>6 DEF ScanNext
    <3>2. \A k \in 1 .. m - 1 : k \in 1 .. m
      BY <2>1
    <3> HIDE DEF half, K
    <3>3. Good(m)
      BY <2>2, <2>6, <3>1, <3>2
    <3> HIDE DEF Good
    <3>4. QED
      BY <2>1, <3>3
  <2>7. QED
    BY <2>5, <2>6
<1>10. Good(half)
  <2>1. half \in 0 .. half
    BY <1>5
  <2> HIDE DEF half, Good
  <2>2. \A n \in 0 .. half : n \in S
    <3> HIDE DEF S
    <3>1. QED
      BY <1>5, <1>8, <1>9, Upwards
  <2>3. QED
    BY <2>1, <2>2
<1> HIDE DEF half, K
<1>11. r.at = f[half].at /\ r.buf = f[half].buf /\ r = [at |-> r.at, buf |-> r.buf]
  BY <1>4
<1>12. CASE r.at = 0
  BY <1>5, <1>10, <1>11, <1>12
<1>13. CASE r.at # 0
  <2>1. PICK k \in 1 .. half : /\ Hit(K, k, key, type) /\ r.at = Nth(K, 2 * k)
                               /\ \A j \in 1 .. k - 1 : ~ Hit(K, j, key, type)
    BY <1>10, <1>11, <1>13
  <2>2. Member(o, key, type) = Nth(K, 2 * k)
    BY <1>5, <2>1
  <2>3. tokens[r.at].type = type
    BY <2>1 DEF Hit
  <2>4. r.at \in K
    BY <1>10, <1>11, <1>13
  <2>5. QED
    BY <1>6, <1>10, <1>11, <2>1, <2>2, <2>3, <2>4
<1>14. QED
  BY <1>12, <1>13

\* Nothing is found in what is no object.
LEMMA FindKeyNone ==
  ASSUME NEW toks, NEW b, NEW o, Slot(toks, o).type # "OBJECT", NEW key, NEW type
  PROVE  FindKey(toks, b, o, key, type).at = 0
BY ScanSolved

\* A zero after a string or a primitive keeps the text of all strings and primitives; a
\* zero after any token keeps the strings.
LEMMA CutAfter ==
  ASSUME Accepted, NEW b, Copy(b), NEW x \in 1 .. Len(tokens), NEW c, c = Terminate(b, tokens[x].end)
  PROVE  /\ Copy(c)
         /\ tokens[x].type \in LeafTypes => Kept(b, c)
         /\ Texts(b) => Texts(c)
         /\ \A i \in 1 .. Len(tokens) : tokens[i].type \in LeafTypes /\ Covers(tokens, x, i) /\ Intact(b, i) => Intact(c, i)
<1>1. /\ Copy(c)
      /\ \A i \in 1 .. Len(tokens) : Harmless(x, i) /\ Intact(b, i) => Intact(c, i)
  BY CutKeeps
<1>2. \A i \in 1 .. Len(tokens) :
        /\ tokens[i].type = "STRING" => Harmless(x, i)
        /\ tokens[x].type \in LeafTypes /\ tokens[i].type \in LeafTypes => Harmless(x, i)
        /\ tokens[i].type \in LeafTypes /\ Covers(tokens, x, i) => Harmless(x, i)
  BY DEF Harmless, LeafTypes
<1>3. QED
  BY <1>1, <1>2 DEF Kept, Texts

\* Zeros cut into the body after several strings or primitives at once.
LEMMA CutsAfter ==
  ASSUME Accepted, NEW b, Copy(b), NEW X, \A x \in X : x \in 1 .. Len(tokens) /\ tokens[x].type \in LeafTypes,
         NEW c, c = TerminateAll(b, {tokens[x].end : x \in X})
  PROVE  Copy(c) /\ Kept(b, c)
<1>1. /\ b \in Seq(Chars \cup {NUL}) /\ Len(b) = Len(js) /\ Len(js) \in Nat /\ DOMAIN b = 1 .. Len(js)
      /\ \A k \in 1 .. Len(js) : b[k] = js[k] \/ \E y \in 1 .. Len(tokens) : b[k] = NUL /\ k = tokens[y].end + 1
  BY LenProperties DEF Copy
<1>2. \A x \in X : tokens[x].end \in Nat
  BY TreeNumbers DEF Accepted
<1>3. c = [k \in 1 .. Len(js) |-> IF k - 1 \in {tokens[x].end : x \in X} THEN NUL ELSE b[k]]
  BY <1>1 DEF TerminateAll
<1>4. ASSUME NEW k \in 1 .. Len(js)
      PROVE  c[k] = b[k] \/ \E x \in X : c[k] = NUL /\ k = tokens[x].end + 1
  <2>1. CASE k - 1 \in {tokens[x].end : x \in X}
    <3>1. PICK x \in X : k - 1 = tokens[x].end
      BY <2>1
    <3>2. k = tokens[x].end + 1
      BY <1>2, <3>1
    <3>3. QED
      BY <1>3, <2>1, <3>2
  <2>2. CASE k - 1 \notin {tokens[x].end : x \in X}
    BY <1>3, <2>2
  <2>3. QED
    BY <2>1, <2>2
<1>5. Copy(c)
  <2>1. \A k \in 1 .. Len(js) : b[k] \in Chars \cup {NUL}
    BY <1>1, ElementOfSeq
  <2>2. \A k \in 1 .. Len(js) : c[k] \in Chars \cup {NUL}
    BY <1>4, <2>1
  <2>3. c \in [1 .. Len(js) -> Chars \cup {NUL}]
    BY <1>3, <2>2
  <2>4. c \in Seq(Chars \cup {NUL}) /\ Len(c) = Len(js)
    BY <1>1, <2>3
  <2>5. QED
    BY <1>1, <1>4, <2>4 DEF Copy
<1>6. ASSUME NEW i \in 1 .. Len(tokens), tokens[i].type \in LeafTypes, Intact(b, i),
             NEW k \in tokens[i].start + 1 .. tokens[i].end
      PROVE  c[k] = js[k]
  <2>1. b[k] = js[k]
    BY <1>6 DEF Intact
  <2>2. k \in 1 .. Len(js)
    <3>1. tokens[i].start \in Nat /\ tokens[i].end \in Nat /\ tokens[i].end <= pos /\ pos < Len(js) /\ pos \in Nat
      BY TreeNumbers DEF Accepted, Placed
    <3>2. QED
      BY <1>1, <3>1
  <2>3. CASE c[k] = b[k]
    BY <2>1, <2>3
  <2>4. CASE c[k] # b[k]
    <3>1. PICK x \in X : c[k] = NUL /\ k = tokens[x].end + 1
      BY <1>4, <2>2, <2>4
    <3>2. SUFFICES ASSUME NEW d, d = Terminate(b, tokens[x].end) PROVE c[k] = js[k]
      OBVIOUS
    <3>3. Kept(b, d) /\ d[k] = NUL
      <4>1. Kept(b, d)
        BY <3>2, CutAfter
      <4>2. d[k] = NUL
        BY <1>1, <2>2, <3>1, <3>2 DEF Terminate
      <4>3. QED
        BY <4>1, <4>2
    <3>4. d[k] = js[k]
      BY <1>6, <3>3 DEF Kept, Intact
    <3>5. QED
      BY <3>1, <3>3, <3>4
  <2>5. QED
    BY <2>3, <2>4
<1>7. QED
  BY <1>5, <1>6 DEF Kept, Intact

\* find_int also cuts the primitive out of the body.
LEMMA FindIntKeeps ==
  ASSUME Accepted, NEW b, Copy(b), Texts(b), NEW o \in 1 .. Len(tokens), tokens[o].type = "OBJECT", NEW key,
         NEW r, r = FindInt(tokens, b, o, key)
  PROVE  Copy(r.buf) /\ Kept(b, r.buf)
<1> DEFINE k == FindKey(tokens, b, o, key, "PRIMITIVE")
<1>1. /\ k = [at |-> k.at, buf |-> k.buf] /\ Copy(k.buf) /\ Kept(b, k.buf)
      /\ k.at # 0 => k.at \in 1 .. Len(tokens) /\ tokens[k.at].type = "PRIMITIVE"
  BY FindKeyFinds
<1>2. r = IF k.at = 0 THEN k ELSE [k EXCEPT !.buf = Terminate(k.buf, tokens[k.at].end)]
  BY DEF FindInt
<1> HIDE DEF k
<1>3. CASE k.at = 0
  BY <1>1, <1>2, <1>3
<1>4. CASE k.at # 0
  <2> DEFINE c == Terminate(k.buf, tokens[k.at].end)
  <2>1. r.buf = c
    <3> HIDE DEF c
    <3>1. r = [k EXCEPT !.buf = c]
      BY <1>2, <1>4 DEF c
    <3>2. QED
      BY <1>1, <3>1
  <2>2. Copy(c) /\ Kept(k.buf, c)
    BY <1>1, <1>4, CutAfter DEF LeafTypes
  <2> HIDE DEF c
  <2>3. QED
    BY <1>1, <2>1, <2>2, KeptOn
<1>5. QED
  BY <1>3, <1>4

-------------------------------------------------------------------------------
(* find_key_in_array *)

\* The states of its loop over a body whose strings have their text.
PeerScans ==
  [left : Int, at : {0} \cup 1 .. Len(tokens), buf : {c \in Seq(Chars \cup {NUL}) : Copy(c) /\ Texts(c)}]

PeerNext(r, t, next, key, type, at) ==
  IF r.at # 0 \/ t.start = -1 THEN r
  ELSE IF CString(Terminate(r.buf, t.end), t.start) # <<key>> \/ next.type # type
    THEN [r EXCEPT !.buf = Terminate(r.buf, t.end)]
  ELSE IF r.left = 0 THEN [r EXCEPT !.buf = Terminate(r.buf, t.end), !.at = at]
  ELSE [r EXCEPT !.buf = Terminate(r.buf, t.end), !.left = @ - 1]

PeerAt(toks, r, o, n, key, type) == PeerNext(r, Slot(toks, o + n), Slot(toks, o + n + 1), key, type, o + n + 1)

PeerStart(s, b) == [left |-> s, at |-> 0, buf |-> b]

PeerEq(toks, b, o, key, s, num, type, f) ==
  f = [n \in 0 .. num |-> IF n = 0 THEN PeerStart(s, b) ELSE PeerAt(toks, f[n - 1], o, n, key, type)]

\* A round of the loop may cut the body after any token.
LEMMA PeerTyped ==
  ASSUME Accepted, NEW r \in PeerScans, NEW o \in 1 .. Len(tokens), NEW n \in Nat, NEW key
  PROVE  PeerAt(tokens, r, o, n, key, "STRING") \in PeerScans
<1> DEFINE x == o + n
<1> DEFINE t == Slot(tokens, x)
<1> DEFINE c == Terminate(r.buf, t.end)
<1> DEFINE p == PeerAt(tokens, r, o, n, key, "STRING")
<1>1. Tree(tokens) /\ Len(tokens) \in Nat /\ x \in Nat /\ x + 1 \in Nat /\ 1 <= x
  BY TreeNumbers DEF Accepted
<1>2. /\ r.left \in Int /\ r.at \in {0} \cup 1 .. Len(tokens) /\ r.buf \in Seq(Chars \cup {NUL})
      /\ Copy(r.buf) /\ Texts(r.buf)
  BY DEF PeerScans
<1>3. CASE r.at # 0 \/ t.start = -1
  <2>1. p = r
    BY <1>3 DEF PeerAt, PeerNext
  <2>2. QED
    BY <2>1
<1>4. CASE ~ (r.at # 0 \/ t.start = -1)
  <2>1. x \in 1 .. Len(tokens) /\ t = tokens[x]
    <3>1. x > Len(tokens) => t.start = -1
      BY <1>1, SlotIs
    <3>2. x <= Len(tokens)
      BY <1>1, <1>4, <3>1
    <3>3. QED
      BY <1>1, <3>2, SlotIs
  <2>2. Copy(c) /\ Texts(c) /\ c \in Seq(Chars \cup {NUL})
    <3>1. Copy(c) /\ Texts(c)
      BY <1>2, <2>1, CutAfter
    <3>2. QED
      BY <3>1 DEF Copy
  <2>3. Slot(tokens, x + 1).type = "STRING" => x + 1 \in {0} \cup 1 .. Len(tokens)
    <3>1. x + 1 > Len(tokens) => Slot(tokens, x + 1).type # "STRING"
      BY <1>1, SlotIs
    <3>2. QED
      BY <1>1, <3>1
  <2>4. p = IF CString(c, t.start) # <<key>> \/ Slot(tokens, x + 1).type # "STRING" THEN [r EXCEPT !.buf = c]
            ELSE IF r.left = 0 THEN [r EXCEPT !.buf = c, !.at = x + 1]
            ELSE [r EXCEPT !.buf = c, !.left = @ - 1]
    BY <1>4 DEF PeerAt, PeerNext
  <2> HIDE DEF c, t, p, x
  <2>5. [r EXCEPT !.buf = c] \in PeerScans
    BY <2>2 DEF PeerScans
  <2>6. [r EXCEPT !.buf = c, !.left = @ - 1] \in PeerScans
    <3>1. r.left - 1 \in Int
      BY <1>2
    <3>2. QED
      BY <2>2, <3>1 DEF PeerScans
  <2>7. ASSUME Slot(tokens, x + 1).type = "STRING" PROVE [r EXCEPT !.buf = c, !.at = x + 1] \in PeerScans
    BY <2>2, <2>3, <2>7 DEF PeerScans
  <2>8. QED
    BY <2>4, <2>5, <2>6, <2>7 DEF p
<1>5. QED
  BY <1>3, <1>4

\* The rounds of the loop.
PeerRun(f, b, o, key, s, num) ==
  /\ f[0] = PeerStart(s, b)
  /\ \A n \in 1 .. num : f[n] = PeerAt(tokens, f[n - 1], o, n, key, "STRING")
  /\ \A n \in 0 .. num : f[n] \in PeerScans

\* find_key_in_array returns what its loop has found after the last round.
LEMMA PeerSolved ==
  ASSUME Accepted, NEW b, Copy(b), Texts(b), NEW o \in 1 .. Len(tokens), NEW key, NEW s \in Int, NEW num \in Nat,
         NEW r, r = FindKeyInArray(tokens, b, o, key, s, num, "STRING")
  PROVE  \E f : /\ PeerRun(f, b, o, key, s, num)
                /\ r = IF tokens[o].type # "OBJECT" THEN [at |-> 0, buf |-> b]
                       ELSE [at |-> f[num].at, buf |-> f[num].buf]
<1> DEFINE R == [p \in (1 .. num) \X PeerScans |-> PeerAt(tokens, p[2], o, p[1], key, "STRING")]
<1> DEFINE start0 == PeerStart(s, b)
<1>1. start0 \in PeerScans
  BY DEF PeerStart, PeerScans, Copy
<1>2. ASSUME NEW k \in 1 .. num, NEW u \in PeerScans
      PROVE  R[<<k, u>>] = PeerAt(tokens, u, o, k, key, "STRING") /\ PeerAt(tokens, u, o, k, key, "STRING") \in PeerScans
  <2>1. PeerAt(tokens, u, o, k, key, "STRING") \in PeerScans
    BY PeerTyped
  <2>2. <<k, u>> \in (1 .. num) \X PeerScans /\ <<k, u>>[1] = k /\ <<k, u>>[2] = u
    OBVIOUS
  <2>3. R[<<k, u>>] = PeerAt(tokens, u, o, k, key, "STRING")
    BY <2>2
  <2>4. QED
    BY <2>1, <2>3
<1>3. R \in [(1 .. num) \X PeerScans -> PeerScans]
  BY <1>2
<1> HIDE DEF R, start0
<1>4. PICK f \in [0 .. num -> PeerScans] : f[0] = start0 /\ \A k \in 1 .. num : f[k] = R[<<k, f[k - 1]>>]
  <2>1. \E f \in [0 .. num -> PeerScans] : BuiltUp(f, num, start0, R)
    BY <1>1, <1>3, RecursionUp
  <2>2. QED
    BY <2>1 DEF BuiltUp
<1>5. ASSUME NEW k \in 1 .. num PROVE f[k] = PeerAt(tokens, f[k - 1], o, k, key, "STRING")
  <2>1. k - 1 \in 0 .. num
    OBVIOUS
  <2>2. f[k - 1] \in PeerScans
    BY <2>1
  <2>3. QED
    BY <1>2, <1>4, <2>2
<1>6. PeerEq(tokens, b, o, key, s, num, "STRING", f)
  <2>1. \A k \in 0 .. num : f[k] = IF k = 0 THEN start0 ELSE PeerAt(tokens, f[k - 1], o, k, key, "STRING")
    BY <1>4, <1>5
  <2>2. f = [k \in 0 .. num |-> IF k = 0 THEN start0 ELSE PeerAt(tokens, f[k - 1], o, k, key, "STRING")]
    BY <2>1
  <2>3. QED
    BY <2>2 DEF PeerEq, start0
<1> DEFINE F == CHOOSE g : PeerEq(tokens, b, o, key, s, num, "STRING", g)
<1>7. PeerEq(tokens, b, o, key, s, num, "STRING", F)
  BY <1>6
<1>8. r = IF Slot(tokens, o).type # "OBJECT" THEN [at |-> 0, buf |-> b] ELSE [at |-> F[num].at, buf |-> F[num].buf]
  BY DEF FindKeyInArray, PeerEq, PeerStart, PeerAt, PeerNext
<1> HIDE DEF F
<1>9. \A n \in 0 .. num : F[n] = IF n = 0 THEN start0 ELSE PeerAt(tokens, F[n - 1], o, n, key, "STRING")
  BY <1>7 DEF PeerEq, start0
<1> DEFINE S == {n \in 0 .. num : F[n] \in PeerScans}
<1>10. \A n \in 0 .. num : n \in S
  <2>1. 0 \in S
    BY <1>1, <1>9
  <2>2. ASSUME NEW n \in 1 .. num, n - 1 \in S PROVE n \in S
    <3>1. n \in 0 .. num /\ n # 0 /\ n \in Nat /\ F[n - 1] \in PeerScans
      BY <2>2
    <3>2. F[n] = PeerAt(tokens, F[n - 1], o, n, key, "STRING")
      BY <1>9, <3>1
    <3>3. F[n] \in PeerScans
      BY <3>1, <3>2, PeerTyped
    <3>4. QED
      BY <3>1, <3>3
  <2> HIDE DEF S
  <2>3. QED
    BY <2>1, <2>2, Upwards
<1>11. PeerRun(F, b, o, key, s, num)
  <2>1. F[0] = PeerStart(s, b)
    BY <1>9 DEF start0
  <2>2. \A n \in 1 .. num : F[n] = PeerAt(tokens, F[n - 1], o, n, key, "STRING")
    BY <1>9
  <2>3. QED
    BY <1>10, <2>1, <2>2 DEF PeerRun
<1>12. Slot(tokens, o) = tokens[o]
  <2>1. Tree(tokens) /\ o \in Nat /\ o <= Len(tokens)
    BY TreeNumbers DEF Accepted
  <2>2. QED
    BY <2>1, SlotIs
<1>13. QED
  BY <1>8, <1>11, <1>12

\* find_key_in_array leaves the text of every string in the body, and what it finds is a
\* token.
LEMMA FindKeyInArrayKeeps ==
  ASSUME Accepted, NEW b, Copy(b), Texts(b), NEW o \in 1 .. Len(tokens), NEW key, NEW s \in Int, NEW num \in Nat,
         NEW r, r = FindKeyInArray(tokens, b, o, key, s, num, "STRING")
  PROVE  Copy(r.buf) /\ Texts(r.buf) /\ r.at \in {0} \cup 1 .. Len(tokens)
<1>1. PICK f : /\ PeerRun(f, b, o, key, s, num)
               /\ r = IF tokens[o].type # "OBJECT" THEN [at |-> 0, buf |-> b]
                      ELSE [at |-> f[num].at, buf |-> f[num].buf]
  BY PeerSolved
<1>2. f[num] \in PeerScans
  BY <1>1 DEF PeerRun
<1>3. f[num].at \in {0} \cup 1 .. Len(tokens) /\ Copy(f[num].buf) /\ Texts(f[num].buf)
  BY <1>2 DEF PeerScans
<1>4. QED
  BY <1>1, <1>3

-------------------------------------------------------------------------------
(* Containers begin with a bracket *)

Brackets == {"{", "["}

Bracketed(toks, text) ==
  \A i \in 1 .. Len(toks) :
    toks[i].type \notin LeafTypes =>
      /\ toks[i].start + 1 \in 1 .. Len(text) /\ text[toks[i].start + 1] \in Brackets
      /\ toks[i].end # -1 => toks[i].start < toks[i].end

BracketInv == mode \in Scanning \cup {"SUCCESS"} => Bracketed(tokens, js)

\* The body is only read further.
LEMMA TextGrows ==
  ASSUME NEW c \in Chars \cup {NUL}, Reading(c), js \in Seq(Chars \cup {NUL}), pos \in Nat, pos <= Len(js)
  PROVE  /\ Len(js') \in Nat /\ Len(js) <= Len(js') /\ \A k \in 1 .. Len(js) : js'[k] = js[k]
         /\ pos + 1 \in 1 .. Len(js') /\ js'[pos + 1] = c
<1>1. Len(js) \in Nat
  OBVIOUS
<1>2. js' \in Seq(Chars \cup {NUL}) /\ pos + 1 <= Len(js') /\ js'[pos + 1] = c
  BY ReadCharacter
<1>3. CASE pos < Len(js)
  <2>1. js' = js
    BY <1>3 DEF Reading
  <2>2. QED
    BY <1>1, <1>2, <2>1
<1>4. CASE ~ (pos < Len(js))
  <2>1. js' = Append(js, c)
    BY <1>4 DEF Reading
  <2>2. Len(Append(js, c)) = Len(js) + 1 /\ \A k \in 1 .. Len(js) : Append(js, c)[k] = js[k]
    BY AppendProperties
  <2>3. QED
    BY <1>1, <1>2, <2>1, <2>2
<1>5. QED
  BY <1>3, <1>4

\* jsmn_init.
LEMMA BracketStarts == ASSUME ParserInit PROVE BracketInv
<1>1. Len(tokens) = 0 /\ 1 .. Len(tokens) = {}
  BY DEF ParserInit
<1>2. QED
  BY <1>1 DEF BracketInv, Bracketed

\* Tokens that are added are strings, primitives or begin with a bracket.
LEMMA BracketGrow ==
  ASSUME NEW toks \in Seq(Tok), NEW s \in 0 .. Len(toks), NEW t \in Tok, NEW g, g = Grow(toks, s, t), NEW text,
         Bracketed(toks, text),
         t.type \notin LeafTypes => t.start + 1 \in 1 .. Len(text) /\ text[t.start + 1] \in Brackets /\ t.end = -1
  PROVE  Bracketed(g, text)
<1>1. IsGrown(g, toks, s, t)
  BY GrownTokens
<1>2. /\ Len(toks) \in Nat /\ Len(g) = Len(toks) + 1 /\ g[Len(toks) + 1] = t
      /\ \A i \in 1 .. Len(toks) : g[i].start = toks[i].start /\ g[i].type = toks[i].type /\ g[i].end = toks[i].end
  BY <1>1 DEF IsGrown
<1>3. ASSUME NEW i \in 1 .. Len(g), g[i].type \notin LeafTypes
      PROVE  /\ g[i].start + 1 \in 1 .. Len(text) /\ text[g[i].start + 1] \in Brackets
             /\ g[i].end # -1 => g[i].start < g[i].end
  <2>1. CASE i = Len(toks) + 1
    BY <1>2, <1>3, <2>1
  <2>2. CASE i \in 1 .. Len(toks)
    <3>1. g[i].start = toks[i].start /\ g[i].end = toks[i].end /\ toks[i].type \notin LeafTypes
      BY <1>2, <1>3, <2>2
    <3>2. /\ toks[i].start + 1 \in 1 .. Len(text) /\ text[toks[i].start + 1] \in Brackets
          /\ toks[i].end # -1 => toks[i].start < toks[i].end
      BY <2>2, <3>1 DEF Bracketed
    <3>3. QED
      BY <3>1, <3>2
  <2>3. QED
    BY <1>2, <2>1, <2>2
<1>4. QED
  BY <1>3 DEF Bracketed

\* Every step of the parser keeps the invariant.
LEMMA BracketKeeps == ASSUME ParserInv, LeafInv, BracketInv, [ParserStep]_parserVars PROVE BracketInv'
<1>1. CASE UNCHANGED parserVars
  BY <1>1 DEF parserVars, BracketInv, Bracketed
<1>2. CASE ParserStep
  <2>1. mode \in Scanning /\ \E c \in Chars \cup {NUL} : Reading(c)
    BY <1>2 DEF ParserStep, Open, Close, Skip, BeginString, BeginPrimitive, InString, InEscape, InPrimitive,
                EndOfBody, Scanning
  <2>2. /\ js \in Seq(Chars \cup {NUL}) /\ pos \in Nat /\ start \in Nat /\ pos <= Len(js)
        /\ tokens \in Seq(Tok) /\ Len(tokens) \in Nat /\ toksuper = LastOpen(tokens) /\ toksuper \in 0 .. Len(tokens)
    BY <2>1, LeafScanning
  <2>3. /\ Len(js) \in Nat /\ Len(js') \in Nat /\ Len(js) <= Len(js') /\ \A k \in 1 .. Len(js) : js'[k] = js[k]
    BY <2>1, <2>2, TextGrows
  <2>4. Bracketed(tokens, js')
    <3>1. Bracketed(tokens, js)
      BY <2>1 DEF BracketInv
    <3>2. ASSUME NEW i \in 1 .. Len(tokens), tokens[i].type \notin LeafTypes
          PROVE  /\ tokens[i].start + 1 \in 1 .. Len(js') /\ js'[tokens[i].start + 1] \in Brackets
                 /\ tokens[i].end # -1 => tokens[i].start < tokens[i].end
      <4>1. /\ tokens[i].start + 1 \in 1 .. Len(js) /\ js[tokens[i].start + 1] \in Brackets
            /\ tokens[i].end # -1 => tokens[i].start < tokens[i].end
        BY <3>1, <3>2 DEF Bracketed
      <4>2. QED
        BY <2>3, <4>1
    <3>3. QED
      BY <3>2 DEF Bracketed
  <2>5. CASE tokens' = tokens
    BY <2>4, <2>5 DEF BracketInv, Bracketed
  <2>6. ASSUME NEW c \in Chars, Open(c) PROVE BracketInv'
    <3>1. CASE Len(tokens) = NumTokens
      BY <2>5, <2>6, <3>1 DEF Open
    <3>2. CASE Len(tokens) # NumTokens
      <4> DEFINE type == IF c = "{" THEN "OBJECT" ELSE "ARRAY"
      <4> DEFINE t == Token(type, pos, -1)
      <4>1. type \in Types
        BY DEF Types
      <4>2. tokens' = Grow(tokens, toksuper, t) /\ c \in Brackets /\ Reading(c)
        BY <2>6, <3>2 DEF Open, Grow, Counted, Brackets
      <4> HIDE DEF type
      <4>3. ASSUME NEW to \in Nat \cup {-1}, to = -1
            PROVE  LET u == Token(type, pos, to) IN u \in Tok /\ u.start = pos /\ u.end = to
        BY <2>2, <4>1, TokenIs
      <4>4. -1 \in Nat \cup {-1}
        OBVIOUS
      <4>5. t \in Tok /\ t.start = pos /\ t.end = -1
        BY <4>3, <4>4
      <4> HIDE DEF t
      <4>6. pos + 1 \in 1 .. Len(js') /\ js'[pos + 1] = c
        BY <2>2, <4>2, TextGrows
      <4>7. \A g : g = Grow(tokens, toksuper, t) => Bracketed(g, js')
        BY <2>2, <2>4, <4>2, <4>5, <4>6, BracketGrow
      <4>8. Bracketed(tokens', js')
        BY <4>2, <4>7
      <4>9. QED
        BY <4>8 DEF BracketInv, Bracketed
    <3>3. QED
      BY <3>1, <3>2
  <2>7. ASSUME NEW c \in Chars, Close(c) PROVE BracketInv'
    <3> DEFINE bad == toksuper = 0 \/ tokens[toksuper].type # (IF c = "}" THEN "OBJECT" ELSE "ARRAY")
    <3>1. CASE bad
      BY <2>2, <2>5, <2>7, <3>1 DEF Close
    <3>2. CASE ~ bad
      <4>1. tokens' = Closed(tokens, toksuper, pos + 1) /\ toksuper # 0
        BY <2>2, <2>7, <3>2 DEF Close, Closed
      <4> HIDE DEF bad
      <4>2. toksuper \in 1 .. Len(tokens) /\ pos + 1 \in Nat
        BY <2>2, <4>1
      <4>3. ASSUME NEW g, g = Closed(tokens, toksuper, pos + 1)
            PROVE  /\ Len(g) = Len(tokens)
                   /\ \A i \in 1 .. Len(tokens) : g[i].start = tokens[i].start /\ g[i].type = tokens[i].type
                   /\ \A i \in 1 .. Len(tokens) : i # toksuper => g[i].end = tokens[i].end
                   /\ g[toksuper].end = pos + 1
        <5>1. g = [tokens EXCEPT ![toksuper].end = pos + 1]
          BY <4>3 DEF Closed
        <5>2. QED
          BY <2>2, <4>2, <5>1, ClosedTokens
      <4>4. tokens[toksuper].start < pos + 1
        <5>1. mode = "value"
          BY <2>7 DEF Close
        <5>2. Placed(tokens, pos) /\ tokens[toksuper].end = -1
          BY <2>2, <4>2, <5>1, LeafScanning, LastOpenIs DEF Scanning
        <5>3. tokens[toksuper] \in Tok
          BY <2>2, <4>2
        <5>4. tokens[toksuper].start \in Nat
          BY <5>3 DEF Tok
        <5>5. QED
          BY <2>2, <4>2, <5>2, <5>4 DEF Placed
      <4>5. ASSUME NEW g, g = Closed(tokens, toksuper, pos + 1) PROVE Bracketed(g, js')
        BY <2>4, <4>2, <4>3, <4>4, <4>5 DEF Bracketed
      <4>6. Bracketed(tokens', js')
        BY <4>1, <4>5
      <4>7. QED
        BY <4>6 DEF BracketInv, Bracketed
    <3>3. QED
      BY <3>1, <3>2
  <2>8. ASSUME NEW type \in LeafTypes, NEW from \in Nat, NEW to \in Nat, Leaf(type, from, to) PROVE BracketInv'
    <3>1. CASE tokens' = tokens
      BY <2>5, <3>1
    <3>2. CASE tokens' # tokens
      <4> DEFINE t == Token(type, from, to)
      <4>1. type \in Types
        BY DEF Types, LeafTypes
      <4>2. t \in Tok /\ t.type \in LeafTypes
        BY <4>1, TokenIs
      <4>3. tokens' = Grow(tokens, toksuper, t)
        BY <2>8, <3>2 DEF Leaf, Grow, Counted
      <4> HIDE DEF t
      <4>4. \A g : g = Grow(tokens, toksuper, t) => Bracketed(g, js')
        BY <2>2, <2>4, <4>2, BracketGrow
      <4>5. Bracketed(tokens', js')
        BY <4>3, <4>4
      <4>6. QED
        BY <4>5 DEF BracketInv, Bracketed
    <3>3. QED
      BY <3>1, <3>2
  <2>9. ASSUME NEW c \in Chars \cup {NUL}, InString(c) PROVE BracketInv'
    <3>1. CASE c = "quote"
      <4>1. Leaf("STRING", start + 1, pos)
        BY <2>9, <3>1, Zenon DEF InString, NUL
      <4>2. "STRING" \in LeafTypes /\ start + 1 \in Nat
        BY <2>2 DEF LeafTypes
      <4>3. QED
        BY <2>2, <2>8, <4>1, <4>2
    <3>2. CASE c # "quote"
      <4>1. tokens' = tokens
        BY <2>9, <3>2 DEF InString, NUL
      <4>2. QED
        BY <2>5, <4>1
    <3>3. QED
      BY <3>1, <3>2
  <2>10. ASSUME NEW c \in Chars \cup {NUL}, InPrimitive(c) PROVE BracketInv'
    <3>1. CASE c \in Delimiters
      <4>1. Leaf("PRIMITIVE", start, pos)
        BY <2>10, <3>1, Zenon DEF InPrimitive, Delimiters, NUL
      <4>2. "PRIMITIVE" \in LeafTypes
        BY DEF LeafTypes
      <4>3. QED
        BY <2>2, <2>8, <4>1, <4>2
    <3>2. CASE c \notin Delimiters
      <4>1. tokens' = tokens
        BY <2>10, <3>2 DEF InPrimitive, Delimiters
      <4>2. QED
        BY <2>5, <4>1
    <3>3. QED
      BY <3>1, <3>2
  <2>11. ASSUME ~ (tokens' = tokens)
         PROVE  \/ \E c \in Chars : Open(c) \/ Close(c)
                \/ \E c \in Chars \cup {NUL} : InString(c) \/ InPrimitive(c)
    BY <1>2, <2>11 DEF ParserStep, Skip, BeginString, BeginPrimitive, InEscape, EndOfBody
  <2>12. QED
    BY <2>5, <2>6, <2>7, <2>9, <2>10, <2>11
<1>3. QED
  BY <1>1, <1>2

-------------------------------------------------------------------------------
(* The keys of the peers *)

\* Every place in a set of numbers is taken.
LEMMA RankTaken ==
  ASSUME NEW n \in Nat, NEW S \in SUBSET (1 .. n), NEW k \in 1 .. Cardinality(S)
  PROVE  \E x \in S : Rank(S, x) = k
<1> DEFINE m == Cardinality(S)
<1>1. IsFiniteSet(S) /\ m \in Nat
  <2>1. IsFiniteSet(1 .. n)
    BY FS_Interval
  <2>2. IsFiniteSet(S)
    BY <2>1, FS_Subset
  <2>3. QED
    BY <2>2, FS_CardinalityType
<1> DEFINE T == {j \in 1 .. m : \E x \in S : Rank(S, x) = j}
<1>2. ASSUME NEW j \in 1 .. m, \A i \in 1 .. m : j < i => i \in T PROVE j \in T
  <2>1. CASE j = m
    <3>1. S # {}
      <4>1. S = {} => m = 0
        BY FS_EmptySet
      <4>2. QED
        BY <1>1, <4>1
    <3>2. PICK x \in S : \A y \in S : x >= y
      <4>1. S \in SUBSET (0 .. n)
        OBVIOUS
      <4>2. QED
        BY <3>1, <4>1, LargestExists
    <3>3. \A y \in S : y <= x
      BY <3>2
    <3>4. Rank(S, x) = m
      BY <3>3, Ranks
    <3>5. QED
      BY <2>1, <3>4
  <2>2. CASE j < m
    <3>1. j + 1 \in 1 .. m /\ j < j + 1
      BY <1>1, <2>2
    <3>2. PICK x \in S : Rank(S, x) = j + 1
      BY <1>2, <3>1
    <3> DEFINE L == {y \in S : y < x}
    <3>3. L # {}
      <4>1. ASSUME L = {} PROVE FALSE
        <5>1. \A y \in S : x <= y
          BY <4>1
        <5>2. Rank(S, x) = 1
          BY <5>1, Ranks
        <5>3. QED
          BY <3>1, <3>2, <5>2
      <4>2. QED
        BY <4>1
    <3>4. PICK z \in L : \A y \in L : z >= y
      <4>1. S \in SUBSET (0 .. n)
        OBVIOUS
      <4>2. L \in SUBSET (0 .. n)
        BY <4>1
      <4> HIDE DEF L
      <4>3. QED
        BY <3>3, <4>2, LargestExists
    <3>5. {y \in S : y <= x} = {y \in S : y <= z} \cup {x} /\ x \notin {y \in S : y <= z} /\ z \in S
      <4>1. x \in Int /\ z \in Int /\ z \in S /\ z < x /\ \A y \in S : y \in Int /\ (y < x => y <= z)
        <5>1. S \in SUBSET Int
          OBVIOUS
        <5>2. QED
          BY <3>4, <5>1
      <4>2. \A y \in S : y <= x <=> y <= z \/ y = x
        BY <4>1
      <4>3. \A y : y \in {w \in S : w <= x} <=> y \in {w \in S : w <= z} \cup {x}
        BY <4>1, <4>2
      <4>4. x \notin {y \in S : y <= z}
        BY <4>1
      <4>5. QED
        BY <4>1, <4>3, <4>4
    <3>6. IsFiniteSet({y \in S : y <= z})
      BY <1>1, FS_Subset
    <3>7. Rank(S, x) = Rank(S, z) + 1 /\ Rank(S, z) \in Nat
      BY <3>5, <3>6, FS_AddElement, FS_CardinalityType DEF Rank
    <3>8. Rank(S, z) = j
      BY <3>2, <3>7
    <3>9. QED
      BY <3>5, <3>8
  <2>3. QED
    BY <1>1, <2>1, <2>2
<1> HIDE DEF T
<1>3. \A j \in 1 .. m : j \in T
  BY <1>1, <1>2, Downwards
<1>4. QED
  BY <1>3 DEF T

\* Nothing is covered by a string or a primitive.
LEMMA LeafAfter ==
  ASSUME Accepted, NEW x \in 1 .. Len(tokens), tokens[x].type \in LeafTypes
  PROVE  After(tokens, x) = x + 1
<1> DEFINE a == After(tokens, x)
<1>1. /\ Tree(tokens) /\ Leaves(tokens) /\ Len(tokens) \in Nat /\ DOMAIN tokens = 1 .. Len(tokens)
      /\ \A i \in 1 .. Len(tokens) : tokens[i].start \in Nat /\ tokens[i].end \in Nat
  BY TreeNumbers DEF Accepted
<1>2. a \in x + 1 .. Len(tokens) + 1 /\ \A j \in x + 1 .. Len(tokens) : Covers(tokens, x, j) <=> j < a
  BY <1>1, AfterIs DEF IsAfter
<1> HIDE DEF a
<1>3. ASSUME a # x + 1 PROVE FALSE
  <2>1. x + 1 \in x + 1 .. Len(tokens) /\ x + 1 < a /\ x + 1 \in 1 .. Len(tokens) /\ x < x + 1
    BY <1>1, <1>2, <1>3
  <2>2. Covers(tokens, x, x + 1)
    BY <1>2, <2>1
  <2>3. tokens[x + 1].start < tokens[x].end
    BY <1>1, <2>2 DEF Covers
  <2>4. tokens[x].end < tokens[x + 1].start
    BY <1>1, <2>1 DEF Leaves
  <2>5. QED
    BY <1>1, <2>1, <2>3, <2>4
<1>4. QED
  BY <1>3 DEF a

\* The text of token j is this key.
Named(j, key) == SubSeq(js, tokens[j].start + 1, tokens[j].end) = <<key>>

\* A member that is there is the value right after its key.
LEMMA MemberLies ==
  ASSUME Accepted, NEW o \in 1 .. Len(tokens), NEW key, NEW type, NEW at, at = Member(o, key, type), at # 0
  PROVE  /\ at \in 1 .. Len(tokens) /\ at - 1 \in 1 .. Len(tokens)
         /\ Covers(tokens, o, at) /\ Covers(tokens, o, at - 1)
         /\ tokens[at].type = type /\ tokens[at - 1].type = "STRING" /\ Named(at - 1, key)
<1> DEFINE K == Kids(tokens, o)
<1> DEFINE half == tokens[o].size \div 2
<1>1. Tree(tokens) /\ Len(tokens) \in Nat
  BY TreeNumbers DEF Accepted
<1>2. K \in SUBSET (1 .. Len(tokens)) /\ tokens[o].size = Cardinality(K) /\ \A j \in K : Covers(tokens, o, j)
  BY <1>1, KidsAre
<1>3. /\ half \in Nat /\ 2 * half <= tokens[o].size
      /\ (\A k \in 1 .. half : ~ Hit(K, k, key, type)) => at = 0
      /\ \A k \in 1 .. half : Hit(K, k, key, type) /\ (\A j \in 1 .. k - 1 : ~ Hit(K, j, key, type)) =>
              at = Nth(K, 2 * k)
  BY MemberIs
<1>4. tokens[o].size \in Nat
  BY <1>1, TreeNumbers
<1> HIDE DEF K, half
<1> DEFINE H == {k \in 1 .. half : Hit(K, k, key, type)}
<1>5. H # {} /\ H \in SUBSET (Nat \ {0})
  BY <1>3
<1>6. PICK k \in H : \A j \in H : k <= j
  BY <1>5, MinIs
<1>7. k \in 1 .. half /\ Hit(K, k, key, type) /\ \A j \in 1 .. k - 1 : ~ Hit(K, j, key, type)
  <2>1. ASSUME NEW j \in 1 .. k - 1, Hit(K, j, key, type) PROVE FALSE
    <3>1. j \in H
      BY <1>3, <2>1
    <3>2. QED
      BY <1>6, <3>1
  <2>2. QED
    BY <1>6, <2>1
<1>8. at = Nth(K, 2 * k)
  BY <1>3, <1>7
<1>9. 2 * k - 1 \in 1 .. Cardinality(K) /\ 2 * k - 1 < tokens[o].size
  BY <1>2, <1>3, <1>4, <1>7
<1>10. PICK x \in K : Rank(K, x) = 2 * k - 1
  BY <1>1, <1>2, <1>9, RankTaken
<1>11. Nth(K, 2 * k - 1) = x
  BY <1>1, <1>10, NthKid DEF K
<1>12. tokens[x].type = "STRING" /\ Named(x, key) /\ tokens[at].type = type
  BY <1>7, <1>8, <1>11 DEF Hit, Named
<1>13. x \in 1 .. Len(tokens)
  BY <1>2, <1>10
<1>14. After(tokens, x) = x + 1
  BY <1>12, <1>13, LeafAfter DEF LeafTypes
<1>15. x + 1 \in K /\ Rank(K, x + 1) = 2 * k
  <2>1. x + 1 \in K /\ Rank(K, x + 1) = Rank(K, x) + 1
    BY <1>1, <1>9, <1>10, <1>14, NextKid DEF K
  <2>2. k \in Nat
    BY <1>3, <1>7
  <2>3. QED
    BY <1>10, <2>1, <2>2
<1>16. at = x + 1
  BY <1>1, <1>8, <1>15, NthKid DEF K
<1>17. at - 1 = x
  BY <1>13, <1>16
<1>18. QED
  BY <1>2, <1>10, <1>12, <1>13, <1>15, <1>16, <1>17

\* No token ends inside a string or a primitive.
LEMMA NoEndInside ==
  ASSUME Accepted, NEW i \in 1 .. Len(tokens), tokens[i].type \in LeafTypes, NEW x \in 1 .. Len(tokens)
  PROVE  tokens[x].end <= tokens[i].start \/ tokens[i].end <= tokens[x].end
<1>1. /\ Tree(tokens) /\ Leaves(tokens) /\ Len(tokens) \in Nat /\ DOMAIN tokens = 1 .. Len(tokens)
      /\ \A j \in 1 .. Len(tokens) : tokens[j].start \in Nat /\ tokens[j].end \in Nat
  BY TreeNumbers DEF Accepted
<1>2. CASE x = i
  BY <1>1, <1>2
<1>3. CASE i < x
  <2>1. tokens[i].end < tokens[x].start
    BY <1>1, <1>3 DEF Leaves
  <2>2. Apart(tokens, i, x)
    BY <1>1, <1>3 DEF Tree, Nested
  <2>3. ~ Covers(tokens, i, x)
    BY <1>1, <2>1 DEF Covers
  <2>4. tokens[i].end < tokens[x].end
    BY <1>1, <2>2, <2>3 DEF Apart
  <2>5. QED
    BY <1>1, <2>4
<1>4. CASE x < i
  <2>1. Apart(tokens, x, i)
    BY <1>1, <1>4 DEF Tree, Nested
  <2>2. CASE Covers(tokens, x, i)
    BY <1>1, <2>1, <2>2 DEF Apart
  <2>3. CASE ~ Covers(tokens, x, i)
    BY <1>1, <1>4, <2>3 DEF Covers
  <2>4. QED
    BY <2>2, <2>3
<1>5. QED
  BY <1>1, <1>2, <1>3, <1>4

\* strcmp finds a text of one character only if a zero follows it.
LEMMA OneSeen ==
  ASSUME NEW c \in Seq(Chars \cup {NUL}), NEW p \in Nat, NEW q \in p + 1 .. Len(c), c[q] = NUL, NEW key,
         CString(c, p) = <<key>>
  PROVE  p + 2 \in 1 .. Len(c) /\ c[p + 1] = key /\ c[p + 2] = NUL
<1> DEFINE Z == {k \in p + 1 .. Len(c) : c[k] = NUL}
<1>1. Len(c) \in Nat /\ q \in Nat
  OBVIOUS
<1>2. q \in Z /\ Z \in SUBSET (Nat \ {0})
  BY <1>1
<1> DEFINE m == Min(Z)
<1>3. m \in Z
  <2> HIDE DEF Z
  <2>1. QED
    BY <1>2, MinIs
<1>4. m \in p + 1 .. Len(c) /\ c[m] = NUL /\ m \in Nat
  BY <1>1, <1>3
<1>5. CString(c, p) = SubSeq(c, p + 1, m - 1)
  BY DEF CString
<1> HIDE DEF m, Z
<1>6. m - 1 \in p .. Len(c) /\ m - 1 \in Int
  BY <1>1, <1>4
<1>7. SubSeq(c, p + 1, m - 1) = [k \in 1 .. (m - 1) - p |-> c[p + k]]
  BY <1>1, <1>6
<1>8. Len(SubSeq(c, p + 1, m - 1)) = (m - 1) - p
  BY <1>1, <1>6, <1>7
<1>9. Len(<<key>>) = 1 /\ <<key>>[1] = key
  OBVIOUS
<1>10. (m - 1) - p = 1
  BY <1>5, <1>8, <1>9
<1>11. m = p + 2
  BY <1>4, <1>10
<1>12. SubSeq(c, p + 1, m - 1)[1] = c[p + 1]
  <2>1. 1 \in 1 .. (m - 1) - p
    BY <1>10
  <2>2. QED
    BY <1>7, <2>1
<1>13. QED
  BY <1>1, <1>4, <1>5, <1>9, <1>11, <1>12

\* find_key_in_array compares the key with every token, containers and primitives too, in
\* a body with zeros in it.  The comparison is right if only strings have this text.
LEMMA PeerMatch ==
  ASSUME Accepted, Bracketed(tokens, js), NEW b, Copy(b), Texts(b), NEW j \in 1 .. Len(tokens),
         NEW c, c = Terminate(b, tokens[j].end), NEW key, key \notin Brackets \cup {NUL},
         Named(j, key) => tokens[j].type = "STRING"
  PROVE  CString(c, tokens[j].start) = <<key>> <=> Named(j, key)
<1> DEFINE s == tokens[j].start
<1> DEFINE e == tokens[j].end
<1>1. /\ Tree(tokens) /\ Leaves(tokens) /\ Len(tokens) \in Nat /\ DOMAIN tokens = 1 .. Len(tokens)
      /\ \A x \in 1 .. Len(tokens) : tokens[x].start \in Nat /\ tokens[x].end \in Nat
  BY TreeNumbers DEF Accepted
<1>2. /\ Copy(c) /\ c[e + 1] = NUL /\ e + 1 \in 1 .. Len(js)
      /\ \A i \in 1 .. Len(tokens) : Harmless(j, i) /\ Intact(b, i) => Intact(c, i)
  BY CutKeeps
<1>3. /\ js \in Seq(Chars \cup {NUL}) /\ Len(js) \in Nat /\ pos \in Nat /\ pos < Len(js)
      /\ c \in Seq(Chars \cup {NUL}) /\ Len(c) = Len(js)
      /\ \A k \in 1 .. Len(js) : c[k] = js[k] \/ \E x \in 1 .. Len(tokens) : c[k] = NUL /\ k = tokens[x].end + 1
  BY <1>2 DEF Accepted, Copy
<1>4. s \in Nat /\ e \in Nat /\ e <= pos
  BY <1>1 DEF Accepted, Placed
<1>5. s <= e
  <2>1. CASE tokens[j].type \in LeafTypes
    BY <1>1, <2>1 DEF Leaves
  <2>2. CASE tokens[j].type \notin LeafTypes
    <3>1. tokens[j].end # -1 => tokens[j].start < tokens[j].end
      BY <2>2 DEF Bracketed
    <3>2. QED
      BY <1>4, <3>1
  <2>3. QED
    BY <2>1, <2>2
<1>6. ASSUME Named(j, key) PROVE CString(c, s) = <<key>>
  <2>1. tokens[j].type = "STRING" /\ Intact(b, j)
    BY <1>6 DEF Texts
  <2>2. Harmless(j, j)
    BY <2>1 DEF Harmless
  <2>3. Intact(c, j)
    BY <1>2, <2>1, <2>2
  <2>4. CString(c, tokens[j].start) = SubSeq(js, tokens[j].start + 1, tokens[j].end)
    BY <1>2, <1>5, <2>3, TextSeen
  <2>5. QED
    BY <1>6, <2>4 DEF Named
<1>7. ASSUME CString(c, s) = <<key>> PROVE Named(j, key)
  <2> HIDE DEF s, e
  <2>1. s + 2 \in 1 .. Len(js) /\ c[s + 1] = key /\ c[s + 2] = NUL
    <3>1. e + 1 \in s + 1 .. Len(c)
      BY <1>2, <1>3, <1>4, <1>5
    <3>2. QED
      BY <1>2, <1>3, <1>4, <1>7, <3>1, OneSeen
  <2>2. s + 1 \in 1 .. Len(js) /\ js[s + 1] = key
    <3>1. s + 1 \in 1 .. Len(js)
      BY <1>3, <1>4, <2>1
    <3>2. key # NUL
      OBVIOUS
    <3>3. QED
      BY <1>3, <2>1, <3>1, <3>2
  <2>3. tokens[j].type \in LeafTypes
    <3>1. ASSUME tokens[j].type \notin LeafTypes PROVE FALSE
      <4>1. js[s + 1] \in Brackets
        BY <3>1 DEF Bracketed, s
      <4>2. QED
        BY <2>2, <4>1
    <3>2. QED
      BY <3>1
  <2>4. e <= s + 1
    <3>1. ASSUME s + 2 <= e PROVE FALSE
      <4>1. s + 2 \in 1 .. pos
        BY <1>3, <1>4, <3>1
      <4>2. js[s + 2] # NUL
        BY <4>1 DEF Accepted, NoZero
      <4>3. PICK x \in 1 .. Len(tokens) : s + 2 = tokens[x].end + 1
        BY <1>3, <2>1, <4>2
      <4>4. tokens[x].end <= s \/ e <= tokens[x].end
        BY <2>3, NoEndInside DEF s, e
      <4>5. QED
        BY <1>1, <1>4, <3>1, <4>3, <4>4
    <3>2. QED
      BY <1>4, <3>1
  <2>5. e = s + 1
    <3>1. ASSUME e = s PROVE FALSE
      <4>1. c[s + 1] = NUL
        BY <1>2, <3>1
      <4>2. QED
        BY <2>1, <4>1
    <3>2. QED
      BY <1>4, <1>5, <2>4, <3>1
  <2>6. SubSeq(js, s + 1, s + 1) = <<js[s + 1]>>
    <3> DEFINE one == SubSeq(js, s + 1, s + 1)
    <3>1. /\ one \in Seq(Chars \cup {NUL}) /\ Len(one) = (s + 1) - (s + 1) + 1
          /\ \A k \in 1 .. (s + 1) - (s + 1) + 1 : one[k] = js[(s + 1) + k - 1]
      BY <1>3, <1>4, <2>2, SubSeqProperties
    <3>2. (s + 1) - (s + 1) + 1 = 1 /\ (s + 1) + 1 - 1 = s + 1
      BY <1>4
    <3> HIDE DEF one
    <3>3. Len(one) = 1 /\ one[1] = js[s + 1]
      BY <3>1, <3>2
    <3>4. ASSUME NEW x \in Chars \cup {NUL}, one[1] = x PROVE one = <<x>>
      <4>1. <<x>> \in Seq(Chars \cup {NUL}) /\ Len(<<x>>) = 1 /\ \A k \in 1 .. 1 : <<x>>[k] = one[k]
        BY <3>4
      <4>2. QED
        BY <3>1, <3>3, <4>1, SeqEqual
    <3>5. js[s + 1] \in Chars \cup {NUL}
      BY <1>3, <2>2
    <3>6. QED
      BY <3>3, <3>4, <3>5 DEF one
  <2>7. QED
    BY <2>2, <2>5, <2>6 DEF Named, s, e
<1>8. QED
  BY <1>6, <1>7

\* A number that is in the set raises the place of the numbers from it on.
LEMMA RankNext ==
  ASSUME NEW n \in Nat, NEW S \in SUBSET (1 .. n), NEW x \in Nat
  PROVE  /\ Rank(S, x) \in Nat /\ Rank(S, x - 1) \in Nat
         /\ x \in S => Rank(S, x) = Rank(S, x - 1) + 1
         /\ x \notin S => Rank(S, x) = Rank(S, x - 1)
<1> DEFINE A == {y \in S : y <= x - 1}
<1> DEFINE B == {y \in S : y <= x}
<1>1. IsFiniteSet(S) /\ \A y \in S : y \in Int
  <2>1. IsFiniteSet(1 .. n)
    BY FS_Interval
  <2>2. IsFiniteSet(S)
    BY <2>1, FS_Subset
  <2>3. QED
    BY <2>2
<1>2. IsFiniteSet(A) /\ IsFiniteSet(B)
  BY <1>1, FS_Subset
<1>3. Cardinality(A) \in Nat /\ Cardinality(B) \in Nat
  BY <1>2, FS_CardinalityType
<1>4. \A y \in S : y <= x <=> y <= x - 1 \/ y = x
  BY <1>1
<1>5. ASSUME x \notin S PROVE A = B
  BY <1>4, <1>5
<1>6. ASSUME x \in S PROVE B = A \cup {x} /\ x \notin A
  <2>1. \A y : y \in B <=> y \in A \cup {x}
    BY <1>4, <1>6
  <2>2. QED
    BY <2>1
<1> HIDE DEF A, B
<1>7. x \in S => Cardinality(B) = Cardinality(A) + 1
  BY <1>2, <1>6, FS_AddElement
<1>8. x \notin S => Cardinality(B) = Cardinality(A)
  BY <1>5
<1>9. Rank(S, x) = Cardinality(B) /\ Rank(S, x - 1) = Cardinality(A)
  BY DEF Rank, A, B
<1>10. QED
  BY <1>3, <1>7, <1>8, <1>9

\* The text of a token that is followed by a string.
Labels(j) == tokens[j].type = "STRING" /\ j + 1 \in 1 .. Len(tokens) /\ tokens[j + 1].type = "STRING"

\* One round of the loop, at a token that has the text of the key exactly if it is in P.
LEMMA PeerRound ==
  ASSUME Accepted, Bracketed(tokens, js), NEW u \in PeerScans, u.at = 0, NEW o \in 1 .. Len(tokens), NEW n \in Nat,
         NEW x, x = o + n, NEW key, key \notin Brackets \cup {NUL}, NEW P \in SUBSET (1 .. Len(tokens)),
         x \in 1 .. Len(tokens) => (Named(x, key) <=> x \in P), x \in P => Labels(x),
         NEW p, p = PeerAt(tokens, u, o, n, key, "STRING")
  PROVE  /\ x \notin P => p.at = 0 /\ p.left = u.left
         /\ x \in P /\ u.left = 0 => p.at = x + 1
         /\ x \in P /\ u.left # 0 => p.at = 0 /\ p.left = u.left - 1
<1>1. Tree(tokens) /\ Len(tokens) \in Nat /\ x \in Nat /\ x + 1 \in Nat /\ 1 <= x
  BY TreeNumbers DEF Accepted
<1>2. DOMAIN u = {"left", "at", "buf"} /\ u \in [left : Int, at : {0} \cup 1 .. Len(tokens), buf : Seq(Chars \cup {NUL})]
      /\ Copy(u.buf) /\ Texts(u.buf)
  BY DEF PeerScans
<1>3. p = PeerNext(u, Slot(tokens, x), Slot(tokens, x + 1), key, "STRING", x + 1)
  BY DEF PeerAt
<1>4. CASE x \notin 1 .. Len(tokens)
  <2>1. Slot(tokens, x).start = -1
    BY <1>1, <1>4, SlotIs
  <2>2. p = u /\ x \notin P
    BY <1>3, <1>4, <2>1 DEF PeerNext
  <2>3. QED
    BY <2>2
<1>5. CASE x \in 1 .. Len(tokens)
  <2>1. Slot(tokens, x) = tokens[x] /\ tokens[x].start # -1
    <3>1. Slot(tokens, x) = tokens[x]
      BY <1>1, <1>5, SlotIs
    <3>2. tokens[x].start \in Nat
      BY <1>1, <1>5, TreeNumbers
    <3>3. QED
      BY <3>1, <3>2
  <2> DEFINE c == Terminate(u.buf, tokens[x].end)
  <2>2. CString(c, tokens[x].start) = <<key>> <=> x \in P
    <3>1. Named(x, key) => tokens[x].type = "STRING"
      BY <1>5 DEF Labels
    <3>2. CString(c, tokens[x].start) = <<key>> <=> Named(x, key)
      BY <1>2, <1>5, <3>1, PeerMatch
    <3>3. QED
      BY <1>5, <3>2
  <2>3. x \in P => Slot(tokens, x + 1).type = "STRING"
    <3>1. ASSUME x \in P PROVE Slot(tokens, x + 1) = tokens[x + 1] /\ tokens[x + 1].type = "STRING"
      BY <1>1, <3>1, SlotIs DEF Labels
    <3>2. QED
      BY <3>1
  <2>4. p = IF CString(c, tokens[x].start) # <<key>> \/ Slot(tokens, x + 1).type # "STRING" THEN [u EXCEPT !.buf = c]
            ELSE IF u.left = 0 THEN [u EXCEPT !.buf = c, !.at = x + 1]
            ELSE [u EXCEPT !.buf = c, !.left = @ - 1]
    BY <1>3, <2>1 DEF PeerNext
  <2> HIDE DEF c
  <2>5. CASE x \notin P
    <3>1. p = [u EXCEPT !.buf = c]
      BY <2>2, <2>4, <2>5
    <3>2. QED
      BY <1>2, <2>5, <3>1
  <2>6. CASE x \in P /\ u.left = 0
    <3>1. p = [u EXCEPT !.buf = c, !.at = x + 1]
      BY <2>2, <2>3, <2>4, <2>6
    <3>2. p.at = x + 1
      BY <1>2, <3>1
    <3>3. QED
      BY <2>6, <3>2
  <2>7. CASE x \in P /\ u.left # 0
    <3>1. p = [u EXCEPT !.buf = c, !.left = @ - 1]
      BY <2>2, <2>3, <2>4, <2>7
    <3>2. p.at = u.at /\ p.left = u.left - 1
      BY <1>2, <3>1
    <3>3. QED
      BY <2>7, <3>2
  <2>8. QED
    BY <2>5, <2>6, <2>7
<1>6. QED
  BY <1>4, <1>5

\* The tokens that find_key_in_array takes for the key.
Sighted(o, num, key) == {j \in 1 .. Len(tokens) : o < j /\ j <= o + num /\ Named(j, key)}

\* If strings with a string after them are all it takes for the key, find_key_in_array
\* finds the value after the one at the place asked for, or there are not so many.
LEMMA PeerFound ==
  ASSUME Accepted, Bracketed(tokens, js), NEW b, Copy(b), Texts(b), NEW o \in 1 .. Len(tokens), tokens[o].type = "OBJECT",
         NEW key, key \notin Brackets \cup {NUL}, NEW s \in Nat, NEW num \in Nat,
         NEW r, r = FindKeyInArray(tokens, b, o, key, s, num, "STRING"),
         NEW P, P = Sighted(o, num, key), \A j \in P : Labels(j)
  PROVE  /\ r.at # 0 => r.at - 1 \in P /\ Rank(P, r.at - 1) = s + 1
         /\ r.at = 0 => Cardinality(P) <= s
<1>1. PICK f : PeerRun(f, b, o, key, s, num) /\ r = [at |-> f[num].at, buf |-> f[num].buf]
  <2>1. \E f : /\ PeerRun(f, b, o, key, s, num)
               /\ r = IF tokens[o].type # "OBJECT" THEN [at |-> 0, buf |-> b]
                      ELSE [at |-> f[num].at, buf |-> f[num].buf]
    BY PeerSolved
  <2>2. QED
    BY <2>1
<1>2. /\ f[0] = PeerStart(s, b)
      /\ \A n \in 1 .. num : f[n] = PeerAt(tokens, f[n - 1], o, n, key, "STRING")
      /\ \A n \in 0 .. num : f[n] \in PeerScans
  BY <1>1 DEF PeerRun
<1>3. Len(tokens) \in Nat /\ o \in Nat /\ o + num \in Nat
  BY TreeNumbers DEF Accepted
<1>4. /\ P \in SUBSET (1 .. Len(tokens)) /\ \A j \in P : o < j /\ j <= o + num /\ j \in Int
      /\ \A j \in 1 .. Len(tokens) : j \in P <=> o < j /\ j <= o + num /\ Named(j, key)
  BY <1>3 DEF Sighted
<1> DEFINE Good(n) == /\ f[n].at = 0 => f[n].left = s - Rank(P, o + n) /\ Rank(P, o + n) <= s
                      /\ f[n].at # 0 => f[n].at - 1 \in P /\ Rank(P, f[n].at - 1) = s + 1
<1> DEFINE S == {n \in 0 .. num : Good(n)}
<1>5. 0 \in S
  <2>1. {y \in P : y <= o} = {}
    BY <1>3, <1>4
  <2>2. Rank(P, o + 0) = 0
    <3>1. o + 0 = o /\ Cardinality({}) = 0
      BY <1>3, FS_EmptySet
    <3>2. QED
      BY <2>1, <3>1 DEF Rank
  <2>3. f[0].at = 0 /\ f[0].left = s
    BY <1>2 DEF PeerStart
  <2>4. QED
    BY <2>2, <2>3
<1>6. ASSUME NEW n \in 1 .. num, n - 1 \in S PROVE n \in S
  <2> DEFINE x == o + n
  <2> DEFINE u == f[n - 1]
  <2>1. n \in Nat /\ n - 1 \in 0 .. num /\ n \in 0 .. num /\ x \in Nat /\ x - 1 = o + (n - 1) /\ o < x /\ x <= o + num
    BY <1>3
  <2>2. u \in PeerScans /\ f[n] = PeerAt(tokens, u, o, n, key, "STRING")
    BY <1>2, <2>1
  <2>3. /\ u.at = 0 => u.left = s - Rank(P, x - 1) /\ Rank(P, x - 1) <= s
        /\ u.at # 0 => u.at - 1 \in P /\ Rank(P, u.at - 1) = s + 1
    BY <1>6, <2>1
  <2>4. /\ Rank(P, x) \in Nat /\ Rank(P, x - 1) \in Nat
        /\ x \in P => Rank(P, x) = Rank(P, x - 1) + 1
        /\ x \notin P => Rank(P, x) = Rank(P, x - 1)
    BY <1>3, <1>4, <2>1, RankNext
  <2> HIDE DEF u
  <2>5. CASE u.at # 0
    <3>1. f[n] = u
      BY <2>2, <2>5 DEF PeerAt, PeerNext
    <3>2. Good(n)
      BY <2>3, <2>5, <3>1
    <3>3. QED
      BY <2>1, <3>2
  <2>6. CASE u.at = 0
    <3>1. x \in 1 .. Len(tokens) => (Named(x, key) <=> x \in P)
      BY <1>4, <2>1
    <3>2. x \in P => Labels(x)
      OBVIOUS
    <3> HIDE DEF x
    <3>3. \A w : w = o + n => x = w
      BY DEF x
    <3>4. \A p : p = PeerAt(tokens, u, o, n, key, "STRING") =>
            /\ x \notin P => p.at = 0 /\ p.left = u.left
            /\ x \in P /\ u.left = 0 => p.at = x + 1
            /\ x \in P /\ u.left # 0 => p.at = 0 /\ p.left = u.left - 1
      BY <1>4, <2>1, <2>2, <2>6, <3>1, <3>2, <3>3, PeerRound
    <3>5. /\ x \notin P => f[n].at = 0 /\ f[n].left = u.left
          /\ x \in P /\ u.left = 0 => f[n].at = x + 1
          /\ x \in P /\ u.left # 0 => f[n].at = 0 /\ f[n].left = u.left - 1
      BY <2>2, <3>4
    <3>6. Good(n)
      <4>1. CASE x \notin P
        <5>1. f[n].at = 0 /\ f[n].left = s - Rank(P, x) /\ Rank(P, x) <= s
          BY <2>3, <2>4, <2>6, <3>5, <4>1
        <5>2. QED
          BY <5>1 DEF x
      <4>2. CASE x \in P /\ u.left = 0
        <5>1. f[n].at = x + 1 /\ x + 1 # 0 /\ (x + 1) - 1 = x /\ Rank(P, x) = s + 1
          BY <2>1, <2>3, <2>4, <2>6, <3>5, <4>2
        <5>2. QED
          BY <4>2, <5>1
      <4>3. CASE x \in P /\ u.left # 0
        <5>1. f[n].at = 0 /\ f[n].left = s - Rank(P, x) /\ Rank(P, x) <= s
          BY <2>3, <2>4, <2>6, <3>5, <4>3
        <5>2. QED
          BY <5>1 DEF x
      <4>4. QED
        BY <4>1, <4>2, <4>3
    <3>7. QED
      BY <2>1, <3>6
  <2>7. QED
    BY <2>5, <2>6
<1>7. num \in S
  <2> HIDE DEF S
  <2>1. \A n \in 0 .. num : n \in S
    BY <1>5, <1>6, Upwards
  <2>2. QED
    BY <2>1
<1>8. Good(num)
  BY <1>7
<1>9. Rank(P, o + num) = Cardinality(P)
  <2>1. {y \in P : y <= o + num} = P
    BY <1>4
  <2>2. QED
    BY <2>1 DEF Rank
<1>10. r.at = f[num].at
  BY <1>1
<1>11. QED
  BY <1>8, <1>9, <1>10

\* Numbers that grow have their places in order in a set that holds the first of them.
LEMMA PlainRanks ==
  ASSUME NEW n \in Nat, NEW P \in SUBSET (1 .. n), NEW m \in Nat, NEW p \in [1 .. m -> Nat],
         \A i, j \in 1 .. m : i < j => p[i] < p[j],
         \A y \in P : \E k \in 1 .. m : y = p[k],
         \A i, j \in 1 .. m : i < j /\ p[j] \in P => p[i] \in P
  PROVE  \A k \in 1 .. m : p[k] \in P => Rank(P, p[k]) = k
<1> DEFINE S == {k \in 0 .. m : k # 0 /\ p[k] \in P => Rank(P, p[k]) = k}
<1>1. 0 \in S
  OBVIOUS
<1>2. ASSUME NEW k \in 1 .. m, k - 1 \in S PROVE k \in S
  <2>1. k \in 0 .. m /\ k # 0 /\ p[k] \in Nat
    OBVIOUS
  <2>2. ASSUME p[k] \in P PROVE Rank(P, p[k]) = k
    <3>1. CASE k = 1
      <4>1. ASSUME NEW y \in P PROVE p[k] <= y
        <5>1. PICK l \in 1 .. m : y = p[l]
          OBVIOUS
        <5>2. p[l] \in Nat /\ (k = l \/ k < l)
          BY <3>1
        <5>3. k < l => p[k] < p[l]
          OBVIOUS
        <5>4. QED
          BY <2>1, <5>1, <5>2, <5>3
      <4>2. Rank(P, p[k]) = 1
        BY <2>2, <4>1, Ranks
      <4>3. QED
        BY <3>1, <4>2
    <3>2. CASE k # 1
      <4> DEFINE x == p[k]
      <4> DEFINE z == p[k - 1]
      <4>1. k - 1 \in 1 .. m /\ k - 1 < k /\ k - 1 # 0
        BY <3>2
      <4>2. z \in P /\ z < x /\ z \in Nat /\ x \in Nat
        BY <2>1, <2>2, <4>1
      <4>3. Rank(P, z) = k - 1
        BY <1>2, <4>1, <4>2
      <4>4. ASSUME NEW y \in P PROVE y <= x <=> y <= z \/ y = x
        <5>1. PICK l \in 1 .. m : y = p[l]
          OBVIOUS
        <5>2. p[l] \in Nat /\ (k < l \/ l = k \/ l = k - 1 \/ l < k - 1)
          BY <4>1
        <5>3. /\ k < l => p[k] < p[l]
              /\ l < k - 1 => p[l] < p[k - 1]
          BY <4>1
        <5>4. QED
          BY <4>2, <5>1, <5>2, <5>3
      <4> HIDE DEF x, z
      <4> DEFINE A == {y \in P : y <= z}
      <4> DEFINE B == {y \in P : y <= x}
      <4>5. IsFiniteSet(A)
        <5>1. IsFiniteSet(1 .. n)
          BY FS_Interval
        <5>2. IsFiniteSet(P)
          BY <5>1, FS_Subset
        <5>3. QED
          BY <5>2, FS_Subset
      <4>6. B = A \cup {x} /\ x \notin A
        <5>1. x \in P
          BY <2>2 DEF x
        <5>2. \A y : y \in B <=> y \in A \cup {x}
          BY <4>2, <4>4, <5>1
        <5>3. x \notin A
          BY <4>2
        <5>4. QED
          BY <5>2, <5>3
      <4>7. Rank(P, x) = Cardinality(B) /\ Rank(P, z) = Cardinality(A)
        BY DEF Rank
      <4> HIDE DEF A, B
      <4>8. Cardinality(B) = Cardinality(A) + 1
        BY <4>5, <4>6, FS_AddElement
      <4>9. Rank(P, x) = k
        BY <4>3, <4>7, <4>8
      <4>10. QED
        BY <4>9 DEF x
    <3>3. QED
      BY <3>1, <3>2
  <2>3. QED
    BY <2>1, <2>2
<1> HIDE DEF S
<1>3. \A k \in 0 .. m : k \in S
  BY <1>1, <1>2, Upwards
<1>4. QED
  BY <1>3 DEF S

\* The value of this key in the peer at a place of the list.
PeerKey(list, k, key) == Member(Nth(Children(list), k), key, "STRING")

\* The keys of two peers are in the order of the peers.
LEMMA PeerKeys ==
  ASSUME Accepted, NEW list \in 1 .. Len(tokens), NEW key, NEW k \in 1 .. tokens[list].size, PeerKey(list, k, key) # 0
  PROVE  LET at == PeerKey(list, k, key)
         IN  /\ at \in 1 .. Len(tokens) /\ at - 1 \in 1 .. Len(tokens) /\ list < at - 1
             /\ Named(at - 1, key) /\ Labels(at - 1)
             /\ \A j \in 1 .. tokens[list].size :
                  k < j /\ PeerKey(list, j, key) # 0 => at < PeerKey(list, j, key)
<1> DEFINE K == Kids(tokens, list)
<1> DEFINE q(j) == PeerKey(list, j, key)
<1>1. Tree(tokens) /\ Len(tokens) \in Nat /\ tokens[list].size \in Nat /\ DOMAIN tokens = 1 .. Len(tokens)
  BY TreeNumbers DEF Accepted
<1>2. /\ K \in SUBSET (1 .. Len(tokens)) /\ tokens[list].size = Cardinality(K)
      /\ \A x \in K : Covers(tokens, list, x) /\ \A y \in 1 .. Len(tokens) : list < y => ~ Covers(tokens, y, x)
  BY <1>1, KidsAre
<1>3. Children(list) = K
  BY <1>1, ChildrenAreKids DEF Tree
<1>4. ASSUME NEW j \in 1 .. tokens[list].size
      PROVE  \E x \in K : Rank(K, x) = j /\ q(j) = Member(x, key, "STRING")
  <2>1. j \in 1 .. Cardinality(K)
    BY <1>2
  <2>2. PICK x \in K : Rank(K, x) = j
    <3> HIDE DEF K
    <3>1. QED
      BY <1>1, <1>2, <2>1, RankTaken
  <2>3. Nth(K, j) = x
    BY <1>1, <2>2, NthKid
  <2>4. QED
    BY <1>3, <2>2, <2>3 DEF PeerKey
<1> HIDE DEF K
<1>5. PICK x \in K : Rank(K, x) = k /\ q(k) = Member(x, key, "STRING")
  BY <1>4
<1>6. x \in 1 .. Len(tokens) /\ list < x
  BY <1>2 DEF Covers
<1>7. /\ q(k) \in 1 .. Len(tokens) /\ q(k) - 1 \in 1 .. Len(tokens)
      /\ Covers(tokens, x, q(k)) /\ Covers(tokens, x, q(k) - 1)
      /\ tokens[q(k)].type = "STRING" /\ tokens[q(k) - 1].type = "STRING" /\ Named(q(k) - 1, key)
  BY <1>5, <1>6, MemberLies
<1>8. list < q(k) - 1
  BY <1>1, <1>6, <1>7 DEF Covers
<1>9. Labels(q(k) - 1)
  <2>1. (q(k) - 1) + 1 = q(k)
    BY <1>7
  <2>2. QED
    BY <1>7, <2>1 DEF Labels
<1>10. ASSUME NEW j \in 1 .. tokens[list].size, k < j, q(j) # 0 PROVE q(k) < q(j)
  <2>1. PICK y \in K : Rank(K, y) = j /\ q(j) = Member(y, key, "STRING")
    BY <1>4
  <2>2. y \in 1 .. Len(tokens)
    BY <1>2
  <2>3. q(j) \in 1 .. Len(tokens) /\ Covers(tokens, y, q(j))
    BY <1>10, <2>1, <2>2, MemberLies
  <2>4. y < q(j)
    BY <2>3 DEF Covers
  <2>5. x < y
    <3>1. x = y \/ x < y \/ y < x
      BY <1>6, <2>2
    <3>2. y < x => Rank(K, y) < Rank(K, x)
      BY <1>1, <1>2, Ranks
    <3>3. QED
      BY <1>5, <1>10, <2>1, <3>1, <3>2
  <2>6. ~ Covers(tokens, x, y)
    BY <1>2, <1>6, <2>2
  <2>7. q(k) < y
    <3>1. ASSUME y <= q(k) PROVE FALSE
      <4>1. Covers(tokens, x, y)
        BY <1>1, <1>6, <1>7, <2>2, <2>5, <3>1, CoversMore
      <4>2. QED
        BY <2>6, <4>1
    <3>2. QED
      BY <1>7, <2>2, <3>1
  <2>8. QED
    BY <1>7, <2>2, <2>3, <2>4, <2>7
<1>11. QED
  BY <1>7, <1>8, <1>9, <1>10

\* Every peer of the list has its key, and nothing else among the num tokens after o has
\* the text of the key.
PlainPeers(o, num, list, key) ==
  /\ \A k \in 1 .. tokens[list].size : PeerKey(list, k, key) # 0
  /\ \A j \in 1 .. Len(tokens) :
       o < j /\ j <= o + num /\ Named(j, key) => \E k \in 1 .. tokens[list].size : PeerKey(list, k, key) = j + 1

\* Then find_key_in_array finds the key of the peer asked for, unless a peer's key is
\* out of sight.
LEMMA PeersFound ==
  ASSUME Accepted, Bracketed(tokens, js), NEW b, Copy(b), Texts(b), NEW o \in 1 .. Len(tokens), tokens[o].type = "OBJECT",
         NEW list \in 1 .. Len(tokens), o < list, NEW key, key \notin Brackets \cup {NUL}, NEW num \in Nat,
         PlainPeers(o, num, list, key), NEW s \in Nat, s < tokens[list].size,
         NEW r, r = FindKeyInArray(tokens, b, o, key, s, num, "STRING")
  PROVE  /\ r.at # 0 => r.at = PeerKey(list, s + 1, key)
         /\ r.at = 0 => \E k \in 1 .. tokens[list].size : ~ (PeerKey(list, k, key) - 1 <= o + num)
<1> DEFINE m == tokens[list].size
<1> DEFINE q(k) == PeerKey(list, k, key)
<1> DEFINE P == Sighted(o, num, key)
<1>1. Len(tokens) \in Nat /\ m \in Nat
  BY TreeNumbers DEF Accepted
<1>2. \A k \in 1 .. m : q(k) # 0
  BY DEF PlainPeers
<1>3. ASSUME NEW k \in 1 .. m
      PROVE  /\ q(k) \in 1 .. Len(tokens) /\ q(k) - 1 \in 1 .. Len(tokens) /\ list < q(k) - 1
             /\ Named(q(k) - 1, key) /\ Labels(q(k) - 1)
             /\ \A j \in 1 .. m : k < j => q(k) < q(j)
  BY <1>2, PeerKeys
<1>4. /\ P \in SUBSET (1 .. Len(tokens))
      /\ \A j \in 1 .. Len(tokens) : j \in P <=> o < j /\ j <= o + num /\ Named(j, key)
  BY DEF Sighted
<1>5. ASSUME NEW j \in P PROVE \E k \in 1 .. m : j = q(k) - 1
  <2>1. j \in 1 .. Len(tokens) /\ o < j /\ j <= o + num /\ Named(j, key)
    BY <1>4
  <2>2. PICK k \in 1 .. m : q(k) = j + 1
    BY <2>1 DEF PlainPeers
  <2>3. j = q(k) - 1
    BY <2>1, <2>2
  <2>4. QED
    BY <2>3
<1> HIDE DEF P, q, m
<1>6. \A j \in P : Labels(j)
  BY <1>3, <1>5
<1> DEFINE p == [k \in 1 .. m |-> q(k) - 1]
<1>7. p \in [1 .. m -> Nat] /\ \A k \in 1 .. m : p[k] = q(k) - 1
  BY <1>3
<1> HIDE DEF p
<1>8. ASSUME NEW i \in 1 .. m, NEW j \in 1 .. m, i < j PROVE p[i] < p[j] /\ (p[j] \in P => p[i] \in P)
  <2>1. q(i) \in Int /\ q(j) \in Int /\ q(i) < q(j) /\ list < q(i) - 1
    BY <1>3, <1>8
  <2>2. p[i] < p[j]
    BY <1>7, <2>1
  <2>3. ASSUME p[j] \in P PROVE p[i] \in P
    <3>1. p[j] \in 1 .. Len(tokens) /\ p[j] <= o + num
      BY <1>4, <2>3
    <3>2. p[i] \in 1 .. Len(tokens) /\ list < p[i] /\ Named(p[i], key)
      BY <1>3, <1>7
    <3>3. o < p[i] /\ p[i] <= o + num
      BY <2>2, <3>1, <3>2
    <3>4. QED
      BY <1>4, <3>2, <3>3
  <2>4. QED
    BY <2>2, <2>3
<1>9. \A k \in 1 .. m : p[k] \in P => Rank(P, p[k]) = k
  <2>1. \A y \in P : \E k \in 1 .. m : y = p[k]
    BY <1>5, <1>7
  <2>2. \A i, j \in 1 .. m : i < j => p[i] < p[j]
    BY <1>8
  <2>3. \A i, j \in 1 .. m : i < j /\ p[j] \in P => p[i] \in P
    BY <1>8
  <2>4. QED
    BY <1>1, <1>4, <1>7, <2>1, <2>2, <2>3, PlainRanks
<1>10. /\ r.at # 0 => r.at - 1 \in P /\ Rank(P, r.at - 1) = s + 1
       /\ r.at = 0 => Cardinality(P) <= s
  <2>1. P = Sighted(o, num, key)
    BY DEF P
  <2>2. QED
    BY <1>6, <2>1, PeerFound
<1>11. ASSUME r.at # 0 PROVE r.at = q(s + 1)
  <2>1. PICK k \in 1 .. m : r.at - 1 = p[k]
    BY <1>5, <1>7, <1>10, <1>11
  <2>2. k = s + 1
    BY <1>9, <1>10, <1>11, <2>1
  <2>3. r.at \in Int
    <3>1. r.at \in {0} \cup 1 .. Len(tokens)
      <4>1. s \in Int
        OBVIOUS
      <4>2. QED
        BY <4>1, FindKeyInArrayKeeps
    <3>2. QED
      BY <1>1, <3>1
  <2>4. q(k) \in Int /\ p[k] = q(k) - 1
    BY <1>3, <1>7
  <2>5. QED
    BY <2>1, <2>2, <2>3, <2>4
<1>12. ASSUME r.at = 0 PROVE \E k \in 1 .. m : ~ (q(k) - 1 <= o + num)
  <2>1. m \in 1 .. m
    BY <1>1 DEF m
  <2>2. p[m] \notin P
    <3>1. ASSUME p[m] \in P PROVE FALSE
      <4>1. Rank(P, p[m]) = m
        BY <1>9, <2>1, <3>1
      <4>2. Rank(P, p[m]) \in 1 .. Cardinality(P)
        BY <1>1, <1>4, <3>1, Ranks
      <4>3. Cardinality(P) \in Int
        <5>1. IsFiniteSet(1 .. Len(tokens))
          BY <1>1, FS_Interval
        <5>2. IsFiniteSet(P)
          BY <1>4, <5>1, FS_Subset
        <5>3. QED
          BY <5>2, FS_CardinalityType
      <4>4. QED
        BY <1>1, <1>10, <1>12, <4>1, <4>2, <4>3 DEF m
    <3>2. QED
      BY <3>1
  <2>3. p[m] \in 1 .. Len(tokens) /\ list < p[m] /\ Named(p[m], key) /\ p[m] = q(m) - 1
    BY <1>3, <1>7, <2>1
  <2>4. ~ (p[m] <= o + num)
    <3>1. o < p[m]
      BY <2>3
    <3>2. QED
      BY <1>4, <2>2, <2>3, <3>1
  <2>5. QED
    BY <2>1, <2>3, <2>4
<1>13. QED
  BY <1>11, <1>12 DEF q, m
===============================================================================
