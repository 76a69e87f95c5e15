-------------------------- MODULE DocumentsProofs --------------------------
(***************************************************************************)
(* What Documents promises of files of any size, texts of any length and   *)
(* any configuration: the types of what parsers and chunker keep, blocks   *)
(* that hang below earlier blocks, and texts that are split cleanly.       *)
(* OutlineProofs goes on from here.                                        *)
(***************************************************************************)
EXTENDS Documents, FiniteSetTheorems, SequenceTheorems, WellFoundedInduction, TLAPS

----------------------------------------------------------------------------
(* Induction and recursion.                                                *)

\* A set of numbers that has not all of them lacks a least one.
LEMMA NatInduct ==
    ASSUME NEW S, 0 \in S, \A n \in Nat : n \in S => n + 1 \in S
    PROVE  Nat \subseteq S
<1> DEFINE R == OpToRel(<, Nat)
           T == {n \in Nat : n \notin S}
<1>1. IsWellFoundedOn(R, Nat)
  BY NatLessThanWellFounded
<1>2. \A x, y \in Nat : x < y => <<x, y>> \in R
  BY DEF OpToRel
<1> SUFFICES ASSUME T # {} PROVE FALSE
  OBVIOUS
<1>3. T \subseteq Nat
  OBVIOUS
<1> HIDE DEF R, T
<1>4. PICK x \in T : \A y \in T : ~(<<y, x>> \in R)
  BY <1>1, <1>3, WFMin
<1>5. x \in Nat /\ x \notin S
  BY DEF T
<1>6. x - 1 \in Nat /\ x - 1 < x /\ (x - 1) + 1 = x
  BY <1>5
<1>7. x - 1 \notin T
  BY <1>2, <1>3, <1>4, <1>5, <1>6
<1> QED
  BY <1>5, <1>6, <1>7 DEF T

\* The same of the numbers up to a bound.
LEMMA UpToInduct ==
    ASSUME NEW N \in Nat, NEW S, 0 \in S, \A n \in 1..N : n - 1 \in S => n \in S
    PROVE  0..N \subseteq S
<1> DEFINE T == {n \in Nat : n <= N => n \in S}
<1>1. 0 \in T
  OBVIOUS
<1>2. ASSUME NEW n \in Nat, n \in T PROVE n + 1 \in T
  <2>1. CASE n + 1 <= N
    <3>1. n + 1 \in 1..N /\ (n + 1) - 1 = n /\ n \in S
      BY <1>2, <2>1
    <3> QED
      BY <3>1
  <2> QED
    BY <2>1
<1> HIDE DEF T
<1>3. Nat \subseteq T
  BY <1>1, <1>2, NatInduct
<1> QED
  BY <1>3 DEF T

\* A loop over numbers that keeps its values in a set has values throughout.
Iterates(f, base, step, N) == f[0] = base /\ \A n \in 1..N : f[n] = step[<<n, f[n - 1]>>]

LEMMA Recursion ==
    ASSUME NEW N \in Nat, NEW S, NEW base \in S, NEW step \in [(1..N) \X S -> S]
    PROVE  \E f \in [0..N -> S] : Iterates(f, base, step, N)
<1> DEFINE Loop(f, M) == f \in [0..M -> S] /\ f[0] = base /\ \A n \in 1..M : f[n] = step[<<n, f[n - 1]>>]
           Has == {M \in 0..N : \E f : Loop(f, M)}
<1>1. 0 \in Has
  <2>1. PICK f : f = [n \in 0..0 |-> base]
    OBVIOUS
  <2>2. f \in [0..0 -> S] /\ f[0] = base /\ 1..0 = {}
    BY <2>1
  <2>3. Loop(f, 0)
    BY <2>2
  <2>4. 0 \in 0..N
    OBVIOUS
  <2> HIDE DEF Loop
  <2> QED
    BY <2>3, <2>4
<1>2. ASSUME NEW M \in 1..N, M - 1 \in Has PROVE M \in Has
  <2>1. PICK f : Loop(f, M - 1)
    BY <1>2
  <2>2. f[M - 1] \in S /\ M \in 1..N
    BY <2>1
  <2>3. PICK last \in S : last = step[<<M, f[M - 1]>>]
    BY <2>2
  <2>4. PICK g : g = [n \in 0..M |-> IF n = M THEN last ELSE f[n]]
    OBVIOUS
  <2>5. g \in [0..M -> S] /\ g[0] = base
    BY <2>1, <2>3, <2>4
  <2>6. \A n \in 0..(M - 1) : g[n] = f[n]
    BY <2>4
  <2>7. ASSUME NEW n \in 1..M PROVE g[n] = step[<<n, g[n - 1]>>]
    <3>1. CASE n = M
      <4>1. g[n] = last /\ n - 1 \in 0..(M - 1)
        BY <3>1, <2>4
      <4> QED
        BY <3>1, <4>1, <2>3, <2>6
    <3>2. CASE n # M
      <4>1. n \in 1..(M - 1) /\ n - 1 \in 0..(M - 1) /\ n \in 0..(M - 1)
        BY <3>2
      <4> QED
        BY <4>1, <2>1, <2>6
    <3> QED
      BY <3>1, <3>2
  <2>8. Loop(g, M)
    BY <2>5, <2>7
  <2> HIDE DEF Loop
  <2> QED
    BY <2>8
<1> HIDE DEF Has
<1>3. N \in Has
  BY <1>1, <1>2, UpToInduct
<1>4. PICK f : Loop(f, N)
  BY <1>3 DEF Has
<1> QED
  BY <1>4 DEF Iterates

\* Quotients round down.
LEMMA Quotient ==
    ASSUME NEW x \in Nat, NEW m \in Nat \ {0}
    PROVE  x \div m \in Nat /\ (x \div m) * m <= x /\ x < (x \div m) * m + m
  OBVIOUS

----------------------------------------------------------------------------
(* InOrderOf.                                                              *)

Orders(R, T) ==
    /\ \A x \in T : <<x, x>> \notin R
    /\ \A x, y \in T : x # y => <<x, y>> \in R \/ <<y, x>> \in R
    /\ \A x, y, z \in T : <<x, y>> \in R /\ <<y, z>> \in R => <<x, z>> \in R

\* seq has the elements of T, each once and in the order R.
InOrderBy(seq, R, T) ==
    /\ Cardinality(T) \in Nat
    /\ seq \in Seq(T) /\ Len(seq) = Cardinality(T) /\ DOMAIN seq = 1..Cardinality(T)
    /\ \A i \in 1..Cardinality(T) : seq[i] \in T
    /\ \A x \in T : \E i \in 1..Cardinality(T) : seq[i] = x
    /\ \A i, j \in 1..Cardinality(T) : i < j <=> <<seq[i], seq[j]>> \in R
    /\ \A i, j \in 1..Cardinality(T) : seq[i] = seq[j] => i = j

LEMMA SameUpTo == ASSUME NEW m \in Nat, NEW n \in Nat, 1..m = 1..n PROVE m = n
<1>1. m \in 1..m \/ m = 0
  OBVIOUS
<1>2. n \in 1..n \/ n = 0
  OBVIOUS
<1> QED
  BY <1>1, <1>2

\* Each element has as many before it as its place says.
LEMMA Places ==
    ASSUME NEW T, IsFiniteSet(T), NEW R, Orders(R, T), NEW seq,
           seq = [i \in 1..Cardinality(T) |->
                     CHOOSE x \in T : Cardinality({y \in T : <<y, x>> \in R}) = i - 1]
    PROVE  InOrderBy(seq, R, T)
<1> DEFINE N == Cardinality(T)
           Before(x) == {y \in T : <<y, x>> \in R}
<1>0. /\ \A x \in T : <<x, x>> \notin R
      /\ \A x, y \in T : x # y => <<x, y>> \in R \/ <<y, x>> \in R
      /\ \A x, y, z \in T : <<x, y>> \in R /\ <<y, z>> \in R => <<x, z>> \in R
  BY DEF Orders
<1>1. N \in Nat
  BY FS_CardinalityType
<1>2. IsFiniteSet(0..(N - 1)) /\ Cardinality(0..(N - 1)) = N
  <2> HIDE DEF N
  <2>1. N - 1 \in Int /\ (N - 1) - 0 + 1 = N
    BY <1>1
  <2>2. CASE N = 0
    <3>1. 0..(N - 1) = {}
      BY <2>2
    <3> QED
      BY <2>2, <3>1, FS_EmptySet
  <2>3. CASE N # 0
    BY <1>1, <2>1, <2>3, FS_Interval
  <2> QED
    BY <2>2, <2>3
<1>3. ASSUME NEW x \in T
      PROVE  /\ IsFiniteSet(Before(x)) /\ Cardinality(Before(x)) \in Nat
             /\ Cardinality(Before(x)) <= N - 1
  <2>1. Before(x) \subseteq T \ {x}
    BY <1>0
  <2>2. IsFiniteSet(T \ {x}) /\ Cardinality(T \ {x}) = N - 1
    BY FS_RemoveElement
  <2> HIDE DEF Before, N
  <2> QED
    BY <2>1, <2>2, FS_Subset, FS_CardinalityType
<1>4. ASSUME NEW x \in T, NEW y \in T, <<x, y>> \in R
      PROVE  Cardinality(Before(x)) < Cardinality(Before(y))
  <2>1. Before(x) \cup {x} \subseteq Before(y) /\ x \notin Before(x)
    BY <1>0, <1>4
  <2> HIDE DEF Before, N
  <2>2. Cardinality(Before(x) \cup {x}) = Cardinality(Before(x)) + 1
    BY <1>3, <2>1, FS_AddElement
  <2>3. Cardinality(Before(x) \cup {x}) <= Cardinality(Before(y))
    BY <1>3, <2>1, FS_Subset
  <2> QED
    BY <1>3, <2>2, <2>3
<1>5. seq = [i \in 1..N |-> CHOOSE x \in T : Cardinality(Before(x)) = i - 1]
  OBVIOUS
<1>14. /\ \A x \in T : Cardinality(Before(x)) \in Nat
       /\ \A x, y \in T : <<x, y>> \in R => Cardinality(Before(x)) < Cardinality(Before(y))
  BY <1>3, <1>4
<1> HIDE DEF Before, N
<1> DEFINE f == [x \in T |-> Cardinality(Before(x))]
<1>6. f \in Injection(T, 0..(N - 1))
  <2>1. \A x, y \in T : f[x] = f[y] => x = y
    <3> SUFFICES ASSUME NEW x \in T, NEW y \in T, f[x] = f[y], x # y PROVE FALSE
      OBVIOUS
    <3>1. Cardinality(Before(x)) = Cardinality(Before(y))
      OBVIOUS
    <3>2. <<x, y>> \in R => FALSE
      <4>1. <<x, y>> \in R => Cardinality(Before(x)) < Cardinality(Before(y))
        BY <1>14, Zenon
      <4>2. Cardinality(Before(x)) \in Nat /\ Cardinality(Before(y)) \in Nat
        BY <1>14, Zenon
      <4> QED
        BY <3>1, <4>1, <4>2
    <3>3. <<y, x>> \in R => FALSE
      <4>1. <<y, x>> \in R => Cardinality(Before(y)) < Cardinality(Before(x))
        BY <1>14, Zenon
      <4>2. Cardinality(Before(x)) \in Nat /\ Cardinality(Before(y)) \in Nat
        BY <1>14, Zenon
      <4> QED
        BY <3>1, <4>1, <4>2
    <3> QED
      BY <1>0, <3>2, <3>3, Zenon
  <2>2. f \in [T -> 0..(N - 1)]
    BY <1>1, <1>3
  <2> HIDE DEF f
  <2> QED
    BY <2>1, <2>2 DEF Injection, IsInjective
<1>7. f \in Surjection(T, 0..(N - 1))
  <2> HIDE DEF f
  <2> QED
    BY <1>2, <1>6, FS_Injection DEF N
<1>8. \A n \in 0..(N - 1) : \E x \in T : Cardinality(Before(x)) = n
  <2> HIDE DEF f
  <2>1. \A n \in 0..(N - 1) : \E x \in T : f[x] = n
    BY <1>7 DEF Surjection
  <2> QED
    BY <2>1 DEF f
<1> HIDE DEF f
<1>9. \A i \in 1..N : seq[i] \in T /\ Cardinality(Before(seq[i])) = i - 1
  <2> TAKE i \in 1..N
  <2>1. i - 1 \in 0..(N - 1)
    BY <1>1
  <2> QED
    BY <1>5, <1>8, <2>1
<1>10. \A i, j \in 1..N : i < j <=> <<seq[i], seq[j]>> \in R
  <2> SUFFICES ASSUME NEW i \in 1..N, NEW j \in 1..N
               PROVE  i < j <=> <<seq[i], seq[j]>> \in R
    OBVIOUS
  <2>1. PICK x \in T, y \in T : x = seq[i] /\ y = seq[j] /\ Cardinality(Before(x)) = i - 1
                                /\ Cardinality(Before(y)) = j - 1
    BY <1>9
  <2>2. <<x, y>> \in R => i < j
    <3>1. <<x, y>> \in R => Cardinality(Before(x)) < Cardinality(Before(y))
      BY <1>14, Zenon
    <3> QED
      BY <1>1, <2>1, <3>1
  <2>3. <<y, x>> \in R => j < i
    <3>1. <<y, x>> \in R => Cardinality(Before(y)) < Cardinality(Before(x))
      BY <1>14, Zenon
    <3> QED
      BY <1>1, <2>1, <3>1
  <2>4. i < j => x # y
    BY <1>1, <2>1
  <2>5. i < j => <<x, y>> \in R
    <3> HAVE i < j
    <3>1. ~ (j < i)
      BY <1>1
    <3> QED
      BY <1>0, <2>3, <2>4, <3>1
  <2> QED
    BY <2>1, <2>2, <2>5
<1>11. \A i, j \in 1..N : seq[i] = seq[j] => i = j
  <2> SUFFICES ASSUME NEW i \in 1..N, NEW j \in 1..N, seq[i] = seq[j] PROVE i = j
    OBVIOUS
  <2>1. i - 1 = j - 1
    BY <1>9
  <2> QED
    BY <1>1, <2>1
<1>12. \A x \in T : \E i \in 1..N : seq[i] = x
  <2> SUFFICES ASSUME NEW x \in T PROVE \E i \in 1..N : seq[i] = x
    OBVIOUS
  <2>1. PICK c \in Nat : c = Cardinality(Before(x)) /\ c <= N - 1
    BY <1>3
  <2>2. c + 1 \in 1..N /\ (c + 1) - 1 = c
    BY <1>1, <2>1
  <2>3. seq[c + 1] \in T /\ Cardinality(Before(seq[c + 1])) = c
    BY <1>9, <2>2
  <2>4. seq[c + 1] = x
    <3>0. PICK y \in T : y = seq[c + 1] /\ Cardinality(Before(y)) = c
      BY <2>3
    <3>1. <<y, x>> \in R => Cardinality(Before(y)) < Cardinality(Before(x))
      BY <1>14, Zenon
    <3>2. <<x, y>> \in R => Cardinality(Before(x)) < Cardinality(Before(y))
      BY <1>14, Zenon
    <3>3. <<y, x>> \notin R /\ <<x, y>> \notin R
      BY <2>1, <3>0, <3>1, <3>2
    <3> QED
      BY <1>0, <3>0, <3>3, Zenon
  <2> QED
    BY <2>2, <2>4
<1>13. seq \in Seq(T) /\ Len(seq) = N /\ DOMAIN seq = 1..N
  <2>1. seq = [i \in 1..N |-> seq[i]]
    BY <1>5
  <2>2. seq \in [1..N -> T]
    BY <1>9, <2>1
  <2>3. DOMAIN seq = 1..N
    BY <2>1
  <2>4. seq \in Seq(T)
    BY <1>1, <2>2, SeqDef
  <2>5. Len(seq) = N
    <3>1. Len(seq) \in Nat /\ 1..Len(seq) = 1..N
      BY <2>3, <2>4, LenProperties, Zenon
    <3>2. PICK l \in Nat : l = Len(seq)
      BY <3>1
    <3>3. 1..l = 1..N
      BY <3>1, <3>2
    <3> QED
      BY <1>1, <3>2, <3>3, SameUpTo
  <2> QED
    BY <2>3, <2>4, <2>5
<1> QED
  BY <1>1, <1>9, <1>10, <1>11, <1>12, <1>13 DEF InOrderBy, N

\* A set of numbers in their order.
Increasing(seq, T) ==
    /\ Cardinality(T) \in Nat
    /\ seq \in Seq(T) /\ Len(seq) = Cardinality(T) /\ DOMAIN seq = 1..Cardinality(T)
    /\ \A i \in 1..Cardinality(T) : seq[i] \in T
    /\ \A x \in T : \E i \in 1..Cardinality(T) : seq[i] = x
    /\ \A i, j \in 1..Cardinality(T) : i < j <=> seq[i] < seq[j]

LEMMA NumbersInOrder ==
    ASSUME NEW T \in SUBSET Int, IsFiniteSet(T)
    PROVE  Increasing(InOrderOf(T, <), T)
<1> DEFINE R == {p \in T \X T : p[1] < p[2]}
<1>1. \A x, y \in T : <<x, y>> \in R <=> x < y
  OBVIOUS
<1> HIDE DEF R
<1>2. Orders(R, T)
  BY <1>1 DEF Orders
<1>3. \A x \in T : {y \in T : y < x} = {y \in T : <<y, x>> \in R}
  BY <1>1
<1>4. InOrderOf(T, <) = [i \in 1..Cardinality(T) |->
                            CHOOSE x \in T : Cardinality({y \in T : y < x}) = i - 1]
  BY DEF InOrderOf
<1>5. \A i : (CHOOSE x \in T : Cardinality({y \in T : y < x}) = i - 1)
             = CHOOSE x \in T : Cardinality({y \in T : <<y, x>> \in R}) = i - 1
  BY <1>3
<1>6. InOrderOf(T, <) = [i \in 1..Cardinality(T) |->
                            CHOOSE x \in T : Cardinality({y \in T : <<y, x>> \in R}) = i - 1]
  BY <1>4, <1>5
<1>7. PICK seq : seq = InOrderOf(T, <)
  OBVIOUS
<1>8. InOrderBy(seq, R, T)
  BY <1>2, <1>6, <1>7, Places
<1> QED
  BY <1>1, <1>7, <1>8 DEF InOrderBy, Increasing

LEMMA FunctionSeq ==
    ASSUME NEW n \in Nat, NEW S, NEW f \in [1..n -> S]
    PROVE  f \in Seq(S) /\ Len(f) = n
<1>1. f \in Seq(S)
  BY SeqDef
<1>2. DOMAIN f = 1..n
  OBVIOUS
<1>3. Len(f) \in Nat /\ 1..Len(f) = 1..n
  BY <1>1, <1>2, LenProperties, Zenon
<1>4. PICK l \in Nat : l = Len(f)
  BY <1>3
<1>5. 1..l = 1..n
  BY <1>3, <1>4
<1> QED
  BY <1>1, <1>4, <1>5, SameUpTo

----------------------------------------------------------------------------
(* Splitter: a text is cut at its separators.                              *)

Span == Nat \X Nat

\* Where a separator ends, and the two ends of the text.
AllEnds(text) == {0, text.len} \cup UNION {text.ends[l] : l \in Level}

\* No separator ends inside a span that lies between two ends.
Solid(text, a, b) ==
    /\ a \in Nat /\ b \in Nat /\ 1 <= a /\ a <= b
    /\ a - 1 \in AllEnds(text) /\ b \in AllEnds(text)
    /\ \A e \in AllEnds(text) : e <= a - 1 \/ b <= e

\* A place where a text may be cut.
GoodCut(text, max, c) ==
    \/ c \in AllEnds(text)
    \/ \E a, b \in Nat : Solid(text, a, b) /\ a <= c /\ c < b /\ b - a + 1 > max

\* Spans that follow each other from a to b, none longer than max.
Tiling(parts, max, a, b) ==
    /\ parts \in Seq(Span) /\ Len(parts) >= 1
    /\ parts[1][1] = a /\ parts[Len(parts)][2] = b
    /\ \A i \in 1..Len(parts) : parts[i][1] <= parts[i][2] /\ Length(parts[i]) <= max
    /\ \A i \in 1..Len(parts) - 1 : parts[i + 1][1] = parts[i][2] + 1

CutWell(text, parts, max) == \A i \in 1..Len(parts) - 1 : GoodCut(text, max, parts[i][2])

Split(text, parts, max, a, b) == Tiling(parts, max, a, b) /\ CutWell(text, parts, max)

LEMMA EndsAreNumbers ==
    ASSUME NEW text \in Text
    PROVE  /\ text.len \in Nat /\ text.ends \in [Level -> SUBSET Nat]
           /\ \A e \in AllEnds(text) : e \in 0..text.len
           /\ \A l \in Level : text.ends[l] \subseteq AllEnds(text)
           /\ 0 \in AllEnds(text) /\ text.len \in AllEnds(text)
<1>1. text.len \in Nat /\ text.ends \in [Level -> SUBSET Nat] /\ Separated(text)
  BY DEF Text
<1>2. ASSUME NEW l \in Level, NEW p \in text.ends[l] PROVE p \in 0..text.len
  <2>1. p \in Nat /\ p <= text.len
    BY <1>1 DEF Separated
  <2> QED
    BY <1>1, <2>1
<1> QED
  BY <1>1, <1>2 DEF AllEnds

LEMMA OneSpan ==
    ASSUME NEW text, NEW max \in Nat, NEW a \in Nat, NEW b \in Nat, a <= b, b - a + 1 <= max
    PROVE  Split(text, <<<<a, b>>>>, max, a, b)
<1>1. <<a, b>> \in Span /\ <<<<a, b>>>> \in Seq(Span) /\ Len(<<<<a, b>>>>) = 1
  BY DEF Span
<1>2. <<<<a, b>>>>[1] = <<a, b>>
  OBVIOUS
<1> QED
  BY <1>1, <1>2 DEF Split, Tiling, CutWell, Length

LEMMA TilingTyped ==
    ASSUME NEW parts, NEW max, NEW a, NEW b, Tiling(parts, max, a, b)
    PROVE  /\ Len(parts) \in Nat \ {0} /\ a \in Nat /\ b \in Nat
           /\ \A i \in 1..Len(parts) : parts[i] \in Span /\ parts[i][1] \in Nat /\ parts[i][2] \in Nat
                                       /\ parts[i] = <<parts[i][1], parts[i][2]>>
<1>1. parts \in Seq(Span) /\ Len(parts) >= 1 /\ parts[1][1] = a /\ parts[Len(parts)][2] = b
  BY DEF Tiling
<1>2. Len(parts) \in Nat \ {0}
  BY <1>1
<1>3. \A i \in 1..Len(parts) : parts[i] \in Span
  BY <1>1
<1>4. \A i \in 1..Len(parts) : parts[i][1] \in Nat /\ parts[i][2] \in Nat
                               /\ parts[i] = <<parts[i][1], parts[i][2]>>
  BY <1>3 DEF Span
<1>5. 1 \in 1..Len(parts) /\ Len(parts) \in 1..Len(parts)
  BY <1>2
<1> QED
  BY <1>1, <1>2, <1>3, <1>4, <1>5

\* Two splits, one after the other.
LEMMA SplitsJoin ==
    ASSUME NEW text, NEW max \in Nat, NEW s, NEW t, NEW a, NEW b, NEW c \in Nat,
           Split(text, s, max, a, c), Split(text, t, max, c + 1, b), GoodCut(text, max, c)
    PROVE  Split(text, s \o t, max, a, b)
<1> DEFINE u == s \o t
<1>1. PICK m \in Nat \ {0} : m = Len(s)
  BY TilingTyped DEF Split
<1>2. PICK n \in Nat \ {0} : n = Len(t)
  BY TilingTyped DEF Split
<1>3. s \in Seq(Span) /\ t \in Seq(Span)
  BY DEF Split, Tiling
<1>4. u \in Seq(Span) /\ Len(u) = m + n
  BY <1>1, <1>2, <1>3, ConcatProperties
<1>5. \A i \in 1..(m + n) : u[i] = IF i <= m THEN s[i] ELSE t[i - m]
  BY <1>1, <1>2, <1>3, ConcatProperties
<1> HIDE DEF u
<1>6. \A i \in 1..m : u[i] = s[i]
  <2> TAKE i \in 1..m
  <2>1. i \in 1..(m + n) /\ i <= m
    OBVIOUS
  <2> QED
    BY <1>5, <2>1
<1>7. \A i \in 1..n : u[m + i] = t[i]
  <2> TAKE i \in 1..n
  <2>1. m + i \in 1..(m + n) /\ ~ (m + i <= m) /\ (m + i) - m = i
    OBVIOUS
  <2> QED
    BY <1>5, <2>1
<1>8. \A i \in 1..(m + n) : i \in 1..m \/ \E j \in 1..n : i = m + j
  <2> TAKE i \in 1..(m + n)
  <2>1. CASE i > m
    <3>1. i - m \in 1..n /\ i = m + (i - m)
      BY <2>1
    <3> QED
      BY <3>1
  <2> QED
    BY <2>1
<1>9. /\ s[1][1] = a /\ s[m][2] = c /\ t[1][1] = c + 1 /\ t[n][2] = b
      /\ \A i \in 1..m : s[i][1] <= s[i][2] /\ Length(s[i]) <= max
      /\ \A i \in 1..n : t[i][1] <= t[i][2] /\ Length(t[i]) <= max
      /\ \A i \in 1..m - 1 : s[i + 1][1] = s[i][2] + 1
      /\ \A i \in 1..n - 1 : t[i + 1][1] = t[i][2] + 1
  BY <1>1, <1>2 DEF Split, Tiling
<1>10. u[1][1] = a /\ u[m + n][2] = b
  <2>1. 1 \in 1..m /\ n \in 1..n
    OBVIOUS
  <2> QED
    BY <1>6, <1>7, <1>9, <2>1
<1>11. \A i \in 1..(m + n) : u[i][1] <= u[i][2] /\ Length(u[i]) <= max
  BY <1>6, <1>7, <1>8, <1>9
<1>12. ASSUME NEW i \in 1..(m + n) - 1
       PROVE  u[i + 1][1] = u[i][2] + 1 /\ GoodCut(text, max, u[i][2])
  <2>1. CASE i < m
    <3>1. i \in 1..m - 1 /\ i \in 1..m /\ i + 1 \in 1..m
      BY <2>1
    <3>2. GoodCut(text, max, s[i][2])
      BY <1>1, <3>1 DEF Split, CutWell
    <3> QED
      BY <1>6, <1>9, <3>1, <3>2
  <2>2. CASE i = m
    <3>1. i \in 1..m /\ 1 \in 1..n /\ i + 1 = m + 1
      BY <2>2
    <3>2. u[i] = s[m] /\ u[i + 1] = t[1]
      BY <1>6, <1>7, <2>2, <3>1
    <3> QED
      BY <1>9, <3>2
  <2>3. CASE i > m
    <3>1. PICK j \in 1..n - 1 : i = m + j
      <4>1. i - m \in 1..n - 1 /\ i = m + (i - m)
        BY <2>3
      <4> QED
        BY <4>1
    <3>2. j \in 1..n /\ j + 1 \in 1..n /\ i + 1 = m + (j + 1)
      BY <3>1
    <3>3. u[i] = t[j] /\ u[i + 1] = t[j + 1]
      BY <1>7, <3>1, <3>2
    <3>4. GoodCut(text, max, t[j][2])
      BY <1>2, <3>1 DEF Split, CutWell
    <3> QED
      BY <1>9, <3>3, <3>4
  <2> QED
    BY <2>1, <2>2, <2>3
<1>13. Tiling(u, max, a, b)
  BY <1>4, <1>10, <1>11, <1>12 DEF Tiling
<1>14. CutWell(text, u, max)
  BY <1>4, <1>12 DEF CutWell
<1> QED
  BY <1>13, <1>14 DEF Split, u

\* One more span.
LEMMA SplitAppend ==
    ASSUME NEW text, NEW max \in Nat, NEW s, NEW a, NEW b \in Nat, NEW c \in Nat,
           Split(text, s, max, a, c), c + 1 <= b, b - c <= max, GoodCut(text, max, c)
    PROVE  Split(text, Append(s, <<c + 1, b>>), max, a, b)
<1>1. c + 1 \in Nat /\ b - (c + 1) + 1 <= max
  OBVIOUS
<1>2. Split(text, <<<<c + 1, b>>>>, max, c + 1, b)
  BY <1>1, OneSpan
<1>3. s \in Seq(Span) /\ <<c + 1, b>> \in Span
  BY <1>1 DEF Split, Tiling, Span
<1>4. Append(s, <<c + 1, b>>) = s \o <<<<c + 1, b>>>>
  BY <1>3, AppendIsConcat
<1> QED
  BY <1>2, <1>4, SplitsJoin

----------------------------------------------------------------------------
(* Splitter: windows of a stretch without separators.                      *)

LEMMA Multiples ==
    ASSUME NEW i \in Nat, NEW q \in Nat, NEW m \in Nat, i <= q
    PROVE  i * m <= q * m /\ i * m \in Nat /\ q * m \in Nat /\ (i + 1) * m = i * m + m
<1>1. PICK d \in Nat : q = i + d
  <2>1. q - i \in Nat /\ q = i + (q - i)
    OBVIOUS
  <2> QED
    BY <2>1
<1>2. (i + d) * m = i * m + d * m
  OBVIOUS
<1>3. i * m \in Nat /\ d * m \in Nat /\ q * m \in Nat
  OBVIOUS
<1>4. (i + 1) * m = i * m + m
  OBVIOUS
<1> QED
  BY <1>1, <1>2, <1>3, <1>4

LEMMA HardSplitSplits ==
    ASSUME NEW text, NEW max \in Nat \ {0}, NEW a, NEW b, Solid(text, a, b), b - a + 1 > max
    PROVE  Split(text, HardSplit(a, b, max), max, a, b)
<1>0. a \in Nat /\ b \in Nat /\ 1 <= a /\ a <= b
  BY DEF Solid
<1>1. PICK q \in Nat : q = (b - a) \div max /\ q * max <= b - a /\ b - a < q * max + max
  BY <1>0, Quotient
<1>2. PICK parts : parts = HardSplit(a, b, max)
  OBVIOUS
<1>3. parts = [i \in 1..(q + 1) |->
                  <<a + (i - 1) * max, IF a + i * max - 1 < b THEN a + i * max - 1 ELSE b>>]
  BY <1>1, <1>2 DEF HardSplit
<1>4. ASSUME NEW i \in 1..(q + 1)
      PROVE  \E w \in Nat : /\ w = (i - 1) * max /\ i * max = w + max /\ a + w <= b
                            /\ i <= q => a + w + max - 1 < b
                            /\ i = q + 1 => a + w + max - 1 >= b
  <2>1. PICK w \in Nat : w = (i - 1) * max /\ i * max = w + max /\ w <= q * max
    <3>1. i - 1 \in Nat /\ i - 1 <= q /\ (i - 1) + 1 = i
      OBVIOUS
    <3> QED
      BY <3>1, Multiples
  <2>2. i <= q => i * max <= q * max
    BY Multiples
  <2>3. i = q + 1 => w = q * max
    <3>1. i = q + 1 => i - 1 = q
      OBVIOUS
    <3> QED
      BY <2>1, <3>1
  <2>4. PICK v \in Nat : v = q * max
    BY Multiples
  <2> QED
    BY <1>0, <1>1, <2>1, <2>2, <2>3, <2>4
<1>5. ASSUME NEW i \in 1..(q + 1)
      PROVE  \E w \in Nat : /\ parts[i] = <<a + w, IF i <= q THEN a + w + max - 1 ELSE b>>
                            /\ w = (i - 1) * max /\ i * max = w + max /\ a + w <= b
                            /\ i <= q => a + w + max - 1 < b
                            /\ i = q + 1 => a + w + max - 1 >= b
  <2>1. PICK w \in Nat : /\ w = (i - 1) * max /\ i * max = w + max /\ a + w <= b
                         /\ i <= q => a + w + max - 1 < b
                         /\ i = q + 1 => a + w + max - 1 >= b
    BY <1>4
  <2>2. parts[i] = <<a + w, IF a + (w + max) - 1 < b THEN a + (w + max) - 1 ELSE b>>
    BY <1>3, <2>1
  <2>3. i <= q \/ i = q + 1
    OBVIOUS
  <2>4. (IF a + (w + max) - 1 < b THEN a + (w + max) - 1 ELSE b) = IF i <= q THEN a + w + max - 1 ELSE b
    BY <1>0, <2>1, <2>3
  <2> QED
    BY <2>1, <2>2, <2>4
<1>6. ASSUME NEW i \in 1..(q + 1)
      PROVE  /\ parts[i] \in Span /\ parts[i][1] <= parts[i][2] /\ Length(parts[i]) <= max
             /\ i <= q => a <= parts[i][2] /\ parts[i][2] < b
  <2>1. PICK w \in Nat : /\ parts[i] = <<a + w, IF i <= q THEN a + w + max - 1 ELSE b>>
                         /\ w = (i - 1) * max /\ i * max = w + max /\ a + w <= b
                         /\ i <= q => a + w + max - 1 < b
                         /\ i = q + 1 => a + w + max - 1 >= b
    BY <1>5
  <2>2. PICK x \in Nat, y \in Nat : parts[i] = <<x, y>> /\ x = a + w /\ y = IF i <= q THEN a + w + max - 1 ELSE b
    <3>1. a + w \in Nat /\ a + w + max - 1 \in Nat /\ b \in Nat
      BY <1>0
    <3>2. (IF i <= q THEN a + w + max - 1 ELSE b) \in Nat
      BY <3>1
    <3> QED
      BY <2>1, <3>1, <3>2, Zenon
  <2>3. x <= y /\ y - x + 1 <= max /\ (i <= q => a <= y /\ y < b)
    <3>1. CASE i <= q
      <4>1. y = a + w + max - 1 /\ a + w + max - 1 < b
        BY <2>1, <2>2, <3>1
      <4> QED
        BY <1>0, <2>2, <4>1
    <3>2. CASE ~ (i <= q)
      <4>1. y = b /\ a + w + max - 1 >= b /\ a + w <= b
        BY <2>1, <2>2, <3>2
      <4> QED
        BY <1>0, <2>2, <3>2, <4>1
    <3> QED
      BY <3>1, <3>2
  <2> QED
    BY <2>2, <2>3 DEF Span, Length
<1>7. parts \in Seq(Span) /\ Len(parts) = q + 1
  <2>1. parts \in [1..(q + 1) -> Span]
    BY <1>3, <1>6
  <2> QED
    BY <2>1, FunctionSeq
<1>8. parts[1][1] = a
  <2>1. 1 \in 1..(q + 1) /\ 1 - 1 = 0 /\ 0 * max = 0
    OBVIOUS
  <2>2. PICK w \in Nat : parts[1] = <<a + w, IF 1 <= q THEN a + w + max - 1 ELSE b>> /\ w = (1 - 1) * max
    BY <1>5, <2>1
  <2> QED
    BY <1>0, <2>1, <2>2
<1>9. parts[q + 1][2] = b
  <2>1. q + 1 \in 1..(q + 1) /\ ~ (q + 1 <= q)
    OBVIOUS
  <2> QED
    BY <1>5, <2>1
<1>10. ASSUME NEW i \in 1..(q + 1) - 1 PROVE parts[i + 1][1] = parts[i][2] + 1
  <2>1. i \in 1..(q + 1) /\ i <= q /\ i + 1 \in 1..(q + 1) /\ (i + 1) - 1 = i
    OBVIOUS
  <2>2. PICK w \in Nat : parts[i] = <<a + w, IF i <= q THEN a + w + max - 1 ELSE b>> /\ i * max = w + max
    BY <1>5, <2>1
  <2>3. PICK v \in Nat : parts[i + 1] = <<a + v, IF i + 1 <= q THEN a + v + max - 1 ELSE b>> /\ v = ((i + 1) - 1) * max
    BY <1>5, <2>1
  <2>4. v = w + max
    BY <2>1, <2>2, <2>3
  <2>5. parts[i][2] = a + w + max - 1 /\ parts[i + 1][1] = a + v
    BY <2>1, <2>2, <2>3
  <2> QED
    BY <1>0, <2>4, <2>5
<1>11. Tiling(parts, max, a, b)
  BY <1>6, <1>7, <1>8, <1>9, <1>10 DEF Tiling
<1>12. CutWell(text, parts, max)
  <2> SUFFICES ASSUME NEW i \in 1..Len(parts) - 1 PROVE GoodCut(text, max, parts[i][2])
    BY DEF CutWell
  <2>1. i \in 1..(q + 1) /\ i <= q
    BY <1>7
  <2>2. a <= parts[i][2] /\ parts[i][2] < b
    BY <1>6, <2>1
  <2> QED
    BY <1>0, <2>2 DEF GoodCut
<1> QED
  BY <1>2, <1>11, <1>12 DEF Split

LEMMA WindowsTyped ==
    ASSUME NEW text, NEW max \in Nat \ {0}, NEW a, NEW b, Solid(text, a, b)
    PROVE  HardSplit(a, b, max) \in Seq(Span)
<1>0. a \in Nat /\ b \in Nat /\ 1 <= a /\ a <= b
  BY DEF Solid
<1>1. PICK q \in Nat : q = (b - a) \div max
  BY <1>0, Quotient
<1>2. PICK parts : parts = HardSplit(a, b, max)
  OBVIOUS
<1>3. parts = [i \in 1..(q + 1) |->
                  <<a + (i - 1) * max, IF a + i * max - 1 < b THEN a + i * max - 1 ELSE b>>]
  BY <1>1, <1>2 DEF HardSplit
<1>4. ASSUME NEW i \in 1..(q + 1) PROVE parts[i] \in Span
  <2>1. i - 1 \in Nat /\ i \in Nat /\ i >= 1
    OBVIOUS
  <2>2. (i - 1) * max \in Nat /\ i * max \in Nat
    BY <2>1, Multiples
  <2>3. a + (i - 1) * max \in Nat /\ a + i * max - 1 \in Nat
    BY <1>0, <2>2
  <2> QED
    BY <1>0, <1>3, <2>3 DEF Span
<1>5. parts \in [1..(q + 1) -> Span]
  BY <1>3, <1>4
<1> QED
  BY <1>2, <1>5, FunctionSeq

----------------------------------------------------------------------------
(* Splitter: the pieces between the separators of one level.               *)

\* A span that the separators before level k leave whole.
Clear(text, k, a, b) ==
    /\ a \in Nat /\ b \in Nat /\ 1 <= a /\ a <= b
    /\ a - 1 \in AllEnds(text) /\ b \in AllEnds(text)
    /\ \A l \in Level : l < k => \A e \in text.ends[l] : e <= a - 1 \/ b <= e
    /\ k = 1 => a = 1

\* A separator of which only the end is in the span would be across its edge.
LEMMA NoneAcross ==
    ASSUME NEW text \in Text, NEW k \in 1..6, NEW a, NEW b, Clear(text, k, a, b),
           NEW l \in Level, l >= k, NEW e \in text.ends[l], a <= e, e <= b
    PROVE  e \in Ends(text, l, a, b)
<1>1. /\ a \in Nat /\ b \in Nat /\ e \in Nat /\ Separated(text) /\ text.len \in Nat
      /\ text.ends \in [Level -> SUBSET Nat]
  BY DEF Text, Clear
<1>2. Width[l] <= e /\ Width[l] \in {1, 2}
  BY <1>1 DEF Separated, Width, Level
<1>3. CASE Width[l] = 1
  BY <1>1, <1>3 DEF Ends
<1>4. CASE Width[l] = 2
  <2>1. l \in {1, 3, 4}
    BY <1>4 DEF Width, Level
  <2>2. a = 1 => a + Width[l] - 1 <= e
    BY <1>2, <1>4
  <2>3. CASE a # 1
    <3>1. l \in {3, 4}
      BY <2>1, <2>3 DEF Clear
    <3>2. e <= text.len /\ \A m \in Level : e - 1 \notin text.ends[m]
      BY <1>1, <3>1 DEF Separated
    <3>3. a - 1 # 0 /\ a - 1 # text.len
      BY <1>1, <2>3, <3>2
    <3>4. \E m \in Level : a - 1 \in text.ends[m]
      BY <3>3 DEF Clear, AllEnds
    <3>5. e - 1 # a - 1
      BY <3>2, <3>4
    <3> QED
      BY <1>1, <1>4, <3>5 DEF Ends
  <2> QED
    BY <1>1, <2>2, <2>3 DEF Ends
<1> QED
  BY <1>2, <1>3, <1>4

\* Pieces of a span, one after the other, each whole with a level more.
PiecesOf(text, k, m, pieces, a, b) ==
    /\ pieces \in Seq(Span) /\ Len(pieces) >= 1
    /\ pieces[1][1] = a /\ pieces[Len(pieces)][2] = b
    /\ \A i \in 1..Len(pieces) - 1 : pieces[i + 1][1] = pieces[i][2] + 1
    /\ \A i \in 1..Len(pieces) : Clear(text, k + 1, pieces[i][1], pieces[i][2])
    /\ m = 5 => \A i \in 1..Len(pieces) : Solid(text, pieces[i][1], pieces[i][2])

\* What the cuts of a level leave of the other separators.
LEMMA BetweenCuts ==
    ASSUME NEW text \in Text, NEW k \in 1..5, NEW a, NEW b, Clear(text, k, a, b), NEW m \in k..5,
           \A l \in k..5 : l < m => Ends(text, l, a, b) = {},
           NEW x \in Nat, NEW y \in Nat, a <= x, x <= y, y <= b, x - 1 \in AllEnds(text), y \in AllEnds(text),
           \A e \in Ends(text, m, a, b) : e <= x - 1 \/ y <= e
    PROVE  Clear(text, k + 1, x, y) /\ (m = 5 => Solid(text, x, y))
<1>0. a \in Nat /\ b \in Nat /\ 1 <= a /\ text.ends \in [Level -> SUBSET Nat]
  BY DEF Clear, Text
<1>1. ASSUME NEW l \in Level, l <= m, NEW e \in text.ends[l]
      PROVE  e <= x - 1 \/ y <= e
  <2> SUFFICES ASSUME x <= e, e < y PROVE FALSE
    BY <1>0
  <2>1. a <= e /\ e <= b /\ e < b /\ ~ (e <= a - 1)
    BY <1>0
  <2>2. l >= k
    <3>1. l < k => e <= a - 1 \/ b <= e
      BY DEF Clear
    <3>2. ~ (b <= e)
      BY <1>0, <2>1
    <3> QED
      BY <2>1, <3>1, <3>2 DEF Level
  <2>3. e \in Ends(text, l, a, b)
    BY <1>1, <2>1, <2>2, NoneAcross
  <2>4. l = m
    BY <1>1, <2>2, <2>3 DEF Level
  <2> QED
    BY <1>0, <2>3, <2>4
<1>2. \A l \in Level : l < k + 1 => l <= m
  BY DEF Level
<1>3. Clear(text, k + 1, x, y)
  BY <1>0, <1>1, <1>2 DEF Clear
<1>4. ASSUME m = 5 PROVE Solid(text, x, y)
  <2>1. \A l \in Level : l <= m
    BY <1>4 DEF Level
  <2>2. \A e \in AllEnds(text) : e <= x - 1 \/ y <= e
    <3> TAKE e \in AllEnds(text)
    <3>1. text.len \in Nat /\ y <= text.len
      BY EndsAreNumbers
    <3>2. 1 <= x
      BY <1>0
    <3> QED
      BY <1>1, <2>1, <3>1, <3>2 DEF AllEnds
  <2> QED
    BY <1>0, <2>2 DEF Solid
<1> QED
  BY <1>3, <1>4

LEMMA PiecesWhole ==
    ASSUME NEW text \in Text, NEW k \in 1..5, NEW a, NEW b, Clear(text, k, a, b), NEW m \in k..5,
           \A l \in k..5 : l < m => Ends(text, l, a, b) = {}
    PROVE  PiecesOf(text, k, m, Pieces(text, m, a, b), a, b)
<1> DEFINE T == Ends(text, m, a, b) \cup {b}
<1>0. /\ a \in Nat /\ b \in Nat /\ 1 <= a /\ a <= b /\ a - 1 \in AllEnds(text) /\ b \in AllEnds(text)
      /\ text.ends \in [Level -> SUBSET Nat] /\ m \in Level
  BY DEF Clear, Text, Level
<1>1. T \subseteq a..b /\ T \subseteq AllEnds(text)
  <2>1. Width[m] \in {1, 2}
    BY <1>0 DEF Width, Level
  <2>2. \A e \in Ends(text, m, a, b) : e \in a..b /\ e \in text.ends[m]
    BY <1>0, <2>1 DEF Ends
  <2> QED
    BY <1>0, <2>2, EndsAreNumbers
<1>2. IsFiniteSet(T) /\ T \in SUBSET Int
  <2>1. a..b \in SUBSET Int /\ IsFiniteSet(a..b)
    BY <1>0, FS_Interval
  <2> HIDE DEF T
  <2> QED
    BY <1>1, <2>1, FS_Subset
<1>3. PICK cuts : cuts = InOrderOf(T, <)
  OBVIOUS
<1>4. Increasing(cuts, T)
  BY <1>2, <1>3, NumbersInOrder
<1>5. PICK n \in Nat : n = Cardinality(T)
  BY <1>4 DEF Increasing
<1>6. /\ DOMAIN cuts = 1..n
      /\ \A i \in 1..n : cuts[i] \in T
      /\ \A e \in T : \E i \in 1..n : cuts[i] = e
      /\ \A i, j \in 1..n : i < j <=> cuts[i] < cuts[j]
  BY <1>4, <1>5 DEF Increasing
<1>7. Pieces(text, m, a, b) = [i \in 1..n |-> <<IF i = 1 THEN a ELSE cuts[i - 1] + 1, cuts[i]>>]
  BY <1>3, <1>6 DEF Pieces
<1>8. b \in T
  OBVIOUS
<1> HIDE DEF T
<1>9. \A i \in 1..n : cuts[i] \in Nat /\ a <= cuts[i] /\ cuts[i] <= b /\ cuts[i] \in AllEnds(text)
  <2> TAKE i \in 1..n
  <2>1. cuts[i] \in T
    BY <1>6
  <2>2. cuts[i] \in a..b /\ cuts[i] \in AllEnds(text)
    BY <1>1, <2>1
  <2> QED
    BY <1>0, <2>2
<1>10. n >= 1 /\ cuts[n] = b
  <2>1. PICK j \in 1..n : cuts[j] = b
    BY <1>6, <1>8
  <2>2. n \in 1..n /\ (j = n \/ j < n)
    BY <2>1
  <2>3. j < n => FALSE
    BY <1>0, <1>6, <1>9, <2>1, <2>2
  <2> QED
    BY <2>1, <2>2, <2>3
<1>11. PICK pieces : pieces = Pieces(text, m, a, b)
  OBVIOUS
<1>12. ASSUME NEW i \in 1..n
       PROVE  \E x \in Nat, y \in Nat :
                 /\ pieces[i] = <<x, y>> /\ y = cuts[i] /\ a <= x /\ x <= y /\ y <= b
                 /\ x = IF i = 1 THEN a ELSE cuts[i - 1] + 1
                 /\ x - 1 \in AllEnds(text) /\ y \in AllEnds(text)
                 /\ \A e \in T : e <= x - 1 \/ y <= e
  <2>1. PICK y \in Nat : y = cuts[i] /\ a <= y /\ y <= b /\ y \in AllEnds(text)
    BY <1>9
  <2>2. CASE i = 1
    <3>1. pieces[i] = <<a, y>>
      BY <1>7, <1>11, <2>1, <2>2
    <3>2. \A e \in T : y <= e
      <4> TAKE e \in T
      <4>1. PICK j \in 1..n : cuts[j] = e
        BY <1>6
      <4>2. j = i \/ i < j
        BY <2>2
      <4> QED
        BY <1>6, <1>9, <2>1, <4>1, <4>2
    <3> QED
      BY <1>0, <2>1, <2>2, <3>1, <3>2
  <2>3. CASE i # 1
    <3>1. i - 1 \in 1..n /\ i - 1 < i
      BY <2>3
    <3>2. PICK z \in Nat : z = cuts[i - 1] /\ a <= z /\ z <= b /\ z \in AllEnds(text)
      BY <1>9, <3>1
    <3>3. z < y
      BY <1>6, <2>1, <3>1, <3>2
    <3>4. pieces[i] = <<z + 1, y>>
      BY <1>7, <1>11, <2>1, <2>3, <3>2
    <3>5. \A e \in T : e <= z \/ y <= e
      <4> TAKE e \in T
      <4>1. PICK j \in 1..n : cuts[j] = e
        BY <1>6
      <4>2. j = i \/ i < j \/ j = i - 1 \/ j < i - 1
        OBVIOUS
      <4>3. i < j => y < e
        BY <1>6, <2>1, <4>1
      <4>4. j < i - 1 => e < z
        BY <1>6, <3>1, <3>2, <4>1
      <4>5. e \in Nat
        BY <1>9, <4>1
      <4> QED
        BY <2>1, <3>2, <4>1, <4>2, <4>3, <4>4, <4>5
    <3>6. z + 1 \in Nat /\ (z + 1) - 1 = z /\ a <= z + 1 /\ z + 1 <= y
      BY <3>2, <3>3, <1>0
    <3>7. z + 1 = IF i = 1 THEN a ELSE cuts[i - 1] + 1
      BY <2>3, <3>2
    <3> QED
      BY <2>1, <3>2, <3>4, <3>5, <3>6, <3>7
  <2> QED
    BY <2>2, <2>3
<1>13. \A i \in 1..n : pieces[i] \in Span
  <2> TAKE i \in 1..n
  <2>1. PICK x \in Nat, y \in Nat : pieces[i] = <<x, y>>
    BY <1>12
  <2> QED
    BY <2>1 DEF Span
<1>14. pieces \in Seq(Span) /\ Len(pieces) = n
  <2>1. pieces \in [1..n -> Span]
    BY <1>7, <1>11, <1>13
  <2> QED
    BY <2>1, FunctionSeq
<1>15. pieces[1][1] = a /\ pieces[n][2] = b
  <2>1. 1 \in 1..n /\ n \in 1..n
    BY <1>10
  <2>2. pieces[1][1] = a
    BY <1>12, <2>1
  <2>3. pieces[n][2] = cuts[n]
    BY <1>12, <2>1
  <2> QED
    BY <1>10, <2>2, <2>3
<1>16. ASSUME NEW i \in 1..n - 1 PROVE pieces[i + 1][1] = pieces[i][2] + 1
  <2>1. i \in 1..n /\ i + 1 \in 1..n /\ i + 1 # 1 /\ (i + 1) - 1 = i
    OBVIOUS
  <2>2. pieces[i][2] = cuts[i]
    BY <1>12, <2>1
  <2>3. PICK x \in Nat, y \in Nat : pieces[i + 1] = <<x, y>> /\ x = IF i + 1 = 1 THEN a ELSE cuts[(i + 1) - 1] + 1
    BY <1>12, <2>1
  <2> QED
    BY <2>1, <2>2, <2>3
<1>17. ASSUME NEW i \in 1..n
       PROVE  /\ Clear(text, k + 1, pieces[i][1], pieces[i][2])
              /\ m = 5 => Solid(text, pieces[i][1], pieces[i][2])
  <2>1. PICK x \in Nat, y \in Nat :
                 /\ pieces[i] = <<x, y>> /\ a <= x /\ x <= y /\ y <= b
                 /\ x - 1 \in AllEnds(text) /\ y \in AllEnds(text)
                 /\ \A e \in T : e <= x - 1 \/ y <= e
    BY <1>12
  <2>2. \A e \in Ends(text, m, a, b) : e <= x - 1 \/ y <= e
    BY <2>1 DEF T
  <2>3. Clear(text, k + 1, x, y) /\ (m = 5 => Solid(text, x, y))
    BY <2>1, <2>2, BetweenCuts
  <2> QED
    BY <2>1, <2>3
<1>18. PiecesOf(text, k, m, pieces, a, b)
  BY <1>10, <1>14, <1>15, <1>16, <1>17 DEF PiecesOf
<1> QED
  BY <1>11, <1>18

----------------------------------------------------------------------------
(* Splitter: the pieces are packed.                                        *)

\* Parts up to a place, or none yet.
Upto(text, parts, max, a, e) ==
    \/ parts = <<>> /\ e = a - 1
    \/ Split(text, parts, max, a, e) /\ GoodCut(text, max, e)

LEMMA UptoTyped ==
    ASSUME NEW text, NEW max, NEW s, NEW a \in Nat, NEW e, Upto(text, s, max, a, e), 1 <= a
    PROVE  s \in Seq(Span) /\ e \in Nat
<1>1. CASE s = <<>> /\ e = a - 1
  <2>1. <<>> \in Seq(Span)
    OBVIOUS
  <2> QED
    BY <1>1, <2>1
<1>2. CASE Split(text, s, max, a, e)
  BY <1>2, TilingTyped DEF Split, Tiling
<1> QED
  BY <1>1, <1>2 DEF Upto

LEMMA UptoJoin ==
    ASSUME NEW text, NEW max \in Nat, NEW s, NEW t, NEW a \in Nat, NEW b, NEW c \in Nat,
           Upto(text, s, max, a, c), Split(text, t, max, c + 1, b), GoodCut(text, max, b)
    PROVE  Upto(text, s \o t, max, a, b)
<1>1. CASE s = <<>> /\ c = a - 1
  <2>1. t \in Seq(Span)
    BY DEF Split, Tiling
  <2>2. s \o t = t
    BY <1>1, <2>1, ConcatEmptySeq
  <2>3. c + 1 = a
    BY <1>1
  <2> QED
    BY <2>2, <2>3 DEF Upto
<1>2. CASE Split(text, s, max, a, c) /\ GoodCut(text, max, c)
  <2>1. Split(text, s \o t, max, a, b)
    BY <1>2, SplitsJoin
  <2> QED
    BY <2>1 DEF Upto
<1> QED
  BY <1>1, <1>2 DEF Upto

LEMMA UptoAppend ==
    ASSUME NEW text, NEW max \in Nat, NEW s, NEW a \in Nat, NEW b \in Nat, NEW c \in Nat, 1 <= a,
           Upto(text, s, max, a, c), c + 1 <= b, b - c <= max, GoodCut(text, max, b)
    PROVE  Upto(text, Append(s, <<c + 1, b>>), max, a, b)
<1>1. c + 1 \in Nat /\ b - (c + 1) + 1 <= max
  OBVIOUS
<1>2. Split(text, <<<<c + 1, b>>>>, max, c + 1, b)
  BY <1>1, OneSpan
<1>3. s \in Seq(Span) /\ <<c + 1, b>> \in Span
  BY <1>1, UptoTyped DEF Span
<1>4. Append(s, <<c + 1, b>>) = s \o <<<<c + 1, b>>>>
  BY <1>3, AppendIsConcat
<1> QED
  BY <1>2, <1>4, UptoJoin

\* What the loop has when the pieces up to e are in.
Packed(text, acc, max, a, e) ==
    \/ acc.current = <<>> /\ Upto(text, acc.parts, max, a, e)
    \/ \E c \in Nat : /\ acc.current = <<c + 1, e>> /\ c + 1 <= e /\ e - c <= max
                      /\ Upto(text, acc.parts, max, a, c)

LEMMA FlushedHolds ==
    ASSUME NEW text, NEW max \in Nat, NEW acc, NEW a \in Nat, NEW e \in Nat, 1 <= a,
           Packed(text, acc, max, a, e), GoodCut(text, max, e)
    PROVE  Upto(text, Flushed(acc), max, a, e)
<1>1. CASE acc.current = <<>> /\ Upto(text, acc.parts, max, a, e)
  BY <1>1 DEF Flushed
<1>2. CASE \E c \in Nat : /\ acc.current = <<c + 1, e>> /\ c + 1 <= e /\ e - c <= max
                          /\ Upto(text, acc.parts, max, a, c)
  <2>1. PICK c \in Nat : /\ acc.current = <<c + 1, e>> /\ c + 1 <= e /\ e - c <= max
                         /\ Upto(text, acc.parts, max, a, c)
    BY <1>2
  <2>2. <<c + 1, e>> # <<>>
    OBVIOUS
  <2>3. Flushed(acc) = Append(acc.parts, <<c + 1, e>>)
    BY <2>1, <2>2 DEF Flushed
  <2> QED
    BY <2>1, <2>3, UptoAppend
<1> QED
  BY <1>1, <1>2 DEF Packed

LEMMA PieceHolds ==
    ASSUME NEW text, NEW max \in Nat, NEW acc, NEW a \in Nat, NEW e \in Nat, NEW f \in Nat, 1 <= a,
           Packed(text, acc, max, a, e), GoodCut(text, max, e), GoodCut(text, max, f), e + 1 <= f,
           NEW parts, f - e > max => Split(text, parts, max, e + 1, f)
    PROVE  Packed(text, WithPiece(acc, <<e + 1, f>>, parts, max), max, a, f)
<1> DEFINE piece == <<e + 1, f>>
           candidate == <<IF acc.current = <<>> THEN piece[1] ELSE acc.current[1], piece[2]>>
<1>0. Length(piece) = f - e
  BY DEF Length
<1>1. PICK c \in Nat : candidate = <<c + 1, f>> /\ c + 1 <= f /\ Upto(text, acc.parts, max, a, c)
  <2>1. CASE acc.current = <<>> /\ Upto(text, acc.parts, max, a, e)
    BY <2>1
  <2>2. CASE \E c \in Nat : /\ acc.current = <<c + 1, e>> /\ c + 1 <= e /\ e - c <= max
                            /\ Upto(text, acc.parts, max, a, c)
    <3>1. PICK c \in Nat : /\ acc.current = <<c + 1, e>> /\ c + 1 <= e
                           /\ Upto(text, acc.parts, max, a, c)
      BY <2>2
    <3>2. <<c + 1, e>> # <<>>
      OBVIOUS
    <3>3. candidate = <<c + 1, f>>
      BY <3>1, <3>2
    <3> QED
      BY <3>1, <3>3
  <2> QED
    BY <2>1, <2>2 DEF Packed
<1>2. Length(candidate) = f - c
  BY <1>1 DEF Length
<1>3. PICK next : next = WithPiece(acc, piece, parts, max)
  OBVIOUS
<1>4. next = IF Length(candidate) <= max THEN [parts |-> acc.parts, current |-> candidate]
             ELSE IF Length(piece) <= max THEN [parts |-> Flushed(acc), current |-> piece]
             ELSE [parts |-> Flushed(acc) \o parts, current |-> <<>>]
  BY <1>3 DEF WithPiece
<1>5. Upto(text, Flushed(acc), max, a, e)
  BY FlushedHolds
<1> HIDE DEF candidate
<1>6. CASE f - c <= max
  <2>1. next.parts = acc.parts /\ next.current = <<c + 1, f>>
    BY <1>1, <1>2, <1>4, <1>6
  <2>2. Packed(text, next, max, a, f)
    BY <1>1, <1>6, <2>1 DEF Packed
  <2> QED
    BY <1>3, <2>2
<1>7. CASE ~ (f - c <= max) /\ f - e <= max
  <2>1. next.parts = Flushed(acc) /\ next.current = <<e + 1, f>>
    BY <1>0, <1>1, <1>2, <1>4, <1>7
  <2>2. Packed(text, next, max, a, f)
    BY <1>5, <1>7, <2>1 DEF Packed
  <2> QED
    BY <1>3, <2>2
<1>8. CASE ~ (f - c <= max) /\ ~ (f - e <= max)
  <2>1. next.parts = Flushed(acc) \o parts /\ next.current = <<>>
    BY <1>0, <1>1, <1>2, <1>4, <1>8
  <2>2. Upto(text, Flushed(acc) \o parts, max, a, f)
    BY <1>5, <1>8, UptoJoin
  <2>3. Packed(text, next, max, a, f)
    BY <2>1, <2>2 DEF Packed
  <2> QED
    BY <1>3, <2>3
<1> QED
  BY <1>6, <1>7, <1>8

Accumulators == [parts : Seq(Span), current : Span \cup {<<>>}]

LEMMA WithPieceTyped ==
    ASSUME NEW acc \in Accumulators, NEW piece \in Span, NEW parts \in Seq(Span), NEW max
    PROVE  WithPiece(acc, piece, parts, max) \in Accumulators
<1>1. acc.parts \in Seq(Span) /\ acc.current \in Span \cup {<<>>}
  BY DEF Accumulators
<1>2. Flushed(acc) \in Seq(Span)
  BY <1>1, AppendProperties DEF Flushed
<1>3. Flushed(acc) \o parts \in Seq(Span)
  BY <1>2, ConcatProperties
<1> DEFINE candidate == <<IF acc.current = <<>> THEN piece[1] ELSE acc.current[1], piece[2]>>
<1>4. candidate \in Span
  BY <1>1 DEF Span
<1> HIDE DEF candidate
<1>5. WithPiece(acc, piece, parts, max) =
          IF Length(candidate) <= max THEN [parts |-> acc.parts, current |-> candidate]
          ELSE IF Length(piece) <= max THEN [parts |-> Flushed(acc), current |-> piece]
          ELSE [parts |-> Flushed(acc) \o parts, current |-> <<>>]
  BY DEF WithPiece, candidate
<1>6. /\ [parts |-> acc.parts, current |-> candidate] \in Accumulators
      /\ [parts |-> Flushed(acc), current |-> piece] \in Accumulators
      /\ [parts |-> Flushed(acc) \o parts, current |-> <<>>] \in Accumulators
  BY <1>1, <1>2, <1>3, <1>4 DEF Accumulators
<1> QED
  BY <1>5, <1>6

LEMMA PackingStep ==
    ASSUME NEW pieces \in Seq(Span), NEW split, NEW max, NEW N \in Nat, N = Len(pieces),
           \A i \in 1..N : split[i] \in Seq(Span)
    PROVE  /\ Packing(pieces, split, max)[0] = [parts |-> <<>>, current |-> <<>>]
           /\ \A n \in 1..N : Packing(pieces, split, max)[n] =
                                  WithPiece(Packing(pieces, split, max)[n - 1], pieces[n], split[n], max)
<1> DEFINE base == [parts |-> <<>>, current |-> <<>>]
           step == [p \in (1..N) \X Accumulators |-> WithPiece(p[2], pieces[p[1]], split[p[1]], max)]
           Equation(f) == f = [n \in 0..N |-> IF n = 0 THEN base
                                              ELSE WithPiece(f[n - 1], pieces[n], split[n], max)]
<1>1. base \in Accumulators
  <2>1. <<>> \in Seq(Span)
    OBVIOUS
  <2> QED
    BY <2>1 DEF Accumulators
<1>2. step \in [(1..N) \X Accumulators -> Accumulators]
  <2>1. \A p \in (1..N) \X Accumulators :
            WithPiece(p[2], pieces[p[1]], split[p[1]], max) \in Accumulators
    BY WithPieceTyped
  <2> QED
    BY <2>1
<1>3. \A n \in 1..N, acc \in Accumulators : step[<<n, acc>>] = WithPiece(acc, pieces[n], split[n], max)
  OBVIOUS
<1> HIDE DEF base, step
<1>4. PICK f \in [0..N -> Accumulators] : f[0] = base /\ \A n \in 1..N : f[n] = step[<<n, f[n - 1]>>]
  <2>1. \E f \in [0..N -> Accumulators] : Iterates(f, base, step, N)
    BY <1>1, <1>2, Recursion
  <2> QED
    BY <2>1 DEF Iterates
<1>5. \A n \in 1..N : f[n] = WithPiece(f[n - 1], pieces[n], split[n], max)
  <2> TAKE n \in 1..N
  <2>1. n - 1 \in 0..N
    OBVIOUS
  <2>2. f[n - 1] \in Accumulators
    BY <2>1
  <2> QED
    BY <1>3, <1>4, <2>2
<1>6. \A n \in 0..N : f[n] = IF n = 0 THEN base ELSE WithPiece(f[n - 1], pieces[n], split[n], max)
  BY <1>4, <1>5
<1>7. Equation(f)
  BY <1>4, <1>6
<1>8. Packing(pieces, split, max) = CHOOSE g : Equation(g)
  BY DEF Packing, base
<1> HIDE DEF Equation
<1>9. PICK g : g = Packing(pieces, split, max) /\ Equation(g)
  BY <1>7, <1>8
<1>10. g = [n \in 0..N |-> IF n = 0 THEN base ELSE WithPiece(g[n - 1], pieces[n], split[n], max)]
  BY <1>9 DEF Equation
<1>11. g[0] = base /\ \A n \in 1..N : g[n] = WithPiece(g[n - 1], pieces[n], split[n], max)
  BY <1>10
<1> QED
  BY <1>9, <1>11 DEF base

----------------------------------------------------------------------------
(* Splitter: one call of _recursive_split, and all of them.                *)

LEMMA LeastIs ==
    ASSUME NEW T, T \subseteq Nat, T # {}
    PROVE  Min(T) \in T /\ \A y \in T : Min(T) <= y
<1>1. PICK t \in T : TRUE
  OBVIOUS
<1> DEFINE S == {n \in Nat : \A y \in T : n < y}
<1>2. \E x \in T : \A y \in T : x <= y
  <2> SUFFICES ASSUME \A x \in T : \E y \in T : y < x PROVE FALSE
    OBVIOUS
  <2>1. 0 \in S
    <3>1. \A y \in T : y # 0
      OBVIOUS
    <3> QED
      BY <3>1
  <2>2. ASSUME NEW n \in Nat, n \in S PROVE n + 1 \in S
    <3>1. \A y \in T : y # n + 1
      BY <2>2
    <3> QED
      BY <2>2, <3>1
  <2> HIDE DEF S
  <2>3. Nat \subseteq S
    BY <2>1, <2>2, NatInduct
  <2>4. t \in S
    BY <1>1, <2>3
  <2> QED
    BY <1>1, <2>4 DEF S
<1> QED
  BY <1>2 DEF Min

\* The loop of one call, over pieces that are whole with a level more.
LEMMA PackingSplits ==
    ASSUME NEW text \in Text, NEW max \in Nat \ {0}, NEW k \in 1..5, NEW a, NEW b, Clear(text, k, a, b),
           NEW m, NEW pieces, PiecesOf(text, k, m, pieces, a, b), NEW split,
           \A i \in 1..Len(pieces) : /\ split[i] \in Seq(Span)
                                     /\ Length(pieces[i]) > max =>
                                            Split(text, split[i], max, pieces[i][1], pieces[i][2])
    PROVE  Split(text, Flushed(Packing(pieces, split, max)[Len(pieces)]), max, a, b)
<1>0. a \in Nat /\ b \in Nat /\ 1 <= a /\ a <= b /\ a - 1 \in AllEnds(text) /\ b \in AllEnds(text)
  BY DEF Clear
<1>1. PICK n \in Nat : n = Len(pieces) /\ n >= 1
  BY LenProperties DEF PiecesOf
<1>2. /\ pieces \in Seq(Span)
      /\ pieces[1][1] = a /\ pieces[n][2] = b
      /\ \A i \in 1..n - 1 : pieces[i + 1][1] = pieces[i][2] + 1
      /\ \A i \in 1..n : Clear(text, k + 1, pieces[i][1], pieces[i][2])
  BY <1>1 DEF PiecesOf
<1>3. PICK after : after = Packing(pieces, split, max)
  OBVIOUS
<1>4. after[0] = [parts |-> <<>>, current |-> <<>>]
  BY <1>1, <1>2, <1>3, PackingStep
<1>5. \A i \in 1..n : after[i] = WithPiece(after[i - 1], pieces[i], split[i], max)
  <2>1. \A i \in 1..n : split[i] \in Seq(Span)
    BY <1>1
  <2>2. \A i \in 1..n : Packing(pieces, split, max)[i] =
                            WithPiece(Packing(pieces, split, max)[i - 1], pieces[i], split[i], max)
    <3>1. pieces \in Seq(Span) /\ n \in Nat /\ n = Len(pieces)
      BY <1>1, <1>2
    <3> QED
      BY <2>1, <3>1, PackingStep
  <2> QED
    BY <1>3, <2>2, Zenon
<1> DEFINE EndOf(i) == IF i = 0 THEN a - 1 ELSE pieces[i][2]
           Done == {i \in 0..n : Packed(text, after[i], max, a, EndOf(i))}
<1>6. ASSUME NEW i \in 1..n
      PROVE  /\ EndOf(i - 1) \in Nat /\ EndOf(i) \in Nat /\ EndOf(i - 1) + 1 <= EndOf(i)
             /\ pieces[i] = <<EndOf(i - 1) + 1, EndOf(i)>>
             /\ GoodCut(text, max, EndOf(i - 1)) /\ GoodCut(text, max, EndOf(i))
  <2>1. \A j \in 1..n : /\ pieces[j] = <<pieces[j][1], pieces[j][2]>>
                        /\ pieces[j][1] \in Nat /\ pieces[j][2] \in Nat
                        /\ pieces[j][1] <= pieces[j][2] /\ pieces[j][2] \in AllEnds(text)
    <3> TAKE j \in 1..n
    <3>1. pieces[j] \in Span
      BY <1>1, <1>2
    <3>2. Clear(text, k + 1, pieces[j][1], pieces[j][2])
      BY <1>2
    <3> QED
      BY <3>1, <3>2 DEF Span, Clear
  <2>2. EndOf(i) = pieces[i][2]
    OBVIOUS
  <2>3. CASE i = 1
    <3>1. EndOf(i - 1) = a - 1
      BY <2>3
    <3> QED
      BY <1>0, <1>2, <2>1, <2>2, <2>3, <3>1 DEF GoodCut
  <2>4. CASE i # 1
    <3>1. i - 1 \in 1..n - 1 /\ i - 1 \in 1..n /\ (i - 1) + 1 = i /\ i - 1 # 0
      BY <2>4
    <3>2. EndOf(i - 1) = pieces[i - 1][2]
      BY <3>1
    <3>3. pieces[i][1] = pieces[i - 1][2] + 1
      BY <1>2, <3>1
    <3> QED
      BY <2>1, <2>2, <3>1, <3>2, <3>3 DEF GoodCut
  <2> QED
    BY <2>3, <2>4
<1>7. 0 \in Done
  <2>1. after[0].current = <<>> /\ after[0].parts = <<>>
    BY <1>4
  <2>2. Packed(text, after[0], max, a, a - 1)
    BY <2>1 DEF Packed, Upto
  <2> QED
    BY <2>2
<1>8. ASSUME NEW i \in 1..n, i - 1 \in Done PROVE i \in Done
  <2>1. Packed(text, after[i - 1], max, a, EndOf(i - 1))
    BY <1>8
  <2> HIDE DEF EndOf
  <2>2. PICK e \in Nat, f \in Nat : /\ e = EndOf(i - 1) /\ f = EndOf(i) /\ e + 1 <= f
                                    /\ pieces[i] = <<e + 1, f>> /\ GoodCut(text, max, e) /\ GoodCut(text, max, f)
    BY <1>6
  <2>3. Length(pieces[i]) = f - e
    BY <2>2 DEF Length
  <2>4. f - e > max => Split(text, split[i], max, e + 1, f)
    <3>1. i \in 1..Len(pieces)
      BY <1>1
    <3>2. Length(pieces[i]) > max => Split(text, split[i], max, pieces[i][1], pieces[i][2])
      BY <3>1
    <3>3. pieces[i][1] = e + 1 /\ pieces[i][2] = f
      BY <2>2
    <3> QED
      BY <2>3, <3>2, <3>3
  <2>5. PICK before : before = after[i - 1]
    OBVIOUS
  <2>6. Packed(text, before, max, a, e)
    BY <2>1, <2>2, <2>5
  <2>7. Packed(text, WithPiece(before, <<e + 1, f>>, split[i], max), max, a, f)
    BY <1>0, <2>2, <2>4, <2>6, PieceHolds
  <2>8. after[i] = WithPiece(before, <<e + 1, f>>, split[i], max)
    BY <1>5, <2>2, <2>5
  <2> QED
    BY <2>2, <2>7, <2>8
<1> HIDE DEF Done
<1>9. n \in Done
  <2>1. 0..n \subseteq Done
    BY <1>7, <1>8, UpToInduct
  <2> QED
    BY <1>1, <2>1
<1>10. Packed(text, after[n], max, a, b)
  <2>1. n # 0
    BY <1>1
  <2> QED
    BY <1>2, <1>9, <2>1 DEF Done
<1>11. GoodCut(text, max, b)
  BY <1>0 DEF GoodCut
<1>12. PICK last : last = after[n]
  OBVIOUS
<1>13. Upto(text, Flushed(last), max, a, b)
  BY <1>0, <1>10, <1>11, <1>12, FlushedHolds
<1>14. b # a - 1
  BY <1>0
<1>15. Split(text, Flushed(last), max, a, b)
  BY <1>13, <1>14 DEF Upto
<1> QED
  BY <1>1, <1>3, <1>12, <1>15

\* What the calls with one separator less are for.
Deeper(text, max, k, deeper) ==
    \A x, y \in Nat : Clear(text, k, x, y) => Split(text, deeper[<<x, y>>], max, x, y)

LEMMA SplitSpanSplits ==
    ASSUME NEW text \in Text, NEW max \in Nat \ {0}, NEW k \in 1..6, NEW a, NEW b, Clear(text, k, a, b),
           NEW deeper, k <= 5 => Deeper(text, max, k + 1, deeper)
    PROVE  Split(text, SplitSpan(text, max, k, deeper, a, b), max, a, b)
<1> DEFINE found == {l \in k..5 : Ends(text, l, a, b) # {}}
           pieces == Pieces(text, Min(found), a, b)
           split == [i \in DOMAIN pieces |->
                        IF Min(found) = 5 THEN HardSplit(pieces[i][1], pieces[i][2], max)
                        ELSE deeper[pieces[i]]]
<1>0. /\ a \in Nat /\ b \in Nat /\ 1 <= a /\ a <= b /\ a - 1 \in AllEnds(text) /\ b \in AllEnds(text)
      /\ text.ends \in [Level -> SUBSET Nat]
  BY DEF Clear, Text
<1>1. CASE b - a + 1 <= max
  <2>1. SplitSpan(text, max, k, deeper, a, b) = <<<<a, b>>>>
    BY <1>1 DEF SplitSpan
  <2> QED
    BY <1>0, <1>1, <2>1, OneSpan
<1>2. CASE ~ (b - a + 1 <= max) /\ found = {}
  <2>1. SplitSpan(text, max, k, deeper, a, b) = HardSplit(a, b, max)
    BY <1>2 DEF SplitSpan
  <2>2. \A e \in AllEnds(text) : e <= a - 1 \/ b <= e
    <3> SUFFICES ASSUME NEW e \in AllEnds(text), a <= e, e < b PROVE FALSE
      BY <1>0, EndsAreNumbers
    <3>0. text.len \in Nat /\ b \in 0..text.len /\ e \in 0..text.len
      BY <1>0, EndsAreNumbers
    <3>1. text.len \in Nat /\ b <= text.len /\ e \in Nat
      BY <3>0
    <3>2. e # 0 /\ e # text.len
      BY <1>0, <3>1
    <3>3. PICK l \in Level : e \in text.ends[l]
      BY <3>2 DEF AllEnds
    <3>4. l < k => e <= a - 1 \/ b <= e
      BY <3>3 DEF Clear
    <3>5. l >= k
      BY <1>0, <3>1, <3>4 DEF Level
    <3>6. e <= b
      BY <1>0, <3>1
    <3>7. e \in Ends(text, l, a, b)
      BY <3>3, <3>5, <3>6, NoneAcross
    <3>8. l \in k..5
      BY <3>5 DEF Level
    <3> QED
      BY <1>2, <3>7, <3>8
  <2>3. Solid(text, a, b)
    BY <1>0, <2>2 DEF Solid
  <2>4. b - a + 1 > max
    BY <1>0, <1>2
  <2> QED
    BY <2>1, <2>3, <2>4, HardSplitSplits
<1>3. CASE ~ (b - a + 1 <= max) /\ found # {}
  <2>1. SplitSpan(text, max, k, deeper, a, b) = Flushed(Packing(pieces, split, max)[Len(pieces)])
    BY <1>3 DEF SplitSpan
  <2>2. found \subseteq Nat /\ found \subseteq k..5
    OBVIOUS
  <2>3. PICK m : m = Min(found)
    OBVIOUS
  <2>4. m \in found /\ \A l \in found : m <= l
    BY <1>3, <2>2, <2>3, LeastIs
  <2>5. m \in k..5 /\ k \in 1..5
    BY <2>4
  <2>6. \A l \in k..5 : l < m => Ends(text, l, a, b) = {}
    BY <2>4, <2>5
  <2>7. PICK ps : ps = Pieces(text, m, a, b)
    OBVIOUS
  <2>8. PiecesOf(text, k, m, ps, a, b)
    BY <2>5, <2>6, <2>7, PiecesWhole
  <2>9. PICK sp : sp = [i \in DOMAIN ps |-> IF m = 5 THEN HardSplit(ps[i][1], ps[i][2], max)
                                            ELSE deeper[ps[i]]]
    OBVIOUS
  <2>10. ps = pieces /\ sp = split
    BY <2>3, <2>7, <2>9
  <2> HIDE DEF found, pieces, split
  <2>11. PICK n \in Nat : n = Len(ps) /\ ps \in Seq(Span) /\ DOMAIN ps = 1..n
    BY <2>8, LenProperties DEF PiecesOf
  <2>12. \A i \in 1..n : Clear(text, k + 1, ps[i][1], ps[i][2])
    BY <2>8, <2>11 DEF PiecesOf
  <2>13. \A i \in 1..n : m = 5 => Solid(text, ps[i][1], ps[i][2])
    BY <2>8, <2>11 DEF PiecesOf
  <2>14. ASSUME NEW i \in 1..n
         PROVE  /\ sp[i] \in Seq(Span)
                /\ Length(ps[i]) > max => Split(text, sp[i], max, ps[i][1], ps[i][2])
    <3>1. PICK x \in Nat, y \in Nat : ps[i] = <<x, y>>
      BY <2>11, SMTT(30) DEF Span
    <3>2. ps[i][1] = x /\ ps[i][2] = y /\ Length(ps[i]) = y - x + 1
      BY <3>1 DEF Length
    <3>3. CASE m = 5
      <4>1. sp[i] = HardSplit(x, y, max)
        BY <2>9, <2>11, <3>2, <3>3
      <4>2. Solid(text, x, y)
        BY <2>13, <3>2, <3>3
      <4>3. y - x + 1 > max => Split(text, sp[i], max, x, y)
        BY <4>1, <4>2, HardSplitSplits
      <4>4. sp[i] \in Seq(Span)
        BY <4>1, <4>2, WindowsTyped
      <4> QED
        BY <3>2, <4>3, <4>4
    <3>4. CASE m # 5
      <4>1. sp[i] = deeper[<<x, y>>]
        BY <2>9, <2>11, <3>1, <3>4
      <4>2. Clear(text, k + 1, x, y)
        BY <2>12, <3>2
      <4>3. Split(text, deeper[<<x, y>>], max, x, y)
        BY <2>5, <4>2 DEF Deeper
      <4>4. sp[i] \in Seq(Span)
        BY <4>1, <4>3 DEF Split, Tiling
      <4> QED
        BY <3>2, <4>1, <4>3, <4>4
    <3> QED
      BY <3>3, <3>4
  <2>15. Split(text, Flushed(Packing(ps, sp, max)[Len(ps)]), max, a, b)
    BY <2>5, <2>8, <2>11, <2>14, PackingSplits
  <2> QED
    BY <2>1, <2>10, <2>15
<1> QED
  BY <1>1, <1>2, <1>3

\* The calls with the last d separators.
CallsWith(text, max, d, deeper) ==
    [span \in (1..text.len) \X (1..text.len) |-> SplitSpan(text, max, 6 - d, deeper, span[1], span[2])]

LEMMA SplittingStep ==
    ASSUME NEW text, NEW max, NEW d \in 0..5
    PROVE  Splitting(text, max)[d] =
               CallsWith(text, max, d, IF d = 0 THEN <<>> ELSE Splitting(text, max)[d - 1])
<1> DEFINE Calls(n, deeper) == CallsWith(text, max, n, deeper)
           Equation(f) == f = [n \in 0..5 |-> Calls(n, IF n = 0 THEN <<>> ELSE f[n - 1])]
<1>1. PICK s0 : s0 = Calls(0, <<>>)
  OBVIOUS
<1>2. PICK s1 : s1 = Calls(1, s0)
  OBVIOUS
<1>3. PICK s2 : s2 = Calls(2, s1)
  OBVIOUS
<1>4. PICK s3 : s3 = Calls(3, s2)
  OBVIOUS
<1>5. PICK s4 : s4 = Calls(4, s3)
  OBVIOUS
<1>6. PICK s5 : s5 = Calls(5, s4)
  OBVIOUS
<1>7. Splitting(text, max) = CHOOSE f : Equation(f)
  BY DEF Splitting, CallsWith
<1> HIDE DEF Calls
<1>8. PICK g : g = [n \in 0..5 |-> IF n = 0 THEN s0 ELSE IF n = 1 THEN s1 ELSE IF n = 2 THEN s2
                                   ELSE IF n = 3 THEN s3 ELSE IF n = 4 THEN s4 ELSE s5]
  OBVIOUS
<1>9. g[0] = s0 /\ g[1] = s1 /\ g[2] = s2 /\ g[3] = s3 /\ g[4] = s4 /\ g[5] = s5
  BY <1>8
<1>10. \A n \in 0..5 : g[n] = Calls(n, IF n = 0 THEN <<>> ELSE g[n - 1])
  <2> TAKE n \in 0..5
  <2>1. n = 0 \/ n = 1 \/ n = 2 \/ n = 3 \/ n = 4 \/ n = 5
    OBVIOUS
  <2>2. 1 - 1 = 0 /\ 2 - 1 = 1 /\ 3 - 1 = 2 /\ 4 - 1 = 3 /\ 5 - 1 = 4
    OBVIOUS
  <2>3. CASE n = 0
    BY <1>1, <1>9, <2>3
  <2>4. CASE n # 0
    <3>1. g[n] = Calls(n, g[n - 1])
      BY <1>2, <1>3, <1>4, <1>5, <1>6, <1>9, <2>1, <2>2, <2>4
    <3> QED
      BY <2>4, <3>1
  <2> QED
    BY <2>3, <2>4
<1>11. Equation(g)
  BY <1>8, <1>10
<1> HIDE DEF Equation
<1>12. PICK f : f = Splitting(text, max) /\ Equation(f)
  BY <1>7, <1>11
<1>13. f[d] = Calls(d, IF d = 0 THEN <<>> ELSE f[d - 1])
  BY <1>12 DEF Equation
<1> QED
  BY <1>12, <1>13 DEF Calls

LEMMA CallsSplit ==
    ASSUME NEW text \in Text, NEW max \in Nat \ {0}, NEW d \in 0..5
    PROVE  Deeper(text, max, 6 - d, Splitting(text, max)[d])
<1> DEFINE Good == {n \in 0..5 : Deeper(text, max, 6 - n, Splitting(text, max)[n])}
<1>1. ASSUME NEW n \in 0..5, n # 0 => n - 1 \in Good PROVE n \in Good
  <2>1. PICK deeper : deeper = IF n = 0 THEN <<>> ELSE Splitting(text, max)[n - 1]
    OBVIOUS
  <2>2. 6 - n \in 1..6
    OBVIOUS
  <2>3. 6 - n <= 5 => Deeper(text, max, (6 - n) + 1, deeper)
    <3> HAVE 6 - n <= 5
    <3>1. n # 0 /\ (6 - n) + 1 = 6 - (n - 1)
      OBVIOUS
    <3>2. Deeper(text, max, 6 - (n - 1), Splitting(text, max)[n - 1])
      BY <1>1, <3>1
    <3> QED
      BY <2>1, <3>1, <3>2
  <2>4. ASSUME NEW x \in Nat, NEW y \in Nat, Clear(text, 6 - n, x, y)
        PROVE  Split(text, Splitting(text, max)[n][<<x, y>>], max, x, y)
    <3>1. Split(text, SplitSpan(text, max, 6 - n, deeper, x, y), max, x, y)
      BY <2>2, <2>3, <2>4, SplitSpanSplits
    <3>2. x \in 1..text.len /\ y \in 1..text.len
      <4>1. 1 <= x /\ x <= y /\ y \in AllEnds(text)
        BY <2>4 DEF Clear
      <4>2. text.len \in Nat /\ y \in 0..text.len
        BY <4>1, EndsAreNumbers
      <4> QED
        BY <4>1, <4>2
    <3>3. Splitting(text, max)[n] = CallsWith(text, max, n, deeper)
      <4>1. Splitting(text, max)[n] =
                CallsWith(text, max, n, IF n = 0 THEN <<>> ELSE Splitting(text, max)[n - 1])
        BY SplittingStep
      <4> QED
        BY <2>1, <4>1
    <3>4. Splitting(text, max)[n][<<x, y>>] = SplitSpan(text, max, 6 - n, deeper, x, y)
      BY <3>2, <3>3 DEF CallsWith
    <3> QED
      BY <3>1, <3>4
  <2> QED
    BY <2>4 DEF Deeper
<1>2. 0 \in Good
  BY <1>1
<1>3. \A n \in 1..5 : n - 1 \in Good => n \in Good
  BY <1>1
<1> HIDE DEF Good
<1>4. 0..5 \subseteq Good
  BY <1>2, <1>3, UpToInduct
<1> QED
  BY <1>4 DEF Good

LEMMA RecursiveSplitSplits ==
    ASSUME NEW text \in Text, text.len > 0, NEW max \in Nat \ {0}
    PROVE  Split(text, RecursiveSplit(text, max), max, 1, text.len)
<1>1. text.len \in Nat /\ text.ends \in [Level -> SUBSET Nat] /\ text.len \in AllEnds(text) /\ 0 \in AllEnds(text)
  BY EndsAreNumbers
<1>2. \A l \in Level : ~ (l < 1)
  BY DEF Level
<1>3. Clear(text, 1, 1, text.len)
  BY <1>1, <1>2 DEF Clear
<1>4. Deeper(text, max, 1, Splitting(text, max)[5])
  <2>1. 6 - 5 = 1 /\ 5 \in 0..5
    OBVIOUS
  <2> QED
    BY <2>1, CallsSplit
<1> QED
  BY <1>1, <1>3, <1>4 DEF Deeper, RecursiveSplit

----------------------------------------------------------------------------
(* Splitter: small parts are merged.                                       *)

LEMMA JoinedSplits ==
    ASSUME NEW text, NEW max \in Nat, NEW s, NEW a, NEW c \in Nat, NEW b \in Nat,
           Split(text, s, max, a, c), c + 1 <= b, Length(Last(s)) + (b - c) <= max
    PROVE  Split(text, Joined(s, <<c + 1, b>>), max, a, b)
<1>1. PICK n \in Nat \ {0} : n = Len(s)
  BY TilingTyped DEF Split
<1>2. s \in Seq(Span) /\ s[1][1] = a /\ s[n][2] = c
      /\ (\A i \in 1..n : s[i][1] <= s[i][2] /\ Length(s[i]) <= max)
      /\ (\A i \in 1..n - 1 : s[i + 1][1] = s[i][2] + 1)
      /\ (\A i \in 1..n - 1 : GoodCut(text, max, s[i][2]))
  BY <1>1 DEF Split, Tiling, CutWell
<1>3. PICK x \in Nat : Last(s) = <<x, c>> /\ s[n] = <<x, c>> /\ x <= c
  <2>1. n \in 1..n /\ s[n] \in Span
    BY <1>1, <1>2
  <2>2. PICK x \in Nat, y \in Nat : s[n] = <<x, y>>
    BY <2>1 DEF Span
  <2>3. y = c /\ x <= y
    BY <1>2, <2>1, <2>2
  <2> QED
    BY <1>1, <2>2, <2>3 DEF Last
<1>4. c - x + 1 + (b - c) <= max
  BY <1>3 DEF Length
<1>5. PICK t : t = Joined(s, <<c + 1, b>>)
  OBVIOUS
<1>6. PICK f : f = Front(s)
  OBVIOUS
<1>7. f \in Seq(Span) /\ Len(f) = n - 1 /\ \A i \in 1..n - 1 : f[i] = s[i]
  <2>1. f = SubSeq(s, 1, n - 1)
    BY <1>1, <1>6 DEF Front
  <2>2. \A i \in 1..n - 1 : s[i] \in Span
    BY <1>1, <1>2
  <2>3. 1 \in Int /\ n - 1 \in Int /\ (n - 1) - 1 + 1 = n - 1
    OBVIOUS
  <2>4. /\ SubSeq(s, 1, n - 1) \in Seq(Span)
        /\ Len(SubSeq(s, 1, n - 1)) = IF 1 <= n - 1 THEN (n - 1) - 1 + 1 ELSE 0
        /\ \A i \in 1..(n - 1) - 1 + 1 : SubSeq(s, 1, n - 1)[i] = s[1 + i - 1]
    BY <2>2, <2>3, SubSeqProperties
  <2>5. Len(f) = n - 1
    BY <2>1, <2>4
  <2>6. \A i \in 1..n - 1 : f[i] = s[i]
    <3> TAKE i \in 1..n - 1
    <3>1. i \in 1..(n - 1) - 1 + 1 /\ 1 + i - 1 = i
      OBVIOUS
    <3> QED
      BY <2>1, <2>4, <3>1
  <2> QED
    BY <2>1, <2>4, <2>5, <2>6
<1>8. t = Append(f, <<x, b>>)
  BY <1>3, <1>5, <1>6 DEF Joined
<1>9. <<x, b>> \in Span
  BY DEF Span
<1>10. t \in Seq(Span) /\ Len(t) = n /\ t[n] = <<x, b>> /\ \A i \in 1..n - 1 : t[i] = s[i]
  <2>1. /\ Append(f, <<x, b>>) \in Seq(Span)
        /\ Len(Append(f, <<x, b>>)) = Len(f) + 1
        /\ \A i \in 1..Len(f) : Append(f, <<x, b>>)[i] = f[i]
        /\ Append(f, <<x, b>>)[Len(f) + 1] = <<x, b>>
    BY <1>7, <1>9, AppendProperties
  <2>2. (n - 1) + 1 = n
    OBVIOUS
  <2> QED
    BY <1>7, <1>8, <2>1, <2>2
<1>11. t[1][1] = a
  <2>1. CASE n = 1
    BY <1>2, <1>3, <1>10, <2>1
  <2>2. CASE n # 1
    <3>1. 1 \in 1..n - 1
      BY <2>2
    <3> QED
      BY <1>2, <1>10, <3>1
  <2> QED
    BY <2>1, <2>2
<1>12. \A i \in 1..n : t[i][1] <= t[i][2] /\ Length(t[i]) <= max
  <2> TAKE i \in 1..n
  <2>1. CASE i = n
    <3>1. t[i] = <<x, b>>
      BY <1>10, <2>1
    <3> QED
      BY <1>3, <1>4, <3>1 DEF Length
  <2>2. CASE i # n
    <3>1. i \in 1..n - 1
      BY <2>2
    <3> QED
      BY <1>2, <1>10, <3>1
  <2> QED
    BY <2>1, <2>2
<1>13. \A i \in 1..n - 1 : t[i + 1][1] = t[i][2] + 1 /\ GoodCut(text, max, t[i][2])
  <2> TAKE i \in 1..n - 1
  <2>1. t[i] = s[i] /\ s[i + 1][1] = s[i][2] + 1 /\ GoodCut(text, max, s[i][2])
    BY <1>2, <1>10
  <2>2. t[i + 1][1] = s[i + 1][1]
    <3>1. CASE i + 1 = n
      BY <1>3, <1>10, <3>1
    <3>2. CASE i + 1 # n
      <4>1. i + 1 \in 1..n - 1
        BY <3>2
      <4> QED
        BY <1>10, <4>1
    <3> QED
      BY <3>1, <3>2
  <2> QED
    BY <2>1, <2>2
<1>14. Tiling(t, max, a, b)
  BY <1>10, <1>11, <1>12, <1>13 DEF Tiling
<1>15. CutWell(text, t, max)
  BY <1>10, <1>13 DEF CutWell
<1> QED
  BY <1>5, <1>14, <1>15 DEF Split

LEMMA FrontIs ==
    ASSUME NEW S, NEW s \in Seq(S), NEW n \in Nat \ {0}, n = Len(s)
    PROVE  Front(s) \in Seq(S) /\ Len(Front(s)) = n - 1 /\ (\A i \in 1..n - 1 : Front(s)[i] = s[i])
           /\ Last(s) = s[n] /\ Last(s) \in S
<1>1. Front(s) = SubSeq(s, 1, n - 1)
  BY DEF Front
<1>2. \A i \in 1..n - 1 : s[i] \in S
  OBVIOUS
<1>3. 1 \in Int /\ n - 1 \in Int /\ (n - 1) - 1 + 1 = n - 1
  OBVIOUS
<1>4. /\ SubSeq(s, 1, n - 1) \in Seq(S)
      /\ Len(SubSeq(s, 1, n - 1)) = IF 1 <= n - 1 THEN (n - 1) - 1 + 1 ELSE 0
      /\ \A i \in 1..(n - 1) - 1 + 1 : SubSeq(s, 1, n - 1)[i] = s[1 + i - 1]
  BY <1>2, <1>3, SubSeqProperties
<1>5. Len(Front(s)) = n - 1
  BY <1>1, <1>4
<1>6. \A i \in 1..n - 1 : Front(s)[i] = s[i]
  <2> TAKE i \in 1..n - 1
  <2>1. i \in 1..(n - 1) - 1 + 1 /\ 1 + i - 1 = i
    OBVIOUS
  <2> QED
    BY <1>1, <1>4, <2>1
<1>7. Last(s) = s[n] /\ s[n] \in S
  BY DEF Last
<1> QED
  BY <1>1, <1>4, <1>5, <1>6, <1>7

LEMMA WithPartTyped ==
    ASSUME NEW acc \in Seq(Span), NEW part \in Span, NEW min, NEW max
    PROVE  WithPart(acc, part, min, max) \in Seq(Span)
<1>1. Append(acc, part) \in Seq(Span)
  BY AppendProperties
<1>2. acc # <<>> => Joined(acc, part) \in Seq(Span)
  <2> HAVE acc # <<>>
  <2>1. PICK n \in Nat \ {0} : n = Len(acc)
    BY EmptySeq
  <2>2. Front(acc) \in Seq(Span) /\ Last(acc) \in Span
    BY <2>1, FrontIs
  <2>3. <<Last(acc)[1], part[2]>> \in Span
    BY <2>2 DEF Span
  <2> QED
    BY <2>2, <2>3, AppendProperties DEF Joined
<1> QED
  BY <1>1, <1>2 DEF WithPart

LEMMA MergingStep ==
    ASSUME NEW parts \in Seq(Span), NEW min, NEW max, NEW N \in Nat, N = Len(parts)
    PROVE  /\ Merging(parts, min, max)[0] = <<>>
           /\ \A n \in 1..N : Merging(parts, min, max)[n] =
                                  WithPart(Merging(parts, min, max)[n - 1], parts[n], min, max)
<1> DEFINE step == [p \in (1..N) \X Seq(Span) |-> WithPart(p[2], parts[p[1]], min, max)]
           Equation(f) == f = [n \in 0..N |-> IF n = 0 THEN <<>>
                                              ELSE WithPart(f[n - 1], parts[n], min, max)]
<1>1. <<>> \in Seq(Span)
  OBVIOUS
<1>2. step \in [(1..N) \X Seq(Span) -> Seq(Span)]
  <2>1. \A p \in (1..N) \X Seq(Span) : WithPart(p[2], parts[p[1]], min, max) \in Seq(Span)
    BY WithPartTyped
  <2> QED
    BY <2>1
<1>3. \A n \in 1..N, acc \in Seq(Span) : step[<<n, acc>>] = WithPart(acc, parts[n], min, max)
  OBVIOUS
<1> HIDE DEF step
<1>4. PICK f \in [0..N -> Seq(Span)] : f[0] = <<>> /\ \A n \in 1..N : f[n] = step[<<n, f[n - 1]>>]
  <2>1. \E f \in [0..N -> Seq(Span)] : Iterates(f, <<>>, step, N)
    BY <1>1, <1>2, Recursion
  <2> QED
    BY <2>1 DEF Iterates
<1>5. \A n \in 1..N : f[n] = WithPart(f[n - 1], parts[n], min, max)
  <2> TAKE n \in 1..N
  <2>1. n - 1 \in 0..N
    OBVIOUS
  <2>2. f[n - 1] \in Seq(Span)
    BY <2>1
  <2> QED
    BY <1>3, <1>4, <2>2
<1>6. \A n \in 0..N : f[n] = IF n = 0 THEN <<>> ELSE WithPart(f[n - 1], parts[n], min, max)
  BY <1>4, <1>5
<1>7. Equation(f)
  BY <1>4, <1>6
<1>8. Merging(parts, min, max) = CHOOSE g : Equation(g)
  BY DEF Merging
<1> HIDE DEF Equation
<1>9. PICK g : g = Merging(parts, min, max) /\ Equation(g)
  BY <1>7, <1>8
<1>10. g = [n \in 0..N |-> IF n = 0 THEN <<>> ELSE WithPart(g[n - 1], parts[n], min, max)]
  BY <1>9 DEF Equation
<1>11. g[0] = <<>> /\ \A n \in 1..N : g[n] = WithPart(g[n - 1], parts[n], min, max)
  BY <1>10
<1> QED
  BY <1>9, <1>11

LEMMA MergingSplits ==
    ASSUME NEW text, NEW max \in Nat, NEW min, NEW a, NEW b, NEW parts, Split(text, parts, max, a, b)
    PROVE  Split(text, Merging(parts, min, max)[Len(parts)], max, a, b)
<1>1. PICK n \in Nat \ {0} : n = Len(parts)
  BY TilingTyped DEF Split
<1>2. parts \in Seq(Span) /\ parts[1][1] = a /\ parts[n][2] = b
      /\ (\A i \in 1..n : parts[i][1] <= parts[i][2] /\ Length(parts[i]) <= max)
      /\ (\A i \in 1..n - 1 : parts[i + 1][1] = parts[i][2] + 1)
      /\ (\A i \in 1..n - 1 : GoodCut(text, max, parts[i][2]))
  BY <1>1 DEF Split, Tiling, CutWell
<1>3. \A i \in 1..n : /\ parts[i] \in Span /\ parts[i] = <<parts[i][1], parts[i][2]>>
                      /\ parts[i][1] \in Nat /\ parts[i][2] \in Nat
  BY <1>1, TilingTyped DEF Split
<1>4. PICK after : after = Merging(parts, min, max)
  OBVIOUS
<1>5. after[0] = <<>> /\ \A i \in 1..n : after[i] = WithPart(after[i - 1], parts[i], min, max)
  BY <1>1, <1>2, <1>4, MergingStep
<1> DEFINE Good == {i \in 0..n : i # 0 => Split(text, after[i], max, a, parts[i][2])}
<1>6. 0 \in Good
  OBVIOUS
<1>7. ASSUME NEW i \in 1..n, i - 1 \in Good PROVE i \in Good
  <2>1. PICK x \in Nat, y \in Nat : parts[i] = <<x, y>> /\ x <= y /\ y - x + 1 <= max /\ y = parts[i][2]
    BY <1>2, <1>3 DEF Length
  <2>2. CASE i = 1
    <3>1. after[i] = WithPart(<<>>, <<x, y>>, min, max) /\ x = a
      BY <1>2, <1>5, <2>1, <2>2
    <3>2. WithPart(<<>>, <<x, y>>, min, max) = <<<<x, y>>>>
      BY DEF WithPart
    <3>3. Split(text, after[i], max, a, y)
      BY <2>1, <3>1, <3>2, OneSpan
    <3> QED
      BY <2>1, <3>3
  <2>3. CASE i # 1
    <3>1. i - 1 \in 1..n - 1 /\ i - 1 \in 1..n /\ i - 1 # 0 /\ (i - 1) + 1 = i
      BY <2>3
    <3>2. PICK c \in Nat : c = parts[i - 1][2] /\ x = c + 1 /\ GoodCut(text, max, c)
      <4>1. PICK c \in Nat : c = parts[i - 1][2]
        BY <1>3, <3>1
      <4>2. GoodCut(text, max, c)
        BY <1>2, <3>1, <4>1
      <4>3. parts[i][1] = c + 1
        BY <1>2, <3>1, <4>1
      <4> QED
        BY <2>1, <4>1, <4>2, <4>3
    <3>3. PICK acc : acc = after[i - 1]
      OBVIOUS
    <3>4. Split(text, acc, max, a, c)
      BY <1>7, <3>1, <3>2, <3>3
    <3>5. after[i] = WithPart(acc, <<c + 1, y>>, min, max)
      BY <1>5, <2>1, <3>2, <3>3
    <3>6. c + 1 <= y /\ y - c <= max /\ Length(<<c + 1, y>>) = y - c
      BY <2>1, <3>2 DEF Length
    <3>7. CASE acc # <<>> /\ Length(Last(acc)) < min /\ Fits(Last(acc), <<c + 1, y>>, max)
      <4>1. after[i] = Joined(acc, <<c + 1, y>>)
        BY <3>5, <3>7 DEF WithPart
      <4>2. Length(Last(acc)) + (y - c) <= max
        BY <3>6, <3>7 DEF Fits
      <4>3. Split(text, after[i], max, a, y)
        BY <3>4, <3>6, <4>1, <4>2, JoinedSplits
      <4> QED
        BY <2>1, <4>3
    <3>8. CASE ~ (acc # <<>> /\ Length(Last(acc)) < min /\ Fits(Last(acc), <<c + 1, y>>, max))
      <4>1. after[i] = Append(acc, <<c + 1, y>>)
        BY <3>5, <3>8 DEF WithPart
      <4>2. Split(text, after[i], max, a, y)
        BY <3>2, <3>4, <3>6, <4>1, SplitAppend
      <4> QED
        BY <2>1, <4>2
    <3> QED
      BY <3>7, <3>8
  <2> QED
    BY <2>2, <2>3
<1> HIDE DEF Good
<1>8. n \in Good
  <2>1. 0..n \subseteq Good
    BY <1>6, <1>7, UpToInduct
  <2> QED
    BY <2>1
<1> QED
  BY <1>1, <1>2, <1>4, <1>8 DEF Good

LEMMA FrontSplits ==
    ASSUME NEW text, NEW max \in Nat, NEW a, NEW b, NEW s, Split(text, s, max, a, b), ~ (Len(s) < 2)
    PROVE  \E e \in Nat : Split(text, Front(s), max, a, e) /\ Last(s) = <<e + 1, b>> /\ e + 1 <= b /\ b \in Nat
<1>1. PICK n \in Nat \ {0} : n = Len(s)
  BY TilingTyped DEF Split
<1>2. s \in Seq(Span) /\ s[1][1] = a /\ s[n][2] = b
      /\ (\A i \in 1..n : s[i][1] <= s[i][2] /\ Length(s[i]) <= max)
      /\ (\A i \in 1..n - 1 : s[i + 1][1] = s[i][2] + 1)
      /\ (\A i \in 1..n - 1 : GoodCut(text, max, s[i][2]))
  BY <1>1 DEF Split, Tiling, CutWell
<1>3. \A i \in 1..n : /\ s[i] \in Span /\ s[i] = <<s[i][1], s[i][2]>>
                      /\ s[i][1] \in Nat /\ s[i][2] \in Nat
  BY <1>1, TilingTyped DEF Split
<1>4. PICK m \in Nat \ {0} : n = m + 1
  <2>1. n - 1 \in Nat \ {0} /\ n = (n - 1) + 1
    BY <1>1
  <2> QED
    BY <2>1
<1>5. PICK f : f = Front(s)
  OBVIOUS
<1>6. f \in Seq(Span) /\ Len(f) = m /\ (\A i \in 1..m : f[i] = s[i]) /\ Last(s) = s[n]
  <2>1. n - 1 = m
    BY <1>4
  <2> QED
    BY <1>1, <1>2, <1>5, <2>1, FrontIs, ZenonT(40)
<1>7. m \in 1..n /\ m \in 1..m /\ 1 \in 1..m /\ n \in 1..n /\ m \in 1..n - 1
  BY <1>4
<1>8. PICK e \in Nat : e = s[m][2]
  BY <1>3, <1>7
<1>9. Last(s) = <<e + 1, b>> /\ e + 1 <= b /\ b \in Nat
  <2>1. s[n][1] = e + 1
    BY <1>2, <1>4, <1>7, <1>8
  <2> QED
    BY <1>2, <1>3, <1>6, <1>7, <2>1
<1>10. f[1][1] = a /\ f[m][2] = e
  BY <1>2, <1>6, <1>7, <1>8
<1>11. \A i \in 1..m : f[i][1] <= f[i][2] /\ Length(f[i]) <= max
  BY <1>2, <1>4, <1>6
<1>12. \A i \in 1..m - 1 : f[i + 1][1] = f[i][2] + 1 /\ GoodCut(text, max, f[i][2])
  <2> TAKE i \in 1..m - 1
  <2>1. i \in 1..m /\ i + 1 \in 1..m /\ i \in 1..n - 1
    BY <1>4
  <2> QED
    BY <1>2, <1>6, <2>1
<1>13. Split(text, f, max, a, e)
  BY <1>6, <1>10, <1>11, <1>12 DEF Split, Tiling, CutWell
<1> QED
  BY <1>5, <1>9, <1>13

\* What merging may leave at the end.
LeftOver(text, parts, max, min, e) ==
    \/ text.len = e
    \/ text.len - e \in 1..min - 1 /\ Length(Last(parts)) + (text.len - e) > max

LEMMA MergeSmallSplits ==
    ASSUME NEW text, NEW max \in Nat, NEW min \in Nat, NEW parts, Split(text, parts, max, 1, text.len)
    PROVE  \E e \in Nat : /\ Split(text, MergeSmall(parts, min, max), max, 1, e)
                          /\ LeftOver(text, MergeSmall(parts, min, max), max, min, e)
<1>1. PICK all : all = Merging(parts, min, max)[Len(parts)]
  OBVIOUS
<1>2. Split(text, all, max, 1, text.len)
  BY <1>1, MergingSplits
<1>3. PICK b \in Nat : b = text.len
  BY <1>2, TilingTyped DEF Split
<1>4. MergeSmall(parts, min, max) =
          IF min = 0 \/ Len(all) < 2 \/ Length(Last(all)) >= min THEN all
          ELSE IF Fits(Last(Front(all)), Last(all), max) THEN Joined(Front(all), Last(all))
          ELSE Front(all)
  BY <1>1 DEF MergeSmall
<1>5. PICK merged : merged = MergeSmall(parts, min, max)
  OBVIOUS
<1>6. CASE min = 0 \/ Len(all) < 2 \/ Length(Last(all)) >= min
  <2>1. merged = all
    BY <1>4, <1>5, <1>6
  <2>2. LeftOver(text, all, max, min, b)
    BY <1>3 DEF LeftOver
  <2> QED
    BY <1>2, <1>3, <1>5, <2>1, <2>2
<1>7. CASE ~ (min = 0 \/ Len(all) < 2 \/ Length(Last(all)) >= min)
  <2>1. PICK e \in Nat : Split(text, Front(all), max, 1, e) /\ Last(all) = <<e + 1, b>> /\ e + 1 <= b
    BY <1>2, <1>3, <1>7, FrontSplits
  <2>2. Length(Last(all)) = b - e /\ b - e < min
    <3>1. Length(Last(all)) = b - e
      BY <2>1 DEF Length
    <3> QED
      BY <1>7, <3>1
  <2>3. CASE Fits(Last(Front(all)), Last(all), max)
    <3>1. merged = Joined(Front(all), <<e + 1, b>>)
      BY <1>4, <1>5, <1>7, <2>1, <2>3
    <3>2. Length(Last(Front(all))) + (b - e) <= max
      BY <2>2, <2>3 DEF Fits
    <3>3. Split(text, merged, max, 1, b)
      BY <2>1, <3>1, <3>2, JoinedSplits
    <3>4. LeftOver(text, merged, max, min, b)
      BY <1>3 DEF LeftOver
    <3> QED
      BY <1>5, <3>3, <3>4
  <2>4. CASE ~ Fits(Last(Front(all)), Last(all), max)
    <3>1. merged = Front(all)
      BY <1>4, <1>5, <1>7, <2>4
    <3>2. PICK x \in Nat, y \in Nat : Last(Front(all)) = <<x, y>>
      <4>1. PICK n \in Nat \ {0} : n = Len(Front(all)) /\ Front(all) \in Seq(Span)
        BY <2>1, TilingTyped DEF Split, Tiling
      <4>2. Last(Front(all)) \in Span
        BY <4>1, FrontIs
      <4> QED
        BY <4>2 DEF Span
    <3>3. Length(Last(Front(all))) \in Int
      BY <3>2 DEF Length
    <3>4. Length(Last(Front(all))) + (b - e) > max
      BY <2>2, <2>4, <3>3 DEF Fits
    <3>5. b - e \in 1..min - 1
      BY <2>1, <2>2
    <3>6. LeftOver(text, merged, max, min, e)
      BY <1>3, <3>1, <3>4, <3>5 DEF LeftOver
    <3> QED
      BY <1>5, <2>1, <3>1, <3>6
  <2> QED
    BY <2>3, <2>4
<1> QED
  BY <1>6, <1>7

----------------------------------------------------------------------------
(* Splitter: parts overlap.                                                *)

LEMMA OverlapStep ==
    ASSUME NEW parts \in Seq(Span), NEW overlap \in Nat, NEW max, NEW N \in Nat, N = Len(parts), N >= 1
    PROVE  /\ DOMAIN WithOverlap(parts, overlap, max) = 1..N
           /\ WithOverlap(parts, overlap, max) = [n \in 1..N |-> WithOverlap(parts, overlap, max)[n]]
           /\ WithOverlap(parts, overlap, max)[1] = parts[1]
           /\ \A n \in 1..N : n # 1 => WithOverlap(parts, overlap, max)[n] =
                  Overlapped(WithOverlap(parts, overlap, max)[n - 1], parts[n], overlap, max)
<1> DEFINE Pair == Int \X Int
           Next_(n, before) == IF n = 1 THEN parts[1] ELSE Overlapped(before, parts[n], overlap, max)
           step == [p \in (1..N) \X Pair |-> Next_(p[1], p[2])]
           Equation(f) == f = [n \in 1..N |-> IF n = 1 THEN parts[1]
                                              ELSE Overlapped(f[n - 1], parts[n], overlap, max)]
<1>1. \A n \in 1..N : parts[n] \in Pair
  BY DEF Span
<1>2. step \in [(1..N) \X Pair -> Pair]
  <2>1. ASSUME NEW p \in (1..N) \X Pair PROVE Next_(p[1], p[2]) \in Pair
    <3>1. PICK x \in Int, y \in Int : parts[p[1]] = <<x, y>>
      BY <1>1
    <3>2. PICK u \in Int, v \in Int : p[2] = <<u, v>>
      OBVIOUS
    <3>3. Overlapped(<<u, v>>, <<x, y>>, overlap, max) \in Pair
      BY DEF Overlapped
    <3> QED
      BY <1>1, <3>1, <3>2, <3>3
  <2> QED
    BY <2>1
<1>3. \A n \in 1..N, before \in Pair : step[<<n, before>>] = Next_(n, before)
  OBVIOUS
<1>4. 1 \in 1..N /\ parts[1] \in Pair
  BY <1>1
<1> HIDE DEF step, Pair
<1>5. PICK f \in [0..N -> Pair] : f[0] = parts[1] /\ \A n \in 1..N : f[n] = step[<<n, f[n - 1]>>]
  <2>1. PICK base \in Pair : base = parts[1]
    BY <1>4
  <2>2. \E f \in [0..N -> Pair] : Iterates(f, base, step, N)
    BY <1>2, Recursion
  <2> QED
    BY <2>1, <2>2 DEF Iterates
<1>6. PICK g : g = [n \in 1..N |-> f[n]]
  OBVIOUS
<1>7. \A n \in 1..N : g[n] = Next_(n, f[n - 1])
  <2> TAKE n \in 1..N
  <2>1. n - 1 \in 0..N
    OBVIOUS
  <2>2. f[n - 1] \in Pair
    BY <2>1
  <2>3. g[n] = f[n] /\ f[n] = step[<<n, f[n - 1]>>]
    BY <1>5, <1>6
  <2> QED
    BY <1>3, <2>2, <2>3
<1>8. \A n \in 1..N : g[n] = IF n = 1 THEN parts[1] ELSE Overlapped(g[n - 1], parts[n], overlap, max)
  <2> TAKE n \in 1..N
  <2>1. CASE n = 1
    BY <1>7, <2>1
  <2>2. CASE n # 1
    <3>1. n - 1 \in 1..N
      BY <2>2
    <3>2. f[n - 1] = g[n - 1]
      BY <1>6, <3>1
    <3> QED
      BY <1>7, <2>2, <3>2
  <2> QED
    BY <2>1, <2>2
<1>9. Equation(g)
  BY <1>6, <1>8
<1>10. DOMAIN parts = 1..N
  OBVIOUS
<1>11. WithOverlap(parts, overlap, max) = CHOOSE h : Equation(h)
  BY <1>10 DEF WithOverlap
<1> HIDE DEF Equation
<1>12. PICK h : h = WithOverlap(parts, overlap, max) /\ Equation(h)
  BY <1>9, <1>11
<1>13. h = [n \in 1..N |-> IF n = 1 THEN parts[1] ELSE Overlapped(h[n - 1], parts[n], overlap, max)]
  BY <1>12 DEF Equation
<1>14. DOMAIN h = 1..N /\ h[1] = parts[1] /\ h = [n \in 1..N |-> h[n]]
       /\ \A n \in 1..N : n # 1 => h[n] = Overlapped(h[n - 1], parts[n], overlap, max)
  BY <1>4, <1>13
<1> QED
  BY <1>12, <1>14

\* What becomes of a text.
WellSplit(text, parts, max, overlap, min) ==
    /\ parts \in Seq(Span) /\ Len(parts) >= 1 /\ parts[1][1] = 1
    /\ \A i \in 1..Len(parts) : Length(parts[i]) \in 1..max
    /\ \A i \in 1..Len(parts) - 1 :
           /\ parts[i + 1][1] \in parts[i][2] + 1 - overlap .. parts[i][2] + 1
           /\ parts[i + 1][2] > parts[i][2]
           /\ GoodCut(text, max, parts[i][2])
    /\ LeftOver(text, parts, max, min, parts[Len(parts)][2])

LEMMA OverlapSplits ==
    ASSUME NEW text, NEW max \in Nat, NEW overlap \in Nat, NEW min \in Nat, NEW s, NEW e \in Nat,
           text.len \in Nat, Split(text, s, max, 1, e), LeftOver(text, s, max, min, e)
    PROVE  WellSplit(text, WithOverlap(s, overlap, max), max, overlap, min)
<1>1. PICK n \in Nat \ {0} : n = Len(s)
  BY TilingTyped DEF Split
<1>2. s \in Seq(Span) /\ s[1][1] = 1 /\ s[n][2] = e
      /\ (\A i \in 1..n : s[i][1] <= s[i][2] /\ Length(s[i]) <= max)
      /\ (\A i \in 1..n - 1 : s[i + 1][1] = s[i][2] + 1)
      /\ (\A i \in 1..n - 1 : GoodCut(text, max, s[i][2]))
  BY <1>1 DEF Split, Tiling, CutWell
<1>3. \A i \in 1..n : /\ s[i] \in Span /\ s[i] = <<s[i][1], s[i][2]>>
                      /\ s[i][1] \in Nat /\ s[i][2] \in Nat
  BY <1>1, TilingTyped DEF Split
<1>4. PICK t : t = WithOverlap(s, overlap, max)
  OBVIOUS
<1>5. DOMAIN t = 1..n /\ t[1] = s[1]
  BY <1>1, <1>2, <1>4, OverlapStep
<1>6. \A i \in 1..n : i # 1 => t[i] = Overlapped(t[i - 1], s[i], overlap, max)
  <2>1. \A i \in 1..n : i # 1 => WithOverlap(s, overlap, max)[i] =
                  Overlapped(WithOverlap(s, overlap, max)[i - 1], s[i], overlap, max)
    BY <1>1, <1>2, OverlapStep
  <2> QED
    BY <1>4, <2>1, Zenon
<1> DEFINE Laps(i) == \E x \in Nat, y \in Nat : /\ t[i] = <<x, y>> /\ y = s[i][2] /\ x <= s[i][1]
                                                /\ 1 <= x /\ s[i][1] - overlap <= x /\ y - x + 1 <= max
           Good == {i \in 0..n : i # 0 => Laps(i)}
<1>7. 0 \in Good
  OBVIOUS
<1>8. ASSUME NEW i \in 1..n, i - 1 \in Good PROVE i \in Good
  <2>1. PICK p \in Nat, q \in Nat : s[i] = <<p, q>> /\ p <= q /\ q - p + 1 <= max /\ s[i][1] = p /\ s[i][2] = q
    BY <1>2, <1>3 DEF Length
  <2>2. CASE i = 1
    <3>1. t[i] = <<p, q>> /\ p = 1
      BY <1>2, <1>5, <2>1, <2>2
    <3>2. Laps(i)
      BY <2>1, <3>1
    <3> QED
      BY <3>2
  <2>3. CASE i # 1
    <3>1. i - 1 \in 1..n - 1 /\ i - 1 \in 1..n /\ i - 1 # 0 /\ (i - 1) + 1 = i
      BY <2>3
    <3>2. PICK x \in Nat, y \in Nat : t[i - 1] = <<x, y>> /\ y = s[i - 1][2] /\ x <= s[i - 1][1] /\ 1 <= x
      BY <1>8, <3>1
    <3>3. p = y + 1 /\ x <= p
      <4>1. s[i][1] = s[i - 1][2] + 1 /\ s[i - 1][1] <= s[i - 1][2] /\ s[i - 1][1] \in Nat
        BY <1>2, <1>3, <3>1
      <4> QED
        BY <2>1, <3>2, <4>1
    <3>4. t[i] = Overlapped(<<x, y>>, <<p, q>>, overlap, max)
      BY <1>6, <2>1, <2>3, <3>2
    <3>5. PICK z \in Nat : /\ z = (IF p - overlap < x THEN x ELSE p - overlap)
                           /\ z <= p /\ 1 <= z /\ p - overlap <= z
      BY <3>2, <3>3
    <3>6. t[i] = IF q - z + 1 <= max THEN <<z, q>> ELSE <<p, q>>
      BY <3>4, <3>5 DEF Overlapped
    <3>7. Laps(i)
      <4>1. CASE q - z + 1 <= max
        BY <2>1, <3>5, <3>6, <4>1
      <4>2. CASE ~ (q - z + 1 <= max)
        <5>1. t[i] = <<p, q>> /\ 1 <= p /\ p - overlap <= p
          BY <3>2, <3>3, <3>6, <4>2
        <5> QED
          BY <2>1, <5>1
      <4> QED
        BY <4>1, <4>2
    <3> QED
      BY <3>7
  <2> QED
    BY <2>2, <2>3
<1> HIDE DEF Good, Laps
<1>9. 0..n \subseteq Good
  BY <1>7, <1>8, UpToInduct
<1>10. ASSUME NEW i \in 1..n
       PROVE  \E x \in Nat, y \in Nat : /\ t[i] = <<x, y>> /\ y = s[i][2] /\ x <= s[i][1]
                                        /\ 1 <= x /\ s[i][1] - overlap <= x /\ y - x + 1 <= max
                                        /\ x <= y
  <2>1. i \in 0..n /\ i # 0
    OBVIOUS
  <2>2. Laps(i)
    BY <1>9, <2>1 DEF Good
  <2>3. s[i][1] <= s[i][2] /\ s[i][1] \in Nat
    BY <1>2, <1>3
  <2> QED
    BY <2>2, <2>3 DEF Laps
<1>11. t \in Seq(Span) /\ Len(t) = n
  <2>1. \A i \in 1..n : t[i] \in Span
    <3> TAKE i \in 1..n
    <3>1. PICK x \in Nat, y \in Nat : t[i] = <<x, y>>
      BY <1>10
    <3> QED
      BY <3>1 DEF Span
  <2>2. t \in [1..n -> Span]
    <3>1. t = [i \in 1..n |-> t[i]]
      BY <1>1, <1>2, <1>4, OverlapStep
    <3> QED
      BY <2>1, <3>1
  <2> QED
    BY <2>2, FunctionSeq
<1>12. \A i \in 1..n : Length(t[i]) \in 1..max
  <2> TAKE i \in 1..n
  <2>1. PICK x \in Nat, y \in Nat : t[i] = <<x, y>> /\ y - x + 1 <= max /\ x <= y
    BY <1>10
  <2> QED
    BY <2>1 DEF Length
<1>13. ASSUME NEW i \in 1..n - 1
       PROVE  /\ t[i + 1][1] \in t[i][2] + 1 - overlap .. t[i][2] + 1
              /\ t[i + 1][2] > t[i][2]
              /\ GoodCut(text, max, t[i][2])
  <2>1. i \in 1..n /\ i + 1 \in 1..n
    OBVIOUS
  <2>2. PICK x \in Nat, y \in Nat : t[i] = <<x, y>> /\ y = s[i][2]
    BY <1>10, <2>1
  <2>3. PICK u \in Nat, v \in Nat : /\ t[i + 1] = <<u, v>> /\ v = s[i + 1][2] /\ u <= s[i + 1][1]
                                    /\ s[i + 1][1] - overlap <= u
    BY <1>10, <2>1
  <2>4. s[i + 1][1] = y + 1 /\ s[i + 1][1] <= v
    BY <1>2, <2>1, <2>2, <2>3
  <2>5. GoodCut(text, max, y)
    BY <1>2, <2>2
  <2> QED
    BY <2>2, <2>3, <2>4, <2>5
<1>14. t[1][1] = 1
  BY <1>2, <1>5
<1>15. LeftOver(text, t, max, min, t[n][2])
  <2>1. n \in 1..n
    OBVIOUS
  <2>2. PICK x \in Nat, y \in Nat : t[n] = <<x, y>> /\ y = s[n][2] /\ x <= s[n][1]
    BY <1>10, <2>1
  <2>3. y = e /\ Last(t) = <<x, y>>
    BY <1>2, <1>11, <2>2 DEF Last
  <2>4. PICK p \in Nat, q \in Nat : Last(s) = <<p, q>> /\ p = s[n][1] /\ q = s[n][2]
    BY <1>1, <1>3, <2>1 DEF Last
  <2>5. Length(Last(s)) = q - p + 1 /\ Length(Last(t)) = y - x + 1
    BY <2>3, <2>4 DEF Length
  <2>6. PICK l \in Nat : l = text.len
    OBVIOUS
  <2>7. l = e \/ (l - e \in 1..min - 1 /\ (q - p + 1) + (l - e) > max)
    BY <2>5, <2>6 DEF LeftOver
  <2>8. x <= p /\ q = y
    BY <2>2, <2>4
  <2>9. l = e \/ (l - e \in 1..min - 1 /\ (y - x + 1) + (l - e) > max)
    BY <2>7, <2>8
  <2>10. t[n][2] = e
    BY <2>2, <2>3
  <2> QED
    BY <2>5, <2>6, <2>9, <2>10 DEF LeftOver
<1>16. WellSplit(text, t, max, overlap, min)
  BY <1>11, <1>12, <1>13, <1>14, <1>15 DEF WellSplit
<1> QED
  BY <1>4, <1>16

\* split_text: what it does for every text and every configuration.
LEMMA SplitTextSplits ==
    ASSUME NEW text \in Text, text.len > 0, NEW max \in Nat \ {0}, NEW overlap \in Nat, NEW min \in Nat
    PROVE  WellSplit(text, SplitText(text, max, overlap, min), max, overlap, min)
<1>1. PICK len \in Nat : len = text.len /\ len > 0
  BY DEF Text
<1>2. CASE len <= max
  <2>1. SplitText(text, max, overlap, min) = <<<<1, len>>>>
    BY <1>1, <1>2 DEF SplitText
  <2>2. PICK parts : parts = <<<<1, len>>>>
    OBVIOUS
  <2>3. parts \in Seq(Span) /\ Len(parts) = 1 /\ parts[1] = <<1, len>>
    BY <2>2 DEF Span
  <2>4. LeftOver(text, parts, max, min, len)
    BY <1>1 DEF LeftOver
  <2>5. WellSplit(text, parts, max, overlap, min)
    BY <1>1, <1>2, <2>3, <2>4 DEF WellSplit, Length
  <2> QED
    BY <2>1, <2>2, <2>5
<1>3. CASE ~ (len <= max)
  <2>1. PICK parts : parts = RecursiveSplit(text, max)
    OBVIOUS
  <2>2. SplitText(text, max, overlap, min) = WithOverlap(MergeSmall(parts, min, max), overlap, max)
    BY <1>1, <1>3, <2>1 DEF SplitText
  <2>3. Split(text, parts, max, 1, text.len)
    BY <2>1, RecursiveSplitSplits
  <2>4. PICK merged : merged = MergeSmall(parts, min, max)
    OBVIOUS
  <2>5. PICK e \in Nat : Split(text, merged, max, 1, e) /\ LeftOver(text, merged, max, min, e)
    BY <2>3, <2>4, MergeSmallSplits
  <2>6. WellSplit(text, WithOverlap(merged, overlap, max), max, overlap, min)
    BY <1>1, <2>5, OverlapSplits
  <2> QED
    BY <2>2, <2>4, <2>6
<1> QED
  BY <1>2, <1>3

----------------------------------------------------------------------------
(* Texts that are put together.                                            *)

LEMMA GreatestIs ==
    ASSUME NEW T, NEW lo \in Int, NEW hi \in Int, T \subseteq lo..hi, T # {}
    PROVE  Max(T) \in T /\ \A y \in T : Max(T) >= y
<1> DEFINE S == {hi - t : t \in T}
<1>1. S \subseteq Nat /\ S # {}
  <2>1. \A t \in T : hi - t \in Nat
    OBVIOUS
  <2>2. \A s \in S : s \in Nat
    BY <2>1
  <2>3. S # {}
    OBVIOUS
  <2> QED
    BY <2>2, <2>3
<1>2. Min(S) \in S /\ \A y \in S : Min(S) <= y
  <2> HIDE DEF S
  <2> QED
    BY <1>1, LeastIs
<1>3. PICK x \in T : Min(S) = hi - x
  BY <1>2
<1>4. \A y \in T : x >= y
  <2> TAKE y \in T
  <2>1. hi - y \in S
    OBVIOUS
  <2>2. Min(S) <= hi - y
    BY <1>2, <2>1
  <2> QED
    BY <1>3, <2>2
<1> QED
  BY <1>4 DEF Max

LEMMA LeastOf ==
    ASSUME NEW T, T \subseteq Nat, T # {}
    PROVE  Min(T) \in Nat /\ Min(T) \in T /\ \A y \in T : Min(T) <= y
BY LeastIs

LEMMA EndsOfLinesStep ==
    ASSUME NEW texts \in Seq(Text), NEW N \in Nat, N = Len(texts)
    PROVE  /\ EndsOfLines(texts) \in [0..N -> Nat]
           /\ EndsOfLines(texts)[0] = 0
           /\ \A n \in 1..N : EndsOfLines(texts)[n] = EndsOfLines(texts)[n - 1] + texts[n].len + 1
<1> DEFINE step == [p \in (1..N) \X Nat |-> p[2] + texts[p[1]].len + 1]
           Equation(f) == f = [n \in 0..N |-> IF n = 0 THEN 0 ELSE f[n - 1] + texts[n].len + 1]
<1>1. \A n \in 1..N : texts[n].len \in Nat
  <2> TAKE n \in 1..N
  <2>1. texts[n] \in Text
    OBVIOUS
  <2> QED
    BY <2>1 DEF Text
<1>2. step \in [(1..N) \X Nat -> Nat]
  BY <1>1
<1>3. \A n \in 1..N, x \in Nat : step[<<n, x>>] = x + texts[n].len + 1
  OBVIOUS
<1> HIDE DEF step
<1>4. PICK f \in [0..N -> Nat] : f[0] = 0 /\ \A n \in 1..N : f[n] = step[<<n, f[n - 1]>>]
  <2>1. \E f \in [0..N -> Nat] : Iterates(f, 0, step, N)
    BY <1>2, Recursion
  <2> QED
    BY <2>1 DEF Iterates
<1>5. \A n \in 1..N : f[n] = f[n - 1] + texts[n].len + 1
  <2> TAKE n \in 1..N
  <2>1. n - 1 \in 0..N
    OBVIOUS
  <2>2. f[n - 1] \in Nat
    BY <2>1
  <2> QED
    BY <1>3, <1>4, <2>2
<1>6. \A n \in 0..N : f[n] = IF n = 0 THEN 0 ELSE f[n - 1] + texts[n].len + 1
  BY <1>4, <1>5
<1>7. Equation(f)
  BY <1>4, <1>6
<1>8. EndsOfLines(texts) = CHOOSE g : Equation(g)
  BY DEF EndsOfLines
<1> HIDE DEF Equation
<1>9. PICK g : g = EndsOfLines(texts) /\ Equation(g)
  BY <1>7, <1>8
<1>10. g = [n \in 0..N |-> IF n = 0 THEN 0 ELSE g[n - 1] + texts[n].len + 1]
  BY <1>9 DEF Equation
<1>11. g[0] = 0 /\ \A n \in 1..N : g[n] = g[n - 1] + texts[n].len + 1
  BY <1>10
<1> DEFINE Typed == {n \in 0..N : g[n] \in Nat}
<1>12. 0..N \subseteq Typed
  <2>1. 0 \in Typed
    BY <1>11
  <2>2. \A n \in 1..N : n - 1 \in Typed => n \in Typed
    BY <1>1, <1>11
  <2> HIDE DEF Typed
  <2> QED
    BY <2>1, <2>2, UpToInduct
<1>13. g \in [0..N -> Nat]
  BY <1>10, <1>12
<1> QED
  BY <1>9, <1>11, <1>13

\* The lines of a text do not touch.
LEMMA LinesApart ==
    ASSUME NEW N \in Nat, NEW end \in [0..N -> Nat], \A n \in 1..N : end[n - 1] < end[n]
    PROVE  \A i, j \in 0..N : i < j => end[i] < end[j]
<1> SUFFICES ASSUME NEW i \in 0..N PROVE \A j \in 0..N : i < j => end[i] < end[j]
  OBVIOUS
<1> DEFINE Good == {j \in 0..N : i < j => end[i] < end[j]}
<1>1. 0 \in Good
  OBVIOUS
<1>2. ASSUME NEW j \in 1..N, j - 1 \in Good PROVE j \in Good
  <2>1. end[j - 1] < end[j] /\ end[j - 1] \in Nat /\ end[j] \in Nat /\ end[i] \in Nat
    OBVIOUS
  <2>2. i < j => i = j - 1 \/ i < j - 1
    OBVIOUS
  <2> QED
    BY <1>2, <2>1, <2>2
<1> HIDE DEF Good
<1>3. 0..N \subseteq Good
  BY <1>1, <1>2, UpToInduct
<1> QED
  BY <1>3 DEF Good

LEMMA ParagraphEndsAt ==
    ASSUME NEW breaks, breaks \subseteq Nat \ {0}
    PROVE  \A p \in ParagraphEnds(breaks) : p \in breaks /\ p >= 2
<1> SUFFICES ASSUME NEW p \in ParagraphEnds(breaks) PROVE p \in breaks /\ p >= 2
  OBVIOUS
<1> DEFINE Q == {q \in breaks : q < p /\ q..p \subseteq breaks}
<1>1. p \in breaks /\ Cardinality(Q) % 2 = 1
  BY DEF ParagraphEnds
<1>2. Q # {}
  <2> HIDE DEF Q
  <2> SUFFICES ASSUME Q = {} PROVE FALSE
    OBVIOUS
  <2>1. Cardinality(Q) = 0
    BY FS_EmptySet
  <2>2. 0 % 2 = 0
    OBVIOUS
  <2> QED
    BY <1>1, <2>1, <2>2
<1>3. PICK q \in breaks : q < p
  BY <1>2
<1>4. q \in Nat \ {0} /\ p \in Nat \ {0}
  BY <1>1, <1>3
<1> QED
  BY <1>1, <1>3, <1>4

LEMMA NoTextTyped == NoText \in Text
<1>1. NoText \in [len : Nat, ends : [Level -> SUBSET Nat]]
  BY DEF NoText
<1>2. Separated(NoText)
  BY DEF NoText, Separated, Level
<1> QED
  BY <1>1, <1>2 DEF Text

LEMMA LinesTyped ==
    ASSUME NEW texts \in Seq(Text)
    PROVE  Lines(texts) \in Text
<1> DEFINE end == EndsOfLines(texts)
           breaks == {end[i] : i \in 1..Len(texts) - 1}
           InLine(l) == UNION {{end[i - 1] + p : p \in texts[i].ends[l]} : i \in DOMAIN texts}
           joined == [len |-> end[Len(texts)] - 1,
                      ends |-> [l \in Level |-> CASE l = 1 -> ParagraphEnds(breaks)
                                                  [] l = 2 -> breaks
                                                  [] OTHER -> InLine(l)]]
<1>1. Lines(texts) = IF texts = <<>> THEN NoText ELSE joined
  BY DEF Lines
<1>2. ASSUME texts # <<>> PROVE joined \in Text
  <2>1. PICK N \in Nat \ {0} : N = Len(texts)
    BY <1>2, EmptySeq
  <2>2. /\ end \in [0..N -> Nat] /\ end[0] = 0
        /\ \A n \in 1..N : end[n] = end[n - 1] + texts[n].len + 1
    BY <2>1, EndsOfLinesStep
  <2>3. \A i \in 1..N : /\ texts[i].len \in Nat /\ texts[i].ends \in [Level -> SUBSET Nat]
                        /\ Separated(texts[i])
    <3> TAKE i \in 1..N
    <3>1. texts[i] \in Text
      BY <2>1
    <3> QED
      BY <3>1 DEF Text
  <2> HIDE DEF end
  <2>4. \A n \in 1..N : end[n - 1] \in Nat /\ end[n] \in Nat /\ end[n - 1] < end[n]
    <3> TAKE n \in 1..N
    <3>1. n - 1 \in 0..N /\ n \in 0..N
      OBVIOUS
    <3>2. end[n - 1] \in Nat /\ end[n] \in Nat /\ end[n] = end[n - 1] + texts[n].len + 1
      BY <2>2, <3>1
    <3>3. texts[n].len \in Nat
      BY <2>3
    <3> QED
      BY <3>2, <3>3
  <2>5. \A i, j \in 0..N : i < j => end[i] < end[j]
    BY <2>2, <2>4, LinesApart
  <2>6. PICK len \in Nat : len = end[N] - 1 /\ end[N] = len + 1
    <3>1. N \in 1..N
      OBVIOUS
    <3>2. end[N] >= 1 /\ end[N] \in Nat
      BY <2>4, <3>1
    <3>3. end[N] - 1 \in Nat /\ end[N] = (end[N] - 1) + 1
      BY <3>2
    <3> QED
      BY <3>3
  <2>7. \A i \in 0..N : end[i] \in Nat /\ (i # N => end[i] <= len) /\ (i # 0 => end[i] >= 1)
    <3> TAKE i \in 0..N
    <3>1. end[i] \in Nat /\ end[N] \in Nat /\ end[0] = 0 /\ 0 \in 0..N /\ N \in 0..N
      BY <2>2
    <3>2. i # N => end[i] < end[N]
      BY <2>5
    <3>3. i # 0 => end[0] < end[i]
      BY <2>5
    <3> QED
      BY <2>6, <3>1, <3>2, <3>3
  <2>8. breaks \subseteq 1..len
    <3> SUFFICES ASSUME NEW i \in 1..Len(texts) - 1 PROVE end[i] \in 1..len
      OBVIOUS
    <3>1. i \in 0..N /\ i # 0 /\ i # N
      BY <2>1
    <3>2. end[i] \in Nat /\ end[i] <= len /\ end[i] >= 1
      BY <2>7, <3>1
    <3> QED
      BY <3>2
  <2>9. ASSUME NEW l \in Level, NEW p \in InLine(l)
        PROVE  \E i \in 1..N, q \in Nat :
                   /\ q \in texts[i].ends[l] /\ p = end[i - 1] + q /\ Width[l] <= q /\ q <= texts[i].len
                   /\ p \in Nat /\ p < end[i]
    <3>1. PICK i \in 1..N : \E q \in texts[i].ends[l] : p = end[i - 1] + q
      BY <2>1
    <3>5. PICK q \in texts[i].ends[l] : p = end[i - 1] + q
      BY <3>1
    <3>2. q \in Nat /\ Width[l] <= q /\ q <= texts[i].len
      BY <2>3 DEF Separated
    <3>3. end[i] = end[i - 1] + texts[i].len + 1 /\ end[i - 1] \in Nat /\ texts[i].len \in Nat
      BY <2>2, <2>3, <2>4
    <3>4. p \in Nat /\ p < end[i]
      BY <3>5, <3>2, <3>3
    <3> QED
      BY <3>5, <3>2, <3>4
  <2> HIDE DEF InLine
  <2>10. PICK t : t = joined
    OBVIOUS
  <2>11. /\ t.len = len
         /\ t.ends[1] = ParagraphEnds(breaks) /\ t.ends[2] = breaks
         /\ t.ends[3] = InLine(3) /\ t.ends[4] = InLine(4) /\ t.ends[5] = InLine(5)
         /\ t = [len |-> len, ends |-> t.ends] /\ t.ends = [l \in Level |-> t.ends[l]]
    <3> DEFINE At(l) == CASE l = 1 -> ParagraphEnds(breaks) [] l = 2 -> breaks [] OTHER -> InLine(l)
    <3>1. t.len = len /\ t.ends = [l \in Level |-> At(l)] /\ t = [len |-> len, ends |-> t.ends]
      BY <2>1, <2>6, <2>10
    <3>2. At(1) = ParagraphEnds(breaks) /\ At(2) = breaks
      OBVIOUS
    <3>3. At(3) = InLine(3) /\ At(4) = InLine(4) /\ At(5) = InLine(5)
      OBVIOUS
    <3>4. 1 \in Level /\ 2 \in Level /\ 3 \in Level /\ 4 \in Level /\ 5 \in Level
      BY DEF Level
    <3> HIDE DEF At
    <3>5. \A l \in Level : t.ends[l] = At(l)
      BY <3>1
    <3>6. t.ends = [l \in Level |-> t.ends[l]]
      BY <3>1
    <3>7. t.ends[1] = ParagraphEnds(breaks) /\ t.ends[2] = breaks
      BY <3>2, <3>4, <3>5
    <3>8. t.ends[3] = InLine(3) /\ t.ends[4] = InLine(4) /\ t.ends[5] = InLine(5)
      BY <3>3, <3>4, <3>5
    <3> QED
      BY <3>1, <3>6, <3>7, <3>8
  <2>12. \A l \in Level : Width[l] \in {1, 2} /\ (l \in {2, 5} => Width[l] = 1) /\ (l \in {1, 3, 4} => Width[l] = 2)
    BY DEF Level, Width
  <2>13. \A l \in {3, 4, 5} : \A p \in InLine(l) : p \in Nat /\ Width[l] <= p /\ p <= len
    <3> SUFFICES ASSUME NEW l \in {3, 4, 5}, NEW p \in InLine(l)
                 PROVE  p \in Nat /\ Width[l] <= p /\ p <= len
      OBVIOUS
    <3>0. l \in Level
      BY DEF Level
    <3>1. PICK i \in 1..N, q \in Nat : p = end[i - 1] + q /\ Width[l] <= q /\ p \in Nat /\ p < end[i]
      BY <2>9, <3>0
    <3>2. end[i] <= len + 1 /\ end[i] \in Nat /\ end[i - 1] \in Nat
      <4>1. i \in 0..N /\ i \in 1..N
        OBVIOUS
      <4>2. i # N => end[i] <= len
        BY <2>7, <4>1
      <4>3. i = N => end[i] = len + 1
        BY <2>6
      <4>4. end[i] \in Nat /\ end[i - 1] \in Nat
        BY <2>4
      <4> QED
        BY <4>2, <4>3, <4>4
    <3> QED
      BY <2>12, <3>0, <3>1, <3>2
  <2>14. \A p \in ParagraphEnds(breaks) : p \in breaks /\ p >= 2
    <3>1. breaks \subseteq Nat \ {0}
      BY <2>8
    <3> HIDE DEF breaks
    <3> QED
      BY <3>1, ParagraphEndsAt
  <2> HIDE DEF breaks
  <2>15. \A l \in Level : \A p \in t.ends[l] : p \in Nat /\ Width[l] <= p /\ p <= len
    <3> SUFFICES ASSUME NEW l \in Level, NEW p \in t.ends[l] PROVE p \in Nat /\ Width[l] <= p /\ p <= len
      OBVIOUS
    <3>1. CASE l = 1
      <4>1. p \in breaks /\ p >= 2
        BY <2>11, <2>14, <3>1
      <4>2. p \in 1..len /\ Width[l] = 2
        BY <2>8, <2>12, <3>1, <4>1
      <4> QED
        BY <4>1, <4>2
    <3>2. CASE l = 2
      <4>1. p \in 1..len /\ Width[l] = 1
        BY <2>8, <2>11, <2>12, <3>2
      <4> QED
        BY <4>1
    <3>3. CASE l \in {3, 4, 5}
      <4>1. p \in InLine(l)
        BY <2>11, <3>3
      <4> QED
        BY <2>13, <3>3, <4>1
    <3> QED
      BY <3>1, <3>2, <3>3 DEF Level
  <2>16. ASSUME NEW l \in {3, 4}, NEW m \in Level, NEW p \in t.ends[l], p - 1 \in t.ends[m] PROVE FALSE
    <3>0. l \in Level
      BY DEF Level
    <3>1. p \in InLine(l)
      BY <2>11
    <3>2. PICK i \in 1..N, q \in Nat :
                   /\ q \in texts[i].ends[l] /\ p = end[i - 1] + q /\ Width[l] <= q /\ q <= texts[i].len
      BY <2>9, <3>0, <3>1
    <3>3. q >= 2
      BY <2>12, <3>0, <3>2
    <3>4. /\ end[i - 1] \in Nat /\ end[i] \in Nat /\ end[i] = end[i - 1] + texts[i].len + 1 /\ texts[i].len \in Nat
      BY <2>2, <2>3, <2>4
    <3>5. end[i - 1] < p - 1 /\ p - 1 < end[i]
      BY <3>2, <3>3, <3>4
    <3>6. \A j \in 0..N : p - 1 # end[j]
      <4> TAKE j \in 0..N
      <4>1. i - 1 \in 0..N /\ i \in 0..N /\ (j < i - 1 \/ j = i - 1 \/ j = i \/ i < j)
        OBVIOUS
      <4>2. end[j] \in Nat
        BY <2>2
      <4>3. j < i - 1 => end[j] < end[i - 1]
        BY <2>5, <4>1
      <4>4. i < j => end[i] < end[j]
        BY <2>5, <4>1
      <4> QED
        BY <3>4, <3>5, <4>1, <4>2, <4>3, <4>4
    <3>7. p - 1 \notin breaks
      <4>1. \A j \in 1..Len(texts) - 1 : p - 1 # end[j]
        BY <2>1, <3>6
      <4> QED
        BY <4>1 DEF breaks
    <3>8. m \in {3, 4, 5}
      BY <2>11, <2>14, <2>16, <3>7 DEF Level
    <3>9. p - 1 \in InLine(m)
      BY <2>11, <2>16, <3>8
    <3>10. PICK j \in 1..N, r \in Nat :
                   /\ r \in texts[j].ends[m] /\ p - 1 = end[j - 1] + r /\ Width[m] <= r /\ p - 1 < end[j]
      BY <2>9, <3>9
    <3>11. r >= 1 /\ end[j - 1] \in Nat /\ end[j] \in Nat
      <4>1. Width[m] \in {1, 2}
        BY <2>12
      <4>2. end[j - 1] \in Nat /\ end[j] \in Nat
        BY <2>4
      <4>3. r >= 1
        BY <3>10, <4>1
      <4> QED
        BY <4>2, <4>3
    <3>12. j = i
      <4>1. i < j => i = j - 1 \/ i < j - 1
        OBVIOUS
      <4>2. i < j => end[i] <= end[j - 1]
        <5>1. i \in 0..N /\ j - 1 \in 0..N
          OBVIOUS
        <5>2. i < j - 1 => end[i] < end[j - 1]
          BY <2>5, <5>1
        <5> QED
          BY <3>4, <3>11, <4>1, <5>2
      <4>3. j < i => end[j] <= end[i - 1]
        <5>1. j \in 0..N /\ i - 1 \in 0..N
          OBVIOUS
        <5>2. j < i - 1 => end[j] < end[i - 1]
          BY <2>5, <5>1
        <5>3. j < i => j = i - 1 \/ j < i - 1
          OBVIOUS
        <5> QED
          BY <3>4, <3>11, <5>2, <5>3
      <4>4. ~ (i < j) /\ ~ (j < i)
        BY <3>4, <3>5, <3>10, <3>11, <4>2, <4>3
      <4> QED
        BY <4>4
    <3>13. r = q - 1
      BY <3>2, <3>4, <3>10, <3>12
    <3>14. q - 1 \notin texts[i].ends[m]
      BY <2>3, <3>2 DEF Separated
    <3> QED
      BY <3>10, <3>12, <3>13, <3>14
  <2>17. t.ends \in [Level -> SUBSET Nat]
    BY <2>11, <2>15
  <2>18. Separated(t)
    BY <2>11, <2>15, <2>16 DEF Separated
  <2> QED
    BY <2>10, <2>11, <2>17, <2>18 DEF Text
<1> QED
  BY <1>1, <1>2, NoTextTyped

\* A text all on one line: a line break is a space.
Spaced(t) ==
    [len |-> t.len,
     ends |-> [l \in Level |-> CASE l \in {1, 2} -> {}
                                  [] l = 5 -> t.ends[2] \cup t.ends[5]
                                  [] OTHER -> t.ends[l]]]

LEMMA SpacedTyped ==
    ASSUME NEW t \in Text
    PROVE  Spaced(t) \in Text
<1>1. t \in [len : Nat, ends : [Level -> SUBSET Nat]] /\ Separated(t)
  BY DEF Text
<1>2. PICK u : u = Spaced(t)
  OBVIOUS
<1>3. 1 \in Level /\ 2 \in Level /\ 3 \in Level /\ 4 \in Level /\ 5 \in Level
  BY DEF Level
<1>4. /\ u.len = t.len /\ u \in [len : Nat, ends : [Level -> SUBSET Nat]]
      /\ u.ends[1] = {} /\ u.ends[2] = {} /\ u.ends[3] = t.ends[3] /\ u.ends[4] = t.ends[4]
      /\ u.ends[5] = t.ends[5] \cup t.ends[2]
  <2> DEFINE e == t.ends
             At(l) == CASE l \in {1, 2} -> {} [] l = 5 -> e[2] \cup e[5] [] OTHER -> e[l]
             f == [l \in Level |-> At(l)]
  <2>1. e \in [Level -> SUBSET Nat] /\ t.len \in Nat
    BY <1>1
  <2>2. u = [len |-> t.len, ends |-> f]
    BY <1>2 DEF Spaced
  <2>3. At(1) = {} /\ At(2) = {} /\ At(3) = e[3] /\ At(4) = e[4] /\ At(5) = e[2] \cup e[5]
    OBVIOUS
  <2>4. \A l \in Level : At(l) \subseteq Nat
    BY <1>3, <2>1, <2>3 DEF Level
  <2> HIDE DEF At
  <2>5. f \in [Level -> SUBSET Nat] /\ \A l \in Level : f[l] = At(l)
    BY <2>4
  <2>6. f[1] = {} /\ f[2] = {} /\ f[3] = e[3] /\ f[4] = e[4] /\ f[5] = e[2] \cup e[5]
    BY <1>3, <2>3, <2>5
  <2> HIDE DEF f
  <2> QED
    BY <2>1, <2>2, <2>5, <2>6
<1>5. Width[1] = 2 /\ Width[2] = 1 /\ Width[3] = 2 /\ Width[4] = 2 /\ Width[5] = 1
  BY DEF Width
<1>6. \A l \in Level : \A p \in u.ends[l] : Width[l] <= p /\ p <= u.len
  <2> SUFFICES ASSUME NEW l \in Level, NEW p \in u.ends[l] PROVE Width[l] <= p /\ p <= u.len
    OBVIOUS
  <2>1. l \in {3, 4, 5}
    BY <1>4 DEF Level
  <2>2. CASE p \in t.ends[l]
    BY <1>1, <1>4, <2>2 DEF Separated
  <2>3. CASE p \notin t.ends[l]
    <3>1. l = 5 /\ p \in t.ends[2]
      BY <1>4, <2>1, <2>3
    <3>2. Width[2] <= p /\ p <= t.len
      BY <1>1, <1>3, <3>1 DEF Separated
    <3> QED
      BY <1>4, <1>5, <3>1, <3>2
  <2> QED
    BY <2>2, <2>3
<1>7. \A l \in {3, 4}, m \in Level : \A p \in u.ends[l] : p - 1 \notin u.ends[m]
  <2> SUFFICES ASSUME NEW l \in {3, 4}, NEW m \in Level, NEW p \in u.ends[l] PROVE p - 1 \notin u.ends[m]
    OBVIOUS
  <2>1. p \in t.ends[l]
    BY <1>4
  <2>2. \A k \in Level : p - 1 \notin t.ends[k]
    BY <1>1, <2>1 DEF Separated
  <2>3. m = 1 \/ m = 2 \/ m = 3 \/ m = 4 \/ m = 5
    BY DEF Level
  <2>4. u.ends[m] \subseteq t.ends[m] \cup t.ends[2]
    BY <1>4, <2>3
  <2> QED
    BY <1>3, <2>2, <2>4
<1> QED
  BY <1>2, <1>4, <1>6, <1>7 DEF Text, Separated

\* What is at the ends of a set of places.
LEMMA Edges ==
    ASSUME NEW T, NEW lo \in Nat, NEW hi \in Int, T \subseteq lo..hi, T # {}
    PROVE  /\ Min(T) \in T /\ Max(T) \in T /\ Min(T) \in Nat /\ Max(T) \in Nat
           /\ \A x \in T : Min(T) <= x /\ x <= Max(T)
<1>1. T \subseteq Nat
  OBVIOUS
<1>2. Min(T) \in Nat /\ Min(T) \in T /\ \A y \in T : Min(T) <= y
  BY <1>1, LeastOf
<1>3. Max(T) \in T /\ \A y \in T : Max(T) >= y
  <2>1. lo \in Int /\ hi \in Int
    OBVIOUS
  <2> QED
    BY <2>1, GreatestIs
<1> HIDE DEF Max, Min
<1> QED
  BY <1>1, <1>2, <1>3

LEMMA TextOfTyped ==
    ASSUME NEW s, s[1] \in Nat, s[2] \in Int
    PROVE  TextOf(s) \in Text
<1> DEFINE words == InSpan(s)
           breaks == {p - Min(words) + 1 : p \in LineEnds(<<Min(words), Max(words)>>)}
           len == Max(words) - Min(words) + 1
           At(l) == CASE l = 1 -> ParagraphEnds(breaks) [] l = 2 -> breaks [] OTHER -> {}
           text == [len |-> len, ends |-> [l \in Level |-> At(l)]]
<1>1. TextOf(s) = IF words = {} THEN NoText ELSE text
  BY DEF TextOf
<1>2. ASSUME words # {} PROVE text \in Text
  <2>1. words \subseteq s[1]..s[2]
    BY DEF InSpan
  <2>2. PICK a \in Nat, b \in Nat : a = Min(words) /\ b = Max(words) /\ a <= b
    <3> HIDE DEF words
    <3>1. /\ Min(words) \in words /\ Max(words) \in words /\ Min(words) \in Nat /\ Max(words) \in Nat
          /\ \A x \in words : Min(words) <= x /\ x <= Max(words)
      BY <1>2, <2>1, Edges
    <3> QED
      BY <3>1
  <2> HIDE DEF words
  <2>3. PICK m \in Nat \ {0} : m = len /\ m = b - a + 1
    BY <2>2
  <2>4. breaks \subseteq 1..m
    <3> SUFFICES ASSUME NEW p \in LineEnds(<<a, b>>) PROVE p - a + 1 \in 1..m
      BY <2>2
    <3>1. p \in a..b
      BY DEF LineEnds
    <3> QED
      BY <2>3, <3>1
  <2> HIDE DEF breaks
  <2>5. \A p \in ParagraphEnds(breaks) : p \in breaks /\ p >= 2
    <3>1. breaks \subseteq Nat \ {0}
      BY <2>4
    <3> QED
      BY <3>1, ParagraphEndsAt
  <2>6. PICK t : t = text
    OBVIOUS
  <2>7. At(1) = ParagraphEnds(breaks) /\ At(2) = breaks
    OBVIOUS
  <2>8. At(3) = {} /\ At(4) = {} /\ At(5) = {}
    OBVIOUS
  <2>9. t.len = m /\ t = [len |-> m, ends |-> t.ends] /\ t.ends = [l \in Level |-> t.ends[l]]
        /\ \A l \in Level : t.ends[l] = At(l)
    <3> HIDE DEF At, len
    <3> QED
      BY <2>3, <2>6
  <2>10. \A l \in Level : l = 1 \/ l = 2 \/ l = 3 \/ l = 4 \/ l = 5
    BY DEF Level
  <2> HIDE DEF At
  <2>11. \A l \in Level : \A p \in t.ends[l] : p \in 1..m /\ Width[l] <= p
    <3> SUFFICES ASSUME NEW l \in Level, NEW p \in t.ends[l] PROVE p \in 1..m /\ Width[l] <= p
      OBVIOUS
    <3>1. l \in {1, 2}
      BY <2>8, <2>9, <2>10
    <3>2. p \in breaks /\ (l = 1 => p >= 2)
      BY <2>5, <2>7, <2>9, <3>1
    <3>3. Width[1] = 2 /\ Width[2] = 1
      BY DEF Width
    <3> QED
      BY <2>4, <3>1, <3>2, <3>3
  <2>12. Separated(t)
    <3>1. \A l \in {3, 4} : t.ends[l] = {}
      BY <2>8, <2>9 DEF Level
    <3> QED
      BY <2>9, <2>11, <3>1 DEF Separated
  <2>13. t.ends \in [Level -> SUBSET Nat]
    BY <2>9, <2>11
  <2> QED
    BY <2>6, <2>9, <2>12, <2>13 DEF Text
<1> QED
  BY <1>1, <1>2, NoTextTyped

----------------------------------------------------------------------------
(* Blocks.                                                                 *)

\* Blocks hang below blocks before them that may have some.
Forest(bs) ==
    /\ bs \in Seq(Block)
    /\ \A i \in 1..Len(bs) :
           bs[i].parent < i /\ (bs[i].parent = 0 \/ bs[bs[i].parent].type \in ParentTypes)

\* What a sequence has been and what it becomes.
Extends(bs, cs) == Len(bs) <= Len(cs) /\ \A i \in 1..Len(bs) : cs[i] = bs[i]

\* The sections of a stack are blocks that may have others below them.
Open(open, bs, levels) ==
    /\ open \in Seq([block : 1..Len(bs), level : levels])
    /\ \A n \in 1..Len(open) : bs[open[n].block].type \in ParentTypes

\* Where a new block may hang.
Root(bs, p) == p \in 0..Len(bs) /\ (p = 0 \/ bs[p].type \in ParentTypes)

LEMMA Entry == ASSUME NEW S, NEW s \in Seq(S), NEW i \in 1..Len(s) PROVE s[i] \in S
OBVIOUS

LEMMA ExtendsTwice ==
    ASSUME NEW bs, NEW cs, NEW ds, NEW S, bs \in Seq(S), cs \in Seq(S), ds \in Seq(S),
           Extends(bs, cs), Extends(cs, ds)
    PROVE  Extends(bs, ds)
<1>1. PICK k \in Nat, m \in Nat, n \in Nat : k = Len(bs) /\ m = Len(cs) /\ n = Len(ds)
  OBVIOUS
<1> QED
  BY <1>1 DEF Extends

LEMMA ForestTyped ==
    ASSUME NEW bs, Forest(bs)
    PROVE  /\ Len(bs) \in Nat /\ DOMAIN bs = 1..Len(bs)
           /\ \A i \in 1..Len(bs) : /\ bs[i] \in Block /\ bs[i].parent \in Nat
                                    /\ bs[i].text \in Text /\ bs[i].order \in Nat
                                    /\ Root(bs, bs[i].parent)
<1>1. bs \in Seq(Block) /\ Len(bs) \in Nat /\ DOMAIN bs = 1..Len(bs)
  BY DEF Forest
<1>2. ASSUME NEW i \in 1..Len(bs)
      PROVE  /\ bs[i] \in Block /\ bs[i].parent \in Nat /\ bs[i].text \in Text /\ bs[i].order \in Nat
             /\ Root(bs, bs[i].parent)
  <2>1. bs[i] \in Block
    BY <1>1
  <2>2. bs[i].parent \in Nat /\ bs[i].text \in Text /\ bs[i].order \in Nat
    BY <2>1 DEF Block
  <2>3. bs[i].parent < i /\ (bs[i].parent = 0 \/ bs[bs[i].parent].type \in ParentTypes)
    BY DEF Forest
  <2>4. bs[i].parent \in 0..Len(bs)
    BY <1>1, <2>2, <2>3
  <2> QED
    BY <2>1, <2>2, <2>3, <2>4 DEF Root
<1> QED
  BY <1>1, <1>2

LEMMA AppendGrows ==
    ASSUME NEW bs, Forest(bs), NEW b \in Block, Root(bs, b.parent)
    PROVE  /\ Forest(Append(bs, b)) /\ Extends(bs, Append(bs, b))
           /\ Len(Append(bs, b)) = Len(bs) + 1 /\ Append(bs, b)[Len(bs) + 1] = b
<1>1. PICK n \in Nat : n = Len(bs)
  BY DEF Forest
<1>2. PICK cs : cs = Append(bs, b)
  OBVIOUS
<1>3. cs \in Seq(Block) /\ Len(cs) = n + 1 /\ cs[n + 1] = b /\ \A i \in 1..n : cs[i] = bs[i]
  BY <1>1, <1>2 DEF Forest
<1>4. ASSUME NEW i \in 1..n + 1
      PROVE  cs[i].parent < i /\ (cs[i].parent = 0 \/ cs[cs[i].parent].type \in ParentTypes)
  <2>1. CASE i = n + 1
    <3>1. b.parent \in 0..n /\ (b.parent = 0 \/ bs[b.parent].type \in ParentTypes)
      BY <1>1 DEF Root
    <3>2. b.parent # 0 => cs[b.parent] = bs[b.parent]
      BY <1>3, <3>1
    <3>3. b.parent < n + 1
      BY <3>1
    <3> QED
      BY <1>3, <2>1, <3>1, <3>2, <3>3
  <2>2. CASE i \in 1..n
    <3>1. /\ bs[i].parent \in Nat /\ bs[i].parent < i
          /\ bs[i].parent = 0 \/ bs[bs[i].parent].type \in ParentTypes
      BY <1>1, <2>2, ForestTyped DEF Forest
    <3>2. bs[i].parent # 0 => cs[bs[i].parent] = bs[bs[i].parent]
      BY <1>3, <2>2, <3>1
    <3> QED
      BY <1>3, <2>2, <3>1, <3>2
  <2> QED
    BY <2>1, <2>2
<1>5. Forest(cs)
  BY <1>3, <1>4 DEF Forest
<1>6. Extends(bs, cs)
  BY <1>1, <1>3 DEF Extends
<1> QED
  BY <1>1, <1>2, <1>3, <1>5, <1>6

LEMMA ConcatGrows ==
    ASSUME NEW bs, Forest(bs), NEW new \in Seq(Block), \A j \in 1..Len(new) : Root(bs, new[j].parent)
    PROVE  /\ Forest(bs \o new) /\ Extends(bs, bs \o new)
           /\ Len(bs \o new) = Len(bs) + Len(new)
           /\ \A i \in 1..Len(bs) + Len(new) :
                  i > Len(bs) => i - Len(bs) \in 1..Len(new) /\ (bs \o new)[i] = new[i - Len(bs)]
<1>1. PICK n \in Nat, m \in Nat : n = Len(bs) /\ m = Len(new)
  BY DEF Forest
<1>2. PICK cs : cs = bs \o new
  OBVIOUS
<1>3. cs \in Seq(Block) /\ Len(cs) = n + m
  BY <1>1, <1>2 DEF Forest
<1>4. \A i \in 1..n : cs[i] = bs[i]
  BY <1>1, <1>2 DEF Forest
<1>5. \A i \in 1..n + m : i > n => i - n \in 1..m /\ cs[i] = new[i - n]
  BY <1>1, <1>2 DEF Forest
<1>6. ASSUME NEW i \in 1..n + m
      PROVE  cs[i].parent < i /\ (cs[i].parent = 0 \/ cs[cs[i].parent].type \in ParentTypes)
  <2>1. CASE i > n
    <3>1. i - n \in 1..m /\ cs[i] = new[i - n]
      BY <1>5, <2>1
    <3>2. cs[i].parent \in 0..n /\ (cs[i].parent = 0 \/ bs[cs[i].parent].type \in ParentTypes)
      BY <1>1, <3>1 DEF Root
    <3>3. cs[i].parent # 0 => cs[cs[i].parent] = bs[cs[i].parent]
      BY <1>4, <3>2
    <3>4. cs[i].parent < i
      BY <2>1, <3>2
    <3> QED
      BY <3>2, <3>3, <3>4
  <2>2. CASE i \in 1..n
    <3>1. /\ bs[i].parent \in Nat /\ bs[i].parent < i
          /\ bs[i].parent = 0 \/ bs[bs[i].parent].type \in ParentTypes
      BY <1>1, <2>2, ForestTyped DEF Forest
    <3>3. bs[i].parent # 0 => bs[i].parent \in 1..n
      BY <2>2, <3>1
    <3>2. bs[i].parent # 0 => cs[bs[i].parent] = bs[bs[i].parent]
      BY <1>4, <3>3
    <3> QED
      BY <1>4, <2>2, <3>1, <3>2
  <2> QED
    BY <2>1, <2>2
<1>7. Forest(cs)
  BY <1>3, <1>6 DEF Forest
<1>8. Extends(bs, cs)
  BY <1>1, <1>3, <1>4 DEF Extends
<1> QED
  BY <1>1, <1>2, <1>3, <1>5, <1>7, <1>8

LEMMA OpenStays ==
    ASSUME NEW bs, NEW cs, Forest(bs), Forest(cs), Extends(bs, cs), NEW open, NEW levels, Open(open, bs, levels)
    PROVE  Open(open, cs, levels)
<1>1. PICK n \in Nat, m \in Nat, k \in Nat : n = Len(bs) /\ m = Len(cs) /\ n <= m /\ k = Len(open)
  BY ForestTyped DEF Extends, Open
<1>2. ASSUME NEW i \in 1..k
      PROVE  open[i] \in [block : 1..m, level : levels] /\ cs[open[i].block].type \in ParentTypes
  <2>0. open \in Seq([block : 1..n, level : levels]) /\ i \in 1..Len(open)
    BY <1>1 DEF Open
  <2>1. open[i] \in [block : 1..n, level : levels] /\ bs[open[i].block].type \in ParentTypes
    BY <1>1, <2>0, Entry DEF Open
  <2>2. open[i].block \in 1..n
    BY <2>1
  <2>3. cs[open[i].block] = bs[open[i].block]
    BY <1>1, <2>2 DEF Extends
  <2> QED
    BY <1>1, <2>1, <2>2, <2>3
<1>3. open = [i \in 1..k |-> open[i]]
  BY <1>1 DEF Open
<1>4. open \in Seq([block : 1..m, level : levels])
  <2> DEFINE S == [block : 1..m, level : levels]
  <2>1. \A i \in 1..k : open[i] \in S
    BY <1>2
  <2> HIDE DEF S
  <2>2. open \in [1..k -> S]
    BY <1>3, <2>1
  <2>3. open \in Seq(S)
    BY <1>1, <2>2, FunctionSeq
  <2> QED
    BY <2>3 DEF S
<1> QED
  BY <1>1, <1>2, <1>4 DEF Open

LEMMA RootStays ==
    ASSUME NEW bs, NEW cs, Forest(bs), Forest(cs), Extends(bs, cs), NEW p, Root(bs, p)
    PROVE  Root(cs, p)
<1>1. PICK n \in Nat, m \in Nat : n = Len(bs) /\ m = Len(cs) /\ n <= m
  BY ForestTyped DEF Extends
<1> QED
  BY <1>1 DEF Root, Extends

----------------------------------------------------------------------------
(* The section stack.                                                      *)

\* What is left of a stack is what it has up to the last section that outranks
\* the new one.
Keeps(open, level, k) ==
    /\ k \in 0..Len(open) /\ Popped(open, level) = SubSeq(open, 1, k)
    /\ k # 0 => open[k].level < level
    /\ \A n \in k + 1..Len(open) : ~ (open[n].level < level)

LEMMA PoppedKeeps ==
    ASSUME NEW S, NEW open \in Seq(S), NEW level
    PROVE  \E k \in 0..Len(open) : Keeps(open, level, k)
<1>1. PICK m \in Nat : m = Len(open)
  OBVIOUS
<1> DEFINE T == {n \in 0..m : n = 0 \/ open[n].level < level}
<1>2. PICK k : k = Max(T)
  OBVIOUS
<1>3. k \in T /\ \A y \in T : k >= y
  <2>1. T \subseteq 0..m /\ 0 \in T /\ 0 \in Int /\ m \in Int
    OBVIOUS
  <2> HIDE DEF T
  <2> QED
    BY <1>2, <2>1, GreatestIs
<1>4. Popped(open, level) = SubSeq(open, 1, k)
  BY <1>1, <1>2 DEF Popped
<1>5. k \in 0..m /\ (k # 0 => open[k].level < level)
  BY <1>3
<1>6. \A n \in k + 1..m : ~ (open[n].level < level)
  BY <1>3, <1>5
<1> QED
  BY <1>1, <1>4, <1>5, <1>6 DEF Keeps

LEMMA PrefixIs ==
    ASSUME NEW S, NEW open \in Seq(S), NEW k \in 0..Len(open)
    PROVE  /\ SubSeq(open, 1, k) \in Seq(S) /\ Len(SubSeq(open, 1, k)) = k
           /\ \A n \in 1..k : SubSeq(open, 1, k)[n] = open[n] /\ n \in 1..Len(open)
<1>1. PICK m \in Nat : m = Len(open) /\ k \in 0..m
  OBVIOUS
<1>2. \A i \in 1..k : open[i] \in S /\ i \in 1..m
  BY <1>1
<1>3. PICK s : s = SubSeq(open, 1, k)
  OBVIOUS
<1>4. s = [i \in 1..k |-> open[i]]
  BY <1>1, <1>2, <1>3
<1>5. s \in [1..k -> S]
  BY <1>2, <1>4
<1>6. s \in Seq(S) /\ Len(s) = k
  BY <1>1, <1>5, FunctionSeq
<1> QED
  BY <1>1, <1>2, <1>3, <1>4, <1>6

LEMMA PoppedTyped ==
    ASSUME NEW bs, NEW open, NEW levels, Open(open, bs, levels), NEW level
    PROVE  Open(Popped(open, level), bs, levels)
<1>1. PICK k \in 0..Len(open) : Keeps(open, level, k)
  BY PoppedKeeps DEF Open
<1>2. PICK s : s = Popped(open, level) /\ s = SubSeq(open, 1, k)
  BY <1>1 DEF Keeps
<1>3. /\ s \in Seq([block : 1..Len(bs), level : levels]) /\ Len(s) = k
      /\ \A n \in 1..k : s[n] = open[n] /\ n \in 1..Len(open)
  <2> DEFINE S == [block : 1..Len(bs), level : levels]
  <2>1. open \in Seq(S)
    BY DEF Open
  <2> HIDE DEF S
  <2>2. s \in Seq(S) /\ Len(s) = k /\ \A n \in 1..k : s[n] = open[n] /\ n \in 1..Len(open)
    BY <1>2, <2>1, PrefixIs
  <2> QED
    BY <2>2 DEF S
<1> QED
  BY <1>2, <1>3 DEF Open

LEMMA TopTyped ==
    ASSUME NEW bs, Forest(bs), NEW open, NEW levels, Open(open, bs, levels), NEW root, Root(bs, root)
    PROVE  Root(bs, Top(open, root))
<1>1. CASE open = <<>>
  BY <1>1 DEF Top
<1>2. CASE open # <<>>
  <2>1. PICK n \in Nat \ {0} : n = Len(open)
    BY <1>2, EmptySeq DEF Open
  <2>2. n \in 1..n
    OBVIOUS
  <2>3. Last(open) = open[n]
    BY <2>1 DEF Last
  <2>4. open[n] \in [block : 1..Len(bs), level : levels] /\ bs[open[n].block].type \in ParentTypes
    <3>1. open \in Seq([block : 1..Len(bs), level : levels]) /\ n \in 1..Len(open)
      BY <2>1, <2>2 DEF Open
    <3> QED
      BY <3>1, Entry DEF Open
  <2>5. open[n].block \in 1..Len(bs) /\ Len(bs) \in Nat
    BY <2>4, ForestTyped
  <2>6. Top(open, root) = open[n].block
    BY <1>2, <2>3 DEF Top
  <2> QED
    BY <2>4, <2>5, <2>6 DEF Root
<1> QED
  BY <1>1, <1>2

LEMMA PushTyped ==
    ASSUME NEW bs, Forest(bs), NEW open, NEW levels, Open(open, bs, levels),
           NEW b \in 1..Len(bs), bs[b].type \in ParentTypes, NEW level \in levels
    PROVE  Open(Append(open, [block |-> b, level |-> level]), bs, levels)
<1>1. PICK n \in Nat : n = Len(open)
  BY DEF Open
<1>2. PICK s : s = Append(open, [block |-> b, level |-> level])
  OBVIOUS
<1>3. /\ s \in Seq([block : 1..Len(bs), level : levels]) /\ Len(s) = n + 1
      /\ s[n + 1] = [block |-> b, level |-> level] /\ \A i \in 1..n : s[i] = open[i]
  BY <1>1, <1>2 DEF Open
<1>4. \A i \in 1..n : bs[open[i].block].type \in ParentTypes
  BY <1>1 DEF Open
<1>5. \A i \in 1..n + 1 : bs[s[i].block].type \in ParentTypes
  BY <1>1, <1>3, <1>4
<1> QED
  BY <1>2, <1>3, <1>5 DEF Open

----------------------------------------------------------------------------
(* What is added.                                                          *)

Counting == counters \in [Counter -> Nat]

LEMMA CountedTyped ==
    ASSUME Counting, NEW c \in Counter
    PROVE  Number(c) \in Nat /\ Number(c) = counters[c] + 1 /\ Counted(c) \in [Counter -> Nat]
           /\ Counted(c)[c] = Number(c) /\ \A d \in Counter : d # c => Counted(c)[d] = counters[d]
BY DEF Counting, Number, Counted

LEMMA NamedTyped == ASSUME NEW name \in IdName, NEW n \in Nat PROVE Named(name, n) \in Id
BY DEF Named, Id

LEMMA NewBlockTyped ==
    ASSUME NEW type \in ParentTypes \cup ChildTypes, NEW id \in Id, NEW parent \in Nat, NEW order \in Nat,
           NEW text \in Text, NEW units, units \subseteq Nat
    PROVE  /\ NewBlock(type, id, parent, order, text, units) \in Block
           /\ NewBlock(type, id, parent, order, text, units).type = type
           /\ NewBlock(type, id, parent, order, text, units).id = id
           /\ NewBlock(type, id, parent, order, text, units).parent = parent
           /\ NewBlock(type, id, parent, order, text, units).order = order
           /\ NewBlock(type, id, parent, order, text, units).text = text
           /\ NewBlock(type, id, parent, order, text, units).units = units
BY DEF NewBlock, Block

\* Blocks are only ever added, of their types and where they may hang.
Adds(levels) ==
    /\ Forest(blocks') /\ Extends(blocks, blocks')
    /\ Open(stack', blocks', levels) /\ counters' \in [Counter -> Nat]

LEMMA AddSectionAdds ==
    ASSUME Forest(blocks), Open(stack, blocks, 1..6), Counting,
           NEW units \in SUBSET Nat, NEW level \in 1..6, NEW text \in Text, AddSection(units, level, text)
    PROVE  Adds(1..6)
<1> DEFINE open == Popped(stack, level)
           b == NewBlock("section", Named("sec", Number("section")), Top(open, 0), Number("section"), text, units)
<1>1. blocks' = Append(blocks, b) /\ counters' = Counted("section")
      /\ stack' = Append(open, [block |-> Len(blocks) + 1, level |-> level])
  BY DEF AddSection
<1>2. Number("section") \in Nat /\ Counted("section") \in [Counter -> Nat]
  BY CountedTyped DEF Counter
<1>3. Open(open, blocks, 1..6) /\ Root(blocks, 0)
  BY PoppedTyped, ForestTyped DEF Root
<1>4. Root(blocks, Top(open, 0))
  BY <1>3, TopTyped
<1>5. b \in Block /\ b.parent = Top(open, 0) /\ b.type = "section"
  <2>0. "sec" \in IdName
    BY DEF IdName
  <2>1. Named("sec", Number("section")) \in Id
    BY <1>2, <2>0, NamedTyped
  <2>2. Top(open, 0) \in Nat
    BY <1>4, ForestTyped DEF Root
  <2>3. "section" \in ParentTypes \cup ChildTypes
    BY DEF ParentTypes
  <2>4. PICK p \in Nat, n \in Nat, id \in Id :
            p = Top(open, 0) /\ n = Number("section") /\ id = Named("sec", Number("section"))
    BY <1>2, <2>1, <2>2
  <2>5. b = NewBlock("section", id, p, n, text, units)
    BY <2>4
  <2>6. NewBlock("section", id, p, n, text, units) \in Block
    BY <2>3 DEF NewBlock, Block
  <2>7. /\ NewBlock("section", id, p, n, text, units).parent = p
        /\ NewBlock("section", id, p, n, text, units).type = "section"
    BY DEF NewBlock
  <2> HIDE DEF open, b
  <2> QED
    BY <2>4, <2>5, <2>6, <2>7
<1> HIDE DEF open, b
<1>6. /\ Forest(blocks') /\ Extends(blocks, blocks') /\ Len(blocks') = Len(blocks) + 1
      /\ blocks'[Len(blocks) + 1] = b
  BY <1>1, <1>4, <1>5, AppendGrows
<1>7. Open(open, blocks', 1..6)
  BY <1>3, <1>6, OpenStays
<1>8. Len(blocks) + 1 \in 1..Len(blocks') /\ blocks'[Len(blocks) + 1].type \in ParentTypes
  BY <1>5, <1>6, ForestTyped DEF ParentTypes
<1>9. Open(stack', blocks', 1..6)
  BY <1>1, <1>6, <1>7, <1>8, PushTyped
<1> QED
  BY <1>1, <1>2, <1>6, <1>9 DEF Adds

LEMMA AddLeafAdds ==
    ASSUME Forest(blocks), Open(stack, blocks, 1..6), Counting,
           NEW type \in ChildTypes, NEW name \in IdName, NEW counter \in Counter, NEW text \in Text,
           NEW units, units \subseteq Nat, AddLeaf(type, name, counter, text, units)
    PROVE  Adds(1..6)
<1> DEFINE b == NewBlock(type, Named(name, Number(counter)), Top(stack, 0), Number(counter), text, units)
<1>1. blocks' = Append(blocks, b) /\ counters' = Counted(counter) /\ stack' = stack
  BY DEF AddLeaf
<1>2. Number(counter) \in Nat /\ Counted(counter) \in [Counter -> Nat]
  BY CountedTyped
<1>3. Root(blocks, Top(stack, 0))
  BY TopTyped, ForestTyped DEF Root
<1>4. b \in Block /\ b.parent = Top(stack, 0)
  <2>1. Named(name, Number(counter)) \in Id /\ type \in ParentTypes \cup ChildTypes
    BY <1>2, NamedTyped
  <2>2. PICK p \in Nat, n \in Nat, id \in Id :
            p = Top(stack, 0) /\ n = Number(counter) /\ id = Named(name, Number(counter))
    BY <1>2, <1>3, <2>1, ForestTyped DEF Root
  <2>3. b = NewBlock(type, id, p, n, text, units)
    BY <2>2
  <2>4. NewBlock(type, id, p, n, text, units) \in Block /\ NewBlock(type, id, p, n, text, units).parent = p
    <3> HIDE DEF b
    <3>1. units \in SUBSET Nat
      OBVIOUS
    <3> QED
      BY <2>1, <3>1 DEF NewBlock, Block
  <2> HIDE DEF b
  <2> QED
    BY <2>2, <2>3, <2>4
<1> HIDE DEF b
<1>5. Forest(blocks') /\ Extends(blocks, blocks')
  BY <1>1, <1>3, <1>4, AppendGrows
<1>6. Open(stack', blocks', 1..6)
  BY <1>1, <1>5, OpenStays
<1> QED
  BY <1>1, <1>2, <1>5, <1>6 DEF Adds

LEMMA SkipAdds ==
    ASSUME Forest(blocks), Open(stack, blocks, 1..6), Counting, Skip
    PROVE  Adds(1..6)
BY ForestTyped DEF Skip, Adds, Counting, Extends

----------------------------------------------------------------------------
(* The inductive invariant behind TypeOK.                                  *)

FileInv ==
    /\ \E f \in File : format = f.format /\ source = f.source
    /\ read \in Nat
    /\ format # "code" => read <= Len(source)

MarkdownInv == inFence \in BOOLEAN /\ code \in Seq(1..read) /\ (~ inFence => code = <<>>)

Pages(ps, bs) == \A p \in DOMAIN ps : ps[p] \in 1..Len(bs) /\ bs[ps[p]].type \in ParentTypes
Stacks(ss, bs) == \A p \in DOMAIN ss : Open(ss[p], bs, {1, 2})

Tasks(syms, n) ==
    [task : {"symbol"}, span : syms, parent : 1..n, covered : {{}}]
    \cup [task : {"gaps"}, span : Nat \X Nat, parent : 1..n, covered : SUBSET syms]
Todo(tasks, bs, syms) ==
    /\ tasks \in Seq(Tasks(syms, Len(bs)))
    /\ \A n \in 1..Len(tasks) : bs[tasks[n].parent].type \in ParentTypes

\* Where a slide's shapes and the records hang.
Rooted ==
    /\ format = "pptx" /\ read > 0 => \E i \in 1..Len(blocks) : blocks[i].type = "slide"
    /\ format = "records" /\ blocks # <<>> => blocks[1].type = "document"

Emitted == {parents[i].block : i \in DOMAIN parents}
AllChildren ==
    FlattenSeq([n \in 1..Cardinality(Leaves) |-> ChildrenOf(InFileOrder(Leaves)[n], Emitted, config)])

ChunksInv ==
    /\ phase # "done" => config = NoConfig /\ parents = <<>> /\ children = <<>>
    /\ phase = "done" => config \in Config /\ parents = ParentChunks(config.parent) /\ children = AllChildren

TypeInv ==
    /\ FileInv /\ Forest(blocks) /\ Open(stack, blocks, 1..6) /\ Counting
    /\ phase \in {"parse", "chunk", "done"}
    /\ MarkdownInv
    /\ Pages(pages, blocks) /\ Stacks(sections, blocks)
    /\ format # "code" => todo = <<>>
    /\ format = "code" => Todo(todo, blocks, source.symbols)
    /\ Rooted /\ ChunksInv

LEMMA SourceIs ==
    ASSUME FileInv
    PROVE  /\ format \in {"markdown", "docx", "html", "pptx", "records", "pdf", "code"}
           /\ format = "markdown" => source \in Source /\ source \in Seq(Line)
           /\ format = "docx" => source \in DocxSource /\ source \in Seq(DocxElement)
           /\ format = "html" => source \in HtmlSource /\ source \in Seq(HtmlElement)
           /\ format = "pptx" => source \in PptxSource /\ Presentation(source)
                                 /\ source \in Seq(Element({"slide", "title", "shape", "group", "table", "row", "notes"}))
           /\ format = "records" => source \in RecordSource
                                 /\ source \in Seq(Element({"paragraph", "record", "table_row", "scalar"}))
           /\ format = "pdf" => source \in PdfSource
                                 /\ source \in Seq([kind : {"Title", "Table", "ListItem", "Image", "NarrativeText", "Footer"},
                                                    text : Text, page : Nat])
           /\ format = "code" => source \in CodeSource
<1>1. PICK f \in File : format = f.format /\ source = f.source
  BY DEF FileInv
<1>2. \/ f.format = "markdown" /\ f.source \in Source
      \/ f.format = "docx" /\ f.source \in DocxSource
      \/ f.format = "html" /\ f.source \in HtmlSource
      \/ f.format = "pptx" /\ f.source \in PptxSource
      \/ f.format = "records" /\ f.source \in RecordSource
      \/ f.format = "pdf" /\ f.source \in PdfSource
      \/ f.format = "code" /\ f.source \in CodeSource
  BY DEF File
<1> QED
  BY <1>1, <1>2, LineAssumption, ElementAssumption, PdfAssumption

\* The text of an entry of a file.
LEMMA UnitTyped ==
    ASSUME FileInv, format # "code", NEW i \in 1..Len(source)
    PROVE  /\ source[i].text \in Text
           /\ format = "markdown" => source[i] \in Line
           /\ format = "docx" => source[i] \in DocxElement
           /\ format = "html" => source[i] \in HtmlElement
           /\ format = "pdf" => source[i].page \in Nat
           /\ source[i].kind = "heading" => source[i].level \in 1..6
<1>1. /\ format = "markdown" => source[i] \in Line
      /\ format = "docx" => source[i] \in DocxElement
      /\ format = "html" => source[i] \in HtmlElement
      /\ format = "pptx" => source[i] \in Element({"slide", "title", "shape", "group", "table", "row", "notes"})
      /\ format = "records" => source[i] \in Element({"paragraph", "record", "table_row", "scalar"})
      /\ format = "pdf" => source[i] \in [kind : {"Title", "Table", "ListItem", "Image", "NarrativeText", "Footer"},
                                          text : Text, page : Nat]
  BY SourceIs, Entry
<1>2. \A e \in Line : e.text \in Text /\ (e.kind = "heading" => e.level \in 1..6)
  BY LineAssumption, NoTextTyped DEF Line
<1>3. \A e \in DocxElement : e.text \in Text /\ (e.kind = "heading" => e.level \in 1..6)
  BY DEF DocxElement, Element
<1>4. \A e \in HtmlElement : e.text \in Text /\ (e.kind = "heading" => e.level \in 1..6)
  BY DEF HtmlElement
<1>5. \A e \in Element({"slide", "title", "shape", "group", "table", "row", "notes"})
              \cup Element({"paragraph", "record", "table_row", "scalar"}) : e.text \in Text /\ e.kind # "heading"
  BY DEF Element
<1> QED
  BY <1>1, <1>2, <1>3, <1>4, <1>5, SourceIs

LEMMA ReadNext ==
    ASSUME FileInv, format # "code", read < Len(source)
    PROVE  read + 1 \in 1..Len(source) /\ read \in Nat
<1>1. Len(source) \in Nat
  BY SourceIs
<1> QED
  BY <1>1 DEF FileInv

\* The variables a parser of lines and elements leaves alone.
Others == UNCHANGED <<pdf, todo, chunks>>

\* What a step of a parser other than CodeParser keeps if it adds blocks.
LEMMA KeepsTyped ==
    ASSUME TypeInv, format # "code", Adds(1..6), Others,
           UNCHANGED file, read' \in Nat, read' <= Len(source), MarkdownInv', Rooted',
           phase = "parse", phase' \in {"parse", "chunk"}
    PROVE  TypeInv'
<1>1. FileInv' /\ (format # "code" => todo = <<>>)'
  BY DEF TypeInv, FileInv, file, Others
<1>2. Pages(pages, blocks)'
  <2>1. Pages(pages', blocks')
    <3>1. pages' = pages
      BY DEF Others, pdf
    <3> SUFFICES ASSUME NEW p \in DOMAIN pages PROVE pages[p] \in 1..Len(blocks') /\ blocks'[pages[p]].type \in ParentTypes
      BY <3>1 DEF Pages
    <3>2. pages[p] \in 1..Len(blocks) /\ blocks[pages[p]].type \in ParentTypes
      BY DEF TypeInv, Pages
    <3>3. Len(blocks) \in Nat /\ Len(blocks') \in Nat /\ Len(blocks) <= Len(blocks')
          /\ \A i \in 1..Len(blocks) : blocks'[i] = blocks[i]
      BY ForestTyped DEF TypeInv, Adds, Extends
    <3> QED
      BY <3>2, <3>3
  <2> QED
    BY <2>1
<1>3. Stacks(sections, blocks)'
  <2>1. sections' = sections /\ Forest(blocks) /\ Forest(blocks') /\ Extends(blocks, blocks')
    BY DEF Others, pdf, TypeInv, Adds
  <2>2. \A p \in DOMAIN sections : Open(sections[p], blocks', {1, 2})
    BY <2>1, OpenStays DEF TypeInv, Stacks
  <2> QED
    BY <2>1, <2>2 DEF Stacks
<1>4. ChunksInv'
  BY DEF TypeInv, ChunksInv, Others, chunks
<1>5. Forest(blocks') /\ Open(stack', blocks', 1..6) /\ counters' \in [Counter -> Nat]
  BY DEF Adds
<1>6. (format # "code")'
  BY DEF file
<1> QED
  BY <1>1, <1>2, <1>3, <1>4, <1>5, <1>6 DEF TypeInv, Counting

\* A prefix or middle of a sequence has its elements.
LEMMA StretchTyped ==
    ASSUME NEW S, NEW s \in Seq(S), NEW a \in 1..Len(s), NEW b \in 1..Len(s)
    PROVE  SubSeq(s, a, b) \in Seq(S)
BY SubSeqProperties

LEMMA StrippedTyped ==
    ASSUME NEW S, NEW lines \in Seq(S)
    PROVE  Stripped(lines) \in Seq(S)
<1> DEFINE solid == {i \in DOMAIN lines : source[lines[i]].kind # "blank"}
<1>1. Stripped(lines) = IF solid = {} THEN <<>> ELSE SubSeq(lines, Min(solid), Max(solid))
  BY DEF Stripped
<1>2. PICK n \in Nat : n = Len(lines)
  OBVIOUS
<1>3. solid \subseteq 1..n /\ 1 \in Nat /\ n \in Int
  BY <1>2
<1> HIDE DEF solid
<1>4. solid # {} => Min(solid) \in solid /\ Max(solid) \in solid
  BY <1>3, Edges
<1>5. solid # {} => Min(solid) \in 1..Len(lines) /\ Max(solid) \in 1..Len(lines)
  BY <1>2, <1>3, <1>4
<1>6. solid # {} => SubSeq(lines, Min(solid), Max(solid)) \in Seq(S)
  BY <1>5, StretchTyped
<1>7. <<>> \in Seq(S)
  OBVIOUS
<1> QED
  BY <1>1, <1>6, <1>7

LEMMA TextsTyped ==
    ASSUME FileInv, format # "code", NEW lines \in Seq(1..Len(source))
    PROVE  [i \in DOMAIN lines |-> source[lines[i]].text] \in Seq(Text)
<1>1. PICK n \in Nat : n = Len(lines) /\ DOMAIN lines = 1..n
  OBVIOUS
<1>2. \A i \in 1..n : source[lines[i]].text \in Text
  BY <1>1, Entry, UnitTyped
<1>3. PICK f : f = [i \in DOMAIN lines |-> source[lines[i]].text]
  OBVIOUS
<1>4. f \in [1..n -> Text]
  BY <1>1, <1>2, <1>3
<1> QED
  BY <1>3, <1>4, FunctionSeq

LEMMA EndCodeAdds ==
    ASSUME TypeInv, format = "markdown", EndCode
    PROVE  Adds(1..6)
<1>1. Forest(blocks) /\ Open(stack, blocks, 1..6) /\ Counting /\ FileInv /\ format # "code"
  BY DEF TypeInv
<1>2. code \in Seq(1..read) /\ read \in Nat /\ read <= Len(source) /\ Len(source) \in Nat
  BY <1>1, SourceIs DEF TypeInv, MarkdownInv, FileInv
<1>3. code \in Seq(1..Len(source))
  <2>1. 1..read \subseteq 1..Len(source)
    BY <1>2
  <2> QED
    BY <1>2, <2>1
<1>4. PICK lines : lines = Stripped(code) /\ lines \in Seq(1..Len(source))
  BY <1>3, StrippedTyped
<1>5. PICK text \in Text : text = Lines([i \in DOMAIN lines |-> source[lines[i]].text])
  BY <1>1, <1>4, TextsTyped, LinesTyped
<1>6. ToSet(code) \subseteq Nat
  BY <1>2 DEF ToSet
<1>7. AddLeaf("code_block", "code", "code", text, ToSet(code))
  BY <1>4, <1>5 DEF EndCode
<1>8. "code_block" \in ChildTypes /\ "code" \in IdName /\ "code" \in Counter
  BY DEF ChildTypes, IdName, Counter
<1> QED
  BY <1>1, <1>6, <1>7, <1>8, AddLeafAdds

LEMMA MarkdownTyped ==
    ASSUME TypeInv, MarkdownStep, UNCHANGED <<pdf, todo>>, UNCHANGED chunks
    PROVE  TypeInv'
<1>1. Forest(blocks) /\ Open(stack, blocks, 1..6) /\ Counting /\ FileInv /\ MarkdownInv
  BY DEF TypeInv
<1>2. format = "markdown" /\ phase = "parse" /\ UNCHANGED file
  BY DEF MarkdownStep, ReadHeading, ReadParagraph, ReadBlank, OpenFence, ReadCode, CloseFence, EndOfFile,
         ReadsLine, AtEnd
<1>3. Others
  BY DEF Others
<1>4. Rooted'
  <2>1. (format = "markdown")'
    BY <1>2 DEF file
  <2> QED
    BY <2>1 DEF Rooted
<1>5. read \in Nat /\ Len(source) \in Nat /\ read <= Len(source)
  BY <1>1, <1>2, SourceIs DEF FileInv
<1>6. ASSUME read' \in {read, read + 1}, NEW c \in Seq(1..read'), code' = c, inFence' \in BOOLEAN,
             ~ inFence' => c = <<>>
      PROVE  MarkdownInv'
  BY <1>6 DEF MarkdownInv
<1>7. code \in Seq(1..read + 1) /\ code \in Seq(1..read)
  <2>1. 1..read \subseteq 1..read + 1
    BY <1>5
  <2>2. code \in Seq(1..read)
    BY <1>1 DEF MarkdownInv
  <2>3. \A i \in 1..Len(code) : code[i] \in 1..read + 1
    <3> TAKE i \in 1..Len(code)
    <3>1. code[i] \in 1..read
      BY <2>2, Entry
    <3> QED
      BY <2>1, <3>1
  <2>4. PICK m \in Nat : code = [i \in 1..m |-> code[i]] /\ Len(code) = m
    BY <2>2
  <2>5. code \in [1..m -> 1..read + 1]
    BY <2>3, <2>4
  <2>6. code \in Seq(1..read + 1)
    BY <2>4, <2>5, FunctionSeq
  <2> QED
    BY <2>2, <2>6
<1>8. inFence \in BOOLEAN /\ (~ inFence => code = <<>>)
  BY <1>1 DEF MarkdownInv
<1>9. \A kinds : ReadsLine(kinds) => /\ read' = read + 1 /\ read' \in Nat /\ read' <= Len(source) /\ phase' = "parse"
                                     /\ read + 1 \in 1..Len(source) /\ Next1.kind \in kinds
                                     /\ Next1.text \in Text /\ (Next1.kind = "heading" => Next1.level \in 1..6)
  <2> SUFFICES ASSUME NEW kinds, ReadsLine(kinds)
               PROVE  /\ read' = read + 1 /\ read' \in Nat /\ read' <= Len(source) /\ phase' = "parse"
                      /\ read + 1 \in 1..Len(source) /\ Next1.kind \in kinds
                      /\ Next1.text \in Text /\ (Next1.kind = "heading" => Next1.level \in 1..6)
    OBVIOUS
  <2>1. read < Len(source) /\ read' = read + 1 /\ phase' = phase /\ Next1.kind \in kinds
    BY DEF ReadsLine
  <2>2. read + 1 \in 1..Len(source)
    BY <1>5, <2>1
  <2>3. Next1.text \in Text /\ (Next1.kind = "heading" => Next1.level \in 1..6)
    BY <1>1, <1>2, <2>2, UnitTyped DEF Next1
  <2> QED
    BY <1>2, <1>5, <2>1, <2>2, <2>3
<1>10. ASSUME Adds(1..6), MarkdownInv', read' \in Nat, read' <= Len(source), phase' \in {"parse", "chunk"}
       PROVE  TypeInv'
  BY <1>2, <1>3, <1>4, <1>10, KeepsTyped
<1>11. CASE ReadHeading
  <2>1. ReadsLine({"heading"}) /\ AddSection({read + 1}, Next1.level, Next1.text) /\ code' = code /\ inFence' = inFence
    BY <1>11 DEF ReadHeading, markdown
  <2>2. Adds(1..6)
    <3>1. {read + 1} \in SUBSET Nat /\ Next1.level \in 1..6 /\ Next1.text \in Text
      BY <1>5, <1>9, <2>1
    <3> QED
      BY <1>1, <2>1, <3>1, AddSectionAdds
  <2>3. MarkdownInv'
    BY <1>6, <1>7, <1>8, <1>9, <2>1
  <2> QED
    BY <1>9, <1>10, <2>1, <2>2, <2>3
<1>12. CASE ReadParagraph
  <2>1. /\ ReadsLine({"text"}) /\ AddLeaf("paragraph", "p", "paragraph", Next1.text, {read + 1})
        /\ code' = code /\ inFence' = inFence
    BY <1>12 DEF ReadParagraph, markdown
  <2>2. Adds(1..6)
    <3>1. {read + 1} \subseteq Nat /\ Next1.text \in Text
      BY <1>5, <1>9, <2>1
    <3>2. "paragraph" \in ChildTypes /\ "p" \in IdName /\ "paragraph" \in Counter
      BY DEF ChildTypes, IdName, Counter
    <3> QED
      BY <1>1, <2>1, <3>1, <3>2, AddLeafAdds
  <2>3. MarkdownInv'
    BY <1>6, <1>7, <1>8, <1>9, <2>1
  <2> QED
    BY <1>9, <1>10, <2>1, <2>2, <2>3
<1>13. CASE ReadBlank
  <2>1. ReadsLine({"blank"}) /\ Skip /\ code' = code /\ inFence' = inFence
    BY <1>13 DEF ReadBlank, markdown
  <2>2. MarkdownInv'
    BY <1>6, <1>7, <1>8, <1>9, <2>1
  <2> QED
    BY <1>1, <1>9, <1>10, <2>1, <2>2, SkipAdds
<1>14. CASE OpenFence
  <2>1. ReadsLine({"fence"}) /\ Skip /\ code' = code /\ inFence' = TRUE
    BY <1>14 DEF OpenFence
  <2>2. MarkdownInv'
    BY <1>6, <1>7, <1>8, <1>9, <2>1
  <2> QED
    BY <1>1, <1>9, <1>10, <2>1, <2>2, SkipAdds
<1>15. CASE ReadCode
  <2>1. ReadsLine({"heading", "text", "blank"}) /\ Skip /\ code' = Append(code, read + 1) /\ inFence' = inFence /\ inFence
    BY <1>15 DEF ReadCode
  <2>2. Append(code, read + 1) \in Seq(1..read + 1)
    BY <1>5, <1>7
  <2>3. MarkdownInv'
    BY <1>6, <1>8, <1>9, <2>1, <2>2
  <2> QED
    BY <1>1, <1>9, <1>10, <2>1, <2>3, SkipAdds
<1>16. CASE CloseFence
  <2>1. ReadsLine({"fence"}) /\ EndCode /\ code' = <<>> /\ inFence' = FALSE
    BY <1>16 DEF CloseFence
  <2>2. MarkdownInv'
    <3>1. <<>> \in Seq(1..read')
      OBVIOUS
    <3>2. inFence' \in BOOLEAN
      BY <2>1
    <3> QED
      BY <1>6, <1>9, <2>1, <3>1, <3>2
  <2> QED
    BY <1>2, <1>9, <1>10, <2>1, <2>2, EndCodeAdds
<1>17. CASE EndOfFile
  <2>1. phase' = "chunk" /\ read' = read /\ code' = code /\ inFence' = inFence /\ (EndCode \/ Skip)
    BY <1>17 DEF EndOfFile, markdown
  <2>2. MarkdownInv'
    BY <1>6, <1>7, <1>8, <2>1
  <2>3. Adds(1..6)
    BY <1>1, <1>2, <2>1, EndCodeAdds, SkipAdds
  <2> QED
    BY <1>5, <1>10, <2>1, <2>2, <2>3
<1> QED
  BY <1>11, <1>12, <1>13, <1>14, <1>15, <1>16, <1>17 DEF MarkdownStep

LEMMA SeqWider == ASSUME NEW S, NEW T, S \subseteq T, NEW s \in Seq(S) PROVE s \in Seq(T)
<1>1. PICK n \in Nat : n = Len(s) /\ s = [i \in 1..n |-> s[i]]
  OBVIOUS
<1>2. \A i \in 1..n : s[i] \in T
  BY <1>1, Entry
<1>3. s \in [1..n -> T]
  BY <1>1, <1>2
<1> QED
  BY <1>1, <1>3, FunctionSeq

LEMMA DocxOrderIs ==
    ASSUME FileInv, format = "docx"
    PROVE  DocxOrder \in Seq(1..Len(source)) /\ Len(DocxOrder) = Len(source)
<1>1. PICK n \in Nat : n = Len(source) /\ DOMAIN source = 1..n
  BY SourceIs
<1> DEFINE rows == {i \in DOMAIN source : source[i].kind = "row"}
           rest == DOMAIN source \ rows
<1>2. rows \subseteq 1..n /\ rest \subseteq 1..n /\ rest = (1..n) \ rows /\ (1..n) \cap rows = rows
  BY <1>1
<1>3. DocxOrder = InOrderOf(rest, <) \o InOrderOf(rows, <)
  BY DEF DocxOrder
<1> HIDE DEF rest, rows
<1>4. IsFiniteSet(1..n) /\ Cardinality(1..n) = n
  BY FS_Interval
<1>5. IsFiniteSet(rows) /\ IsFiniteSet(rest) /\ Cardinality(rest) = n - Cardinality(rows)
  <2>1. IsFiniteSet(rows)
    BY <1>2, <1>4, FS_Subset
  <2>2. IsFiniteSet((1..n) \ rows) /\ Cardinality((1..n) \ rows) = Cardinality(1..n) - Cardinality((1..n) \cap rows)
    BY <1>4, FS_Difference
  <2> QED
    BY <1>2, <1>4, <2>1, <2>2
<1>6. Increasing(InOrderOf(rest, <), rest) /\ Increasing(InOrderOf(rows, <), rows)
  <2>1. rest \in SUBSET Int /\ rows \in SUBSET Int
    BY <1>2
  <2> QED
    BY <1>5, <2>1, NumbersInOrder
<1>7. PICK s, t : s = InOrderOf(rest, <) /\ t = InOrderOf(rows, <) /\ DocxOrder = s \o t
  BY <1>3
<1>8. s \in Seq(rest) /\ t \in Seq(rows) /\ Len(s) = Cardinality(rest) /\ Len(t) = Cardinality(rows)
      /\ Cardinality(rows) \in Nat /\ Cardinality(rest) \in Nat
  BY <1>6, <1>7 DEF Increasing
<1>9. s \in Seq(1..n) /\ t \in Seq(1..n)
  BY <1>2, <1>8
<1>10. s \o t \in Seq(1..n) /\ Len(s \o t) = Len(s) + Len(t)
  BY <1>9, ConcatProperties
<1>11. Len(s \o t) = n
  BY <1>5, <1>8, <1>10
<1> QED
  BY <1>1, <1>7, <1>10, <1>11

LEMMA DocxUnitIs ==
    ASSUME FileInv, format = "docx", read < Len(source)
    PROVE  DocxUnit \in 1..Len(source) /\ Len(source) \in Nat
<1>1. read + 1 \in 1..Len(source)
  BY ReadNext
<1>2. DocxOrder \in Seq(1..Len(source)) /\ Len(DocxOrder) = Len(source)
  BY DocxOrderIs
<1>3. DocxOrder[read + 1] \in 1..Len(source)
  BY <1>1, <1>2, Entry
<1> QED
  BY <1>3, SourceIs DEF DocxUnit

LEMMA HtmlUnitsAre ==
    ASSUME FileInv, format = "html", read < Len(source)
    PROVE  /\ read + 1 \in 1..Len(source) /\ Len(source) \in Nat
           /\ HtmlUnits \subseteq read + 1 .. Len(source) /\ HtmlElements \subseteq read + 1 .. Len(source)
<1>1. Len(source) \in Nat /\ read \in Nat /\ read + 1 \in 1..Len(source)
  BY SourceIs, ReadNext DEF FileInv
<1>2. DOMAIN source = 1..Len(source)
  BY SourceIs
<1>3. source[read + 1].last \in read + 1..Len(source)
  BY <1>1, <1>2, SourceIs, ElementAssumption
<1>4. HtmlElements = read + 1 .. source[read + 1].last /\ HtmlUnits \subseteq read + 1 .. source[read + 1].last
  BY DEF HtmlUnits, HtmlElements, HtmlUnit
<1> QED
  BY <1>1, <1>3, <1>4

LEMMA HtmlTextTyped ==
    ASSUME FileInv, format = "html", read < Len(source)
    PROVE  HtmlText \in Text
<1>1. HtmlUnits \subseteq 1..Len(source) /\ Len(source) \in Nat
  BY HtmlUnitsAre
<1> DEFINE X == InOrderOf(HtmlUnits, <)
           J == Lines([i \in DOMAIN X |-> source[X[i]].text])
<1>0. HtmlText = Spaced(J)
  BY DEF HtmlText, Spaced
<1>2. PICK inside : inside = X
  OBVIOUS
<1>3. inside \in Seq(HtmlUnits)
  <2>0. IsFiniteSet(1..Len(source))
    BY <1>1, FS_Interval
  <2>1. IsFiniteSet(HtmlUnits)
    BY <1>1, <2>0, FS_Subset
  <2>2. HtmlUnits \in SUBSET Int
    BY <1>1
  <2>3. Increasing(InOrderOf(HtmlUnits, <), HtmlUnits)
    BY <2>1, <2>2, NumbersInOrder
  <2> QED
    BY <1>2, <2>3 DEF Increasing
<1>4. inside \in Seq(1..Len(source))
  BY <1>1, <1>3, SeqWider
<1>5. PICK joined \in Text : joined = Lines([i \in DOMAIN inside |-> source[inside[i]].text])
  BY <1>4, TextsTyped, LinesTyped
<1>6. joined = J
  BY <1>2, <1>5
<1> HIDE DEF J
<1> QED
  BY <1>0, <1>5, <1>6, SpacedTyped

LEMMA BlockAdds ==
    ASSUME Forest(blocks), Open(stack, blocks, 1..6), NEW b \in Block, Root(blocks, b.parent),
           blocks' = Append(blocks, b), stack' = stack, counters' \in [Counter -> Nat]
    PROVE  /\ Adds(1..6) /\ Len(blocks') = Len(blocks) + 1 /\ Len(blocks) + 1 \in 1..Len(blocks')
           /\ blocks'[Len(blocks) + 1] = b
<1>1. /\ Forest(blocks') /\ Extends(blocks, blocks') /\ Len(blocks') = Len(blocks) + 1
      /\ blocks'[Len(blocks) + 1] = b
  BY AppendGrows
<1>2. Open(stack', blocks', 1..6)
  BY <1>1, OpenStays
<1>3. Len(blocks) + 1 \in 1..Len(blocks')
  BY <1>1, ForestTyped
<1> QED
  BY <1>1, <1>2, <1>3 DEF Adds

LEMMA SameBlocksAdds ==
    ASSUME Forest(blocks), Open(stack, blocks, 1..6), blocks' = blocks, stack' = stack,
           counters' \in [Counter -> Nat]
    PROVE  Adds(1..6)
BY ForestTyped DEF Adds, Extends

LEMMA SlideIs ==
    ASSUME Forest(blocks), \E i \in 1..Len(blocks) : blocks[i].type = "slide"
    PROVE  Slide \in 1..Len(blocks) /\ blocks[Slide].type = "slide" /\ Root(blocks, Slide)
<1>1. PICK n \in Nat : n = Len(blocks) /\ DOMAIN blocks = 1..n
  BY ForestTyped
<1> DEFINE T == {i \in DOMAIN blocks : blocks[i].type = "slide"}
<1>2. T \subseteq 1..n /\ T # {} /\ n \in Int /\ 1 \in Nat
  BY <1>1
<1>3. Slide = Max(T)
  BY DEF Slide
<1>4. Slide \in T
  <2> HIDE DEF T
  <2> QED
    BY <1>2, <1>3, Edges
<1>5. Slide \in 1..n /\ blocks[Slide].type = "slide"
  BY <1>1, <1>4
<1> QED
  BY <1>1, <1>5 DEF Root, ParentTypes

\* Two texts of a kind: the type, the word and the counter of a leaf.
LEMMA Kinds ==
    /\ {"paragraph", "code_block", "table_row", "list_item", "shape", "note", "figure", "record",
        "code_symbol"} \subseteq ChildTypes
    /\ {"slide", "document", "page", "section", "table", "module", "code_container"} \subseteq ParentTypes
    /\ ChildTypes \cap ParentTypes = {}
    /\ {"section", "paragraph", "code", "row", "table", "figure", "list", "slide", "shape", "rowIndex", "symbol"} \subseteq Counter
    /\ {"page", "slide", "doc_root", "module", "sec", "tbl", "p", "code", "row", "li", "fig",
        "shape", "slide_row", "notes", "record", "sym", "gap", "win"} \subseteq IdName
BY DEF ChildTypes, ParentTypes, Counter, IdName

LEMMA OutlineKeeps ==
    ASSUME TypeInv, format # "code", Adds(1..6), UNCHANGED <<markdown, pdf, todo>>, UNCHANGED chunks,
           UNCHANGED file, read' \in {read, read + 1}, read' <= Len(source), Rooted',
           phase = "parse", phase' \in {"parse", "chunk"}
    PROVE  TypeInv'
<1>1. read \in Nat /\ read' \in Nat /\ read <= read'
  BY DEF TypeInv, FileInv
<1>2. code' = code /\ inFence' = inFence
  BY DEF markdown
<1>3. MarkdownInv'
  <2>1. 1..read \subseteq 1..read'
    BY <1>1
  <2>2. code \in Seq(1..read)
    BY DEF TypeInv, MarkdownInv
  <2>3. code \in Seq(1..read')
    BY <2>1, <2>2, SeqWider
  <2> QED
    BY <1>2, <2>3 DEF TypeInv, MarkdownInv
<1> QED
  BY <1>1, <1>3, KeepsTyped DEF Others

LEMMA ReadsIs ==
    ASSUME FileInv, NEW fmt, NEW kinds, NEW i, Reads(fmt, kinds, i), fmt # "code"
    PROVE  /\ format = fmt /\ phase = "parse" /\ phase' = phase /\ UNCHANGED file
           /\ read \in Nat /\ Len(source) \in Nat /\ read < Len(source) /\ read + 1 \in 1..Len(source)
           /\ read' = read + 1 /\ read' <= Len(source) /\ source[i].kind \in kinds
<1>1. format = fmt /\ phase = "parse" /\ read < Len(source) /\ source[i].kind \in kinds
      /\ read' = read + 1 /\ UNCHANGED <<file, phase>>
  BY DEF Reads
<1>2. read \in Nat /\ Len(source) \in Nat
  BY <1>1, SourceIs DEF FileInv
<1> QED
  BY <1>1, <1>2

LEMMA DocxTyped ==
    ASSUME TypeInv, DocxBlank \/ DocxHeading \/ DocxParagraph \/ DocxRow,
           UNCHANGED <<markdown, pdf, todo>>, UNCHANGED chunks
    PROVE  TypeInv'
<1>1. Forest(blocks) /\ Open(stack, blocks, 1..6) /\ Counting /\ FileInv
  BY DEF TypeInv
<1>2. PICK kinds : Reads("docx", kinds, DocxUnit)
  BY DEF DocxBlank, DocxHeading, DocxParagraph, DocxRow, Docx
<1>3. /\ format = "docx" /\ phase = "parse" /\ phase' = phase /\ UNCHANGED file /\ read < Len(source)
      /\ read' = read + 1 /\ read' <= Len(source)
  BY <1>1, <1>2, ReadsIs
<1>4. DocxUnit \in 1..Len(source) /\ Len(source) \in Nat
  BY <1>1, <1>3, DocxUnitIs
<1>5. source[DocxUnit].text \in Text /\ (source[DocxUnit].kind = "heading" => source[DocxUnit].level \in 1..6)
      /\ {DocxUnit} \subseteq Nat /\ DocxUnit \in Nat
  BY <1>1, <1>3, <1>4, UnitTyped
<1>6. Adds(1..6)
  <2>1. CASE DocxBlank
    BY <1>1, <2>1, SkipAdds DEF DocxBlank
  <2>2. CASE DocxHeading
    <3>1. AddSection({DocxUnit}, source[DocxUnit].level, source[DocxUnit].text) /\ source[DocxUnit].kind = "heading"
      BY <2>2 DEF DocxHeading, Docx, Reads
    <3>2. {DocxUnit} \in SUBSET Nat
      BY <1>5
    <3> QED
      BY <1>1, <1>5, <3>1, <3>2, AddSectionAdds
  <2>3. CASE DocxParagraph
    <3>1. AddLeaf("paragraph", "p", "paragraph", source[DocxUnit].text, {DocxUnit})
      BY <2>3 DEF DocxParagraph
    <3>2. "paragraph" \in ChildTypes /\ "p" \in IdName /\ "paragraph" \in Counter
      BY Kinds
    <3> QED
      BY <1>1, <1>5, <3>1, <3>2, AddLeafAdds
  <2>4. CASE DocxRow
    <3>1. AddLeaf("table_row", "row", "row", source[DocxUnit].text, {DocxUnit})
      BY <2>4 DEF DocxRow
    <3>2. "table_row" \in ChildTypes /\ "row" \in IdName /\ "row" \in Counter
      BY Kinds
    <3> QED
      BY <1>1, <1>5, <3>1, <3>2, AddLeafAdds
  <2> QED
    BY <2>1, <2>2, <2>3, <2>4
<1>7. Rooted'
  BY <1>3 DEF Rooted, file
<1>8. format # "code" /\ read' \in {read, read + 1} /\ phase' \in {"parse", "chunk"}
  BY <1>3
<1> QED
  BY <1>3, <1>6, <1>7, <1>8, OutlineKeeps

LEMMA HtmlTyped ==
    ASSUME TypeInv, HtmlBlank \/ HtmlOther \/ HtmlHeading \/ HtmlPre \/ HtmlItem \/ HtmlParagraph,
           UNCHANGED <<markdown, pdf, todo>>, UNCHANGED chunks
    PROVE  TypeInv'
<1>1. Forest(blocks) /\ Open(stack, blocks, 1..6) /\ Counting /\ FileInv
  BY DEF TypeInv
<1>2. PICK kinds : Reads("html", kinds, HtmlUnit)
  BY DEF HtmlBlank, HtmlOther, HtmlHeading, HtmlPre, HtmlItem, HtmlParagraph, Html
<1>3. /\ format = "html" /\ phase = "parse" /\ phase' = phase /\ UNCHANGED file /\ read < Len(source)
      /\ read' = read + 1 /\ read' <= Len(source) /\ read + 1 \in 1..Len(source) /\ read \in Nat
  BY <1>1, <1>2, ReadsIs
<1>4. HtmlText \in Text /\ HtmlElements \subseteq Nat
  <2>1. HtmlElements \subseteq read + 1..Len(source)
    BY <1>1, <1>3, HtmlUnitsAre
  <2>2. HtmlElements \subseteq Nat
    BY <1>3, <2>1
  <2> QED
    BY <1>1, <1>3, <2>2, HtmlTextTyped
<1>5. (source[HtmlUnit].kind = "heading" => source[HtmlUnit].level \in 1..6) /\ HtmlUnit \in Nat
  BY <1>1, <1>3, UnitTyped DEF HtmlUnit
<1>6. Adds(1..6)
  <2>1. CASE HtmlBlank
    BY <1>1, <2>1, SkipAdds DEF HtmlBlank
  <2>2. CASE HtmlHeading
    <3>1. AddSection(HtmlElements, source[HtmlUnit].level, HtmlText) /\ source[HtmlUnit].kind = "heading"
      BY <2>2 DEF HtmlHeading, Html, Reads
    <3> QED
      BY <1>1, <1>4, <1>5, <3>1, AddSectionAdds
  <2>3. CASE HtmlPre
    <3>1. AddLeaf("code_block", "code", "code", HtmlText, HtmlElements)
      BY <2>3 DEF HtmlPre
    <3>2. "code_block" \in ChildTypes /\ "code" \in IdName /\ "code" \in Counter
      BY Kinds
    <3> QED
      BY <1>1, <1>4, <3>1, <3>2, AddLeafAdds
  <2>4. CASE HtmlItem
    <3>1. AddLeaf("list_item", "li", "paragraph", HtmlText, HtmlElements)
      BY <2>4 DEF HtmlItem
    <3>2. "list_item" \in ChildTypes /\ "li" \in IdName /\ "paragraph" \in Counter
      BY Kinds
    <3> QED
      BY <1>1, <1>4, <3>1, <3>2, AddLeafAdds
  <2>5. CASE HtmlParagraph
    <3>1. AddLeaf("paragraph", "p", "paragraph", HtmlText, HtmlElements)
      BY <2>5 DEF HtmlParagraph
    <3>2. "paragraph" \in ChildTypes /\ "p" \in IdName /\ "paragraph" \in Counter
      BY Kinds
    <3> QED
      BY <1>1, <1>4, <3>1, <3>2, AddLeafAdds
  <2>6. CASE HtmlOther
    BY <1>1, <2>6, SkipAdds DEF HtmlOther
  <2> QED
    BY <2>1, <2>2, <2>3, <2>4, <2>5, <2>6
<1>7. Rooted'
  BY <1>3 DEF Rooted, file
<1>8. format # "code" /\ read' \in {read, read + 1} /\ phase' \in {"parse", "chunk"}
  BY <1>3
<1> QED
  BY <1>3, <1>6, <1>7, <1>8, OutlineKeeps

LEMMA BlockIs ==
    ASSUME NEW type \in ParentTypes \cup ChildTypes, NEW id \in Id, NEW parent \in Nat, NEW order \in Nat,
           NEW text \in Text, NEW units \in SUBSET Nat
    PROVE  \E b \in Block : /\ b = NewBlock(type, id, parent, order, text, units)
                            /\ b.type = type /\ b.id = id /\ b.parent = parent /\ b.order = order
                            /\ b.text = text /\ b.units = units
<1>1. PICK b : b = NewBlock(type, id, parent, order, text, units)
  OBVIOUS
<1>2. b \in Block
  BY <1>1 DEF NewBlock, Block
<1>3. /\ b.type = type /\ b.id = id /\ b.parent = parent /\ b.order = order
      /\ b.text = text /\ b.units = units
  BY <1>1 DEF NewBlock
<1> QED
  BY <1>1, <1>2, <1>3

\* No element but a slide is the first.
LEMMA SlideFirst ==
    ASSUME FileInv, Rooted, format = "pptx", read < Len(source), source[read + 1].kind # "slide"
    PROVE  \E i \in 1..Len(blocks) : blocks[i].type = "slide"
<1>1. read \in Nat /\ read + 1 \in 1..Len(source)
  BY ReadNext
<1>2. read # 0
  <2>1. source # <<>> => source[1].kind = "slide"
    BY SourceIs DEF Presentation
  <2> QED
    BY <1>1, <2>1
<1> QED
  BY <1>1, <1>2 DEF Rooted

LEMMA AddToSlideAdds ==
    ASSUME Forest(blocks), Open(stack, blocks, 1..6), Counting, \E i \in 1..Len(blocks) : blocks[i].type = "slide",
           source[PptxUnit].text \in Text, PptxUnit \in Nat,
           NEW type \in ChildTypes, NEW id \in Id, AddToSlide(type, id),
           stack' = stack, counters' \in [Counter -> Nat]
    PROVE  Adds(1..6)
<1>1. Slide \in 1..Len(blocks) /\ Root(blocks, Slide) /\ Slide \in Nat
  BY SlideIs, ForestTyped
<1>2. Number("shape") \in Nat
  BY Kinds, CountedTyped
<1>3. {PptxUnit} \in SUBSET Nat /\ type \in ParentTypes \cup ChildTypes
  OBVIOUS
<1>4. PICK b \in Block : /\ b = NewBlock(type, id, Slide, Number("shape"), source[PptxUnit].text, {PptxUnit})
                         /\ b.parent = Slide
  BY <1>1, <1>2, <1>3, BlockIs
<1>5. blocks' = Append(blocks, b)
  BY <1>4 DEF AddToSlide
<1> QED
  BY <1>1, <1>4, <1>5, BlockAdds

LEMMA OnSlideTyped ==
    ASSUME Counting, NEW name \in IdName, NEW n \in Nat
    PROVE  OnSlide(name, n) \in Id
<1>1. counters["slide"] \in Nat
  BY Kinds DEF Counting
<1> QED
  BY <1>1 DEF OnSlide, Id

LEMMA PptxTyped ==
    ASSUME TypeInv, ReadSlide \/ ReadShape \/ SkipShape \/ BeginTable \/ ReadRow \/ ReadNotes,
           UNCHANGED <<markdown, pdf, todo>>, UNCHANGED chunks
    PROVE  TypeInv'
<1>1. Forest(blocks) /\ Open(stack, blocks, 1..6) /\ Counting /\ FileInv /\ Rooted
  BY DEF TypeInv
<1>2. PICK kinds : Pptx(kinds)
  BY DEF ReadSlide, ReadShape, SkipShape, BeginTable, ReadRow, ReadNotes
<1>3. /\ format = "pptx" /\ phase = "parse" /\ phase' = phase /\ UNCHANGED file /\ read < Len(source)
      /\ read' = read + 1 /\ read' <= Len(source) /\ read + 1 \in 1..Len(source) /\ read \in Nat
      /\ stack' = stack
  BY <1>1, <1>2, ReadsIs DEF Pptx
<1>4. source[PptxUnit].text \in Text /\ PptxUnit \in Nat /\ PptxUnit = read + 1
  BY <1>1, <1>3, UnitTyped DEF PptxUnit
<1>5. /\ counters \in [Counter -> Nat] /\ "shape" \in Counter /\ "rowIndex" \in Counter /\ "slide" \in Counter
      /\ Counted("shape") \in [Counter -> Nat] /\ Counted("slide") \in [Counter -> Nat] /\ Number("shape") \in Nat
      /\ Number("slide") \in Nat /\ counters["rowIndex"] \in Nat
  BY <1>1, Kinds, CountedTyped DEF Counting
<1>6. ASSUME Adds(1..6), \E i \in 1..Len(blocks') : blocks'[i].type = "slide" PROVE TypeInv'
  <2>1. Rooted'
    BY <1>3, <1>6 DEF Rooted, file
  <2>2. format # "code" /\ read' \in {read, read + 1} /\ phase' \in {"parse", "chunk"}
    BY <1>3
  <2> QED
    BY <1>3, <1>6, <2>1, <2>2, OutlineKeeps
<1>7. ASSUME source[read + 1].kind # "slide", Adds(1..6) PROVE TypeInv'
  <2>1. PICK i \in 1..Len(blocks) : blocks[i].type = "slide"
    BY <1>1, <1>3, <1>7, SlideFirst
  <2>2. i \in 1..Len(blocks') /\ blocks'[i] = blocks[i]
    BY <1>7, ForestTyped, <1>1 DEF Adds, Extends
  <2> QED
    BY <1>6, <1>7, <2>1, <2>2
<1>8. source[read + 1].kind # "slide" => \E i \in 1..Len(blocks) : blocks[i].type = "slide"
  BY <1>1, <1>3, SlideFirst
<1>9. CASE ReadSlide
  <2>1. counters' \in [Counter -> Nat]
    <3>1. counters' = [Counted("slide") EXCEPT !["shape"] = 0, !["rowIndex"] = 0]
      BY <1>9 DEF ReadSlide
    <3> QED
      BY <1>5, <3>1
  <2>2. (IF Blank(PptxUnit) THEN {} ELSE {PptxUnit}) \in SUBSET Nat
    BY <1>4
  <2>3. Named("slide", Number("slide")) \in Id /\ "slide" \in ParentTypes \cup ChildTypes
    BY <1>5, Kinds, NamedTyped
  <2>4. PICK b \in Block : /\ b = NewBlock("slide", Named("slide", Number("slide")), 0, Number("slide"),
                                           source[PptxUnit].text, IF Blank(PptxUnit) THEN {} ELSE {PptxUnit})
                           /\ b.parent = 0 /\ b.type = "slide"
    BY <1>4, <1>5, <2>2, <2>3, BlockIs
  <2>5. blocks' = Append(blocks, b)
    BY <1>9, <2>4 DEF ReadSlide
  <2>6. Root(blocks, b.parent)
    BY <1>1, <2>4, ForestTyped DEF Root
  <2>7. Adds(1..6) /\ Len(blocks) + 1 \in 1..Len(blocks') /\ blocks'[Len(blocks) + 1] = b
    BY <1>1, <1>3, <2>1, <2>5, <2>6, BlockAdds
  <2> QED
    BY <1>6, <2>4, <2>7
<1>10. CASE ReadShape
  <2>1. /\ source[read + 1].kind = "shape" /\ AddToSlide("shape", OnSlide("shape", Number("shape")))
        /\ counters' = Counted("shape")
    BY <1>4, <1>10 DEF ReadShape, Pptx, Reads
  <2>2. OnSlide("shape", Number("shape")) \in Id /\ "shape" \in ChildTypes
    BY <1>1, <1>5, Kinds, OnSlideTyped
  <2>3. Adds(1..6)
    BY <1>1, <1>3, <1>4, <1>5, <1>8, <2>1, <2>2, AddToSlideAdds
  <2> QED
    BY <1>7, <2>1, <2>3
<1>11. CASE SkipShape
  <2>1. source[read + 1].kind # "slide" /\ blocks' = blocks /\ counters' = counters
    BY <1>4, <1>11 DEF SkipShape, Pptx, Reads
  <2>2. Adds(1..6)
    BY <1>1, <1>3, <1>5, <2>1, SameBlocksAdds
  <2> QED
    BY <1>7, <2>1, <2>2
<1>12. CASE BeginTable
  <2>1. source[read + 1].kind # "slide" /\ blocks' = blocks /\ counters' = [counters EXCEPT !["rowIndex"] = 0]
    BY <1>4, <1>12 DEF BeginTable, Pptx, Reads
  <2>2. counters' \in [Counter -> Nat]
    BY <1>5, <2>1
  <2>3. Adds(1..6)
    BY <1>1, <1>3, <2>1, <2>2, SameBlocksAdds
  <2> QED
    BY <1>7, <2>1, <2>3
<1>13. CASE ReadRow
  <2>1. /\ source[read + 1].kind # "slide"
        /\ counters' = [counters EXCEPT !["rowIndex"] = @ + 1,
                                        !["shape"] = @ + (IF Blank(PptxUnit) THEN 0 ELSE 1)]
        /\ blocks' = blocks \/ AddToSlide("table_row", OnSlide("slide_row", counters["rowIndex"]))
    BY <1>4, <1>13 DEF ReadRow, Pptx, Reads
  <2>2. counters' \in [Counter -> Nat]
    <3>1. PICK d \in Nat : d = IF Blank(PptxUnit) THEN 0 ELSE 1
      OBVIOUS
    <3>2. counters' = [counters EXCEPT !["rowIndex"] = @ + 1, !["shape"] = @ + d]
      BY <2>1, <3>1
    <3> QED
      BY <1>5, <3>2
  <2>3. OnSlide("slide_row", counters["rowIndex"]) \in Id /\ "table_row" \in ChildTypes
    BY <1>1, <1>5, Kinds, OnSlideTyped
  <2>4. CASE blocks' = blocks
    BY <1>1, <1>3, <1>7, <2>1, <2>2, <2>4, SameBlocksAdds
  <2>5. CASE AddToSlide("table_row", OnSlide("slide_row", counters["rowIndex"]))
    <3>1. Adds(1..6)
      BY <1>1, <1>3, <1>4, <1>8, <2>1, <2>2, <2>3, <2>5, AddToSlideAdds
    <3> QED
      BY <1>7, <2>1, <3>1
  <2> QED
    BY <2>1, <2>4, <2>5
<1>14. CASE ReadNotes
  <2>1. /\ source[read + 1].kind = "notes" /\ AddToSlide("note", OnSlide("notes", 0))
        /\ counters' = Counted("shape")
    BY <1>4, <1>14 DEF ReadNotes, Pptx, Reads
  <2>2. OnSlide("notes", 0) \in Id /\ "note" \in ChildTypes
    BY <1>1, Kinds, OnSlideTyped
  <2>3. Adds(1..6)
    BY <1>1, <1>3, <1>4, <1>5, <1>8, <2>1, <2>2, AddToSlideAdds
  <2> QED
    BY <1>7, <2>1, <2>3
<1> QED
  BY <1>9, <1>10, <1>11, <1>12, <1>13, <1>14

LEMMA RecordsTyped ==
    ASSUME TypeInv, AddRoot \/ ReadRecord \/ SkipScalar, UNCHANGED <<markdown, pdf, todo>>, UNCHANGED chunks
    PROVE  TypeInv'
<1>1. Forest(blocks) /\ Open(stack, blocks, 1..6) /\ Counting /\ FileInv /\ Rooted
  BY DEF TypeInv
<1>2. counters \in [Counter -> Nat]
  BY <1>1 DEF Counting
<1>3. CASE AddRoot
  <2>1. /\ format = "records" /\ phase = "parse" /\ blocks = <<>> /\ phase' = phase /\ UNCHANGED file
        /\ blocks' = <<NewBlock("document", Named("doc_root", 0), 0, 0, NoText, {})>>
        /\ read' = read /\ stack' = stack /\ counters' = counters
    BY <1>3 DEF AddRoot
  <2>2. Named("doc_root", 0) \in Id /\ "document" \in ParentTypes \cup ChildTypes /\ {} \in SUBSET Nat
    BY Kinds, NamedTyped
  <2>3. PICK b \in Block : /\ b = NewBlock("document", Named("doc_root", 0), 0, 0, NoText, {})
                           /\ b.parent = 0 /\ b.type = "document"
    BY <2>2, NoTextTyped, BlockIs
  <2>4. blocks' = Append(blocks, b)
    BY <2>1, <2>3
  <2>5. Root(blocks, b.parent)
    BY <1>1, <2>3, ForestTyped DEF Root
  <2>6. Adds(1..6) /\ blocks'[1] = b
    BY <1>1, <1>2, <2>1, <2>4, <2>5, BlockAdds
  <2>7. Rooted'
    BY <2>1, <2>3, <2>6 DEF Rooted, file
  <2>8. format # "code" /\ read' \in {read, read + 1} /\ phase' \in {"parse", "chunk"} /\ read' <= Len(source)
    BY <1>1, <2>1 DEF FileInv
  <2> QED
    BY <2>1, <2>6, <2>7, <2>8, OutlineKeeps
<1>4. CASE ReadRecord
  <2>1. /\ Reads("records", {"paragraph", "record", "table_row"}, read + 1) /\ blocks # <<>>
        /\ blocks' = Append(blocks, NewBlock(source[read + 1].kind, Named("record", read), 1, read,
                                             source[read + 1].text, {read + 1}))
        /\ stack' = stack /\ counters' = counters
    BY <1>4 DEF ReadRecord, RecordUnit
  <2>2. /\ format = "records" /\ phase = "parse" /\ phase' = phase /\ UNCHANGED file /\ read < Len(source)
        /\ read' = read + 1 /\ read' <= Len(source) /\ read + 1 \in 1..Len(source) /\ read \in Nat
        /\ source[read + 1].kind \in {"paragraph", "record", "table_row"}
    BY <1>1, <2>1, ReadsIs
  <2>3. source[read + 1].text \in Text /\ Named("record", read) \in Id
        /\ source[read + 1].kind \in ParentTypes \cup ChildTypes /\ {read + 1} \in SUBSET Nat
    BY <1>1, <2>2, UnitTyped, Kinds, NamedTyped
  <2>4. PICK b \in Block : /\ b = NewBlock(source[read + 1].kind, Named("record", read), 1, read,
                                           source[read + 1].text, {read + 1})
                           /\ b.parent = 1
    BY <2>2, <2>3, BlockIs
  <2>5. Root(blocks, b.parent)
    <3>1. blocks[1].type = "document" /\ Len(blocks) \in Nat /\ Len(blocks) # 0
      BY <1>1, <2>1, <2>2, EmptySeq DEF Rooted, Forest
    <3>2. 1 \in 0..Len(blocks)
      BY <3>1
    <3> QED
      BY <2>4, <3>1, <3>2, Kinds DEF Root
  <2>6. Adds(1..6)
    BY <1>1, <1>2, <2>1, <2>4, <2>5, BlockAdds
  <2>7. blocks'[1].type = "document"
    <3>1. Len(blocks) \in Nat /\ Len(blocks) # 0
      BY <1>1, <2>1, EmptySeq DEF Forest
    <3>2. 1 \in 1..Len(blocks)
      BY <3>1
    <3> QED
      BY <1>1, <2>1, <2>2, <2>6, <3>2 DEF Adds, Extends, Rooted
  <2>8. Rooted'
    BY <2>2, <2>7 DEF Rooted, file
  <2>9. format # "code" /\ read' \in {read, read + 1} /\ phase' \in {"parse", "chunk"}
    BY <2>2
  <2> QED
    BY <2>2, <2>6, <2>8, <2>9, OutlineKeeps
<1>5. CASE SkipScalar
  <2>1. Reads("records", {"scalar"}, read + 1) /\ blocks # <<>> /\ Skip
    BY <1>5 DEF SkipScalar, RecordUnit
  <2>2. /\ format = "records" /\ phase = "parse" /\ phase' = phase /\ UNCHANGED file
        /\ read' = read + 1 /\ read' <= Len(source)
    BY <1>1, <2>1, ReadsIs
  <2>3. Adds(1..6)
    BY <1>1, <2>1, SkipAdds
  <2>4. Rooted'
    BY <1>1, <2>1, <2>2 DEF Rooted, Skip, file
  <2>5. format # "code" /\ read' \in {read, read + 1} /\ phase' \in {"parse", "chunk"}
    BY <2>2
  <2> QED
    BY <2>2, <2>3, <2>4, <2>5, OutlineKeeps
<1> QED
  BY <1>3, <1>4, <1>5

LEMMA OutlineTyped ==
    ASSUME TypeInv, OutlineStep, UNCHANGED <<markdown, pdf, todo>>, UNCHANGED chunks
    PROVE  TypeInv'
<1>1. CASE OutlineEnd
  <2>1. /\ format \in {"docx", "html", "pptx", "records"} /\ phase = "parse" /\ read = Len(source)
        /\ phase' = "chunk" /\ Skip /\ UNCHANGED file /\ read' = read
    BY <1>1 DEF OutlineEnd
  <2>2. Adds(1..6) /\ format # "code" /\ read' <= Len(source) /\ read' \in {read, read + 1}
    <3>1. Forest(blocks) /\ Open(stack, blocks, 1..6) /\ Counting /\ FileInv
      BY DEF TypeInv
    <3> QED
      BY <2>1, <3>1, SkipAdds DEF FileInv
  <2>3. Rooted'
    BY <2>1 DEF TypeInv, Rooted, Skip, file
  <2> QED
    BY <2>1, <2>2, <2>3, OutlineKeeps
<1> QED
  BY <1>1, DocxTyped, HtmlTyped, PptxTyped, RecordsTyped DEF OutlineStep

LEMMA PagesStay ==
    ASSUME NEW ps, NEW bs, NEW cs, Pages(ps, bs), Forest(bs), Forest(cs), Extends(bs, cs)
    PROVE  Pages(ps, cs)
<1> SUFFICES ASSUME NEW p \in DOMAIN ps PROVE ps[p] \in 1..Len(cs) /\ cs[ps[p]].type \in ParentTypes
  BY DEF Pages
<1>1. ps[p] \in 1..Len(bs) /\ bs[ps[p]].type \in ParentTypes
  BY DEF Pages
<1>2. Len(bs) \in Nat /\ Len(cs) \in Nat /\ Len(bs) <= Len(cs) /\ \A i \in 1..Len(bs) : cs[i] = bs[i]
  BY ForestTyped DEF Extends
<1> QED
  BY <1>1, <1>2

LEMMA StacksStay ==
    ASSUME NEW ss, NEW bs, NEW cs, Stacks(ss, bs), Forest(bs), Forest(cs), Extends(bs, cs)
    PROVE  Stacks(ss, cs)
BY OpenStays DEF Stacks

LEMMA SetPages ==
    ASSUME NEW ps, NEW bs, Pages(ps, bs), NEW p, NEW b \in 1..Len(bs), bs[b].type \in ParentTypes
    PROVE  Pages(Set(ps, p, b), bs)
BY DEF Pages, Set

LEMMA SetStacks ==
    ASSUME NEW ss, NEW bs, Stacks(ss, bs), NEW p, NEW open, Open(open, bs, {1, 2})
    PROVE  Stacks(Set(ss, p, open), bs)
BY DEF Stacks, Set

\* _ensure_page_block
LEMMA WithPageAdds ==
    ASSUME Forest(blocks), Pages(pages, blocks), Stacks(sections, blocks), El.page \in Nat
    PROVE  /\ Forest(WithPage) /\ Extends(blocks, WithPage)
           /\ PageBlock \in 1..Len(WithPage) /\ WithPage[PageBlock].type \in ParentTypes
           /\ Root(WithPage, PageBlock)
           /\ Pages(Set(pages, El.page, PageBlock), WithPage)
           /\ Stacks(sections, WithPage)
           /\ Open(OpenSections, WithPage, {1, 2})
<1>1. /\ Forest(WithPage) /\ Extends(blocks, WithPage)
      /\ PageBlock \in 1..Len(WithPage) /\ WithPage[PageBlock].type \in ParentTypes
  <2>1. CASE El.page \in DOMAIN pages
    BY <2>1, ForestTyped DEF WithPage, PageBlock, Pages, Extends
  <2>2. CASE El.page \notin DOMAIN pages
    <3>1. Named("page", El.page) \in Id /\ "page" \in ParentTypes \cup ChildTypes /\ {} \in SUBSET Nat
      BY Kinds, NamedTyped
    <3>2. PICK b \in Block : /\ b = NewBlock("page", Named("page", El.page), 0, El.page, NoText, {})
                             /\ b.parent = 0 /\ b.type = "page"
      BY <3>1, NoTextTyped, BlockIs
    <3>3. WithPage = Append(blocks, b)
      BY <2>2, <3>2 DEF WithPage
    <3>4. Root(blocks, b.parent)
      BY <3>2, ForestTyped DEF Root
    <3>5. /\ Forest(WithPage) /\ Extends(blocks, WithPage) /\ Len(WithPage) = Len(blocks) + 1
          /\ WithPage[Len(blocks) + 1] = b
      BY <3>3, <3>4, AppendGrows
    <3>6. PageBlock = Len(WithPage)
      BY <2>2 DEF PageBlock
    <3>7. Len(blocks) \in Nat
      BY ForestTyped
    <3> QED
      BY <3>2, <3>5, <3>6, <3>7, Kinds
  <2> QED
    BY <2>1, <2>2
<1>2. Root(WithPage, PageBlock)
  BY <1>1, ForestTyped DEF Root
<1>3. Pages(Set(pages, El.page, PageBlock), WithPage)
  BY <1>1, PagesStay, SetPages
<1>4. Stacks(sections, WithPage)
  BY <1>1, StacksStay
<1>5. Open(OpenSections, WithPage, {1, 2})
  <2>1. CASE El.page \in DOMAIN sections
    BY <1>4, <2>1 DEF OpenSections, Stacks
  <2>2. CASE El.page \notin DOMAIN sections
    BY <2>2 DEF OpenSections, Open
  <2> QED
    BY <2>1, <2>2
<1> QED
  BY <1>1, <1>2, <1>3, <1>4, <1>5

\* What is left to show of a step of PdfMapper.
LEMMA PdfKeeps ==
    ASSUME TypeInv, format = "pdf", phase = "parse", UNCHANGED file, UNCHANGED <<markdown, todo>>, UNCHANGED chunks,
           stack' = stack, Forest(blocks'), Extends(blocks, blocks'), counters' \in [Counter -> Nat],
           Pages(pages', blocks'), Stacks(sections', blocks'),
           read' \in {read, read + 1}, read' <= Len(source), phase' \in {"parse", "chunk"}
    PROVE  TypeInv'
<1>1. FileInv' /\ (format = "pdf")'
  <2>1. format' = format /\ source' = source /\ FileInv
    BY DEF file, TypeInv
  <2>2. read' \in Nat
    BY <2>1 DEF FileInv
  <2>3. \E f \in File : format' = f.format /\ source' = f.source
    BY <2>1 DEF FileInv
  <2>4. read' <= Len(source')
    BY <2>1
  <2> QED
    BY <2>1, <2>2, <2>3, <2>4 DEF FileInv
<1>2. Open(stack', blocks', 1..6)
  BY OpenStays DEF TypeInv
<1>3. MarkdownInv'
  <2>1. read \in Nat /\ read' \in Nat /\ read <= read'
    BY DEF TypeInv, FileInv
  <2>2. 1..read \subseteq 1..read'
    BY <2>1
  <2>3. code \in Seq(1..read) /\ code' = code /\ inFence' = inFence
    BY DEF TypeInv, MarkdownInv, markdown
  <2>4. code \in Seq(1..read')
    BY <2>2, <2>3, SeqWider
  <2> QED
    BY <2>3, <2>4 DEF TypeInv, MarkdownInv
<1>4. Rooted' /\ ChunksInv'
  BY <1>1 DEF Rooted, TypeInv, ChunksInv, chunks
<1>5. (format # "code" => todo = <<>>)' /\ (format = "code" => Todo(todo, blocks, source.symbols))'
  BY <1>1 DEF TypeInv
<1> QED
  BY <1>1, <1>2, <1>3, <1>4, <1>5 DEF TypeInv, Counting

LEMMA PdfTyped ==
    ASSUME TypeInv, PdfStep, UNCHANGED <<markdown, todo>>, UNCHANGED chunks
    PROVE  TypeInv'
<1>1. Forest(blocks) /\ Counting /\ FileInv /\ Pages(pages, blocks) /\ Stacks(sections, blocks)
  BY DEF TypeInv
<1>2. format = "pdf" /\ phase = "parse" /\ UNCHANGED file /\ stack' = stack
  BY DEF PdfStep, SkipElement, AddTitle, AddTable, AddChild, PdfEnd, ReadsElement, Skip
<1>3. read \in Nat /\ Len(source) \in Nat /\ read <= Len(source)
  BY <1>1, <1>2, SourceIs DEF FileInv
<1>4. ASSUME ReadsElement
      PROVE  /\ read' = read + 1 /\ read' <= Len(source) /\ phase' = "parse"
             /\ El.text \in Text /\ El.page \in Nat /\ {read + 1} \in SUBSET Nat
  <2>1. read < Len(source) /\ read' = read + 1 /\ phase' = phase
    BY <1>4 DEF ReadsElement
  <2>2. read + 1 \in 1..Len(source)
    BY <1>3, <2>1
  <2>3. El.text \in Text /\ El.page \in Nat
    BY <1>1, <1>2, <2>2, UnitTyped DEF El
  <2> QED
    BY <1>2, <1>3, <2>1, <2>3
<1>5. ASSUME ReadsElement, Forest(blocks'), Extends(blocks, blocks'), counters' \in [Counter -> Nat],
             Pages(pages', blocks'), Stacks(sections', blocks')
      PROVE  TypeInv'
  <2>1. read' \in {read, read + 1} /\ read' <= Len(source) /\ phase' \in {"parse", "chunk"}
    BY <1>4, <1>5
  <2> QED
    BY <1>2, <1>5, <2>1, PdfKeeps
<1>6. \A c \in Counter : Number(c) \in Nat /\ Counted(c) \in [Counter -> Nat]
  BY <1>1, CountedTyped
<1>7. ASSUME ReadsElement
      PROVE  /\ Forest(WithPage) /\ Extends(blocks, WithPage)
             /\ PageBlock \in 1..Len(WithPage) /\ WithPage[PageBlock].type \in ParentTypes
             /\ Root(WithPage, PageBlock)
             /\ Pages(Set(pages, El.page, PageBlock), WithPage)
             /\ Stacks(sections, WithPage)
             /\ Open(OpenSections, WithPage, {1, 2})
  BY <1>1, <1>4, <1>7, WithPageAdds
<1>8. ASSUME NEW bs, Forest(bs), Extends(WithPage, bs), ReadsElement
      PROVE  /\ Extends(blocks, bs) /\ Pages(Set(pages, El.page, PageBlock), bs) /\ Stacks(sections, bs)
  <2>1. Forest(WithPage) /\ Extends(blocks, WithPage)
    BY <1>7, <1>8
  <2>2. blocks \in Seq(Block) /\ WithPage \in Seq(Block) /\ bs \in Seq(Block)
    BY <1>1, <1>8, <2>1 DEF Forest
  <2>3. Extends(blocks, bs)
    BY <1>8, <2>1, <2>2, ExtendsTwice
  <2> QED
    BY <1>7, <1>8, <2>1, <2>3, PagesStay, StacksStay
<1>9. CASE SkipElement
  <2>1. ReadsElement /\ blocks' = blocks /\ counters' = counters /\ pages' = pages /\ sections' = sections
    BY <1>9 DEF SkipElement, pdf
  <2>2. Extends(blocks, blocks')
    BY <1>1, <2>1, ForestTyped DEF Extends
  <2> QED
    BY <1>1, <1>5, <2>1, <2>2 DEF Counting
<1>10. CASE AddTitle
  <2> DEFINE open == Popped(OpenSections, 1)
  <2>1. /\ ReadsElement
        /\ blocks' = Append(WithPage, NewBlock("section", Named("sec", Number("section")), Top(open, PageBlock),
                                               Number("section"), El.text, {read + 1}))
        /\ sections' = Set(sections, El.page, Append(open, [block |-> Len(WithPage) + 1, level |-> 1]))
        /\ pages' = Set(pages, El.page, PageBlock) /\ counters' = Counted("section")
    BY <1>10 DEF AddTitle, EnsuresPage
  <2>2. Forest(WithPage) /\ Open(open, WithPage, {1, 2})
    BY <1>7, <2>1, PoppedTyped
  <2>3. Root(WithPage, Top(open, PageBlock))
    BY <1>7, <2>1, <2>2, TopTyped
  <2> HIDE DEF open
  <2>4. Named("sec", Number("section")) \in Id /\ "section" \in ParentTypes \cup ChildTypes
        /\ Number("section") \in Nat /\ Counted("section") \in [Counter -> Nat]
    BY <1>6, Kinds, NamedTyped
  <2>5. PICK p \in Nat : p = Top(open, PageBlock)
    BY <2>2, <2>3, ForestTyped DEF Root
  <2>6. PICK b \in Block : /\ b = NewBlock("section", Named("sec", Number("section")), p,
                                           Number("section"), El.text, {read + 1})
                           /\ b.parent = p /\ b.type = "section"
    BY <1>4, <2>1, <2>4, BlockIs
  <2>7. blocks' = Append(WithPage, b)
    BY <2>1, <2>5, <2>6
  <2>8. /\ Forest(blocks') /\ Extends(WithPage, blocks') /\ Len(blocks') = Len(WithPage) + 1
        /\ blocks'[Len(WithPage) + 1] = b
    BY <2>2, <2>3, <2>5, <2>6, <2>7, AppendGrows
  <2>9. Extends(blocks, blocks') /\ Pages(pages', blocks') /\ Stacks(sections, blocks')
    BY <1>8, <2>1, <2>8
  <2>10. Stacks(sections', blocks')
    <3>1. Open(open, blocks', {1, 2})
      BY <2>2, <2>8, OpenStays
    <3>2. Len(WithPage) + 1 \in 1..Len(blocks') /\ blocks'[Len(WithPage) + 1].type \in ParentTypes /\ 1 \in {1, 2}
      BY <2>2, <2>6, <2>8, ForestTyped, Kinds
    <3>3. Open(Append(open, [block |-> Len(WithPage) + 1, level |-> 1]), blocks', {1, 2})
      BY <2>8, <3>1, <3>2, PushTyped
    <3> QED
      BY <2>1, <2>9, <3>3, SetStacks
  <2> QED
    BY <1>5, <2>1, <2>4, <2>8, <2>9, <2>10
<1>11. CASE AddTable
  <2> DEFINE n == Number("table")
             table == NewBlock("table", Named("tbl", n), Top(OpenSections, PageBlock), n, NoText, {})
             row == NewBlock("table_row", [name |-> "row", of |-> n, n |-> 0], Len(WithPage) + 1, 0,
                             El.text, {read + 1})
  <2>1. /\ ReadsElement /\ blocks' = WithPage \o <<table, row>>
        /\ pages' = Set(pages, El.page, PageBlock) /\ counters' = Counted("table") /\ sections' = sections
    BY <1>11 DEF AddTable, EnsuresPage
  <2>2. Forest(WithPage) /\ Root(WithPage, Top(OpenSections, PageBlock)) /\ Len(WithPage) \in Nat
    BY <1>7, <2>1, TopTyped, ForestTyped
  <2>3. /\ n \in Nat /\ Counted("table") \in [Counter -> Nat] /\ Named("tbl", n) \in Id
        /\ "table" \in ParentTypes \cup ChildTypes /\ "table_row" \in ParentTypes \cup ChildTypes
    BY <1>6, Kinds, NamedTyped
  <2>4. [name |-> "row", of |-> n, n |-> 0] \in Id
    <3> HIDE DEF n
    <3> QED
      BY <2>3, Kinds DEF Id
  <2>5. PICK p \in Nat : p = Top(OpenSections, PageBlock)
    BY <2>2, ForestTyped DEF Root
  <2> HIDE DEF n
  <2>6. PICK b \in Block : b = NewBlock("table", Named("tbl", n), p, n, NoText, {})
                           /\ b.parent = p /\ b.type = "table"
    <3>1. {} \in SUBSET Nat
      OBVIOUS
    <3> QED
      BY <2>3, <3>1, NoTextTyped, BlockIs
  <2>7. PICK c \in Block : c = row /\ c.parent = Len(WithPage) + 1
    <3>1. Len(WithPage) + 1 \in Nat /\ El.text \in Text /\ {read + 1} \in SUBSET Nat
      BY <1>4, <2>1, <2>2
    <3> QED
      BY <2>3, <2>4, <3>1, BlockIs
  <2>8. PICK bs : bs = Append(WithPage, b)
    OBVIOUS
  <2>9. /\ Forest(bs) /\ Extends(WithPage, bs) /\ Len(bs) = Len(WithPage) + 1 /\ bs[Len(WithPage) + 1] = b
    BY <2>2, <2>5, <2>6, <2>8, AppendGrows
  <2>10. Root(bs, c.parent)
    BY <2>2, <2>6, <2>7, <2>9, Kinds DEF Root
  <2>11. Forest(Append(bs, c)) /\ Extends(bs, Append(bs, c))
    BY <2>9, <2>10, AppendGrows
  <2>12. blocks' = Append(bs, c)
    <3>1. blocks' = WithPage \o <<b, c>>
      BY <2>1, <2>5, <2>6, <2>7
    <3>2. WithPage \in Seq(Block)
      BY <2>2 DEF Forest
    <3> QED
      BY <2>8, <3>1, <3>2
  <2>13. Extends(WithPage, blocks')
    <3>1. WithPage \in Seq(Block) /\ bs \in Seq(Block) /\ Append(bs, c) \in Seq(Block)
      BY <2>2, <2>9, <2>11 DEF Forest
    <3> QED
      BY <2>9, <2>11, <2>12, <3>1, ExtendsTwice
  <2>14. Forest(blocks')
    BY <2>11, <2>12
  <2>15. Extends(blocks, blocks') /\ Pages(pages', blocks') /\ Stacks(sections', blocks')
    BY <1>8, <2>1, <2>13, <2>14
  <2> QED
    BY <1>5, <2>1, <2>3, <2>14, <2>15
<1>12. CASE AddChild
  <2> DEFINE spec == ChildBlockSpec(El.kind)
  <2>1. PICK s : s = ChildBlockSpec(El.kind)
    OBVIOUS
  <2>2. s.type \in ChildTypes /\ s.name \in IdName /\ s.counter \in Counter
    BY <2>1, Kinds DEF ChildBlockSpec
  <2>3. /\ ReadsElement
        /\ blocks' = Append(WithPage, NewBlock(s.type, Named(s.name, Number(s.counter)),
                                               Top(OpenSections, PageBlock), Number(s.counter), El.text, {read + 1}))
        /\ counters' = Counted(s.counter) /\ pages' = Set(pages, El.page, PageBlock) /\ sections' = sections
    BY <1>12, <2>1 DEF AddChild, EnsuresPage
  <2>4. Forest(WithPage) /\ Root(WithPage, Top(OpenSections, PageBlock)) /\ Len(WithPage) \in Nat
    BY <1>7, <2>3, TopTyped, ForestTyped
  <2>5. PICK p \in Nat, m \in Nat, id \in Id :
            p = Top(OpenSections, PageBlock) /\ m = Number(s.counter) /\ id = Named(s.name, m)
    <3>1. Top(OpenSections, PageBlock) \in Nat
      BY <2>4 DEF Root
    <3> QED
      BY <1>6, <2>2, <3>1, NamedTyped
  <2>6. s.type \in ParentTypes \cup ChildTypes /\ {read + 1} \in SUBSET Nat /\ El.text \in Text
    BY <1>4, <2>2, <2>3
  <2>7. PICK b \in Block : b = NewBlock(s.type, id, p, m, El.text, {read + 1}) /\ b.parent = p
    BY <2>6, BlockIs
  <2>8. blocks' = Append(WithPage, b)
    BY <2>3, <2>5, <2>7
  <2>9. Forest(blocks') /\ Extends(WithPage, blocks')
    BY <2>4, <2>5, <2>7, <2>8, AppendGrows
  <2>10. Extends(blocks, blocks') /\ Pages(pages', blocks') /\ Stacks(sections', blocks')
    BY <1>8, <2>3, <2>9
  <2>11. counters' \in [Counter -> Nat]
    BY <1>6, <2>2, <2>3
  <2> QED
    BY <1>5, <2>3, <2>9, <2>10, <2>11
<1>13. CASE PdfEnd
  <2>1. /\ phase' = "chunk" /\ read' = read /\ pages' = pages /\ sections' = sections
        /\ blocks' = blocks /\ counters' = counters
    BY <1>13 DEF PdfEnd, Skip, pdf
  <2>2. Extends(blocks, blocks') /\ Forest(blocks') /\ counters' \in [Counter -> Nat]
    BY <1>1, <2>1, ForestTyped DEF Extends, Counting
  <2>3. Pages(pages', blocks') /\ Stacks(sections', blocks')
    BY <1>1, <2>1
  <2>4. read' \in {read, read + 1} /\ read' <= Len(source) /\ phase' \in {"parse", "chunk"}
    BY <1>3, <2>1
  <2> QED
    BY <1>2, <2>2, <2>3, <2>4, PdfKeeps
<1> QED
  BY <1>9, <1>10, <1>11, <1>12, <1>13 DEF PdfStep

----------------------------------------------------------------------------
(* Symbols.                                                                *)

LEMMA SymbolsAre ==
    ASSUME FileInv, format = "code"
    PROVE  /\ Len(source.units) \in Nat /\ source.units \in Seq({"word", "line end"})
           /\ IsFiniteSet(source.symbols) /\ Cardinality(source.symbols) \in Nat /\ Laminar(source.symbols)
           /\ \A s \in source.symbols :
                  /\ s = <<s[1], s[2]>> /\ s[1] \in 1..Len(source.units) /\ s[2] \in 1..Len(source.units)
                  /\ s[1] <= s[2] /\ source.units[s[1]] = "word" /\ source.units[s[2]] = "word"
                  /\ s \in Nat \X Nat /\ s[1] \in Nat /\ s[2] \in Nat
<1>1. source \in CodeSource
  BY SourceIs
<1>2. /\ source.units \in Seq({"word", "line end"})
      /\ source.symbols \subseteq (DOMAIN source.units) \X (DOMAIN source.units)
      /\ Laminar(source.symbols)
      /\ \A t \in source.symbols : t[1] <= t[2] /\ source.units[t[1]] = "word" /\ source.units[t[2]] = "word"
  BY <1>1, CodeAssumption
<1>3. PICK N \in Nat : N = Len(source.units) /\ DOMAIN source.units = 1..N
  <2>1. PICK u : u = source.units
    OBVIOUS
  <2>3. PICK W : u \in Seq(W)
    BY <1>2, <2>1
  <2>2. Len(u) \in Nat /\ DOMAIN u = 1..Len(u)
    BY <2>3
  <2> QED
    BY <2>1, <2>2
<1>4. source.symbols \subseteq (1..N) \X (1..N)
  BY <1>2, <1>3
<1>5. IsFiniteSet((1..N) \X (1..N))
  <2>1. IsFiniteSet(1..N)
    BY FS_Interval
  <2> QED
    BY <2>1, FS_Product
<1>6. IsFiniteSet(source.symbols) /\ Cardinality(source.symbols) \in Nat
  BY <1>4, <1>5, FS_Subset, FS_CardinalityType
<1>7. \A s \in (1..N) \X (1..N) : s = <<s[1], s[2]>> /\ s[1] \in 1..N /\ s[2] \in 1..N
                                  /\ s \in Nat \X Nat /\ s[1] \in Nat /\ s[2] \in Nat
  OBVIOUS
<1> QED
  BY <1>2, <1>3, <1>4, <1>6, <1>7

\* Symbols in the order in which they begin, outer ones first.
SpanBefore(s, t) == s[1] < t[1] \/ (s[1] = t[1] /\ s[2] > t[2])
SpanOrder(T) == {p \in T \X T : SpanBefore(p[1], p[2])}

LEMMA InOrderIs ==
    ASSUME FileInv, format = "code", NEW T, T \subseteq source.symbols
    PROVE  InOrderBy(InOrder(T), SpanOrder(T), T) /\ IsFiniteSet(T)
<1> DEFINE R == SpanOrder(T)
           Count(x) == Cardinality({y \in T : y[1] < x[1] \/ (y[1] = x[1] /\ y[2] > x[2])})
<1>1. IsFiniteSet(T)
  BY SymbolsAre, FS_Subset
<1>2. \A x \in T : x = <<x[1], x[2]>> /\ x[1] \in Nat /\ x[2] \in Nat
  BY SymbolsAre
<1>3. \A x, y \in T : <<x, y>> \in R <=> SpanBefore(x, y)
  BY DEF SpanOrder
<1> HIDE DEF R
<1>4. \A x \in T : <<x, x>> \notin R
  BY <1>2, <1>3 DEF SpanBefore
<1>5. \A x, y \in T : x # y => <<x, y>> \in R \/ <<y, x>> \in R
  <2> SUFFICES ASSUME NEW x \in T, NEW y \in T, x # y PROVE SpanBefore(x, y) \/ SpanBefore(y, x)
    BY <1>3
  <2>1. x[1] # y[1] \/ x[2] # y[2]
    BY <1>2
  <2>2. x[1] \in Nat /\ x[2] \in Nat /\ y[1] \in Nat /\ y[2] \in Nat
    BY <1>2
  <2> QED
    BY <2>1, <2>2 DEF SpanBefore
<1>6. \A x, y, z \in T : <<x, y>> \in R /\ <<y, z>> \in R => <<x, z>> \in R
  <2> SUFFICES ASSUME NEW x \in T, NEW y \in T, NEW z \in T, SpanBefore(x, y), SpanBefore(y, z)
               PROVE  SpanBefore(x, z)
    BY <1>3
  <2>1. x[1] \in Nat /\ x[2] \in Nat /\ y[1] \in Nat /\ y[2] \in Nat /\ z[1] \in Nat /\ z[2] \in Nat
    BY <1>2
  <2> QED
    BY <2>1 DEF SpanBefore
<1>7. Orders(R, T)
  BY <1>4, <1>5, <1>6 DEF Orders
<1>8. \A x \in T : {y \in T : y[1] < x[1] \/ (y[1] = x[1] /\ y[2] > x[2])} = {y \in T : <<y, x>> \in R}
  BY <1>3 DEF SpanBefore
<1>9. InOrder(T) = [i \in 1..Cardinality(T) |-> CHOOSE x \in T : Count(x) = i - 1]
  BY DEF InOrder, InOrderOf
<1>10. \A x \in T : Count(x) = Cardinality({y \in T : <<y, x>> \in R})
  BY <1>8
<1> HIDE DEF Count
<1>11. \A i : (CHOOSE x \in T : Count(x) = i - 1)
              = CHOOSE x \in T : Cardinality({y \in T : <<y, x>> \in R}) = i - 1
  BY <1>10
<1>12. InOrder(T) = [i \in 1..Cardinality(T) |->
                        CHOOSE x \in T : Cardinality({y \in T : <<y, x>> \in R}) = i - 1]
  BY <1>9, <1>11
<1>13. PICK seq : seq = InOrder(T)
  OBVIOUS
<1>14. InOrderBy(seq, R, T)
  BY <1>1, <1>7, <1>12, <1>13, Places
<1> QED
  BY <1>1, <1>13, <1>14 DEF R

----------------------------------------------------------------------------
(* _nest_symbols.                                                          *)

Nodes(syms) == [symbol : syms, in : syms \cup {Outside}]
Nests(syms) == [open : Seq(syms), placed : Seq(Nodes(syms))]

\* While it is not around the new symbol, the one on top is closed.
Around2(t, s) == t[1] <= s[1] /\ s[2] <= t[2]
KeepsOpen(open, s, k) ==
    /\ k \in 0..Len(open) /\ (k # 0 => Around2(open[k], s))
    /\ \A n \in k + 1..Len(open) : ~ Around2(open[n], s)

PlacesBelow(acc, s, k, open, p) ==
    /\ KeepsOpen(acc.open, s, k)
    /\ Len(open) = k /\ \A n \in 1..k : open[n] = acc.open[n]
    /\ p.open = Append(open, s)
    /\ p.placed = Append(acc.placed, [symbol |-> s, in |-> IF k = 0 THEN Outside ELSE acc.open[k]])

LEMMA PlacedIs ==
    ASSUME NEW syms, NEW acc \in Nests(syms), NEW s \in syms
    PROVE  /\ \E k \in 0..Len(acc.open) : \E open \in Seq(syms) : PlacesBelow(acc, s, k, open, Placed(acc, s))
           /\ Placed(acc, s) \in Nests(syms)
<1>1. acc.open \in Seq(syms) /\ acc.placed \in Seq(Nodes(syms))
  BY DEF Nests
<1>2. PICK m \in Nat : m = Len(acc.open)
  BY <1>1
<1> DEFINE T == {n \in 0..m : n = 0 \/ Around2(acc.open[n], s)}
<1>3. PICK k : k = Max(T)
  OBVIOUS
<1>4. k \in T /\ \A y \in T : k >= y
  <2>1. T \subseteq 0..m /\ 0 \in T /\ 0 \in Int /\ m \in Int
    OBVIOUS
  <2> HIDE DEF T
  <2> QED
    BY <1>3, <2>1, GreatestIs
<1>5. k \in 0..m /\ KeepsOpen(acc.open, s, k)
  <2>1. k \in 0..m /\ (k # 0 => Around2(acc.open[k], s))
    BY <1>4
  <2>2. \A n \in k + 1..m : ~ Around2(acc.open[n], s)
    BY <1>4, <2>1
  <2> QED
    BY <1>2, <2>1, <2>2 DEF KeepsOpen
<1>6. PICK open : open = SubSeq(acc.open, 1, k)
  OBVIOUS
<1>7. open \in Seq(syms) /\ Len(open) = k /\ \A n \in 1..k : open[n] = acc.open[n] /\ n \in 1..m
  BY <1>1, <1>2, <1>5, <1>6, PrefixIs
<1>8. Placed(acc, s) =
          [open |-> Append(open, s),
           placed |-> Append(acc.placed, [symbol |-> s, in |-> IF open = <<>> THEN Outside ELSE Last(open)])]
  BY <1>2, <1>3, <1>6 DEF Placed, Around2
<1>9. PICK node : node = [symbol |-> s, in |-> IF k = 0 THEN Outside ELSE acc.open[k]]
  OBVIOUS
<1>10. (IF open = <<>> THEN Outside ELSE Last(open)) = IF k = 0 THEN Outside ELSE acc.open[k]
  <2>1. open = <<>> <=> k = 0
    BY <1>7, EmptySeq
  <2>2. k # 0 => Last(open) = open[k] /\ open[k] = acc.open[k]
    BY <1>5, <1>7 DEF Last
  <2> QED
    BY <2>1, <2>2
<1>11. node \in Nodes(syms)
  <2>1. k # 0 => acc.open[k] \in syms
    BY <1>1, <1>2, <1>5
  <2> QED
    BY <1>9, <2>1 DEF Nodes
<1>12. PICK p : p = Placed(acc, s)
  OBVIOUS
<1>13. p = [open |-> Append(open, s), placed |-> Append(acc.placed, node)]
  BY <1>8, <1>9, <1>10, <1>12
<1>14. Append(open, s) \in Seq(syms) /\ Append(acc.placed, node) \in Seq(Nodes(syms))
  BY <1>1, <1>7, <1>11
<1>15. p \in Nests(syms)
  BY <1>13, <1>14 DEF Nests
<1>16. PlacesBelow(acc, s, k, open, p)
  BY <1>5, <1>7, <1>9, <1>13 DEF PlacesBelow
<1> QED
  BY <1>2, <1>5, <1>7, <1>12, <1>15, <1>16

LEMMA NestingStep ==
    ASSUME FileInv, format = "code", NEW N, N = Cardinality(source.symbols)
    PROVE  /\ NestingAfter \in [0..N -> Nests(source.symbols)]
           /\ NestingAfter[0] = [open |-> <<>>, placed |-> <<>>]
           /\ \A n \in 1..N : NestingAfter[n] = Placed(NestingAfter[n - 1], InOrder(source.symbols)[n])
<1> DEFINE syms == source.symbols
           base == [open |-> <<>>, placed |-> <<>>]
           ordered == InOrder(syms)
           step == [p \in (1..N) \X Nests(syms) |-> Placed(p[2], ordered[p[1]])]
           Equation(f) == f = [n \in 0..Len(ordered) |-> IF n = 0 THEN base ELSE Placed(f[n - 1], ordered[n])]
<1>1. N \in Nat /\ Len(ordered) = N /\ \A n \in 1..N : ordered[n] \in syms
  <2>1. InOrderBy(ordered, SpanOrder(syms), syms)
    BY InOrderIs
  <2> QED
    BY <2>1 DEF InOrderBy
<1>2. NestingAfter = CHOOSE f : Equation(f)
  BY DEF NestingAfter
<1> HIDE DEF ordered, syms
<1>3. \A n \in 1..N : \A a \in Nests(syms) : Placed(a, ordered[n]) \in Nests(syms)
  BY <1>1, PlacedIs
<1>4. step \in [(1..N) \X Nests(syms) -> Nests(syms)] /\ \A n \in 1..N : \A a \in Nests(syms) : step[<<n, a>>] = Placed(a, ordered[n])
  BY <1>3
<1>5. base \in Nests(syms)
  BY DEF Nests
<1> HIDE DEF step
<1>6. PICK f \in [0..N -> Nests(syms)] : f[0] = base /\ \A n \in 1..N : f[n] = step[<<n, f[n - 1]>>]
  <2>0. PICK b \in Nests(syms) : b = base
    BY <1>5
  <2>1. \E f \in [0..N -> Nests(syms)] : Iterates(f, b, step, N)
    BY <1>1, <1>4, Recursion
  <2> QED
    BY <2>0, <2>1 DEF Iterates
<1>7. \A n \in 1..N : f[n] = Placed(f[n - 1], ordered[n])
  <2> TAKE n \in 1..N
  <2>1. f[n - 1] \in Nests(syms)
    BY <1>1, <1>6
  <2> QED
    BY <1>4, <1>6, <2>1
<1> HIDE DEF base
<1>8. Equation(f)
  <2>1. \A n \in 0..N : f[n] = IF n = 0 THEN base ELSE Placed(f[n - 1], ordered[n])
    BY <1>6, <1>7
  <2> QED
    BY <1>1, <1>6, <2>1
<1> HIDE DEF Equation
<1>9. PICK g : g = NestingAfter /\ Equation(g)
  BY <1>2, <1>8
<1>10. g = [n \in 0..N |-> IF n = 0 THEN base ELSE Placed(g[n - 1], ordered[n])]
  BY <1>1, <1>9 DEF Equation
<1>11. g[0] = base /\ \A n \in 1..N : g[n] = Placed(g[n - 1], ordered[n])
  BY <1>1, <1>10
<1> DEFINE Good == {n \in 0..N : g[n] \in Nests(syms)}
<1>12. 0..N \subseteq Good
  <2>1. 0 \in Good
    BY <1>1, <1>5, <1>11
  <2>2. \A n \in 1..N : n - 1 \in Good => n \in Good
    <3> TAKE n \in 1..N
    <3>1. n \in 0..N
      BY <1>1
    <3> QED
      BY <1>3, <1>11, <3>1
  <2> HIDE DEF Good
  <2> QED
    BY <1>1, <2>1, <2>2, UpToInduct
<1>13. g \in [0..N -> Nests(syms)]
  BY <1>10, <1>12
<1> QED
  BY <1>9, <1>11, <1>13 DEF syms, ordered, base

LEMMA ChildSymbolsTyped ==
    ASSUME FileInv, format = "code", NEW s
    PROVE  ChildSymbols(s) \subseteq source.symbols
<1>1. PICK N \in Nat : N = Cardinality(source.symbols)
  BY SymbolsAre
<1>2. NestingAfter[N] \in Nests(source.symbols)
  BY <1>1, NestingStep
<1>3. Nesting \in Seq(Nodes(source.symbols))
  BY <1>1, <1>2 DEF Nesting, Nests
<1>4. \A n \in ToSet(Nesting) : n \in Nodes(source.symbols)
  BY <1>3 DEF ToSet
<1> QED
  BY <1>4 DEF ChildSymbols, Nodes

----------------------------------------------------------------------------
(* The steps of CodeParser.                                                *)

LEMMA TodoStays ==
    ASSUME NEW tasks, NEW bs, NEW cs, NEW syms, Todo(tasks, bs, syms), Forest(bs), Forest(cs), Extends(bs, cs)
    PROVE  Todo(tasks, cs, syms)
<1>1. PICK n \in Nat, m \in Nat : n = Len(bs) /\ m = Len(cs) /\ n <= m /\ \A i \in 1..n : cs[i] = bs[i]
  BY ForestTyped DEF Extends
<1>2. Tasks(syms, n) \subseteq Tasks(syms, m)
  <2>1. 1..n \subseteq 1..m
    BY <1>1
  <2> QED
    BY <2>1 DEF Tasks
<1>3. tasks \in Seq(Tasks(syms, n)) /\ \A i \in 1..Len(tasks) : bs[tasks[i].parent].type \in ParentTypes
  BY <1>1 DEF Todo
<1>4. tasks \in Seq(Tasks(syms, m))
  BY <1>2, <1>3, SeqWider
<1>5. \A i \in 1..Len(tasks) : tasks[i].parent \in 1..n
  <2> TAKE i \in 1..Len(tasks)
  <2>1. tasks[i] \in Tasks(syms, n)
    BY <1>3, Entry
  <2> QED
    BY <2>1 DEF Tasks
<1> QED
  BY <1>1, <1>3, <1>4, <1>5 DEF Todo

LEMMA TodoJoins ==
    ASSUME NEW s, NEW t, NEW bs, NEW syms, Todo(s, bs, syms), Todo(t, bs, syms)
    PROVE  Todo(s \o t, bs, syms)
<1>1. PICK T : T = Tasks(syms, Len(bs)) /\ s \in Seq(T) /\ t \in Seq(T)
  BY DEF Todo
<1>2. PICK m \in Nat, n \in Nat : m = Len(s) /\ n = Len(t)
  BY <1>1
<1>3. PICK u : u = s \o t
  OBVIOUS
<1>4. /\ u \in Seq(T) /\ Len(u) = m + n
      /\ \A i \in 1..m + n : u[i] = IF i <= m THEN s[i] ELSE t[i - m]
  BY <1>1, <1>2, <1>3, ConcatProperties
<1>5. ASSUME NEW i \in 1..m + n PROVE bs[u[i].parent].type \in ParentTypes
  <2>1. CASE i <= m
    <3>1. u[i] = s[i] /\ i \in 1..Len(s)
      BY <1>2, <1>4, <2>1
    <3> QED
      BY <3>1 DEF Todo
  <2>2. CASE ~ (i <= m)
    <3>1. u[i] = t[i - m] /\ i - m \in 1..Len(t)
      BY <1>2, <1>4, <2>2
    <3> QED
      BY <3>1 DEF Todo
  <2> QED
    BY <2>1, <2>2
<1> QED
  BY <1>1, <1>3, <1>4, <1>5 DEF Todo

LEMMA TaskIs ==
    ASSUME NEW bs, NEW syms, Forest(bs), Todo(todo, bs, syms), todo # <<>>
    PROVE  /\ Task = todo[1] /\ Task \in Tasks(syms, Len(bs)) /\ Len(todo) \in Nat \ {0}
           /\ Task.parent \in 1..Len(bs) /\ Task.parent \in Nat /\ Root(bs, Task.parent)
           /\ Task.task = "symbol" => Task.span \in syms
           /\ Task.task = "gaps" => Task.span \in Nat \X Nat /\ Task.covered \subseteq syms
           /\ Todo(Tail(todo), bs, syms) /\ Len(Tail(todo)) = Len(todo) - 1
           /\ \A i \in 1..Len(todo) - 1 : Tail(todo)[i] = todo[i + 1]
<1>1. PICK T : T = Tasks(syms, Len(bs)) /\ todo \in Seq(T)
  BY DEF Todo
<1>2. PICK n \in Nat \ {0} : n = Len(todo)
  BY <1>1, EmptySeq
<1>3. Task = todo[1] /\ todo[1] \in T
  BY <1>1, <1>2 DEF Task
<1>4. Task.parent \in 1..Len(bs) /\ (Task.task = "symbol" => Task.span \in syms)
      /\ (Task.task = "gaps" => Task.span \in Nat \X Nat /\ Task.covered \subseteq syms)
  BY <1>1, <1>3 DEF Tasks
<1>5. Task.parent \in Nat /\ Root(bs, Task.parent)
  <2>1. Len(bs) \in Nat
    BY ForestTyped
  <2>2. bs[Task.parent].type \in ParentTypes
    BY <1>2, <1>3 DEF Todo
  <2> QED
    BY <1>4, <2>1, <2>2 DEF Root
<1>6. PICK t : t = Tail(todo)
  OBVIOUS
<1>7. t \in Seq(T) /\ Len(t) = n - 1 /\ \A i \in 1..n - 1 : t[i] = todo[i + 1]
  BY <1>1, <1>2, <1>6
<1>8. \A i \in 1..n - 1 : bs[t[i].parent].type \in ParentTypes
  <2> TAKE i \in 1..n - 1
  <2>1. i + 1 \in 1..Len(todo)
    BY <1>2
  <2> QED
    BY <1>7, <2>1 DEF Todo
<1>9. Todo(t, bs, syms)
  BY <1>1, <1>7, <1>8 DEF Todo
<1> QED
  BY <1>1, <1>2, <1>3, <1>4, <1>5, <1>6, <1>7, <1>9

LEMMA SymbolTasksTyped ==
    ASSUME FileInv, format = "code", NEW spans, spans \subseteq source.symbols,
           NEW bs, Forest(bs), NEW p \in 1..Len(bs), bs[p].type \in ParentTypes
    PROVE  /\ Todo(SymbolTasks(spans, p), bs, source.symbols)
           /\ Len(SymbolTasks(spans, p)) = Cardinality(spans)
<1>1. PICK n \in Nat : n = Cardinality(spans) /\ \A i \in 1..n : InOrder(spans)[i] \in spans
  <2>1. InOrderBy(InOrder(spans), SpanOrder(spans), spans)
    BY InOrderIs
  <2> QED
    BY <2>1 DEF InOrderBy
<1>2. PICK s : s = SymbolTasks(spans, p)
  OBVIOUS
<1>3. s = [i \in 1..n |-> [task |-> "symbol", span |-> InOrder(spans)[i], parent |-> p, covered |-> {}]]
  BY <1>1, <1>2 DEF SymbolTasks
<1>4. \A i \in 1..n : [task |-> "symbol", span |-> InOrder(spans)[i], parent |-> p, covered |-> {}]
                          \in Tasks(source.symbols, Len(bs))
  BY <1>1 DEF Tasks
<1>5. s \in [1..n -> Tasks(source.symbols, Len(bs))] /\ \A i \in 1..n : s[i].parent = p
  BY <1>3, <1>4
<1>6. s \in Seq(Tasks(source.symbols, Len(bs))) /\ Len(s) = n
  BY <1>5, FunctionSeq
<1> QED
  BY <1>1, <1>2, <1>5, <1>6 DEF Todo

LEMMA GapTaskTyped ==
    ASSUME NEW syms, NEW covered, covered \subseteq syms, NEW span \in Nat \X Nat,
           NEW bs, Forest(bs), NEW p \in 1..Len(bs), bs[p].type \in ParentTypes
    PROVE  Todo(GapTask(span, covered, p), bs, syms)
<1>1. PICK g : g = [task |-> "gaps", span |-> span, parent |-> p, covered |-> covered]
  OBVIOUS
<1>2. g \in Tasks(syms, Len(bs)) /\ g.parent = p
  BY <1>1 DEF Tasks
<1>3. GapTask(span, covered, p) = <<g>>
  BY <1>1 DEF GapTask
<1>4. <<g>> \in Seq(Tasks(syms, Len(bs))) /\ Len(<<g>>) = 1 /\ <<g>>[1] = g
  BY <1>2
<1>5. \A i \in 1..Len(<<g>>) : bs[<<g>>[i].parent].type \in ParentTypes
  BY <1>2, <1>4
<1> QED
  BY <1>3, <1>4, <1>5 DEF Todo

LEMMA BeforeIt ==
    ASSUME NEW a \in Nat, NEW b \in Nat, NEW m \in a..b, NEW p \in a..m - 1
    PROVE  p \in a..b /\ ~ (m <= p)
OBVIOUS

LEMMA HeaderIs ==
    ASSUME FileInv, format = "code", NEW s \in source.symbols
    PROVE  /\ Header(s)[1] = s[1] /\ Header(s)[2] \in Int /\ Header(s)[2] <= s[2] /\ s[1] <= Header(s)[2]
           /\ \A p \in s[1]..Header(s)[2] : source.units[p] # "line end"
           /\ <<Header(s)[2] + 1, s[2]>> \in Nat \X Nat
<1>1. s = <<s[1], s[2]>> /\ s[1] \in Nat /\ s[2] \in Nat /\ s[1] <= s[2] /\ source.units[s[1]] = "word"
  BY SymbolsAre
<1>2. LineEnds(s) \subseteq s[1]..s[2]
  BY DEF LineEnds
<1>3. CASE LineEnds(s) = {}
  <2>1. Header(s) = s
    BY <1>3 DEF Header
  <2>2. \A p \in s[1]..s[2] : source.units[p] # "line end"
    BY <1>3 DEF LineEnds
  <2>3. s[1] \in Nat /\ s[2] \in Nat /\ s[2] \in Int /\ s[1] <= s[2] /\ s[2] + 1 \in Nat /\ s[2] <= s[2]
    BY <1>1
  <2>4. <<s[2] + 1, s[2]>> \in Nat \X Nat
    BY <2>3
  <2> QED
    BY <2>1, <2>2, <2>3, <2>4
<1>4. CASE LineEnds(s) # {}
  <2>1. PICK m : m = Min(LineEnds(s))
    OBVIOUS
  <2>2. m \in LineEnds(s) /\ m \in Nat /\ \A x \in LineEnds(s) : m <= x
    BY <1>1, <1>2, <1>4, <2>1, Edges
  <2>3. m \in s[1]..s[2] /\ source.units[m] = "line end" /\ m # s[1]
    BY <1>1, <2>2 DEF LineEnds
  <2>4. Header(s) = <<s[1], m - 1>>
    BY <1>4, <2>1 DEF Header
  <2>5. \A p \in s[1]..m - 1 : source.units[p] # "line end"
    <3> SUFFICES ASSUME NEW p \in s[1]..m - 1, source.units[p] = "line end" PROVE FALSE
      OBVIOUS
    <3>0. PICK a \in Nat, b \in Nat : a = s[1] /\ b = s[2]
      BY <1>1
    <3>1. p \in a..b /\ ~ (m <= p)
      <4>1. m \in Nat /\ m \in a..b /\ p \in a..m - 1
        BY <2>2, <2>3, <3>0
      <4> QED
        BY <4>1, BeforeIt, Zenon
    <3> QED
      BY <2>2, <3>0, <3>1 DEF LineEnds
  <2>6. PICK a \in Nat, b \in Nat : a = s[1] /\ b = s[2]
    BY <1>1
  <2>7. m \in a..b /\ m # a /\ m \in Nat
    BY <2>2, <2>3, <2>6
  <2>8. m - 1 \in Int /\ m - 1 <= b /\ a <= m - 1 /\ m - 1 + 1 \in Nat
    BY <2>7
  <2>9. Header(s)[1] = a /\ Header(s)[2] = m - 1
    BY <2>4, <2>6
  <2>10. <<Header(s)[2] + 1, s[2]>> \in Nat \X Nat
    BY <2>6, <2>8, <2>9
  <2>11. \A p \in a..m - 1 : source.units[p] # "line end"
    BY <2>5, <2>6
  <2> QED
    BY <2>6, <2>8, <2>9, <2>10, <2>11
<1> QED
  BY <1>3, <1>4

LEMMA CodeKeeps ==
    ASSUME TypeInv, format = "code", phase = "parse", UNCHANGED <<file, read, stack>>,
           UNCHANGED <<markdown, pdf>>, UNCHANGED chunks,
           Forest(blocks'), Extends(blocks, blocks'), counters' \in [Counter -> Nat],
           Todo(todo', blocks', source.symbols), phase' \in {"parse", "chunk"}
    PROVE  TypeInv'
<1>1. FileInv' /\ format' = "code" /\ source' = source
  BY DEF TypeInv, FileInv, file
<1>2. Open(stack', blocks', 1..6)
  BY OpenStays DEF TypeInv
<1>3. MarkdownInv'
  BY DEF TypeInv, MarkdownInv, markdown
<1>4. Rooted' /\ ChunksInv'
  BY <1>1 DEF Rooted, TypeInv, ChunksInv, chunks
<1>5. Pages(pages', blocks') /\ Stacks(sections', blocks')
  BY PagesStay, StacksStay DEF TypeInv, pdf
<1>6. (format # "code" => todo = <<>>)' /\ (format = "code" => Todo(todo, blocks, source.symbols))'
  BY <1>1
<1> QED
  BY <1>1, <1>2, <1>3, <1>4, <1>5, <1>6 DEF TypeInv, Counting

\* What no symbol covers.
BareIn(span, covered) == {p \in span[1]..span[2] : \A c \in covered : p \notin c[1]..c[2]}
BareStarts(span, covered) == {p \in BareIn(span, covered) : p - 1 \notin BareIn(span, covered)}

\* A gap begins where nothing is bare before it and goes on while it is.
GapFrom(gap, a, bare) ==
    /\ gap = <<a, gap[2]>> /\ gap[1] = a /\ gap[2] \in Nat /\ a <= gap[2] /\ a..gap[2] \subseteq bare
    /\ \A q \in bare : a..q \subseteq bare => q <= gap[2]
GapsOf(gaps, span, covered) ==
    \E starts : /\ Increasing(starts, BareStarts(span, covered)) /\ DOMAIN gaps = DOMAIN starts
                /\ \A i \in DOMAIN starts : GapFrom(gaps[i], starts[i], BareIn(span, covered))

LEMMA GapsAre ==
    ASSUME NEW span \in Nat \X Nat, NEW covered
    PROVE  GapsOf(Gaps(span, covered), span, covered)
<1> DEFINE bare == BareIn(span, covered)
           first == BareStarts(span, covered)
           EndOf(p) == Max({q \in bare : p..q \subseteq bare})
<1>1. PICK a \in Nat, b \in Nat : a = span[1] /\ b = span[2]
  OBVIOUS
<1>2. bare \subseteq a..b /\ first \subseteq bare
  BY <1>1 DEF BareIn, BareStarts
<1>3. PICK starts : starts = InOrderOf(first, <)
  OBVIOUS
<1>4. Gaps(span, covered) = [i \in DOMAIN starts |-> <<starts[i], EndOf(starts[i])>>]
  BY <1>3 DEF Gaps, BareIn, BareStarts
<1> HIDE DEF bare, first
<1>5. Increasing(starts, first)
  <2>1. IsFiniteSet(first)
    <3>1. first \subseteq a..b
      BY <1>2
    <3>2. a \in Int /\ b \in Int
      OBVIOUS
    <3>3. IsFiniteSet(a..b)
      BY <3>2, FS_Interval
    <3> QED
      BY <3>1, <3>3, FS_Subset
  <2>2. first \in SUBSET Int
    BY <1>2
  <2> QED
    BY <1>3, <2>1, <2>2, NumbersInOrder
<1>6. ASSUME NEW p \in bare
      PROVE  /\ EndOf(p) \in Nat /\ p <= EndOf(p) /\ p..EndOf(p) \subseteq bare
             /\ \A q \in bare : p..q \subseteq bare => q <= EndOf(p)
  <2> DEFINE T == {q \in bare : p..q \subseteq bare}
  <2>0. p \in Nat
    BY <1>2
  <2>1. p..p = {p}
    BY <2>0
  <2>2. p \in T /\ T \subseteq a..b
    BY <1>2, <2>1
  <2> HIDE DEF T
  <2>3. Max(T) \in T /\ Max(T) \in Nat /\ \A x \in T : Min(T) <= x /\ x <= Max(T)
    <3>1. a \in Nat /\ b \in Int /\ T # {}
      BY <2>2
    <3> QED
      BY <2>2, <3>1, Edges
  <2>4. EndOf(p) = Max(T)
    BY DEF T
  <2>5. p <= Max(T) /\ p..Max(T) \subseteq bare
    BY <2>2, <2>3 DEF T
  <2>6. \A q \in bare : p..q \subseteq bare => q <= Max(T)
    BY <2>3 DEF T
  <2> QED
    BY <2>3, <2>4, <2>5, <2>6
<1>7. PICK gaps : gaps = Gaps(span, covered)
  OBVIOUS
<1>8. DOMAIN gaps = DOMAIN starts /\ \A i \in DOMAIN starts : gaps[i] = <<starts[i], EndOf(starts[i])>>
  BY <1>4, <1>7
<1> HIDE DEF EndOf
<1>9. ASSUME NEW i \in DOMAIN starts PROVE GapFrom(gaps[i], starts[i], bare)
  <2>1. starts[i] \in first
    BY <1>5 DEF Increasing
  <2>2. PICK p \in bare : p = starts[i]
    BY <1>2, <2>1
  <2>3. PICK e : e = EndOf(p) /\ gaps[i] = <<p, e>> /\ gaps[i][1] = p /\ gaps[i][2] = e
    BY <1>8, <2>2
  <2>4. e \in Nat /\ p <= e /\ p..e \subseteq bare /\ \A q \in bare : p..q \subseteq bare => q <= e
    BY <1>6, <2>3
  <2> QED
    BY <2>2, <2>3, <2>4 DEF GapFrom
<1>10. Increasing(starts, BareStarts(span, covered)) /\ DOMAIN gaps = DOMAIN starts
       /\ \A i \in DOMAIN starts : GapFrom(gaps[i], starts[i], BareIn(span, covered))
  BY <1>5, <1>8, <1>9 DEF bare, first
<1> QED
  BY <1>7, <1>10 DEF GapsOf

\* The k-th gap that a task is about, as a block.
GapOf == IF Task.parent = 1 THEN 0 ELSE blocks[Task.parent].id.n + 1
GapEntry(b, gaps, k) ==
    /\ b.type = "code_block" /\ b.parent = Task.parent /\ b.id = [name |-> "gap", of |-> GapOf, n |-> k - 1]
    /\ b.order = GapBase(Task.parent) + k - 1 /\ b.text = TextOf(gaps[k]) /\ b.units = InSpan(gaps[k])

Emits(new, full, gaps) ==
    /\ new \in Seq(Block) /\ Increasing(full, {k \in DOMAIN gaps : InSpan(gaps[k]) # {}})
    /\ Len(new) = Len(full) /\ blocks' = blocks \o new
    /\ \A j \in 1..Len(new) : full[j] \in Nat \ {0} /\ full[j] \in DOMAIN gaps /\ GapEntry(new[j], gaps, full[j])

LEMMA EmitsGaps ==
    ASSUME Forest(blocks), Counting, FileInv, format = "code",
           Task.parent \in 1..Len(blocks), Task.span \in Nat \X Nat, EmitGaps
    PROVE  \E new, full : Emits(new, full, Gaps(Task.span, Task.covered))
<1> DEFINE G == Gaps(Task.span, Task.covered)
           Gap(i) == NewBlock("code_block", [name |-> "gap", of |-> GapOf, n |-> i - 1], Task.parent,
                              GapBase(Task.parent) + i - 1, TextOf(G[i]), InSpan(G[i]))
           Full == InOrderOf({i \in DOMAIN G : InSpan(G[i]) # {}}, <)
<1>1. blocks' = blocks \o [i \in DOMAIN Full |-> Gap(Full[i])]
  BY DEF EmitGaps, GapOf
<1>2. PICK gaps : gaps = G
  OBVIOUS
<1>3. PICK starts : /\ Increasing(starts, BareStarts(Task.span, Task.covered)) /\ DOMAIN gaps = DOMAIN starts
                    /\ \A i \in DOMAIN starts : GapFrom(gaps[i], starts[i], BareIn(Task.span, Task.covered))
  BY <1>2, GapsAre DEF GapsOf
<1>4. PICK m \in Nat : DOMAIN gaps = 1..m /\ \A i \in 1..m : starts[i] \in BareStarts(Task.span, Task.covered)
  BY <1>3 DEF Increasing
<1>5. \A i \in 1..m : gaps[i][1] \in Nat /\ gaps[i][2] \in Nat
  <2> TAKE i \in 1..m
  <2>1. starts[i] \in BareIn(Task.span, Task.covered)
    BY <1>4 DEF BareStarts
  <2>2. starts[i] \in Nat
    <3>1. PICK a \in Nat, b \in Nat : a = Task.span[1] /\ b = Task.span[2]
      OBVIOUS
    <3>2. starts[i] \in a..b
      BY <2>1, <3>1 DEF BareIn
    <3> QED
      BY <3>2
  <2>3. GapFrom(gaps[i], starts[i], BareIn(Task.span, Task.covered))
    BY <1>3, <1>4
  <2> QED
    BY <2>2, <2>3 DEF GapFrom
<1> DEFINE T == {k \in DOMAIN gaps : InSpan(gaps[k]) # {}}
<1>6. PICK full : full = InOrderOf(T, <) /\ Increasing(full, T)
  <2>1. T \subseteq 1..m
    BY <1>4
  <2>2. IsFiniteSet(T) /\ T \in SUBSET Int
    <3> HIDE DEF T
    <3>0. 1 \in Int /\ m \in Int
      OBVIOUS
    <3>1. IsFiniteSet(1..m)
      BY <3>0, FS_Interval
    <3>2. IsFiniteSet(T)
      BY <2>1, <3>1, FS_Subset
    <3>3. T \in SUBSET Int
      BY <2>1
    <3> QED
      BY <3>2, <3>3
  <2> HIDE DEF T
  <2> QED
    BY <2>2, NumbersInOrder
<1>7. PICK new : new = [i \in DOMAIN full |-> Gap(full[i])]
  OBVIOUS
<1>8. blocks' = blocks \o new
  BY <1>1, <1>2, <1>6, <1>7
<1>9. PICK l \in Nat : l = Len(full) /\ DOMAIN full = 1..l /\ \A j \in 1..l : full[j] \in T
  BY <1>6 DEF Increasing
<1>10. GapOf \in Nat
  <2>1. blocks[Task.parent] \in Block
    BY ForestTyped
  <2>2. blocks[Task.parent].id.n \in Nat
    BY <2>1 DEF Block, Id
  <2> QED
    BY <2>2 DEF GapOf
<1>11. PICK base \in Nat : base = GapBase(Task.parent)
  BY Kinds DEF GapBase, Order, Counting
<1>12. Task.parent \in Nat
  BY ForestTyped
<1>13. ASSUME NEW j \in 1..l
       PROVE  /\ full[j] \in Nat \ {0} /\ full[j] \in DOMAIN gaps
              /\ new[j] \in Block /\ GapEntry(new[j], gaps, full[j])
  <2>1. PICK k \in 1..m : k = full[j]
    BY <1>4, <1>9
  <2>2. PICK id \in Id : id = [name |-> "gap", of |-> GapOf, n |-> k - 1]
    <3>1. k - 1 \in Nat /\ "gap" \in IdName
      BY Kinds
    <3> QED
      BY <1>10, <3>1 DEF Id
  <2>3. TextOf(gaps[k]) \in Text
    <3>1. gaps[k][1] \in Nat /\ gaps[k][2] \in Int
      BY <1>5
    <3> QED
      BY <3>1, TextOfTyped
  <2>4. InSpan(gaps[k]) \in SUBSET Nat
    <3>1. gaps[k][1] \in Nat /\ gaps[k][2] \in Nat
      BY <1>5
    <3> QED
      BY <3>1 DEF InSpan
  <2>5. base + k - 1 \in Nat /\ "code_block" \in ParentTypes \cup ChildTypes
    BY Kinds
  <2>6. PICK b \in Block : /\ b = NewBlock("code_block", id, Task.parent, base + k - 1, TextOf(gaps[k]), InSpan(gaps[k]))
                           /\ b.type = "code_block" /\ b.id = id /\ b.parent = Task.parent /\ b.order = base + k - 1
                           /\ b.text = TextOf(gaps[k]) /\ b.units = InSpan(gaps[k])
    BY <1>12, <2>3, <2>4, <2>5, BlockIs
  <2>7. new[j] = b
    <3>1. new[j] = Gap(full[j])
      BY <1>7, <1>9
    <3> QED
      BY <1>2, <1>11, <2>1, <2>2, <2>6, <3>1
  <2>8. GapEntry(b, gaps, k)
    BY <1>11, <2>2, <2>6 DEF GapEntry
  <2> QED
    BY <1>4, <2>1, <2>6, <2>7, <2>8
<1>14. new \in Seq(Block) /\ Len(new) = l
  <2>1. new = [j \in 1..l |-> new[j]]
    BY <1>7, <1>9
  <2>2. new \in [1..l -> Block]
    BY <1>13, <2>1
  <2> QED
    BY <2>2, FunctionSeq
<1>15. Emits(new, full, gaps)
  BY <1>6, <1>8, <1>9, <1>13, <1>14 DEF Emits
<1> QED
  BY <1>2, <1>15

\* A window of a file without symbols, as a block.
WindowAt(k) == {p \in InSpan(WholeFile) : Cardinality(LineEnds(<<1, p - 1>>)) \div WindowSize = k}
WindowEntry(b, k) ==
    /\ b.type = "code_symbol" /\ b.parent = 1 /\ b.id = Named("win", k) /\ b.order = k
    /\ b.text = TextOf(<<Min(WindowAt(k)), Max(WindowAt(k))>>) /\ b.units = WindowAt(k)

EmitsWindows(new, full) ==
    /\ new \in Seq(Block) /\ Increasing(full, {k \in 0..Len(source.units) : WindowAt(k) # {}})
    /\ Len(new) = Len(full) /\ blocks' = <<ModuleBlock>> \o new
    /\ \A j \in 1..Len(new) : full[j] \in Nat /\ WindowEntry(new[j], full[j])

LEMMA WindowsEmitted ==
    ASSUME FileInv, format = "code", EmitWindows
    PROVE  \E new, full : EmitsWindows(new, full)
<1>1. PICK N \in Nat : N = Len(source.units)
  BY SymbolsAre
<1> DEFINE T == {k \in 0..Len(source.units) : WindowAt(k) # {}}
           Window(k) == NewBlock("code_symbol", Named("win", k), 1, k,
                                 TextOf(<<Min(WindowAt(k)), Max(WindowAt(k))>>), WindowAt(k))
           Full == InOrderOf(T, <)
<1>2. blocks' = <<ModuleBlock>> \o [i \in DOMAIN Full |-> Window(Full[i])]
  BY DEF EmitWindows, WindowAt
<1>3. PICK full : full = Full /\ Increasing(full, T)
  <2>1. T \subseteq 0..N
    BY <1>1
  <2> HIDE DEF T
  <2>0. 0 \in Int /\ N \in Int
    OBVIOUS
  <2>2. IsFiniteSet(0..N)
    BY <2>0, FS_Interval
  <2>3. IsFiniteSet(T)
    BY <2>1, <2>2, FS_Subset
  <2>4. T \in SUBSET Int
    BY <2>1
  <2> QED
    BY <2>3, <2>4, NumbersInOrder
<1>4. PICK new : new = [i \in DOMAIN full |-> Window(full[i])] /\ blocks' = <<ModuleBlock>> \o new
  BY <1>2, <1>3
<1>5. PICK l \in Nat : l = Len(full) /\ DOMAIN full = 1..l /\ \A j \in 1..l : full[j] \in T
  BY <1>3 DEF Increasing
<1>6. ASSUME NEW j \in 1..l PROVE full[j] \in Nat /\ new[j] \in Block /\ WindowEntry(new[j], full[j])
  <2>1. PICK k \in Nat : k = full[j] /\ WindowAt(k) # {}
    BY <1>1, <1>5
  <2>2. WindowAt(k) \subseteq 1..N
    BY <1>1 DEF WindowAt, InSpan, WholeFile
  <2>3. PICK s : s = <<Min(WindowAt(k)), Max(WindowAt(k))>> /\ s[1] \in Nat /\ s[2] \in Nat
    <3>1. 1 \in Nat /\ N \in Int
      OBVIOUS
    <3>2. PICK lo \in Nat, hi \in Nat : lo = Min(WindowAt(k)) /\ hi = Max(WindowAt(k))
      BY <2>1, <2>2, <3>1, Edges
    <3>3. <<lo, hi>> = <<Min(WindowAt(k)), Max(WindowAt(k))>> /\ <<lo, hi>>[1] \in Nat /\ <<lo, hi>>[2] \in Nat
      BY <3>2
    <3> QED
      BY <3>3
  <2>4. TextOf(s) \in Text
    BY <2>3, TextOfTyped
  <2>5. WindowAt(k) \in SUBSET Nat /\ Named("win", k) \in Id /\ "code_symbol" \in ParentTypes \cup ChildTypes
    BY <2>2, NamedTyped, Kinds
  <2>6. PICK b \in Block : /\ b = NewBlock("code_symbol", Named("win", k), 1, k, TextOf(s), WindowAt(k))
                           /\ b.type = "code_symbol" /\ b.id = Named("win", k) /\ b.parent = 1 /\ b.order = k
                           /\ b.text = TextOf(s) /\ b.units = WindowAt(k)
    BY <2>4, <2>5, BlockIs
  <2>7. new[j] = b
    <3>1. new[j] = Window(full[j])
      BY <1>4, <1>5
    <3> QED
      BY <2>1, <2>3, <2>6, <3>1
  <2>8. WindowEntry(b, k)
    BY <2>3, <2>6 DEF WindowEntry
  <2> QED
    BY <2>1, <2>6, <2>7, <2>8
<1>7. new \in Seq(Block) /\ Len(new) = l
  <2>1. new = [j \in 1..l |-> new[j]]
    BY <1>4, <1>5
  <2>2. new \in [1..l -> Block]
    BY <1>6, <2>1
  <2> QED
    BY <2>2, FunctionSeq
<1>8. EmitsWindows(new, full)
  BY <1>3, <1>4, <1>5, <1>6, <1>7 DEF EmitsWindows
<1> QED
  BY <1>8

LEMMA ModuleIs ==
    /\ ModuleBlock \in Block /\ ModuleBlock.type = "module" /\ ModuleBlock.parent = 0
    /\ ModuleBlock.id = Named("module", 0) /\ ModuleBlock.order = 0 /\ ModuleBlock.text = NoText
    /\ ModuleBlock.units = {}
    /\ Forest(<<ModuleBlock>>) /\ Len(<<ModuleBlock>>) = 1 /\ <<ModuleBlock>>[1] = ModuleBlock
<1>1. PICK b \in Block : /\ b = NewBlock("module", Named("module", 0), 0, 0, NoText, {})
                         /\ b.type = "module" /\ b.id = Named("module", 0) /\ b.parent = 0 /\ b.order = 0
                         /\ b.text = NoText /\ b.units = {}
  <2>1. "module" \in ParentTypes \cup ChildTypes /\ Named("module", 0) \in Id /\ 0 \in Nat /\ {} \in SUBSET Nat
    BY Kinds, NamedTyped
  <2> QED
    BY <2>1, NoTextTyped, BlockIs
<1>2. ModuleBlock = b
  BY <1>1 DEF ModuleBlock
<1>3. <<b>> \in Seq(Block) /\ Len(<<b>>) = 1 /\ <<b>>[1] = b
  OBVIOUS
<1>4. Forest(<<b>>)
  BY <1>1, <1>3 DEF Forest
<1> QED
  BY <1>1, <1>2, <1>3, <1>4

LEMMA BeginTyped ==
    ASSUME TypeInv, BeginModule, UNCHANGED <<markdown, pdf>>, UNCHANGED chunks
    PROVE  TypeInv'
<1>1. format = "code" /\ phase = "parse" /\ UNCHANGED <<file, read, stack>> /\ counters' = counters /\ phase' = phase
      /\ blocks = <<>> /\ blocks' = <<ModuleBlock>> /\ FileInv
  BY DEF BeginModule, Parses, TypeInv
<1>2. Forest(blocks') /\ Extends(blocks, blocks') /\ counters' \in [Counter -> Nat]
      /\ 1 \in 1..Len(blocks') /\ blocks'[1].type \in ParentTypes
  BY <1>1, ModuleIs, Kinds DEF Extends, TypeInv, Counting
<1>3. PICK roots : roots = ChildSymbols(Outside) /\ roots \subseteq source.symbols
  BY <1>1, ChildSymbolsTyped
<1>4. todo' = SymbolTasks(roots, 1) \o GapTask(WholeFile, roots, 1)
  BY <1>3 DEF BeginModule
<1>5. Todo(SymbolTasks(roots, 1), blocks', source.symbols)
  BY <1>1, <1>2, <1>3, SymbolTasksTyped
<1>6. WholeFile \in Nat \X Nat
  BY <1>1, SymbolsAre DEF WholeFile
<1>7. Todo(GapTask(WholeFile, roots, 1), blocks', source.symbols)
  BY <1>2, <1>3, <1>6, GapTaskTyped
<1>8. Todo(todo', blocks', source.symbols)
  BY <1>4, <1>5, <1>7, TodoJoins
<1> QED
  BY <1>1, <1>2, <1>8, CodeKeeps

LEMMA InSpanIs == ASSUME NEW s, s[1] \in Nat, s[2] \in Int PROVE InSpan(s) \in SUBSET Nat
<1>1. PICK a \in Nat, b \in Int : a = s[1] /\ b = s[2]
  OBVIOUS
<1>2. a..b \subseteq Nat
  OBVIOUS
<1> QED
  BY <1>1, <1>2 DEF InSpan

\* The block of a symbol: its own text, or its first line if it has others in it.
LEMMA SymbolAdds ==
    ASSUME TypeInv, format = "code", todo # <<>>, Task.task = "symbol",
           NEW type \in {"code_symbol", "code_container"}, NEW span, span[1] \in Nat, span[2] \in Int,
           blocks' = Append(blocks, NewBlock(type, Named("sym", Order), Task.parent, Order, TextOf(span), InSpan(span)))
    PROVE  /\ Forest(blocks') /\ Extends(blocks, blocks') /\ Len(blocks') = Len(blocks) + 1
           /\ blocks'[Len(blocks) + 1].type = type /\ Len(blocks) + 1 \in 1..Len(blocks')
           /\ blocks'[Len(blocks) + 1].parent = Task.parent /\ blocks'[Len(blocks) + 1].order = Order
           /\ blocks'[Len(blocks) + 1].id = Named("sym", Order)
           /\ blocks'[Len(blocks) + 1].text = TextOf(span) /\ blocks'[Len(blocks) + 1].units = InSpan(span)
<1>1. Forest(blocks) /\ Todo(todo, blocks, source.symbols) /\ Counting
  BY DEF TypeInv
<1>2. Task.parent \in Nat /\ Root(blocks, Task.parent)
  BY <1>1, TaskIs
<1>3. Order \in Nat
  BY <1>1, Kinds DEF Order, Counting
<1>4. Named("sym", Order) \in Id /\ type \in ParentTypes \cup ChildTypes
  BY <1>3, NamedTyped, Kinds
<1>5. PICK b \in Block : /\ b = NewBlock(type, Named("sym", Order), Task.parent, Order, TextOf(span), InSpan(span))
                         /\ b.type = type /\ b.id = Named("sym", Order) /\ b.parent = Task.parent /\ b.order = Order
                         /\ b.text = TextOf(span) /\ b.units = InSpan(span)
  BY <1>2, <1>3, <1>4, TextOfTyped, InSpanIs, BlockIs
<1>6. blocks' = Append(blocks, b)
  BY <1>5
<1>7. Forest(Append(blocks, b)) /\ Extends(blocks, Append(blocks, b))
      /\ Len(Append(blocks, b)) = Len(blocks) + 1 /\ Append(blocks, b)[Len(blocks) + 1] = b
  BY <1>1, <1>2, <1>5, AppendGrows
<1>8. Len(blocks) \in Nat
  BY <1>1, ForestTyped
<1> QED
  BY <1>5, <1>6, <1>7, <1>8

LEMMA SymbolTyped ==
    ASSUME TypeInv, EmitSymbol \/ EmitContainer, UNCHANGED <<markdown, pdf>>, UNCHANGED chunks
    PROVE  TypeInv'
<1>1. /\ format = "code" /\ phase = "parse" /\ UNCHANGED <<file, read, stack>> /\ phase' = phase
      /\ todo # <<>> /\ Task.task = "symbol" /\ counters' = Counted("symbol") /\ FileInv /\ Counting
      /\ Forest(blocks) /\ Todo(todo, blocks, source.symbols)
  BY DEF EmitSymbol, EmitContainer, Performs, Parses, TypeInv
<1>2. counters' \in [Counter -> Nat]
  BY <1>1, CountedTyped, Kinds
<1>3. PICK s \in source.symbols : s = Task.span
  BY <1>1, TaskIs
<1>4. s[1] \in Nat /\ s[2] \in Nat /\ s[2] \in Int
  <2>1. s[1] \in Nat /\ s[2] \in Nat
    BY <1>1, SymbolsAre
  <2> QED
    BY <2>1
<1>5. Todo(Tail(todo), blocks, source.symbols)
  BY <1>1, TaskIs
<1>6. CASE EmitSymbol
  <2>1. blocks' = Append(blocks, NewBlock("code_symbol", Named("sym", Order), Task.parent, Order, TextOf(s), InSpan(s)))
    BY <1>3, <1>6 DEF EmitSymbol
  <2>2. Forest(blocks') /\ Extends(blocks, blocks')
    BY <1>1, <1>4, <2>1, SymbolAdds
  <2>3. Todo(todo', blocks', source.symbols)
    BY <1>1, <1>5, <1>6, <2>2, TodoStays DEF EmitSymbol
  <2> QED
    BY <1>1, <1>2, <2>2, <2>3, CodeKeeps
<1>7. CASE EmitContainer
  <2>1. PICK header : header = Header(s) /\ header[1] \in Nat /\ header[2] \in Int
                      /\ <<header[2] + 1, s[2]>> \in Nat \X Nat
    BY <1>1, <1>4, HeaderIs
  <2>2. PICK own : own = Len(blocks) + 1
    OBVIOUS
  <2>3. PICK inner : inner = ChildSymbols(s) /\ inner \subseteq source.symbols
    BY <1>1, ChildSymbolsTyped
  <2>4. blocks' = Append(blocks, NewBlock("code_container", Named("sym", Order), Task.parent, Order, TextOf(header), InSpan(header)))
    BY <1>3, <1>7, <2>1 DEF EmitContainer
  <2>5. /\ Forest(blocks') /\ Extends(blocks, blocks') /\ own \in 1..Len(blocks')
        /\ blocks'[own].type = "code_container"
    BY <1>1, <2>1, <2>2, <2>4, SymbolAdds
  <2>6. blocks'[own].type \in ParentTypes
    BY <2>5, Kinds
  <2>7. todo' = SymbolTasks(inner, own) \o GapTask(<<header[2] + 1, s[2]>>, inner, own) \o Tail(todo)
    BY <1>3, <1>7, <2>1, <2>2, <2>3 DEF EmitContainer
  <2>8. Todo(SymbolTasks(inner, own), blocks', source.symbols)
    BY <1>1, <2>3, <2>5, <2>6, SymbolTasksTyped
  <2>9. Todo(GapTask(<<header[2] + 1, s[2]>>, inner, own), blocks', source.symbols)
    BY <2>1, <2>3, <2>5, <2>6, GapTaskTyped
  <2>10. Todo(Tail(todo), blocks', source.symbols)
    BY <1>1, <1>5, <2>5, TodoStays
  <2>11. Todo(todo', blocks', source.symbols)
    BY <2>7, <2>8, <2>9, <2>10, TodoJoins
  <2> QED
    BY <1>1, <1>2, <2>5, <2>11, CodeKeeps
<1> QED
  BY <1>6, <1>7

LEMMA GapsTyped ==
    ASSUME TypeInv, EmitGaps, UNCHANGED <<markdown, pdf>>, UNCHANGED chunks
    PROVE  TypeInv'
<1>1. /\ format = "code" /\ phase = "parse" /\ UNCHANGED <<file, read, stack>> /\ phase' = phase
      /\ todo # <<>> /\ Task.task = "gaps" /\ counters' = counters /\ todo' = Tail(todo) /\ FileInv /\ Counting
      /\ Forest(blocks) /\ Todo(todo, blocks, source.symbols)
  BY DEF EmitGaps, Performs, Parses, TypeInv
<1>2. /\ Task.parent \in 1..Len(blocks) /\ Task.span \in Nat \X Nat /\ Root(blocks, Task.parent)
      /\ Todo(Tail(todo), blocks, source.symbols)
  BY <1>1, TaskIs
<1>3. PICK new, full : Emits(new, full, Gaps(Task.span, Task.covered))
  BY <1>1, <1>2, EmitsGaps
<1>4. new \in Seq(Block) /\ blocks' = blocks \o new /\ \A j \in 1..Len(new) : Root(blocks, new[j].parent)
  BY <1>2, <1>3 DEF Emits, GapEntry
<1>5. Forest(blocks') /\ Extends(blocks, blocks')
  BY <1>1, <1>4, ConcatGrows
<1>6. Todo(todo', blocks', source.symbols)
  BY <1>1, <1>2, <1>5, TodoStays
<1>7. counters' \in [Counter -> Nat] /\ phase' \in {"parse", "chunk"}
  BY <1>1 DEF Counting
<1> QED
  BY <1>1, <1>5, <1>6, <1>7, CodeKeeps, SMTT(30)

LEMMA EmitWindowsTyped ==
    ASSUME TypeInv, EmitWindows, UNCHANGED <<markdown, pdf>>, UNCHANGED chunks
    PROVE  TypeInv'
<1>1. /\ format = "code" /\ phase = "parse" /\ UNCHANGED <<file, read, stack>> /\ phase' = "chunk"
      /\ counters' = counters /\ todo' = todo /\ FileInv /\ blocks = <<>> /\ Forest(blocks)
      /\ Todo(todo, blocks, source.symbols)
  BY DEF EmitWindows, Parses, TypeInv
<1>2. PICK new, full : EmitsWindows(new, full)
  BY <1>1, WindowsEmitted
<1>3. Root(<<ModuleBlock>>, 1)
  BY ModuleIs, Kinds DEF Root
<1>4. new \in Seq(Block) /\ blocks' = <<ModuleBlock>> \o new
      /\ \A j \in 1..Len(new) : Root(<<ModuleBlock>>, new[j].parent)
  BY <1>2, <1>3 DEF EmitsWindows, WindowEntry
<1>5. Forest(blocks')
  BY <1>4, ModuleIs, ConcatGrows
<1>6. Extends(blocks, blocks')
  <2>1. Len(blocks) = 0 /\ Len(blocks') \in Nat
    BY <1>1, <1>5, ForestTyped
  <2> QED
    BY <2>1 DEF Extends
<1>7. Todo(todo', blocks', source.symbols)
  BY <1>1, <1>5, <1>6, TodoStays
<1>8. counters' \in [Counter -> Nat] /\ phase' \in {"parse", "chunk"}
  BY <1>1 DEF TypeInv, Counting
<1> QED
  BY <1>1, <1>5, <1>6, <1>7, <1>8, CodeKeeps

LEMMA CodeTyped ==
    ASSUME TypeInv, CodeStep, UNCHANGED <<markdown, pdf>>, UNCHANGED chunks
    PROVE  TypeInv'
<1>1. CASE CodeEnd
  <2>1. /\ format = "code" /\ phase = "parse" /\ UNCHANGED <<file, read, stack>> /\ phase' = "chunk"
        /\ blocks' = blocks /\ counters' = counters /\ todo' = todo /\ Forest(blocks)
        /\ Todo(todo, blocks, source.symbols)
    BY <1>1 DEF CodeEnd, Parses, TypeInv
  <2>2. Forest(blocks') /\ counters' \in [Counter -> Nat] /\ Todo(todo', blocks', source.symbols)
    BY <2>1 DEF TypeInv, Counting
  <2>3. Extends(blocks, blocks')
    BY <2>1, ForestTyped DEF Extends
  <2> QED
    BY <2>1, <2>2, <2>3, CodeKeeps
<1>2. CASE BeginModule
  BY <1>2, BeginTyped
<1>3. CASE EmitSymbol \/ EmitContainer
  BY <1>3, SymbolTyped
<1>4. CASE EmitGaps
  BY <1>4, GapsTyped
<1>5. CASE EmitWindows
  BY <1>5, EmitWindowsTyped
<1> QED
  BY <1>1, <1>2, <1>3, <1>4, <1>5 DEF CodeStep

----------------------------------------------------------------------------
(* The chunker.                                                            *)

\* What the chunker makes of the blocks depends on nothing else.
LEMMA SameBlocks ==
    ASSUME blocks' = blocks
    PROVE  /\ Leaves' = Leaves /\ OwningParents' = OwningParents
           /\ \A i : NearestParent(i)' = NearestParent(i)
           /\ \A i : OwnedLeaves(i)' = OwnedLeaves(i)
<1>1. Leaves' = Leaves
  BY DEF Leaves
<1>2. \A i : NearestParent(i)' = NearestParent(i)
  BY DEF NearestParent, IsParentType
<1>3. OwningParents' = OwningParents
  BY <1>1, <1>2 DEF OwningParents
<1>4. \A i : OwnedLeaves(i)' = OwnedLeaves(i)
  BY DEF OwnedLeaves, ByOrder, InOrderOf, Leaves, IsParentType
<1> QED
  BY <1>1, <1>2, <1>3, <1>4

LEMMA SameParents ==
    ASSUME blocks' = blocks, format' = format
    PROVE  ParentChunks(config.parent)' = ParentChunks(config'.parent)
BY DEF ParentChunks, ParentChunk, Kept, Budget, Marker, Synthetic, Size, Glue, Starts, Assembled, InFileOrder, InOrderOf,
       OwnedLeaves, ByOrder, Leaves, IsParentType, OwningParents, NearestParent

LEMMA SameChildren ==
    ASSUME UNCHANGED <<blocks, chunks>>
    PROVE  AllChildren' = AllChildren
BY DEF chunks, AllChildren, Emitted, ChildrenOf, Trimmed, Spaces, ParentOf, InFileOrder, InOrderOf, Leaves, IsParentType,
       NearestParent

LEMMA ChildrenAre ==
    ASSUME ChunkDocument
    PROVE  children' = AllChildren'
<1>1. blocks' = blocks
  BY DEF ChunkDocument
<1>2. children' = FlattenSeq([n \in 1..Cardinality(Leaves) |-> ChildrenOf(InFileOrder(Leaves)[n], Emitted', config')])
  BY DEF ChunkDocument, Emitted
<1>3. FlattenSeq([n \in 1..Cardinality(Leaves) |-> ChildrenOf(InFileOrder(Leaves)[n], Emitted', config')]) = AllChildren'
  BY <1>1 DEF AllChildren, ChildrenOf, Trimmed, Spaces, ParentOf, InFileOrder, InOrderOf, Leaves, IsParentType,
              NearestParent
<1> QED
  BY <1>2, <1>3

LEMMA ChunkTyped ==
    ASSUME TypeInv, Chunk
    PROVE  TypeInv'
<1>1. /\ phase = "chunk" /\ phase' = "done" /\ config' \in Config /\ parents' = ParentChunks(config'.parent)
      /\ UNCHANGED <<file, read, blocks, stack, counters>> /\ UNCHANGED <<markdown, pdf, todo>>
  BY DEF Chunk, ChunkDocument
<1>2. parents' = ParentChunks(config.parent)' /\ children' = AllChildren'
  BY <1>1, SameParents, ChildrenAre DEF Chunk, file
<1>3. ChunksInv'
  BY <1>1, <1>2 DEF ChunksInv
<1>4. FileInv' /\ MarkdownInv' /\ Rooted'
  BY <1>1 DEF TypeInv, FileInv, MarkdownInv, Rooted, file, markdown
<1>5. Forest(blocks') /\ Open(stack', blocks', 1..6) /\ counters' \in [Counter -> Nat]
      /\ Pages(pages', blocks') /\ Stacks(sections', blocks')
  BY <1>1 DEF TypeInv, Counting, pdf
<1>6. (format # "code" => todo = <<>>)' /\ (format = "code" => Todo(todo, blocks, source.symbols))'
  BY <1>1 DEF TypeInv, file
<1> QED
  BY <1>1, <1>3, <1>4, <1>5, <1>6 DEF TypeInv, Counting

LEMMA TypeInvStutters ==
    ASSUME TypeInv, UNCHANGED vars
    PROVE  TypeInv'
<1>1. UNCHANGED <<file, read, blocks, stack, counters, phase, markdown, pdf, todo, chunks>>
  BY DEF vars
<1>2. parents' = parents /\ children' = children /\ config' = config
  BY <1>1 DEF chunks
<1>3. ParentChunks(config.parent)' = ParentChunks(config.parent) /\ AllChildren' = AllChildren
  BY <1>1, <1>2, SameParents, SameChildren DEF file
<1>4. ChunksInv'
  BY <1>1, <1>2, <1>3 DEF TypeInv, ChunksInv
<1>5. FileInv' /\ MarkdownInv' /\ Rooted'
  BY <1>1 DEF TypeInv, FileInv, MarkdownInv, Rooted, file, markdown
<1>6. Forest(blocks') /\ Open(stack', blocks', 1..6) /\ counters' \in [Counter -> Nat]
      /\ Pages(pages', blocks') /\ Stacks(sections', blocks')
  BY <1>1 DEF TypeInv, Counting, pdf
<1>7. (format # "code" => todo = <<>>)' /\ (format = "code" => Todo(todo, blocks, source.symbols))'
  BY <1>1 DEF TypeInv, file
<1> QED
  BY <1>1, <1>4, <1>5, <1>6, <1>7 DEF TypeInv, Counting

LEMMA TypeInvBegins == Init => TypeInv
<1> SUFFICES ASSUME Init PROVE TypeInv
  OBVIOUS
<1>1. /\ \E f \in File : format = f.format /\ source = f.source
      /\ read = 0 /\ blocks = <<>> /\ stack = <<>> /\ counters = [c \in Counter |-> 0] /\ phase = "parse"
      /\ config = NoConfig /\ parents = <<>> /\ children = <<>> /\ todo = <<>>
  BY DEF Init, BlocksInit, CodeInit, ChunkerInit
<1>2. FileInv
  <2>1. PICK f \in File : format = f.format /\ source = f.source
    BY <1>1
  <2>2. format # "code" => Len(source) \in Nat
    <3>1. \/ f.format = "markdown" /\ f.source \in Source
          \/ f.format = "docx" /\ f.source \in DocxSource
          \/ f.format = "html" /\ f.source \in HtmlSource
          \/ f.format = "pptx" /\ f.source \in PptxSource
          \/ f.format = "records" /\ f.source \in RecordSource
          \/ f.format = "pdf" /\ f.source \in PdfSource
          \/ f.format = "code" /\ f.source \in CodeSource
      BY DEF File
    <3> QED
      BY <2>1, <3>1, LineAssumption, ElementAssumption, PdfAssumption
  <2> QED
    BY <1>1, <2>2 DEF FileInv
<1>3. Forest(blocks) /\ Open(stack, blocks, 1..6) /\ Counting
  BY <1>1 DEF Forest, Open, Counting
<1>4. MarkdownInv
  <2>1. inFence = FALSE /\ code = <<>>
    BY DEF Init, MarkdownInit
  <2>2. <<>> \in Seq(1..read)
    OBVIOUS
  <2> QED
    BY <2>1, <2>2 DEF MarkdownInv
<1>5. Pages(pages, blocks) /\ Stacks(sections, blocks)
  BY DEF Init, PdfInit, Empty, Pages, Stacks
<1>6. Todo(todo, blocks, source.symbols)
  BY <1>1 DEF Todo
<1>7. Rooted /\ ChunksInv
  BY <1>1 DEF Rooted, ChunksInv
<1> QED
  BY <1>1, <1>2, <1>3, <1>4, <1>5, <1>6, <1>7 DEF TypeInv

LEMMA TypeInvKept == TypeInv /\ [Next]_vars => TypeInv'
<1> SUFFICES ASSUME TypeInv, [Next]_vars PROVE TypeInv'
  OBVIOUS
<1>1. CASE MarkdownStep /\ UNCHANGED <<pdf, todo>> /\ UNCHANGED chunks
  BY <1>1, MarkdownTyped
<1>2. CASE OutlineStep /\ UNCHANGED <<markdown, pdf, todo>> /\ UNCHANGED chunks
  BY <1>2, OutlineTyped
<1>3. CASE PdfStep /\ UNCHANGED <<markdown, todo>> /\ UNCHANGED chunks
  BY <1>3, PdfTyped
<1>4. CASE CodeStep /\ UNCHANGED <<markdown, pdf>> /\ UNCHANGED chunks
  BY <1>4, CodeTyped
<1>5. CASE Chunk
  BY <1>5, ChunkTyped
<1>6. CASE UNCHANGED vars
  BY <1>6, TypeInvStutters
<1> QED
  BY <1>1, <1>2, <1>3, <1>4, <1>5, <1>6 DEF Next, Parse

LEMMA TypeInvHolds == Spec => []TypeInv
<1>1. Init => TypeInv
  BY TypeInvBegins
<1>2. TypeInv /\ [Next]_vars => TypeInv'
  BY TypeInvKept
<1> QED
  BY <1>1, <1>2, PTL DEF Spec

\* What FlattenSeq makes of sequences: the k-th begins behind off[k - 1].
Parts(flat, seqs, off) ==
    /\ off \in [0..Len(seqs) -> Nat] /\ off[0] = 0 /\ off[Len(seqs)] = Len(flat)
    /\ \A k \in 1..Len(seqs) :
           /\ off[k] = off[k - 1] + Len(seqs[k])
           /\ \A j \in 1..Len(seqs[k]) : flat[off[k - 1] + j] = seqs[k][j]

LEMMA Flattened ==
    ASSUME NEW S, NEW seqs \in Seq(Seq(S))
    PROVE  FlattenSeq(seqs) \in Seq(S) /\ \E off : Parts(FlattenSeq(seqs), seqs, off)
<1>1. PICK n \in Nat : n = Len(seqs)
  OBVIOUS
<1>2. \A k \in 1..n : seqs[k] \in Seq(S) /\ Len(seqs[k]) \in Nat
  BY <1>1
<1> DEFINE step == [p \in (1..n) \X Seq(S) |-> p[2] \o seqs[p[1]]]
<1>3. step \in [(1..n) \X Seq(S) -> Seq(S)]
  <2>1. \A p \in (1..n) \X Seq(S) : p[2] \o seqs[p[1]] \in Seq(S)
    BY <1>2
  <2> QED
    BY <2>1
<1>4. \A k \in 1..n, s \in Seq(S) : step[<<k, s>>] = s \o seqs[k]
  OBVIOUS
<1> HIDE DEF step
<1>5. <<>> \in Seq(S)
  OBVIOUS
<1>6. PICK f \in [0..n -> Seq(S)] : Iterates(f, <<>>, step, n)
  BY <1>3, <1>5, Recursion
<1>7. f[0] = <<>> /\ \A k \in 1..n : k - 1 \in 0..n /\ k \in 0..n /\ f[k] = f[k - 1] \o seqs[k]
  BY <1>1, <1>4, <1>6 DEF Iterates
<1>8. \A k \in 0..n : f[k] \in Seq(S) /\ Len(f[k]) \in Nat
  OBVIOUS
<1>9. \A k \in 1..n : Len(f[k]) = Len(f[k - 1]) + Len(seqs[k])
                      /\ (\A i \in 1..Len(f[k - 1]) : f[k][i] = f[k - 1][i])
                      /\ (\A j \in 1..Len(seqs[k]) : f[k][Len(f[k - 1]) + j] = seqs[k][j])
  <2> TAKE k \in 1..n
  <2>1. PICK s \in Seq(S), t \in Seq(S) : s = f[k - 1] /\ t = seqs[k] /\ f[k] = s \o t
    BY <1>2, <1>7, <1>8
  <2>2. PICK u : u = s \o t
    OBVIOUS
  <2>3. /\ Len(u) = Len(s) + Len(t) /\ (\A i \in 1..Len(s) : u[i] = s[i])
        /\ (\A j \in 1..Len(t) : u[Len(s) + j] = t[j])
    BY <2>2
  <2>4. f[k] = u /\ f[k - 1] = s /\ seqs[k] = t
    BY <2>1, <2>2
  <2> QED
    BY <2>3, <2>4, Zenon
<1>21. 1 \in 1..n => f[1] = seqs[1]
  <2> HAVE 1 \in 1..n
  <2>0. PICK o \in 1..n : o = 1
    OBVIOUS
  <2>1. f[o] = f[o - 1] \o seqs[o]
    BY <1>7
  <2>2. PICK t \in Seq(S) : t = seqs[o]
    BY <1>2
  <2>3. o - 1 = 0
    BY <2>0
  <2>4. f[o] = <<>> \o t
    BY <1>7, <2>1, <2>2, <2>3
  <2>5. <<>> \o t = t
    OBVIOUS
  <2> QED
    BY <2>0, <2>2, <2>4, <2>5
\* A later value has the earlier ones at its beginning.
<1> DEFINE Begins(k, l) == Len(f[k]) <= Len(f[l]) /\ \A i \in 1..Len(f[k]) : f[l][i] = f[k][i]
           Good == {l \in 0..n : \A k \in 0..l : Begins(k, l)}
<1>10. 0..n \subseteq Good
  <2>1. 0 \in Good
    <3>1. \A k \in 0..0 : k = 0
      OBVIOUS
    <3>2. Begins(0, 0)
      BY <1>8
    <3> QED
      BY <3>1, <3>2
  <2>2. ASSUME NEW l \in 1..n, l - 1 \in Good PROVE l \in Good
    <3>1. ASSUME NEW k \in 0..l PROVE Begins(k, l)
      <4>1. CASE k = l
        BY <1>8, <4>1
      <4>2. CASE k # l
        <5>1. k \in 0..l - 1
          BY <4>2
        <5>2. Begins(k, l - 1)
          BY <2>2, <5>1
        <5>3. PICK a \in Nat, b \in Nat, c \in Nat, d \in Nat :
                  a = Len(f[k]) /\ b = Len(f[l - 1]) /\ c = Len(f[l]) /\ d = Len(seqs[l])
          <6>1. k \in 0..n /\ l - 1 \in 0..n /\ l \in 0..n
            BY <1>7, <5>1
          <6> QED
            BY <1>2, <1>8, <6>1
        <5>4. a <= b /\ c = b + d
          BY <1>9, <5>2, <5>3
        <5>5. \A i \in 1..a : f[l][i] = f[k][i]
          <6> TAKE i \in 1..a
          <6>1. i \in 1..b
            BY <5>4
          <6> QED
            BY <1>9, <5>2, <5>3, <6>1
        <5>6. Len(f[k]) <= Len(f[l])
          <6>1. a <= c
            BY <5>4
          <6> QED
            BY <5>3, <6>1, Zenon
        <5>7. \A i \in 1..Len(f[k]) : f[l][i] = f[k][i]
          BY <5>3, <5>5
        <5> QED
          BY <5>6, <5>7
      <4> QED
        BY <4>1, <4>2
    <3> HIDE DEF Begins
    <3>2. l \in 0..n
      OBVIOUS
    <3> QED
      BY <3>1, <3>2
  <2> HIDE DEF Good
  <2> QED
    BY <2>1, <2>2, UpToInduct
<1>11. \A l \in 0..n : \A k \in 0..l : Begins(k, l)
  BY <1>10
<1> DEFINE off == [k \in 0..n |-> Len(f[k])]
<1>12. Parts(f[n], seqs, off)
  <2>1. off \in [0..n -> Nat] /\ off[0] = 0 /\ off[n] = Len(f[n])
    BY <1>7, <1>8
  <2>2. \A k \in 1..n : off[k - 1] = Len(f[k - 1]) /\ off[k] = Len(f[k])
    BY <1>7
  <2>3. \A k \in 1..n : off[k] = off[k - 1] + Len(seqs[k])
    BY <1>9, <2>2
  <2>4. ASSUME NEW k \in 1..n, NEW j \in 1..Len(seqs[k]) PROVE f[n][off[k - 1] + j] = seqs[k][j]
    <3>1. PICK b \in Nat, d \in Nat : b = Len(f[k - 1]) /\ d = Len(seqs[k]) /\ Len(f[k]) = b + d
      BY <1>2, <1>7, <1>8, <1>9
    <3>2. Begins(k, n)
      <4>1. n \in 0..n /\ k \in 0..n
        OBVIOUS
      <4> HIDE DEF Begins
      <4> QED
        BY <1>11, <4>1
    <3>4. b + j \in 1..Len(f[k])
      <4>1. j \in 1..d
        BY <3>1
      <4>2. b + j \in 1..b + d
        BY <4>1
      <4> QED
        BY <3>1, <4>2, Zenon
    <3>3. f[n][b + j] = f[k][b + j]
      BY <3>2, <3>4
    <3> QED
      BY <1>9, <2>2, <3>1, <3>3
  <2> HIDE DEF off
  <2> QED
    BY <1>1, <2>1, <2>3, <2>4 DEF Parts
\* FlattenSeq is this.
<1> DEFINE Flat(g) == g = [i \in 1..n |-> IF i = 1 THEN seqs[i] ELSE g[i - 1] \o seqs[i]]
<1>13. \E g : Flat(g)
  <2> DEFINE g == [i \in 1..n |-> f[i]]
  <2>1. ASSUME NEW i \in 1..n PROVE f[i] = IF i = 1 THEN seqs[i] ELSE g[i - 1] \o seqs[i]
    <3>1. CASE i = 1
      <4>1. f[1] = seqs[1]
        BY <1>21, <3>1
      <4> QED
        BY <3>1, <4>1
    <3>2. CASE i # 1
      <4>1. i - 1 \in 1..n
        BY <3>2
      <4> QED
        BY <1>7, <3>2, <4>1
    <3> QED
      BY <3>1, <3>2
  <2>2. Flat(g)
    BY <2>1
  <2> QED
    BY <2>2
<1>14. PICK g : g = CHOOSE h : Flat(h)
  OBVIOUS
<1>15. g = [i \in 1..n |-> IF i = 1 THEN seqs[i] ELSE g[i - 1] \o seqs[i]]
  BY <1>13, <1>14
<1>16. FlattenSeq(seqs) = IF n = 0 THEN seqs ELSE g[n]
  BY <1>1, <1>14 DEF FlattenSeq
<1> HIDE DEF Flat
<1>17. \A i \in 1..n : g[i] = IF i = 1 THEN seqs[i] ELSE g[i - 1] \o seqs[i]
  BY <1>15
<1> DEFINE Same == {i \in 0..n : i # 0 => g[i] = f[i]}
<1>18. 0..n \subseteq Same
  <2>1. 0 \in Same
    OBVIOUS
  <2>2. ASSUME NEW i \in 1..n, i - 1 \in Same PROVE i \in Same
    <3>1. CASE i = 1
      <4>1. f[1] = seqs[1] /\ g[1] = seqs[1]
        BY <1>17, <1>21, <3>1
      <4> QED
        BY <3>1, <4>1
    <3>2. CASE i # 1
      <4>0. i - 1 # 0 /\ i \in 0..n
        BY <3>2
      <4>1. g[i - 1] = f[i - 1]
        BY <2>2, <4>0
      <4>2. g[i] = g[i - 1] \o seqs[i]
        BY <1>17, <3>2
      <4>3. f[i] = f[i - 1] \o seqs[i]
        BY <1>7
      <4> QED
        BY <4>0, <4>1, <4>2, <4>3
    <3> QED
      BY <3>1, <3>2
  <2> HIDE DEF Same
  <2> QED
    BY <2>1, <2>2, UpToInduct
<1>19. FlattenSeq(seqs) = f[n]
  <2>1. CASE n = 0
    <3>1. seqs = <<>>
      BY <1>1, <2>1, EmptySeq
    <3> QED
      BY <1>7, <1>16, <2>1, <3>1
  <2>2. CASE n # 0
    BY <1>16, <1>18, <2>2
  <2> QED
    BY <2>1, <2>2
<1> QED
  BY <1>8, <1>12, <1>19

\* Blocks hang below blocks that may have others, so the way up from a leaf and
\* the way down from a parent are one step long.
LEMMA LeavesAre ==
    ASSUME Forest(blocks)
    PROVE  /\ Leaves \subseteq 1..Len(blocks) /\ IsFiniteSet(Leaves) /\ Cardinality(Leaves) \in Nat
           /\ \A i \in Leaves : i \in 1..Len(blocks) /\ ~ IsParentType(i) /\ blocks[i].text.len > 0
           /\ \A i \in 1..Len(blocks) : ~ IsParentType(i) => blocks[i].type \in ChildTypes
<1>1. PICK m \in Nat : m = Len(blocks) /\ DOMAIN blocks = 1..m
  BY ForestTyped
<1>2. Leaves \subseteq 1..m
  BY <1>1 DEF Leaves
<1>3. 1 \in Int /\ m \in Int
  OBVIOUS
<1>4. IsFiniteSet(1..m)
  BY <1>3, FS_Interval
<1>5. IsFiniteSet(Leaves) /\ Cardinality(Leaves) \in Nat
  BY <1>2, <1>4, FS_Subset, FS_CardinalityType
<1>6. \A i \in Leaves : ~ IsParentType(i) /\ blocks[i].text.len > 0
  BY Kinds DEF Leaves, IsParentType
<1>7. \A i \in 1..m : blocks[i].type \in ParentTypes \cup ChildTypes
  BY <1>1, ForestTyped DEF Block
<1> QED
  BY <1>1, <1>2, <1>5, <1>6, <1>7 DEF IsParentType

LEMMA NearestIs ==
    ASSUME Forest(blocks), NEW i \in 1..Len(blocks)
    PROVE  NearestParent(i) = blocks[i].parent
<1>1. PICK m \in Nat : m = Len(blocks)
  BY ForestTyped
<1> DEFINE Up(f) == f = [b \in 0..m |-> IF b = 0 \/ IsParentType(b) THEN b ELSE f[blocks[b].parent]]
<1>2. ASSUME NEW p \in 1..m PROVE blocks[p].parent \in 0..m /\ (blocks[p].parent = 0 \/ IsParentType(blocks[p].parent))
  BY <1>1, ForestTyped DEF Root, IsParentType
<1>3. \E f : Up(f)
  <2> DEFINE g == [b \in 0..m |-> IF b = 0 \/ IsParentType(b) THEN b ELSE blocks[b].parent]
  <2>1. ASSUME NEW b \in 0..m, b # 0 PROVE g[blocks[b].parent] = blocks[b].parent
    <3>1. b \in 1..m
      BY <2>1
    <3> QED
      BY <1>2, <3>1
  <2>2. Up(g)
    BY <2>1
  <2> QED
    BY <2>2
<1>4. PICK g : g = CHOOSE f : Up(f)
  OBVIOUS
<1>5. Up(g)
  BY <1>3, <1>4
<1>6. NearestParent(i) = g[blocks[i].parent]
  BY <1>1, <1>4 DEF NearestParent
<1>7. i \in 1..m
  BY <1>1
<1> QED
  BY <1>2, <1>5, <1>6, <1>7

\* The leaves that hang below a parent.
Below(p) == {c \in Leaves : blocks[c].parent = p}

LEMMA UnderIs ==
    ASSUME Forest(blocks), NEW p \in 1..Len(blocks)
    PROVE  OwnedLeaves(p) = ByOrder(Below(p))
<1>1. PICK m \in Nat : m = Len(blocks) /\ DOMAIN blocks = 1..m
  BY ForestTyped
<1> DEFINE Under(f) == f = [b \in DOMAIN blocks |->
                UNION {IF c \in Leaves THEN {c} ELSE f[c] :
                           c \in {c \in DOMAIN blocks : blocks[c].parent = b /\ ~ IsParentType(c)}}]
           Kids(b) == {c \in DOMAIN blocks : blocks[c].parent = b /\ ~ IsParentType(c)}
<1>2. \A b \in 1..m : ~ IsParentType(b) => Kids(b) = {}
  <2> SUFFICES ASSUME NEW b \in 1..m, NEW c \in Kids(b), ~ IsParentType(b) PROVE FALSE
    OBVIOUS
  <2>1. c \in 1..m /\ blocks[c].parent = b
    BY <1>1
  <2>2. Root(blocks, b)
    BY <1>1, <2>1, ForestTyped
  <2> QED
    BY <2>2 DEF Root, IsParentType
<1>3. Leaves \subseteq 1..m /\ \A c \in Leaves : ~ IsParentType(c)
  BY <1>1, LeavesAre
<1>4. \E f : Under(f)
  <2> DEFINE g == [b \in DOMAIN blocks |-> Below(b)]
  <2>1. ASSUME NEW b \in DOMAIN blocks
        PROVE  Below(b) = UNION {IF c \in Leaves THEN {c} ELSE g[c] : c \in Kids(b)}
    <3>1. ASSUME NEW c \in Kids(b), c \notin Leaves PROVE g[c] = {}
      <4>1. c \in 1..m /\ ~ IsParentType(c)
        BY <1>1
      <4>2. Below(c) \subseteq Kids(c)
        BY <1>1, <1>3 DEF Below
      <4>3. Below(c) = {}
        BY <1>2, <4>1, <4>2
      <4> QED
        BY <1>1, <4>1, <4>3
    <3>2. Below(b) \subseteq Kids(b) /\ \A c \in Kids(b) : c \in Leaves => c \in Below(b)
      BY <1>1, <1>3 DEF Below
    <3> HIDE DEF Kids, g
    <3>3. ASSUME NEW x \in Below(b) PROVE x \in UNION {IF c \in Leaves THEN {c} ELSE g[c] : c \in Kids(b)}
      <4>1. x \in Kids(b) /\ x \in Leaves
        BY <3>2 DEF Below
      <4> QED
        BY <4>1
    <3>4. ASSUME NEW x \in UNION {IF c \in Leaves THEN {c} ELSE g[c] : c \in Kids(b)} PROVE x \in Below(b)
      <4>1. PICK c \in Kids(b) : x \in IF c \in Leaves THEN {c} ELSE g[c]
        OBVIOUS
      <4> QED
        BY <3>1, <3>2, <4>1
    <3> QED
      BY <3>3, <3>4
  <2>2. g = [b \in DOMAIN blocks |-> UNION {IF c \in Leaves THEN {c} ELSE g[c] : c \in Kids(b)}]
    BY <2>1
  <2>3. Under(g)
    BY <2>2
  <2> QED
    BY <2>3
<1>5. PICK g : g = CHOOSE f : Under(f)
  OBVIOUS
<1>6. Under(g)
  BY <1>4, <1>5
<1>7. OwnedLeaves(p) = ByOrder(g[p])
  BY <1>5 DEF OwnedLeaves
<1>8. \A b \in 1..m : g[b] = UNION {IF c \in Leaves THEN {c} ELSE g[c] : c \in Kids(b)}
  BY <1>1, <1>6
<1>9. g[p] = Below(p)
  <2>1. \A c \in Kids(p) : c \notin Leaves => g[c] = {}
    <3> SUFFICES ASSUME NEW c \in Kids(p), c \notin Leaves PROVE g[c] = {}
      OBVIOUS
    <3>1. c \in 1..m /\ ~ IsParentType(c)
      BY <1>1
    <3>2. Kids(c) = {}
      BY <1>2, <3>1
    <3>3. g[c] = UNION {IF d \in Leaves THEN {d} ELSE g[d] : d \in Kids(c)}
      BY <1>8, <3>1
    <3> HIDE DEF Kids
    <3> QED
      BY <3>2, <3>3
  <2>2. Below(p) \subseteq Kids(p) /\ \A c \in Kids(p) : c \in Leaves => c \in Below(p)
    BY <1>1, <1>3 DEF Below
  <2>3. g[p] = UNION {IF c \in Leaves THEN {c} ELSE g[c] : c \in Kids(p)}
    BY <1>1, <1>8
  <2> HIDE DEF Kids, Under
  <2>4. ASSUME NEW x \in Below(p) PROVE x \in g[p]
    <3>1. x \in Kids(p) /\ x \in Leaves
      BY <2>2 DEF Below
    <3> QED
      BY <2>3, <3>1
  <2>5. ASSUME NEW x \in g[p] PROVE x \in Below(p)
    <3>1. PICK c \in Kids(p) : x \in IF c \in Leaves THEN {c} ELSE g[c]
      BY <2>3
    <3> QED
      BY <2>1, <2>2, <3>1
  <2> QED
    BY <2>4, <2>5
<1> QED
  BY <1>7, <1>9

\* sorted by order, those of the same order as they stand.
LeafBefore(i, j) == blocks[i].order < blocks[j].order \/ (blocks[i].order = blocks[j].order /\ i < j)
LeafOrder(T) == {p \in T \X T : LeafBefore(p[1], p[2])}

LEMMA ByOrderIs ==
    ASSUME Forest(blocks), NEW T, T \subseteq 1..Len(blocks)
    PROVE  InOrderBy(ByOrder(T), LeafOrder(T), T)
<1> DEFINE R == LeafOrder(T)
           Count(x) == Cardinality({y \in T : LeafBefore(y, x)})
<1>0. PICK m \in Nat : m = Len(blocks)
  BY ForestTyped
<1>1. IsFiniteSet(T)
  <2>1. 1 \in Int /\ m \in Int
    OBVIOUS
  <2>2. IsFiniteSet(1..m)
    BY <2>1, FS_Interval
  <2> QED
    BY <1>0, <2>2, FS_Subset
<1>2. \A x \in T : x \in Nat /\ blocks[x].order \in Nat
  BY <1>0, ForestTyped
<1>3. \A x, y \in T : <<x, y>> \in R <=> LeafBefore(x, y)
  BY DEF LeafOrder
<1> HIDE DEF R
<1>4. \A x \in T : <<x, x>> \notin R
  BY <1>2, <1>3 DEF LeafBefore
<1>5. \A x, y \in T : x # y => <<x, y>> \in R \/ <<y, x>> \in R
  BY <1>2, <1>3 DEF LeafBefore
<1>6. \A x, y, z \in T : <<x, y>> \in R /\ <<y, z>> \in R => <<x, z>> \in R
  <2> SUFFICES ASSUME NEW x \in T, NEW y \in T, NEW z \in T, LeafBefore(x, y), LeafBefore(y, z)
               PROVE  LeafBefore(x, z)
    BY <1>3
  <2>1. x \in Nat /\ y \in Nat /\ z \in Nat /\ blocks[x].order \in Nat /\ blocks[y].order \in Nat /\ blocks[z].order \in Nat
    BY <1>2
  <2> QED
    BY <2>1 DEF LeafBefore
<1>7. Orders(R, T)
  BY <1>4, <1>5, <1>6 DEF Orders
<1>8. \A x \in T : {y \in T : LeafBefore(y, x)} = {y \in T : <<y, x>> \in R}
  BY <1>3
<1>9. ByOrder(T) = [i \in 1..Cardinality(T) |-> CHOOSE x \in T : Count(x) = i - 1]
  BY DEF ByOrder, InOrderOf, LeafBefore
<1>10. \A x \in T : Count(x) = Cardinality({y \in T : <<y, x>> \in R})
  BY <1>8
<1> HIDE DEF Count
<1>11. \A i : (CHOOSE x \in T : Count(x) = i - 1)
              = CHOOSE x \in T : Cardinality({y \in T : <<y, x>> \in R}) = i - 1
  BY <1>10
<1>12. ByOrder(T) = [i \in 1..Cardinality(T) |->
                        CHOOSE x \in T : Cardinality({y \in T : <<y, x>> \in R}) = i - 1]
  BY <1>9, <1>11
<1>13. PICK seq : seq = ByOrder(T)
  OBVIOUS
<1>14. InOrderBy(seq, R, T)
  BY <1>1, <1>7, <1>12, <1>13, Places
<1> QED
  BY <1>13, <1>14 DEF R

LEMMA PartOf ==
    ASSUME NEW S, NEW seqs \in Seq(Seq(S)), NEW flat \in Seq(S), NEW off, Parts(flat, seqs, off)
    PROVE  \A n \in 1..Len(flat) : \E k \in 1..Len(seqs) : \E j \in 1..Len(seqs[k]) :
               n = off[k - 1] + j /\ flat[n] = seqs[k][j]
<1>1. PICK N \in Nat : N = Len(seqs)
  OBVIOUS
<1>2. /\ off \in [0..N -> Nat] /\ off[0] = 0 /\ off[N] = Len(flat)
      /\ \A k \in 1..N : /\ off[k] = off[k - 1] + Len(seqs[k])
                         /\ \A j \in 1..Len(seqs[k]) : flat[off[k - 1] + j] = seqs[k][j]
  BY <1>1 DEF Parts
<1>3. \A k \in 1..N : k - 1 \in 0..N /\ k \in 0..N /\ off[k - 1] \in Nat /\ off[k] \in Nat /\ Len(seqs[k]) \in Nat
  <2> TAKE k \in 1..N
  <2>1. k - 1 \in 0..N /\ k \in 0..N
    OBVIOUS
  <2>2. off[k - 1] \in Nat /\ off[k] \in Nat
    BY <1>2, <2>1
  <2>3. PICK t \in Seq(S) : t = seqs[k]
    BY <1>1
  <2>4. Len(t) \in Nat
    OBVIOUS
  <2> QED
    BY <2>1, <2>2, <2>3, <2>4
<1> DEFINE In(n, k) == \E l \in 1..k : \E j \in 1..Len(seqs[l]) : n = off[l - 1] + j
           Good == {k \in 0..N : \A n \in 1..off[k] : In(n, k)}
<1>4. 0..N \subseteq Good
  <2>1. 0 \in Good
    BY <1>2
  <2>2. ASSUME NEW k \in 1..N, k - 1 \in Good PROVE k \in Good
    <3>1. ASSUME NEW n \in 1..off[k] PROVE In(n, k)
      <4>1. PICK a \in Nat, d \in Nat : a = off[k - 1] /\ d = Len(seqs[k]) /\ off[k] = a + d
        BY <1>2, <1>3
      <4>2. CASE n <= a
        <5>1. n \in 1..off[k - 1]
          BY <4>1, <4>2
        <5>2. PICK l \in 1..k - 1 : \E j \in 1..Len(seqs[l]) : n = off[l - 1] + j
          BY <2>2, <5>1
        <5>3. l \in 1..k
          OBVIOUS
        <5> QED
          BY <5>2, <5>3
      <4>3. CASE ~ (n <= a)
        <5>1. n - a \in 1..d /\ n = a + (n - a)
          BY <4>1, <4>3, SMTT(30)
        <5>2. k \in 1..k
          OBVIOUS
        <5> QED
          BY <4>1, <5>1, <5>2
      <4> QED
        BY <4>2, <4>3
    <3>2. k \in 0..N
      OBVIOUS
    <3> HIDE DEF In
    <3> QED
      BY <3>1, <3>2
  <2> HIDE DEF Good
  <2> QED
    BY <2>1, <2>2, UpToInduct
<1>5. N \in Good
  BY <1>4
<1> SUFFICES ASSUME NEW n \in 1..Len(flat)
             PROVE  \E k \in 1..N : \E j \in 1..Len(seqs[k]) : n = off[k - 1] + j /\ flat[n] = seqs[k][j]
  BY <1>1
<1>6. PICK k \in 1..N : \E j \in 1..Len(seqs[k]) : n = off[k - 1] + j
  BY <1>2, <1>5
<1> QED
  BY <1>2, <1>6

\* Numbers without a gap, in their order.
LEMMA Consecutive ==
    ASSUME NEW a \in Nat, NEW m \in Nat
    PROVE  InOrderOf(a + 1 .. a + m, <) = [k \in 1..m |-> a + k]
<1> DEFINE T == a + 1 .. a + m
           Smaller(x) == {y \in T : y < x}
<1>1. Cardinality(T) = m
  <2>1. a + 1 \in Int /\ a + m \in Int
    OBVIOUS
  <2>2. Cardinality(a + 1 .. a + m) = IF a + 1 > a + m THEN 0 ELSE (a + m) - (a + 1) + 1
    BY <2>1, FS_Interval
  <2> QED
    BY <2>2
<1>2. ASSUME NEW x \in T PROVE Cardinality(Smaller(x)) = x - a - 1
  <2>1. Smaller(x) = a + 1 .. x - 1
    OBVIOUS
  <2>2. a + 1 \in Int /\ x - 1 \in Int
    OBVIOUS
  <2>3. Cardinality(a + 1 .. x - 1) = IF a + 1 > x - 1 THEN 0 ELSE (x - 1) - (a + 1) + 1
    BY <2>2, FS_Interval
  <2>4. (x - 1) - (a + 1) + 1 = x - a - 1 /\ (a + 1 > x - 1 => x - a - 1 = 0)
    OBVIOUS
  <2> QED
    BY <2>1, <2>3, <2>4
<1>3. InOrderOf(T, <) = [k \in 1..Cardinality(T) |-> CHOOSE x \in T : Cardinality(Smaller(x)) = k - 1]
  BY DEF InOrderOf
<1> HIDE DEF Smaller
<1>4. ASSUME NEW k \in 1..m PROVE (CHOOSE x \in T : Cardinality(Smaller(x)) = k - 1) = a + k
  <2>1. a + k \in T /\ (a + k) - a - 1 = k - 1
    OBVIOUS
  <2>2. Cardinality(Smaller(a + k)) = k - 1
    BY <1>2, <2>1
  <2>3. \A x \in T : Cardinality(Smaller(x)) = k - 1 => x = a + k
    <3> SUFFICES ASSUME NEW x \in T, Cardinality(Smaller(x)) = k - 1 PROVE x = a + k
      OBVIOUS
    <3>1. x - a - 1 = k - 1
      BY <1>2
    <3> QED
      BY <3>1
  <2> HIDE DEF T
  <2> QED
    BY <2>1, <2>2, <2>3
<1> QED
  BY <1>1, <1>3, <1>4

CutOf(i, c) == SplitText(blocks[i].text, c.max, c.overlap, c.min)
Child == [block : 1..Len(blocks), span : Span, text : SUBSET Nat, parent : Int]
KidOf(i, span, parent) ==
    [block |-> i, span |-> span, text |-> Trimmed(blocks[i].text, span), parent |-> parent]

\* strip_text leaves the characters that are no spaces.
LEMMA TrimmedIs ==
    ASSUME NEW text, NEW span \in Span
    PROVE  /\ Trimmed(text, span) \in SUBSET Nat
           /\ Trimmed(text, span) \subseteq span[1]..span[2]
           /\ \A p \in span[1]..span[2] : p \in Spaces(text) \/ p \in Trimmed(text, span)
<1>1. PICK a \in Nat, b \in Nat : a = span[1] /\ b = span[2]
  BY DEF Span
<1>2. PICK spaces : spaces = Spaces(text)
  OBVIOUS
<1>3. PICK solid : solid = (a..b) \ spaces
  OBVIOUS
<1>4. Trimmed(text, span) = {p \in a..b : \E first, last \in solid : first <= p /\ p <= last}
  BY <1>1, <1>2, <1>3 DEF Trimmed
<1>5. \A p \in a..b : p \in Nat /\ p <= p
  OBVIOUS
<1> QED
  BY <1>1, <1>2, <1>3, <1>4, <1>5

\* The children of one leaf.
LEMMA ChildrenOfIs ==
    ASSUME Forest(blocks), NEW i \in Leaves, NEW emitted, NEW c \in Config
    PROVE  /\ WellSplit(blocks[i].text, CutOf(i, c), c.max, c.overlap, c.min)
           /\ CutOf(i, c) \in Seq(Span) /\ Len(CutOf(i, c)) \in Nat \ {0}
           /\ ChildrenOf(i, emitted, c) \in Seq(Child)
           /\ Len(ChildrenOf(i, emitted, c)) = Len(CutOf(i, c))
           /\ \A n \in 1..Len(CutOf(i, c)) :
                  ChildrenOf(i, emitted, c)[n] = KidOf(i, CutOf(i, c)[n], ParentOf(i, emitted))
<1>1. i \in 1..Len(blocks) /\ blocks[i].text \in Text /\ blocks[i].text.len > 0 /\ blocks[i].parent \in Nat
  BY LeavesAre, ForestTyped
<1>2. WellSplit(blocks[i].text, CutOf(i, c), c.max, c.overlap, c.min)
  BY <1>1, ConfigAssumption, SplitTextSplits DEF CutOf
<1>3. PICK parts \in Seq(Span) : parts = CutOf(i, c) /\ Len(parts) >= 1
  BY <1>2 DEF WellSplit
<1>4. PICK m \in Nat \ {0} : m = Len(parts) /\ DOMAIN parts = 1..m
  BY <1>3
<1>5. ParentOf(i, emitted) \in Int
  BY <1>1, NearestIs DEF ParentOf, Synthetic, NoParent
<1>6. PICK kids : kids = ChildrenOf(i, emitted, c)
  OBVIOUS
<1>7. kids = [n \in 1..m |-> KidOf(i, parts[n], ParentOf(i, emitted))]
  BY <1>3, <1>4, <1>6 DEF ChildrenOf, CutOf, KidOf
<1>8. \A n \in 1..m : KidOf(i, parts[n], ParentOf(i, emitted)) \in Child
  <2> TAKE n \in 1..m
  <2>1. parts[n] \in Span
    BY <1>4, Entry
  <2>2. Trimmed(blocks[i].text, parts[n]) \in SUBSET Nat
    BY <2>1, TrimmedIs
  <2> QED
    BY <1>1, <1>5, <2>1, <2>2 DEF Child, KidOf
<1>9. kids \in [1..m -> Child]
  BY <1>7, <1>8
<1>10. kids \in Seq(Child) /\ Len(kids) = m
  BY <1>9, FunctionSeq
<1> QED
  BY <1>2, <1>3, <1>4, <1>6, <1>7, <1>10

\* The children of a file are those of its leaves, one leaf after the other.
ChildAt(n, i, j, c) ==
    children[n] = KidOf(i, CutOf(i, c)[j], ParentOf(i, Emitted))
KidsAt(i, a, c) ==
    /\ a \in Nat /\ {n \in DOMAIN children : children[n].block = i} = a + 1 .. a + Len(CutOf(i, c))
    /\ \A j \in 1..Len(CutOf(i, c)) : ChildAt(a + j, i, j, c)

LEMMA ChildrenAreThose ==
    ASSUME Forest(blocks), children = AllChildren, config \in Config
    PROVE  /\ children \in Seq(Child)
           /\ \A n \in 1..Len(children) : \E i \in Leaves : \E j \in 1..Len(CutOf(i, config)) : ChildAt(n, i, j, config)
           /\ \A i \in Leaves : \E a : KidsAt(i, a, config)
<1>1. PICK N \in Nat : N = Cardinality(Leaves)
  BY LeavesAre
<1>2. PICK L : L = InFileOrder(Leaves) /\ Increasing(L, Leaves)
  <2>1. IsFiniteSet(Leaves) /\ Leaves \in SUBSET Int
    BY LeavesAre
  <2> QED
    BY <2>1, NumbersInOrder DEF InFileOrder
<1>3. PICK seqs : seqs = [n \in 1..N |-> ChildrenOf(L[n], Emitted, config)]
  OBVIOUS
<1>4. children = FlattenSeq(seqs)
  BY <1>1, <1>2, <1>3 DEF AllChildren
<1>5. ASSUME NEW k \in 1..N
      PROVE  /\ L[k] \in Leaves /\ seqs[k] = ChildrenOf(L[k], Emitted, config) /\ seqs[k] \in Seq(Child)
             /\ Len(seqs[k]) = Len(CutOf(L[k], config)) /\ Len(seqs[k]) \in Nat
             /\ \A j \in 1..Len(seqs[k]) :
                    seqs[k][j] = KidOf(L[k], CutOf(L[k], config)[j], ParentOf(L[k], Emitted))
  <2>1. L[k] \in Leaves
    BY <1>1, <1>2 DEF Increasing
  <2> QED
    BY <1>3, <2>1, ChildrenOfIs
<1>6. seqs \in Seq(Seq(Child)) /\ Len(seqs) = N
  <2>1. seqs \in [1..N -> Seq(Child)]
    BY <1>3, <1>5
  <2> QED
    BY <2>1, FunctionSeq
<1>7. children \in Seq(Child)
  BY <1>4, <1>6, Flattened
<1>8. PICK off : Parts(children, seqs, off)
  BY <1>4, <1>6, Flattened
<1>9. \A n \in 1..Len(children) : \E k \in 1..N : \E j \in 1..Len(seqs[k]) :
          n = off[k - 1] + j /\ children[n] = seqs[k][j]
  BY <1>6, <1>7, <1>8, PartOf
<1>10. ASSUME NEW n \in 1..Len(children)
       PROVE  \E i \in Leaves : \E j \in 1..Len(CutOf(i, config)) : ChildAt(n, i, j, config)
  <2>1. PICK k \in 1..N : \E j \in 1..Len(seqs[k]) : children[n] = seqs[k][j]
    BY <1>9
  <2>2. PICK j \in 1..Len(seqs[k]) : children[n] = seqs[k][j]
    BY <2>1
  <2>3. L[k] \in Leaves /\ j \in 1..Len(CutOf(L[k], config)) /\ ChildAt(n, L[k], j, config)
    BY <1>5, <2>2 DEF ChildAt, KidOf
  <2> QED
    BY <2>3
<1>11. ASSUME NEW i \in Leaves PROVE \E a : KidsAt(i, a, config)
  <2>1. PICK k \in 1..N : L[k] = i
    BY <1>1, <1>2 DEF Increasing
  <2>2. k - 1 \in 0..N
    OBVIOUS
  <2>3. PICK a \in Nat : a = off[k - 1]
    BY <1>6, <1>8, <2>2 DEF Parts
  <2>4. PICK m \in Nat : m = Len(CutOf(i, config)) /\ m = Len(seqs[k])
    BY <1>5, <2>1
  <2>5. \A j \in 1..m : ChildAt(a + j, i, j, config)
    <3> TAKE j \in 1..m
    <3>1. children[a + j] = seqs[k][j]
      BY <1>6, <1>8, <2>3, <2>4 DEF Parts
    <3> QED
      BY <1>5, <2>1, <2>4, <3>1 DEF ChildAt, KidOf
  <2>6. a + m <= Len(children) /\ Len(children) \in Nat
    <3>1. off \in [0..N -> Nat] /\ off[N] = Len(children)
          /\ \A l \in 1..N : off[l] = off[l - 1] + Len(seqs[l])
      BY <1>6, <1>8 DEF Parts
    <3> DEFINE Good == {l \in 0..N : l >= k => off[l] >= a + m}
    <3>2. 0..N \subseteq Good
      <4>1. 0 \in Good
        OBVIOUS
      <4>2. ASSUME NEW l \in 1..N, l - 1 \in Good PROVE l \in Good
        <5>1. l - 1 \in 0..N /\ l \in 0..N
          OBVIOUS
        <5>2. PICK x \in Nat, y \in Nat, z \in Nat : x = off[l - 1] /\ y = off[l] /\ z = Len(seqs[l]) /\ y = x + z
          <6>1. off[l - 1] \in Nat /\ off[l] \in Nat
            BY <3>1, <5>1
          <6>2. Len(seqs[l]) \in Nat
            BY <1>5
          <6> QED
            BY <3>1, <6>1, <6>2
        <5>3. CASE l = k
          <6>1. x = a /\ z = m
            BY <2>3, <2>4, <5>2, <5>3
          <6>2. off[l] >= a + m
            BY <5>2, <6>1
          <6> QED
            BY <5>1, <6>2
        <5>4. CASE l > k
          <6>1. x >= a + m
            BY <4>2, <5>1, <5>2, <5>4
          <6>2. y >= a + m
            BY <5>2, <6>1
          <6> QED
            BY <5>1, <5>2, <6>2
        <5>5. CASE l < k
          BY <5>1, <5>5
        <5> QED
          BY <5>1, <5>3, <5>4, <5>5
      <4> HIDE DEF Good
      <4> QED
        BY <4>1, <4>2, UpToInduct
    <3>3. N \in Good
      BY <3>2
    <3>4. Len(children) \in Nat
      BY <1>7
    <3> QED
      BY <3>1, <3>3, <3>4
  <2>7. DOMAIN children = 1..Len(children)
    BY <1>7
  <2>8. ASSUME NEW n \in a + 1 .. a + m PROVE n \in DOMAIN children /\ children[n].block = i
    <3>1. n - a \in 1..m /\ a + (n - a) = n /\ n \in 1..Len(children)
      BY <2>6
    <3>2. ChildAt(n, i, n - a, config)
      BY <2>5, <3>1
    <3> QED
      BY <2>7, <3>1, <3>2 DEF ChildAt, KidOf
  <2>9. ASSUME NEW n \in DOMAIN children, children[n].block = i PROVE n \in a + 1 .. a + m
    <3>1. PICK l \in 1..N : \E j \in 1..Len(seqs[l]) : n = off[l - 1] + j /\ children[n] = seqs[l][j]
      BY <1>9, <2>7
    <3>2. PICK j \in 1..Len(seqs[l]) : n = off[l - 1] + j /\ children[n] = seqs[l][j]
      BY <3>1
    <3>3. children[n].block = L[l]
      <4>1. seqs[l][j] = KidOf(L[l], CutOf(L[l], config)[j], ParentOf(L[l], Emitted))
        BY <1>5, <3>2
      <4> QED
        BY <3>2, <4>1 DEF KidOf
    <3>4. l = k
      <4>1. \A x, y \in 1..N : x < y <=> L[x] < L[y]
        BY <1>1, <1>2 DEF Increasing
      <4>2. L[l] = L[k] /\ L[l] \in Nat
        BY <1>5, <2>1, <2>9, <3>3, LeavesAre
      <4>3. ~ (L[l] < L[k]) /\ ~ (L[k] < L[l])
        BY <4>2
      <4>4. ~ (l < k) /\ ~ (k < l)
        BY <4>1, <4>3
      <4> QED
        BY <4>4
    <3> QED
      BY <2>3, <2>4, <3>2, <3>4
  <2>10. {n \in DOMAIN children : children[n].block = i} = a + 1 .. a + m
    BY <2>8, <2>9
  <2>11. KidsAt(i, a, config)
    BY <2>4, <2>5, <2>10 DEF KidsAt
  <2> QED
    BY <2>11
<1> QED
  BY <1>7, <1>10, <1>11

LEMMA OwnersAre ==
    ASSUME Forest(blocks)
    PROVE  /\ OwningParents = {blocks[i].parent : i \in Leaves} \ {0}
           /\ OwningParents \subseteq 1..Len(blocks) /\ IsFiniteSet(OwningParents)
           /\ \A p \in OwningParents : IsParentType(p) /\ Below(p) # {}
           /\ \A i \in Leaves : NearestParent(i) = blocks[i].parent
<1>1. PICK m \in Nat : m = Len(blocks)
  BY ForestTyped
<1>2. \A i \in Leaves : NearestParent(i) = blocks[i].parent
  BY LeavesAre, NearestIs
<1>3. OwningParents = {blocks[i].parent : i \in Leaves} \ {0}
  BY <1>2 DEF OwningParents
<1>4. \A i \in Leaves : Root(blocks, blocks[i].parent)
  BY LeavesAre, ForestTyped
<1>5. OwningParents \subseteq 1..m
  BY <1>1, <1>3, <1>4 DEF Root
<1>6. IsFiniteSet(OwningParents)
  <2>1. 1 \in Int /\ m \in Int
    OBVIOUS
  <2>2. IsFiniteSet(1..m)
    BY <2>1, FS_Interval
  <2> QED
    BY <1>5, <2>2, FS_Subset
<1>7. \A p \in OwningParents : IsParentType(p) /\ Below(p) # {}
  <2> TAKE p \in OwningParents
  <2>1. PICK i \in Leaves : p = blocks[i].parent /\ p # 0
    BY <1>3
  <2>2. i \in Below(p)
    BY <2>1 DEF Below
  <2> QED
    BY <1>4, <2>1, <2>2 DEF Root, IsParentType
<1> QED
  BY <1>1, <1>2, <1>3, <1>5, <1>6, <1>7

\* What the text of a parent is put together from: its title, then its leaves.
Shows(text, p, sorted) ==
    /\ InOrderBy(sorted, LeafOrder(Below(p)), Below(p))
    /\ text \in Seq(1..Len(blocks))
    /\ \/ text = sorted
       \/ /\ Len(text) = Len(sorted) + 1 /\ text[1] = p
          /\ \A n \in 1..Len(sorted) : text[n + 1] = sorted[n]

LEMMA AssembledShows ==
    ASSUME Forest(blocks), NEW p \in 1..Len(blocks)
    PROVE  \E sorted : Shows(Assembled(p), p, sorted)
<1>1. PICK m \in Nat : m = Len(blocks)
  BY ForestTyped
<1>2. Below(p) \subseteq 1..m
  BY <1>1, LeavesAre DEF Below
<1>3. PICK sorted : sorted = ByOrder(Below(p)) /\ InOrderBy(sorted, LeafOrder(Below(p)), Below(p))
  BY <1>1, <1>2, ByOrderIs
<1>4. sorted \in Seq(1..m)
  BY <1>2, <1>3, SeqWider DEF InOrderBy
<1>5. Assembled(p) = (IF blocks[p].text.len > 0 THEN <<p>> ELSE <<>>) \o sorted
  BY <1>3, UnderIs DEF Assembled
<1>6. CASE blocks[p].text.len > 0
  <2>1. PICK text : text = <<p>> \o sorted
    OBVIOUS
  <2>2. <<p>> \in Seq(1..m) /\ Len(<<p>>) = 1 /\ <<p>>[1] = p
    BY <1>1
  <2>3. /\ text \in Seq(1..m) /\ Len(text) = Len(sorted) + 1 /\ text[1] = p
        /\ \A n \in 1..Len(sorted) : text[n + 1] = sorted[n]
    BY <1>4, <2>1, <2>2
  <2> QED
    BY <1>1, <1>3, <1>5, <1>6, <2>1, <2>3 DEF Shows
<1>7. CASE ~ (blocks[p].text.len > 0)
  <2>1. <<>> \o sorted = sorted
    BY <1>4
  <2> QED
    BY <1>1, <1>3, <1>4, <1>5, <1>7, <2>1 DEF Shows
<1> QED
  BY <1>6, <1>7

\* Where the texts of a parent begin.
LEMMA StartsAre ==
    ASSUME Forest(blocks), NEW texts \in Seq(1..Len(blocks)), NEW gap \in Nat, NEW N \in Nat, N = Len(texts)
    PROVE  /\ Starts(texts, gap) \in [1..N + 1 -> Nat] /\ Starts(texts, gap)[1] = 0
           /\ \A n \in 1..N : Starts(texts, gap)[n + 1] = Starts(texts, gap)[n] + blocks[texts[n]].text.len + gap
           /\ \A n \in 1..N : blocks[texts[n]].text.len \in Nat
<1> DEFINE long == [n \in 1..N |-> blocks[texts[n]].text.len]
           step == [p \in (1..N) \X Nat |-> p[2] + long[p[1]] + gap]
           Equation(f) == f = [n \in 1..N + 1 |->
                                   IF n = 1 THEN 0 ELSE f[n - 1] + blocks[texts[n - 1]].text.len + gap]
<1>1. \A n \in 1..N : long[n] \in Nat /\ long[n] = blocks[texts[n]].text.len
  <2> TAKE n \in 1..N
  <2>1. texts[n] \in 1..Len(blocks)
    BY Entry
  <2>2. blocks[texts[n]].text \in Text
    BY <2>1, ForestTyped
  <2> QED
    BY <2>2 DEF Text
<1> HIDE DEF long
<1>2. step \in [(1..N) \X Nat -> Nat]
  BY <1>1
<1>3. \A n \in 1..N, x \in Nat : step[<<n, x>>] = x + long[n] + gap
  OBVIOUS
<1> HIDE DEF step
<1>4. PICK f \in [0..N -> Nat] : f[0] = 0 /\ \A n \in 1..N : f[n] = step[<<n, f[n - 1]>>]
  <2>1. \E f \in [0..N -> Nat] : Iterates(f, 0, step, N)
    BY <1>2, Recursion
  <2> QED
    BY <2>1 DEF Iterates
<1>5. \A n \in 1..N : f[n] = f[n - 1] + long[n] + gap
  <2> TAKE n \in 1..N
  <2>1. n - 1 \in 0..N
    OBVIOUS
  <2>2. f[n - 1] \in Nat
    BY <2>1
  <2> QED
    BY <1>3, <1>4, <2>2
<1>6. PICK h : h = [n \in 1..N + 1 |-> f[n - 1]]
  OBVIOUS
<1>7. Equation(h)
  <2>1. \A n \in 1..N + 1 : h[n] = IF n = 1 THEN 0 ELSE h[n - 1] + blocks[texts[n - 1]].text.len + gap
    <3> TAKE n \in 1..N + 1
    <3>1. CASE n = 1
      BY <1>4, <1>6, <3>1
    <3>2. CASE n # 1
      <4>1. n - 1 \in 1..N /\ n - 1 \in 1..N + 1
        BY <3>2
      <4>2. h[n] = f[n - 1] /\ h[n - 1] = f[(n - 1) - 1]
        BY <1>6, <4>1
      <4> QED
        BY <1>1, <1>5, <3>2, <4>1, <4>2
    <3> QED
      BY <3>1, <3>2
  <2> QED
    BY <1>6, <2>1
<1>8. Starts(texts, gap) = CHOOSE g : Equation(g)
  BY DEF Starts
<1> HIDE DEF Equation
<1>9. PICK g : g = Starts(texts, gap) /\ Equation(g)
  BY <1>7, <1>8
<1>10. g = [n \in 1..N + 1 |-> IF n = 1 THEN 0 ELSE g[n - 1] + blocks[texts[n - 1]].text.len + gap]
  BY <1>9 DEF Equation
<1>11. g[1] = 0
  BY <1>10
<1>12. \A n \in 1..N : g[n + 1] = g[n] + long[n] + gap
  <2> TAKE n \in 1..N
  <2>1. n + 1 \in 1..N + 1 /\ n + 1 # 1 /\ (n + 1) - 1 = n
    OBVIOUS
  <2>2. g[n + 1] = g[(n + 1) - 1] + blocks[texts[(n + 1) - 1]].text.len + gap
    BY <1>10, <2>1
  <2> QED
    BY <1>1, <2>1, <2>2
<1> DEFINE Typed == {n \in 0..N : g[n + 1] \in Nat}
<1>13. 0..N \subseteq Typed
  <2>1. 0 \in Typed
    BY <1>11
  <2>2. ASSUME NEW n \in 1..N, n - 1 \in Typed PROVE n \in Typed
    <3>1. g[(n - 1) + 1] \in Nat /\ (n - 1) + 1 = n
      BY <2>2
    <3>2. PICK x \in Nat, y \in Nat : x = g[n] /\ y = long[n]
      BY <1>1, <3>1
    <3>3. g[n + 1] = x + y + gap /\ n \in 0..N
      BY <1>12, <3>2
    <3> QED
      BY <3>3
  <2> HIDE DEF Typed
  <2> QED
    BY <2>1, <2>2, UpToInduct
<1>14. \A n \in 1..N + 1 : g[n] \in Nat
  <2> TAKE n \in 1..N + 1
  <2>1. n - 1 \in 0..N /\ (n - 1) + 1 = n
    OBVIOUS
  <2>2. n - 1 \in Typed
    BY <1>13, <2>1
  <2>3. g[(n - 1) + 1] \in Nat
    BY <2>2
  <2> QED
    BY <2>1, <2>3
<1>15. DOMAIN g = 1..N + 1 /\ g = [n \in 1..N + 1 |-> g[n]]
  BY <1>10
<1>16. g \in [1..N + 1 -> Nat]
  BY <1>14, <1>15
<1> QED
  BY <1>1, <1>9, <1>11, <1>12, <1>16

\* How long the text of a parent is, and what is kept of it.
LEMMA KeptTyped ==
    ASSUME Forest(blocks), NEW texts \in Seq(1..Len(blocks)), NEW block, NEW max \in Nat
    PROVE  Size(block, texts) \in Int /\ Kept(block, Size(block, texts), max) \in Int
<1>1. Glue(block) \in Nat
  BY ConfigAssumption DEF Glue
<1>2. PICK N \in Nat : N = Len(texts)
  OBVIOUS
<1>7. PICK gap \in Nat : gap = Glue(block)
  BY <1>1
<1>8. Starts(texts, gap) \in [1..N + 1 -> Nat]
  BY <1>2, StartsAre
<1>3. Starts(texts, Glue(block)) \in [1..N + 1 -> Nat] /\ N + 1 \in 1..N + 1
  BY <1>2, <1>7, <1>8
<1>4. PICK end \in Nat : end = Starts(texts, Glue(block))[Len(texts) + 1]
  BY <1>2, <1>3
<1>5. Size(block, texts) \in Int
  BY <1>1, <1>4 DEF Size
<1>6. Budget(block, max) \in Int
  BY DEF Budget, Marker
<1> QED
  BY <1>5, <1>6 DEF Kept

\* The parent chunks of a file.
ParentType == [block : 0..Len(blocks), text : Seq(1..Len(blocks)), kept : Int]
CutTo(chunk, block) == chunk.kept = Kept(block, Size(block, chunk.text), config.parent)

LEMMA ParentChunkIs ==
    ASSUME Forest(blocks), NEW block \in 0..Len(blocks), NEW texts \in Seq(1..Len(blocks)), NEW max \in Nat
    PROVE  \E chunk \in ParentType :
               /\ chunk = ParentChunk(block, texts, max) /\ chunk.block = block /\ chunk.text = texts
               /\ chunk.kept = Kept(block, Size(block, texts), max)
<1>1. PICK kept \in Int : kept = Kept(block, Size(block, texts), max)
  BY KeptTyped
<1>2. PICK chunk : chunk = ParentChunk(block, texts, max)
  OBVIOUS
<1>3. chunk = [block |-> block, text |-> texts, kept |-> kept]
  BY <1>1, <1>2 DEF ParentChunk
<1>4. chunk \in ParentType
  BY <1>3 DEF ParentType
<1>5. chunk.block = block /\ chunk.text = texts /\ chunk.kept = kept
  BY <1>3
<1> QED
  BY <1>1, <1>2, <1>4, <1>5

Synthesized == /\ OwningParents = {} /\ Leaves # {} /\ Len(parents) = 1 /\ parents[1].block = Synthetic
               /\ CutTo(parents[1], Synthetic)
               /\ Increasing(parents[1].text, 1..Len(blocks))
Owned(owners) ==
    /\ OwningParents # {} /\ Increasing(owners, OwningParents) /\ Len(parents) = Len(owners)
    /\ \A k \in 1..Len(owners) : /\ owners[k] \in OwningParents /\ parents[k].block = owners[k]
                                 /\ CutTo(parents[k], owners[k])
                                 /\ \E sorted : Shows(parents[k].text, owners[k], sorted)

LEMMA ParentsAre ==
    ASSUME Forest(blocks), config \in Config, parents = ParentChunks(config.parent)
    PROVE  /\ parents \in Seq(ParentType)
           /\ \/ \E owners : Owned(owners)
              \/ Synthesized
              \/ Leaves = {} /\ parents = <<>>
<1>1. PICK m \in Nat : m = Len(blocks) /\ DOMAIN blocks = 1..m
  BY ForestTyped
<1>5. PICK max \in Nat : max = config.parent
  BY ConfigAssumption
<1>2. CASE OwningParents # {}
  <2>1. PICK owners : owners = InFileOrder(OwningParents) /\ Increasing(owners, OwningParents)
    <3>1. IsFiniteSet(OwningParents) /\ OwningParents \in SUBSET Int
      BY OwnersAre
    <3> QED
      BY <3>1, NumbersInOrder DEF InFileOrder
  <2>2. parents = [i \in DOMAIN owners |-> ParentChunk(owners[i], Assembled(owners[i]), max)]
    BY <1>2, <1>5, <2>1 DEF ParentChunks
  <2>3. PICK n \in Nat : n = Len(owners) /\ DOMAIN owners = 1..n /\ \A k \in 1..n : owners[k] \in OwningParents
    BY <2>1 DEF Increasing
  <2>4. ASSUME NEW k \in 1..n
        PROVE  /\ parents[k] \in ParentType /\ parents[k].block = owners[k]
               /\ CutTo(parents[k], owners[k]) /\ \E sorted : Shows(parents[k].text, owners[k], sorted)
    <3>1. PICK p \in 1..m : p = owners[k]
      BY <1>1, <2>3, OwnersAre
    <3>2. PICK text : text = Assembled(p)
      OBVIOUS
    <3>3. PICK sorted : Shows(text, p, sorted)
      BY <1>1, <3>2, AssembledShows
    <3>4. parents[k] = ParentChunk(p, text, max)
      BY <2>2, <2>3, <3>1, <3>2
    <3>5. text \in Seq(1..Len(blocks)) /\ p \in 0..Len(blocks)
      BY <1>1, <3>3 DEF Shows
    <3>6. PICK chunk \in ParentType : /\ chunk = ParentChunk(p, text, max) /\ chunk.block = p /\ chunk.text = text
                                      /\ chunk.kept = Kept(p, Size(p, text), max)
      BY <3>5, ParentChunkIs
    <3>7. CutTo(chunk, p)
      BY <1>5, <3>6 DEF CutTo
    <3> QED
      BY <3>1, <3>3, <3>4, <3>6, <3>7
  <2>5. parents \in [1..n -> ParentType]
    BY <2>2, <2>3, <2>4
  <2>6. parents \in Seq(ParentType) /\ Len(parents) = n
    BY <2>5, FunctionSeq
  <2>7. Owned(owners)
    BY <1>2, <2>1, <2>3, <2>4, <2>6 DEF Owned
  <2> QED
    BY <2>6, <2>7
<1>3. CASE OwningParents = {} /\ Leaves # {}
  <2>1. PICK text : text = InFileOrder(1..m) /\ Increasing(text, 1..m)
    <3>1. 1 \in Int /\ m \in Int /\ 1..m \in SUBSET Int
      OBVIOUS
    <3>2. IsFiniteSet(1..m)
      BY <3>1, FS_Interval
    <3> QED
      BY <3>1, <3>2, NumbersInOrder DEF InFileOrder
  <2>4. text \in Seq(1..Len(blocks)) /\ Synthetic \in 0..Len(blocks)
    BY <1>1, <2>1 DEF Increasing, Synthetic
  <2>2. PICK chunk \in ParentType :
            /\ chunk = ParentChunk(Synthetic, text, max) /\ chunk.block = Synthetic /\ chunk.text = text
            /\ chunk.kept = Kept(Synthetic, Size(Synthetic, text), max)
    BY <2>4, ParentChunkIs
  <2>3. parents = <<chunk>>
    BY <1>1, <1>3, <1>5, <2>1, <2>2 DEF ParentChunks
  <2>5. CutTo(chunk, Synthetic)
    BY <1>5, <2>2 DEF CutTo
  <2>6. parents \in Seq(ParentType) /\ Len(parents) = 1 /\ parents[1] = chunk
    BY <2>3, <2>5
  <2> QED
    BY <1>1, <1>3, <2>1, <2>2, <2>5, <2>6 DEF Synthesized
<1>4. CASE OwningParents = {} /\ Leaves = {}
  <2>1. parents = <<>>
    BY <1>4 DEF ParentChunks
  <2>2. <<>> \in Seq(ParentType)
    OBVIOUS
  <2> QED
    BY <1>4, <2>1, <2>2
<1> QED
  BY <1>2, <1>3, <1>4

LEMMA TypeInvTypes == TypeInv => TypeOK
<1> SUFFICES ASSUME TypeInv PROVE TypeOK
  OBVIOUS
<1>1. FileInv /\ Forest(blocks) /\ Open(stack, blocks, 1..6) /\ Counting /\ MarkdownInv /\ ChunksInv
      /\ Pages(pages, blocks) /\ Stacks(sections, blocks) /\ phase \in {"parse", "chunk", "done"}
  BY DEF TypeInv
<1>2. BlocksTypeOK
  <2>1. blocks \in Seq(Block) /\ \A i \in DOMAIN blocks : blocks[i].parent < i
    BY <1>1, ForestTyped DEF Forest
  <2>2. stack \in Seq([block : 1..Len(blocks), level : 1..6])
    BY <1>1 DEF Open
  <2> QED
    BY <1>1, <2>1, <2>2 DEF BlocksTypeOK, Counting
<1>3. MarkdownTypeOK
  <2>1. code \in Seq(1..read) /\ inFence \in BOOLEAN /\ (~ inFence => code = <<>>)
    BY <1>1 DEF MarkdownInv
  <2>2. ToSet(code) \subseteq 1..read
    <3>1. PICK S : S = 1..read
      OBVIOUS
    <3>2. code \in Seq(S)
      BY <2>1, <3>1
    <3>3. DOMAIN code = 1..Len(code) /\ \A i \in 1..Len(code) : code[i] \in S
      BY <3>2
    <3>4. ToSet(code) = {code[i] : i \in DOMAIN code}
      BY DEF ToSet
    <3> QED
      BY <3>1, <3>3, <3>4
  <2> QED
    BY <2>1, <2>2 DEF MarkdownTypeOK
<1>4. PdfTypeOK
  <2>1. \A p \in DOMAIN pages : pages[p] \in DOMAIN blocks
    BY <1>1, ForestTyped DEF Pages
  <2>2. \A p \in DOMAIN sections : sections[p] \in Seq([block : 1..Len(blocks), level : {1, 2}])
    BY <1>1 DEF Stacks, Open
  <2> QED
    BY <2>1, <2>2 DEF PdfTypeOK
<1>5. CodeTypeOK
  <2> DEFINE Calls == [task : {"symbol", "gaps"}, span : Nat \X Nat, parent : 1..Len(blocks), covered : SUBSET (Nat \X Nat)]
  <2>1. CASE format # "code"
    <3>1. todo = <<>>
      BY <2>1 DEF TypeInv
    <3>2. <<>> \in Seq(Calls)
      OBVIOUS
    <3> QED
      BY <3>1, <3>2 DEF CodeTypeOK
  <2>2. CASE format = "code"
    <3>1. PICK syms : syms = source.symbols /\ syms \subseteq Nat \X Nat
      BY <1>1, <2>2, SymbolsAre
    <3>2. todo \in Seq(Tasks(syms, Len(blocks)))
      BY <2>2, <3>1 DEF TypeInv, Todo
    <3>3. Tasks(syms, Len(blocks)) \subseteq Calls
      BY <3>1 DEF Tasks
    <3> HIDE DEF Calls
    <3>4. todo \in Seq(Calls)
      BY <3>2, <3>3, SeqWider
    <3> QED
      BY <3>4 DEF CodeTypeOK, Calls
  <2> QED
    BY <2>1, <2>2
<1>6. ChunkerTypeOK
  <2>1. CASE phase # "done"
    <3>1. config = NoConfig /\ parents = <<>> /\ children = <<>>
      BY <1>1, <2>1 DEF ChunksInv
    <3> QED
      BY <3>1 DEF ChunkerTypeOK
  <2>2. CASE phase = "done"
    <3>1. config \in Config /\ parents = ParentChunks(config.parent) /\ children = AllChildren
      BY <1>1, <2>2 DEF ChunksInv
    <3>2. parents \in Seq(ParentType) /\ children \in Seq(Child)
      BY <1>1, <3>1, ParentsAre, ChildrenAreThose
    <3> QED
      BY <3>1, <3>2 DEF ChunkerTypeOK, ParentType, Child, Span
  <2> QED
    BY <2>1, <2>2
<1> QED
  BY <1>2, <1>3, <1>4, <1>5, <1>6 DEF TypeOK

\* Whatever the file, its parser and the configuration, every variable has its
\* type and a block comes after the one it hangs below: blocks are only added, and
\* only below what the section stack, the pages, the slide or the list of calls
\* still holds (BlockBuilder.build_block and the parsers' parent_id).
THEOREM DocumentsTyped == Spec => []TypeOK
<1>1. Spec => []TypeInv
  BY TypeInvHolds
<1>2. TypeInv => TypeOK
  BY TypeInvTypes
<1> QED
  BY <1>1, <1>2, PTL

----------------------------------------------------------------------------
(* SplitsCleanly.                                                          *)

\* The children of a leaf are the parts its text is split into.
LEMMA PartsAre ==
    ASSUME TypeInv, phase = "done", NEW i \in Leaves
    PROVE  /\ config \in Config /\ WellSplit(blocks[i].text, CutOf(i, config), config.max, config.overlap, config.min)
           /\ Len(CutOf(i, config)) \in Nat \ {0}
           /\ PartsOf(i) \in Seq(Child) /\ Len(PartsOf(i)) = Len(CutOf(i, config))
           /\ \A n \in 1..Len(CutOf(i, config)) :
                  /\ PartsOf(i)[n].span = CutOf(i, config)[n]
                  /\ PartsOf(i)[n].parent = ParentOf(i, Emitted)
                  /\ PartsOf(i)[n].text = Trimmed(blocks[i].text, CutOf(i, config)[n])
<1>1. Forest(blocks) /\ config \in Config /\ children = AllChildren
  BY DEF TypeInv, ChunksInv
<1>2. PICK cuts : /\ cuts = CutOf(i, config) /\ cuts \in Seq(Span) /\ Len(cuts) \in Nat \ {0}
                  /\ WellSplit(blocks[i].text, cuts, config.max, config.overlap, config.min)
  BY <1>1, ChildrenOfIs
<1>3. PICK m \in Nat \ {0} : m = Len(cuts)
  BY <1>2
<1>4. PICK a \in Nat : KidsAt(i, a, config)
  BY <1>1, ChildrenAreThose DEF KidsAt
<1>5. {n \in DOMAIN children : children[n].block = i} = a + 1 .. a + m
      /\ \A j \in 1..m : children[a + j] = KidOf(i, cuts[j], ParentOf(i, Emitted))
  BY <1>2, <1>3, <1>4 DEF KidsAt, ChildAt
<1>6. PICK own : own = InOrderOf(a + 1 .. a + m, <) /\ own = [k \in 1..m |-> a + k]
  BY Consecutive
<1>7. PICK parts : parts = PartsOf(i)
  OBVIOUS
<1>8. parts = [n \in DOMAIN own |-> children[own[n]]]
  BY <1>5, <1>6, <1>7 DEF PartsOf
<1>9. \A n \in 1..m : parts[n] = KidOf(i, cuts[n], ParentOf(i, Emitted))
  BY <1>5, <1>6, <1>8
<1>10. \A n \in 1..m : parts[n] \in Child
  <2> TAKE n \in 1..m
  <2>1. a + n \in DOMAIN children
    BY <1>5
  <2>2. children \in Seq(Child)
    BY <1>1, ChildrenAreThose
  <2>3. children[a + n] \in Child
    BY <2>1, <2>2
  <2> QED
    BY <1>6, <1>8, <2>3
<1>11. parts \in [1..m -> Child]
  BY <1>6, <1>8, <1>10
<1>12. parts \in Seq(Child) /\ Len(parts) = m
  BY <1>11, FunctionSeq
<1>13. \A n \in 1..m : /\ parts[n].span = cuts[n] /\ parts[n].parent = ParentOf(i, Emitted)
                       /\ parts[n].text = Trimmed(blocks[i].text, cuts[n])
  <2> TAKE n \in 1..m
  <2>1. PICK kid : kid = KidOf(i, cuts[n], ParentOf(i, Emitted))
    OBVIOUS
  <2>2. kid.span = cuts[n] /\ kid.parent = ParentOf(i, Emitted) /\ kid.text = Trimmed(blocks[i].text, cuts[n])
    BY <2>1 DEF KidOf
  <2> QED
    BY <1>9, <2>1, <2>2
<1>14. PartsOf(i) = parts /\ CutOf(i, config) = cuts /\ Len(cuts) = m
  BY <1>2, <1>3, <1>7
<1> QED
  BY <1>1, <1>2, <1>12, <1>13, <1>14, Zenon

LEMMA FitsOnly == TypeInv /\ phase = "done" => PartsFit
<1> SUFFICES ASSUME TypeInv, phase = "done", NEW n \in DOMAIN children
             PROVE  Length(children[n].span) \in 1..config.max
  BY DEF PartsFit
<1>1. Forest(blocks) /\ config \in Config /\ children = AllChildren
  BY DEF TypeInv, ChunksInv
<1>2. n \in 1..Len(children)
  BY <1>1, ChildrenAreThose
<1>3. PICK i \in Leaves : \E j \in 1..Len(CutOf(i, config)) : ChildAt(n, i, j, config)
  BY <1>1, <1>2, ChildrenAreThose
<1>4. PICK j \in 1..Len(CutOf(i, config)) : ChildAt(n, i, j, config)
  BY <1>3
<1>5. children[n].span = CutOf(i, config)[j]
  BY <1>4 DEF ChildAt, KidOf
<1>6. WellSplit(blocks[i].text, CutOf(i, config), config.max, config.overlap, config.min)
  BY PartsAre
<1> QED
  BY <1>4, <1>5, <1>6 DEF WellSplit

LEMMA PairsAre ==
    ASSUME TypeInv, phase = "done", NEW i \in Leaves, NEW p \in Pairs(PartsOf(i))
    PROVE  \E n \in 1..Len(CutOf(i, config)) - 1 : p = <<CutOf(i, config)[n], CutOf(i, config)[n + 1]>>
<1>1. PICK parts : parts = PartsOf(i)
  OBVIOUS
<1>2. PICK cuts : cuts = CutOf(i, config)
  OBVIOUS
<1>3. PICK m \in Nat \ {0} : m = Len(cuts) /\ m = Len(parts) /\ \A n \in 1..m : parts[n].span = cuts[n]
  BY <1>1, <1>2, PartsAre
<1>4. PICK n \in 1..m - 1 : p = <<parts[n].span, parts[n + 1].span>>
  BY <1>1, <1>3 DEF Pairs
<1>5. n \in 1..m /\ n + 1 \in 1..m
  OBVIOUS
<1> QED
  BY <1>2, <1>3, <1>4, <1>5

LEMMA CoverAll == TypeInv /\ phase = "done" => PartsCover
<1> SUFFICES ASSUME TypeInv, phase = "done" PROVE PartsCover
  OBVIOUS
<1>1. ASSUME NEW i \in Leaves
      PROVE  LET parts == PartsOf(i)
                 last == Last(parts).span
                 rest == blocks[i].text.len - last[2]
             IN  /\ parts # <<>> /\ parts[1].span[1] = 1
                 /\ \A p \in Pairs(parts) :
                        /\ p[2][1] \in p[1][2] + 1 - config.overlap .. p[1][2] + 1
                        /\ p[2][2] > p[1][2]
                 /\ \/ rest = 0
                    \/ rest \in 1..config.min - 1 /\ Length(last) + rest > config.max
  <2>1. PICK parts : parts = PartsOf(i)
    OBVIOUS
  <2>2. PICK cuts : cuts = CutOf(i, config)
    OBVIOUS
  <2>3. PICK m \in Nat \ {0} : m = Len(cuts) /\ m = Len(parts) /\ \A n \in 1..m : parts[n].span = cuts[n]
    BY <2>1, <2>2, PartsAre
  <2>4. WellSplit(blocks[i].text, cuts, config.max, config.overlap, config.min)
    BY <2>2, PartsAre
  <2>5. parts # <<>> /\ parts[1].span[1] = 1
    <3>1. parts \in Seq(Child) /\ 1 \in 1..m
      BY <2>1, PartsAre
    <3> QED
      BY <2>3, <2>4, <3>1 DEF WellSplit
  <2>6. \A p \in Pairs(parts) :
            /\ p[2][1] \in p[1][2] + 1 - config.overlap .. p[1][2] + 1
            /\ p[2][2] > p[1][2]
    <3> TAKE p \in Pairs(parts)
    <3>1. PICK n \in 1..m - 1 : p = <<cuts[n], cuts[n + 1]>>
      BY <2>1, <2>2, <2>3, PairsAre
    <3>2. p[1] = cuts[n] /\ p[2] = cuts[n + 1]
      BY <3>1
    <3> QED
      BY <2>3, <2>4, <3>2 DEF WellSplit
  <2>7. Last(parts).span = cuts[m] /\ Last(cuts) = cuts[m]
    BY <2>3 DEF Last
  <2>8. PICK e \in Nat, l \in Nat : e = cuts[m][2] /\ l = blocks[i].text.len
    <3>1. cuts \in Seq(Span) /\ m \in 1..Len(cuts)
      BY <2>3, <2>4 DEF WellSplit
    <3>2. cuts[m] \in Span
      BY <3>1
    <3>3. blocks[i].text \in Text
      BY LeavesAre, ForestTyped DEF TypeInv
    <3> QED
      BY <3>2, <3>3 DEF Span, Text
  <2>9. LeftOver(blocks[i].text, cuts, config.max, config.min, e)
    BY <2>3, <2>4, <2>8 DEF WellSplit
  <2>10. \/ l - e = 0
         \/ l - e \in 1..config.min - 1 /\ Length(cuts[m]) + (l - e) > config.max
    BY <2>7, <2>8, <2>9 DEF LeftOver
  <2> QED
    BY <2>1, <2>5, <2>6, <2>7, <2>8, <2>10
<1> QED
  BY <1>1 DEF PartsCover

\* A cut inside a stretch without separators is inside a single one.
LEMMA StretchIs ==
    ASSUME NEW text \in Text, NEW max \in Nat, NEW c \in Nat, GoodCut(text, max, c), c \notin AllEnds(text)
    PROVE  LET ends == AllEnds(text)
               s == CHOOSE s \in ends \X ends : s[1] < c /\ c < s[2] /\ \A e \in ends : e <= s[1] \/ s[2] <= e
           IN  s[2] - s[1] > max
<1>1. PICK a \in Nat, b \in Nat : Solid(text, a, b) /\ a <= c /\ c < b /\ b - a + 1 > max
  BY DEF GoodCut
<1>2. PICK ends : ends = AllEnds(text) /\ ends \subseteq Nat
  BY EndsAreNumbers
<1>3. a - 1 \in ends /\ b \in ends /\ \A e \in ends : e <= a - 1 \/ b <= e
  BY <1>1, <1>2 DEF Solid
<1>4. c \in Nat
  OBVIOUS
<1> DEFINE Fits2(s) == s[1] < c /\ c < s[2] /\ \A e \in ends : e <= s[1] \/ s[2] <= e
<1>5. <<a - 1, b>> \in ends \X ends /\ Fits2(<<a - 1, b>>)
  BY <1>1, <1>3, <1>4
<1>6. ASSUME NEW s \in ends \X ends, Fits2(s) PROVE s = <<a - 1, b>>
  <2>1. PICK x \in ends, y \in ends : s = <<x, y>>
    OBVIOUS
  <2>2. x < c /\ c < y /\ (a - 1 <= x \/ y <= a - 1) /\ (b <= x \/ y <= b) /\ x \in Nat /\ y \in Nat
    BY <1>2, <1>3, <1>6, <2>1
  <2>3. (x <= a - 1 \/ b <= x) /\ (y <= a - 1 \/ b <= y)
    BY <1>3, <2>1
  <2>4. x = a - 1 /\ y = b
    BY <1>1, <1>4, <2>2, <2>3
  <2> QED
    BY <2>1, <2>4
<1> HIDE DEF Fits2
<1>7. (CHOOSE s \in ends \X ends : Fits2(s)) = <<a - 1, b>>
  BY <1>5, <1>6
<1>8. b - (a - 1) > max
  BY <1>1
<1>9. PICK s : s = CHOOSE x \in ends \X ends : Fits2(x)
  OBVIOUS
<1>10. s[2] - s[1] > max
  <2>1. s = <<a - 1, b>>
    BY <1>7, <1>9
  <2>2. s[1] = a - 1 /\ s[2] = b
    BY <2>1
  <2> QED
    BY <1>8, <2>2
<1>11. s = CHOOSE x \in ends \X ends : x[1] < c /\ c < x[2] /\ \A e \in ends : e <= x[1] \/ x[2] <= e
  BY <1>9 DEF Fits2
<1>12. (CHOOSE x \in ends \X ends : x[1] < c /\ c < x[2] /\ \A e \in ends : e <= x[1] \/ x[2] <= e)[2]
       - (CHOOSE x \in ends \X ends : x[1] < c /\ c < x[2] /\ \A e \in ends : e <= x[1] \/ x[2] <= e)[1] > max
  BY <1>10, <1>11
<1> QED
  BY <1>2, <1>12

LEMMA CutsAtEnds == TypeInv /\ phase = "done" => CutsAtSeparators
<1> SUFFICES ASSUME TypeInv, phase = "done" PROVE CutsAtSeparators
  OBVIOUS
<1>1. ASSUME NEW i \in Leaves
      PROVE  LET cuts == {p[1][2] : p \in Pairs(PartsOf(i))}
                 ends == {0, blocks[i].text.len} \cup UNION {blocks[i].text.ends[l] : l \in Level}
                 Stretch(c) == CHOOSE s \in ends \X ends :
                                   s[1] < c /\ c < s[2] /\ \A e \in ends : e <= s[1] \/ s[2] <= e
             IN  \A c \in cuts \ ends : Stretch(c)[2] - Stretch(c)[1] > config.max
  <2>1. PICK text \in Text : text = blocks[i].text
    BY LeavesAre, ForestTyped DEF TypeInv
  <2>2. PICK cuts : cuts = CutOf(i, config)
    OBVIOUS
  <2>3. PICK m \in Nat \ {0} : m = Len(cuts)
    BY <2>2, PartsAre
  <2>4. WellSplit(text, cuts, config.max, config.overlap, config.min) /\ config.max \in Nat
    BY <2>1, <2>2, PartsAre, ConfigAssumption
  <2>5. ASSUME NEW c \in {p[1][2] : p \in Pairs(PartsOf(i))}, c \notin AllEnds(text)
        PROVE  LET ends == AllEnds(text)
                   s == CHOOSE s \in ends \X ends : s[1] < c /\ c < s[2] /\ \A e \in ends : e <= s[1] \/ s[2] <= e
               IN  s[2] - s[1] > config.max
    <3>1. PICK p \in Pairs(PartsOf(i)) : c = p[1][2]
      OBVIOUS
    <3>2. PICK n \in 1..m - 1 : p = <<cuts[n], cuts[n + 1]>>
      BY <2>2, <2>3, PairsAre
    <3>3. c = cuts[n][2] /\ GoodCut(text, config.max, c)
      BY <2>3, <2>4, <3>1, <3>2 DEF WellSplit
    <3>4. c \in Nat
      <4>1. cuts \in Seq(Span) /\ n \in 1..Len(cuts)
        BY <2>3, <2>4 DEF WellSplit
      <4>2. cuts[n] \in Span
        BY <4>1
      <4> QED
        BY <3>3, <4>2 DEF Span
    <3> QED
      BY <2>4, <2>5, <3>3, <3>4, StretchIs
  <2>6. AllEnds(text) = {0, blocks[i].text.len} \cup UNION {blocks[i].text.ends[l] : l \in Level}
    BY <2>1 DEF AllEnds
  <2> QED
    BY <2>5, <2>6
<1> QED
  BY <1>1 DEF CutsAtSeparators

\* A part begins no later than behind the one before it.
LEMMA Seamless ==
    ASSUME NEW text, NEW max, NEW overlap \in Nat, NEW min, NEW cuts, WellSplit(text, cuts, max, overlap, min),
           NEW j \in 2..Len(cuts)
    PROVE  /\ j - 1 \in 1..Len(cuts) /\ cuts[j] \in Span /\ cuts[j - 1] \in Span
           /\ cuts[j][1] <= cuts[j - 1][2] + 1 /\ cuts[j - 1][2] < cuts[j][2]
           /\ GoodCut(text, max, cuts[j - 1][2])
<1>1. PICK m \in Nat : m = Len(cuts)
  BY DEF WellSplit
<1>2. j - 1 \in 1..m - 1 /\ (j - 1) + 1 = j /\ j \in 1..m /\ j - 1 \in 1..m
  BY <1>1
<1>3. cuts[j] \in Span /\ cuts[j - 1] \in Span
  BY <1>1, <1>2, Entry DEF WellSplit
<1>4. PICK x \in Nat, y \in Nat, z \in Nat : x = cuts[j][1] /\ y = cuts[j - 1][2] /\ z = cuts[j][2]
  BY <1>3 DEF Span
<1>5. x \in y + 1 - overlap .. y + 1 /\ z > y /\ GoodCut(text, max, cuts[j - 1][2])
  BY <1>1, <1>2, <1>4 DEF WellSplit
<1>6. x <= y + 1 /\ y < z
  BY <1>4, <1>5
<1> QED
  BY <1>1, <1>2, <1>3, <1>4, <1>5, <1>6

LEMMA LosesOnlyRest == TypeInv /\ phase = "done" => OnlyRestLost
<1> SUFFICES ASSUME TypeInv, phase = "done" PROVE OnlyRestLost
  OBVIOUS
<1>1. ASSUME NEW i \in Leaves, NEW p \in 1..blocks[i].text.len,
             p \notin Spaces(blocks[i].text), p <= Last(PartsOf(i)).span[2]
      PROVE  p \in UNION {c.text : c \in ToSet(PartsOf(i))}
  <2>1. PICK parts : parts = PartsOf(i)
    OBVIOUS
  <2>2. PICK cuts : cuts = CutOf(i, config)
    OBVIOUS
  <2>3. PICK m \in Nat \ {0} : /\ m = Len(cuts) /\ m = Len(parts) /\ parts \in Seq(Child)
                               /\ \A n \in 1..m : /\ parts[n].span = cuts[n]
                                                  /\ parts[n].text = Trimmed(blocks[i].text, cuts[n])
    BY <2>1, <2>2, PartsAre
  <2>4. WellSplit(blocks[i].text, cuts, config.max, config.overlap, config.min) /\ config.overlap \in Nat
    BY <2>2, PartsAre, ConfigAssumption
  <2>5. p \in Nat /\ 1 <= p
    <3>1. blocks[i].text.len \in Nat
      BY LeavesAre, ForestTyped DEF TypeInv, Text
    <3> QED
      BY <3>1
  <2> DEFINE T == {n \in 1..m : p <= cuts[n][2]}
  <2>6. m \in T
    <3>1. Last(parts) = parts[m] /\ m \in 1..m
      BY <2>3 DEF Last
    <3> QED
      BY <1>1, <2>1, <2>3, <3>1
  <2>7. PICK j \in Nat : j \in T /\ \A n \in T : j <= n
    <3>1. T \subseteq Nat /\ T # {}
      BY <2>6
    <3> HIDE DEF T
    <3> QED
      BY <3>1, LeastOf
  <2>8. j \in 1..m /\ p <= cuts[j][2] /\ cuts[j] \in Span
    <3>1. j \in 1..m /\ p <= cuts[j][2]
      BY <2>7
    <3> QED
      BY <2>3, <2>4, <3>1, Entry DEF WellSplit
  <2>9. cuts[j][1] <= p
    <3>1. CASE j = 1
      BY <2>4, <2>5, <3>1 DEF WellSplit
    <3>2. CASE j # 1
      <4>1. j \in 2..Len(cuts)
        BY <2>3, <2>8, <3>2
      <4>2. /\ cuts[j - 1] \in Span /\ j - 1 \in 1..m
            /\ cuts[j][1] <= cuts[j - 1][2] + 1
        <5>1. PICK t, x, y : t = blocks[i].text /\ x = config.max /\ y = config.min
          OBVIOUS
        <5>3. PICK z \in Nat : z = config.overlap
          BY <2>4
        <5>2. WellSplit(t, cuts, x, z, y)
          BY <2>4, <5>1, <5>3
        <5> QED
          BY <2>3, <4>1, <5>2, Seamless
      <4>3. PICK x \in Nat, y \in Nat : x = cuts[j][1] /\ y = cuts[j - 1][2]
        BY <2>8, <4>2 DEF Span
      <4>4. j - 1 \notin T
        BY <2>7, <2>8
      <4>5. ~ (p <= y)
        BY <4>2, <4>3, <4>4
      <4> QED
        BY <2>5, <4>2, <4>3, <4>5
    <3> QED
      BY <3>1, <3>2
  <2>10. p \in cuts[j][1]..cuts[j][2]
    BY <2>5, <2>8, <2>9 DEF Span
  <2>11. p \in Trimmed(blocks[i].text, cuts[j])
    BY <1>1, <2>8, <2>10, TrimmedIs
  <2>12. p \in parts[j].text /\ parts[j] \in ToSet(parts)
    BY <2>3, <2>8, <2>11 DEF ToSet
  <2> QED
    BY <2>1, <2>12
<1>2. ASSUME NEW i \in Leaves, NEW p \in 1..blocks[i].text.len
      PROVE  \/ p \in Spaces(blocks[i].text) \/ p \in UNION {c.text : c \in ToSet(PartsOf(i))}
             \/ p > Last(PartsOf(i)).span[2]
  <2>1. blocks[i].text.len \in Nat
    BY LeavesAre, ForestTyped DEF TypeInv, Text
  <2>2. PICK m \in Nat \ {0} : m = Len(PartsOf(i)) /\ PartsOf(i) \in Seq(Child) /\ m \in 1..Len(PartsOf(i))
    BY PartsAre
  <2>3. PartsOf(i)[m] \in Child /\ Last(PartsOf(i)) = PartsOf(i)[m]
    BY <2>2, Entry DEF Last
  <2>4. PICK e \in Nat : e = Last(PartsOf(i)).span[2]
    BY <2>3 DEF Child, Span
  <2> QED
    BY <1>1, <2>1, <2>4
<1> QED
  BY <1>2 DEF OnlyRestLost

\* Where a part of spaces alone begins.
LEMMA BlankBegins ==
    ASSUME NEW text \in Text, NEW max \in Nat, NEW overlap \in Nat, NEW min, NEW cuts,
           WellSplit(text, cuts, max, overlap, min), NEW j \in 1..Len(cuts),
           \A p \in cuts[j][1]..cuts[j][2] : p \in Spaces(text)
    PROVE  \E p \in cuts[j][1]..cuts[j][2] :
               p = 1 \/ p - 1 \in Spaces(text) \/ (p - max >= 1 /\ (p - max .. p - 1) \cap Spaces(text) = {})
<1>1. PICK m \in Nat : m = Len(cuts)
  BY DEF WellSplit
<1>2. cuts[j] \in Span /\ Length(cuts[j]) \in 1..max
  BY Entry DEF WellSplit
<1>3. PICK x \in Nat, z \in Nat : x = cuts[j][1] /\ z = cuts[j][2] /\ x <= z
  <2>1. PICK x \in Nat, z \in Nat : x = cuts[j][1] /\ z = cuts[j][2]
    BY <1>2 DEF Span
  <2> QED
    BY <1>2, <2>1 DEF Length
<1>4. Spaces(text) \subseteq AllEnds(text) /\ AllEnds(text) = {0, text.len} \cup Spaces(text)
  BY DEF AllEnds, Spaces
<1>5. CASE j = 1
  <2>1. x = 1
    BY <1>3, <1>5 DEF WellSplit
  <2> QED
    BY <1>3, <2>1
<1>6. CASE j # 1
  <2>1. j \in 2..Len(cuts)
    BY <1>1, <1>6
  <2>2. cuts[j - 1] \in Span /\ cuts[j][1] <= cuts[j - 1][2] + 1 /\ cuts[j - 1][2] < cuts[j][2]
        /\ GoodCut(text, max, cuts[j - 1][2])
    BY <2>1, Seamless
  <2>3. PICK c \in Nat : c = cuts[j - 1][2]
    BY <2>2 DEF Span
  <2>4. c + 1 \in x..z /\ GoodCut(text, max, c) /\ (c + 1) - 1 = c
    BY <1>3, <2>2, <2>3
  <2>5. c + 1 \in Spaces(text)
    BY <1>3, <2>4
  <2>6. text.len \in Nat /\ \A e \in AllEnds(text) : e \in 0..text.len
    BY EndsAreNumbers
  <2>7. c < text.len
    BY <1>4, <2>5, <2>6
  <2>8. CASE c \in AllEnds(text)
    <3>1. c = 0 \/ c \in Spaces(text)
      BY <1>4, <2>6, <2>7, <2>8
    <3>2. c + 1 = 1 \/ (c + 1) - 1 \in Spaces(text)
      BY <2>4, <3>1
    <3> QED
      BY <1>3, <2>4, <3>2
  <2>9. CASE c \notin AllEnds(text)
    <3>1. PICK a \in Nat, b \in Nat : Solid(text, a, b) /\ a <= c /\ c < b /\ b - a + 1 > max
      BY <2>4, <2>9 DEF GoodCut
    <3>2. 1 <= a /\ \A e \in AllEnds(text) : e <= a - 1 \/ b <= e
      BY <3>1 DEF Solid
    <3>3. b = c + 1
      <4>1. c + 1 <= a - 1 \/ b <= c + 1
        BY <1>4, <2>5, <3>2
      <4> QED
        BY <3>1, <4>1
    <3>4. (c + 1) - max >= 1
      BY <3>1, <3>2, <3>3
    <3>5. ASSUME NEW q \in (c + 1) - max .. (c + 1) - 1, q \in Spaces(text) PROVE FALSE
      <4>1. q \in Nat /\ a <= q /\ q < b
        BY <3>1, <3>2, <3>3
      <4>2. q <= a - 1 \/ b <= q
        BY <1>4, <3>2, <3>5
      <4> QED
        BY <4>1, <4>2
    <3>6. ((c + 1) - max .. (c + 1) - 1) \cap Spaces(text) = {}
      BY <3>5
    <3> QED
      BY <1>3, <2>4, <3>4, <3>6
  <2> QED
    BY <2>8, <2>9
<1> QED
  BY <1>5, <1>6

LEMMA BlanksForced == TypeInv /\ phase = "done" => BlankOnlyWhereForced
<1> SUFFICES ASSUME TypeInv, phase = "done", NEW n \in DOMAIN children, children[n].text = {}
             PROVE  LET spaces == Spaces(blocks[children[n].block].text)
                        from == children[n].span[1]
                    IN  \E p \in from..children[n].span[2] :
                            \/ p = 1 \/ p - 1 \in spaces
                            \/ p - config.max >= 1 /\ (p - config.max .. p - 1) \cap spaces = {}
  BY DEF BlankOnlyWhereForced
<1>1. Forest(blocks) /\ config \in Config /\ children = AllChildren
  BY DEF TypeInv, ChunksInv
<1>2. n \in 1..Len(children)
  BY <1>1, ChildrenAreThose
<1>3. PICK i \in Leaves : \E j \in 1..Len(CutOf(i, config)) : ChildAt(n, i, j, config)
  BY <1>1, <1>2, ChildrenAreThose
<1>4. PICK j \in 1..Len(CutOf(i, config)) : ChildAt(n, i, j, config)
  BY <1>3
<1>5. PICK cuts : /\ cuts = CutOf(i, config) /\ j \in 1..Len(cuts)
                  /\ WellSplit(blocks[i].text, cuts, config.max, config.overlap, config.min)
  BY <1>4, PartsAre
<1>6. /\ children[n].block = i /\ children[n].span = cuts[j]
      /\ children[n].text = Trimmed(blocks[i].text, cuts[j])
  BY <1>4, <1>5 DEF ChildAt, KidOf
<1>7. PICK text \in Text : text = blocks[i].text
  BY LeavesAre, ForestTyped DEF TypeInv
<1>8. cuts[j] \in Span
  BY <1>5, Entry DEF WellSplit
<1>9. \A p \in cuts[j][1]..cuts[j][2] : p \in Spaces(text)
  BY <1>6, <1>7, <1>8, TrimmedIs
<1>10. config.max \in Nat /\ config.overlap \in Nat
  BY <1>1, ConfigAssumption
<1>11. \E p \in cuts[j][1]..cuts[j][2] :
           \/ p = 1 \/ p - 1 \in Spaces(text)
           \/ p - config.max >= 1 /\ (p - config.max .. p - 1) \cap Spaces(text) = {}
  BY <1>5, <1>7, <1>9, <1>10, BlankBegins
<1> QED
  BY <1>6, <1>7, <1>11

LEMMA TypeInvSplits == TypeInv => SplitsCleanly
<1>1. CASE phase = "done"
  BY <1>1, FitsOnly, CoverAll, CutsAtEnds, LosesOnlyRest, BlanksForced DEF SplitsCleanly
<1>2. CASE phase # "done"
  <2>1. ASSUME TypeInv PROVE children = <<>>
    BY <1>2, <2>1 DEF TypeInv, ChunksInv
  <2> QED
    BY <1>2, <2>1 DEF SplitsCleanly, PartsFit, PartsCover, CutsAtSeparators, OnlyRestLost, BlankOnlyWhereForced
<1> QED
  BY <1>1, <1>2

\* Whatever the text, the limits and the minimum, split_text and the merging and
\* the overlap behind it (ingestion/chunkers/splitter.py) and the stripping of each
\* child lose nothing of a leaf but spaces and a rest below the minimum that does not
\* fit, make no child longer than child_max_chars, repeat no more than
\* child_overlap_chars, cut between separators only a stretch that is itself too
\* long, and leave a child empty only behind such a stretch or where spaces follow
\* each other.
THEOREM TextsSplitCleanly == Spec => []SplitsCleanly
<1>1. Spec => []TypeInv
  BY TypeInvHolds
<1>2. TypeInv => SplitsCleanly
  BY TypeInvSplits
<1> QED
  BY <1>1, <1>2, PTL
=============================================================================
