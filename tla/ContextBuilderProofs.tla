------------------------ MODULE ContextBuilderProofs ------------------------
(***************************************************************************)
(* What ContextBuilder promises for any rows, texts, rankings of the two   *)
(* channels and requests: that a packed context has its types, fits its    *)
(* budget, holds the first of the passages and leaves out none that would  *)
(* fit; and what fusion keeps of the rankings, how many hits there are,    *)
(* and what a label of high means.                                         *)
(***************************************************************************)
EXTENDS ContextBuilder, FiniteSetTheorems, SequenceTheorems, WellFoundedInduction, TLAPS

----------------------------------------------------------------------------
(* Fractions in order.                                                     *)

\* Products compare as their first factors do.
LEMMA Times ==
  /\ \A p, q \in Int, r \in Nat \ {0} : p >= q => p * r >= q * r
  /\ \A p, q \in Int, r \in Nat \ {0} : p < q => p * r < q * r
  OBVIOUS

\* Cross multiplication orders fractions.
LEMMA AtLeastTransitive ==
  ASSUME NEW x \in Fraction, NEW y \in Fraction, NEW z \in Fraction,
         AtLeast(x, y), AtLeast(y, z)
  PROVE  AtLeast(x, z)
<1>1. PICK a \in Int, b \in Nat \ {0} : x[1] = a /\ x[2] = b
  BY DEF Fraction
<1>2. PICK c \in Int, d \in Nat \ {0} : y[1] = c /\ y[2] = d
  BY DEF Fraction
<1>3. PICK e \in Int, f \in Nat \ {0} : z[1] = e /\ z[2] = f
  BY DEF Fraction
<1>4. a * d >= c * b /\ c * f >= e * d
  BY <1>1, <1>2, <1>3 DEF AtLeast
<1>5. a * d \in Int /\ c * b \in Int /\ c * f \in Int /\ e * d \in Int /\ a * f \in Int /\ e * b \in Int
  OBVIOUS
<1>6. (a * d) * f >= (c * b) * f /\ (c * f) * b >= (e * d) * b
  BY <1>4, <1>5, Times
<1>7. (a * d) * f = (a * f) * d /\ (c * b) * f = (c * f) * b /\ (e * d) * b = (e * b) * d
  OBVIOUS
<1>8. (a * f) * d >= (e * b) * d
  BY <1>5, <1>6, <1>7
<1>9. a * f >= e * b
  BY <1>5, <1>8, Times
<1>10. QED
  BY <1>1, <1>3, <1>9 DEF AtLeast

LEMMA AboveIsNotAtMost ==
  ASSUME NEW x \in Fraction, NEW y \in Fraction
  PROVE  Above(x, y) <=> ~ AtLeast(y, x)
<1>1. PICK a \in Int, b \in Nat \ {0} : x[1] = a /\ x[2] = b
  BY DEF Fraction
<1>2. PICK c \in Int, d \in Nat \ {0} : y[1] = c /\ y[2] = d
  BY DEF Fraction
<1>3. a * d \in Int /\ c * b \in Int
  OBVIOUS
<1>4. QED
  BY <1>1, <1>2, <1>3 DEF Above, AtLeast

----------------------------------------------------------------------------
(* sorted().                                                               *)

\* Ahead is a strict total order on positions.
LEMMA AheadIsTotal ==
  ASSUME NEW D \in SUBSET Int, NEW scores, \A i \in D : scores[i] \in Fraction
  PROVE  /\ \A i \in D : ~ Ahead(scores, i, i)
         /\ \A i, j \in D : i # j => Ahead(scores, i, j) \/ Ahead(scores, j, i)
         /\ \A i, j, k \in D : Ahead(scores, i, j) /\ Ahead(scores, j, k) => Ahead(scores, i, k)
<1>1. \A i, j \in D : Above(scores[i], scores[j]) <=> ~ AtLeast(scores[j], scores[i])
  BY AboveIsNotAtMost
<1>2. \A i, j, k \in D :
        AtLeast(scores[i], scores[j]) /\ AtLeast(scores[j], scores[k]) => AtLeast(scores[i], scores[k])
  BY AtLeastTransitive
<1>3. \A i, j \in D : AtLeast(scores[i], scores[j]) \/ AtLeast(scores[j], scores[i])
  <2> SUFFICES ASSUME NEW i \in D, NEW j \in D
               PROVE  AtLeast(scores[i], scores[j]) \/ AtLeast(scores[j], scores[i])
    OBVIOUS
  <2>1. PICK a \in Int, b \in Nat \ {0} : scores[i][1] = a /\ scores[i][2] = b
    BY DEF Fraction
  <2>2. PICK c \in Int, d \in Nat \ {0} : scores[j][1] = c /\ scores[j][2] = d
    BY DEF Fraction
  <2>3. a * d \in Int /\ c * b \in Int
    OBVIOUS
  <2>4. QED
    BY <2>1, <2>2, <2>3 DEF AtLeast
<1>4. QED
  BY <1>1, <1>2, <1>3 DEF Ahead

\* Each place is taken by one position.
LEMMA PlaceIsBijection ==
  ASSUME NEW D \in SUBSET Int, IsFiniteSet(D), NEW scores, \A i \in D : scores[i] \in Fraction
  PROVE  /\ Cardinality(D) \in Nat
         /\ \A i, j \in D : Ahead(scores, i, j) => Place(scores, D, i) < Place(scores, D, j)
         /\ \A n \in 1..Cardinality(D) : \E i \in D : Place(scores, D, i) = n
         /\ \A i \in D : Place(scores, D, i) \in 1..Cardinality(D)
<1> DEFINE N == Cardinality(D)
           Before(i) == {j \in D : Ahead(scores, j, i)}
<1>1. \A i \in D : Place(scores, D, i) = Cardinality(Before(i)) + 1
  BY DEF Place
<1>2. N \in Nat /\ IsFiniteSet(1..N) /\ Cardinality(1..N) = N
  <2>1. N \in Nat
    BY FS_CardinalityType
  <2> HIDE DEF N
  <2>2. QED
    BY <2>1, FS_Interval
<1>3. ASSUME NEW i \in D
      PROVE  /\ IsFiniteSet(Before(i)) /\ Cardinality(Before(i)) \in Nat
             /\ Cardinality(Before(i)) <= N - 1
  <2>1. Before(i) \subseteq D \ {i}
    BY AheadIsTotal
  <2>2. IsFiniteSet(D \ {i}) /\ Cardinality(D \ {i}) = N - 1
    BY FS_RemoveElement
  <2> HIDE DEF Before, N
  <2>3. QED
    BY <2>1, <2>2, FS_Subset, FS_CardinalityType
<1>4. ASSUME NEW i \in D, NEW j \in D, Ahead(scores, i, j)
      PROVE  Cardinality(Before(i)) < Cardinality(Before(j))
  <2>1. Before(i) \cup {i} \subseteq Before(j) /\ i \notin Before(i)
    BY <1>4, AheadIsTotal
  <2> HIDE DEF Before, N
  <2>2. Cardinality(Before(i) \cup {i}) = Cardinality(Before(i)) + 1
    BY <1>3, <2>1, FS_AddElement
  <2>3. Cardinality(Before(i) \cup {i}) <= Cardinality(Before(j))
    BY <1>3, <2>1, FS_Subset
  <2>4. QED
    BY <1>3, <2>2, <2>3
<1> HIDE DEF Before
<1>5. \A i \in D : Place(scores, D, i) \in 1..N
  <2> HIDE DEF N
  <2>1. QED
    BY <1>1, <1>2, <1>3
<1>6. \A i, j \in D : Ahead(scores, i, j) => Place(scores, D, i) < Place(scores, D, j)
  BY <1>1, <1>3, <1>4
<1> DEFINE f == [i \in D |-> Place(scores, D, i)]
<1>7. f \in Injection(D, 1..N)
  <2>1. \A i, j \in D : f[i] = f[j] => i = j
    BY <1>5, <1>6, AheadIsTotal
  <2>2. f \in [D -> 1..N]
    BY <1>5
  <2> HIDE DEF f, N
  <2>3. QED
    BY <2>1, <2>2 DEF Injection, IsInjective
<1>8. f \in Surjection(D, 1..N)
  <2> HIDE DEF f
  <2>1. QED
    BY <1>2, <1>7, FS_Injection
<1>9. \A n \in 1..N : \E i \in D : f[i] = n
  <2> HIDE DEF f
  <2>1. QED
    BY <1>8 DEF Surjection
<1>10. QED
  BY <1>2, <1>5, <1>6, <1>9

\* sorted() yields each position once, the better score first and ties in the
\* order they had.
LEMMA SortedBySorts ==
  ASSUME NEW S, NEW seq \in Seq(S), NEW D \in SUBSET DOMAIN seq,
         NEW scores, \A i \in D : scores[i] \in Fraction
  PROVE  /\ SortedBy(seq, scores, D) \in Seq(S)
         /\ Len(SortedBy(seq, scores, D)) = Cardinality(D)
         /\ \E order \in Bijection(1..Cardinality(D), D) :
                /\ \A n \in 1..Cardinality(D) : SortedBy(seq, scores, D)[n] = seq[order[n]]
                /\ \A m, n \in 1..Cardinality(D) : m < n => Ahead(scores, order[m], order[n])
<1> DEFINE N == Cardinality(D)
           order == [n \in 1..N |-> CHOOSE i \in D : Place(scores, D, i) = n]
<1>1. /\ DOMAIN seq = 1..Len(seq) /\ Len(seq) \in Nat /\ \A i \in DOMAIN seq : seq[i] \in S
      /\ D \in SUBSET Int /\ IsFiniteSet(D)
  <2>1. DOMAIN seq = 1..Len(seq) /\ Len(seq) \in Nat /\ \A i \in DOMAIN seq : seq[i] \in S
    BY LenProperties, ElementOfSeq
  <2>2. IsFiniteSet(1..Len(seq))
    BY <2>1, FS_Interval
  <2>3. QED
    BY <2>1, <2>2, FS_Subset
<1>2. N \in Nat /\ IsFiniteSet(1..N) /\ Cardinality(1..N) = N
  BY <1>1, PlaceIsBijection, FS_Interval
<1>3. \A n \in 1..N : order[n] \in D /\ Place(scores, D, order[n]) = n
  BY <1>1, PlaceIsBijection
<1>4. SortedBy(seq, scores, D) = [n \in 1..N |-> seq[order[n]]]
  BY DEF SortedBy
<1>5. order \in [1..N -> D]
  BY <1>3
<1> HIDE DEF order
<1>6. \A m, n \in 1..N : m < n => Ahead(scores, order[m], order[n])
  <2> SUFFICES ASSUME NEW m \in 1..N, NEW n \in 1..N, m < n
               PROVE  Ahead(scores, order[m], order[n])
    OBVIOUS
  <2> DEFINE i == order[m]
             j == order[n]
  <2>1. i \in D /\ j \in D /\ Place(scores, D, i) = m /\ Place(scores, D, j) = n /\ i # j
    BY <1>3
  <2> HIDE DEF i, j
  <2>2. Ahead(scores, j, i) => n < m
    BY <1>1, <2>1, PlaceIsBijection
  <2>3. Ahead(scores, i, j) \/ Ahead(scores, j, i)
    BY <1>1, <2>1, AheadIsTotal
  <2>4. Ahead(scores, i, j)
    BY <1>2, <2>2, <2>3
  <2>5. QED
    BY <2>4 DEF i, j
<1> HIDE DEF N
<1>7. order \in Bijection(1..N, D)
  <2>1. order \in Injection(1..N, D)
    BY <1>3, <1>5 DEF Injection, IsInjective
  <2>2. order \in Surjection(1..N, D)
    BY <1>1, <1>2, <2>1, FS_Injection DEF N
  <2>3. QED
    BY <2>1, <2>2 DEF Bijection
<1>8. SortedBy(seq, scores, D) \in Seq(S) /\ Len(SortedBy(seq, scores, D)) = N
  <2>1. [n \in 1..N |-> seq[order[n]]] \in Seq(S)
    BY <1>1, <1>2, <1>5, IsASeq
  <2>2. Len([n \in 1..N |-> seq[order[n]]]) = N
    BY <1>2
  <2>3. QED
    BY <1>4, <2>1, <2>2
<1>9. QED
  BY <1>4, <1>6, <1>7, <1>8 DEF N

----------------------------------------------------------------------------
(* Types of what the rankings go through.                                  *)

\* A cut keeps the first elements, no more than asked for.
LEMMA CutIsSeq ==
  ASSUME NEW S, NEW s \in Seq(S), NEW n \in Nat
  PROVE  Cut(s, n) \in Seq(S) /\ Len(Cut(s, n)) <= n
  BY SubSeqProperties DEF Cut

LEMMA RowsAreSeq ==
  ASSUME NEW list \in Seq(Scored)
  PROVE  RowsOf(list) \in Seq(Row)
<1>1. DOMAIN list = 1..Len(list) /\ Len(list) \in Nat /\ \A i \in 1..Len(list) : list[i] \in Scored
  BY LenProperties, ElementOfSeq
<1>2. \A i \in 1..Len(list) : list[i].row \in Row
  BY <1>1 DEF Scored
<1>3. QED
  BY <1>1, <1>2, IsASeq DEF RowsOf

\* Each key of the dict scores a fraction above zero.
LEMMA ScoreIsFraction ==
  ASSUME NEW dl \in Seq(Row), NEW ll \in Seq(Row), NEW k \in Nat \ {0}, NEW key
  PROVE  Score(key, dl, ll, k) \in Fraction
<1>1. \A l \in {dl, ll} : RankIn(key, l) \in Nat
  BY DEF RankIn, ToSet
<1>2. PICK a \in Nat, b \in Nat : a = RankIn(key, dl) /\ b = RankIn(key, ll)
  BY <1>1
<1>3. Score(key, dl, ll, k) = RankScore(a, b, k)
  BY <1>2 DEF Score
<1>4. k + a \in Nat \ {0} /\ k + b \in Nat \ {0} /\ 2 * k + a + b \in Int
  OBVIOUS
<1>5. (k + a) * (k + b) \in Nat \ {0}
  <2>1. \A x, y \in Nat \ {0} : x * y \in Nat \ {0}
    OBVIOUS
  <2>2. QED
    BY <1>4, <2>1
<1>6. PICK p \in Nat \ {0}, q \in Int : p = (k + a) * (k + b) /\ q = 2 * k + a + b
  BY <1>4, <1>5
<1>7. RankScore(a, b, k) \in {<<1, k + b>>, <<1, k + a>>, <<q, p>>}
  BY <1>6, Zenon DEF RankScore
<1>8. QED
  BY <1>3, <1>4, <1>7 DEF Fraction

LEMMA FusedIsSeq ==
  ASSUME NEW dl \in Seq(Row), NEW ll \in Seq(Row), NEW k \in Nat \ {0}, NEW n \in Nat
  PROVE  Fused(dl, ll, k, n) \in Seq(Scored)
<1> DEFINE keys == dl \o ll
           scores == [i \in DOMAIN keys |-> Score(keys[i], dl, ll, k)]
           best == Cut(SortedBy(keys, scores, FirstSeen(keys)), n)
<1>1. keys \in Seq(Row) /\ FirstSeen(keys) \in SUBSET DOMAIN keys
  BY ConcatProperties DEF FirstSeen
<1>2. \A i \in FirstSeen(keys) : scores[i] \in Fraction
  BY <1>1, ScoreIsFraction
<1>3. SortedBy(keys, scores, FirstSeen(keys)) \in Seq(Row)
  <2> HIDE DEF keys, scores
  <2>1. QED
    BY <1>1, <1>2, SortedBySorts
<1>4. best \in Seq(Row)
  <2> HIDE DEF keys, scores
  <2>1. QED
    BY <1>3, CutIsSeq
<1>5. Fused(dl, ll, k, n) =
        [i \in DOMAIN best |-> [row |-> best[i], score |-> Score(best[i], dl, ll, k)]]
  BY DEF Fused
<1> HIDE DEF best
<1>6. DOMAIN best = 1..Len(best) /\ Len(best) \in Nat /\ \A i \in 1..Len(best) : best[i] \in Row
  BY <1>4, LenProperties, ElementOfSeq
<1>7. \A i \in 1..Len(best) : [row |-> best[i], score |-> Score(best[i], dl, ll, k)] \in Scored
  BY <1>6, ScoreIsFraction DEF Scored
<1>8. QED
  BY <1>5, <1>6, <1>7, IsASeq

----------------------------------------------------------------------------
(* TypeOK and the budget.                                                  *)

LEMMA Arguments ==
  ASSUME TypeOK
  PROVE  /\ req.topK \in Nat \ {0} /\ req.candidateK \in Nat \ {0} /\ req.rrfK \in Nat \ {0}
         /\ req.maxChars \in Nat \ {0} /\ req.rerank \in BOOLEAN
         /\ RerankTopN \in Nat \ {0} /\ PoolK \in Nat \ {0} /\ ChannelK \in Nat \ {0}
<1>1. /\ req.topK \in Nat \ {0} /\ req.candidateK \in Nat \ {0} /\ req.rrfK \in Nat \ {0}
      /\ req.maxChars \in Nat \ {0} /\ req.rerank \in BOOLEAN
  BY BuilderAssumption DEF TypeOK
<1>2. QED
  BY <1>1, BuilderAssumption DEF RerankTopN, PoolK, ChannelK

\* A hit at hand has a header of some length.
LEMMA AtHand ==
  ASSUME TypeOK, rest # <<>>
  PROVE  /\ Hit \in Row /\ DedupeKey[Hit] \in {DedupeKey[r] : r \in Row}
         /\ Tail(rest) \in Seq(Scored)
         /\ HitOverhead \in Nat /\ BodyLength(Hit) \in Nat /\ Available \in Int
         /\ req.maxChars \in Nat
<1>1. rest[1] \in Scored /\ Tail(rest) \in Seq(Scored)
  BY HeadTailProperties, EmptySeq, LenProperties DEF TypeOK
<1>2. Hit \in Row
  BY <1>1 DEF Hit, Scored
<1>3. PathLength[Hit] \in Nat /\ ChildLength[Hit] \in Nat /\ ParentLength[Hit] \in Nat
  BY <1>2, BuilderAssumption
<1>4. Len(cites) \in Nat
  BY LenProperties DEF TypeOK
<1>5. \A n \in Nat : Digits(n) \in Nat
  <2> TAKE n \in Nat
  <2>1. IsFiniteSet(1..n)
    BY FS_Interval
  <2>2. IsFiniteSet({k \in 1..n : 10^k <= n})
    BY <2>1, FS_Subset
  <2> QED
    BY <2>2, FS_CardinalityType DEF Digits
<1>6. HitOverhead \in Nat
  <2>1. PICK d \in Nat : d = Digits(Len(cites) + 1)
    BY <1>4, <1>5
  <2>2. PICK n \in Nat : n = PathLength[Hit]
    BY <1>3
  <2>3. HitOverhead = d + n + 6 + TrailerLength
    BY <2>1, <2>2 DEF HitOverhead, Overhead
  <2> QED
    BY <2>3 DEF TrailerLength
<1>7. req.maxChars \in Nat
  BY Arguments
<1>8. QED
  BY <1>1, <1>2, <1>3, <1>6, <1>7 DEF BodyLength, Available, TypeOK

\* A cut block fills the budget to the last character.
LEMMA CutFillsBudget ==
  ASSUME TypeOK, rest # <<>>, Available > 0
  PROVE  Kept \in Nat \ {0} /\ used + HitOverhead + Kept = req.maxChars
<1>1. used \in Nat
  BY DEF TypeOK
<1>2. Available \in Int /\ HitOverhead \in Nat /\ req.maxChars \in Nat
  BY AtHand
<1>3. Available = req.maxChars - used - HitOverhead
  BY DEF Available
<1>4. Kept = Available
  BY <1>2 DEF Kept, MarkLength
<1>5. Kept \in Nat \ {0}
  BY <1>2, <1>4
<1>6. \A u, o, m, a \in Int : a = m - u - o => u + o + a = m
  OBVIOUS
<1>7. used + HitOverhead + Kept = req.maxChars
  BY <1>1, <1>2, <1>3, <1>4, <1>6
<1>8. QED
  BY <1>5, <1>7

LEMMA InitIsTyped ==
  ASSUME Init
  PROVE  TypeOK /\ PackedWithinBudget
<1>1. req \in Request /\ req.maxChars \in Nat \ {0}
  BY BuilderAssumption DEF Init
<1>2. dense \in Seq(Scored) /\ lexical \in Seq(Scored)
  <2>1. <<>> \in Seq(Scored)
    OBVIOUS
  <2>2. dense \in DenseResult \cup {<<>>} /\ lexical \in LexicalResult \cup {<<>>}
    BY DEF Init
  <2>3. QED
    BY <2>1, <2>2, BuilderAssumption
<1>3. /\ phase = "search" /\ hits = <<>> /\ rest = <<>> /\ cites = <<>>
      /\ seen = {} /\ used = 0 /\ truncated = FALSE /\ label = "none"
  BY DEF Init
<1>4. <<>> \in Seq(Scored) /\ <<>> \in Seq(Citation)
  OBVIOUS
<1>5. TypeOK
  BY <1>1, <1>2, <1>3, <1>4 DEF TypeOK
<1>6. QED
  BY <1>1, <1>3, <1>5 DEF PackedWithinBudget

\* The searches hand on well-typed candidates and pack nothing.
LEMMA SearchKeepsTypes ==
  ASSUME TypeOK, SearchOneChannel \/ SearchDenseOnly \/ FuseChannels
  PROVE  TypeOK' /\ UNCHANGED <<req, used>>
<1> USE Arguments
<1>1. \E list \in Seq(Scored) : Candidates(list)
  <2>1. CASE SearchOneChannel
    <3>1. Cut(dense, PoolK) \in Seq(Scored) /\ Cut(lexical, PoolK) \in Seq(Scored)
      BY CutIsSeq DEF TypeOK
    <3>2. QED
      BY <2>1, <3>1 DEF SearchOneChannel
  <2>2. CASE SearchDenseOnly
    <3>1. Cut(dense, ChannelK) \in Seq(Scored)
      BY CutIsSeq DEF TypeOK
    <3>2. Cut(Cut(dense, ChannelK), RerankTopN) \in Seq(Scored)
      BY <3>1, CutIsSeq
    <3>3. QED
      BY <2>2, <3>2 DEF SearchDenseOnly
  <2>3. CASE FuseChannels
    <3>1. Cut(dense, ChannelK) \in Seq(Scored) /\ Cut(lexical, ChannelK) \in Seq(Scored)
      BY CutIsSeq DEF TypeOK
    <3>2. RowsOf(Cut(dense, ChannelK)) \in Seq(Row) /\ RowsOf(Cut(lexical, ChannelK)) \in Seq(Row)
      BY <3>1, RowsAreSeq
    <3>3. Fused(RowsOf(Cut(dense, ChannelK)), RowsOf(Cut(lexical, ChannelK)), req.rrfK, PoolK)
            \in Seq(Scored)
      BY <3>2, FusedIsSeq
    <3>4. QED
      BY <2>3, <3>3 DEF FuseChannels
  <2>4. QED
    BY <2>1, <2>2, <2>3
<1>2. PICK list \in Seq(Scored) : Candidates(list)
  BY <1>1
<1>3. hits' = list /\ phase' = "rank" /\ UNCHANGED <<req, dense, lexical, rest, cites, seen, used, truncated, label>>
  BY <1>2 DEF Candidates, input, packing
<1>4. QED
  BY <1>3 DEF TypeOK

\* So do the cut and the cross-encoder.
LEMMA RankKeepsTypes ==
  ASSUME TypeOK, KeepTop \/ Rerank
  PROVE  TypeOK' /\ UNCHANGED <<req, used>>
<1> USE Arguments
<1>1. \E list \in Seq(Scored) : Result(list)
  <2>1. CASE KeepTop
    <3>1. Cut(hits, req.topK) \in Seq(Scored)
      BY CutIsSeq DEF TypeOK
    <3>2. QED
      BY <2>1, <3>1 DEF KeepTop
  <2>2. CASE Rerank
    <3> DEFINE Scores(logit) == [i \in DOMAIN hits |-> logit[hits[i].row]]
               Judged(logit) == [i \in DOMAIN hits |->
                                   [row |-> hits[i].row, score |-> Scores(logit)[i]]]
    <3>1. PICK logit \in [ToSet(RowsOf(hits)) -> Logit] :
            Result(Cut(SortedBy(Judged(logit), Scores(logit), DOMAIN hits), req.topK))
      BY <2>2 DEF Rerank
    <3>2. /\ DOMAIN hits = 1..Len(hits) /\ Len(hits) \in Nat
          /\ \A i \in DOMAIN hits : hits[i] \in Scored
      BY LenProperties, ElementOfSeq DEF TypeOK
    <3>3. \A i \in DOMAIN hits : hits[i].row \in Row /\ hits[i].row \in ToSet(RowsOf(hits))
      BY <3>2 DEF Scored, RowsOf, ToSet
    <3>4. \A i \in DOMAIN hits : Scores(logit)[i] \in Fraction
      BY <3>3, BuilderAssumption
    <3>5. Judged(logit) \in Seq(Scored) /\ DOMAIN Judged(logit) = DOMAIN hits
      <4> HIDE DEF Scores
      <4>1. \A i \in DOMAIN hits : [row |-> hits[i].row, score |-> Scores(logit)[i]] \in Scored
        BY <3>3, <3>4 DEF Scored
      <4>2. QED
        BY <3>2, <4>1, IsASeq
    <3> HIDE DEF Judged, Scores
    <3>6. SortedBy(Judged(logit), Scores(logit), DOMAIN hits) \in Seq(Scored)
      BY <3>4, <3>5, SortedBySorts
    <3>7. QED
      BY <3>1, <3>6, CutIsSeq
  <2>3. QED
    BY <2>1, <2>2
<1>2. PICK list \in Seq(Scored) : Result(list)
  BY <1>1
<1>3. /\ hits' = list /\ rest' = list /\ phase' = "pack"
      /\ UNCHANGED <<req, dense, lexical, cites, seen, used, truncated, label>>
  BY <1>2 DEF Result, input
<1>4. QED
  BY <1>3 DEF TypeOK

\* A packed block has a text, counts for its length and leaves the budget kept.
LEMMA PackingKeepsBudget ==
  ASSUME TypeOK, PackedWithinBudget, PackWhole \/ PackCut
  PROVE  TypeOK' /\ PackedWithinBudget'
<1>1. rest # <<>>
  BY DEF PackWhole, PackCut, Fresh
<1>2. /\ Hit \in Row /\ DedupeKey[Hit] \in {DedupeKey[r] : r \in Row} /\ Tail(rest) \in Seq(Scored)
      /\ HitOverhead \in Nat /\ Available \in Int /\ BodyLength(Hit) \in Nat
      /\ used \in Nat /\ req.maxChars \in Nat /\ Available = req.maxChars - used - HitOverhead
  BY <1>1, AtHand DEF Available, TypeOK
<1>3. PICK n \in Nat \ {0} :
        /\ cites' = Append(cites, [row |-> Hit, key |-> DedupeKey[Hit], length |-> n])
        /\ used' = used + HitOverhead + n
        /\ used + HitOverhead + n <= req.maxChars
        /\ See /\ phase' \in {phase, "judge"} /\ truncated' \in BOOLEAN
        /\ UNCHANGED <<req, dense, lexical, hits, label>>
  <2>1. CASE PackWhole
    <3>1. BodyLength(Hit) \in Nat \ {0} /\ used + HitOverhead + BodyLength(Hit) <= req.maxChars
      BY <2>1, <1>2 DEF PackWhole
    <3>2. QED
      BY <2>1, <3>1 DEF PackWhole, input, TypeOK
  <2>2. CASE PackCut
    <3>1. Kept \in Nat \ {0} /\ used + HitOverhead + Kept = req.maxChars
      BY <2>2, <1>1, CutFillsBudget DEF PackCut
    <3>2. used + HitOverhead + Kept <= req.maxChars
      BY <3>1, <1>2
    <3>3. QED
      BY <2>2, <3>1, <3>2 DEF PackCut, input
  <2>3. QED
    BY <2>1, <2>2
<1>4. cites' \in Seq(Citation)
  <2>1. [row |-> Hit, key |-> DedupeKey[Hit], length |-> n] \in Citation
    BY <1>2 DEF Citation
  <2>2. QED
    BY <1>3, <2>1, AppendProperties DEF TypeOK
<1>5. seen' \subseteq {DedupeKey[r] : r \in Row} /\ rest' \in Seq(Scored)
  BY <1>2, <1>3 DEF See, TypeOK
<1>6. used' \in Nat /\ used' <= req.maxChars
  BY <1>2, <1>3
<1>7. phase' \in {"search", "rank", "pack", "judge", "done"}
  BY <1>3 DEF TypeOK
<1>8. TypeOK'
  BY <1>3, <1>4, <1>5, <1>6, <1>7 DEF TypeOK
<1>9. QED
  BY <1>3, <1>6, <1>8 DEF PackedWithinBudget

\* The other steps of assemble_context, and score_retrieval, use no budget.
LEMMA OthersKeepTypes ==
  ASSUME TypeOK, SkipDuplicate \/ SkipBlank \/ SpendBudget \/ HitsAreThrough \/ Judge
  PROVE  TypeOK' /\ UNCHANGED <<req, used>>
<1>1. CASE SkipDuplicate
  <2>1. Tail(rest) \in Seq(Scored)
    BY <1>1, AtHand DEF SkipDuplicate
  <2>2. QED
    BY <1>1, <2>1 DEF SkipDuplicate, input, TypeOK
<1>2. CASE SkipBlank \/ SpendBudget
  <2>1. /\ See /\ truncated' \in BOOLEAN /\ phase' \in {phase, "judge"} /\ rest # <<>>
        /\ UNCHANGED <<req, dense, lexical, hits, cites, used, label>>
    BY <1>2 DEF SkipBlank, SpendBudget, Fresh, input, TypeOK
  <2>2. Tail(rest) \in Seq(Scored) /\ DedupeKey[Hit] \in {DedupeKey[r] : r \in Row}
    BY <2>1, AtHand
  <2>3. QED
    BY <2>1, <2>2 DEF See, TypeOK
<1>3. CASE HitsAreThrough
  BY <1>3 DEF HitsAreThrough, input, packing, TypeOK
<1>4. CASE Judge
  <2>1. label' \in {"empty", "low", "high"} /\ phase' = "done"
        /\ UNCHANGED <<req, dense, lexical, hits, rest, cites, seen, used, truncated>>
    BY <1>4 DEF Judge, input, packing
  <2>2. QED
    BY <2>1 DEF TypeOK
<1>5. QED
  BY <1>1, <1>2, <1>3, <1>4

LEMMA NextKeepsBudget ==
  ASSUME TypeOK, PackedWithinBudget, [Next]_vars
  PROVE  TypeOK' /\ PackedWithinBudget'
<1>1. CASE TypeOK' /\ UNCHANGED <<req, used>>
  BY <1>1 DEF PackedWithinBudget
<1>2. CASE SearchOneChannel \/ SearchDenseOnly \/ FuseChannels
  BY <1>1, <1>2, SearchKeepsTypes
<1>3. CASE KeepTop \/ Rerank
  BY <1>1, <1>3, RankKeepsTypes
<1>4. CASE PackWhole \/ PackCut
  BY <1>4, PackingKeepsBudget
<1>5. CASE SkipDuplicate \/ SkipBlank \/ SpendBudget \/ HitsAreThrough \/ Judge
  BY <1>1, <1>5, OthersKeepTypes
<1>6. CASE UNCHANGED vars
  BY <1>1, <1>6 DEF vars, input, packing, TypeOK
<1>7. QED
  BY <1>2, <1>3, <1>4, <1>5, <1>6 DEF Next

\* Every step of a request is well typed: each citation names a row of the
\* index and holds some of its text, even where the text is cut for the budget.
THEOREM TypeCorrect == Spec => []TypeOK
<1>1. Init => TypeOK /\ PackedWithinBudget
  BY InitIsTyped
<1>2. TypeOK /\ PackedWithinBudget /\ [Next]_vars => TypeOK' /\ PackedWithinBudget'
  BY NextKeepsBudget
<1>3. QED
  BY <1>1, <1>2, PTL DEF Spec

\* The blocks assemble_context has packed never exceed max_chars.
THEOREM FitsBudget == Spec => []PackedWithinBudget
<1>1. Init => TypeOK /\ PackedWithinBudget
  BY InitIsTyped
<1>2. TypeOK /\ PackedWithinBudget /\ [Next]_vars => TypeOK' /\ PackedWithinBudget'
  BY NextKeepsBudget
<1>3. QED
  BY <1>1, <1>2, PTL DEF Spec

----------------------------------------------------------------------------
(* The passages.                                                           *)

\* How many passages there are up to a hit.
PassagesTo(c) == {i \in PassageHits : i <= c}

\* The citations are the passages up to a hit.
PackedTo(c) ==
    /\ Len(cites) = Cardinality(PassagesTo(c))
    /\ \A i \in PassagesTo(c) : cites[Cardinality(PassagesTo(i))].row = hits[i].row

WholeCites ==
    \A i \in DOMAIN cites : cites[i].length = BodyLength(cites[i].row) \/ (truncated /\ i = Len(cites))

\* The hits up to some one are dealt with: their keys are seen and their passages
\* packed, and those after it are the rest.
PackingInv ==
    IF phase \in {"search", "rank"} THEN cites = <<>> /\ seen = {} /\ ~ truncated
    ELSE /\ WholeCites
         /\ \E c \in 0..Len(hits) :
                /\ PackedTo(c)
                /\ phase = "pack" => /\ ~ truncated
                                     /\ Len(rest) = Len(hits) - c
                                     /\ \A j \in 1..(Len(hits) - c) : rest[j] = hits[c + j]
                                     /\ seen = {DedupeKey[hits[j].row] : j \in 1..c}
                /\ phase # "pack" /\ ~ truncated => c = Len(hits)

\* Passages are counted as they come.
LEMMA PassagesCounted ==
  ASSUME TypeOK
  PROVE  /\ PassageHits \subseteq 1..Len(hits) /\ Len(hits) \in Nat
         /\ \A c \in Nat : IsFiniteSet(PassagesTo(c)) /\ Cardinality(PassagesTo(c)) \in Nat
         /\ IsFiniteSet(PassageHits) /\ Cardinality(PassageHits) \in Nat
         /\ \A c \in Nat : Cardinality(PassagesTo(c)) <= Cardinality(PassageHits)
         /\ PassagesTo(0) = {} /\ PassagesTo(Len(hits)) = PassageHits
         /\ \A c \in Nat : c + 1 \in PassageHits =>
                Cardinality(PassagesTo(c + 1)) = Cardinality(PassagesTo(c)) + 1
         /\ \A c \in Nat : c + 1 \notin PassageHits => PassagesTo(c + 1) = PassagesTo(c)
<1>1. DOMAIN hits = 1..Len(hits) /\ Len(hits) \in Nat
  BY LenProperties DEF TypeOK
<1>2. /\ PassageHits \subseteq 1..Len(hits)
      /\ \A i \in PassageHits : i \in Nat /\ 1 <= i /\ i <= Len(hits)
  BY <1>1 DEF PassageHits
<1>3. IsFiniteSet(PassageHits) /\ Cardinality(PassageHits) \in Nat
  <2>1. IsFiniteSet(1..Len(hits))
    BY <1>1, FS_Interval
  <2>2. QED
    BY <1>2, <2>1, FS_Subset, FS_CardinalityType
<1>0. \A c : \A i : i \in PassagesTo(c) <=> i \in PassageHits /\ i <= c
  BY Zenon DEF PassagesTo
<1>4. ASSUME NEW c \in Nat
      PROVE  /\ IsFiniteSet(PassagesTo(c)) /\ Cardinality(PassagesTo(c)) \in Nat
             /\ Cardinality(PassagesTo(c)) <= Cardinality(PassageHits)
  <2>1. PassagesTo(c) \subseteq PassageHits
    BY DEF PassagesTo
  <2>2. QED
    BY <1>3, <2>1, FS_Subset, FS_CardinalityType
<1>5. PassagesTo(0) = {} /\ PassagesTo(Len(hits)) = PassageHits
  BY <1>0, <1>1, <1>2
<1>6. ASSUME NEW c \in Nat, c + 1 \in PassageHits
      PROVE  Cardinality(PassagesTo(c + 1)) = Cardinality(PassagesTo(c)) + 1
  <2>1. PassagesTo(c + 1) = PassagesTo(c) \cup {c + 1} /\ c + 1 \notin PassagesTo(c)
    <3>1. ~ (c + 1 <= c) /\ \A i \in PassageHits : i <= c + 1 <=> i <= c \/ i = c + 1
      BY <1>2
    <3>2. PICK d : d = c + 1
      OBVIOUS
    <3>3. ~ (d <= c) /\ d \in PassageHits /\ d <= d /\ \A i \in PassageHits : i <= d <=> i <= c \/ i = d
      BY <1>6, <3>1, <3>2
    <3>4. \A i : i \in PassagesTo(d) <=> i \in PassagesTo(c) \cup {d}
      BY <1>0, <3>3, Zenon
    <3>5. d \notin PassagesTo(c)
      BY <1>0, <3>3, Zenon
    <3>6. QED
      BY <3>2, <3>4, <3>5
  <2>2. QED
    BY <1>4, <2>1, FS_AddElement
<1>7. ASSUME NEW c \in Nat, c + 1 \notin PassageHits
      PROVE  PassagesTo(c + 1) = PassagesTo(c)
  <2>1. \A i \in PassageHits : i <= c + 1 <=> i <= c
    BY <1>2, <1>7
  <2>2. \A i : i \in PassagesTo(c + 1) <=> i \in PassagesTo(c)
    BY <1>0, <2>1, Zenon
  <2>3. QED
    BY <2>2
<1>8. QED
  BY <1>1, <1>2, <1>3, <1>4, <1>5, <1>6, <1>7

\* Of two passages the later one has the greater number.
LEMMA PassagesInOrder ==
  ASSUME TypeOK, NEW i \in PassageHits, NEW c \in Nat
  PROVE  /\ Cardinality(PassagesTo(i)) \in Nat \ {0}
         /\ i <= c => Cardinality(PassagesTo(i)) <= Cardinality(PassagesTo(c))
         /\ c < i => Cardinality(PassagesTo(c)) < Cardinality(PassagesTo(i))
<1>1. i \in Nat \ {0} /\ PassageHits \subseteq Nat
  BY PassagesCounted
<1>2. /\ IsFiniteSet(PassagesTo(i)) /\ Cardinality(PassagesTo(i)) \in Nat
      /\ IsFiniteSet(PassagesTo(c)) /\ Cardinality(PassagesTo(c)) \in Nat
  BY <1>1, PassagesCounted
<1>3. ASSUME NEW S, S \subseteq PassagesTo(i), i \notin S, IsFiniteSet(S), Cardinality(S) \in Nat
      PROVE  Cardinality(S) < Cardinality(PassagesTo(i))
  <2>1. S \cup {i} \subseteq PassagesTo(i)
    BY <1>1, <1>3 DEF PassagesTo
  <2>2. Cardinality(S \cup {i}) = Cardinality(S) + 1
    BY <1>3, FS_AddElement
  <2>3. Cardinality(S \cup {i}) <= Cardinality(PassagesTo(i))
    BY <1>2, <2>1, FS_Subset
  <2>4. QED
    BY <1>2, <1>3, <2>2, <2>3
<1>4. Cardinality(PassagesTo(i)) > 0
  BY <1>3, FS_EmptySet
<1>5. ASSUME i <= c
      PROVE  Cardinality(PassagesTo(i)) <= Cardinality(PassagesTo(c))
  <2>1. PassagesTo(i) \subseteq PassagesTo(c)
    <3>1. \A j \in PassageHits : j <= i => j <= c
      BY <1>1, <1>5
    <3>2. QED
      BY <3>1, Zenon DEF PassagesTo
  <2>2. QED
    BY <1>2, <2>1, FS_Subset
<1>6. ASSUME c < i
      PROVE  Cardinality(PassagesTo(c)) < Cardinality(PassagesTo(i))
  <2>1. PassagesTo(c) \subseteq PassagesTo(i) /\ i \notin PassagesTo(c)
    <3>1. ~ (i <= c) /\ \A j \in PassageHits : j <= c => j <= i
      BY <1>1, <1>6
    <3>2. QED
      BY <3>1, Zenon DEF PassagesTo
  <2>2. QED
    BY <1>2, <1>3, <2>1
<1>7. QED
  BY <1>2, <1>4, <1>5, <1>6


\* Every number up to that of all passages is the number of one.
LEMMA PassageNumbers ==
  ASSUME TypeOK, NEW n \in 1..Cardinality(PassageHits)
  PROVE  \E i \in PassageHits : Cardinality(PassagesTo(i)) = n
<1> DEFINE same == [i \in PassageHits |-> <<0, 1>>]
<1>1. PassageHits \in SUBSET Int /\ IsFiniteSet(PassageHits) /\ \A i \in PassageHits : i \in Nat \ {0}
  BY PassagesCounted
<1>2. \A i \in PassageHits : same[i] = <<0, 1>> /\ same[i] \in Fraction
  BY DEF Fraction
<1>3. \A i, j \in PassageHits : Ahead(same, j, i) <=> j <= i - 1
  <2>1. ~ Above(<<0, 1>>, <<0, 1>>) /\ AtLeast(<<0, 1>>, <<0, 1>>)
    BY DEF Above, AtLeast
  <2> HIDE DEF same
  <2>2. \A i, j \in PassageHits : Ahead(same, j, i) <=> j < i
    BY <1>2, <2>1 DEF Ahead
  <2>3. QED
    BY <1>1, <2>2
<1> HIDE DEF same
<1>4. PICK i \in PassageHits : Place(same, PassageHits, i) = n
  BY <1>1, <1>2, PlaceIsBijection
<1>5. {j \in PassageHits : Ahead(same, j, i)} = PassagesTo(i - 1)
  BY <1>3, Zenon DEF PassagesTo
<1>6. PICK c \in Nat : c = i - 1 /\ c + 1 = i
  BY <1>1
<1>7. Cardinality(PassagesTo(i)) = Cardinality(PassagesTo(c)) + 1
  BY <1>6, PassagesCounted
<1>8. QED
  BY <1>4, <1>5, <1>6, <1>7 DEF Place

\* What is packed up to a hit is a prefix of the passages.
LEMMA PackedIsPrefix ==
  ASSUME TypeOK, NEW c \in 0..Len(hits), PackedTo(c)
  PROVE  /\ RowsOf(cites) = Cut(Passages, Len(cites))
         /\ c = Len(hits) => Len(cites) = Len(Passages)
<1> DEFINE N == Cardinality(PassageHits)
<1>1. c \in Nat /\ N \in Nat /\ Len(cites) \in Nat /\ Len(cites) <= N
      /\ Len(cites) = Cardinality(PassagesTo(c)) /\ DOMAIN cites = 1..Len(cites)
  BY PassagesCounted, LenProperties DEF PackedTo, TypeOK
<1>2. c = Len(hits) => Len(cites) = N
  BY <1>1, PassagesCounted
<1> DEFINE Nth(n) == CHOOSE i \in PassageHits : Cardinality(PassagesTo(i)) = n
<1>3. \A n \in 1..N : Nth(n) \in PassageHits /\ Cardinality(PassagesTo(Nth(n))) = n
  BY PassageNumbers
<1>4. Passages = [n \in 1..N |-> hits[Nth(n)].row]
  BY DEF Passages, PassagesTo
<1>5. Len(Passages) = N
  BY <1>1, <1>4
<1> HIDE DEF Nth, N
<1>6. \A n \in 1..Len(cites) : n \in 1..N /\ cites[n].row = hits[Nth(n)].row
  <2> SUFFICES ASSUME NEW n \in 1..Len(cites)
               PROVE  n \in 1..N /\ cites[n].row = hits[Nth(n)].row
    OBVIOUS
  <2>1. n \in 1..N /\ n <= Len(cites)
    BY <1>1
  <2>2. PICK i \in PassageHits : i = Nth(n) /\ Cardinality(PassagesTo(i)) = n
    BY <1>3, <2>1
  <2>3. i \in Nat /\ ~ (c < i)
    <3>1. i \in Nat
      BY PassagesCounted
    <3>2. c < i => Cardinality(PassagesTo(c)) < Cardinality(PassagesTo(i))
      BY <1>1, PassagesInOrder
    <3>3. ~ (Cardinality(PassagesTo(c)) < Cardinality(PassagesTo(i)))
      BY <1>1, <2>1, <2>2
    <3>4. QED
      BY <3>1, <3>2, <3>3
  <2>4. i \in PassagesTo(c)
    BY <1>1, <2>3 DEF PassagesTo
  <2>5. QED
    BY <2>1, <2>2, <2>4 DEF PackedTo
<1>7. Cut(Passages, Len(cites)) = [n \in 1..Len(cites) |-> hits[Nth(n)].row]
  <2>1. PICK m \in Nat : m = Len(cites) /\ m <= N
    BY <1>1
  <2>2. Cut(Passages, m) = SubSeq(Passages, 1, m)
    BY <1>1, <1>5, <2>1 DEF Cut
  <2>3. SubSeq(Passages, 1, m) = [n \in 1..m |-> Passages[n]]
    BY <2>1
  <2>4. \A n \in 1..m : Passages[n] = hits[Nth(n)].row
    BY <1>1, <1>4, <2>1
  <2>5. QED
    BY <2>1, <2>2, <2>3, <2>4
<1>8. RowsOf(cites) = [n \in 1..Len(cites) |-> cites[n].row]
  BY <1>1 DEF RowsOf
<1>9. QED
  BY <1>2, <1>5, <1>6, <1>7, <1>8


----------------------------------------------------------------------------
(* PacksAPrefix.                                                           *)

\* The hit at hand is the one after those dealt with, and a passage if it is fresh
\* and has a text.
LEMMA NextHit ==
  ASSUME TypeOK, rest # <<>>, NEW c \in 0..Len(hits),
         Len(rest) = Len(hits) - c, \A j \in 1..(Len(hits) - c) : rest[j] = hits[c + j],
         seen = {DedupeKey[hits[j].row] : j \in 1..c}
  PROVE  /\ c \in Nat /\ c + 1 \in 1..Len(hits) /\ Hit = hits[c + 1].row
         /\ c + 1 \in PassageHits <=> DedupeKey[Hit] \notin seen /\ BodyLength(Hit) > 0
         /\ Len(Tail(rest)) = Len(hits) - (c + 1)
         /\ \A j \in 1..(Len(hits) - (c + 1)) : Tail(rest)[j] = hits[(c + 1) + j]
         /\ seen \cup {DedupeKey[Hit]} = {DedupeKey[hits[j].row] : j \in 1..(c + 1)}
<1>1. PICK n \in Nat : n = Len(hits) /\ DOMAIN hits = 1..n
  BY LenProperties DEF TypeOK
<1>2. PICK r \in Seq(Scored) : r = rest /\ r # <<>>
  BY DEF TypeOK
<1>3. /\ Len(r) \in Nat \ {0} /\ Len(Tail(r)) = Len(r) - 1
      /\ \A j \in 1..(Len(r) - 1) : Tail(r)[j] = r[j + 1]
  BY <1>2, EmptySeq, LenProperties, HeadTailProperties
<1>4. c \in Nat /\ c + 1 \in 1..n /\ n - c \in Nat \ {0}
  BY <1>1, <1>2, <1>3
<1>5. Hit = hits[c + 1].row
  BY <1>1, <1>4 DEF Hit
<1>6. Len(Tail(rest)) = n - (c + 1)
  BY <1>1, <1>2, <1>3, <1>4
<1>7. \A j \in 1..(n - (c + 1)) : Tail(rest)[j] = hits[(c + 1) + j]
  <2> SUFFICES ASSUME NEW j \in 1..(n - (c + 1))
               PROVE  Tail(rest)[j] = hits[(c + 1) + j]
    OBVIOUS
  <2>1. j \in 1..(Len(r) - 1) /\ j + 1 \in 1..(n - c) /\ c + (j + 1) = (c + 1) + j
    BY <1>1, <1>2, <1>4
  <2>2. Tail(rest)[j] = rest[j + 1]
    BY <1>2, <1>3, <2>1
  <2>3. rest[j + 1] = hits[c + (j + 1)]
    BY <1>1, <2>1
  <2>4. QED
    BY <2>1, <2>2, <2>3
<1>8. \A j : j \in 1..(c + 1) <=> j \in 1..c \/ j = c + 1
  BY <1>4
<1>9. seen \cup {DedupeKey[Hit]} = {DedupeKey[hits[j].row] : j \in 1..(c + 1)}
  BY <1>5, <1>8
<1>10. c + 1 \in PassageHits <=> DedupeKey[Hit] \notin seen /\ BodyLength(Hit) > 0
  <2>1. PICK d \in Nat : d = c + 1 /\ d - 1 = c /\ d \in DOMAIN hits
    BY <1>1, <1>4
  <2>2. d \in PassageHits <=> /\ BodyLength(hits[d].row) > 0
                              /\ \A j \in 1..(d - 1) : DedupeKey[hits[j].row] # DedupeKey[hits[d].row]
    BY <2>1, Zenon DEF PassageHits
  <2>3. (\A j \in 1..c : DedupeKey[hits[j].row] # DedupeKey[Hit]) <=> DedupeKey[Hit] \notin seen
    OBVIOUS
  <2>4. QED
    BY <1>5, <2>1, <2>2, <2>3
<1>11. QED
  BY <1>1, <1>4, <1>5, <1>6, <1>7, <1>9, <1>10


\* The passages are those of the hits, whatever is packed of them.
LEMMA PassagesStay ==
  ASSUME UNCHANGED <<req, hits>>
  PROVE  /\ PassageHits' = PassageHits
         /\ \A c : PassagesTo(c)' = PassagesTo(c)
         /\ \A r : BodyLength(r)' = BodyLength(r)
<1>1. \A r : BodyLength(r)' = BodyLength(r)
  BY DEF BodyLength
<1>2. PassageHits' = PassageHits
  BY DEF PassageHits, BodyLength
<1>3. QED
  BY <1>1, <1>2 DEF PassagesTo

\* A new citation of the hit at hand has the number of its passage.
LEMMA CitationPacks ==
  ASSUME TypeOK, NEW c \in Nat, PackedTo(c), c + 1 \in PassageHits, Hit = hits[c + 1].row,
         NEW citation \in Citation, citation.row = Hit,
         cites' = Append(cites, citation), UNCHANGED <<req, hits>>
  PROVE  /\ PackedTo(c + 1)'
         /\ Len(cites') = Len(cites) + 1 /\ cites'[Len(cites')] = citation
         /\ \A i \in 1..Len(cites) : cites'[i] = cites[i]
<1>1. /\ Len(cites) \in Nat /\ Len(cites') = Len(cites) + 1
      /\ \A i \in 1..Len(cites) : cites'[i] = cites[i]
      /\ cites'[Len(cites) + 1] = citation
  BY LenProperties, AppendProperties DEF TypeOK
<1>2. PICK n \in Nat : n = Len(cites) /\ Cardinality(PassagesTo(c)) = n /\ Cardinality(PassagesTo(c + 1)) = n + 1
  BY <1>1, PassagesCounted DEF PackedTo
<1>3. ASSUME NEW i \in PassagesTo(c + 1)
      PROVE  cites'[Cardinality(PassagesTo(i))].row = hits[i].row
  <2>1. i \in PassageHits /\ i \in Nat /\ (i = c + 1 \/ i <= c)
    BY <1>3, PassagesCounted DEF PassagesTo
  <2>2. CASE i = c + 1
    BY <1>1, <1>2, <2>2
  <2>3. CASE i <= c
    <3>1. i \in PassagesTo(c)
      BY <2>1, <2>3 DEF PassagesTo
    <3>2. Cardinality(PassagesTo(i)) \in Nat \ {0} /\ Cardinality(PassagesTo(i)) <= n
      BY <1>2, <2>1, <2>3, PassagesInOrder
    <3>3. Cardinality(PassagesTo(i)) \in 1..Len(cites)
      BY <1>2, <3>2
    <3>4. QED
      BY <1>1, <3>1, <3>3 DEF PackedTo
  <2>4. QED
    BY <2>1, <2>2, <2>3
<1>4. PackedTo(c + 1)'
  <2>1. PassagesTo(c + 1)' = PassagesTo(c + 1) /\ \A i : PassagesTo(i)' = PassagesTo(i)
    BY PassagesStay
  <2>2. Len(cites') = Cardinality(PassagesTo(c + 1))
    BY <1>1, <1>2
  <2>3. QED
    BY <1>3, <2>1, <2>2 DEF PackedTo
<1>5. QED
  BY <1>1, <1>4

\* A hit is passed over, or packed, and the context is a prefix of the passages
\* still.
LEMMA PackKeepsPrefix ==
  ASSUME TypeOK, PackingInv, SkipDuplicate \/ SkipBlank \/ SpendBudget \/ PackWhole \/ PackCut
  PROVE  PackingInv'
<1>1. /\ phase = "pack" /\ rest # <<>> /\ WholeCites /\ ~ truncated
      /\ UNCHANGED <<req, hits>> /\ rest' = Tail(rest) /\ phase' \in {"pack", "judge"}
      /\ seen' = seen \cup {DedupeKey[Hit]}
  <2>1. SkipDuplicate => seen = seen \cup {DedupeKey[Hit]}
    BY DEF SkipDuplicate
  <2>2. QED
    BY <2>1 DEF PackingInv, SkipDuplicate, SkipBlank, SpendBudget, PackWhole, PackCut, Fresh, See, input
<1>2. PICK c \in 0..Len(hits) :
        /\ PackedTo(c)
        /\ Len(rest) = Len(hits) - c
        /\ \A j \in 1..(Len(hits) - c) : rest[j] = hits[c + j]
        /\ seen = {DedupeKey[hits[j].row] : j \in 1..c}
  BY <1>1 DEF PackingInv
<1>3. /\ c \in Nat /\ c + 1 \in 1..Len(hits) /\ Hit = hits[c + 1].row
      /\ c + 1 \in PassageHits <=> DedupeKey[Hit] \notin seen /\ BodyLength(Hit) > 0
      /\ Len(Tail(rest)) = Len(hits) - (c + 1)
      /\ \A j \in 1..(Len(hits) - (c + 1)) : Tail(rest)[j] = hits[(c + 1) + j]
      /\ seen \cup {DedupeKey[Hit]} = {DedupeKey[hits[j].row] : j \in 1..(c + 1)}
  BY <1>1, <1>2, NextHit
<1>4. /\ \A r : BodyLength(r)' = BodyLength(r)
      /\ \A d : PassagesTo(d)' = PassagesTo(d)
  BY <1>1, PassagesStay
<1>5. ASSUME WholeCites', PackedTo(c + 1)', phase' = "pack", ~ truncated'
      PROVE  PackingInv'
  <2>1. PICK d \in 0..Len(hits) : d = c + 1
    BY <1>3
  <2>2. /\ d \in 0..Len(hits') /\ PackedTo(d)' /\ phase' = "pack" /\ ~ truncated'
        /\ Len(rest') = Len(hits') - d
        /\ \A j \in 1..(Len(hits') - d) : rest'[j] = hits'[d + j]
        /\ seen' = {DedupeKey[hits'[j].row] : j \in 1..d}
    BY <1>1, <1>3, <1>5, <2>1
  <2>3. QED
    BY <1>5, <2>2, Zenon DEF PackingInv
<1>6. ASSUME WholeCites', NEW d \in {c, c + 1}, PackedTo(d)', phase' = "judge", truncated'
      PROVE  PackingInv'
  BY <1>1, <1>2, <1>3, <1>6 DEF PackingInv
<1>7. CASE SkipDuplicate \/ SkipBlank
  <2>1. cites' = cites /\ phase' = "pack" /\ truncated' = truncated /\ c + 1 \notin PassageHits
    BY <1>1, <1>3, <1>7 DEF SkipDuplicate, SkipBlank
  <2>2. PassagesTo(c + 1) = PassagesTo(c)
    BY <1>3, <2>1, PassagesCounted
  <2>3. PackedTo(c + 1)'
    BY <1>1, <1>2, <1>4, <2>1, <2>2 DEF PackedTo
  <2>4. WholeCites'
    BY <1>1, <1>4, <2>1 DEF WholeCites
  <2>5. QED
    BY <1>1, <1>5, <2>1, <2>3, <2>4
<1>8. CASE SpendBudget
  <2>1. cites' = cites /\ phase' = "judge" /\ truncated'
    BY <1>8 DEF SpendBudget
  <2>2. PackedTo(c)'
    BY <1>1, <1>2, <1>4, <2>1 DEF PackedTo
  <2>3. WholeCites'
    BY <1>1, <1>4, <2>1 DEF WholeCites
  <2>4. QED
    BY <1>6, <2>1, <2>2, <2>3
<1>9. CASE PackWhole \/ PackCut
  <2>1. PICK n \in Nat \ {0} :
          /\ cites' = Append(cites, [row |-> Hit, key |-> DedupeKey[Hit], length |-> n])
          /\ n = BodyLength(Hit) \/ truncated'
          /\ \/ phase' = "pack" /\ ~ truncated'
             \/ phase' = "judge" /\ truncated'
    <3>1. CASE PackWhole
      <4>1. BodyLength(Hit) \in Nat \ {0}
        BY <1>1, <3>1, AtHand DEF PackWhole
      <4>2. QED
        BY <1>1, <3>1, <4>1 DEF PackWhole
    <3>2. CASE PackCut
      <4>1. Kept \in Nat \ {0}
        BY <1>1, <3>2, CutFillsBudget DEF PackCut
      <4>2. QED
        BY <3>2, <4>1 DEF PackCut
    <3>3. QED
      BY <1>9, <3>1, <3>2
  <2>2. PICK citation \in Citation :
          /\ citation = [row |-> Hit, key |-> DedupeKey[Hit], length |-> n]
          /\ citation.row = Hit /\ citation.length = n
    <3>1. Hit \in Row /\ DedupeKey[Hit] \in {DedupeKey[r] : r \in Row}
      BY <1>1, AtHand
    <3>2. [row |-> Hit, key |-> DedupeKey[Hit], length |-> n] \in Citation
      BY <3>1 DEF Citation
    <3>3. QED
      BY <3>2
  <2>3. c + 1 \in PassageHits
    <3>1. DedupeKey[Hit] \notin seen
      BY <1>9 DEF PackWhole, PackCut, Fresh
    <3>2. BodyLength(Hit) > 0
      BY <1>1, <1>9, AtHand DEF PackWhole, PackCut
    <3>3. QED
      BY <1>3, <3>1, <3>2
  <2>4. /\ PackedTo(c + 1)'
        /\ Len(cites') = Len(cites) + 1 /\ cites'[Len(cites')] = citation
        /\ \A i \in 1..Len(cites) : cites'[i] = cites[i]
    BY <1>1, <1>2, <1>3, <2>1, <2>2, <2>3, CitationPacks
  <2>5. WholeCites'
    <3>1. cites' \in Seq(Citation) /\ Len(cites) \in Nat
      BY <2>1, <2>2, AppendProperties, LenProperties DEF TypeOK
    <3>2. DOMAIN cites' = 1..(Len(cites) + 1) /\ DOMAIN cites = 1..Len(cites)
      BY <2>4, <3>1, LenProperties DEF TypeOK
    <3>3. ASSUME NEW i \in DOMAIN cites'
          PROVE  cites'[i].length = BodyLength(cites'[i].row) \/ (truncated' /\ i = Len(cites'))
      <4>1. CASE i \in 1..Len(cites)
        BY <1>1, <2>4, <3>2, <4>1 DEF WholeCites
      <4>2. CASE i \notin 1..Len(cites)
        BY <2>1, <2>2, <2>4, <3>1, <3>2, <4>2
      <4>3. QED
        BY <4>1, <4>2
    <3>4. QED
      BY <1>4, <3>3 DEF WholeCites
  <2>6. QED
    BY <1>5, <1>6, <2>1, <2>4, <2>5
<1>10. QED
  BY <1>7, <1>8, <1>9


\* Where nothing of the packing changes but that it is over.
LEMMA PackedStays ==
  ASSUME TypeOK, PackingInv, UNCHANGED <<req, hits, cites, truncated>>,
         phase \in {"pack", "judge", "done"}, phase' \in {"judge", "done"},
         phase = "pack" => rest = <<>>
  PROVE  PackingInv'
<1>1. PICK c \in 0..Len(hits) :
        /\ PackedTo(c) /\ WholeCites
        /\ phase = "pack" => ~ truncated /\ Len(rest) = Len(hits) - c
        /\ phase # "pack" /\ ~ truncated => c = Len(hits)
  BY DEF PackingInv
<1>2. Len(hits) \in Nat
  BY LenProperties DEF TypeOK
<1>3. ~ truncated => c = Len(hits)
  BY <1>1, <1>2
<1>4. (\A r : BodyLength(r)' = BodyLength(r)) /\ \A d : PassagesTo(d)' = PassagesTo(d)
  BY PassagesStay
<1>5. PackedTo(c)' /\ WholeCites'
  BY <1>1, <1>4 DEF PackedTo, WholeCites
<1>6. QED
  BY <1>3, <1>5 DEF PackingInv

LEMMA NextKeepsPrefix ==
  ASSUME TypeOK, PackingInv, [Next]_vars
  PROVE  PackingInv'
<1>1. CASE SearchOneChannel \/ SearchDenseOnly \/ FuseChannels
  <2>1. phase = "search" /\ phase' = "rank" /\ UNCHANGED <<cites, seen, truncated>>
    BY <1>1 DEF SearchOneChannel, SearchDenseOnly, FuseChannels, Candidates, packing
  <2>2. QED
    BY <2>1 DEF PackingInv
<1>2. CASE KeepTop \/ Rerank
  <2>1. /\ phase = "rank" /\ phase' = "pack" /\ rest' = hits'
        /\ UNCHANGED <<cites, seen, truncated>>
    BY <1>2 DEF KeepTop, Rerank, Result
  <2>2. cites' = <<>> /\ seen' = {} /\ ~ truncated'
    BY <2>1 DEF PackingInv
  <2>3. TypeOK'
    BY <1>2, RankKeepsTypes
  <2>4. Len(hits') \in Nat /\ PassagesTo(0)' = {}
    <3>1. Len(hits') \in Nat /\ DOMAIN hits' = 1..Len(hits')
      BY <2>3, LenProperties DEF TypeOK
    <3>2. \A i \in PassageHits' : ~ (i <= 0)
      BY <3>1 DEF PassageHits
    <3>3. QED
      BY <3>1, <3>2 DEF PassagesTo
  <2>5. PackedTo(0)'
    BY <2>2, <2>4, FS_EmptySet DEF PackedTo
  <2>6. WholeCites'
    BY <2>2 DEF WholeCites
  <2>7. /\ 0 \in 0..Len(hits') /\ Len(rest') = Len(hits') - 0
        /\ \A j \in 1..(Len(hits') - 0) : rest'[j] = hits'[0 + j]
        /\ seen' = {DedupeKey[hits'[j].row] : j \in 1..0}
    BY <2>1, <2>2, <2>4
  <2>8. QED
    BY <2>1, <2>2, <2>5, <2>6, <2>7 DEF PackingInv
<1>3. CASE SkipDuplicate \/ SkipBlank \/ SpendBudget \/ PackWhole \/ PackCut
  BY <1>3, PackKeepsPrefix
<1>4. CASE HitsAreThrough \/ Judge
  <2>1. /\ UNCHANGED <<req, hits, cites, truncated>> /\ (phase = "pack" => rest = <<>>)
        /\ phase \in {"pack", "judge", "done"} /\ phase' \in {"judge", "done"}
    BY <1>4 DEF HitsAreThrough, Judge, input, packing
  <2>2. QED
    BY <2>1, PackedStays
<1>5. CASE UNCHANGED vars
  <2>1. /\ (\A r : BodyLength(r)' = BodyLength(r)) /\ (\A d : PassagesTo(d)' = PassagesTo(d))
        /\ UNCHANGED <<phase, hits, rest, cites, seen, truncated>>
    BY <1>5, PassagesStay DEF vars, input, packing
  <2>2. WholeCites' = WholeCites /\ \A c : PackedTo(c)' = PackedTo(c)
    BY <2>1 DEF WholeCites, PackedTo
  <2>3. QED
    BY <2>1, <2>2 DEF PackingInv
<1>6. QED
  BY <1>1, <1>2, <1>3, <1>4, <1>5 DEF Next

\* The citations of a context are the first passages of its hits, whole but for the
\* last one of a truncated context, and all of them if it is not marked truncated
\* (assemble_context).
THEOREM PacksPrefix == Spec => []PacksAPrefix
<1>1. Init => PackingInv
  BY DEF Init, PackingInv
<1>2. TypeOK /\ PackingInv /\ [Next]_vars => PackingInv'
  BY NextKeepsPrefix
<1>3. ASSUME TypeOK, PackingInv PROVE PacksAPrefix
  <2> SUFFICES ASSUME phase = "done" PROVE PacksAPrefix
    BY DEF PacksAPrefix
  <2>1. PICK c \in 0..Len(hits) : PackedTo(c) /\ WholeCites /\ (~ truncated => c = Len(hits))
    BY <1>3 DEF PackingInv
  <2>2. /\ RowsOf(cites) = Cut(Passages, Len(cites))
        /\ c = Len(hits) => Len(cites) = Len(Passages)
    BY <1>3, <2>1, PackedIsPrefix
  <2>3. QED
    BY <2>1, <2>2 DEF PacksAPrefix, WholeCites
<1>4. QED
  BY <1>1, <1>2, <1>3, TypeCorrect, PTL DEF Spec

----------------------------------------------------------------------------
(* TruncatedIfTooLong.                                                     *)

\* Induction, on sets: a set of numbers that has not all of them lacks a least one.
LEMMA NatInduct ==
    ASSUME NEW S, 0 \in S, \A n \in Nat : n \in S => n + 1 \in S
    PROVE  Nat \subseteq S
<1> DEFINE R == OpToRel(<, Nat)
           T == {n \in Nat : n \notin S}
<1>1. IsWellFoundedOn(R, Nat)
  BY NatLessThanWellFounded
<1>2. \A x, y \in Nat : x < y => <<x, y>> \in R
  BY DEF OpToRel
<1> SUFFICES ASSUME T # {} PROVE FALSE
  OBVIOUS
<1>3. T \subseteq Nat
  OBVIOUS
<1> HIDE DEF R, T
<1>4. PICK x \in T : \A y \in T : ~(<<y, x>> \in R)
  BY <1>1, <1>3, WFMin
<1>5. x \in Nat /\ x \notin S
  BY DEF T
<1>6. x - 1 \in Nat /\ x - 1 < x /\ (x - 1) + 1 = x
  BY <1>5
<1>7. x - 1 \notin T
  BY <1>2, <1>3, <1>4, <1>5, <1>6
<1> QED
  BY <1>5, <1>6, <1>7 DEF T

\* A sum of no lengths is 0, and each is the one before it and one length more.
LEMMA SumsStep ==
  ASSUME NEW N \in Nat, NEW lengths, Len(lengths) = N
  PROVE  /\ Sums(lengths)[0] = 0
         /\ \A n \in 1..N : Sums(lengths)[n] = Sums(lengths)[n - 1] + lengths[n]
<1> DEFINE Sum(f, M) == /\ f = [n \in 0..M |-> f[n]] /\ f[0] = 0
                        /\ \A n \in 1..M : f[n] = f[n - 1] + lengths[n]
           Has == {M \in Nat : \E f : Sum(f, M)}
<1>1. 0 \in Has
  <2>1. Sum([n \in 0..0 |-> 0], 0)
    OBVIOUS
  <2>2. QED
    BY <2>1
<1>2. ASSUME NEW M \in Nat, M \in Has PROVE M + 1 \in Has
  <2>1. PICK f : Sum(f, M)
    BY <1>2
  <2>2. PICK last : last = f[M] + lengths[M + 1]
    OBVIOUS
  <2>3. PICK g : g = [n \in 0..(M + 1) |-> IF n = M + 1 THEN last ELSE f[n]]
    OBVIOUS
  <2>4. g = [n \in 0..(M + 1) |-> g[n]] /\ g[0] = 0
    BY <2>1, <2>3
  <2>5. \A n \in 0..M : g[n] = f[n]
    BY <2>3
  <2>6. ASSUME NEW n \in 1..(M + 1) PROVE g[n] = g[n - 1] + lengths[n]
    <3>1. CASE n = M + 1
      <4>1. n - 1 = M /\ M \in 0..M /\ g[n] = last
        BY <3>1, <2>3
      <4>2. QED
        BY <3>1, <4>1, <2>2, <2>5
    <3>2. CASE n # M + 1
      <4>1. n \in 1..M /\ n - 1 \in 0..M /\ n \in 0..M
        BY <3>2
      <4>2. QED
        BY <4>1, <2>1, <2>5
    <3>3. QED
      BY <3>1, <3>2
  <2>7. Sum(g, M + 1)
    BY <2>4, <2>6
  <2>8. M + 1 \in Nat
    OBVIOUS
  <2> HIDE DEF Sum
  <2>9. QED
    BY <2>7, <2>8
<1> DEFINE Equation(f) == f = [n \in 0..N |-> IF n = 0 THEN 0 ELSE f[n - 1] + lengths[n]]
<1>3. \E f : Equation(f)
  <2> HIDE DEF Has
  <2>1. N \in Has
    BY <1>1, <1>2, NatInduct
  <2>2. PICK f : Sum(f, N)
    BY <2>1 DEF Has
  <2>3. ASSUME NEW n \in 0..N PROVE f[n] = IF n = 0 THEN 0 ELSE f[n - 1] + lengths[n]
    <3>1. CASE n = 0
      BY <2>2, <3>1
    <3>2. CASE n # 0
      <4>1. n \in 1..N
        BY <3>2
      <4>2. QED
        BY <2>2, <3>2, <4>1
    <3>3. QED
      BY <3>1, <3>2
  <2>4. Equation(f)
    BY <2>2, <2>3, Zenon
  <2>5. QED
    BY <2>4
<1>4. Sums(lengths) = CHOOSE f : Equation(f)
  BY DEF Sums
<1>5. Equation(Sums(lengths))
  <2> HIDE DEF Equation
  <2>1. QED
    BY <1>3, <1>4
<1>6. PICK s : s = Sums(lengths) /\ s = [n \in 0..N |-> IF n = 0 THEN 0 ELSE s[n - 1] + lengths[n]]
  BY <1>5
<1> HIDE DEF Sum, Has, Equation
<1>7. s[0] = 0
  BY <1>6
<1>8. ASSUME NEW n \in 1..N PROVE s[n] = s[n - 1] + lengths[n]
  <2>1. n \in 0..N /\ n # 0
    OBVIOUS
  <2>2. QED
    BY <1>6, <2>1
<1>9. QED
  BY <1>6, <1>7, <1>8

\* What a context marked truncated leaves out would not have fit.
WholeOnes == {i \in DOMAIN cites : cites[i].length = BodyLength(cites[i].row)}
TooLong ==
    /\ Cardinality(WholeOnes) < Len(Passages)
    /\ Sums(BlockLengths)[Cardinality(WholeOnes) + 1] > req.maxChars

\* The budget is spent on whole blocks until the context is cut.
SpentInv ==
    /\ phase \in {"search", "rank"} => used = 0
    /\ phase = "pack" => used = Sums(BlockLengths)[Len(cites)]
    /\ truncated => TooLong

LEMMA PassagesStill ==
  ASSUME UNCHANGED <<req, hits>>
  PROVE  Passages' = Passages /\ BlockLengths' = BlockLengths
<1>1. PassageHits' = PassageHits /\ \A r : BodyLength(r)' = BodyLength(r)
  BY PassagesStay
<1>2. Passages' = Passages
  BY <1>1 DEF Passages
<1>3. BlockLengths' = BlockLengths
  BY <1>1, <1>2 DEF BlockLengths
<1>4. QED
  BY <1>2, <1>3

\* The passage that comes next has the number of its citation.
LEMMA NextPassage ==
  ASSUME TypeOK, NEW c \in Nat, PackedTo(c), c + 1 \in PassageHits
  PROVE  /\ Len(cites) \in Nat /\ Len(Passages) \in Nat
         /\ Len(cites) + 1 <= Len(Passages)
         /\ Len(BlockLengths) = Len(Passages)
         /\ BlockLengths[Len(cites) + 1] =
                Overhead(Len(cites) + 1, hits[c + 1].row) + BodyLength(hits[c + 1].row)
<1> DEFINE N == Cardinality(PassageHits)
           Nth(n) == CHOOSE i \in PassageHits : Cardinality(PassagesTo(i)) = n
<1>1. /\ Len(cites) \in Nat /\ N \in Nat /\ c + 1 \in Nat
      /\ Cardinality(PassagesTo(c + 1)) = Len(cites) + 1 /\ Len(cites) + 1 <= N
  <2>1. Len(cites) = Cardinality(PassagesTo(c)) /\ c + 1 \in Nat
    BY DEF PackedTo
  <2>2. QED
    BY <2>1, PassagesCounted
<1>2. Passages = [n \in 1..N |-> hits[Nth(n)].row]
  BY DEF Passages, PassagesTo
<1>3. Len(Passages) = N /\ DOMAIN Passages = 1..N
  BY <1>1, <1>2
<1>4. PICK m : m = Len(cites) + 1 /\ m \in 1..N
  BY <1>1
<1>5. Nth(m) \in PassageHits /\ Cardinality(PassagesTo(Nth(m))) = m
  BY <1>1, <1>4
<1> HIDE DEF N
<1>6. Nth(m) = c + 1
  <2> HIDE DEF Nth
  <2>1. PICK i \in PassageHits : i = Nth(m) /\ i \in Nat
    BY <1>5, PassagesCounted
  <2>2. PICK d \in PassageHits : d = c + 1 /\ d \in Nat
    BY <1>1
  <2>3. ~ (i < d) /\ ~ (d < i)
    <3>1. Cardinality(PassagesTo(i)) = m /\ Cardinality(PassagesTo(d)) = m /\ m \in Nat
      BY <1>1, <1>4, <1>5, <2>1, <2>2
    <3>2. i < d => Cardinality(PassagesTo(i)) < Cardinality(PassagesTo(d))
      BY <2>1, <2>2, PassagesInOrder
    <3>3. d < i => Cardinality(PassagesTo(d)) < Cardinality(PassagesTo(i))
      BY <2>1, <2>2, PassagesInOrder
    <3>4. QED
      BY <3>1, <3>2, <3>3
  <2>4. QED
    BY <2>1, <2>2, <2>3
<1>7. Passages[m] = hits[c + 1].row
  BY <1>2, <1>4, <1>6
<1>8. BlockLengths = [n \in 1..N |-> Overhead(n, Passages[n]) + BodyLength(Passages[n])]
  BY <1>3 DEF BlockLengths
<1>9. BlockLengths[m] = Overhead(m, Passages[m]) + BodyLength(Passages[m]) /\ Len(BlockLengths) = N
  BY <1>1, <1>4, <1>8
<1>10. QED
  BY <1>1, <1>3, <1>4, <1>7, <1>9

\* So many citations are whole.
LEMMA WholeCounted ==
  ASSUME NEW S, NEW n \in Nat, S = 1..n
  PROVE  Cardinality(S) = n
  BY FS_Interval

\* A hit at hand takes its block's length of the budget, or has no room for it.
LEMMA HitSpends ==
  ASSUME TypeOK, PackingInv, SpentInv, SpendBudget \/ PackWhole \/ PackCut
  PROVE  SpentInv'
<1>1. /\ phase = "pack" /\ rest # <<>> /\ WholeCites /\ ~ truncated /\ DedupeKey[Hit] \notin seen
      /\ UNCHANGED <<req, hits>>
  BY DEF PackingInv, SpendBudget, PackWhole, PackCut, Fresh, input
<1>2. /\ HitOverhead \in Nat /\ Available \in Int /\ BodyLength(Hit) \in Nat
      /\ used \in Nat /\ req.maxChars \in Nat /\ Available = req.maxChars - used - HitOverhead
      /\ used = Sums(BlockLengths)[Len(cites)]
  BY <1>1, AtHand DEF Available, TypeOK, SpentInv
<1>3. PICK c \in 0..Len(hits) :
        /\ PackedTo(c)
        /\ Len(rest) = Len(hits) - c
        /\ \A j \in 1..(Len(hits) - c) : rest[j] = hits[c + j]
        /\ seen = {DedupeKey[hits[j].row] : j \in 1..c}
  BY <1>1 DEF PackingInv
<1>4. BodyLength(Hit) > 0
  BY <1>2 DEF SpendBudget, PackWhole, PackCut
<1>5. c \in Nat /\ c + 1 \in PassageHits /\ Hit = hits[c + 1].row
  BY <1>1, <1>3, <1>4, NextHit
<1>6. PICK n \in Nat, m \in Nat :
        /\ n = Len(cites) /\ m = Len(Passages) /\ n + 1 <= m /\ Len(BlockLengths) = m
        /\ BlockLengths[n + 1] = HitOverhead + BodyLength(Hit)
  BY <1>3, <1>5, NextPassage DEF HitOverhead
<1>7. Sums(BlockLengths)[n + 1] = used + (HitOverhead + BodyLength(Hit))
  <2>1. n + 1 \in 1..m /\ (n + 1) - 1 = n
    BY <1>6
  <2>2. Sums(BlockLengths)[n + 1] = Sums(BlockLengths)[n] + BlockLengths[n + 1]
    BY <1>6, <2>1, SumsStep
  <2>3. QED
    BY <1>2, <1>6, <2>2
<1>8. /\ Passages' = Passages /\ BlockLengths' = BlockLengths
      /\ \A r : BodyLength(r)' = BodyLength(r)
  BY <1>1, PassagesStill, PassagesStay
<1>9. DOMAIN cites = 1..n /\ \A i \in 1..n : cites[i].length = BodyLength(cites[i].row)
  BY <1>1, <1>6, LenProperties DEF WholeCites, TypeOK
<1>10. ASSUME Available < BodyLength(Hit), phase' = "judge",
              WholeOnes' = 1..n
       PROVE  SpentInv'
  <2>1. Cardinality(WholeOnes') = n
    BY <1>6, <1>10, WholeCounted
  <2>2. used + (HitOverhead + BodyLength(Hit)) > req.maxChars
    BY <1>2, <1>10
  <2>3. n < Len(Passages') /\ Sums(BlockLengths')[n + 1] > req'.maxChars
    BY <1>1, <1>6, <1>7, <1>8, <2>2
  <2>5. TooLong'
    BY <2>1, <2>3 DEF TooLong
  <2>4. QED
    BY <1>10, <2>5 DEF SpentInv
<1>11. CASE SpendBudget
  <2>1. cites' = cites /\ phase' = "judge" /\ Available < BodyLength(Hit)
    BY <1>2, <1>4, <1>11 DEF SpendBudget
  <2>2. WholeOnes' = 1..n
    <3>1. WholeOnes = 1..n
      BY <1>9 DEF WholeOnes
    <3>2. WholeOnes' = WholeOnes
      BY <1>1, <2>1 DEF WholeOnes, BodyLength
    <3>3. QED
      BY <3>1, <3>2
  <2>3. QED
    BY <1>10, <2>1, <2>2
<1>12. ASSUME PackWhole \/ PackCut,
              NEW length, cites' = Append(cites, [row |-> Hit, key |-> DedupeKey[Hit], length |-> length])
       PROVE  /\ DOMAIN cites' = 1..(n + 1) /\ Len(cites') = n + 1
              /\ \A i \in 1..n : cites'[i] = cites[i]
              /\ cites'[n + 1].row = Hit /\ cites'[n + 1].length = length
  <2> DEFINE cite == [row |-> Hit, key |-> DedupeKey[Hit], length |-> length]
             S == Citation \cup {cite}
  <2>1. cites \in Seq(S) /\ cite \in S
    BY DEF TypeOK
  <2>2. cite.row = Hit /\ cite.length = length /\ cites' = Append(cites, cite)
    BY <1>12
  <2> HIDE DEF cite, S
  <2>3. QED
    BY <1>6, <2>1, <2>2, AppendProperties, LenProperties
<1>13. CASE PackWhole
  <2>1. Len(cites') = n + 1 /\ phase' = "pack" /\ ~ truncated' /\ used' = used + HitOverhead + BodyLength(Hit)
    BY <1>1, <1>12, <1>13 DEF PackWhole
  <2>2. used' = Sums(BlockLengths')[Len(cites')]
    BY <1>2, <1>7, <1>8, <2>1
  <2>3. QED
    BY <2>1, <2>2 DEF SpentInv
<1>14. CASE PackCut
  <2>1. Kept = Available
    BY <1>2, <1>14 DEF PackCut, Kept, MarkLength
  <2>2. /\ Available < BodyLength(Hit) /\ phase' = "judge"
        /\ cites' = Append(cites, [row |-> Hit, key |-> DedupeKey[Hit], length |-> Kept])
    BY <1>2, <1>14 DEF PackCut
  <2>3. /\ DOMAIN cites' = 1..(n + 1)
        /\ \A i \in 1..n : cites'[i] = cites[i]
        /\ cites'[n + 1].row = Hit /\ cites'[n + 1].length = Kept
    BY <1>12, <1>14, <2>2
  <2>4. ASSUME NEW i \in 1..(n + 1)
        PROVE  cites'[i].length = BodyLength(cites'[i].row) <=> i \in 1..n
    <3>1. CASE i = n + 1
      BY <1>2, <2>1, <2>2, <2>3, <3>1
    <3>2. CASE i # n + 1
      <4>1. i \in 1..n
        BY <3>2
      <4>2. QED
        BY <1>9, <2>3, <4>1
    <3>3. QED
      BY <3>1, <3>2
  <2>5. \A i : i \in WholeOnes' <=> i \in 1..(n + 1) /\ i \in 1..n
    BY <1>1, <2>3, <2>4 DEF WholeOnes, BodyLength
  <2>6. WholeOnes' = 1..n
    <3>1. 1..n \subseteq 1..(n + 1)
      OBVIOUS
    <3> DEFINE W == WholeOnes'
    <3>2. \A i : i \in W <=> i \in 1..n
      BY <2>5, <3>1
    <3> HIDE DEF W
    <3>3. W = 1..n
      BY <3>2
    <3>4. QED
      BY <3>3 DEF W
  <2>7. QED
    BY <1>10, <2>2, <2>6
<1>15. QED
  BY <1>11, <1>13, <1>14

\* Where nothing is packed the sum stays, and what does not fit does not.
LEMMA SpentStays ==
  ASSUME UNCHANGED <<req, hits, cites, used, truncated>>, SpentInv,
         phase' \in {phase, "judge", "done"}
  PROVE  SpentInv'
<1>1. /\ Passages' = Passages /\ BlockLengths' = BlockLengths
      /\ \A r : BodyLength(r)' = BodyLength(r)
  BY PassagesStill, PassagesStay
<1>2. TooLong' = TooLong
  <2>1. WholeOnes' = WholeOnes
    BY DEF WholeOnes, BodyLength
  <2>2. QED
    BY <1>1, <2>1 DEF TooLong
<1>3. QED
  BY <1>1, <1>2 DEF SpentInv

LEMMA NextSpends ==
  ASSUME TypeOK, PackingInv, SpentInv, [Next]_vars
  PROVE  SpentInv'
<1>1. CASE SearchOneChannel \/ SearchDenseOnly \/ FuseChannels
  <2>1. phase = "search" /\ phase' = "rank" /\ UNCHANGED <<used, truncated>>
    BY <1>1 DEF SearchOneChannel, SearchDenseOnly, FuseChannels, Candidates, packing
  <2>2. QED
    BY <2>1 DEF SpentInv, PackingInv
<1>2. CASE KeepTop \/ Rerank
  <2>0. phase = "rank" /\ phase' = "pack" /\ UNCHANGED <<used, cites, truncated>>
    BY <1>2 DEF KeepTop, Rerank, Result
  <2>1. phase' = "pack" /\ cites' = <<>> /\ used' = 0 /\ ~ truncated'
    BY <2>0 DEF SpentInv, PackingInv
  <2>2. TypeOK'
    BY <1>2, RankKeepsTypes
  <2>3. PICK n \in Nat : Len(BlockLengths') = n
    <3>0. DOMAIN hits' = 1..Len(hits') /\ Len(hits') \in Nat
      BY <2>2, LenProperties DEF TypeOK
    <3>1. IsFiniteSet(DOMAIN hits')
      BY <3>0, FS_Interval
    <3>2. PassageHits' \subseteq DOMAIN hits'
      BY DEF PassageHits
    <3>3. PICK n \in Nat : n = Cardinality(PassageHits')
      BY <3>1, <3>2, FS_Subset, FS_CardinalityType
    <3>4. DOMAIN Passages' = 1..n
      BY <3>3 DEF Passages
    <3>5. Len(BlockLengths') = n
      BY <3>3, <3>4 DEF BlockLengths
    <3>6. QED
      BY <3>5
  <2>4. used' = Sums(BlockLengths')[Len(cites')]
    BY <2>1, <2>3, SumsStep
  <2>5. QED
    BY <2>1, <2>4 DEF SpentInv
<1>3. CASE SpendBudget \/ PackWhole \/ PackCut
  BY <1>3, HitSpends
<1>4. CASE SkipDuplicate \/ SkipBlank \/ HitsAreThrough \/ Judge
  <2>1. UNCHANGED <<req, hits, cites, used, truncated>> /\ phase' \in {phase, "judge", "done"}
    BY <1>4 DEF SkipDuplicate, SkipBlank, HitsAreThrough, Judge, input, packing
  <2>2. QED
    BY <2>1, SpentStays
<1>5. CASE UNCHANGED vars
  BY <1>5, SpentStays DEF vars, input, packing
<1>6. QED
  BY <1>1, <1>2, <1>3, <1>4, <1>5 DEF Next

\* A context is marked truncated only if its whole passages and one more exceed
\* max_chars (assemble_context).
THEOREM TruncatesOnlyTooLong == Spec => []TruncatedIfTooLong
<1>1. Init => PackingInv /\ SpentInv
  BY DEF Init, PackingInv, SpentInv
<1>2. TypeOK /\ PackingInv /\ SpentInv /\ [Next]_vars => PackingInv' /\ SpentInv'
  BY NextKeepsPrefix, NextSpends
<1>3. SpentInv => TruncatedIfTooLong
  BY DEF SpentInv, TooLong, WholeOnes, TruncatedIfTooLong
<1>4. QED
  BY <1>1, <1>2, <1>3, TypeCorrect, PTL DEF Spec

----------------------------------------------------------------------------
(* The score of ranks.                                                     *)

LEMMA Positive == \A x, y \in Nat \ {0} : x * y \in Nat \ {0} /\ x * y = y * x
  OBVIOUS

\* Better ranks in both lists make a greater sum.
LEMMA BothBetter ==
  ASSUME NEW x \in Nat \ {0}, NEW y \in Nat \ {0}, NEW z \in Nat \ {0}, NEW w \in Nat \ {0},
         x <= z, y <= w, x # z \/ y # w
  PROVE  (x + y) * (z * w) > (z + w) * (x * y)
<1>1. (x + y) * (z * w) = (x * z) * w + (y * w) * z
  OBVIOUS
<1>2. (z + w) * (x * y) = (x * z) * y + (y * w) * x
  OBVIOUS
<1>3. x * z \in Nat \ {0} /\ y * w \in Nat \ {0}
  BY Positive
<1>4. PICK p \in Nat \ {0}, q \in Nat \ {0} : p = x * z /\ q = y * w
  BY <1>3
<1>5. p * w >= p * y /\ q * z >= q * x
  BY Times
<1>6. p * w > p * y \/ q * z > q * x
  <2>1. x < z \/ y < w
    OBVIOUS
  <2>2. y < w => y * p < w * p
    BY Times
  <2>3. x < z => x * q < z * q
    BY Times
  <2>4. QED
    BY <2>1, <2>2, <2>3
<1>7. p * w \in Int /\ p * y \in Int /\ q * z \in Int /\ q * x \in Int
  OBVIOUS
<1>8. p * w + q * z > p * y + q * x
  BY <1>5, <1>6, <1>7
<1>9. QED
  BY <1>1, <1>2, <1>4, <1>8

\* Being in two lists beats being in one, no better.
LEMMA TwoBeatOne ==
  ASSUME NEW x \in Nat \ {0}, NEW y \in Nat \ {0}, NEW w \in Nat \ {0}, x <= w \/ y <= w
  PROVE  (x + y) * w > 1 * (x * y)
<1>1. (x + y) * w = x * w + y * w
  OBVIOUS
<1>2. x * w \in Nat \ {0} /\ y * w \in Nat \ {0} /\ x * y \in Nat \ {0}
  BY Positive
<1>3. x * w >= x * y \/ y * w >= x * y
  <2>1. CASE y <= w
    <3>1. w * x >= y * x
      BY <2>1, Times
    <3>2. QED
      BY <3>1, Positive
  <2>2. CASE x <= w
    <3>1. w * y >= x * y
      BY <2>2, Times
    <3>2. QED
      BY <3>1, Positive
  <2>3. QED
    BY <2>1, <2>2
<1>4. QED
  BY <1>1, <1>2, <1>3

\* Two ranks no deeper than k + 1 beat any one rank.
LEMMA AgreementScore ==
  ASSUME NEW k \in Nat \ {0}, NEW x \in Nat \ {0}, NEW y \in Nat \ {0}, NEW w \in Nat \ {0},
         x <= 2 * k + 1, y <= 2 * k + 1, w >= k + 1
  PROVE  (x + y) * w > 1 * (x * y)
<1>1. PICK m \in Nat \ {0} : m = 2 * k + 1
  OBVIOUS
<1>2. m * x >= y * x /\ m * y >= x * y
  BY <1>1, Times
<1>3. x * y \in Nat \ {0} /\ y * x = x * y /\ m * x \in Int /\ m * y \in Int
  BY Positive
<1>4. 2 * (x * y) <= m * x + m * y
  BY <1>2, <1>3
<1>5. m * x + m * y = m * (x + y)
  OBVIOUS
<1>6. PICK s \in Nat \ {0} : s = x + y
  OBVIOUS
<1>7. w * s >= (k + 1) * s
  BY Times
<1>8. 2 * ((k + 1) * s) = m * s + s
  BY <1>1
<1>9. w * s \in Int /\ m * s \in Int /\ (k + 1) * s \in Int
  OBVIOUS
<1>10. 2 * (w * s) > 2 * (x * y)
  BY <1>3, <1>4, <1>5, <1>6, <1>7, <1>8, <1>9
<1>11. w * s > x * y
  BY <1>3, <1>9, <1>10
<1>12. w * s = s * w
  OBVIOUS
<1>13. QED
  BY <1>6, <1>11, <1>12

\* RankScore of a rank in each list, of which 0 is none.
LEMMA RankScoreIs ==
  \A a, b \in Nat, k \in Nat \ {0} :
      /\ a = 0 => RankScore(a, b, k) = <<1, k + b>>
      /\ b = 0 /\ a # 0 => RankScore(a, b, k) = <<1, k + a>>
      /\ a # 0 /\ b # 0 => RankScore(a, b, k) = <<(k + a) + (k + b), (k + a) * (k + b)>>
<1> SUFFICES ASSUME NEW a \in Nat, NEW b \in Nat, NEW k \in Nat \ {0}
             PROVE  /\ a = 0 => RankScore(a, b, k) = <<1, k + b>>
                    /\ b = 0 /\ a # 0 => RankScore(a, b, k) = <<1, k + a>>
                    /\ a # 0 /\ b # 0 => RankScore(a, b, k) = <<(k + a) + (k + b), (k + a) * (k + b)>>
  OBVIOUS
<1>1. 2 * k + a + b = (k + a) + (k + b)
  OBVIOUS
<1>2. QED
  BY <1>1, Zenon DEF RankScore

LEMMA TwoAboveOne ==
  ASSUME NEW x \in Nat \ {0}, NEW y \in Nat \ {0}, NEW w \in Nat \ {0}, (x + y) * w > 1 * (x * y)
  PROVE  Above(<<x + y, x * y>>, <<1, w>>)
<1>1. PICK p \in Int, q \in Int : p = x + y /\ q = x * y
  OBVIOUS
<1>2. p * w > 1 * q
  BY <1>1
<1>3. QED
  BY <1>1, <1>2 DEF Above

LEMMA TwoAboveTwo ==
  ASSUME NEW x \in Nat \ {0}, NEW y \in Nat \ {0}, NEW z \in Nat \ {0}, NEW w \in Nat \ {0},
         (x + y) * (z * w) > (z + w) * (x * y)
  PROVE  Above(<<x + y, x * y>>, <<z + w, z * w>>)
<1>1. PICK p \in Int, q \in Int, m \in Int, n \in Int : p = x + y /\ q = x * y /\ m = z + w /\ n = z * w
  OBVIOUS
<1>2. p * n > m * q
  BY <1>1
<1>3. QED
  BY <1>1, <1>2 DEF Above

LEMMA OneAboveOne == ASSUME NEW x \in Nat, NEW w \in Nat, x < w PROVE Above(<<1, x>>, <<1, w>>)
  BY DEF Above

\* No worse in either list and better in one scores more.
LEMMA BetterRanksScoreMore ==
  ASSUME NEW a \in Nat, NEW b \in Nat, NEW c \in Nat, NEW d \in Nat, NEW k \in Nat \ {0},
         a # 0 \/ b # 0, c # 0 \/ d # 0, NoWorse(a, c), NoWorse(b, d), <<a, b>> # <<c, d>>
  PROVE  Above(RankScore(a, b, k), RankScore(c, d, k))
<1>1. (c # 0 => a # 0 /\ a <= c) /\ (d # 0 => b # 0 /\ b <= d) /\ (a # c \/ b # d)
  BY DEF NoWorse
<1>2. PICK x \in Nat \ {0}, y \in Nat \ {0}, z \in Nat \ {0}, w \in Nat \ {0} :
        x = k + a /\ y = k + b /\ z = k + c /\ w = k + d
  OBVIOUS
<1>8. /\ a = 0 => RankScore(a, b, k) = <<1, y>>
      /\ b = 0 /\ a # 0 => RankScore(a, b, k) = <<1, x>>
      /\ a # 0 /\ b # 0 => RankScore(a, b, k) = <<x + y, x * y>>
  <2>1. /\ a = 0 => RankScore(a, b, k) = <<1, k + b>>
        /\ b = 0 /\ a # 0 => RankScore(a, b, k) = <<1, k + a>>
        /\ a # 0 /\ b # 0 => RankScore(a, b, k) = <<(k + a) + (k + b), (k + a) * (k + b)>>
    BY RankScoreIs, Zenon
  <2>2. QED
    BY <1>2, <2>1, Zenon
<1>9. /\ c = 0 => RankScore(c, d, k) = <<1, w>>
      /\ d = 0 /\ c # 0 => RankScore(c, d, k) = <<1, z>>
      /\ c # 0 /\ d # 0 => RankScore(c, d, k) = <<z + w, z * w>>
  <2>1. /\ c = 0 => RankScore(c, d, k) = <<1, k + d>>
        /\ d = 0 /\ c # 0 => RankScore(c, d, k) = <<1, k + c>>
        /\ c # 0 /\ d # 0 => RankScore(c, d, k) = <<(k + c) + (k + d), (k + c) * (k + d)>>
    BY RankScoreIs, Zenon
  <2>2. QED
    BY <1>2, <2>1, Zenon
<1>3. CASE c # 0 /\ d # 0
  <2>1. (x + y) * (z * w) > (z + w) * (x * y)
    BY <1>1, <1>2, <1>3, BothBetter
  <2>2. Above(<<x + y, x * y>>, <<z + w, z * w>>)
    BY <2>1, TwoAboveTwo
  <2>3. RankScore(a, b, k) = <<x + y, x * y>> /\ RankScore(c, d, k) = <<z + w, z * w>>
    BY <1>1, <1>3, <1>8, <1>9
  <2>4. QED
    BY <2>2, <2>3
<1>4. CASE c = 0 /\ a # 0
  <2>1. b # 0 /\ y <= w
    BY <1>1, <1>2, <1>4
  <2>2. (x + y) * w > 1 * (x * y)
    BY <2>1, TwoBeatOne
  <2>3. Above(<<x + y, x * y>>, <<1, w>>)
    BY <2>2, TwoAboveOne
  <2>4. RankScore(a, b, k) = <<x + y, x * y>> /\ RankScore(c, d, k) = <<1, w>>
    BY <1>4, <2>1, <1>8, <1>9
  <2>5. QED
    BY <2>3, <2>4
<1>5. CASE d = 0 /\ b # 0
  <2>1. a # 0 /\ c # 0 /\ x <= z
    BY <1>1, <1>2, <1>5
  <2>2. (x + y) * z > 1 * (x * y)
    BY <2>1, TwoBeatOne
  <2>3. Above(<<x + y, x * y>>, <<1, z>>)
    BY <2>2, TwoAboveOne
  <2>4. RankScore(a, b, k) = <<x + y, x * y>> /\ RankScore(c, d, k) = <<1, z>>
    BY <1>5, <2>1, <1>8, <1>9
  <2>5. QED
    BY <2>3, <2>4
<1>6. CASE c = 0 /\ a = 0
  <2>1. w > y
    BY <1>1, <1>2, <1>6
  <2>2. QED
    BY <1>6, <2>1, <1>8, <1>9, OneAboveOne
<1>7. CASE d = 0 /\ b = 0
  <2>1. z > x /\ a # 0 /\ c # 0
    BY <1>1, <1>2, <1>7
  <2>2. QED
    BY <1>7, <2>1, <1>8, <1>9, OneAboveOne
<1>10. QED
  BY <1>3, <1>4, <1>5, <1>6, <1>7

\* A row of both lists scores more than one of a single list (docs/adr/0004).
LEMMA AgreedRanksScoreMore ==
  ASSUME NEW a \in Nat \ {0}, NEW b \in Nat \ {0}, NEW c \in Nat, NEW d \in Nat, NEW k \in Nat \ {0},
         a <= k + 1, b <= k + 1, c # 0 \/ d # 0, c = 0 \/ d = 0
  PROVE  Above(RankScore(a, b, k), RankScore(c, d, k))
<1>1. PICK x \in Nat \ {0}, y \in Nat \ {0} :
        x = k + a /\ y = k + b /\ x <= 2 * k + 1 /\ y <= 2 * k + 1
  OBVIOUS
<1>2. PICK z \in Nat \ {0}, w \in Nat \ {0} : z = k + c /\ w = k + d
  OBVIOUS
<1>3. RankScore(a, b, k) = <<x + y, x * y>>
  BY <1>1, RankScoreIs
<1>4. CASE c = 0
  <2>1. w >= k + 1 /\ RankScore(c, d, k) = <<1, w>>
    BY <1>2, <1>4, RankScoreIs
  <2>2. QED
    BY <1>1, <1>3, <2>1, AgreementScore, TwoAboveOne
<1>5. CASE d = 0
  <2>1. z >= k + 1 /\ RankScore(c, d, k) = <<1, z>>
    BY <1>2, <1>5, RankScoreIs
  <2>2. QED
    BY <1>1, <1>3, <2>1, AgreementScore, TwoAboveOne
<1>6. QED
  BY <1>4, <1>5

----------------------------------------------------------------------------
(* Fusion.                                                                 *)

Distinct(list) == \A i, j \in DOMAIN list : list[i] = list[j] => i = j

\* The dict has every row of the two lists, once.
LEMMA FirstSeenRows ==
  ASSUME NEW D \in Seq(Row), NEW L \in Seq(Row), Distinct(D), Distinct(L)
  PROVE  LET keys == D \o L
             all == ToSet(D) \cup ToSet(L)
         IN  /\ keys \in Seq(Row) /\ FirstSeen(keys) \in SUBSET DOMAIN keys
             /\ \A p \in FirstSeen(keys) : keys[p] \in all
             /\ \A p, q \in FirstSeen(keys) : keys[p] = keys[q] => p = q
             /\ \A g \in all : \E p \in FirstSeen(keys) : keys[p] = g
<1> DEFINE keys == D \o L
           all == ToSet(D) \cup ToSet(L)
<1>1. /\ keys \in Seq(Row) /\ DOMAIN keys = 1..(Len(D) + Len(L))
      /\ Len(D) \in Nat /\ Len(L) \in Nat /\ DOMAIN D = 1..Len(D) /\ DOMAIN L = 1..Len(L)
      /\ \A i \in 1..Len(D) : keys[i] = D[i]
      /\ \A i \in (Len(D) + 1)..(Len(D) + Len(L)) : keys[i] = L[i - Len(D)]
  BY ConcatProperties, LenProperties
<1> HIDE DEF keys
<1>2. FirstSeen(keys) \in SUBSET DOMAIN keys
  BY DEF FirstSeen
<1>3. \A p \in DOMAIN keys : keys[p] \in all
  <2> SUFFICES ASSUME NEW p \in DOMAIN keys PROVE keys[p] \in all
    OBVIOUS
  <2>1. CASE p \in 1..Len(D)
    BY <1>1, <2>1 DEF ToSet
  <2>2. CASE p \notin 1..Len(D)
    <3>1. p - Len(D) \in DOMAIN L /\ keys[p] = L[p - Len(D)]
      BY <1>1, <2>2
    <3>2. QED
      BY <3>1 DEF ToSet
  <2>3. QED
    BY <2>1, <2>2
<1>4. ASSUME NEW p \in FirstSeen(keys), NEW q \in FirstSeen(keys), keys[p] = keys[q]
      PROVE  p = q
  <2>1. p \in Nat \ {0} /\ q \in Nat \ {0}
    BY <1>1, <1>2
  <2>2. ~ p < q /\ ~ q < p
    BY <1>4, <2>1 DEF FirstSeen
  <2>3. QED
    BY <2>1, <2>2
<1>5. ASSUME NEW g \in all
      PROVE  \E p \in FirstSeen(keys) : keys[p] = g
  <2>1. CASE g \in ToSet(D)
    <3>1. PICK i \in DOMAIN D : D[i] = g
      BY <2>1 DEF ToSet
    <3>2. keys[i] = g /\ i \in DOMAIN keys
      BY <1>1, <3>1
    <3>3. ASSUME NEW j \in 1..(i - 1) PROVE keys[j] # keys[i]
      <4>1. j \in DOMAIN D /\ j # i /\ keys[j] = D[j] /\ keys[i] = D[i]
        BY <1>1, <3>1
      <4>2. QED
        BY <3>1, <4>1 DEF Distinct
    <3>4. QED
      BY <3>2, <3>3 DEF FirstSeen
  <2>2. CASE g \notin ToSet(D)
    <3>1. PICK i \in DOMAIN L : L[i] = g
      BY <2>2 DEF ToSet
    <3>2. PICK p \in Nat : p = Len(D) + i
      BY <1>1
    <3>3. keys[p] = g /\ p \in DOMAIN keys
      BY <1>1, <3>1, <3>2
    <3>4. ASSUME NEW j \in 1..(p - 1) PROVE keys[j] # g
      <4>1. CASE j \in 1..Len(D)
        BY <1>1, <2>2, <4>1 DEF ToSet
      <4>2. CASE j \notin 1..Len(D)
        <5>1. j - Len(D) \in DOMAIN L /\ j - Len(D) # i /\ keys[j] = L[j - Len(D)]
          BY <1>1, <3>2, <4>2
        <5>2. QED
          BY <3>1, <5>1 DEF Distinct
      <4>3. QED
        BY <4>1, <4>2
    <3>5. QED
      BY <3>3, <3>4 DEF FirstSeen
  <2>3. QED
    BY <2>1, <2>2
<1>6. QED
  BY <1>1, <1>2, <1>3, <1>4, <1>5 DEF keys

\* Each of the rows found, with its score, and no row that scores more missing
\* before it.
RankedBest(fused, all, D, L, k) ==
    \A i \in DOMAIN fused :
        /\ fused[i].row \in all
        /\ fused[i].score = Score(fused[i].row, D, L, k)
        /\ \A g \in all : Above(Score(g, D, L, k), Score(fused[i].row, D, L, k)) =>
                             \E j \in 1..(i - 1) : fused[j].row = g

\* The fused rows, as many as there are up to n.
LEMMA FusedRanks ==
  ASSUME NEW D \in Seq(Row), NEW L \in Seq(Row), Distinct(D), Distinct(L), NEW k \in Nat \ {0}, NEW n \in Nat,
         NEW fused, fused = Fused(D, L, k, n), NEW all, all = ToSet(D) \cup ToSet(L)
  PROVE  /\ IsFiniteSet(all) /\ Cardinality(all) \in Nat
         /\ Len(fused) = IF Cardinality(all) < n THEN Cardinality(all) ELSE n
         /\ RankedBest(fused, all, D, L, k)
<1> DEFINE keys == D \o L
           first == FirstSeen(keys)
           scores == [i \in DOMAIN keys |-> Score(keys[i], D, L, k)]
           N == Cardinality(first)
           sorted == SortedBy(keys, scores, first)
<1>1. /\ keys \in Seq(Row) /\ first \in SUBSET DOMAIN keys
      /\ \A p \in first : keys[p] \in all
      /\ \A p, q \in first : keys[p] = keys[q] => p = q
      /\ \A g \in all : \E p \in first : keys[p] = g
  BY FirstSeenRows
<1>2. \A i \in first : scores[i] \in Fraction /\ scores[i] = Score(keys[i], D, L, k)
  BY <1>1, ScoreIsFraction
<1>3. IsFiniteSet(first) /\ N \in Nat /\ first \in SUBSET Int
  <2>1. DOMAIN keys = 1..Len(keys) /\ Len(keys) \in Nat
    BY <1>1, LenProperties
  <2> HIDE DEF keys
  <2>2. IsFiniteSet(1..Len(keys))
    BY <2>1, FS_Interval
  <2>3. QED
    BY <1>1, <2>1, <2>2, FS_Subset, FS_CardinalityType
<1>4. IsFiniteSet(all) /\ Cardinality(all) = N
  <2> DEFINE f == [p \in first |-> keys[p]]
  <2> HIDE DEF keys, first
  <2>1. f \in Bijection(first, all)
    BY <1>1 DEF Bijection, Injection, Surjection, IsInjective
  <2>2. QED
    BY <1>3, <2>1, FS_Bijection DEF ExistsBijection
<1>5. /\ sorted \in Seq(Row) /\ Len(sorted) = N
      /\ \E order \in Bijection(1..N, first) :
             /\ \A i \in 1..N : sorted[i] = keys[order[i]]
             /\ \A i, j \in 1..N : i < j => Ahead(scores, order[i], order[j])
  <2> HIDE DEF keys, scores, first
  <2>1. \A i \in first : scores[i] \in Fraction
    BY <1>2
  <2>2. SortedBy(keys, scores, first) \in Seq(Row)
    BY <1>1, <2>1, SortedBySorts
  <2>3. Len(SortedBy(keys, scores, first)) = Cardinality(first)
    BY <1>1, <2>1, SortedBySorts
  <2>4. \E order \in Bijection(1..Cardinality(first), first) :
          /\ \A i \in 1..Cardinality(first) : SortedBy(keys, scores, first)[i] = keys[order[i]]
          /\ \A i, j \in 1..Cardinality(first) : i < j => Ahead(scores, order[i], order[j])
    BY <1>1, <2>1, SortedBySorts
  <2>5. QED
    BY <2>2, <2>3, <2>4
<1>6. PICK order \in Bijection(1..N, first) :
             /\ \A i \in 1..N : sorted[i] = keys[order[i]]
             /\ \A i, j \in 1..N : i < j => Ahead(scores, order[i], order[j])
  BY <1>5
<1>7. PICK m \in Nat : m = (IF N < n THEN N ELSE n)
  BY <1>3
<1>8. /\ fused = [i \in 1..m |-> [row |-> sorted[i], score |-> Score(sorted[i], D, L, k)]]
      /\ Len(fused) = m /\ DOMAIN fused = 1..m
  <2> HIDE DEF sorted, N
  <2>1. Cut(sorted, n) = [i \in 1..m |-> sorted[i]]
    BY <1>3, <1>5, <1>7 DEF Cut
  <2>2. fused = [i \in DOMAIN Cut(sorted, n) |->
                    [row |-> Cut(sorted, n)[i], score |-> Score(Cut(sorted, n)[i], D, L, k)]]
    BY DEF Fused, sorted
  <2>3. fused = [i \in 1..m |-> [row |-> sorted[i], score |-> Score(sorted[i], D, L, k)]]
    BY <2>1, <2>2
  <2>4. QED
    BY <2>3
<1>9. \A i \in 1..m : /\ i \in 1..N /\ order[i] \in first /\ fused[i].row = keys[order[i]]
                      /\ fused[i].score = Score(fused[i].row, D, L, k)
  <2> HIDE DEF sorted, N, keys, first, scores
  <2>1. \A i \in 1..m : i \in 1..N /\ order[i] \in first
    BY <1>3, <1>6, <1>7 DEF Bijection, Injection
  <2>2. QED
    BY <1>6, <1>8, <2>1
<1>10. ASSUME NEW i \in 1..m, NEW g \in all, Above(Score(g, D, L, k), Score(fused[i].row, D, L, k))
       PROVE  \E j \in 1..(i - 1) : fused[j].row = g
  <2> HIDE DEF sorted, N, keys, first, scores
  <2>1. PICK p \in first : keys[p] = g
    BY <1>1
  <2>2. PICK j \in 1..N : order[j] = p
    BY <1>6, <2>1 DEF Bijection, Surjection
  <2>3. i \in 1..N /\ order[i] \in first /\ fused[i].row = keys[order[i]]
    BY <1>9
  <2>4. Above(scores[p], scores[order[i]])
    BY <1>2, <1>10, <2>1, <2>3
  <2>5. Ahead(scores, p, order[i])
    BY <2>4 DEF Ahead
  <2>6. ~ Ahead(scores, order[i], p) /\ order[i] # p
    <3>1. \A q \in first : scores[q] \in Fraction
      BY <1>2
    <3>2. first \in SUBSET Int
      BY <1>3
    <3>3. /\ \A q \in first : ~ Ahead(scores, q, q)
          /\ \A q, r, s \in first : Ahead(scores, q, r) /\ Ahead(scores, r, s) => Ahead(scores, q, s)
      BY <3>1, <3>2, AheadIsTotal
    <3>4. QED
      BY <2>1, <2>3, <2>5, <3>3
  <2>7. j < i
    BY <1>3, <1>6, <2>2, <2>3, <2>6
  <2>8. j \in 1..(i - 1) /\ j \in 1..m
    BY <1>7, <2>7
  <2>9. QED
    BY <1>9, <2>1, <2>2, <2>8
<1>11. RankedBest(fused, all, D, L, k)
  <2> HIDE DEF N, keys, first
  <2>1. \A i \in DOMAIN fused : fused[i].row \in all /\ fused[i].score = Score(fused[i].row, D, L, k)
    BY <1>1, <1>8, <1>9
  <2>2. QED
    BY <1>8, <1>10, <2>1 DEF RankedBest
<1>12. QED
  <2> HIDE DEF N
  <2>1. QED
    BY <1>3, <1>4, <1>7, <1>8, <1>11

LEMMA FusedLength ==
  ASSUME NEW D \in Seq(Row), NEW L \in Seq(Row), Distinct(D), Distinct(L), NEW k \in Nat \ {0}, NEW n \in Nat,
         NEW c, c = Cardinality(ToSet(D) \cup ToSet(L))
  PROVE  c \in Nat /\ Len(Fused(D, L, k, n)) = IF c < n THEN c ELSE n
<1>1. /\ Cardinality(ToSet(D) \cup ToSet(L)) \in Nat
      /\ Len(Fused(D, L, k, n)) = IF Cardinality(ToSet(D) \cup ToSet(L)) < n
                                 THEN Cardinality(ToSet(D) \cup ToSet(L)) ELSE n
  BY FusedRanks
<1>2. QED
  BY <1>1, Zenon

----------------------------------------------------------------------------
(* The invariant.                                                          *)

DenseRows == RowsOf(Cut(dense, ChannelK))
LexicalRows == RowsOf(Cut(lexical, ChannelK))
Matching == ToSet(RowsOf(dense)) \cup ToSet(RowsOf(lexical))

\* What the channels returned.
InputInv ==
    /\ Distinct(RowsOf(dense)) /\ Distinct(RowsOf(lexical))
    /\ req.mode = "vector" => lexical = <<>>
    /\ req.mode = "bm25" => dense = <<>>

\* The candidates are all that matched, or enough; those of a fusion are fused.
CandidatesInv ==
    phase = "rank" =>
        /\ req.candidateK >= req.topK =>
               IF Len(hits) < req.topK THEN Len(hits) = Cardinality(Matching) ELSE Cardinality(Matching) >= req.topK
        /\ req.mode = "hybrid" /\ lexical # <<>> /\ ~ req.rerank =>
               hits = Fused(DenseRows, LexicalRows, req.rrfK, req.topK)

HitsInv == FusedHits => hits = Fused(DenseRows, LexicalRows, req.rrfK, req.topK)

HighInv == label = "high" => phase = "done" /\ hits # <<>> /\ IsHigh

RankingInv == InputInv /\ CandidatesInv /\ HitsInv /\ AsManyAsAsked /\ HighInv

LEMMA DistinctCount ==
  ASSUME NEW S, NEW s \in Seq(S), Distinct(s)
  PROVE  IsFiniteSet(ToSet(s)) /\ Cardinality(ToSet(s)) = Len(s)
<1>1. DOMAIN s = 1..Len(s) /\ Len(s) \in Nat
  BY LenProperties
<1>2. IsFiniteSet(1..Len(s)) /\ Cardinality(1..Len(s)) = Len(s)
  BY <1>1, FS_Interval
<1> DEFINE f == [i \in 1..Len(s) |-> s[i]]
<1>3. f \in Bijection(1..Len(s), ToSet(s))
  BY <1>1 DEF Distinct, ToSet, Bijection, Injection, Surjection, IsInjective
<1>4. QED
  BY <1>2, <1>3, FS_Bijection DEF ExistsBijection

\* A cut keeps the first elements, as many as there are up to n.
LEMMA CutKeeps ==
  ASSUME NEW S, NEW list \in Seq(S), NEW n \in Nat
  PROVE  /\ Cut(list, n) \in Seq(S)
         /\ Len(Cut(list, n)) = IF Len(list) < n THEN Len(list) ELSE n
         /\ \A i \in DOMAIN Cut(list, n) : i \in DOMAIN list /\ Cut(list, n)[i] = list[i]
         /\ Len(list) <= n => Cut(list, n) = list
<1>0. PICK l \in Nat : l = Len(list) /\ DOMAIN list = 1..l
  BY LenProperties
<1>1. PICK m \in Nat : m = (IF l < n THEN l ELSE n)
  BY <1>0
<1>2. m <= l /\ (l <= n => m = l) /\ \A i \in 1..m : i \in 1..l
  BY <1>1
<1>3. /\ Cut(list, n) \in Seq(S) /\ Len(Cut(list, n)) = m
      /\ DOMAIN Cut(list, n) = 1..m /\ \A i \in 1..m : Cut(list, n)[i] = list[i]
  <2>1. Cut(list, n) = SubSeq(list, 1, m)
    BY <1>0, <1>1 DEF Cut
  <2>2. \A i \in 1..m : list[i] \in S
    BY <1>0, <1>2, ElementOfSeq
  <2>3. /\ SubSeq(list, 1, m) \in Seq(S) /\ Len(SubSeq(list, 1, m)) = m
        /\ \A i \in 1..m : SubSeq(list, 1, m)[i] = list[i]
    BY <2>2, SubSeqProperties
  <2>4. DOMAIN SubSeq(list, 1, m) = 1..m
    BY <2>3, LenProperties
  <2>5. QED
    BY <2>1, <2>3, <2>4
<1>4. l <= n => Cut(list, n) = list
  BY <1>0, <1>2, <1>3, SeqEqual
<1>5. QED
  BY <1>0, <1>1, <1>2, <1>3, <1>4

\* The rows of a cut list.
LEMMA CutRows ==
  ASSUME NEW list \in Seq(Scored), Distinct(RowsOf(list)), NEW n \in Nat
  PROVE  /\ RowsOf(Cut(list, n)) \in Seq(Row) /\ Distinct(RowsOf(Cut(list, n)))
         /\ Len(RowsOf(Cut(list, n))) = Len(Cut(list, n))
         /\ ToSet(RowsOf(Cut(list, n))) \subseteq ToSet(RowsOf(list))
<1>1. PICK cut \in Seq(Scored) : cut = Cut(list, n)
  BY CutKeeps
<1>2. \A i \in DOMAIN cut : i \in DOMAIN list /\ cut[i] = list[i]
  BY <1>1, CutKeeps
<1>3. PICK all \in Seq(Row) : all = RowsOf(list)
  BY RowsAreSeq
<1>4. PICK kept \in Seq(Row) : kept = RowsOf(cut)
  BY <1>1, RowsAreSeq
<1>5. DOMAIN all = DOMAIN list /\ DOMAIN kept = DOMAIN cut
  BY <1>3, <1>4 DEF RowsOf
<1>6. \A i \in DOMAIN cut : i \in DOMAIN list /\ kept[i] = all[i]
  BY <1>2, <1>3, <1>4 DEF RowsOf
<1>7. Distinct(kept)
  BY <1>3, <1>5, <1>6 DEF Distinct
<1>8. ToSet(kept) \subseteq ToSet(all)
  BY <1>5, <1>6 DEF ToSet
<1>9. Len(kept) = Len(cut)
  BY <1>5, LenProperties
<1>10. QED
  BY <1>1, <1>3, <1>4, <1>7, <1>8, <1>9

\* The rows the channels contribute to a fusion.
LEMMA Contributions ==
  ASSUME TypeOK, InputInv
  PROVE  /\ DenseRows \in Seq(Row) /\ LexicalRows \in Seq(Row) /\ Distinct(DenseRows) /\ Distinct(LexicalRows)
         /\ Found = ToSet(DenseRows) \cup ToSet(LexicalRows)
         /\ IsFiniteSet(Matching) /\ Cardinality(Matching) \in Nat
         /\ req.candidateK >= req.topK =>
                Found = Matching \/ (Cardinality(Found) >= req.topK /\ Cardinality(Matching) >= req.topK)
<1>1. /\ dense \in Seq(Scored) /\ lexical \in Seq(Scored) /\ ChannelK \in Nat /\ req.topK \in Nat
      /\ Distinct(RowsOf(dense)) /\ Distinct(RowsOf(lexical))
      /\ RowsOf(dense) \in Seq(Row) /\ RowsOf(lexical) \in Seq(Row)
      /\ RerankTopN >= req.topK /\ (req.candidateK >= req.topK => ChannelK >= req.topK)
  BY Arguments, RowsAreSeq, BuilderAssumption DEF TypeOK, InputInv, ChannelK, RerankTopN
<1>2. /\ DenseRows \in Seq(Row) /\ LexicalRows \in Seq(Row) /\ Distinct(DenseRows) /\ Distinct(LexicalRows)
      /\ Found = ToSet(DenseRows) \cup ToSet(LexicalRows)
      /\ ToSet(DenseRows) \subseteq ToSet(RowsOf(dense)) /\ ToSet(LexicalRows) \subseteq ToSet(RowsOf(lexical))
  BY <1>1, CutRows DEF DenseRows, LexicalRows, Found
<1>3. IsFiniteSet(ToSet(RowsOf(dense))) /\ IsFiniteSet(ToSet(RowsOf(lexical)))
  BY <1>1, DistinctCount
<1>4. IsFiniteSet(Matching) /\ Cardinality(Matching) \in Nat
  BY <1>3, FS_Union, FS_CardinalityType DEF Matching
<1>5. Found \subseteq Matching /\ IsFiniteSet(Found) /\ Cardinality(Found) \in Nat
      /\ Cardinality(Found) <= Cardinality(Matching)
  <2>1. Found \subseteq Matching
    BY <1>2 DEF Matching
  <2>2. QED
    BY <1>4, <2>1, FS_Subset, FS_CardinalityType
<1>6. ASSUME NEW list \in {dense, lexical}, Len(list) > ChannelK
      PROVE  Cardinality(ToSet(RowsOf(Cut(list, ChannelK)))) = ChannelK
  <2>1. list \in Seq(Scored) /\ Distinct(RowsOf(list))
    BY <1>1
  <2>2. Len(list) \in Nat
    BY <2>1, LenProperties
  <2>3. Len(Cut(list, ChannelK)) = ChannelK
    BY <1>1, <1>6, <2>1, <2>2, CutKeeps
  <2>4. /\ RowsOf(Cut(list, ChannelK)) \in Seq(Row) /\ Distinct(RowsOf(Cut(list, ChannelK)))
        /\ Len(RowsOf(Cut(list, ChannelK))) = ChannelK
    BY <1>1, <2>1, <2>3, CutRows
  <2>5. QED
    BY <2>4, DistinctCount
<1>7. ASSUME NEW list \in {dense, lexical}, Len(list) > ChannelK, ToSet(RowsOf(Cut(list, ChannelK))) \subseteq Found
      PROVE  Cardinality(Found) >= ChannelK
  BY <1>5, <1>6, <1>7, FS_Subset
<1>8. Len(dense) > ChannelK \/ Len(lexical) > ChannelK => Cardinality(Found) >= ChannelK
  BY <1>2, <1>7 DEF DenseRows, LexicalRows
<1>9. Len(dense) <= ChannelK /\ Len(lexical) <= ChannelK => Found = Matching
  BY <1>1, <1>2, CutKeeps DEF DenseRows, LexicalRows, Matching
<1>10. Len(dense) \in Nat /\ Len(lexical) \in Nat
  BY <1>1, LenProperties
<1>11. QED
  BY <1>1, <1>2, <1>4, <1>5, <1>8, <1>9, <1>10


----------------------------------------------------------------------------
(* The steps.                                                              *)

\* With one channel alone, what matched is what it returned.
LEMMA OneChannelMatches ==
  ASSUME NEW list \in Seq(Scored), Distinct(RowsOf(list)), {dense, lexical} = {list, <<>>}
  PROVE  Cardinality(Matching) = Len(list)
<1>1. RowsOf(list) \in Seq(Row) /\ Len(RowsOf(list)) = Len(list)
  <2>1. RowsOf(list) \in Seq(Row) /\ DOMAIN RowsOf(list) = DOMAIN list
    BY RowsAreSeq DEF RowsOf
  <2>2. QED
    BY <2>1, LenProperties
<1>2. ToSet(RowsOf(<<>>)) = {}
  BY DEF RowsOf, ToSet
<1>3. Matching = ToSet(RowsOf(list)) \cup ToSet(RowsOf(<<>>))
  BY DEF Matching
<1>4. QED
  BY <1>1, <1>2, <1>3, DistinctCount

\* Each way to search finds enough.
LEMMA SearchFindsEnough ==
  ASSUME TypeOK, InputInv, SearchOneChannel \/ SearchDenseOnly \/ FuseChannels
  PROVE  CandidatesInv'
<1>1. /\ dense \in Seq(Scored) /\ lexical \in Seq(Scored)
      /\ Distinct(RowsOf(dense)) /\ Distinct(RowsOf(lexical))
  BY DEF TypeOK, InputInv
<1>2. /\ req.topK \in Nat /\ ChannelK \in Nat /\ PoolK \in Nat /\ RerankTopN \in Nat /\ req.rrfK \in Nat \ {0}
      /\ PoolK >= req.topK /\ RerankTopN >= req.topK /\ (~ req.rerank => PoolK = req.topK)
      /\ (req.candidateK >= req.topK => ChannelK >= req.topK)
  BY Arguments, BuilderAssumption DEF TypeOK, ChannelK, PoolK, RerankTopN
<1>3. UNCHANGED <<req, dense, lexical>>
  BY DEF SearchOneChannel, SearchDenseOnly, FuseChannels, Candidates, input
<1>4. Matching' = Matching /\ DenseRows' = DenseRows /\ LexicalRows' = LexicalRows
  BY <1>3 DEF Matching, DenseRows, LexicalRows, ChannelK, RerankTopN
<1>5. SUFFICES /\ req.candidateK >= req.topK =>
                      IF Len(hits') < req.topK THEN Len(hits') = Cardinality(Matching)
                      ELSE Cardinality(Matching) >= req.topK
               /\ req.mode = "hybrid" /\ lexical # <<>> /\ ~ req.rerank =>
                      hits' = Fused(DenseRows, LexicalRows, req.rrfK, req.topK)
  BY <1>3, <1>4, Zenon DEF CandidatesInv
<1>6. CASE SearchOneChannel
  <2>1. PICK list \in Seq(Scored) :
          /\ Distinct(RowsOf(list)) /\ {dense, lexical} = {list, <<>>} /\ hits' = Cut(list, PoolK)
    <3>1. req.mode \in {"vector", "bm25"}
      BY <1>6, BuilderAssumption DEF SearchOneChannel, TypeOK
    <3>2. QED
      BY <1>1, <1>6, <3>1 DEF SearchOneChannel, Candidates, InputInv
  <2>2. Cardinality(Matching) = Len(list) /\ Len(list) \in Nat
    BY <2>1, OneChannelMatches, LenProperties
  <2>3. Len(hits') = IF Len(list) < PoolK THEN Len(list) ELSE PoolK
    BY <1>2, <2>1, CutKeeps
  <2>4. req.mode # "hybrid"
    BY <1>6 DEF SearchOneChannel
  <2>5. QED
    BY <1>2, <2>2, <2>3, <2>4
<1>7. CASE SearchDenseOnly
  <2>1. lexical = <<>> /\ hits' = Cut(Cut(dense, ChannelK), RerankTopN)
    BY <1>7 DEF SearchDenseOnly, Candidates
  <2>2. Cardinality(Matching) = Len(dense) /\ Len(dense) \in Nat
    BY <1>1, <2>1, OneChannelMatches, LenProperties
  <2>3. PICK cut \in Seq(Scored) : cut = Cut(dense, ChannelK) /\ Len(cut) \in Nat
    BY <1>1, <1>2, CutKeeps, LenProperties
  <2>4. Len(cut) = IF Len(dense) < ChannelK THEN Len(dense) ELSE ChannelK
    BY <1>1, <1>2, <2>3, CutKeeps
  <2>5. Len(hits') = IF Len(cut) < RerankTopN THEN Len(cut) ELSE RerankTopN
    BY <1>2, <2>1, <2>3, CutKeeps
  <2>6. QED
    BY <1>2, <2>1, <2>2, <2>4, <2>5
<1>8. CASE FuseChannels
  <2>1. hits' = Fused(DenseRows, LexicalRows, req.rrfK, PoolK)
    BY <1>8 DEF FuseChannels, Candidates, DenseRows, LexicalRows
  <2>2. /\ DenseRows \in Seq(Row) /\ LexicalRows \in Seq(Row) /\ Distinct(DenseRows) /\ Distinct(LexicalRows)
        /\ Found = ToSet(DenseRows) \cup ToSet(LexicalRows) /\ Cardinality(Matching) \in Nat
        /\ req.candidateK >= req.topK =>
               Found = Matching \/ (Cardinality(Found) >= req.topK /\ Cardinality(Matching) >= req.topK)
    BY Contributions
  <2>3. PICK c : c = Cardinality(Found)
    OBVIOUS
  <2>4. c \in Nat /\ Len(hits') = IF c < PoolK THEN c ELSE PoolK
    BY <1>2, <2>1, <2>2, <2>3, FusedLength
  <2>5. PICK matching \in Nat : matching = Cardinality(Matching)
    BY <2>2
  <2>6. req.candidateK >= req.topK => matching = c \/ (c >= req.topK /\ matching >= req.topK)
    BY <2>2, <2>3, <2>5
  <2>7. ~ req.rerank => hits' = Fused(DenseRows, LexicalRows, req.rrfK, req.topK)
    BY <1>2, <2>1
  <2>8. req.candidateK >= req.topK => IF Len(hits') < req.topK THEN Len(hits') = matching ELSE matching >= req.topK
    <3>1. CASE c < PoolK
      BY <1>2, <2>4, <2>6, <3>1
    <3>2. CASE ~ c < PoolK
      BY <1>2, <2>4, <2>6, <3>2
    <3>3. QED
      BY <3>1, <3>2
  <2>9. QED
    BY <2>5, <2>7, <2>8
<1>9. QED
  BY <1>6, <1>7, <1>8

\* The result is a cut of the candidates, in their order or the reranker's.
LEMMA ResultKeepsEnough ==
  ASSUME TypeOK, InputInv, CandidatesInv, KeepTop \/ Rerank
  PROVE  HitsInv' /\ AsManyAsAsked'
<1>1. /\ hits \in Seq(Scored) /\ Len(hits) \in Nat /\ DOMAIN hits = 1..Len(hits)
      /\ req.topK \in Nat /\ req.rrfK \in Nat \ {0} /\ phase = "rank"
  BY Arguments, LenProperties DEF TypeOK, KeepTop, Rerank
<1>2. UNCHANGED <<req, dense, lexical>> /\ phase' = "pack"
  BY DEF KeepTop, Rerank, Result, input
<1>3. Matching' = Matching /\ DenseRows' = DenseRows /\ LexicalRows' = LexicalRows
  BY <1>2 DEF Matching, DenseRows, LexicalRows, ChannelK, RerankTopN
<1>4. \E list \in Seq(Scored) :
        Len(list) = Len(hits) /\ hits' = Cut(list, req.topK) /\ (~ req.rerank => list = hits)
  <2>1. CASE KeepTop
    BY <1>1, <2>1 DEF KeepTop, Result
  <2>2. CASE Rerank
    <3>1. PICK logit \in [ToSet(RowsOf(hits)) -> Logit] :
            LET scores == [i \in DOMAIN hits |-> logit[hits[i].row]]
                judged == [i \in DOMAIN hits |-> [row |-> hits[i].row, score |-> scores[i]]]
            IN  hits' = Cut(SortedBy(judged, scores, DOMAIN hits), req.topK)
      BY <2>2 DEF Rerank, Result
    <3> DEFINE scores == [i \in DOMAIN hits |-> logit[hits[i].row]]
               judged == [i \in DOMAIN hits |-> [row |-> hits[i].row, score |-> scores[i]]]
    <3>2. \A i \in DOMAIN hits : hits[i].row \in ToSet(RowsOf(hits)) /\ hits[i].row \in Row
      <4>1. \A i \in DOMAIN hits : hits[i] \in Scored
        BY <1>1, ElementOfSeq
      <4>2. QED
        BY <4>1 DEF Scored, ToSet, RowsOf
    <3>3. \A i \in DOMAIN hits : scores[i] \in Fraction
      BY <3>2, BuilderAssumption
    <3>4. \A i \in 1..Len(hits) : judged[i] \in Scored
      BY <1>1, <3>2, <3>3 DEF Scored
    <3>5. judged \in Seq(Scored) /\ DOMAIN judged = DOMAIN hits
      BY <1>1, <3>4, IsASeq
    <3> HIDE DEF scores, judged
    <3>6. SortedBy(judged, scores, DOMAIN hits) \in Seq(Scored)
      BY <3>3, <3>5, SortedBySorts
    <3>7. Len(SortedBy(judged, scores, DOMAIN hits)) = Cardinality(DOMAIN hits)
      BY <3>3, <3>5, SortedBySorts
    <3>8. Cardinality(DOMAIN hits) = Len(hits)
      <4>1. \A n \in Nat : Cardinality(1..n) = n
        BY FS_Interval
      <4>2. QED
        BY <1>1, <4>1
    <3>9. req.rerank
      BY <2>2 DEF Rerank
    <3>10. QED
      BY <3>1, <3>6, <3>7, <3>8, <3>9 DEF scores, judged
  <2>3. QED
    BY <2>1, <2>2
<1>5. PICK list \in Seq(Scored) :
        Len(list) = Len(hits) /\ hits' = Cut(list, req.topK) /\ (~ req.rerank => list = hits)
  BY <1>4
<1>6. Len(hits') = IF Len(hits) < req.topK THEN Len(hits) ELSE req.topK
  BY <1>1, <1>5, CutKeeps
<1>7. AsManyAsAsked'
  <2> SUFFICES ASSUME req.candidateK >= req.topK
               PROVE  Len(hits') = IF Cardinality(Matching) < req.topK THEN Cardinality(Matching) ELSE req.topK
    BY <1>2, <1>3, Zenon DEF AsManyAsAsked, Matching
  <2>1. /\ IF Len(hits) < req.topK THEN Len(hits) = Cardinality(Matching) ELSE Cardinality(Matching) >= req.topK
        /\ Cardinality(Matching) \in Nat
    BY <1>1, Contributions DEF CandidatesInv
  <2>2. CASE Len(hits) < req.topK
    BY <1>1, <1>6, <2>1, <2>2
  <2>3. CASE ~ Len(hits) < req.topK
    BY <1>1, <1>6, <2>1, <2>3
  <2>4. QED
    BY <2>2, <2>3
<1>8. HitsInv'
  <2> SUFFICES ASSUME req.mode = "hybrid", lexical # <<>>, ~ req.rerank
               PROVE  hits' = Fused(DenseRows, LexicalRows, req.rrfK, req.topK)
    BY <1>2, <1>3, Zenon DEF HitsInv, FusedHits
  <2>1. hits = Fused(DenseRows, LexicalRows, req.rrfK, req.topK)
    BY <1>1 DEF CandidatesInv
  <2>2. Len(hits) <= req.topK
    <3> DEFINE all == ToSet(DenseRows) \cup ToSet(LexicalRows)
    <3>1. /\ DenseRows \in Seq(Row) /\ LexicalRows \in Seq(Row)
          /\ Distinct(DenseRows) /\ Distinct(LexicalRows)
      BY Contributions
    <3>2. PICK c : c = Cardinality(all)
      OBVIOUS
    <3>3. c \in Nat /\ Len(hits) = IF c < req.topK THEN c ELSE req.topK
      BY <1>1, <2>1, <3>1, <3>2, FusedLength
    <3>4. QED
      BY <1>1, <3>3
  <2>3. hits' = hits
    BY <1>1, <1>5, <2>2, CutKeeps
  <2>4. QED
    BY <2>1, <2>3
<1>9. QED
  BY <1>7, <1>8


\* What the channels returned, each row once.
LEMMA InitHolds ==
  ASSUME Init
  PROVE  RankingInv
<1>1. phase = "search" /\ label = "none"
  BY DEF Init
<1>2. ASSUME NEW list \in Seq(Scored), list = <<>> \/ list \in DenseResult \cup LexicalResult
      PROVE  Distinct(RowsOf(list))
  <2>1. \A i, j \in DOMAIN list : list[i].row = list[j].row => i = j
    BY <1>2, BuilderAssumption
  <2>2. QED
    BY <2>1 DEF RowsOf, Distinct
<1>3. /\ dense = <<>> \/ dense \in DenseResult
      /\ lexical = <<>> \/ lexical \in LexicalResult
      /\ req.mode = "vector" => lexical = <<>>
      /\ req.mode = "bm25" => dense = <<>>
  BY DEF Init
<1>4. dense \in Seq(Scored) /\ lexical \in Seq(Scored)
  BY InitIsTyped DEF TypeOK
<1>5. InputInv
  BY <1>2, <1>3, <1>4 DEF InputInv
<1>6. QED
  BY <1>1, <1>5 DEF RankingInv, CandidatesInv, HitsInv, AsManyAsAsked, HighInv, FusedHits

\* What a step leaves of the request leaves what the channels returned.
LEMMA InputStays ==
  ASSUME InputInv, UNCHANGED input
  PROVE  InputInv'
  BY DEF InputInv, input, RowsOf, Distinct

\* After the ranking the hits stay.
LEMMA RankedStays ==
  ASSUME HitsInv, AsManyAsAsked, UNCHANGED <<input, hits>>, phase \notin {"search", "rank"},
         phase' \notin {"search", "rank"}
  PROVE  CandidatesInv' /\ HitsInv' /\ AsManyAsAsked'
<1>1. /\ DenseRows' = DenseRows /\ LexicalRows' = LexicalRows /\ FusedHits' = FusedHits
      /\ hits' = hits /\ req' = req /\ dense' = dense /\ lexical' = lexical
  BY DEF DenseRows, LexicalRows, ChannelK, RerankTopN, FusedHits, input
<1>2. HitsInv'
  BY <1>1 DEF HitsInv
<1>3. AsManyAsAsked'
  BY <1>1 DEF AsManyAsAsked
<1>4. CandidatesInv'
  BY DEF CandidatesInv
<1>5. QED
  BY <1>2, <1>3, <1>4

LEMMA NextKeepsRanking ==
  ASSUME TypeOK, RankingInv, [Next]_vars
  PROVE  RankingInv'
<1>1. CASE SearchOneChannel \/ SearchDenseOnly \/ FuseChannels
  <2>1. UNCHANGED <<input, label>> /\ phase = "search" /\ phase' = "rank"
    BY <1>1 DEF SearchOneChannel, SearchDenseOnly, FuseChannels, Candidates
  <2>2. InputInv'
    BY <2>1, InputStays DEF RankingInv
  <2>3. CandidatesInv'
    BY <1>1, SearchFindsEnough DEF RankingInv
  <2>4. HitsInv' /\ AsManyAsAsked'
    BY <2>1 DEF HitsInv, AsManyAsAsked, FusedHits
  <2>5. HighInv'
    BY <2>1 DEF RankingInv, HighInv
  <2>6. QED
    BY <2>2, <2>3, <2>4, <2>5 DEF RankingInv
<1>2. CASE KeepTop \/ Rerank
  <2>1. UNCHANGED <<input, label>> /\ phase = "rank" /\ phase' = "pack"
    BY <1>2 DEF KeepTop, Rerank, Result
  <2>2. InputInv'
    BY <2>1, InputStays DEF RankingInv
  <2>3. HitsInv' /\ AsManyAsAsked'
    BY <1>2, ResultKeepsEnough DEF RankingInv
  <2>4. CandidatesInv'
    BY <2>1 DEF CandidatesInv
  <2>5. HighInv'
    BY <2>1 DEF RankingInv, HighInv
  <2>6. QED
    BY <2>2, <2>3, <2>4, <2>5 DEF RankingInv
<1>3. CASE SkipDuplicate \/ SkipBlank \/ SpendBudget \/ PackWhole \/ PackCut \/ HitsAreThrough
  <2>1. /\ UNCHANGED <<input, hits, label>> /\ phase = "pack" /\ phase' \in {"pack", "judge"}
    BY <1>3 DEF SkipDuplicate, SkipBlank, SpendBudget, PackWhole, PackCut, HitsAreThrough, Fresh
  <2>2. InputInv'
    BY <2>1, InputStays DEF RankingInv
  <2>3. CandidatesInv' /\ HitsInv' /\ AsManyAsAsked'
    BY <2>1, RankedStays DEF RankingInv
  <2>4. HighInv'
    BY <2>1 DEF RankingInv, HighInv
  <2>5. QED
    BY <2>2, <2>3, <2>4 DEF RankingInv
<1>4. CASE Judge
  <2>1. UNCHANGED <<input, hits>> /\ phase = "judge" /\ phase' = "done"
    BY <1>4 DEF Judge
  <2>2. InputInv'
    BY <2>1, InputStays DEF RankingInv
  <2>3. CandidatesInv' /\ HitsInv' /\ AsManyAsAsked'
    BY <2>1, RankedStays DEF RankingInv
  <2>4. IsHigh' = IsHigh
    BY <2>1 DEF IsHigh, TopScore, Magnitude, input
  <2>5. HighInv'
    BY <1>4, <2>1, <2>4 DEF Judge, HighInv
  <2>6. QED
    BY <2>2, <2>3, <2>5 DEF RankingInv
<1>5. CASE UNCHANGED vars
  <2>1. UNCHANGED <<input, phase, hits, label>>
    BY <1>5 DEF vars
  <2>2. InputInv'
    BY <2>1, InputStays DEF RankingInv
  <2>3. DenseRows' = DenseRows /\ LexicalRows' = LexicalRows /\ Matching' = Matching
        /\ FusedHits' = FusedHits /\ IsHigh' = IsHigh
    BY <2>1 DEF DenseRows, LexicalRows, Matching, ChannelK, RerankTopN, FusedHits, IsHigh, TopScore, input
  <2>4. CandidatesInv' /\ HitsInv'
    BY <2>1, <2>3 DEF RankingInv, CandidatesInv, HitsInv, input
  <2>5. AsManyAsAsked' /\ HighInv'
    BY <2>1, <2>3 DEF RankingInv, AsManyAsAsked, HighInv, input
  <2>6. QED
    BY <2>2, <2>4, <2>5 DEF RankingInv
<1>6. QED
  BY <1>1, <1>2, <1>3, <1>4, <1>5 DEF Next

\* What the ranking has done so far, in every state of a request.
THEOREM Ranking == Spec => []RankingInv
<1>1. Init => RankingInv
  BY InitHolds
<1>2. TypeOK /\ RankingInv /\ [Next]_vars => RankingInv'
  BY NextKeepsRanking
<1>3. QED
  BY <1>1, <1>2, TypeCorrect, PTL DEF Spec


----------------------------------------------------------------------------
(* What the rankings of the channels say of the hits.                      *)

LEMMA RankIsPlace ==
  ASSUME NEW list \in Seq(Row), NEW key
  PROVE  /\ RankIn(key, list) \in Nat /\ RankIn(key, list) <= Len(list)
         /\ RankIn(key, list) # 0 <=> key \in ToSet(list)
<1>1. DOMAIN list = 1..Len(list) /\ Len(list) \in Nat
  BY LenProperties
<1>2. CASE key \in ToSet(list)
  <2>1. \E i \in DOMAIN list : list[i] = key
    BY <1>2 DEF ToSet
  <2>2. RankIn(key, list) \in DOMAIN list
    BY <1>2, <2>1 DEF RankIn
  <2>3. QED
    BY <1>1, <1>2, <2>2
<1>3. CASE key \notin ToSet(list)
  BY <1>1, <1>3 DEF RankIn
<1>4. QED
  BY <1>2, <1>3

\* The ranks of a row that some channel returned.
LEMMA RanksOfFound ==
  ASSUME TypeOK, InputInv, NEW g \in Found
  PROVE  /\ DenseRank(g) \in Nat /\ LexicalRank(g) \in Nat
         /\ DenseRank(g) <= ChannelK /\ LexicalRank(g) <= ChannelK
         /\ DenseRank(g) # 0 \/ LexicalRank(g) # 0
         /\ Score(g, DenseRows, LexicalRows, req.rrfK) = RankScore(DenseRank(g), LexicalRank(g), req.rrfK)
<1>1. /\ DenseRows \in Seq(Row) /\ LexicalRows \in Seq(Row)
      /\ g \in ToSet(DenseRows) \/ g \in ToSet(LexicalRows)
  BY Contributions
<1>2. DenseRank(g) = RankIn(g, DenseRows) /\ LexicalRank(g) = RankIn(g, LexicalRows)
  BY DEF DenseRank, LexicalRank, DenseRows, LexicalRows
<1>3. ASSUME NEW list \in {dense, lexical}
      PROVE  Len(RowsOf(Cut(list, ChannelK))) <= ChannelK
  <2>1. list \in Seq(Scored) /\ Distinct(RowsOf(list)) /\ ChannelK \in Nat /\ Len(list) \in Nat
    BY Arguments, LenProperties DEF TypeOK, InputInv
  <2>2. Len(Cut(list, ChannelK)) <= ChannelK
    BY <2>1, CutKeeps
  <2>3. Len(RowsOf(Cut(list, ChannelK))) = Len(Cut(list, ChannelK))
    BY <2>1, CutRows
  <2>4. QED
    BY <2>2, <2>3
<1>4. Len(DenseRows) <= ChannelK /\ Len(LexicalRows) <= ChannelK
  BY <1>3 DEF DenseRows, LexicalRows
<1>5. ChannelK \in Nat /\ Len(DenseRows) \in Nat /\ Len(LexicalRows) \in Nat
  BY <1>1, Arguments, LenProperties
<1>6. /\ RankIn(g, DenseRows) \in Nat /\ RankIn(g, DenseRows) <= Len(DenseRows)
      /\ RankIn(g, DenseRows) # 0 <=> g \in ToSet(DenseRows)
  BY <1>1, RankIsPlace
<1>7. /\ RankIn(g, LexicalRows) \in Nat /\ RankIn(g, LexicalRows) <= Len(LexicalRows)
      /\ RankIn(g, LexicalRows) # 0 <=> g \in ToSet(LexicalRows)
  BY <1>1, RankIsPlace
<1>8. QED
  BY <1>1, <1>2, <1>4, <1>5, <1>6, <1>7 DEF Score

\* The fused hits, best first.
LEMMA BestFirst ==
  ASSUME TypeOK, RankingInv, FusedHits, NEW i \in DOMAIN hits
  PROVE  /\ hits[i].row \in Found
         /\ hits[i].score = RankScore(DenseRank(hits[i].row), LexicalRank(hits[i].row), req.rrfK)
         /\ \A g \in Found :
                Above(RankScore(DenseRank(g), LexicalRank(g), req.rrfK), hits[i].score) =>
                    \E j \in 1..(i - 1) : hits[j].row = g
<1>1. /\ InputInv /\ hits = Fused(DenseRows, LexicalRows, req.rrfK, req.topK)
      /\ req.topK \in Nat /\ req.rrfK \in Nat \ {0}
  BY Arguments DEF RankingInv, HitsInv
<1>2. /\ DenseRows \in Seq(Row) /\ LexicalRows \in Seq(Row) /\ Distinct(DenseRows) /\ Distinct(LexicalRows)
      /\ Found = ToSet(DenseRows) \cup ToSet(LexicalRows)
  BY <1>1, Contributions
<1>3. PICK D \in Seq(Row), L \in Seq(Row), k \in Nat \ {0}, n \in Nat :
        D = DenseRows /\ L = LexicalRows /\ k = req.rrfK /\ n = req.topK
  BY <1>1, <1>2
<1>4. hits = Fused(D, L, k, n) /\ Distinct(D) /\ Distinct(L) /\ Found = ToSet(D) \cup ToSet(L)
  BY <1>1, <1>2, <1>3
<1>5. RankedBest(hits, Found, D, L, k)
  BY <1>4, FusedRanks
<1>6. /\ hits[i].row \in Found /\ hits[i].score = Score(hits[i].row, D, L, k)
      /\ \A g \in Found : Above(Score(g, D, L, k), Score(hits[i].row, D, L, k)) =>
                              \E j \in 1..(i - 1) : hits[j].row = g
  BY <1>5, Zenon DEF RankedBest
<1>7. \A g \in Found : Score(g, D, L, k) = RankScore(DenseRank(g), LexicalRank(g), req.rrfK)
  BY <1>1, <1>3, RanksOfFound
<1>8. QED
  BY <1>6, <1>7, Zenon

LEMMA ChannelsRespected ==
  ASSUME TypeOK, RankingInv
  PROVE  FusionRespectsChannels
<1>1. InputInv /\ req.rrfK \in Nat \ {0} /\ ChannelK \in Nat
  BY Arguments DEF RankingInv
<1>2. FusionKeepsRankings
  <2> SUFFICES ASSUME FusedHits, NEW i \in DOMAIN hits, NEW g \in Found, Dominates(g, hits[i].row)
               PROVE  \E j \in 1..(i - 1) : hits[j].row = g
    BY Zenon DEF FusionKeepsRankings
  <2>1. PICK h \in Found : h = hits[i].row
    BY BestFirst
  <2>2. PICK a \in Nat, b \in Nat : a = DenseRank(g) /\ b = LexicalRank(g) /\ (a # 0 \/ b # 0)
    BY <1>1, RanksOfFound
  <2>3. PICK c \in Nat, d \in Nat : c = DenseRank(h) /\ d = LexicalRank(h) /\ (c # 0 \/ d # 0)
    BY <1>1, RanksOfFound
  <2>4. NoWorse(a, c) /\ NoWorse(b, d) /\ <<a, b>> # <<c, d>>
    BY <2>1, <2>2, <2>3, Zenon DEF Dominates
  <2>5. Above(RankScore(a, b, req.rrfK), RankScore(c, d, req.rrfK))
    BY <1>1, <2>2, <2>3, <2>4, BetterRanksScoreMore
  <2>6. hits[i].score = RankScore(c, d, req.rrfK)
    BY <2>1, <2>3, BestFirst
  <2>7. QED
    BY <2>2, <2>5, <2>6, BestFirst
<1>3. AgreementWins
  <2> SUFFICES ASSUME FusedHits, ChannelK <= req.rrfK + 1, NEW i \in DOMAIN hits, NEW g \in Found,
                      DenseRank(g) # 0, LexicalRank(g) # 0,
                      DenseRank(hits[i].row) = 0 \/ LexicalRank(hits[i].row) = 0
               PROVE  \E j \in 1..(i - 1) : hits[j].row = g
    BY Zenon DEF AgreementWins
  <2>1. PICK h \in Found : h = hits[i].row
    BY BestFirst
  <2>2. PICK a \in Nat \ {0}, b \in Nat \ {0} :
          a = DenseRank(g) /\ b = LexicalRank(g) /\ a <= ChannelK /\ b <= ChannelK
    BY <1>1, RanksOfFound
  <2>3. PICK c \in Nat, d \in Nat :
          c = DenseRank(h) /\ d = LexicalRank(h) /\ (c # 0 \/ d # 0)
    BY <1>1, RanksOfFound
  <2>4. c = 0 \/ d = 0
    BY <2>1, <2>3
  <2>5. a <= req.rrfK + 1 /\ b <= req.rrfK + 1
    BY <1>1, <2>2
  <2>6. Above(RankScore(a, b, req.rrfK), RankScore(c, d, req.rrfK))
    BY <1>1, <2>3, <2>4, <2>5, AgreedRanksScoreMore
  <2>7. hits[i].score = RankScore(c, d, req.rrfK)
    BY <2>1, <2>3, BestFirst
  <2>8. QED
    BY <2>2, <2>6, <2>7, BestFirst
<1>4. QED
  BY <1>2, <1>3 DEF FusionRespectsChannels

\* One rank alone does not reach a threshold above what the first rank scores.
LEMMA BelowThreshold ==
  ASSUME NEW t \in Fraction, NEW k \in Nat \ {0}, NEW b \in Nat \ {0}, Above(t, <<1, k + 1>>)
  PROVE  ~ AtLeast(<<1, k + b>>, t)
<1>1. PICK p \in Int, q \in Nat \ {0} : t[1] = p /\ t[2] = q
  BY DEF Fraction
<1>2. p * (k + 1) > 1 * q
  BY <1>1 DEF Above
<1>3. p * (k + 1) \in Int /\ p * (k + b) \in Int
  OBVIOUS
<1>4. p > 0
  <2>1. p <= 0 => p * (k + 1) <= 0
    OBVIOUS
  <2>2. QED
    BY <1>2, <1>3, <2>1
<1>5. PICK x \in Nat \ {0}, y \in Nat \ {0} : x = k + 1 /\ y = k + b /\ y >= x
  OBVIOUS
<1>6. y * p >= x * p
  BY <1>4, <1>5, Times
<1>7. y * p = p * (k + b) /\ x * p = p * (k + 1)
  BY <1>5
<1>8. p * (k + b) > 1 * q
  BY <1>2, <1>3, <1>6, <1>7
<1>9. QED
  BY <1>1, <1>3, <1>8 DEF AtLeast

LEMMA HighIsAgreed ==
  ASSUME TypeOK, RankingInv
  PROVE  FusedHighIsAgreed
<1> SUFFICES ASSUME FusedHits, label = "high", Above(MinRrf, <<1, req.rrfK + 1>>)
             PROVE  DenseRank(hits[1].row) # 0 /\ LexicalRank(hits[1].row) # 0
  BY Zenon DEF FusedHighIsAgreed
<1>1. InputInv /\ hits # <<>> /\ IsHigh /\ req.rrfK \in Nat \ {0} /\ MinRrf \in Fraction
  BY Arguments, BuilderAssumption DEF RankingInv, HighInv
<1>2. 1 \in DOMAIN hits
  BY <1>1, EmptySeq, LenProperties DEF TypeOK
<1>3. AtLeast(hits[1].score, MinRrf)
  BY <1>1 DEF IsHigh, FusedHits, TopScore
<1>4. PICK h \in Found : h = hits[1].row
  BY <1>2, BestFirst
<1>5. PICK a \in Nat, b \in Nat : a = DenseRank(h) /\ b = LexicalRank(h) /\ (a # 0 \/ b # 0)
  BY <1>1, RanksOfFound
<1>6. hits[1].score = RankScore(a, b, req.rrfK)
  BY <1>2, <1>4, <1>5, BestFirst
<1>7. a = 0 => RankScore(a, b, req.rrfK) = <<1, req.rrfK + b>> /\ b \in Nat \ {0}
  BY <1>1, <1>5, RankScoreIs
<1>8. b = 0 => RankScore(a, b, req.rrfK) = <<1, req.rrfK + a>> /\ a \in Nat \ {0}
  BY <1>1, <1>5, RankScoreIs
<1>9. a # 0 /\ b # 0
  BY <1>1, <1>3, <1>6, <1>7, <1>8, BelowThreshold
<1>10. QED
  BY <1>4, <1>5, <1>9

\* Reciprocal rank fusion takes nothing from what the channels agree on: a row
\* that one channel ranks higher and none lower comes first, and what is cut off
\* is no better than what is kept; with channels no deeper than rrf_k + 1, a row
\* of both channels comes before all rows of one (docs/adr/0004).
THEOREM RespectsChannels == Spec => []FusionRespectsChannels
<1>1. TypeOK /\ RankingInv => FusionRespectsChannels
  BY ChannelsRespected
<1>2. QED
  BY <1>1, TypeCorrect, Ranking, PTL

\* In every mode a result has as many hits as asked for, or all that matched.
THEOREM Enough == Spec => []AsManyAsAsked
<1>1. RankingInv => AsManyAsAsked
  BY DEF RankingInv
<1>2. QED
  BY <1>1, Ranking, PTL

\* A fused result is labelled high only on the word of both channels.
THEOREM HighMeansAgreed == Spec => []FusedHighIsAgreed
<1>1. TypeOK /\ RankingInv => FusedHighIsAgreed
  BY HighIsAgreed
<1>2. QED
  BY <1>1, TypeCorrect, Ranking, PTL

=============================================================================
