----------------------------- MODULE RankFusion -----------------------------
(***************************************************************************)
(* rrf_fuse of retrieval/hybrid.py on the two lists retrieve_with_parents  *)
(* gives it.  A score is a fraction <<numerator, denominator>>, so that    *)
(* scores compare without rounding.                                        *)
(***************************************************************************)
EXTENDS Integers, FiniteSets, Sequences, SequencesExt

Fraction == Int \X (Nat \ {0})
AtLeast(x, y) == x[1] * y[2] >= y[1] * x[2]
Above(x, y) == x[1] * y[2] > y[1] * x[2]

\* The 1-based rank of a key in a list, 0 if the channel did not return it.
RankIn(key, list) == IF key \in ToSet(list) THEN CHOOSE i \in DOMAIN list : list[i] = key ELSE 0

\* Mutant of RankScore: the second list overwrites what the first one gave.
LastRankScore(a, b, k) == IF b = 0 THEN <<1, k + a>> ELSE <<1, k + b>>

\* Mutant of RankScore: the better of the two ranks counts.
BestRankScore(a, b, k) ==
    IF b = 0 \/ (a # 0 /\ a < b) THEN <<1, k + a>> ELSE <<1, k + b>>

\* 1 / (rrf_k + rank), summed over the lists that hold the key.
RankScore(a, b, k) ==
    IF a = 0 THEN <<1, k + b>>
    ELSE IF b = 0 THEN <<1, k + a>>
    ELSE <<2 * k + a + b, (k + a) * (k + b)>>

\* sorted(..., reverse=True) of the positions D of seq by scores[i]: it is
\* stable, ties stay in their order.
Ahead(scores, i, j) ==
    Above(scores[i], scores[j]) \/ (AtLeast(scores[i], scores[j]) /\ i < j)
Place(scores, D, i) == Cardinality({j \in D : Ahead(scores, j, i)}) + 1
SortedBy(seq, scores, D) ==
    [n \in 1..Cardinality(D) |-> seq[CHOOSE i \in D : Place(scores, D, i) = n]]

Cut(seq, n) == SubSeq(seq, 1, IF Len(seq) < n THEN Len(seq) ELSE n)

Score(key, dense, lexical, k) == RankScore(RankIn(key, dense), RankIn(key, lexical), k)

\* A dict holds a key where it was first seen.
FirstSeen(keys) == {i \in DOMAIN keys : \A j \in 1..(i - 1) : keys[j] # keys[i]}

Fused(dense, lexical, k, n) ==
    LET keys == dense \o lexical
        scores == [i \in DOMAIN keys |-> Score(keys[i], dense, lexical, k)]
        best == Cut(SortedBy(keys, scores, FirstSeen(keys)), n)
    IN  [i \in DOMAIN best |-> [row |-> best[i], score |-> Score(best[i], dense, lexical, k)]]
=============================================================================
