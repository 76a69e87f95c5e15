--------------------------- MODULE ContextBuilder ---------------------------
(***************************************************************************)
(* What a query makes of the rows its channels return: the fusion and the  *)
(* cuts of retrieve_with_parents, rerank_hits, assemble_context hit by hit *)
(* and score_retrieval, as POST /v1/context and `crag context` call them.  *)
(*                                                                         *)
(* Nothing is written meanwhile (QuerySession has the writers).  Of a text *)
(* only the length is kept; a score is a fraction.                         *)
(***************************************************************************)
EXTENDS RankFusion, FiniteSetsExt

CONSTANTS
    Row,            \* child rows, (doc_id, chunk_id)
    DedupeKey,      \* DedupeKey[r]: (doc_id, parent_chunk_id or chunk_id)
    ChildLength,    \* ChildLength[r]: length of the child's text, 0 if blank
    ParentLength,   \* ParentLength[r]: of the parent's text, 0 if none, blank or gone
    PathLength,     \* PathLength[r]: of the source path, or of the doc_id instead
    Request,
    DenseResult, LexicalResult, \* what the channels may return, best first, each row once, uncut
    Logit,          \* scores of the cross-encoder
    RerankN,        \* retrieval.rerank_top_n
    MinScore, MinBm25, MinRrf   \* context.min_..._high, as fractions

Scored == [row : Row, score : Fraction]

ASSUME BuilderAssumption ==
    /\ ChildLength \in [Row -> Nat] /\ ParentLength \in [Row -> Nat]
    /\ PathLength \in [Row -> Nat \ {0}]
    /\ DOMAIN DedupeKey = Row
    /\ Request \subseteq [mode : {"vector", "bm25", "hybrid"}, topK : Nat \ {0},
                          candidateK : Nat \ {0}, rrfK : Nat \ {0}, rerank : BOOLEAN,
                          maxChars : Nat \ {0}, parents : BOOLEAN]
    /\ DenseResult \subseteq Seq(Scored) /\ LexicalResult \subseteq Seq(Scored)
    /\ \A list \in DenseResult \cup LexicalResult :
           \A i, j \in DOMAIN list : list[i].row = list[j].row => i = j
    /\ Logit \subseteq Fraction
    /\ RerankN \in Nat \ {0}
    /\ {MinScore, MinBm25, MinRrf} \subseteq Fraction

VARIABLES
    req, dense, lexical,
    phase,
    hits,       \* the candidates, then the hits of the RetrievalResult
    rest,       \* the hits assemble_context has still to look at
    cites,      \* the citations, with how much of its text each block holds
    seen, used, truncated,
    label

input == <<req, dense, lexical>>
packing == <<rest, cites, seen, used, truncated>>
vars == <<input, phase, hits, packing, label>>

Citation == [row : Row, key : {DedupeKey[r] : r \in Row}, length : Nat \ {0}]

TypeOK ==
    /\ req \in Request
    /\ dense \in Seq(Scored) /\ lexical \in Seq(Scored)
    /\ phase \in {"search", "rank", "pack", "judge", "done"}
    /\ hits \in Seq(Scored) /\ rest \in Seq(Scored)
    /\ cites \in Seq(Citation)
    /\ seen \subseteq {DedupeKey[r] : r \in Row}
    /\ used \in Nat
    /\ truncated \in BOOLEAN
    /\ label \in {"none", "empty", "low", "high"}

Init ==
    /\ req \in Request
    /\ dense \in IF req.mode = "bm25" THEN {<<>>} ELSE DenseResult
    /\ lexical \in IF req.mode = "vector" THEN {<<>>} ELSE LexicalResult
    /\ phase = "search"
    /\ hits = <<>> /\ rest = <<>> /\ cites = <<>>
    /\ seen = {} /\ used = 0 /\ truncated = FALSE
    /\ label = "none"

----------------------------------------------------------------------------
(* retrieve_with_parents.                                                  *)

RowsOf(list) == [i \in DOMAIN list |-> list[i].row]

\* Mutant of RerankTopN: the pool of the reranker as configured.
RerankTopNConfigured == RerankN

RerankTopN == IF RerankN < req.topK THEN req.topK ELSE RerankN

PoolK == IF req.rerank THEN RerankTopN ELSE req.topK
ChannelK == IF req.rerank /\ req.candidateK < RerankTopN THEN RerankTopN ELSE req.candidateK

Candidates(list) ==
    /\ hits' = list
    /\ phase' = "rank"
    /\ UNCHANGED <<input, packing, label>>

SearchOneChannel ==
    /\ phase = "search"
    /\ req.mode # "hybrid"
    /\ Candidates(Cut(IF req.mode = "vector" THEN dense ELSE lexical, PoolK))

\* A hybrid query without a lexical hit: the dense hits, as they are.
SearchDenseOnly ==
    /\ phase = "search"
    /\ req.mode = "hybrid" /\ lexical = <<>>
    /\ Candidates(Cut(Cut(dense, ChannelK), RerankTopN))

\* Mutant of FuseChannels: a fused hit keeps the score it had in its channel.
FuseKeepingScores ==
    /\ phase = "search"
    /\ req.mode = "hybrid" /\ lexical # <<>>
    /\ LET fused == Fused(RowsOf(Cut(dense, ChannelK)), RowsOf(Cut(lexical, ChannelK)),
                          req.rrfK, PoolK)
           Base(row) == SelectSeq(dense \o lexical, LAMBDA h : h.row = row)[1]
       IN  Candidates([i \in DOMAIN fused |-> Base(fused[i].row)])

FuseChannels ==
    /\ phase = "search"
    /\ req.mode = "hybrid" /\ lexical # <<>>
    /\ Candidates(Fused(RowsOf(Cut(dense, ChannelK)), RowsOf(Cut(lexical, ChannelK)),
                        req.rrfK, PoolK))

Result(list) ==
    /\ hits' = list
    /\ rest' = list
    /\ phase' = "pack"
    /\ UNCHANGED <<input, cites, seen, used, truncated, label>>

KeepTop ==
    /\ phase = "rank"
    /\ ~ req.rerank
    /\ Result(Cut(hits, req.topK))

\* rerank_hits: whatever the cross-encoder says, best first.
Rerank ==
    /\ phase = "rank"
    /\ req.rerank
    /\ \E logit \in [ToSet(RowsOf(hits)) -> Logit] :
        LET scores == [i \in DOMAIN hits |-> logit[hits[i].row]]
            judged == [i \in DOMAIN hits |-> [row |-> hits[i].row, score |-> scores[i]]]
        IN  Result(Cut(SortedBy(judged, scores, DOMAIN hits), req.topK))

----------------------------------------------------------------------------
(* assemble_context.                                                       *)

TrailerLength == 2
MarkLength == 1

\* The citation number has as many digits as it takes: HARD_MAX_TOP_K is not asked by
\* `crag context --top-k`.
Digits(n) == 1 + Cardinality({k \in 1..n : 10^k <= n})

\* "[n] (path)\n" and the blank line after the block.
Overhead(n, r) == Digits(n) + PathLength[r] + 6 + TrailerLength

BodyLength(r) ==
    IF req.parents /\ ParentLength[r] > 0 THEN ParentLength[r] ELSE ChildLength[r]

Hit == rest[1].row
Fresh == phase = "pack" /\ rest # <<>> /\ DedupeKey[Hit] \notin seen
HitOverhead == Overhead(Len(cites) + 1, Hit)

\* Mutant of Available: header and trailer are not counted.
AvailableForBlock == req.maxChars - used

\* Mutant of Available: room for the mark is kept in every block.
AvailableBeforeMark == req.maxChars - used - HitOverhead - MarkLength

Available == req.maxChars - used - HitOverhead

See == /\ seen' = seen \cup {DedupeKey[Hit]}
       /\ rest' = Tail(rest)

\* The parent, or the child itself, is in already.
SkipDuplicate ==
    /\ phase = "pack" /\ rest # <<>>
    /\ DedupeKey[Hit] \in seen
    /\ rest' = Tail(rest)
    /\ UNCHANGED <<input, phase, hits, cites, seen, used, truncated, label>>

SkipBlank ==
    /\ Fresh
    /\ BodyLength(Hit) = 0
    /\ See
    /\ UNCHANGED <<input, phase, hits, cites, used, truncated, label>>

\* Mutant of SpendBudget: a hit that does not fit makes room for the next one.
PassOver ==
    /\ Fresh
    /\ BodyLength(Hit) > 0
    /\ Available <= 0
    /\ truncated' = TRUE
    /\ See
    /\ UNCHANGED <<input, phase, hits, cites, used, label>>

\* Not even one character would fit after the header.
SpendBudget ==
    /\ Fresh
    /\ BodyLength(Hit) > 0
    /\ Available <= 0
    /\ truncated' = TRUE
    /\ See
    /\ phase' = "judge"
    /\ UNCHANGED <<input, hits, cites, used, label>>

PackWhole ==
    /\ Fresh
    /\ BodyLength(Hit) > 0
    /\ Available > 0
    /\ BodyLength(Hit) <= Available
    /\ See
    /\ cites' = Append(cites, [row |-> Hit, key |-> DedupeKey[Hit], length |-> BodyLength(Hit)])
    /\ used' = used + HitOverhead + BodyLength(Hit)
    /\ UNCHANGED <<input, phase, hits, truncated, label>>

\* Mutant of Kept: the mark is left out.
KeptWithoutMark == Available - MarkLength

\* body[:keep] + "…", with keep at least 0.
Kept == (IF Available > MarkLength THEN Available - MarkLength ELSE 0) + MarkLength

PackCut ==
    /\ Fresh
    /\ Available > 0
    /\ BodyLength(Hit) > Available
    /\ See
    /\ cites' = Append(cites, [row |-> Hit, key |-> DedupeKey[Hit], length |-> Kept])
    /\ used' = used + HitOverhead + Kept
    /\ truncated' = TRUE
    /\ phase' = "judge"
    /\ UNCHANGED <<input, hits, label>>

HitsAreThrough ==
    /\ phase = "pack" /\ rest = <<>>
    /\ phase' = "judge"
    /\ UNCHANGED <<input, hits, packing, label>>

\* "".join(blocks).rstrip(): no block ends in blanks but for its trailer.
CharsUsed == IF cites = <<>> THEN 0 ELSE used - TrailerLength

----------------------------------------------------------------------------
(* score_retrieval.                                                        *)

TopScore == hits[1].score
Magnitude(x) == IF x[1] < 0 THEN <<-x[1], x[2]>> ELSE x

IsHigh ==
    IF req.rerank \/ req.mode = "vector" THEN AtLeast(TopScore, MinScore)
    ELSE IF req.mode = "bm25" THEN AtLeast(Magnitude(TopScore), MinBm25)
    ELSE AtLeast(TopScore, MinRrf)

Judge ==
    /\ phase = "judge"
    /\ label' = IF hits = <<>> \/ CharsUsed = 0 THEN "empty" ELSE IF IsHigh THEN "high" ELSE "low"
    /\ phase' = "done"
    /\ UNCHANGED <<input, hits, packing>>

Next ==
    \/ SearchOneChannel \/ SearchDenseOnly \/ FuseChannels
    \/ KeepTop \/ Rerank
    \/ SkipDuplicate \/ SkipBlank \/ SpendBudget \/ PackWhole \/ PackCut \/ HitsAreThrough
    \/ Judge

Spec == Init /\ [][Next]_vars

----------------------------------------------------------------------------
(* Properties.                                                             *)

DenseRank(r) == RankIn(r, RowsOf(Cut(dense, ChannelK)))
LexicalRank(r) == RankIn(r, RowsOf(Cut(lexical, ChannelK)))
NoWorse(a, b) == b = 0 \/ a \in 1..b
Dominates(g, h) ==
    /\ NoWorse(DenseRank(g), DenseRank(h)) /\ NoWorse(LexicalRank(g), LexicalRank(h))
    /\ <<DenseRank(g), LexicalRank(g)>> # <<DenseRank(h), LexicalRank(h)>>

FusedHits == phase \notin {"search", "rank"} /\ req.mode = "hybrid" /\ lexical # <<>> /\ ~ req.rerank
Found == ToSet(RowsOf(Cut(dense, ChannelK))) \cup ToSet(RowsOf(Cut(lexical, ChannelK)))

\* A row that no channel ranks below another one, and some channel above it,
\* stands before it in the fused hits; what is cut off dominates nothing kept.
FusionKeepsRankings ==
    FusedHits => \A i \in DOMAIN hits : \A g \in Found :
        Dominates(g, hits[i].row) => \E j \in 1..(i - 1) : hits[j].row = g

\* docs/adr/0004: while the channels are read no deeper than rrf_k + 1, any row
\* that both return stands before every row that only one of them does.
AgreementWins ==
    FusedHits /\ ChannelK <= req.rrfK + 1 =>
        \A i \in DOMAIN hits : \A g \in Found :
            /\ DenseRank(g) # 0 /\ LexicalRank(g) # 0
            /\ DenseRank(hits[i].row) = 0 \/ LexicalRank(hits[i].row) = 0
            => \E j \in 1..(i - 1) : hits[j].row = g

\* With channels at least as deep as top_k, a result has top_k hits or every
\* row that matched, in each mode, fused or not, reranked or not.
AsManyAsAsked ==
    phase \notin {"search", "rank"} /\ req.candidateK >= req.topK =>
        LET matching == Cardinality(ToSet(RowsOf(dense)) \cup ToSet(RowsOf(lexical)))
        IN  Len(hits) = IF matching < req.topK THEN matching ELSE req.topK

\* The passages a context of unlimited length would hold: the first hit of
\* each key, if it has a text.
PassageHits ==
    {i \in DOMAIN hits : /\ BodyLength(hits[i].row) > 0
                        /\ \A j \in 1..(i - 1) : DedupeKey[hits[j].row] # DedupeKey[hits[i].row]}
Passages ==
    LET Nth(n) == CHOOSE i \in PassageHits : Cardinality({j \in PassageHits : j <= i}) = n
    IN  [n \in 1..Cardinality(PassageHits) |-> hits[Nth(n)].row]

\* The citations are the first passages in the order of the hits; every one is
\* whole but the last of a truncated context, and unless the context is marked
\* truncated none is missing.
PacksAPrefix ==
    phase = "done" =>
        /\ RowsOf(cites) = Cut(Passages, Len(cites))
        /\ \A i \in DOMAIN cites :
            cites[i].length = BodyLength(cites[i].row) \/ (truncated /\ i = Len(cites))
        /\ ~ truncated => Len(cites) = Len(Passages)

\* The packed blocks fit the budget, each with some text under its header.
PackedWithinBudget == used <= req.maxChars

\* The lengths of their blocks, and of so many of them together.
BlockLengths == [n \in DOMAIN Passages |-> Overhead(n, Passages[n]) + BodyLength(Passages[n])]
Sums(lengths) ==
    LET sum[n \in 0..Len(lengths)] == IF n = 0 THEN 0 ELSE sum[n - 1] + lengths[n]
    IN  sum

\* A context is marked truncated only if one passage more would not fit whole.
TruncatedIfTooLong ==
    phase = "done" /\ truncated =>
        LET whole == Cardinality({i \in DOMAIN cites : cites[i].length = BodyLength(cites[i].row)})
        IN  /\ whole < Len(Passages)
            /\ Sums(BlockLengths)[whole + 1] > req.maxChars

\* Where the threshold is above what the first rank of one channel gives (at the
\* default of 0.025, with rrf_k at least 40), a fused result is labelled high only
\* if both channels returned its first hit.
FusedHighIsAgreed ==
    FusedHits /\ label = "high" /\ Above(MinRrf, <<1, req.rrfK + 1>>) =>
        DenseRank(hits[1].row) # 0 /\ LexicalRank(hits[1].row) # 0

\* Fusion takes nothing from what the channels say of two rows.
FusionRespectsChannels == FusionKeepsRankings /\ AgreementWins
=============================================================================
