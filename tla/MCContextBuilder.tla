------------------------- MODULE MCContextBuilder -------------------------
(***************************************************************************)
(* Four rows, of which r1 and r2 have one parent and r2 has no text of its *)
(* own, and every ranking of up to three of them in each channel.          *)
(***************************************************************************)
EXTENDS ContextBuilder

CONSTANTS r1, r2, r3, r4, ka, kb, kc

MCKey == [r \in Row |-> CASE r \in {r1, r2} -> ka [] r = r3 -> kb [] OTHER -> kc]
MCChild == [r \in Row |-> CASE r = r1 -> 3 [] r = r2 -> 0 [] r = r3 -> 2 [] OTHER -> 5]
MCParent == [r \in Row |-> CASE r \in {r1, r2} -> 6 [] r = r4 -> 9 [] OTHER -> 0]
MCPath == [r \in Row |-> IF r = r4 THEN 3 ELSE 1]

Depth == 3
Rankings == {s \in UNION {[1..n -> Row] : n \in 0..Depth} :
                \A i, j \in DOMAIN s : s[i] = s[j] => i = j}

WithScores(s, scores) == [i \in DOMAIN s |-> [row |-> s[i], score |-> scores[i]]]

\* A strong and a weak cosine first; bm25 scores are negative, best first.
MCDense == {WithScores(s, <<x, <<2, 100>>, <<-1, 100>>>>) : s \in Rankings, x \in {<<40, 100>>, <<10, 100>>}}
MCLexical == {WithScores(s, <<<<-3, 2>>, <<-1, 1>>, <<-1, 2>>>>) : s \in Rankings}
MCLogit == {<<-1, 1>>, <<1, 1>>}

Ask(mode, k, depth, rrf, rerank, chars, parents) ==
    [mode |-> mode, topK |-> k, candidateK |-> depth, rrfK |-> rrf, rerank |-> rerank,
     maxChars |-> chars, parents |-> parents]

MCRequest ==
    {Ask("hybrid", 2, 3, 2, FALSE, n, p) : n \in {12, 24, 60}, p \in BOOLEAN}
    \cup {Ask("hybrid", 3, 3, 60, FALSE, n, TRUE) : n \in {17, 60}}
    \cup {Ask("hybrid", 2, 1, 60, r, 22, FALSE) : r \in BOOLEAN}
    \cup {Ask(m, 3, 3, 60, r, n, p) : m \in {"vector", "bm25"}, r \in BOOLEAN,
                                        n \in {13, 30, 60}, p \in BOOLEAN}

MCMinScore == <<25, 100>>
MCMinBm25 == <<1, 1>>
MCMinRrf == <<25, 1000>>
=============================================================================
