---------------------------- MODULE MCEvalHarness ----------------------------
(***************************************************************************)
(* A dataset of three documents, one without text, and three queries, one   *)
(* unjudged; the full corpus, a smaller one in a directory of its own and  *)
(* one put where the full one is.                                          *)
(***************************************************************************)
EXTENDS EvalHarness

CONSTANTS q1, q2, q3, f1, f2, f3, w1, w2, fixtures

MCDocs == <<2, 1, 3>>
MCQueries == <<q1, q2, q3>>
MCJudged == [q \in {q1, q2, q3} |-> CASE q = q1 -> {} [] q = q2 -> {1} [] OTHER -> {1, 3}]

AskFor(docs, queries, dir, force) ==
    [max_docs |-> docs, max_queries |-> queries, cache_dir |-> dir, force |-> force]
MCRequests ==
    {AskFor(Unlimited, Unlimited, DefaultDir, force) : force \in BOOLEAN}
    \cup {AskFor(1, 1, DefaultDir, FALSE), AskFor(1, 1, Full, FALSE)}

Rule(source, text) == [external_id |-> Nothing, source |-> source, text |-> text]
MCFixtureRequest == AskFor(0, 0, fixtures, FALSE)
MCGiven ==
    [dir \in {fixtures} |->
        [texts |-> [d \in Doc |-> IF d \in {1, 2} THEN Whole ELSE Absent], sidecars |-> {},
         qrels |-> {f1, f2, f3}, manifest |-> Absent]]
MCFixtureRules ==
    [f \in {f1, f2, f3} |->
        CASE f = f1 -> {Rule({<<fixtures, 1>>}, w2), Rule({<<fixtures, 2>>}, w2)}
          [] f = f2 -> {}
          [] OTHER -> {Rule(Nothing, w1)}]
MCWords == [d \in {1, 2, 3} |-> IF d = 1 THEN <<{w1}, {w2}>> ELSE <<{w1}>>]
=============================================================================
