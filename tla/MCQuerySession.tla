-------------------------- MODULE MCQuerySession --------------------------
(***************************************************************************)
(* d1 and d2 are versions of the file p1, d3 is p2, and p3 is empty.       *)
(***************************************************************************)
EXTENDS QuerySession, TLC

CONSTANTS u1, d1, d2, d3, d4, p1, p2, p3, A, B, m1, m2, c0, k1, k2

MCPathOf == [d \in Doc |-> CASE d \in {d1, d2} -> p1 [] d = d3 -> p2 [] OTHER -> p3]
MCDimOf == [m \in Model |-> 2]

\* A is re-indexed with another model, B has one.
MCCollOf == [d \in Doc |-> IF d = d3 THEN B ELSE A]
MCModelOf == [d \in Doc |-> IF d = d2 THEN m2 ELSE m1]

\* Everything in A and of one model.
MCOneCollOf == [d \in Doc |-> A]
MCOneModelOf == [d \in Doc |-> m1]

\* d1: two children of one parent; d2: one without a parent; d4: none.
MCParentOf == [d \in Doc |->
    CASE d = d1 -> k1 :> c0 @@ k2 :> c0
      [] d \in {d2, d3} -> k2 :> NoParent
      [] OTHER -> <<>>]
MCFlatParentOf == [d \in Doc |-> k1 :> c0]

Ask(modes, colls, asked, rerank, own) ==
    [mode : modes, coll : colls, model : asked, rerank : rerank, own : own]
MCRequest ==
    Ask({"vector", "hybrid", "bm25"}, {A}, {m1}, {FALSE}, {FALSE})
        \cup Ask({"hybrid"}, {A}, {m1}, {TRUE}, {FALSE})
        \cup Ask({"vector"}, {A, B}, {m1, m2}, {FALSE}, {TRUE})
MCDenseRequest == Ask({"vector"}, {A}, {m1, m2}, {FALSE}, {FALSE})
=============================================================================
