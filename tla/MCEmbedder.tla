----------------------------- MODULE MCEmbedder -----------------------------
(***************************************************************************)
(* Two versions of one file and another file, two of whose chunks share an *)
(* id; three providers, two of them with one model; and caches for none of *)
(* the six keys, for some of them and for all.                             *)
(***************************************************************************)
EXTENDS Embedder

CONSTANTS p1, p2, v1, v2, x1, x2, x3, c1, c2, c3, a1, a2, b1, m1, m2

MCDoc ==
    {[path |-> p1, version |-> v1, chunks |-> <<[id |-> c1, text |-> x1], [id |-> c2, text |-> x2]>>],
     [path |-> p1, version |-> v2,
      chunks |-> <<[id |-> c1, text |-> x3], [id |-> c2, text |-> x1], [id |-> c3, text |-> x3]>>],
     [path |-> p2, version |-> v1,
      chunks |-> <<[id |-> c1, text |-> x2], [id |-> c1, text |-> x3]>>]}

MCProvider == {[name |-> a1, model |-> m1], [name |-> a2, model |-> m1], [name |-> b1, model |-> m2]}
=============================================================================
