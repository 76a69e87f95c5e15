-------------------------- MODULE MCIndexStore --------------------------
(***************************************************************************)
(* Two server threads on one store and a command line process on another.  *)
(* d1 and d2 are versions of one file embedded with different models, the  *)
(* second without a heading; d3 is another file; d4 is a second reading of *)
(* that file whose chunker gave two children the same id.                  *)
(***************************************************************************)
EXTENDS IndexStore

CONSTANTS s1, s2, k1, server, cli, d1, d2, d3, d4, p1, p2, A, m1, m2, c0, c1

MCConnOf == [t \in Thread |-> IF t = k1 THEN cli ELSE server]
MCPathOf == [d \in Doc |-> IF d \in {d1, d2} THEN p1 ELSE p2]
MCCollOf == [d \in Doc |-> A]
MCSigOf == [d \in Doc |-> IF d = d2 THEN m2 ELSE m1]

parent == [id |-> c0, role |-> "parent"]
child == [id |-> c1, role |-> "child"]
MCChunkList == [d \in Doc |->
    CASE d = d1 -> <<parent, child>>
      [] d = d4 -> <<child, child>>
      [] OTHER -> <<child>>]
=============================================================================
