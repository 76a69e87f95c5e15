------------------------- MODULE MCIngestPipeline -------------------------
(***************************************************************************)
(* Two workers, of one server or of two processes, and files that change   *)
(* under them.                                                             *)
(***************************************************************************)
EXTENDS IngestPipeline

CONSTANTS w1, w2, p1, p2, p3, v1, v2, v3, A, m1, m2

MCFirst == [p \in Path |-> v1]

Index(files_, m) == [files |-> files_, coll |-> A, model |-> m]
MCJob == {Index(<<p1>>, m1), Index(<<p1>>, m2), Index(<<p1, p2, p3>>, m1)}

\* w1 walks a directory larger than the limit, w2 indexes one of its files.
MCJobsOf == [w \in Worker |-> {IF w = w1 THEN Index(<<p1, p2, p3>>, m1) ELSE Index(<<p1>>, m1)}]
MCVersions == [p \in Path |-> IF p = p1 THEN 2 ELSE 0]

MCModelJobsOf == [w \in Worker |-> {Index(<<p1>>, m1), Index(<<p1>>, m2)}]
MCNoVersions == [p \in Path |-> 0]
=============================================================================
