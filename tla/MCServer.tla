------------------------------ MODULE MCServer ------------------------------
(***************************************************************************)
(* Two threads, three requests; a file, and a directory of another file.   *)
(***************************************************************************)
EXTENDS Server

CONSTANTS f1, f2, outside, d1, local, mock, openai, m1, m2, t1, t2

MCFilesIn == [d \in Folder |-> {f2}]

Index(path, name) == [op |-> "index", path |-> path, provider |-> name, key |-> TRUE]
Ask(mode, name) == [op |-> "query", mode |-> mode, provider |-> name, deep |-> FALSE, key |-> TRUE]

MCRequest ==
    {Index(f1, Unnamed), Index(d1, Unnamed), Index(f1, openai), Index(outside, Unnamed),
     Ask("hybrid", Unnamed), Ask("vector", mock), Ask("bm25", openai),
     [Ask("hybrid", Unnamed) EXCEPT !.deep = TRUE], [Ask("bm25", Unnamed) EXCEPT !.key = FALSE]}

MCEarlier == {[path |-> f2, model |-> m2]}
=============================================================================
