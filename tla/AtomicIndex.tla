--------------------------- MODULE AtomicIndex ---------------------------
(***************************************************************************)
(* What SQLiteIndexStore.upsert promises (docs/adr/0001): the index maps a *)
(* source path to the document last written for it, and writing a document *)
(* replaces the previous one in a single step that either happens or does  *)
(* not.  A writer that gets an error changed nothing; one that dies knows  *)
(* nothing.  IndexStore implements it statement by statement.              *)
(***************************************************************************)
CONSTANTS Doc, Path, PathOf, NoDoc

VARIABLES
    index,      \* index[p]: the document served for p, or NoDoc
    status      \* status[d]: how far the upsert of d is

avars == <<index, status>>

Status == {"new", "running", "written", "stored", "failed", "crashed"}

AtomicTypeOK ==
    /\ index \in [Path -> Doc \cup {NoDoc}]
    /\ status \in [Doc -> Status]

AtomicInit ==
    /\ index = [p \in Path |-> NoDoc]
    /\ status = [d \in Doc |-> "new"]

Call(d) ==
    /\ status[d] = "new"
    /\ status' = [status EXCEPT ![d] = "running"]
    /\ UNCHANGED index

Publish(d) ==
    /\ status[d] = "running"
    /\ status' = [status EXCEPT ![d] = "written"]
    /\ index' = [index EXCEPT ![PathOf[d]] = d]

Return(d) ==
    /\ status[d] = "written"
    /\ status' = [status EXCEPT ![d] = "stored"]
    /\ UNCHANGED index

Raise(d) ==
    /\ status[d] = "running"
    /\ status' = [status EXCEPT ![d] = "failed"]
    /\ UNCHANGED index

\* A process dies with the calls it was serving.
Die(D) ==
    /\ \A d \in D : status[d] \in {"running", "written"}
    /\ status' = [d \in Doc |-> IF d \in D THEN "crashed" ELSE status[d]]
    /\ UNCHANGED index

AtomicNext ==
    \/ \E d \in Doc : Call(d) \/ Publish(d) \/ Return(d) \/ Raise(d)
    \/ \E D \in SUBSET Doc : Die(D)

AtomicSpec == AtomicInit /\ [][AtomicNext]_avars
=============================================================================
