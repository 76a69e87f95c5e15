--------------------------- MODULE StoreTables ---------------------------
(***************************************************************************)
(* The four tables of the SQLite index (src/custom_rag/storage/schema.py)  *)
(* and the statements storage/sqlite_store.py runs on them, as operators   *)
(* from tables to tables.  IndexStore runs them inside transactions.       *)
(*                                                                         *)
(* An embedded document is a member of Doc.  parse_file draws a new uuid4  *)
(* doc_id every time it runs and index_file upserts its result once, so    *)
(* the doc_id names the document and everything upsert is given with it:   *)
(* the file it was read from, the target collection, the signature of the  *)
(* provider that embedded it, and its chunks.  Text, vectors, locations    *)
(* and timestamps are left out: no statement here branches on them.        *)
(*                                                                         *)
(* The key storage_id is f"{doc_id}::{chunk_id}".  A uuid holds no ':', so *)
(* it is the pair (doc_id, chunk_id), and a row is filed under its         *)
(* document and its chunk id.                                              *)
(***************************************************************************)
EXTENDS Naturals, Sequences

CONSTANTS
    Doc,        \* embedded documents, one per doc_id
    Path,       \* values of documents.source_path
    Coll,       \* collections
    Sig,        \* (provider, model, dimensions) triples
    ChunkId,
    PathOf,     \* PathOf[d]: metadata.source_path
    CollOf,     \* CollOf[d]: the collection argument of upsert
    SigOf,      \* SigOf[d]: one provider embeds every child of a document
    ChunkList   \* ChunkList[d]: the parents of d, then its children

Role == {"parent", "child"}

ASSUME DocumentAssumption ==
    /\ PathOf \in [Doc -> Path]
    /\ CollOf \in [Doc -> Coll]
    /\ SigOf \in [Doc -> Sig]
    /\ ChunkList \in [Doc -> Seq([id : ChunkId, role : Role])]

----------------------------------------------------------------------------
(* The rows.  The chunks table is split by its role column.  chunks_fts is *)
(* an FTS5 table without a key, which would take the same chunk twice:     *)
(* fts counts its rows.  torn is no column: it remembers the documents a   *)
(* _rebuild_fts that raised has left without some of their FTS rows.       *)

Tables == [docs     : SUBSET Doc,
           parents  : [Doc -> SUBSET ChunkId],
           children : [Doc -> SUBSET ChunkId],
           embs     : [Doc -> SUBSET ChunkId],
           fts      : [Doc -> [ChunkId -> Nat]],
           torn     : SUBSET Doc]

NoRows == [k \in ChunkId |-> 0]
OneRowEach(ids) == [k \in ChunkId |-> IF k \in ids THEN 1 ELSE 0]

EmptyTables == [docs     |-> {},
                parents  |-> [d \in Doc |-> {}],
                children |-> [d \in Doc |-> {}],
                embs     |-> [d \in Doc |-> {}],
                fts      |-> [d \in Doc |-> NoRows],
                torn     |-> {}]

----------------------------------------------------------------------------
(* Statements.  A Can... operator is the primary key, UNIQUE and foreign   *)
(* key constraints of the statement: where it is FALSE SQLite raises       *)
(* IntegrityError.                                                         *)

\* SELECT doc_id FROM documents WHERE source_path = ?
DocsAt(T, p) == {d \in T.docs : PathOf[d] = p}

\* Mutant of DeleteDocument: the FTS rows stay.
DeleteKeepingFts(T, d) ==
    [docs     |-> T.docs \ {d},
     parents  |-> [T.parents EXCEPT ![d] = {}],
     children |-> [T.children EXCEPT ![d] = {}],
     embs     |-> [T.embs EXCEPT ![d] = {}],
     fts      |-> T.fts,
     torn     |-> T.torn \ {d}]

\* _delete_document: FTS rows, embeddings, chunks, then the document row.
DeleteDocument(T, d) ==
    [docs     |-> T.docs \ {d},
     parents  |-> [T.parents EXCEPT ![d] = {}],
     children |-> [T.children EXCEPT ![d] = {}],
     embs     |-> [T.embs EXCEPT ![d] = {}],
     fts      |-> [T.fts EXCEPT ![d] = NoRows],
     torn     |-> T.torn \ {d}]

\* Mutant of CanInsertDocument: source_path is not UNIQUE.
CanInsertAnyDocument(T, d) == d \notin T.docs

CanInsertDocument(T, d) ==
    /\ d \notin T.docs
    /\ DocsAt(T, PathOf[d]) = {}

InsertDocumentRow(T, d) == [T EXCEPT !.docs = T.docs \cup {d}]

CanInsertChunk(T, d, chunk) ==
    /\ d \in T.docs
    /\ chunk.id \notin T.parents[d] \cup T.children[d]

\* _insert_chunk, and for a child the embedding row that goes with it.
InsertChunkRows(T, d, chunk) ==
    IF chunk.role = "parent"
    THEN [T EXCEPT !.parents = [T.parents EXCEPT ![d] = T.parents[d] \cup {chunk.id}]]
    ELSE [T EXCEPT !.children = [T.children EXCEPT ![d] = T.children[d] \cup {chunk.id}],
                   !.embs = [T.embs EXCEPT ![d] = T.embs[d] \cup {chunk.id}]]

\* Mutant of SyncFtsRows: the SELECT has lost its role = 'child'.
SyncAllRows(T, d) ==
    [T EXCEPT !.fts = [T.fts EXCEPT ![d] = OneRowEach(T.parents[d] \cup T.children[d])]]

\* _sync_fts_for_doc: drop the document's FTS rows, add one per child row.
SyncFtsRows(T, d) == [T EXCEPT !.fts = [T.fts EXCEPT ![d] = OneRowEach(T.children[d])]]

\* Mutant of RebuiltFtsRows: the old rows are not deleted first.
RebuiltOnTop(T, left) ==
    [T EXCEPT !.fts = [d \in Doc |-> [k \in ChunkId |->
                          T.fts[d][k] + IF k \in T.children[d] \ left[d] THEN 1 ELSE 0]],
              !.torn = {d \in T.docs : left[d] # {}}]

\* _rebuild_fts: drop all FTS rows, add one per child row, but for those that
\* are left when an INSERT raises: left[d] are the children of d not reached.
RebuiltFtsRows(T, left) ==
    [T EXCEPT !.fts = [d \in Doc |-> OneRowEach(T.children[d] \ left[d])],
              !.torn = {d \in T.docs : left[d] # {}}]

----------------------------------------------------------------------------
(* Queries.                                                                *)

\* embedding_signatures: DISTINCT over the embeddings of a collection.
Signatures(T, q) == {SigOf[d] : d \in {x \in T.docs : CollOf[x] = q /\ T.embs[x] # {}}}

\* search_vector: embeddings JOIN chunks JOIN documents of the collection.
DenseRows(T, q) ==
    {r \in T.docs \X ChunkId :
        /\ CollOf[r[1]] = q
        /\ r[2] \in T.embs[r[1]]
        /\ r[2] \in T.parents[r[1]] \cup T.children[r[1]]}

\* search_bm25: chunks_fts JOIN chunks JOIN documents of the collection.
LexicalRows(T, q) ==
    {r \in T.docs \X ChunkId :
        /\ CollOf[r[1]] = q
        /\ T.fts[r[1]][r[2]] > 0
        /\ r[2] \in T.parents[r[1]] \cup T.children[r[1]]}

----------------------------------------------------------------------------
(* What whole tables hold.                                                 *)

ChunksUpTo(d, n, role) ==
    {ChunkList[d][i].id : i \in {j \in 1..n : ChunkList[d][j].role = role}}

ParentsOf(d) == ChunksUpTo(d, Len(ChunkList[d]), "parent")
ChildrenOf(d) == ChunksUpTo(d, Len(ChunkList[d]), "child")

\* Its FTS rows: one for each child, or for some while a rebuild that raised has
\* not been made good; never two for one, nor one for a chunk that is not there.
FtsWholeAt(T, d) ==
    \E ids \in SUBSET T.children[d] :
        /\ T.fts[d] = OneRowEach(ids)
        /\ d \notin T.torn => ids = T.children[d]

\* Document d is there with all its rows, or not there with none of them.
WholeAt(T, d) ==
    /\ T.parents[d] = IF d \in T.docs THEN ParentsOf(d) ELSE {}
    /\ T.children[d] = IF d \in T.docs THEN ChildrenOf(d) ELSE {}
    /\ T.embs[d] = T.children[d]
    /\ FtsWholeAt(T, d)

Whole(T) == \A d \in Doc : WholeAt(T, d)

OnePerPath(T) == \A d, e \in T.docs : PathOf[d] = PathOf[e] => d = e
=============================================================================
