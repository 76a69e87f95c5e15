------------------------- MODULE IndexStoreProofs -------------------------
(***************************************************************************)
(* Theorems about IndexStore, for every set of documents, threads,         *)
(* connections and chunks.                                                 *)
(***************************************************************************)
EXTENDS IndexStore, SequenceTheorems, TLAPS

(* Lemmas on the tables.                                                   *)

LEMMA EmptyTablesTyped == EmptyTables \in Tables /\ Whole(EmptyTables) /\ OnePerPath(EmptyTables)
<1>1. OneRowEach({}) = NoRows
  BY DEF OneRowEach, NoRows
<1>2. EmptyTables \in Tables /\ OnePerPath(EmptyTables)
  BY DEF EmptyTables, Tables, NoRows, OnePerPath
<1>3. Whole(EmptyTables)
  BY <1>1 DEF EmptyTables, Whole, WholeAt, FtsWholeAt
<1> QED
  BY <1>2, <1>3

LEMMA DeleteTyped ==
    ASSUME NEW T \in Tables, NEW d \in Doc
    PROVE  DeleteDocument(T, d) \in Tables
BY DEF DeleteDocument, Tables, NoRows

LEMMA InsertDocumentTyped ==
    ASSUME NEW T \in Tables, NEW d \in Doc
    PROVE  InsertDocumentRow(T, d) \in Tables
BY DEF InsertDocumentRow, Tables

LEMMA InsertChunkTyped ==
    ASSUME NEW T \in Tables, NEW d \in Doc, NEW chunk \in [id : ChunkId, role : Role]
    PROVE  InsertChunkRows(T, d, chunk) \in Tables
BY DEF InsertChunkRows, Tables

LEMMA SyncTyped ==
    ASSUME NEW T \in Tables, NEW d \in Doc
    PROVE  SyncFtsRows(T, d) \in Tables
BY DEF SyncFtsRows, OneRowEach, Tables

LEMMA RebuildTyped ==
    ASSUME NEW T \in Tables, NEW left
    PROVE  RebuiltFtsRows(T, left) \in Tables
BY DEF RebuiltFtsRows, OneRowEach, Tables

\* Rebuilding the FTS rows of whole tables leaves whole tables, wherever it stops.
LEMMA RebuildWhole ==
    ASSUME NEW T \in Tables, NEW left, Whole(T)
    PROVE  /\ Whole(RebuiltFtsRows(T, left))
           /\ RebuiltFtsRows(T, left).docs = T.docs
<1> DEFINE U == RebuiltFtsRows(T, left)
<1>1. /\ U.docs = T.docs /\ U.parents = T.parents /\ U.children = T.children /\ U.embs = T.embs
      /\ U.torn = {d \in T.docs : left[d] # {}}
      /\ \A d \in Doc : U.fts[d] = OneRowEach(T.children[d] \ left[d])
  BY DEF RebuiltFtsRows, Tables
<1> HIDE DEF U
<1>2. ASSUME NEW d \in Doc PROVE FtsWholeAt(U, d)
  <2>1. WholeAt(T, d)
    BY DEF Whole
  <2>2. d \notin U.torn => T.children[d] \ left[d] = T.children[d]
    BY <1>1, <2>1 DEF WholeAt
  <2> QED
    BY <1>1, <2>2 DEF FtsWholeAt
<1>3. Whole(U)
  BY <1>1, <1>2 DEF Whole, WholeAt
<1> QED
  BY <1>1, <1>3 DEF U

\* Deleting a document of whole tables leaves whole tables.
LEMMA DeleteWhole ==
    ASSUME NEW T \in Tables, NEW d \in Doc, Whole(T)
    PROVE  /\ Whole(DeleteDocument(T, d))
           /\ DeleteDocument(T, d).docs = T.docs \ {d}
<1> DEFINE U == DeleteDocument(T, d)
<1>1. OneRowEach({}) = NoRows
  BY DEF OneRowEach, NoRows
<1>2. /\ U.docs = T.docs \ {d} /\ U.torn = T.torn \ {d}
      /\ U.parents[d] = {} /\ U.children[d] = {} /\ U.embs[d] = {} /\ U.fts[d] = NoRows
      /\ \A x \in Doc \ {d} : /\ U.parents[x] = T.parents[x] /\ U.children[x] = T.children[x]
                              /\ U.embs[x] = T.embs[x] /\ U.fts[x] = T.fts[x]
  BY DEF DeleteDocument, Tables
<1> HIDE DEF U
<1>3. ASSUME NEW x \in Doc PROVE WholeAt(U, x)
  <2>1. CASE x = d
    BY <1>1, <1>2, <2>1 DEF WholeAt, FtsWholeAt
  <2>2. CASE x # d
    BY <1>2, <2>2 DEF Whole, WholeAt, FtsWholeAt
  <2> QED
    BY <2>1, <2>2
<1> QED
  BY <1>2, <1>3 DEF Whole, U

LEMMA ChunkTyped ==
    ASSUME NEW d \in Doc, NEW n \in 1..Len(ChunkList[d])
    PROVE  ChunkList[d][n] \in [id : ChunkId, role : Role]
<1>1. ChunkList[d] \in Seq([id : ChunkId, role : Role])
  BY DocumentAssumption
<1> QED
  BY <1>1, ElementOfSeq

LEMMA ChunkCount ==
    ASSUME NEW d \in Doc
    PROVE  Len(ChunkList[d]) \in Nat
BY DocumentAssumption

LEMMA NoChunks ==
    ASSUME NEW d \in Doc, NEW r
    PROVE  ChunksUpTo(d, 0, r) = {}
BY DEF ChunksUpTo

LEMMA NextChunk ==
    ASSUME NEW d \in Doc, NEW n \in Nat, NEW r, n + 1 <= Len(ChunkList[d])
    PROVE  ChunksUpTo(d, n + 1, r) =
               IF ChunkList[d][n + 1].role = r
               THEN ChunksUpTo(d, n, r) \cup {ChunkList[d][n + 1].id}
               ELSE ChunksUpTo(d, n, r)
<1>1. 1..(n + 1) = 1..n \cup {n + 1}
  OBVIOUS
<1> QED
  BY <1>1 DEF ChunksUpTo

----------------------------------------------------------------------------
(* Type correctness.                                                       *)

LEMMA InitTyped == Init => TypeOK
BY EmptyTablesTyped, StoreAssumption DEF Init, TypeOK, EmptyCache, PC, Status, Upserting

LEMMA ViewTyped ==
    ASSUME TypeOK, NEW c
    PROVE  View(c) \in Tables
BY DEF TypeOK, View

LEMMA SignaturesTyped ==
    ASSUME NEW T \in Tables, NEW q
    PROVE  Signatures(T, q) \subseteq Sig
BY DocumentAssumption DEF Signatures, Tables

LEMMA WriteTyped ==
    ASSUME TypeOK, NEW t \in Thread, NEW T \in Tables, Write(t, T)
    PROVE  db' \in Tables /\ work' \in Tables /\ txn' \in Conn \cup {NoConn}
BY StoreAssumption DEF TypeOK, Write

\* A rebuild, whether it succeeds or raises, leaves whole tables whole.
LEMMA RebuildStep ==
    ASSUME TypeOK, NEW t \in Thread, RebuildFts(t) \/ RebuildRaises(t)
    PROVE  \E T \in Tables : /\ Rebuilds(t, T)
                             /\ T.docs = work.docs
                             /\ Whole(work) => Whole(T)
<1>1. work \in Tables
  BY DEF TypeOK
<1>2. CASE RebuildFts(t)
  <2>1. PICK T : T = RebuiltFtsRows(work, [d \in Doc |-> {}])
    OBVIOUS
  <2>2. Rebuilds(t, T)
    BY <1>2, <2>1 DEF RebuildFts
  <2>3. T \in Tables
    BY <1>1, <2>1, RebuildTyped
  <2>4. T.docs = work.docs
    BY <1>1, <2>1 DEF RebuiltFtsRows, Tables
  <2>5. Whole(work) => Whole(T)
    BY <1>1, <2>1, RebuildWhole
  <2> QED
    BY <2>2, <2>3, <2>4, <2>5
<1>3. CASE Rebuilds(t, work)
  BY <1>1, <1>3
<1>4. ASSUME NEW rest, Rebuilds(t, RebuiltFtsRows(work, [d \in Doc |-> {k \in ChunkId : <<d, k>> \in rest}]))
      PROVE  \E T \in Tables : Rebuilds(t, T) /\ T.docs = work.docs /\ (Whole(work) => Whole(T))
  <2>1. PICK T : T = RebuiltFtsRows(work, [d \in Doc |-> {k \in ChunkId : <<d, k>> \in rest}])
    OBVIOUS
  <2>2. Rebuilds(t, T)
    BY <1>4, <2>1
  <2>3. T \in Tables
    BY <1>1, <2>1, RebuildTyped
  <2>4. T.docs = work.docs
    BY <1>1, <2>1 DEF RebuiltFtsRows, Tables
  <2>5. Whole(work) => Whole(T)
    BY <1>1, <2>1, RebuildWhole
  <2> QED
    BY <2>2, <2>3, <2>4, <2>5
<1> QED
  BY <1>2, <1>3, <1>4 DEF RebuildRaises

LEMMA RollBackTyped ==
    ASSUME TypeOK, NEW c \in Conn, RollBack(c)
    PROVE  db' \in Tables /\ work' \in Tables /\ txn' \in Conn \cup {NoConn}
BY DEF TypeOK, RollBack

LEMMA NextTyped == TypeOK /\ [Next]_vars => TypeOK'
<1> SUFFICES ASSUME TypeOK, [Next]_vars PROVE TypeOK'
  OBVIOUS
<1> USE StoreAssumption, DocumentAssumption DEF PC, Upserting, Status
<1>1. ASSUME NEW t \in Thread, NEW d \in Doc, BeginUpsert(t, d) PROVE TypeOK'
  BY <1>1 DEF TypeOK, BeginUpsert, Goto, tables
<1>2. ASSUME NEW t \in Thread, AcquireLock(t) PROVE TypeOK'
  BY <1>2 DEF TypeOK, AcquireLock, Goto, tables
<1>3. ASSUME NEW t \in Thread, SelectExisting(t) PROVE TypeOK'
  <2>1. DocsAt(View(ConnOf[t]), PathOf[doc[t]]) \subseteq Doc
    <3>1. View(ConnOf[t]) \in Tables
      BY ViewTyped
    <3> QED
      BY <3>1 DEF DocsAt, Tables
  <2>2. /\ UNCHANGED <<tables, lock, sig, doc, at, asked, rows, status>>
        /\ \/ pc' = [pc EXCEPT ![t] = "document"] /\ old' = old
           \/ /\ pc' = [pc EXCEPT ![t] = "delete"]
              /\ \E e \in Doc : old' = [old EXCEPT ![t] = e]
    BY <1>3, <2>1 DEF SelectExisting, Goto
  <2>3. doc[t] # NoDoc
    BY <1>3 DEF TypeOK, SelectExisting
  <2>4. CASE pc' = [pc EXCEPT ![t] = "document"] /\ old' = old
    BY <2>2, <2>3, <2>4 DEF TypeOK, tables
  <2>5. ASSUME NEW e \in Doc, pc' = [pc EXCEPT ![t] = "delete"], old' = [old EXCEPT ![t] = e]
        PROVE  TypeOK'
    BY <2>2, <2>3, <2>5 DEF TypeOK, tables
  <2> QED
    BY <2>2, <2>4, <2>5
<1>4. ASSUME NEW t \in Thread, DeleteOld(t) PROVE TypeOK'
  <2>1. DeleteDocument(work, old[t]) \in Tables
    BY <1>4, DeleteTyped DEF TypeOK, DeleteOld
  <2>2. db' \in Tables /\ work' \in Tables /\ txn' \in Conn \cup {NoConn}
    BY <1>4, <2>1, WriteTyped DEF DeleteOld
  <2> QED
    BY <1>4, <2>2 DEF TypeOK, DeleteOld, Goto
<1>5. ASSUME NEW t \in Thread, InsertDocument(t) PROVE TypeOK'
  <2>1. InsertDocumentRow(work, doc[t]) \in Tables
    BY <1>5, InsertDocumentTyped DEF TypeOK, InsertDocument
  <2>2. db' \in Tables /\ work' \in Tables /\ txn' \in Conn \cup {NoConn}
    BY <1>5, <2>1, WriteTyped DEF InsertDocument
  <2> QED
    BY <1>5, <2>2 DEF TypeOK, InsertDocument, Goto
<1>6. ASSUME NEW t \in Thread, InsertChunk(t) PROVE TypeOK'
  <2> DEFINE chunk == ChunkList[doc[t]][at[t] + 1]
  <2>1. doc[t] \in Doc /\ at[t] \in Nat
    BY <1>6 DEF TypeOK, InsertChunk
  <2>2. chunk \in [id : ChunkId, role : Role]
    BY <1>6, <2>1, ChunkTyped, ChunkCount DEF InsertChunk
  <2>3. InsertChunkRows(work, doc[t], chunk) \in Tables
    BY <2>1, <2>2, InsertChunkTyped DEF TypeOK
  <2>4. db' \in Tables /\ work' \in Tables /\ txn' \in Conn \cup {NoConn}
    BY <1>6, <2>3, WriteTyped DEF InsertChunk
  <2> QED
    BY <1>6, <2>1, <2>4 DEF TypeOK, InsertChunk
<1>7. ASSUME NEW t \in Thread, SyncFts(t) PROVE TypeOK'
  <2>1. SyncFtsRows(work, doc[t]) \in Tables
    BY <1>7, SyncTyped DEF TypeOK, SyncFts
  <2>2. db' \in Tables /\ work' \in Tables /\ txn' \in Conn \cup {NoConn}
    BY <1>7, <2>1, WriteTyped DEF SyncFts
  <2> QED
    BY <1>7, <2>2 DEF TypeOK, SyncFts, Goto
<1>8. ASSUME NEW t \in Thread, Commit(t) PROVE TypeOK'
  BY <1>8 DEF TypeOK, Commit, Goto
<1>9. ASSUME NEW t \in Thread, Release(t) PROVE TypeOK'
  BY <1>9 DEF TypeOK, Release, Leave, tables
<1>10. ASSUME NEW t \in Thread, StatementFails(t) PROVE TypeOK'
  BY <1>10, RollBackTyped DEF TypeOK, StatementFails, Leave
<1>11. ASSUME NEW t \in Thread, NEW q \in Coll, LookupMiss(t, q) PROVE TypeOK'
  BY <1>11 DEF TypeOK, LookupMiss, Goto, tables
<1>12. ASSUME NEW t \in Thread, ReadSignatures(t) PROVE TypeOK'
  <2>1. Signatures(View(ConnOf[t]), asked[t]) \subseteq Sig
    BY ViewTyped, SignaturesTyped
  <2> QED
    BY <1>12, <2>1 DEF TypeOK, ReadSignatures, Goto, tables
<1>13. ASSUME NEW t \in Thread, StoreSignatures(t) PROVE TypeOK'
  BY <1>13 DEF TypeOK, StoreSignatures, Goto, tables
<1>14. ASSUME NEW t \in Thread, NEW T \in Tables, Rebuilds(t, T) PROVE TypeOK'
  <2>1. db' \in Tables /\ work' \in Tables /\ txn' \in Conn \cup {NoConn}
    BY <1>14, WriteTyped DEF Rebuilds
  <2> QED
    BY <1>14, <2>1 DEF TypeOK, Rebuilds, locals
<1>15. ASSUME NEW c \in Conn, Reopen(c) PROVE TypeOK'
  BY <1>15, RollBackTyped DEF TypeOK, Reopen, EmptyCache, locals
<1>16. ASSUME NEW c \in Conn, Crash(c) PROVE TypeOK'
  BY <1>16, RollBackTyped DEF TypeOK, Crash, EmptyCache
<1>17. CASE UNCHANGED vars
  BY <1>17 DEF TypeOK, vars
<1> QED
  BY <1>1, <1>2, <1>3, <1>4, <1>5, <1>6, <1>7, <1>8, <1>9, <1>10, <1>11, <1>12, <1>13, <1>14,
     <1>15, <1>16, <1>17, RebuildStep
  DEF Next, UpsertStep, LookupStep

\* Type correctness of the store.
THEOREM TypeCorrect == Spec => []TypeOK
BY InitTyped, NextTyped, PTL DEF Spec

----------------------------------------------------------------------------
(* The lock.                                                               *)

LEMMA NextLock == TypeOK /\ LockInv /\ [Next]_vars => LockInv'
<1> SUFFICES ASSUME TypeOK, LockInv, [Next]_vars PROVE LockInv'
  OBVIOUS
<1> USE StoreAssumption DEF TypeOK, LockInv, Locked, Upserting
<1>1. ASSUME NEW t \in Thread, NEW d \in Doc, BeginUpsert(t, d) PROVE LockInv'
  BY <1>1 DEF BeginUpsert, Goto
<1>2. ASSUME NEW t \in Thread, AcquireLock(t) PROVE LockInv'
  BY <1>2 DEF AcquireLock, Goto
<1>3. ASSUME NEW t \in Thread, SelectExisting(t) PROVE LockInv'
  BY <1>3 DEF SelectExisting, Goto
<1>4. ASSUME NEW t \in Thread, DeleteOld(t) PROVE LockInv'
  BY <1>4 DEF DeleteOld, Goto
<1>5. ASSUME NEW t \in Thread, InsertDocument(t) PROVE LockInv'
  BY <1>5 DEF InsertDocument, Goto
<1>6. ASSUME NEW t \in Thread, InsertChunk(t) PROVE LockInv'
  BY <1>6 DEF InsertChunk
<1>7. ASSUME NEW t \in Thread, SyncFts(t) PROVE LockInv'
  BY <1>7 DEF SyncFts, Goto
<1>8. ASSUME NEW t \in Thread, Commit(t) PROVE LockInv'
  BY <1>8 DEF Commit, Goto
<1>9. ASSUME NEW t \in Thread, Release(t) PROVE LockInv'
  BY <1>9 DEF Release, Leave
<1>10. ASSUME NEW t \in Thread, StatementFails(t) PROVE LockInv'
  BY <1>10 DEF StatementFails, Leave
<1>11. ASSUME NEW t \in Thread, NEW q \in Coll, LookupMiss(t, q) PROVE LockInv'
  BY <1>11 DEF LookupMiss, Goto
<1>12. ASSUME NEW t \in Thread, ReadSignatures(t) PROVE LockInv'
  BY <1>12 DEF ReadSignatures, Goto
<1>13. ASSUME NEW t \in Thread, StoreSignatures(t) PROVE LockInv'
  BY <1>13 DEF StoreSignatures, Goto
<1>14. ASSUME NEW t \in Thread, NEW T \in Tables, Rebuilds(t, T) PROVE LockInv'
  BY <1>14 DEF Rebuilds, locals
<1>15. ASSUME NEW c \in Conn, Reopen(c) PROVE LockInv'
  BY <1>15 DEF Reopen, locals
<1>16. ASSUME NEW c \in Conn, Crash(c) PROVE LockInv'
  BY <1>16 DEF Crash
<1>17. CASE UNCHANGED vars
  BY <1>17 DEF vars
<1> QED
  BY <1>1, <1>2, <1>3, <1>4, <1>5, <1>6, <1>7, <1>8, <1>9, <1>10, <1>11, <1>12, <1>13, <1>14, <1>15, <1>16, <1>17,
     RebuildStep
  DEF Next, UpsertStep, LookupStep

----------------------------------------------------------------------------
(* Which document a thread is writing.                                     *)

\* A thread that may write is the only one with a transaction under way.
LEMMA WriterAlone ==
    ASSUME TypeOK, LockInv, JobInv, NEW t \in Thread, Writable(ConnOf[t]),
           lock[ConnOf[t]] \in {t, Free}
    PROVE  \A u \in Thread \ {t} : pc[u] \notin {"chunks", "commit"}
BY StoreAssumption DEF TypeOK, LockInv, JobInv, Writable, Locked, Upserting

LEMMA NextJob == TypeOK /\ LockInv /\ JobInv /\ [Next]_vars => JobInv'
<1> SUFFICES ASSUME TypeOK, LockInv, JobInv, [Next]_vars PROVE JobInv'
  OBVIOUS
<1> USE StoreAssumption DEF TypeOK, LockInv, JobInv, Locked, Upserting
<1>1. ASSUME NEW t \in Thread, NEW d \in Doc, BeginUpsert(t, d) PROVE JobInv'
  BY <1>1 DEF BeginUpsert, Goto, tables
<1>2. ASSUME NEW t \in Thread, AcquireLock(t) PROVE JobInv'
  BY <1>2 DEF AcquireLock, Goto, tables
<1>3. ASSUME NEW t \in Thread, SelectExisting(t) PROVE JobInv'
  <2>1. /\ UNCHANGED <<tables, lock, sig, doc, at, asked, rows, status>>
        /\ \/ pc' = [pc EXCEPT ![t] = "document"] /\ old' = old
           \/ /\ pc' = [pc EXCEPT ![t] = "delete"]
              /\ \E e \in DocsAt(View(ConnOf[t]), PathOf[doc[t]]) : old' = [old EXCEPT ![t] = e]
    BY <1>3 DEF SelectExisting, Goto
  <2>2. \A e \in DocsAt(View(ConnOf[t]), PathOf[doc[t]]) : PathOf[e] = PathOf[doc[t]]
    BY DEF DocsAt
  <2>3. CASE pc' = [pc EXCEPT ![t] = "document"] /\ old' = old
    <3>1. lock[ConnOf[t]] = t /\ old[t] = NoDoc
      BY <1>3 DEF SelectExisting
    <3> QED
      BY <1>3, <2>1, <2>3, <3>1 DEF SelectExisting, tables
  <2>4. ASSUME NEW e \in DocsAt(View(ConnOf[t]), PathOf[doc[t]]),
               pc' = [pc EXCEPT ![t] = "delete"], old' = [old EXCEPT ![t] = e]
        PROVE  JobInv'
    BY <1>3, <2>1, <2>2, <2>4 DEF SelectExisting, tables
  <2> QED
    BY <2>1, <2>3, <2>4
<1>4. ASSUME NEW t \in Thread, DeleteOld(t) PROVE JobInv'
  <2>1. \A u \in Thread \ {t} : pc[u] \notin {"chunks", "commit"}
    BY <1>4, WriterAlone DEF DeleteOld, Write
  <2> QED
    BY <1>4, <2>1 DEF DeleteOld, Goto, Write
<1>5. ASSUME NEW t \in Thread, InsertDocument(t) PROVE JobInv'
  <2>1. \A u \in Thread \ {t} : pc[u] \notin {"chunks", "commit"}
    BY <1>5, WriterAlone DEF InsertDocument, Write
  <2> QED
    BY <1>5, <2>1 DEF InsertDocument, Goto, Write
<1>6. ASSUME NEW t \in Thread, InsertChunk(t) PROVE JobInv'
  BY <1>6 DEF InsertChunk, Write
<1>7. ASSUME NEW t \in Thread, SyncFts(t) PROVE JobInv'
  BY <1>7 DEF SyncFts, Goto, Write
<1>8. ASSUME NEW t \in Thread, Commit(t) PROVE JobInv'
  BY <1>8 DEF Commit, Goto
<1>9. ASSUME NEW t \in Thread, Release(t) PROVE JobInv'
  BY <1>9 DEF Release, Leave, tables
<1>10. ASSUME NEW t \in Thread, StatementFails(t) PROVE JobInv'
  BY <1>10 DEF StatementFails, Leave, RollBack
<1>11. ASSUME NEW t \in Thread, NEW q \in Coll, LookupMiss(t, q) PROVE JobInv'
  BY <1>11 DEF LookupMiss, Goto, tables
<1>12. ASSUME NEW t \in Thread, ReadSignatures(t) PROVE JobInv'
  BY <1>12 DEF ReadSignatures, Goto, tables
<1>13. ASSUME NEW t \in Thread, StoreSignatures(t) PROVE JobInv'
  BY <1>13 DEF StoreSignatures, Goto, tables
<1>14. ASSUME NEW t \in Thread, NEW T \in Tables, Rebuilds(t, T) PROVE JobInv'
  <2>1. \A u \in Thread \ {t} : pc[u] \notin {"chunks", "commit"}
    BY <1>14, WriterAlone DEF Rebuilds, Write
  <2> QED
    BY <1>14, <2>1 DEF Rebuilds, locals, Write
<1>15. ASSUME NEW c \in Conn, Reopen(c) PROVE JobInv'
  BY <1>15 DEF Reopen, locals, RollBack
<1>16. ASSUME NEW c \in Conn, Crash(c) PROVE JobInv'
  BY <1>16 DEF Crash, RollBack
<1>17. CASE UNCHANGED vars
  BY <1>17 DEF vars
<1> QED
  BY <1>1, <1>2, <1>3, <1>4, <1>5, <1>6, <1>7, <1>8, <1>9, <1>10, <1>11, <1>12, <1>13,
     <1>14, <1>15, <1>16, <1>17, RebuildStep
  DEF Next, UpsertStep, LookupStep

----------------------------------------------------------------------------
(* The committed tables.                                                   *)

\* Only Commit changes them.
LEMMA OnlyCommitWrites ==
    ASSUME [Next]_vars
    PROVE  UNCHANGED db \/ \E t \in Thread : Commit(t)
BY DEF Next, UpsertStep, LookupStep, vars, tables, Write, RollBack, BeginUpsert, AcquireLock,
       SelectExisting, DeleteOld, InsertDocument, InsertChunk, SyncFts, Release, StatementFails,
       LookupMiss, ReadSignatures, StoreSignatures, Rebuilds, RebuildFts, RebuildRaises, Reopen, Crash

\* A document that was committed keeps a status that says so.
LEMMA StatusOfCommitted ==
    ASSUME TypeOK, JobInv, [Next]_vars, NEW d \in Doc,
           status[d] \in {"written", "stored", "crashed"}
    PROVE  status'[d] \in {"written", "stored", "crashed"}
<1> USE StoreAssumption DEF TypeOK, JobInv, Upserting, Locked
<1>1. ASSUME NEW t \in Thread, NEW e \in Doc, BeginUpsert(t, e) PROVE status'[d] \in {"written", "stored", "crashed"}
  BY <1>1 DEF BeginUpsert, Goto, tables
<1>2. ASSUME NEW t \in Thread, AcquireLock(t) PROVE status'[d] \in {"written", "stored", "crashed"}
  BY <1>2 DEF AcquireLock, Goto, tables
<1>3. ASSUME NEW t \in Thread, SelectExisting(t) PROVE status'[d] \in {"written", "stored", "crashed"}
  BY <1>3 DEF SelectExisting, Goto, tables
<1>4. ASSUME NEW t \in Thread, DeleteOld(t) PROVE status'[d] \in {"written", "stored", "crashed"}
  BY <1>4 DEF DeleteOld, Goto, Write
<1>5. ASSUME NEW t \in Thread, InsertDocument(t) PROVE status'[d] \in {"written", "stored", "crashed"}
  BY <1>5 DEF InsertDocument, Goto, Write
<1>6. ASSUME NEW t \in Thread, InsertChunk(t) PROVE status'[d] \in {"written", "stored", "crashed"}
  BY <1>6 DEF InsertChunk, Write
<1>7. ASSUME NEW t \in Thread, SyncFts(t) PROVE status'[d] \in {"written", "stored", "crashed"}
  BY <1>7 DEF SyncFts, Goto, Write
<1>8. ASSUME NEW t \in Thread, Commit(t) PROVE status'[d] \in {"written", "stored", "crashed"}
  BY <1>8 DEF Commit, Goto
<1>9. ASSUME NEW t \in Thread, Release(t) PROVE status'[d] \in {"written", "stored", "crashed"}
  BY <1>9 DEF Release, Leave, tables
<1>10. ASSUME NEW t \in Thread, StatementFails(t) PROVE status'[d] \in {"written", "stored", "crashed"}
  BY <1>10 DEF StatementFails, Leave, RollBack
<1>11. ASSUME NEW t \in Thread, NEW q \in Coll, LookupMiss(t, q) PROVE status'[d] \in {"written", "stored", "crashed"}
  BY <1>11 DEF LookupMiss, Goto, tables
<1>12. ASSUME NEW t \in Thread, ReadSignatures(t) PROVE status'[d] \in {"written", "stored", "crashed"}
  BY <1>12 DEF ReadSignatures, Goto, tables
<1>13. ASSUME NEW t \in Thread, StoreSignatures(t) PROVE status'[d] \in {"written", "stored", "crashed"}
  BY <1>13 DEF StoreSignatures, Goto, tables
<1>14. ASSUME NEW t \in Thread, NEW T \in Tables, Rebuilds(t, T) PROVE status'[d] \in {"written", "stored", "crashed"}
  BY <1>14 DEF Rebuilds, locals, Write
<1>15. ASSUME NEW c \in Conn, Reopen(c) PROVE status'[d] \in {"written", "stored", "crashed"}
  BY <1>15 DEF Reopen, locals, RollBack
<1>16. ASSUME NEW c \in Conn, Crash(c) PROVE status'[d] \in {"written", "stored", "crashed"}
  BY <1>16 DEF Crash, RollBack
<1>17. CASE UNCHANGED vars
  BY <1>17 DEF vars
<1> QED
  BY <1>1, <1>2, <1>3, <1>4, <1>5, <1>6, <1>7, <1>8, <1>9, <1>10, <1>11, <1>12, <1>13,
     <1>14, <1>15, <1>16, <1>17, RebuildStep
  DEF Next, UpsertStep, LookupStep

LEMMA CommitReplaces ==
    ASSUME TypeOK, JobInv, CommittedInv, WorkInv, NEW t \in Thread, Commit(t)
    PROVE  /\ doc[t] \in Doc
           /\ Whole(db')
           /\ db'.docs = DocsWith(doc[t])
           /\ txn = ConnOf[t]
BY DEF TypeOK, JobInv, CommittedInv, WorkInv, WorkOf, Commit, Upserting

LEMMA NextCommitted ==
    TypeOK /\ LockInv /\ JobInv /\ CommittedInv /\ WorkInv /\ [Next]_vars => CommittedInv'
<1> SUFFICES ASSUME TypeOK, LockInv, JobInv, CommittedInv, WorkInv, [Next]_vars
             PROVE  CommittedInv'
  OBVIOUS
<1>1. db.docs \subseteq Doc
  BY DEF TypeOK, Tables
<1>2. CASE UNCHANGED db
  BY <1>1, <1>2, StatusOfCommitted DEF CommittedInv
<1>3. ASSUME NEW t \in Thread, Commit(t) PROVE CommittedInv'
  <2>1. /\ Whole(db')
        /\ db'.docs = DocsWith(doc[t])
        /\ doc[t] \in Doc
    BY <1>3, CommitReplaces
  <2>2. OnePerPath(db')
    BY <2>1 DEF CommittedInv, OnePerPath, DocsWith
  <2>3. status'[doc[t]] = "written"
    BY <1>3, <2>1 DEF Commit, TypeOK
  <2>4. \A d \in db'.docs : status'[d] \in {"written", "stored", "crashed"}
    BY <1>1, <2>1, <2>3, StatusOfCommitted DEF CommittedInv, DocsWith
  <2> QED
    BY <2>1, <2>2, <2>4 DEF CommittedInv
<1> QED
  BY <1>2, <1>3, OnlyCommitWrites

----------------------------------------------------------------------------
(* The working copy.                                                       *)

\* The claim on a thread's working copy is about these variables only.
LEMMA SameWorkOf ==
    ASSUME NEW u \in Thread, WorkOf(u), UNCHANGED <<db, work>>,
           pc'[u] = pc[u], doc'[u] = doc[u], old'[u] = old[u], at'[u] = at[u]
    PROVE  WorkOf(u)'
BY DEF WorkOf, NothingUpserted, WrittenUpTo, DocsWith

\* It says nothing of a thread without the lock.
LEMMA UnlockedWorkOf ==
    ASSUME NEW u \in Thread, pc'[u] \notin Locked
    PROVE  WorkOf(u)'
BY DEF WorkOf, Locked, Upserting

\* Steps of thread t that leave the tables alone.
LEMMA KeepWork ==
    ASSUME TypeOK, WorkInv, NEW t \in Thread, UNCHANGED <<db, work, txn>>,
           lock' = lock \/ lock' = [lock EXCEPT ![ConnOf[t]] = t],
           \A u \in Thread \ {t} :
               pc'[u] = pc[u] /\ doc'[u] = doc[u] /\ old'[u] = old[u] /\ at'[u] = at[u],
           txn = ConnOf[t] => WorkOf(t)'
    PROVE  WorkInv'
<1>1. txn # NoConn /\ lock'[txn] = Free => NothingUpserted'
  BY StoreAssumption DEF TypeOK, WorkInv, NothingUpserted
<1>2. \A u \in Thread \ {t} : txn = ConnOf[u] => WorkOf(u)'
  BY SameWorkOf DEF WorkInv
<1> QED
  BY <1>1, <1>2 DEF WorkInv

\* Statements that write: the others on the connection are not inside the lock.
LEMMA WriteWork ==
    ASSUME TypeOK, LockInv, NEW t \in Thread, NEW T, Write(t, T), lock[ConnOf[t]] = t,
           UNCHANGED lock, \A u \in Thread \ {t} : pc'[u] = pc[u], WorkOf(t)'
    PROVE  WorkInv'
<1>1. txn' = ConnOf[t] /\ ConnOf[t] \in Conn
  BY StoreAssumption DEF Write
<1>2. lock'[txn'] # Free
  BY <1>1, StoreAssumption
<1>3. ASSUME NEW u \in Thread \ {t}, txn' = ConnOf[u] PROVE WorkOf(u)'
  <2>1. pc[u] \notin Locked
    BY <1>1, <1>3 DEF LockInv
  <2> QED
    BY <2>1, UnlockedWorkOf
<1> QED
  BY <1>1, <1>2, <1>3, StoreAssumption DEF WorkInv

\* Rolling back the connection c whose threads leave the lock.
LEMMA RollBackWork ==
    ASSUME TypeOK, WorkInv, NEW c \in Conn, RollBack(c),
           \A x \in Conn \ {c} : lock'[x] = lock[x],
           \A u \in Thread : ConnOf[u] # c =>
               pc'[u] = pc[u] /\ doc'[u] = doc[u] /\ old'[u] = old[u] /\ at'[u] = at[u]
    PROVE  WorkInv'
<1>1. CASE txn = c
  <2>1. txn' = NoConn /\ work' = db'
    BY <1>1 DEF RollBack
  <2> QED
    BY <2>1, StoreAssumption DEF WorkInv
<1>2. CASE txn # c
  <2>1. UNCHANGED <<db, work, txn>>
    BY <1>2 DEF RollBack
  <2>2. \A u \in Thread : txn = ConnOf[u] => WorkOf(u)'
    BY <1>2, <2>1, SameWorkOf DEF WorkInv
  <2>3. txn # NoConn /\ lock'[txn] = Free => NothingUpserted'
    BY <1>2, <2>1 DEF WorkInv, TypeOK, NothingUpserted
  <2> QED
    BY <2>1, <2>2, <2>3 DEF WorkInv
<1> QED
  BY <1>1, <1>2

\* The statements of upsert, on the tables.
LEMMA InsertDocumentWhole ==
    ASSUME NEW T \in Tables, NEW d \in Doc, Whole(T), d \notin T.docs, NEW U,
           U = InsertDocumentRow(T, d)
    PROVE  /\ U.docs = T.docs \cup {d}
           /\ \A x \in Doc \ {d} : WholeAt(U, x)
           /\ U.parents[d] = {} /\ U.children[d] = {} /\ U.embs[d] = {} /\ U.fts[d] = NoRows
<1>1. OneRowEach({}) = NoRows
  BY DEF OneRowEach, NoRows
<1>2. /\ U.docs = T.docs \cup {d} /\ U.parents = T.parents /\ U.children = T.children
      /\ U.embs = T.embs /\ U.fts = T.fts /\ U.torn = T.torn
  BY DEF InsertDocumentRow, Tables
<1> QED
  BY <1>1, <1>2 DEF Whole, WholeAt, FtsWholeAt

ChunkInserted(T, d, chunk, U) ==
    /\ U.docs = T.docs
    /\ \A x \in Doc \ {d} : WholeAt(U, x)
    /\ U.parents[d] = IF chunk.role = "parent" THEN T.parents[d] \cup {chunk.id} ELSE T.parents[d]
    /\ U.children[d] = IF chunk.role = "child" THEN T.children[d] \cup {chunk.id} ELSE T.children[d]
    /\ U.embs[d] = U.children[d]
    /\ U.fts[d] = T.fts[d]

LEMMA InsertChunkWhole ==
    ASSUME NEW T \in Tables, NEW d \in Doc, NEW chunk \in [id : ChunkId, role : Role],
           \A x \in Doc \ {d} : WholeAt(T, x), T.embs[d] = T.children[d]
    PROVE  ChunkInserted(T, d, chunk, InsertChunkRows(T, d, chunk))
<1>1. CASE chunk.role = "parent"
  BY <1>1 DEF InsertChunkRows, Tables, WholeAt, FtsWholeAt, ChunkInserted
<1>2. CASE chunk.role = "child"
  BY <1>2 DEF InsertChunkRows, Tables, WholeAt, FtsWholeAt, ChunkInserted
<1> QED
  BY <1>1, <1>2 DEF Role

LEMMA SyncFtsWhole ==
    ASSUME NEW T \in Tables, NEW d \in T.docs, NEW U, U = SyncFtsRows(T, d),
           \A x \in Doc \ {d} : WholeAt(T, x),
           T.parents[d] = ParentsOf(d), T.children[d] = ChildrenOf(d), T.embs[d] = T.children[d]
    PROVE  Whole(U) /\ U.docs = T.docs
BY DEF SyncFtsRows, Tables, Whole, WholeAt, FtsWholeAt

LEMMA NextWork ==
    TypeOK /\ LockInv /\ JobInv /\ CommittedInv /\ WorkInv /\ [Next]_vars => WorkInv'
<1> SUFFICES ASSUME TypeOK, LockInv, JobInv, CommittedInv, WorkInv, [Next]_vars
             PROVE  WorkInv'
  OBVIOUS
<1>1. ASSUME NEW t \in Thread, NEW d \in Doc, BeginUpsert(t, d) PROVE WorkInv'
  BY <1>1, KeepWork, UnlockedWorkOf DEF BeginUpsert, Goto, tables, TypeOK, Locked, Upserting
<1>2. ASSUME NEW t \in Thread, AcquireLock(t) PROVE WorkInv'
  <2>1. txn = ConnOf[t] => WorkOf(t)'
    BY <1>2, StoreAssumption
    DEF AcquireLock, Goto, tables, TypeOK, WorkInv, WorkOf, NothingUpserted, CommittedInv
  <2> QED
    BY <1>2, <2>1, KeepWork DEF AcquireLock, Goto, tables, TypeOK
<1>3. ASSUME NEW t \in Thread, SelectExisting(t) PROVE WorkInv'
  <2>1. txn = ConnOf[t] => WorkOf(t)'
    <3>1. txn = ConnOf[t] => NothingUpserted
      BY <1>3 DEF SelectExisting, WorkInv, WorkOf
    <3>2. old[t] = NoDoc
      BY <1>3 DEF SelectExisting, JobInv
    <3>3. pc'[t] = "delete" \/ (pc'[t] = "document" /\ old' = old)
      BY <1>3 DEF SelectExisting, Goto, TypeOK
    <3> QED
      BY <1>3, <3>1, <3>2, <3>3 DEF SelectExisting, tables, WorkOf, NothingUpserted
  <2>2. \A u \in Thread \ {t} : pc'[u] = pc[u] /\ old'[u] = old[u]
    BY <1>3 DEF SelectExisting, Goto, TypeOK
  <2> QED
    BY <1>3, <2>1, <2>2, KeepWork DEF SelectExisting, tables
<1>4. ASSUME NEW t \in Thread, DeleteOld(t) PROVE WorkInv'
  <2>1. txn \in {NoConn, ConnOf[t]} /\ lock[ConnOf[t]] = t /\ old[t] \in Doc
    BY <1>4, StoreAssumption DEF DeleteOld, Write, Writable, LockInv, Locked, Upserting, TypeOK
  <2>2. NothingUpserted
    BY <1>4, <2>1 DEF DeleteOld, WorkInv, WorkOf, CommittedInv, NothingUpserted
  <2>3. Whole(work') /\ work'.docs = db.docs \ {old[t]} /\ UNCHANGED <<db, old>>
    BY <1>4, <2>1, <2>2, DeleteWhole DEF DeleteOld, Write, TypeOK, NothingUpserted
  <2>4. pc'[t] = "document"
    BY <1>4 DEF DeleteOld, Goto, TypeOK
  <2>5. WorkOf(t)'
    BY <2>1, <2>3, <2>4, StoreAssumption DEF WorkOf
  <2>6. \A u \in Thread \ {t} : pc'[u] = pc[u]
    BY <1>4 DEF DeleteOld, Goto, TypeOK
  <2> QED
    BY <1>4, <2>1, <2>5, <2>6, WriteWork DEF DeleteOld
<1>5. ASSUME NEW t \in Thread, InsertDocument(t) PROVE WorkInv'
  <2> DEFINE d == doc[t]
  <2>1. txn \in {NoConn, ConnOf[t]} /\ lock[ConnOf[t]] = t /\ d \in Doc /\ at[t] = 0
    BY <1>5, StoreAssumption
    DEF InsertDocument, Write, Writable, LockInv, JobInv, Locked, Upserting, TypeOK
  <2>2. Whole(work) /\ {x \in db.docs : PathOf[x] # PathOf[d]} = work.docs
    <3>1. CASE NothingUpserted
      BY <1>5, <3>1 DEF NothingUpserted, InsertDocument, CanInsertDocument, DocsAt
    <3>2. CASE Whole(work) /\ work.docs = db.docs \ {old[t]} /\ old[t] # NoDoc
      BY <1>5, <3>2 DEF InsertDocument, CanInsertDocument, DocsAt, JobInv
    <3> QED
      BY <1>5, <2>1, <3>1, <3>2 DEF InsertDocument, WorkInv, WorkOf, CommittedInv, NothingUpserted
  <2>3. /\ work'.docs = work.docs \cup {d}
        /\ \A x \in Doc \ {d} : WholeAt(work', x)
        /\ work'.parents[d] = {} /\ work'.children[d] = {}
        /\ work'.embs[d] = {} /\ work'.fts[d] = NoRows
    BY <1>5, <2>1, <2>2, InsertDocumentWhole
    DEF InsertDocument, CanInsertDocument, Write, TypeOK
  <2>4. UNCHANGED <<db, doc, at>> /\ pc'[t] = "chunks" /\ \A u \in Thread \ {t} : pc'[u] = pc[u]
    BY <1>5 DEF InsertDocument, Write, Goto, TypeOK
  <2>5. WrittenUpTo(doc[t], at[t])'
    BY <2>1, <2>2, <2>3, <2>4, NoChunks DEF WrittenUpTo, DocsWith
  <2>6. WorkOf(t)'
    BY <2>1, <2>4, <2>5, ChunkCount DEF WorkOf
  <2> QED
    BY <1>5, <2>1, <2>4, <2>6, WriteWork DEF InsertDocument
<1>6. ASSUME NEW t \in Thread, InsertChunk(t) PROVE WorkInv'
  <2> DEFINE d == doc[t]
             n == at[t] + 1
             chunk == ChunkList[d][n]
  <2>1. /\ txn = ConnOf[t] /\ lock[ConnOf[t]] = t /\ d \in Doc /\ at[t] \in Nat
        /\ n <= Len(ChunkList[d]) /\ WrittenUpTo(d, at[t])
    <3>1. pc[t] = "chunks" /\ n <= Len(ChunkList[d])
      BY <1>6 DEF InsertChunk
    <3>2. txn = ConnOf[t] /\ lock[ConnOf[t]] = t
      BY <3>1, StoreAssumption DEF JobInv, LockInv, Locked, Upserting
    <3>3. d \in Doc /\ at[t] \in Nat
      BY <3>1 DEF TypeOK, Upserting
    <3> QED
      BY <3>1, <3>2, <3>3 DEF WorkInv, WorkOf
  <2>2. chunk \in [id : ChunkId, role : Role]
    BY <2>1, ChunkTyped, ChunkCount
  <2>3. work' = InsertChunkRows(work, d, chunk)
    BY <1>6 DEF InsertChunk, Write
  <2>4. ChunkInserted(work, d, chunk, work')
    BY <2>1, <2>2, <2>3, InsertChunkWhole DEF WrittenUpTo, TypeOK
  <2>5. UNCHANGED <<db, doc, pc, lock>> /\ at'[t] = n
    BY <1>6 DEF InsertChunk, Write, TypeOK
  <2>6. /\ work'.parents[d] = ChunksUpTo(d, n, "parent")
        /\ work'.children[d] = ChunksUpTo(d, n, "child")
    <3>1. \A r : ChunksUpTo(d, n, r) = IF chunk.role = r
                                       THEN ChunksUpTo(d, at[t], r) \cup {chunk.id}
                                       ELSE ChunksUpTo(d, at[t], r)
      BY <2>1, NextChunk
    <3>2. /\ work.parents[d] = ChunksUpTo(d, at[t], "parent")
          /\ work.children[d] = ChunksUpTo(d, at[t], "child")
      BY <2>1 DEF WrittenUpTo
    <3> HIDE DEF chunk, n
    <3> QED
      BY <2>4, <3>1, <3>2 DEF ChunkInserted
  <2>7. WrittenUpTo(doc[t], at[t])'
    BY <2>1, <2>4, <2>5, <2>6 DEF WrittenUpTo, DocsWith, ChunkInserted
  <2>8. WorkOf(t)'
    BY <1>6, <2>1, <2>5, <2>7 DEF WorkOf, InsertChunk
  <2> QED
    BY <1>6, <2>1, <2>5, <2>8, WriteWork DEF InsertChunk
<1>7. ASSUME NEW t \in Thread, SyncFts(t) PROVE WorkInv'
  <2> DEFINE d == doc[t]
  <2>1. lock[ConnOf[t]] = t /\ d \in Doc /\ WrittenUpTo(d, Len(ChunkList[d]))
    BY <1>7, StoreAssumption
    DEF SyncFts, LockInv, JobInv, WorkInv, WorkOf, Locked, Upserting, TypeOK
  <2>2. Whole(work') /\ work'.docs = DocsWith(d)
    BY <1>7, <2>1, SyncFtsWhole
    DEF SyncFts, Write, WrittenUpTo, DocsWith, ParentsOf, ChildrenOf, TypeOK
  <2>3. UNCHANGED <<db, doc>> /\ pc'[t] = "commit" /\ \A u \in Thread \ {t} : pc'[u] = pc[u]
    BY <1>7 DEF SyncFts, Write, Goto, TypeOK
  <2>4. WorkOf(t)'
    BY <2>2, <2>3 DEF WorkOf, DocsWith
  <2> QED
    BY <1>7, <2>1, <2>3, <2>4, WriteWork DEF SyncFts
<1>8. ASSUME NEW t \in Thread, Commit(t) PROVE WorkInv'
  BY <1>8, StoreAssumption DEF Commit, WorkInv
<1>9. ASSUME NEW t \in Thread, Release(t) PROVE WorkInv'
  <2>1. txn # ConnOf[t]
    BY <1>9 DEF Release, WorkInv, WorkOf
  <2>2. lock' = [lock EXCEPT ![ConnOf[t]] = Free] /\ UNCHANGED <<db, work, txn>>
    BY <1>9 DEF Release, Leave, tables
  <2>3. RollBack(ConnOf[t])
    BY <2>1, <2>2 DEF RollBack
  <2>4. \A u \in Thread \ {t} :
            pc'[u] = pc[u] /\ doc'[u] = doc[u] /\ old'[u] = old[u] /\ at'[u] = at[u]
    BY <1>9 DEF Release, Leave, TypeOK
  <2>5. ConnOf[t] \in Conn /\ \A x \in Conn \ {ConnOf[t]} : lock'[x] = lock[x]
    BY <2>2, StoreAssumption DEF TypeOK
  <2> QED
    BY <2>3, <2>4, <2>5, RollBackWork
<1>10. ASSUME NEW t \in Thread, StatementFails(t) PROVE WorkInv'
  <2>1. lock' = [lock EXCEPT ![ConnOf[t]] = Free] /\ RollBack(ConnOf[t])
    BY <1>10 DEF StatementFails, Leave
  <2>2. \A u \in Thread \ {t} :
            pc'[u] = pc[u] /\ doc'[u] = doc[u] /\ old'[u] = old[u] /\ at'[u] = at[u]
    BY <1>10 DEF StatementFails, Leave, TypeOK
  <2>3. ConnOf[t] \in Conn /\ \A x \in Conn \ {ConnOf[t]} : lock'[x] = lock[x]
    BY <2>1, StoreAssumption DEF TypeOK
  <2> QED
    BY <2>1, <2>2, <2>3, RollBackWork
<1>11. ASSUME NEW t \in Thread, NEW q \in Coll, LookupMiss(t, q) PROVE WorkInv'
  BY <1>11, KeepWork, UnlockedWorkOf DEF LookupMiss, Goto, tables, TypeOK, Locked, Upserting
<1>12. ASSUME NEW t \in Thread, ReadSignatures(t) PROVE WorkInv'
  BY <1>12, KeepWork, UnlockedWorkOf DEF ReadSignatures, Goto, tables, TypeOK, Locked, Upserting
<1>13. ASSUME NEW t \in Thread, StoreSignatures(t) PROVE WorkInv'
  BY <1>13, KeepWork, UnlockedWorkOf DEF StoreSignatures, Goto, tables, TypeOK, Locked, Upserting
<1>14. ASSUME NEW t \in Thread, NEW T \in Tables, Rebuilds(t, T), T.docs = work.docs, Whole(work) => Whole(T)
       PROVE  WorkInv'
  <2>1. txn \in {NoConn, ConnOf[t]} /\ lock[ConnOf[t]] = Free /\ ConnOf[t] \in Conn
    BY <1>14, StoreAssumption DEF Rebuilds, Write, Writable
  <2>2. NothingUpserted
    BY <2>1, StoreAssumption DEF WorkInv, CommittedInv, NothingUpserted
  <2>3. NothingUpserted' /\ txn' = ConnOf[t]
    BY <1>14, <2>2 DEF Rebuilds, Write, NothingUpserted
  <2>4. \A u \in Thread : ConnOf[u] = ConnOf[t] => pc'[u] \notin Locked
    BY <1>14, <2>1, StoreAssumption DEF Rebuilds, locals, LockInv
  <2> QED
    BY <2>1, <2>3, <2>4, UnlockedWorkOf, StoreAssumption DEF WorkInv
<1>15. ASSUME NEW c \in Conn, Reopen(c) PROVE WorkInv'
  BY <1>15, RollBackWork DEF Reopen, locals
<1>16. ASSUME NEW c \in Conn, Crash(c) PROVE WorkInv'
  <2>1. \A u \in Thread : ConnOf[u] # c =>
            pc'[u] = pc[u] /\ doc'[u] = doc[u] /\ old'[u] = old[u] /\ at'[u] = at[u]
    BY <1>16 DEF Crash
  <2>2. RollBack(c) /\ \A x \in Conn \ {c} : lock'[x] = lock[x]
    BY <1>16 DEF Crash, TypeOK
  <2> QED
    BY <2>1, <2>2, RollBackWork
<1>17. CASE UNCHANGED vars
  <2>1. \A u \in Thread : WorkOf(u) => WorkOf(u)'
    BY <1>17, SameWorkOf DEF vars
  <2> QED
    BY <1>17, <2>1 DEF vars, WorkInv, NothingUpserted
<1> QED
  BY <1>1, <1>2, <1>3, <1>4, <1>5, <1>6, <1>7, <1>8, <1>9, <1>10, <1>11, <1>12, <1>13,
     <1>14, <1>15, <1>16, <1>17, RebuildStep
  DEF Next, UpsertStep, LookupStep

----------------------------------------------------------------------------
(* The signature cache.                                                    *)

LEMMA CommittedSignatureStays ==
    ASSUME TypeOK, JobInv, [Next]_vars, NEW q, NEW s, CommittedSignature(q, s)
    PROVE  CommittedSignature(q, s)'
BY StatusOfCommitted DEF CommittedSignature

\* Steps that neither read nor store signatures.
LEMMA KeepCache ==
    ASSUME TypeOK, JobInv, CacheInv, [Next]_vars, UNCHANGED rows,
           \A c \in Conn, q \in Coll : sig'[c][q] \in {sig[c][q], NotCached},
           \A t \in Thread : pc'[t] = "sig_store" => pc[t] = "sig_store" /\ asked'[t] = asked[t],
           \A t \in Thread : pc'[t] = "sig_read" => asked'[t] # NoColl
    PROVE  CacheInv'
BY CommittedSignatureStays DEF CacheInv, CachedWasCommitted

LEMMA NextCache ==
    TypeOK /\ LockInv /\ JobInv /\ CommittedInv /\ WorkInv /\ CacheInv /\ [Next]_vars => CacheInv'
<1> SUFFICES ASSUME TypeOK, LockInv, JobInv, CommittedInv, WorkInv, CacheInv, [Next]_vars
             PROVE  CacheInv'
  OBVIOUS
<1> USE StoreAssumption, KeepCache DEF TypeOK
<1>1. ASSUME NEW t \in Thread, NEW d \in Doc, BeginUpsert(t, d) PROVE CacheInv'
  BY <1>1 DEF BeginUpsert, Goto, tables, CacheInv
<1>2. ASSUME NEW t \in Thread, AcquireLock(t) PROVE CacheInv'
  BY <1>2 DEF AcquireLock, Goto, tables, CacheInv
<1>3. ASSUME NEW t \in Thread, SelectExisting(t) PROVE CacheInv'
  BY <1>3 DEF SelectExisting, Goto, tables, CacheInv
<1>4. ASSUME NEW t \in Thread, DeleteOld(t) PROVE CacheInv'
  BY <1>4 DEF DeleteOld, Goto, Write, CacheInv
<1>5. ASSUME NEW t \in Thread, InsertDocument(t) PROVE CacheInv'
  BY <1>5 DEF InsertDocument, Goto, Write, CacheInv
<1>6. ASSUME NEW t \in Thread, InsertChunk(t) PROVE CacheInv'
  BY <1>6 DEF InsertChunk, Write, CacheInv
<1>7. ASSUME NEW t \in Thread, SyncFts(t) PROVE CacheInv'
  BY <1>7 DEF SyncFts, Goto, Write, CacheInv
<1>8. ASSUME NEW t \in Thread, Commit(t) PROVE CacheInv'
  BY <1>8 DEF Commit, Goto, CacheInv
<1>9. ASSUME NEW t \in Thread, Release(t) PROVE CacheInv'
  BY <1>9 DEF Release, Leave, tables, CacheInv
<1>10. ASSUME NEW t \in Thread, StatementFails(t) PROVE CacheInv'
  BY <1>10 DEF StatementFails, Leave, RollBack, CacheInv
<1>11. ASSUME NEW t \in Thread, NEW q \in Coll, LookupMiss(t, q) PROVE CacheInv'
  BY <1>11 DEF LookupMiss, Goto, tables, CacheInv
<1>12. ASSUME NEW t \in Thread, ReadSignatures(t) PROVE CacheInv'
  <2>1. View(ConnOf[t]).docs = db.docs
    BY <1>12, StoreAssumption DEF ReadSignatures, View, WorkInv, NothingUpserted
  <2>2. rows'[t] = Signatures(View(ConnOf[t]), asked[t]) /\ asked' = asked
    BY <1>12 DEF ReadSignatures
  <2>3. \A s \in rows'[t] : CommittedSignature(asked[t], s)
    BY <2>1, <2>2 DEF Signatures, CommittedInv, CommittedSignature, Tables
  <2>4. \A s \in rows'[t] : CommittedSignature(asked[t], s)'
    BY <2>2, <2>3, CommittedSignatureStays
  <2> QED
    BY <1>12, <2>4, CommittedSignatureStays
    DEF ReadSignatures, Goto, tables, CacheInv, CachedWasCommitted
<1>13. ASSUME NEW t \in Thread, StoreSignatures(t) PROVE CacheInv'
  <2>1. PICK q : q = asked[t]
    OBVIOUS
  <2>2. \A s \in rows[t] : CommittedSignature(q, s)'
    BY <1>13, <2>1, CommittedSignatureStays DEF StoreSignatures, CacheInv
  <2>3. sig' = [sig EXCEPT ![ConnOf[t]][q] = rows[t]]
    BY <1>13, <2>1 DEF StoreSignatures
  <2>4. \A c \in Conn, r \in Coll :
            sig'[c][r] = IF c = ConnOf[t] /\ r = q THEN rows[t] ELSE sig[c][r]
    BY <2>3
  <2>5. CachedWasCommitted'
    BY <2>2, <2>4, CommittedSignatureStays DEF CacheInv, CachedWasCommitted
  <2> QED
    BY <1>13, <2>5, CommittedSignatureStays
    DEF StoreSignatures, Goto, tables, CacheInv, CachedWasCommitted
<1>14. ASSUME NEW t \in Thread, NEW T \in Tables, Rebuilds(t, T) PROVE CacheInv'
  BY <1>14 DEF Rebuilds, locals, Write, CacheInv
<1>15. ASSUME NEW c \in Conn, Reopen(c) PROVE CacheInv'
  BY <1>15 DEF Reopen, locals, EmptyCache, CacheInv
<1>16. ASSUME NEW c \in Conn, Crash(c) PROVE CacheInv'
  <2>1. \A x \in Conn, q \in Coll : sig'[x][q] \in {sig[x][q], NotCached}
    BY <1>16 DEF Crash, EmptyCache
  <2>2. \A t \in Thread : pc'[t] \in {"sig_read", "sig_store"} =>
            pc'[t] = pc[t] /\ rows'[t] = rows[t] /\ asked'[t] = asked[t]
    BY <1>16 DEF Crash
  <2> QED
    BY <2>1, <2>2, CommittedSignatureStays DEF CacheInv, CachedWasCommitted
<1>17. CASE UNCHANGED vars
  BY <1>17 DEF vars, CacheInv
<1> QED
  BY <1>1, <1>2, <1>3, <1>4, <1>5, <1>6, <1>7, <1>8, <1>9, <1>10, <1>11, <1>12, <1>13,
     <1>14, <1>15, <1>16, <1>17, RebuildStep
  DEF Next, UpsertStep, LookupStep

----------------------------------------------------------------------------
(* What the store guarantees.                                              *)

LEMMA InitInvariant == Init => IInv
<1> SUFFICES ASSUME Init PROVE IInv
  OBVIOUS
<1>1. TypeOK
  BY InitTyped
<1>2. LockInv /\ JobInv
  BY StoreAssumption DEF Init, LockInv, JobInv, Locked, Upserting
<1>3. CommittedInv
  BY EmptyTablesTyped DEF Init, CommittedInv, EmptyTables
<1>4. WorkInv
  BY DEF Init, WorkInv, WorkOf
<1>5. CacheInv
  BY DEF Init, CacheInv, CachedWasCommitted, EmptyCache
<1> QED
  BY <1>1, <1>2, <1>3, <1>4, <1>5 DEF IInv

LEMMA NextInvariant == IInv /\ [Next]_vars => IInv'
BY NextTyped, NextLock, NextJob, NextCommitted, NextWork, NextCache DEF IInv

\* The inductive invariant.
THEOREM Invariant == Spec => []IInv
BY InitInvariant, NextInvariant, PTL DEF Spec

\* The committed file holds whole documents only, whatever failed or died, but
\* for the FTS rows that a rebuild which raised did not get to.
THEOREM CommittedIsWhole == Spec => []CommittedWhole
<1>1. IInv => CommittedWhole
  BY DEF IInv, CommittedInv, CommittedWhole
<1> QED
  BY <1>1, Invariant, PTL

\* No interleaving of threads and processes indexes a file twice.
THEOREM CommittedIsOnePerPath == Spec => []CommittedOnePerPath
<1>1. IInv => CommittedOnePerPath
  BY DEF IInv, CommittedInv, CommittedOnePerPath
<1> QED
  BY <1>1, Invariant, PTL

\* Readers on a store never see another thread's upsert half done, and of a rebuild
\* that raised only that FTS rows of the documents it left torn are missing.
THEOREM ReadersAreIsolated == Spec => []ReadersSeeWhole
<1>1. IInv => ReadersSeeWhole
  BY StoreAssumption DEF IInv, TypeOK, CommittedInv, WorkInv, ReadersSeeWhole, View, NothingUpserted, OnePerPath
<1> QED
  BY <1>1, Invariant, PTL

\* On whole tables the two channels draw from the same chunks: a child has an
\* embedding and, unless its document is torn, an FTS row, a parent neither.
LEMMA WholeChannels ==
    ASSUME NEW T \in Tables, NEW q \in Coll, Whole(T)
    PROVE  /\ LexicalRows(T, q) \subseteq DenseRows(T, q)
           /\ \A r \in DenseRows(T, q) \ LexicalRows(T, q) : r[1] \in T.torn
<1>1. ASSUME NEW d \in Doc, NEW k \in ChunkId
      PROVE  /\ T.fts[d][k] > 0 => k \in T.embs[d]
             /\ k \in T.embs[d] /\ d \notin T.torn => T.fts[d][k] > 0
  <2>1. T.embs[d] = T.children[d] /\ FtsWholeAt(T, d)
    BY <1>1 DEF Whole, WholeAt
  <2>2. PICK ids \in SUBSET T.children[d] :
            T.fts[d] = OneRowEach(ids) /\ (d \notin T.torn => ids = T.children[d])
    BY <2>1 DEF FtsWholeAt
  <2>3. T.fts[d][k] = IF k \in ids THEN 1 ELSE 0
    BY <2>2 DEF OneRowEach
  <2> QED
    BY <2>1, <2>2, <2>3
<1> QED
  BY <1>1 DEF DenseRows, LexicalRows, Tables

\* The dense and the lexical channel agree on what there is to retrieve, but for
\* the documents that a rebuild which raised left torn.
THEOREM SameRowsInBothChannels == Spec => []ChannelsAgree
<1>1. IInv => ChannelsAgree
  <2> SUFFICES ASSUME IInv, NEW c \in Conn, NEW q \in Coll, lock[c] = Free
               PROVE  /\ LexicalRows(View(c), q) \subseteq DenseRows(View(c), q)
                      /\ \A r \in DenseRows(View(c), q) \ LexicalRows(View(c), q) : r[1] \in View(c).torn
    BY DEF ChannelsAgree
  <2>1. View(c) \in Tables /\ Whole(View(c))
    BY StoreAssumption DEF IInv, TypeOK, CommittedInv, WorkInv, View, NothingUpserted
  <2> QED
    BY <2>1, WholeChannels
<1> QED
  BY <1>1, Invariant, PTL

\* An upsert that raised left nothing behind.
THEOREM FailureLeavesNothing == Spec => []FailedLeavesNothing
<1>1. IInv => FailedLeavesNothing
  BY DEF IInv, CommittedInv, FailedLeavesNothing
<1> QED
  BY <1>1, Invariant, PTL

\* The signature cache never holds what only a transaction held.
THEOREM CacheWasCommitted == Spec => []CachedWasCommitted
<1>1. IInv => CachedWasCommitted
  BY DEF IInv, CacheInv
<1> QED
  BY <1>1, Invariant, PTL

----------------------------------------------------------------------------
(* Steps.                                                                  *)

\* A step never takes a file out of the index.
THEOREM IndexedPathsStay == Spec => PathsStayIndexed
<1>1. ASSUME IInv, [Next]_vars, NEW x, IndexedPath(x) PROVE IndexedPath(x)'
  <2>1. CASE UNCHANGED db
    BY <1>1, <2>1 DEF IndexedPath, DocsAt
  <2>2. ASSUME NEW t \in Thread, Commit(t) PROVE IndexedPath(x)'
    BY <1>1, <2>2, CommitReplaces DEF IInv, IndexedPath, DocsAt, DocsWith
  <2> QED
    BY <1>1, <2>1, <2>2, OnlyCommitWrites
<1>2. IInv /\ [Next]_vars => KeepsPaths
  BY <1>1 DEF KeepsPaths
<1> QED
  BY <1>2, Invariant, PTL DEF Spec, PathsStayIndexed

\* The document served for each path.
Index == [p \in Path |-> Served(p)]

LEMMA SameIndex == ASSUME UNCHANGED db PROVE Index' = Index
BY DEF Index, Served, DocsAt

LEMMA CommitIndex ==
    ASSUME IInv, NEW t \in Thread, Commit(t)
    PROVE  Index' = [Index EXCEPT ![PathOf[doc[t]]] = doc[t]]
<1> DEFINE d == doc[t]
<1>1. d \in Doc /\ db'.docs = DocsWith(d) /\ db.docs \subseteq Doc
  BY CommitReplaces DEF IInv, TypeOK, Tables
<1>2. PathOf[d] \in Path
  BY <1>1, DocumentAssumption
<1>3. ASSUME NEW p \in Path PROVE Served(p)' = IF p = PathOf[d] THEN d ELSE Served(p)
  <2>1. CASE p = PathOf[d]
    <3>1. DocsAt(db', p) = {d}
      BY <1>1, <2>1 DEF DocsAt, DocsWith
    <3> QED
      BY <2>1, <3>1 DEF Served
  <2>2. CASE p # PathOf[d]
    <3>1. DocsAt(db', p) = DocsAt(db, p)
      BY <1>1, <2>2 DEF DocsAt, DocsWith
    <3> QED
      BY <2>2, <3>1 DEF Served
  <2> QED
    BY <2>1, <2>2
<1> QED
  BY <1>2, <1>3 DEF Index

\* Every step of the store is a step of the abstract index or leaves it alone.
LEMMA StepSimulation == IInv /\ [Next]_vars => [Atomic!AtomicNext]_(Atomic!avars)
<1> SUFFICES ASSUME IInv, [Next]_vars PROVE [Atomic!AtomicNext]_<<Index, status>>
  BY DEF Atomic!avars, Index
<1> USE DEF IInv
<1>1. ASSUME NEW t \in Thread, NEW d \in Doc, BeginUpsert(t, d) PROVE [Atomic!AtomicNext]_<<Index, status>>
  <2>1. UNCHANGED db
    BY <1>1 DEF BeginUpsert, tables
  <2>2. status[d] = "new" /\ status' = [status EXCEPT ![d] = "running"]
    BY <1>1 DEF BeginUpsert
  <2>3. Index' = Index
    BY <2>1, SameIndex
  <2>4. Atomic!Call(d)
    BY <2>2, <2>3 DEF Atomic!Call, Index
  <2> QED
    BY <2>4 DEF Atomic!AtomicNext
<1>2. ASSUME NEW t \in Thread, AcquireLock(t) PROVE [Atomic!AtomicNext]_<<Index, status>>
  <2>1. UNCHANGED <<db, status>>
    BY <1>2 DEF AcquireLock, Goto, tables
  <2> QED
    BY <2>1, SameIndex
<1>3. ASSUME NEW t \in Thread, SelectExisting(t) PROVE [Atomic!AtomicNext]_<<Index, status>>
  <2>1. UNCHANGED <<db, status>>
    BY <1>3 DEF SelectExisting, Goto, tables
  <2> QED
    BY <2>1, SameIndex
<1>4. ASSUME NEW t \in Thread, DeleteOld(t) PROVE [Atomic!AtomicNext]_<<Index, status>>
  <2>1. UNCHANGED <<db, status>>
    BY <1>4 DEF DeleteOld, Goto, Write
  <2> QED
    BY <2>1, SameIndex
<1>5. ASSUME NEW t \in Thread, InsertDocument(t) PROVE [Atomic!AtomicNext]_<<Index, status>>
  <2>1. UNCHANGED <<db, status>>
    BY <1>5 DEF InsertDocument, Goto, Write
  <2> QED
    BY <2>1, SameIndex
<1>6. ASSUME NEW t \in Thread, InsertChunk(t) PROVE [Atomic!AtomicNext]_<<Index, status>>
  <2>1. UNCHANGED <<db, status>>
    BY <1>6 DEF InsertChunk, Write
  <2> QED
    BY <2>1, SameIndex
<1>7. ASSUME NEW t \in Thread, SyncFts(t) PROVE [Atomic!AtomicNext]_<<Index, status>>
  <2>1. UNCHANGED <<db, status>>
    BY <1>7 DEF SyncFts, Goto, Write
  <2> QED
    BY <2>1, SameIndex
<1>8. ASSUME NEW t \in Thread, Commit(t) PROVE [Atomic!AtomicNext]_<<Index, status>>
  <2>1. doc[t] \in Doc
    BY <1>8 DEF Commit, TypeOK, Upserting, Locked
  <2>2. status[doc[t]] = "running" /\ status' = [status EXCEPT ![doc[t]] = "written"]
    BY <1>8, <2>1, StoreAssumption DEF Commit, JobInv, TypeOK, Upserting
  <2>3. Index' = [Index EXCEPT ![PathOf[doc[t]]] = doc[t]]
    BY <1>8, CommitIndex
  <2>4. Atomic!Publish(doc[t])
    BY <2>2, <2>3 DEF Atomic!Publish, Index
  <2> QED
    BY <2>1, <2>4 DEF Atomic!AtomicNext
<1>9. ASSUME NEW t \in Thread, Release(t) PROVE [Atomic!AtomicNext]_<<Index, status>>
  <2>1. doc[t] \in Doc
    BY <1>9 DEF Release, TypeOK, Upserting, Locked
  <2>2. status[doc[t]] = "written" /\ status' = [status EXCEPT ![doc[t]] = "stored"]
    BY <1>9, <2>1, StoreAssumption DEF Release, JobInv, TypeOK, Upserting
  <2>3. Index' = Index
    BY <1>9, SameIndex DEF Release, tables
  <2>4. Atomic!Return(doc[t])
    BY <2>2, <2>3 DEF Atomic!Return, Index
  <2> QED
    BY <2>1, <2>4 DEF Atomic!AtomicNext
<1>10. ASSUME NEW t \in Thread, StatementFails(t) PROVE [Atomic!AtomicNext]_<<Index, status>>
  <2>1. doc[t] \in Doc
    BY <1>10 DEF StatementFails, TypeOK, Upserting, Locked
  <2>2. status[doc[t]] = "running" /\ status' = [status EXCEPT ![doc[t]] = "failed"]
    BY <1>10, <2>1, StoreAssumption DEF StatementFails, JobInv, TypeOK, Upserting
  <2>3. Index' = Index
    BY <1>10, SameIndex DEF StatementFails, RollBack
  <2>4. Atomic!Raise(doc[t])
    BY <2>2, <2>3 DEF Atomic!Raise, Index
  <2> QED
    BY <2>1, <2>4 DEF Atomic!AtomicNext
<1>11. ASSUME NEW t \in Thread, NEW q \in Coll, LookupMiss(t, q) PROVE [Atomic!AtomicNext]_<<Index, status>>
  <2>1. UNCHANGED <<db, status>>
    BY <1>11 DEF LookupMiss, Goto, tables
  <2> QED
    BY <2>1, SameIndex
<1>12. ASSUME NEW t \in Thread, ReadSignatures(t) PROVE [Atomic!AtomicNext]_<<Index, status>>
  <2>1. UNCHANGED <<db, status>>
    BY <1>12 DEF ReadSignatures, Goto, tables
  <2> QED
    BY <2>1, SameIndex
<1>13. ASSUME NEW t \in Thread, StoreSignatures(t) PROVE [Atomic!AtomicNext]_<<Index, status>>
  <2>1. UNCHANGED <<db, status>>
    BY <1>13 DEF StoreSignatures, Goto, tables
  <2> QED
    BY <2>1, SameIndex
<1>14. ASSUME NEW t \in Thread, NEW T \in Tables, Rebuilds(t, T) PROVE [Atomic!AtomicNext]_<<Index, status>>
  <2>1. UNCHANGED <<db, status>>
    BY <1>14 DEF Rebuilds, locals, Write
  <2> QED
    BY <2>1, SameIndex
<1>15. ASSUME NEW c \in Conn, Reopen(c) PROVE [Atomic!AtomicNext]_<<Index, status>>
  <2>1. UNCHANGED <<db, status>>
    BY <1>15 DEF Reopen, locals, RollBack
  <2> QED
    BY <2>1, SameIndex
<1>16. ASSUME NEW c \in Conn, Crash(c) PROVE [Atomic!AtomicNext]_<<Index, status>>
  <2> DEFINE D == {d \in Doc : \E t \in Thread : ConnOf[t] = c /\ doc[t] = d}
  <2>1. Index' = Index
    BY <1>16, SameIndex DEF Crash, RollBack
  <2>2. \A d \in D : status[d] \in {"running", "written"}
    BY StoreAssumption DEF JobInv
  <2>3. status' = [d \in Doc |-> IF d \in D THEN "crashed" ELSE status[d]]
    BY <1>16 DEF Crash
  <2>4. Atomic!Die(D)
    BY <2>1, <2>2, <2>3 DEF Atomic!Die, Index
  <2> QED
    BY <2>4 DEF Atomic!AtomicNext
<1>17. CASE UNCHANGED vars
  <2>1. UNCHANGED <<db, status>>
    BY <1>17 DEF vars
  <2> QED
    BY <2>1, SameIndex
<1> QED
  BY <1>1, <1>2, <1>3, <1>4, <1>5, <1>6, <1>7, <1>8, <1>9, <1>10, <1>11, <1>12, <1>13,
     <1>14, <1>15, <1>16, <1>17, RebuildStep
  DEF Next, UpsertStep, LookupStep
LEMMA InitSimulation == Init => Atomic!AtomicInit
BY DEF Init, Atomic!AtomicInit, Served, DocsAt, EmptyTables

\* The statement-by-statement store implements the index whose documents are
\* replaced in one step.
THEOREM Refinement == Spec => ImplementsAtomicIndex
BY InitSimulation, StepSimulation, Invariant, PTL DEF Spec, ImplementsAtomicIndex, Atomic!AtomicSpec
=============================================================================
