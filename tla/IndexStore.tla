---------------------------- MODULE IndexStore ----------------------------
(***************************************************************************)
(* storage/sqlite_store.py: SQLiteIndexStore, one statement per step.      *)
(*                                                                         *)
(* A Conn is a store object: one sqlite3 connection, one RLock, one        *)
(* signature cache.  `crag serve` has one store shared by the threads of   *)
(* its pool; `crag index` run beside it is another process with another    *)
(* store on the same file.  The file is in WAL mode: a transaction works   *)
(* on its own copy, one connection at a time may write, and readers see    *)
(* the last commit.                                                        *)
(*                                                                         *)
(* Reads that take the lock, run one SELECT and return change nothing and  *)
(* are not actions: what they would see is View(c).                        *)
(***************************************************************************)
EXTENDS StoreTables

CONSTANTS
    Thread, Conn, ConnOf,   \* ConnOf[t]: the store object thread t calls
    Rebuilders,             \* threads that call the maintenance helper _rebuild_fts
    NoDoc, NoConn, NoColl, NoSig, Free

ASSUME StoreAssumption ==
    /\ ConnOf \in [Thread -> Conn]
    /\ Rebuilders \subseteq Thread
    /\ NoDoc \notin Doc
    /\ NoConn \notin Conn
    /\ NoColl \notin Coll
    /\ Free \notin Thread
    /\ NoSig \notin Sig

\* What the cache gives for a collection that is not a key of it.
NotCached == {NoSig}

VARIABLES
    db,         \* the committed tables
    work,       \* the tables of the open transaction; db when there is none
    txn,        \* the connection holding SQLite's write lock, or NoConn
    lock,       \* lock[c]: the thread inside `with self._lock`, or Free
    sig,        \* sig[c][q]: _signature_cache, or NotCached
    pc, doc, old, at,   \* upsert: next statement, document, `existing`, rows inserted
    asked, rows,        \* embedding_signatures: active_collection, rows
    status      \* how far the upsert of each document got

tables == <<db, work, txn>>
locals == <<pc, doc, old, at, asked, rows>>
vars == <<db, work, txn, lock, sig, pc, doc, old, at, asked, rows, status>>

Upserting == {"waiting", "select", "delete", "document", "chunks", "commit", "release"}
Locked == Upserting \ {"waiting"}
PC == {"idle", "sig_read", "sig_store"} \cup Upserting
Status == {"new", "running", "written", "stored", "failed", "crashed"}

TypeOK ==
    /\ db \in Tables
    /\ work \in Tables
    /\ txn \in Conn \cup {NoConn}
    /\ lock \in [Conn -> Thread \cup {Free}]
    /\ sig \in [Conn -> [Coll -> (SUBSET Sig) \cup {NotCached}]]
    /\ pc \in [Thread -> PC]
    /\ doc \in [Thread -> Doc \cup {NoDoc}]
    /\ old \in [Thread -> Doc \cup {NoDoc}]
    /\ at \in [Thread -> Nat]
    /\ asked \in [Thread -> Coll \cup {NoColl}]
    /\ rows \in [Thread -> SUBSET Sig]
    /\ status \in [Doc -> Status]
    /\ \A t \in Thread : pc[t] \in Upserting => doc[t] # NoDoc
    /\ \A t \in Thread : pc[t] = "delete" => old[t] # NoDoc

EmptyCache == [q \in Coll |-> NotCached]

\* __init__ on a file without tables.
Init ==
    /\ db = EmptyTables
    /\ work = EmptyTables
    /\ txn = NoConn
    /\ lock = [c \in Conn |-> Free]
    /\ sig = [c \in Conn |-> EmptyCache]
    /\ pc = [t \in Thread |-> "idle"]
    /\ doc = [t \in Thread |-> NoDoc]
    /\ old = [t \in Thread |-> NoDoc]
    /\ at = [t \in Thread |-> 0]
    /\ asked = [t \in Thread |-> NoColl]
    /\ rows = [t \in Thread |-> {}]
    /\ status = [d \in Doc |-> "new"]

----------------------------------------------------------------------------
(* What a statement on connection c sees, and whether it may write.  The   *)
(* sqlite3 module opens the transaction before the first INSERT or DELETE, *)
(* so the SELECT before it runs on the last commit.                        *)

View(c) == IF txn = c THEN work ELSE db
Writable(c) == txn \in {NoConn, c}

\* Mutant of Write: autocommit, every statement commits by itself.
WriteAutocommit(t, T) ==
    /\ Writable(ConnOf[t])
    /\ db' = T
    /\ work' = T
    /\ UNCHANGED txn

Write(t, T) ==
    /\ Writable(ConnOf[t])
    /\ txn' = ConnOf[t]
    /\ work' = T
    /\ UNCHANGED db

Goto(t, l) == pc' = [pc EXCEPT ![t] = l]

\* Mutant of Leave: the lock is not left.
LeaveHoldingLock(t) ==
    /\ pc' = [pc EXCEPT ![t] = "idle"]
    /\ doc' = [doc EXCEPT ![t] = NoDoc]
    /\ old' = [old EXCEPT ![t] = NoDoc]
    /\ at' = [at EXCEPT ![t] = 0]
    /\ UNCHANGED <<lock, asked, rows>>

\* Mutant of Leave: the error does not leave upsert.
LeaveInPlace(t) ==
    /\ lock' = [lock EXCEPT ![ConnOf[t]] = Free]
    /\ doc' = [doc EXCEPT ![t] = NoDoc]
    /\ UNCHANGED <<pc, old, at, asked, rows>>

\* The end of upsert: the lock is left and the locals are dropped.
Leave(t) ==
    /\ lock' = [lock EXCEPT ![ConnOf[t]] = Free]
    /\ pc' = [pc EXCEPT ![t] = "idle"]
    /\ doc' = [doc EXCEPT ![t] = NoDoc]
    /\ old' = [old EXCEPT ![t] = NoDoc]
    /\ at' = [at EXCEPT ![t] = 0]
    /\ UNCHANGED <<asked, rows>>

\* Mutant of RollBack: a failed upsert leaves its transaction open.
RollBackForgotten(c) == UNCHANGED tables

RollBack(c) ==
    /\ txn' = IF txn = c THEN NoConn ELSE txn
    /\ work' = IF txn = c THEN db ELSE work
    /\ UNCHANGED db

----------------------------------------------------------------------------
(* upsert.                                                                 *)

\* The cached signatures of the target collection go before the lock is taken.
BeginUpsert(t, d) ==
    /\ pc[t] = "idle"
    /\ status[d] = "new"
    /\ Goto(t, "waiting")
    /\ doc' = [doc EXCEPT ![t] = d]
    /\ status' = [status EXCEPT ![d] = "running"]
    /\ sig' = [sig EXCEPT ![ConnOf[t]][CollOf[d]] = NotCached]
    /\ UNCHANGED <<tables, lock, old, at, asked, rows>>

\* Mutant of AcquireLock: upsert runs without the RLock.
EnterUnlocked(t) ==
    /\ pc[t] = "waiting"
    /\ lock' = [lock EXCEPT ![ConnOf[t]] = t]
    /\ Goto(t, "select")
    /\ UNCHANGED <<tables, sig, doc, old, at, asked, rows, status>>

AcquireLock(t) ==
    /\ pc[t] = "waiting"
    /\ lock[ConnOf[t]] = Free
    /\ lock' = [lock EXCEPT ![ConnOf[t]] = t]
    /\ Goto(t, "select")
    /\ UNCHANGED <<tables, sig, doc, old, at, asked, rows, status>>

SelectExisting(t) ==
    /\ pc[t] = "select"
    /\ LET found == DocsAt(View(ConnOf[t]), PathOf[doc[t]])
       IN IF found = {}
          THEN /\ Goto(t, "document")
               /\ UNCHANGED old
          ELSE /\ Goto(t, "delete")
               /\ \E e \in found : old' = [old EXCEPT ![t] = e]
    /\ UNCHANGED <<tables, lock, sig, doc, at, asked, rows, status>>

DeleteOld(t) ==
    /\ pc[t] = "delete"
    /\ Write(t, DeleteDocument(work, old[t]))
    /\ Goto(t, "document")
    /\ UNCHANGED <<lock, sig, doc, old, at, asked, rows, status>>

InsertDocument(t) ==
    /\ pc[t] = "document"
    /\ CanInsertDocument(work, doc[t])
    /\ Write(t, InsertDocumentRow(work, doc[t]))
    /\ Goto(t, "chunks")
    /\ UNCHANGED <<lock, sig, doc, old, at, asked, rows, status>>

InsertChunk(t) ==
    LET n == at[t] + 1
    IN /\ pc[t] = "chunks"
       /\ n <= Len(ChunkList[doc[t]])
       /\ CanInsertChunk(work, doc[t], ChunkList[doc[t]][n])
       /\ Write(t, InsertChunkRows(work, doc[t], ChunkList[doc[t]][n]))
       /\ at' = [at EXCEPT ![t] = n]
       /\ UNCHANGED <<lock, sig, pc, doc, old, asked, rows, status>>

SyncFts(t) ==
    /\ pc[t] = "chunks"
    /\ at[t] = Len(ChunkList[doc[t]])
    /\ Write(t, SyncFtsRows(work, doc[t]))
    /\ Goto(t, "commit")
    /\ UNCHANGED <<lock, sig, doc, old, at, asked, rows, status>>

\* Mutant of Commit: the connection is dropped without committing.
CommitLost(t) ==
    /\ pc[t] = "commit"
    /\ work' = db
    /\ txn' = NoConn
    /\ Goto(t, "release")
    /\ status' = [status EXCEPT ![doc[t]] = "written"]
    /\ UNCHANGED <<db, lock, sig, doc, old, at, asked, rows>>

Commit(t) ==
    /\ pc[t] = "commit"
    /\ db' = work
    /\ txn' = NoConn
    /\ Goto(t, "release")
    /\ status' = [status EXCEPT ![doc[t]] = "written"]
    /\ UNCHANGED <<work, lock, sig, doc, old, at, asked, rows>>

Release(t) ==
    /\ pc[t] = "release"
    /\ Leave(t)
    /\ status' = [status EXCEPT ![doc[t]] = "stored"]
    /\ UNCHANGED <<tables, sig>>

\* A statement raises: a constraint, busy_timeout expiring while another
\* connection writes, a full disk.  `with self._conn` rolls back whatever
\* transaction the connection has, and upsert raises StorageError.
StatementFails(t) ==
    /\ pc[t] \in Locked \ {"release"}
    /\ RollBack(ConnOf[t])
    /\ Leave(t)
    /\ status' = [status EXCEPT ![doc[t]] = "failed"]
    /\ UNCHANGED sig

----------------------------------------------------------------------------
(* embedding_signatures.  A hit returns the cached list and changes        *)
(* nothing.  A miss reads the tables under the lock and stores what it     *)
(* read after the lock is gone.                                            *)

LookupMiss(t, q) ==
    /\ pc[t] = "idle"
    /\ sig[ConnOf[t]][q] = NotCached
    /\ Goto(t, "sig_read")
    /\ asked' = [asked EXCEPT ![t] = q]
    /\ UNCHANGED <<tables, lock, sig, doc, old, at, rows, status>>

\* Mutant of ReadSignatures: the SELECT runs without the RLock.
ReadUnlocked(t) ==
    /\ pc[t] = "sig_read"
    /\ rows' = [rows EXCEPT ![t] = Signatures(View(ConnOf[t]), asked[t])]
    /\ Goto(t, "sig_store")
    /\ UNCHANGED <<tables, lock, sig, doc, old, at, asked, status>>

ReadSignatures(t) ==
    /\ pc[t] = "sig_read"
    /\ lock[ConnOf[t]] = Free
    /\ rows' = [rows EXCEPT ![t] = Signatures(View(ConnOf[t]), asked[t])]
    /\ Goto(t, "sig_store")
    /\ UNCHANGED <<tables, lock, sig, doc, old, at, asked, status>>

StoreSignatures(t) ==
    /\ pc[t] = "sig_store"
    /\ sig' = [sig EXCEPT ![ConnOf[t]][asked[t]] = rows[t]]
    /\ Goto(t, "idle")
    /\ asked' = [asked EXCEPT ![t] = NoColl]
    /\ rows' = [rows EXCEPT ![t] = {}]
    /\ UNCHANGED <<tables, lock, doc, old, at, status>>

----------------------------------------------------------------------------
(* Maintenance, shutdown, crash.                                           *)

(* _rebuild_fts has the lock from its DELETE to its last INSERT and does   *)
(* not touch what other connections see, so its statements are one step.   *)
(* It has the lock only: the transaction it opened stays open when it is   *)
(* through, and nothing is rolled back when it raises.                     *)

Rebuilds(t, T) ==
    /\ t \in Rebuilders
    /\ pc[t] = "idle"
    /\ lock[ConnOf[t]] = Free
    /\ Write(t, T)
    /\ UNCHANGED <<lock, sig, locals, status>>

RebuildFts(t) == Rebuilds(t, RebuiltFtsRows(work, [d \in Doc |-> {}]))

\* The DELETE raises and nothing is changed, or an INSERT does, and the DELETE
\* and the INSERTs before it stay: rest are the children it did not get to.
RebuildRaises(t) ==
    \/ Rebuilds(t, work)
    \/ \E rest \in SUBSET {r \in Doc \X ChunkId : r[2] \in work.children[r[1]]} :
        /\ rest # {}
        /\ Rebuilds(t, RebuiltFtsRows(work, [d \in Doc |-> {k \in ChunkId : <<d, k>> \in rest}]))

\* close, then __init__ of the next store on the file.  Closing rolls back.
Reopen(c) ==
    /\ \A t \in Thread : ConnOf[t] = c => pc[t] = "idle"
    /\ RollBack(c)
    /\ sig' = [sig EXCEPT ![c] = EmptyCache]
    /\ UNCHANGED <<lock, locals, status>>

\* The process of store c dies and another opens the file: SQLite discards
\* the open transaction, and lock, cache and calls in progress are gone.
Crash(c) ==
    LET on(t) == ConnOf[t] = c
    IN /\ RollBack(c)
       /\ lock' = [lock EXCEPT ![c] = Free]
       /\ sig' = [sig EXCEPT ![c] = EmptyCache]
       /\ pc' = [t \in Thread |-> IF on(t) THEN "idle" ELSE pc[t]]
       /\ doc' = [t \in Thread |-> IF on(t) THEN NoDoc ELSE doc[t]]
       /\ old' = [t \in Thread |-> IF on(t) THEN NoDoc ELSE old[t]]
       /\ at' = [t \in Thread |-> IF on(t) THEN 0 ELSE at[t]]
       /\ asked' = [t \in Thread |-> IF on(t) THEN NoColl ELSE asked[t]]
       /\ rows' = [t \in Thread |-> IF on(t) THEN {} ELSE rows[t]]
       /\ status' = [d \in Doc |-> IF \E t \in Thread : on(t) /\ doc[t] = d
                                   THEN "crashed" ELSE status[d]]

UpsertStep(t) ==
    \/ AcquireLock(t)
    \/ SelectExisting(t)
    \/ DeleteOld(t)
    \/ InsertDocument(t)
    \/ InsertChunk(t)
    \/ SyncFts(t)
    \/ Commit(t)
    \/ Release(t)
    \/ StatementFails(t)

LookupStep(t) == ReadSignatures(t) \/ StoreSignatures(t)

Next ==
    \/ \E t \in Thread :
        \/ \E d \in Doc : BeginUpsert(t, d)
        \/ UpsertStep(t)
        \/ \E q \in Coll : LookupMiss(t, q)
        \/ LookupStep(t)
        \/ RebuildFts(t) \/ RebuildRaises(t)
    \/ \E c \in Conn : Reopen(c) \/ Crash(c)

Spec == Init /\ [][Next]_vars

\* Every statement in progress ends, with its result or with an error: the
\* interpreter runs every thread of a live process, and busy_timeout bounds
\* the wait for SQLite's write lock.  Nobody has to call, close or crash.
FairSpec == Spec /\ \A t \in Thread : WF_vars(UpsertStep(t)) /\ WF_vars(LookupStep(t))

----------------------------------------------------------------------------
(* Properties.                                                             *)

\* Every committed document has all its parents and children, an embedding
\* and exactly one FTS row per child, and nothing is left of any other.  Only
\* the FTS rows a _rebuild_fts that raised did not get to may be missing, which
\* the next upsert on its connection commits, until the document is replaced or
\* a rebuild succeeds.
CommittedWhole == Whole(db)

\* documents.source_path: however two processes interleave, a file is never
\* indexed twice.
CommittedOnePerPath == OnePerPath(db)

\* A reader that gets the RLock never sees another thread's upsert half done,
\* although it runs on the same connection; of a rebuild that raised it sees
\* that FTS rows of the documents it left torn are missing, and nothing else.
ReadersSeeWhole == \A c \in Conn : lock[c] = Free => Whole(View(c)) /\ OnePerPath(View(c))

\* Whatever a reader gets the RLock in between, the lexical search matches no
\* chunk that the dense search does not rank, and the dense search ranks none
\* that the lexical search cannot match but those of torn documents.
ChannelsAgree ==
    \A c \in Conn, q \in Coll : lock[c] = Free =>
        /\ LexicalRows(View(c), q) \subseteq DenseRows(View(c), q)
        /\ \A r \in DenseRows(View(c), q) \ LexicalRows(View(c), q) : r[1] \in View(c).torn

\* An upsert that raised left nothing of its document in the file.
FailedLeavesNothing == \A d \in Doc : status[d] = "failed" => d \notin db.docs

CommittedSignature(q, s) ==
    \E d \in Doc : CollOf[d] = q /\ SigOf[d] = s /\ status[d] \in {"written", "stored", "crashed"}

\* Signatures that were only ever in a transaction are never cached: what is
\* cached was committed by some upsert.
CachedWasCommitted ==
    \A c \in Conn, q \in Coll : sig[c][q] # NotCached =>
        \A s \in sig[c][q] : CommittedSignature(q, s)

\* The cached signatures of a collection are those of the index, unless this
\* store is writing to the collection.  (embedding_signatures: callers use
\* it "to refuse a query embedded with something other than what was indexed".)
SignatureCacheFresh ==
    \A c \in Conn, q \in Coll : sig[c][q] # NotCached =>
        \/ sig[c][q] = Signatures(db, q)
        \/ \E t \in Thread : ConnOf[t] = c /\ doc[t] # NoDoc /\ CollOf[doc[t]] = q

IndexedPath(p) == DocsAt(db, p) # {}
KeepsPaths == \A p \in Path : IndexedPath(p) => IndexedPath(p)'

\* A file that is in the index stays in it, through failed re-indexing and
\* crashes: it is replaced, never lost.
PathsStayIndexed == [][KeepsPaths]_vars

\* An upsert that was called ends, whatever the other connection holds.
UpsertsReturn == \A t \in Thread : pc[t] \in Upserting ~> pc[t] = "idle"

\* The abstract index: what the committed tables say of each path.
Served(p) == IF DocsAt(db, p) = {} THEN NoDoc ELSE CHOOSE d \in DocsAt(db, p) : TRUE

Atomic == INSTANCE AtomicIndex WITH index <- [p \in Path |-> Served(p)]
ImplementsAtomicIndex == Atomic!AtomicSpec

----------------------------------------------------------------------------
(* The inductive invariant: who holds the lock, which document a thread is *)
(* writing, and what the working copy of the open transaction holds at     *)
(* each statement of upsert.                                               *)

LockInv ==
    \A c \in Conn, t \in Thread :
        lock[c] = t <=> ConnOf[t] = c /\ pc[t] \in Locked

JobInv ==
    /\ \A t \in Thread : doc[t] # NoDoc => pc[t] \in Upserting
    /\ \A t \in Thread : doc[t] # NoDoc =>
            status[doc[t]] = IF pc[t] = "release" THEN "written" ELSE "running"
    /\ \A t, u \in Thread : doc[t] # NoDoc /\ doc[t] = doc[u] => t = u
    /\ \A t \in Thread : pc[t] \notin {"chunks", "commit", "release"} => at[t] = 0
    /\ \A t \in Thread : pc[t] \notin Locked \/ pc[t] = "select" => old[t] = NoDoc
    /\ \A t \in Thread : pc[t] \in {"chunks", "commit"} => txn = ConnOf[t]
    /\ \A t \in Thread : pc[t] \in {"delete", "document"} /\ old[t] # NoDoc =>
            PathOf[old[t]] = PathOf[doc[t]]

CommittedInv ==
    /\ Whole(db)
    /\ OnePerPath(db)
    /\ \A d \in db.docs : status[d] \in {"written", "stored", "crashed"}

\* The open transaction has at most rebuilt FTS rows.
NothingUpserted == Whole(work) /\ work.docs = db.docs

\* The documents after d took the place of the one at its path.
DocsWith(d) == {x \in db.docs : PathOf[x] # PathOf[d]} \cup {d}

\* The rows of d up to the n-th chunk are in, its FTS rows are not.
WrittenUpTo(d, n) ==
    /\ work.docs = DocsWith(d)
    /\ \A x \in Doc \ {d} : WholeAt(work, x)
    /\ work.parents[d] = ChunksUpTo(d, n, "parent")
    /\ work.children[d] = ChunksUpTo(d, n, "child")
    /\ work.embs[d] = work.children[d]
    /\ work.fts[d] = NoRows

\* What the working copy holds when t is the one with the transaction.
WorkOf(t) ==
    /\ pc[t] \in {"select", "delete"} => NothingUpserted
    /\ pc[t] = "document" /\ old[t] = NoDoc => NothingUpserted
    /\ pc[t] = "document" /\ old[t] # NoDoc => Whole(work) /\ work.docs = db.docs \ {old[t]}
    /\ pc[t] = "chunks" => WrittenUpTo(doc[t], at[t]) /\ at[t] <= Len(ChunkList[doc[t]])
    /\ pc[t] = "commit" => Whole(work) /\ work.docs = DocsWith(doc[t])
    /\ pc[t] # "release"

WorkInv ==
    /\ txn = NoConn => work = db
    /\ txn # NoConn /\ lock[txn] = Free => NothingUpserted
    /\ \A t \in Thread : txn = ConnOf[t] => WorkOf(t)

CacheInv ==
    /\ \A t \in Thread : pc[t] \in {"sig_read", "sig_store"} => asked[t] # NoColl
    /\ \A t \in Thread, s \in Sig : pc[t] = "sig_store" /\ s \in rows[t] =>
            CommittedSignature(asked[t], s)
    /\ CachedWasCommitted

IInv == TypeOK /\ LockInv /\ JobInv /\ CommittedInv /\ WorkInv /\ CacheInv
=============================================================================
