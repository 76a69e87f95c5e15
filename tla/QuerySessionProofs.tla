------------------------ MODULE QuerySessionProofs ------------------------
(***************************************************************************)
(* The safety properties of QuerySession, for any documents, collections,  *)
(* models, threads and depths.                                             *)
(***************************************************************************)
EXTENDS QuerySession, TLAPS

Published == {"written", "stored", "crashed"}

\* The index has a document at the path of its file, and only such as were written.
\* A document is written once: what was replaced does not come back.
IndexInv ==
    /\ \A p \in Path : index[p] # NoDoc => PathOf[index[p]] = p
    /\ \A d \in Indexed : status[d] \in Published

\* A row and a hit are of a chunk that its document has.
ChunkInv ==
    \A t \in Query :
        /\ \A r \in dense[t] : r[2] \in DOMAIN ParentOf[r[1]]
        /\ \A h \in hits[t] : h.chunk \in DOMAIN ParentOf[h.doc]

\* A thread without a query has nothing of an earlier one.
IdleInv ==
    \A t \in Query : phase[t] = "idle" =>
        first[t] = {} /\ seen[t] = {} /\ dense[t] = {} /\ hits[t] = {} /\ cites[t] = {}

\* What a query may have seen: all that is served, and no more than was when it
\* began unless something was written.  A file stays in the index.
SeenInv ==
    \A t \in Query : phase[t] # "idle" =>
        /\ first[t] \cup Indexed \subseteq seen[t]
        /\ seen[t] = first[t] => Indexed = seen[t]
        /\ \A d \in seen[t] : status[d] \in Published /\ index[PathOf[d]] # NoDoc

\* Rows, hits and citations are of documents seen, and lack a parent or a path only
\* if their document was replaced.
RowFits(t, r) == r[1] \in seen[t] /\ CollOf[r[1]] = req[t].coll
HitFits(t, h) ==
    /\ h.doc \in seen[t] /\ CollOf[h.doc] = req[t].coll
    /\ h.parent = "lost" => h.doc \notin Indexed
CitationFits(t, c) ==
    /\ c.doc \in seen[t] /\ c.path \in {PathOf[c.doc], NoPath}
    /\ c.path = NoPath => c.doc \notin Indexed

RowsInv ==
    \A t \in Query :
        /\ \A r \in dense[t] : RowFits(t, r)
        /\ \A h \in hits[t] : HitFits(t, h)
        /\ \A c \in cites[t] : CitationFits(t, c)

\* The models a query of a store of its own read: of its collection, and of every
\* document that was there from the beginning.
Read(t) ==
    /\ \A m \in models[t] : \E d \in Doc : CollOf[d] = req[t].coll /\ ModelOf[d] = m
    /\ \A d \in first[t] \cap Indexed :
           CollOf[d] = req[t].coll /\ HasVectors(d) => ModelOf[d] \in models[t]
    /\ Settled(req[t].coll) /\ AlwaysSigned(t) => models[t] # {}

Matches(t) ==
    Settled(req[t].coll) /\ AlwaysSigned(t) =>
        \A d \in Doc : CollOf[d] = req[t].coll => ModelOf[d] = req[t].model

\* What it compares, or is about to, it may compare.
Guarded(t) ==
    /\ phase[t] = "store" => Read(t)
    /\ phase[t] \in {"embed", "dense"} \/ dense[t] # {} => Matches(t)
    /\ phase[t] = "refused" => ~ Unrefusable(t)

GuardInv == \A t \in Query : phase[t] # "idle" /\ req[t].own => Guarded(t)

\* Before the search there are no rows.
EarlyInv ==
    \A t \in Query : phase[t] \in {"guard", "read", "store", "embed", "dense", "refused"} => dense[t] = {}

IInv == QTypeOK /\ ChunkInv /\ IndexInv /\ IdleInv /\ SeenInv /\ RowsInv /\ EarlyInv /\ GuardInv

----------------------------------------------------------------------------
(* Lemmas about the operators.                                             *)

\* A row is of an indexed document of its collection; one that is compared is a row.
LEMMA RowIsIndexed ==
  ASSUME NEW q, NEW r \in Rows(q)
  PROVE  r \in Row /\ r[1] \in InColl(q) /\ r[2] \in DOMAIN ParentOf[r[1]]
  BY QueryAssumption DEF Rows, InColl, Indexed, Row

LEMMA BestIsPart == ASSUME NEW k, NEW S, NEW B \in Best(k, S) PROVE B \subseteq S
  BY DEF Best, kSubset

LEMMA ComparableIsRow == ASSUME NEW q, NEW m PROVE Comparable(q, m) \subseteq Rows(q)
  BY DEF Comparable

LEMMA HitIsTyped == ASSUME NEW r \in Row PROVE AsHit(r) \in Hit /\ AsHit(r).doc = r[1] /\ AsHit(r).parent # "lost"
  BY DEF Row, Hit, AsHit

LEMMA KeyIsChunk ==
  ASSUME NEW h \in Hit, h.chunk \in DOMAIN ParentOf[h.doc]
  PROVE  DedupeKey(h) \in Chunk
  BY QueryAssumption DEF DedupeKey, Hit

----------------------------------------------------------------------------
(* Types.                                                                  *)

LEMMA TypeInit == QInit => QTypeOK /\ ChunkInv
  BY DEF QInit, QTypeOK, ChunkInv, AtomicInit, AtomicTypeOK, Status, Phase

LEMMA TypeBegin ==
  ASSUME QTypeOK, ChunkInv, NEW t \in Query, NEW r \in Request, Begin(t, r)
  PROVE  QTypeOK' /\ ChunkInv'
  BY DEF QTypeOK, ChunkInv, AtomicTypeOK, Begin, Goto, Phase, Indexed

LEMMA TypeGuard ==
  ASSUME QTypeOK, ChunkInv, NEW t \in Query, GuardHit(t) \/ GuardMiss(t) \/ GuardRead(t) \/ GuardStore(t)
  PROVE  QTypeOK' /\ ChunkInv'
<1> USE DEF QTypeOK, ChunkInv, AtomicTypeOK, Goto, Phase, Ended
<1>1. CASE GuardHit(t) BY <1>1 DEF GuardHit, Decide
<1>2. CASE GuardMiss(t) BY <1>2 DEF GuardMiss
<1>3. CASE GuardRead(t)
  <2>1. Signatures(req[t].coll) \subseteq Model
    BY QueryAssumption DEF Signatures, InColl, Indexed
  <2>2. QED
    BY <1>3, <2>1 DEF GuardRead
<1>4. CASE GuardStore(t)
  <2>1. req[t] \in Request /\ req[t].coll \in Coll
    BY <1>4, QueryAssumption DEF GuardStore
  <2>2. QED
    BY <1>4, <2>1 DEF GuardStore, Decide
<1>5. QED
  BY <1>1, <1>2, <1>3, <1>4

LEMMA HitsAreTyped ==
  ASSUME NEW S \in SUBSET Row, \A r \in S : r[2] \in DOMAIN ParentOf[r[1]]
  PROVE  AsHits(S) \subseteq Hit /\ \A h \in AsHits(S) : h.chunk \in DOMAIN ParentOf[h.doc]
  BY HitIsTyped DEF AsHits, AsHit

\* What the fusion makes of a lexical search is dense or lexical.
LEMMA FusedIsPart ==
  ASSUME NEW t \in Query, SearchBm25(t)
  PROVE  \E S \in SUBSET Rows(req[t].coll) : \E F \in SUBSET (dense[t] \cup S) :
             hits' = [hits EXCEPT ![t] = AsHits(F)]
<1>1. PICK S \in SUBSET Rows(req[t].coll) :
        \E F \in IF req[t].mode = "bm25" THEN {S}
                 ELSE IF S = {} THEN Best(RerankTopN, dense[t])
                 ELSE Best(PoolK(req[t]), dense[t] \cup S) :
            hits' = [hits EXCEPT ![t] = AsHits(F)]
  BY DEF SearchBm25
<1>2. PICK F \in IF req[t].mode = "bm25" THEN {S}
                 ELSE IF S = {} THEN Best(RerankTopN, dense[t])
                 ELSE Best(PoolK(req[t]), dense[t] \cup S) :
             hits' = [hits EXCEPT ![t] = AsHits(F)]
  BY <1>1
<1>3. F \subseteq dense[t] \cup S
  BY <1>2, BestIsPart
<1>4. QED
  BY <1>2, <1>3

LEMMA TypeSearch ==
  ASSUME QTypeOK, ChunkInv, NEW t \in Query, EmbedQuery(t) \/ SearchVector(t) \/ SearchBm25(t)
  PROVE  QTypeOK' /\ ChunkInv'
<1> USE DEF QTypeOK, ChunkInv, AtomicTypeOK, Goto, Phase
<1>1. CASE EmbedQuery(t) BY <1>1 DEF EmbedQuery
<1>2. CASE SearchVector(t)
  <2>1. PICK S \in Best(ChannelK(req[t]), Comparable(req[t].coll, req[t].model)) :
           /\ dense' = [dense EXCEPT ![t] = S]
           /\ IF req[t].mode = "vector"
              THEN Goto(t, "attach") /\ hits' = [hits EXCEPT ![t] = AsHits(S)]
              ELSE Goto(t, "lexical") /\ UNCHANGED hits
    BY <1>2 DEF SearchVector
  <2>2. S \subseteq Row /\ \A r \in S : r[2] \in DOMAIN ParentOf[r[1]]
    BY BestIsPart, ComparableIsRow, RowIsIndexed
  <2>3. AsHits(S) \subseteq Hit /\ \A h \in AsHits(S) : h.chunk \in DOMAIN ParentOf[h.doc]
    BY <2>2, HitsAreTyped
  <2>4. QED
    BY <1>2, <2>1, <2>2, <2>3 DEF SearchVector
<1>3. CASE SearchBm25(t)
  <2>1. PICK S \in SUBSET Rows(req[t].coll) :
           \E F \in SUBSET (dense[t] \cup S) : hits' = [hits EXCEPT ![t] = AsHits(F)]
    BY <1>3, FusedIsPart
  <2>0. PICK F \in SUBSET (dense[t] \cup S) : hits' = [hits EXCEPT ![t] = AsHits(F)]
    BY <2>1
  <2>2. F \subseteq Row /\ \A r \in F : r[2] \in DOMAIN ParentOf[r[1]]
    BY <2>0, RowIsIndexed
  <2>3. AsHits(F) \subseteq Hit /\ \A h \in AsHits(F) : h.chunk \in DOMAIN ParentOf[h.doc]
    BY <2>2, HitsAreTyped
  <2>4. QED
    BY <1>3, <2>0, <2>3 DEF SearchBm25
<1>4. QED
  BY <1>1, <1>2, <1>3

LEMMA TypeAnswer ==
  ASSUME QTypeOK, ChunkInv, NEW t \in Query,
         AttachParent(t) \/ Rerank(t) \/ Cite(t) \/ Answer(t) \/ Fail(t)
  PROVE  QTypeOK' /\ ChunkInv'
<1> USE DEF QTypeOK, ChunkInv, AtomicTypeOK, Goto, Phase, Ended
<1>1. CASE AttachParent(t)
  <2>1. PICK h \in hits[t] :
          hits' = [hits EXCEPT ![t] = (hits[t] \ {h}) \cup
                      {[h EXCEPT !.parent = IF h.doc \in Indexed THEN "found" ELSE "lost"]}]
    BY <1>1 DEF AttachParent
  <2> DEFINE g == [h EXCEPT !.parent = IF h.doc \in Indexed THEN "found" ELSE "lost"]
  <2>2. g \in Hit /\ g.chunk \in DOMAIN ParentOf[g.doc]
    BY DEF Hit
  <2> HIDE DEF g
  <2>3. hits' = [hits EXCEPT ![t] = (hits[t] \ {h}) \cup {g}]
    BY <2>1 DEF g
  <2>4. QED
    BY <1>1, <2>2, <2>3 DEF AttachParent
<1>2. CASE Rerank(t) BY <1>2, BestIsPart DEF Rerank
<1>3. CASE Cite(t)
  <2>1. PICK h \in hits[t] :
          cites' = [cites EXCEPT ![t] = cites[t] \cup
                        {[doc |-> h.doc, key |-> DedupeKey(h),
                          path |-> IF h.doc \in Indexed THEN PathOf[h.doc] ELSE NoPath]}]
    BY <1>3 DEF Cite
  <2>2. h \in Hit /\ DedupeKey(h) \in Chunk
    BY KeyIsChunk
  <2>3. [doc |-> h.doc, key |-> DedupeKey(h),
         path |-> IF h.doc \in Indexed THEN PathOf[h.doc] ELSE NoPath] \in Citation
    BY <2>2, QueryAssumption DEF Hit, Citation
  <2>4. QED
    BY <1>3, <2>1, <2>3 DEF Cite
<1>4. CASE Answer(t) BY <1>4 DEF Answer
<1>5. CASE Fail(t) BY <1>5 DEF Fail
<1>6. QED
  BY <1>1, <1>2, <1>3, <1>4, <1>5

LEMMA TypeForget ==
  ASSUME QTypeOK, ChunkInv, NEW T, Forget(T), UNCHANGED index,
         status' \in [Doc -> Status], cache' \in [Coll -> (SUBSET Model) \cup {NotCached}]
  PROVE  QTypeOK' /\ ChunkInv'
  BY DEF QTypeOK, ChunkInv, AtomicTypeOK, Forget, Phase

LEMMA TypeDie ==
  ASSUME QTypeOK, NEW D, Die(D)
  PROVE  UNCHANGED index /\ status' \in [Doc -> Status]
  BY DEF QTypeOK, AtomicTypeOK, Die, Status

LEMMA TypeWriter ==
  ASSUME QTypeOK, ChunkInv, NEW d \in Doc, BeginUpsert(d) \/ CommitUpsert(d) \/ EndUpsert(d)
  PROVE  QTypeOK' /\ ChunkInv'
<1> USE DEF QTypeOK, ChunkInv, AtomicTypeOK, Status, Phase, locals
<1>1. CASE BeginUpsert(d)
  BY <1>1, QueryAssumption DEF BeginUpsert, Call
<1>2. CASE CommitUpsert(d)
  <2>1. seen' \in [Query -> SUBSET Doc]
    BY <1>2 DEF CommitUpsert
  <2>2. QED
    BY <1>2, <2>1, QueryAssumption DEF CommitUpsert, Publish
<1>3. CASE EndUpsert(d)
  BY <1>3 DEF EndUpsert, Return, Raise
<1>4. QED
  BY <1>1, <1>2, <1>3

LEMMA TypeEnd ==
  ASSUME QTypeOK, ChunkInv, (\E t \in Query : Respond(t)) \/ ServerDies \/ IndexerDies
  PROVE  QTypeOK' /\ ChunkInv'
<1>1. ASSUME NEW t \in Query, Respond(t) PROVE QTypeOK' /\ ChunkInv'
  BY <1>1, TypeForget DEF Respond, QTypeOK, AtomicTypeOK
<1>2. CASE ServerDies
  <2>1. cache' \in [Coll -> (SUBSET Model) \cup {NotCached}]
    BY <1>2 DEF ServerDies
  <2>2. QED
    BY <1>2, <2>1, TypeDie, TypeForget DEF ServerDies
<1>3. CASE IndexerDies
  BY <1>3, TypeDie DEF IndexerDies, locals, QTypeOK, ChunkInv, AtomicTypeOK
<1>4. QED
  BY <1>1, <1>2, <1>3

LEMMA TypeNext == QTypeOK /\ ChunkInv /\ [QNext]_vars => QTypeOK' /\ ChunkInv'
<1> SUFFICES ASSUME QTypeOK, ChunkInv, [QNext]_vars PROVE QTypeOK' /\ ChunkInv'
  OBVIOUS
<1>1. CASE UNCHANGED vars
  BY <1>1 DEF vars, locals, QTypeOK, ChunkInv, AtomicTypeOK
<1>2. ASSUME NEW t \in Query, QueryStep(t) PROVE QTypeOK' /\ ChunkInv'
  BY <1>2, TypeGuard, TypeSearch, TypeAnswer DEF QueryStep
<1>3. QED
  BY <1>1, <1>2, TypeBegin, TypeWriter, TypeEnd DEF QNext

----------------------------------------------------------------------------
(* The index.                                                              *)

\* What the step of a query leaves alone.
LEMMA StepFrame ==
  ASSUME NEW t \in Query, QueryStep(t)
  PROVE  UNCHANGED <<index, status, req, first, seen>> /\ Indexed' = Indexed
  BY DEF QueryStep, GuardHit, GuardMiss, GuardRead, GuardStore, EmbedQuery, SearchVector, SearchBm25,
         AttachParent, Rerank, Cite, Answer, Fail, Indexed

\* What is written is indexed, and nothing else is new.
LEMMA CommitIndexes ==
  ASSUME QTypeOK, IndexInv, NEW d \in Doc, CommitUpsert(d)
  PROVE  /\ d \notin Indexed /\ Indexed' \subseteq Indexed \cup {d}
         /\ \A p \in Path : index[p] # NoDoc => index'[p] # NoDoc
         /\ index'[PathOf[d]] = d
  BY QueryAssumption DEF QTypeOK, AtomicTypeOK, IndexInv, CommitUpsert, Publish, Indexed, Published

\* A document that was published stays so.
LEMMA PublishedStays ==
  ASSUME QTypeOK, [QNext]_vars, NEW d \in Doc, status[d] \in Published
  PROVE  status'[d] \in Published
<1> USE DEF QTypeOK, AtomicTypeOK, Published
<1>1. ASSUME NEW e \in Doc, BeginUpsert(e) \/ CommitUpsert(e) \/ EndUpsert(e) PROVE status'[d] \in Published
  BY <1>1 DEF BeginUpsert, CommitUpsert, EndUpsert, Call, Publish, Return, Raise
<1>2. CASE ServerDies \/ IndexerDies
  BY <1>2 DEF ServerDies, IndexerDies, Die
<1>3. ASSUME NEW t \in Query, NEW r \in Request, Begin(t, r) \/ QueryStep(t) \/ Respond(t)
      PROVE  status'[d] \in Published
  BY <1>3, StepFrame DEF Begin, Respond
<1>4. QED
  BY <1>1, <1>2, <1>3, StepFrame DEF QNext, vars, Begin, Respond

\* The index changes when a document is written, and only then.
LEMMA OnlyCommitsIndex ==
  ASSUME [QNext]_vars
  PROVE  (UNCHANGED index /\ Indexed' = Indexed) \/ \E d \in Doc : CommitUpsert(d)
<1>1. UNCHANGED index \/ \E d \in Doc : CommitUpsert(d)
  BY StepFrame DEF QNext, Begin, Respond, BeginUpsert, EndUpsert, ServerDies, IndexerDies,
         Call, Return, Raise, Die, vars
<1>2. UNCHANGED index => Indexed' = Indexed
  BY DEF Indexed
<1>3. QED
  BY <1>1, <1>2

LEMMA IndexNext == QTypeOK /\ IndexInv /\ [QNext]_vars => IndexInv'
<1> SUFFICES ASSUME QTypeOK, IndexInv, [QNext]_vars PROVE IndexInv'
  OBVIOUS
<1>1. CASE UNCHANGED index /\ Indexed' = Indexed
  BY <1>1, PublishedStays DEF IndexInv, Indexed
<1>2. ASSUME NEW d \in Doc, CommitUpsert(d) PROVE IndexInv'
  <2>1. status'[d] \in Published
    BY <1>2 DEF CommitUpsert, Publish, Published, QTypeOK, AtomicTypeOK
  <2>2. \A e \in Indexed' : status'[e] \in Published
    BY <1>2, <2>1, CommitIndexes, PublishedStays DEF IndexInv, Indexed
  <2>3. QED
    BY <1>2, <2>2, QueryAssumption DEF IndexInv, CommitUpsert, Publish, QTypeOK, AtomicTypeOK
<1>3. QED
  BY <1>1, <1>2, OnlyCommitsIndex

----------------------------------------------------------------------------
(* What a query has seen.                                                  *)

\* A thread at its query: the others stay where they are.
LEMMA OthersStay ==
  ASSUME QTypeOK, NEW t \in Query, QueryStep(t) \/ \E r \in Request : Begin(t, r), NEW u \in Query, u # t
  PROVE  /\ phase'[u] = phase[u] /\ req'[u] = req[u] /\ models'[u] = models[u] /\ dense'[u] = dense[u]
         /\ hits'[u] = hits[u] /\ cites'[u] = cites[u] /\ first'[u] = first[u] /\ seen'[u] = seen[u]
<1> USE DEF QTypeOK, Goto, Decide
<1>1. CASE \E r \in Request : Begin(t, r)
  BY <1>1 DEF Begin
<1>2. CASE GuardHit(t) \/ GuardMiss(t) \/ GuardRead(t) \/ GuardStore(t) \/ EmbedQuery(t)
  BY <1>2 DEF GuardHit, GuardMiss, GuardRead, GuardStore, EmbedQuery
<1>3. CASE SearchVector(t) \/ SearchBm25(t)
  BY <1>3 DEF SearchVector, SearchBm25
<1>4. CASE AttachParent(t) \/ Rerank(t) \/ Cite(t) \/ Answer(t) \/ Fail(t)
  BY <1>4 DEF AttachParent, Rerank, Cite, Answer, Fail
<1>5. QED
  BY <1>1, <1>2, <1>3, <1>4 DEF QueryStep

LEMMA StepIsAtWork ==
  ASSUME QTypeOK, NEW t \in Query, QueryStep(t)
  PROVE  phase[t] # "idle" /\ phase'[t] # "idle"
  BY DEF QTypeOK, QueryStep, Goto, Decide, GuardHit, GuardMiss, GuardRead, GuardStore, EmbedQuery,
         SearchVector, SearchBm25, AttachParent, Rerank, Cite, Answer, Fail

\* A forgotten query leaves nothing behind, and the others stay.
LEMMA ForgetFrame ==
  ASSUME NEW T, Forget(T), NEW u \in Query
  PROVE  /\ u \in T => /\ phase'[u] = "idle" /\ first'[u] = {} /\ seen'[u] = {} /\ models'[u] = {}
                       /\ dense'[u] = {} /\ hits'[u] = {} /\ cites'[u] = {}
         /\ u \notin T => /\ phase'[u] = phase[u] /\ req'[u] = req[u] /\ models'[u] = models[u]
                          /\ dense'[u] = dense[u] /\ hits'[u] = hits[u] /\ cites'[u] = cites[u]
                          /\ first'[u] = first[u] /\ seen'[u] = seen[u]
  BY DEF Forget

\* Every step is of one of five kinds.
LEMMA StepKinds ==
  ASSUME [QNext]_vars
  PROVE  \/ UNCHANGED <<index, locals>>
         \/ \E t \in Query : \E r \in Request : Begin(t, r)
         \/ \E t \in Query : QueryStep(t)
         \/ \E d \in Doc : CommitUpsert(d)
         \/ UNCHANGED index /\ \E T : Forget(T)
<1>1. ASSUME NEW d \in Doc, BeginUpsert(d) \/ EndUpsert(d) PROVE UNCHANGED <<index, locals>>
  BY <1>1 DEF BeginUpsert, EndUpsert, Call, Return, Raise
<1>2. ASSUME NEW t \in Query, Respond(t) PROVE UNCHANGED index /\ Forget({t})
  BY <1>2 DEF Respond
<1>3. CASE ServerDies
  BY <1>3 DEF ServerDies, Die
<1>4. CASE IndexerDies
  BY <1>4 DEF IndexerDies, Die
<1>5. QED
  BY <1>1, <1>2, <1>3, <1>4 DEF QNext, vars

LEMMA IdleNext == QTypeOK /\ IdleInv /\ [QNext]_vars => IdleInv'
<1> SUFFICES ASSUME QTypeOK, IdleInv, [QNext]_vars, NEW u \in Query, phase'[u] = "idle"
             PROVE  first'[u] = {} /\ seen'[u] = {} /\ dense'[u] = {} /\ hits'[u] = {} /\ cites'[u] = {}
  BY DEF IdleInv
<1>1. CASE UNCHANGED <<index, locals>>
  BY <1>1 DEF IdleInv, locals
<1>2. ASSUME NEW t \in Query, NEW r \in Request, Begin(t, r) PROVE phase'[u] = phase[u] /\ u # t
  BY <1>2, OthersStay DEF Begin, Goto, QTypeOK
<1>3. ASSUME NEW t \in Query, QueryStep(t) PROVE phase'[u] = phase[u] /\ u # t
  BY <1>3, OthersStay, StepIsAtWork
<1>4. ASSUME NEW d \in Doc, CommitUpsert(d)
      PROVE  phase[u] = "idle" /\ seen'[u] = {} /\ UNCHANGED <<first, dense, hits, cites>>
  BY <1>4 DEF CommitUpsert
<1>5. ASSUME NEW T, Forget(T) PROVE u \in T \/ phase[u] = "idle"
  BY <1>5, ForgetFrame
<1>6. QED
  BY <1>1, <1>2, <1>3, <1>4, <1>5, OthersStay, ForgetFrame, StepKinds DEF IdleInv

LEMMA SeenNext == QTypeOK /\ IndexInv /\ SeenInv /\ [QNext]_vars => SeenInv'
<1> DEFINE Sees(F, S) == /\ F \cup Indexed \subseteq S
                         /\ S = F => Indexed = S
                         /\ \A d \in S : status[d] \in Published /\ index[PathOf[d]] # NoDoc
<1> SUFFICES ASSUME QTypeOK, IndexInv, SeenInv, [QNext]_vars, NEW u \in Query, phase'[u] # "idle"
             PROVE  Sees(first[u], seen[u])'
  BY DEF SeenInv
<1>1. ASSUME UNCHANGED index, phase[u] # "idle", first'[u] = first[u], seen'[u] = seen[u]
      PROVE  Sees(first[u], seen[u])'
  BY <1>1, PublishedStays DEF SeenInv, Indexed, QTypeOK
<1>2. CASE UNCHANGED <<index, locals>>
  BY <1>1, <1>2 DEF locals
<1>3. ASSUME NEW t \in Query, NEW r \in Request, Begin(t, r) PROVE Sees(first[u], seen[u])'
  <2>1. CASE u # t
    BY <1>1, <1>3, <2>1, OthersStay DEF Begin
  <2>2. CASE u = t
    <3>1. first'[t] = Indexed /\ seen'[t] = Indexed /\ Indexed' = Indexed /\ UNCHANGED <<index, status>>
      BY <1>3 DEF Begin, QTypeOK, Indexed
    <3>2. \A d \in Indexed : status[d] \in Published /\ index[PathOf[d]] # NoDoc
      BY QueryAssumption DEF IndexInv, Indexed
    <3>3. QED
      BY <2>2, <3>1, <3>2
  <2>3. QED
    BY <2>1, <2>2
<1>4. ASSUME NEW t \in Query, QueryStep(t) PROVE Sees(first[u], seen[u])'
  BY <1>1, <1>4, OthersStay, StepFrame, StepIsAtWork
<1>5. ASSUME NEW d \in Doc, CommitUpsert(d) PROVE Sees(first[u], seen[u])'
  <2>1. phase[u] # "idle" /\ first'[u] = first[u] /\ seen'[u] = seen[u] \cup {d}
    BY <1>5 DEF CommitUpsert
  <2>2. status[d] \notin Published /\ status'[d] \in Published
    BY <1>5 DEF CommitUpsert, Publish, Published, QTypeOK, AtomicTypeOK
  <2>3. d \notin seen[u] /\ first[u] \subseteq seen[u]
    BY <2>1, <2>2 DEF SeenInv
  <2>4. first'[u] \cup Indexed' \subseteq seen'[u] /\ seen'[u] # first'[u]
    BY <1>5, <2>1, <2>3, CommitIndexes DEF SeenInv
  <2>5. ASSUME NEW e \in seen'[u] PROVE status'[e] \in Published /\ index'[PathOf[e]] # NoDoc
    <3>1. e \in Doc /\ PathOf[e] \in Path
      BY <2>1, QueryAssumption DEF QTypeOK
    <3>2. e # d => status[e] \in Published /\ index[PathOf[e]] # NoDoc
      BY <2>1 DEF SeenInv
    <3>3. QED
      BY <1>5, <2>2, <3>1, <3>2, CommitIndexes, PublishedStays, QueryAssumption
  <2>6. QED
    BY <2>4, <2>5
<1>6. ASSUME NEW T, Forget(T), UNCHANGED index PROVE Sees(first[u], seen[u])'
  BY <1>1, <1>6, ForgetFrame
<1>7. QED
  BY <1>2, <1>3, <1>4, <1>5, <1>6, StepKinds

----------------------------------------------------------------------------
(* Rows, hits and citations.                                               *)

\* What was replaced does not come back while a query runs that saw it.
LEMMA RetiredStays ==
  ASSUME QTypeOK, IndexInv, SeenInv, [QNext]_vars, NEW t \in Query, phase[t] # "idle",
         NEW d \in seen[t], d \notin Indexed
  PROVE  d \notin Indexed'
<1>1. ASSUME NEW e \in Doc, CommitUpsert(e) PROVE d # e
  BY <1>1 DEF CommitUpsert, Publish, Published, SeenInv
<1>2. QED
  BY <1>1, OnlyCommitsIndex, CommitIndexes

LEMMA RowsStay ==
  ASSUME QTypeOK, IndexInv, SeenInv, RowsInv, [QNext]_vars, NEW t \in Query, phase[t] # "idle",
         dense'[t] = dense[t], hits'[t] = hits[t], cites'[t] = cites[t], req'[t] = req[t],
         seen[t] \subseteq seen'[t]
  PROVE  /\ \A r \in dense'[t] : RowFits(t, r)'
         /\ \A h \in hits'[t] : HitFits(t, h)'
         /\ \A c \in cites'[t] : CitationFits(t, c)'
  BY RetiredStays DEF RowsInv, RowFits, HitFits, CitationFits

\* Rows of the collection are of documents seen.
LEMMA FoundFit ==
  ASSUME SeenInv, NEW t \in Query, phase[t] # "idle", NEW F, F \subseteq dense[t] \cup Rows(req[t].coll),
         \A r \in dense[t] : RowFits(t, r), dense[t] \subseteq Row
  PROVE  (\A r \in F : RowFits(t, r)) /\ (\A h \in AsHits(F) : HitFits(t, h))
<1>1. \A r \in F : RowFits(t, r) /\ r \in Row
  BY RowIsIndexed DEF SeenInv, RowFits, InColl
<1>2. QED
  BY <1>1, HitIsTyped DEF AsHits, HitFits, RowFits

LEMMA RowsStep ==
  ASSUME QTypeOK, IndexInv, SeenInv, RowsInv, NEW t \in Query, QueryStep(t)
  PROVE  /\ \A r \in dense'[t] : RowFits(t, r)'
         /\ \A h \in hits'[t] : HitFits(t, h)'
         /\ \A c \in cites'[t] : CitationFits(t, c)'
<1> USE DEF RowsInv, QTypeOK
<1>1. UNCHANGED <<req, seen, Indexed>> /\ phase[t] # "idle"
  BY StepFrame, StepIsAtWork
<1>2. /\ \A r : RowFits(t, r)' <=> RowFits(t, r)
      /\ \A h : HitFits(t, h)' <=> HitFits(t, h)
      /\ \A c : CitationFits(t, c)' <=> CitationFits(t, c)
  BY <1>1 DEF RowFits, HitFits, CitationFits
<1>3. CASE \/ GuardHit(t) \/ GuardMiss(t) \/ GuardRead(t) \/ GuardStore(t) \/ EmbedQuery(t)
           \/ Answer(t) \/ Fail(t)
  BY <1>2, <1>3 DEF GuardHit, GuardMiss, GuardRead, GuardStore, EmbedQuery, Answer, Fail
<1>4. CASE SearchVector(t)
  <2>1. PICK S \in Best(ChannelK(req[t]), Comparable(req[t].coll, req[t].model)) :
           /\ dense' = [dense EXCEPT ![t] = S]
           /\ hits' = hits \/ hits' = [hits EXCEPT ![t] = AsHits(S)]
    BY <1>4 DEF SearchVector
  <2>2. S \subseteq dense[t] \cup Rows(req[t].coll)
    BY BestIsPart, ComparableIsRow
  <2>3. (\A r \in S : RowFits(t, r)) /\ (\A h \in AsHits(S) : HitFits(t, h))
    BY <1>1, <2>2, FoundFit
  <2>4. QED
    BY <1>2, <1>4, <2>1, <2>3 DEF SearchVector
<1>5. CASE SearchBm25(t)
  <2>1. PICK S \in SUBSET Rows(req[t].coll) :
           \E F \in SUBSET (dense[t] \cup S) : hits' = [hits EXCEPT ![t] = AsHits(F)]
    BY <1>5, FusedIsPart
  <2>2. PICK F \in SUBSET (dense[t] \cup S) : hits' = [hits EXCEPT ![t] = AsHits(F)]
    BY <2>1
  <2>3. \A h \in AsHits(F) : HitFits(t, h)
    BY <1>1, <2>2, FoundFit
  <2>4. QED
    BY <1>2, <1>5, <2>2, <2>3 DEF SearchBm25
<1>6. CASE AttachParent(t)
  <2>1. PICK h \in hits[t] :
          hits' = [hits EXCEPT ![t] = (hits[t] \ {h}) \cup
                      {[h EXCEPT !.parent = IF h.doc \in Indexed THEN "found" ELSE "lost"]}]
    BY <1>6 DEF AttachParent
  <2> DEFINE g == [h EXCEPT !.parent = IF h.doc \in Indexed THEN "found" ELSE "lost"]
  <2>2. HitFits(t, g)
    BY DEF Hit, HitFits
  <2> HIDE DEF g
  <2>3. hits' = [hits EXCEPT ![t] = (hits[t] \ {h}) \cup {g}]
    BY <2>1 DEF g
  <2>4. QED
    BY <1>2, <1>6, <2>2, <2>3 DEF AttachParent
<1>7. CASE Rerank(t)
  BY <1>2, <1>7, BestIsPart DEF Rerank
<1>8. CASE Cite(t)
  <2>1. PICK h \in hits[t] :
          cites' = [cites EXCEPT ![t] = cites[t] \cup
                        {[doc |-> h.doc, key |-> DedupeKey(h),
                          path |-> IF h.doc \in Indexed THEN PathOf[h.doc] ELSE NoPath]}]
    BY <1>8 DEF Cite
  <2> DEFINE c == [doc |-> h.doc, key |-> DedupeKey(h),
                   path |-> IF h.doc \in Indexed THEN PathOf[h.doc] ELSE NoPath]
  <2>2. CitationFits(t, c)
    BY QueryAssumption DEF CitationFits, HitFits, Hit, Indexed
  <2> HIDE DEF c
  <2>3. cites' = [cites EXCEPT ![t] = cites[t] \cup {c}]
    BY <2>1 DEF c
  <2>4. QED
    BY <1>2, <1>8, <2>2, <2>3 DEF Cite
<1>9. QED
  BY <1>3, <1>4, <1>5, <1>6, <1>7, <1>8 DEF QueryStep

LEMMA RowsNext ==
  QTypeOK /\ IndexInv /\ IdleInv /\ SeenInv /\ RowsInv /\ [QNext]_vars => RowsInv'
<1> DEFINE Fit(t) == /\ \A r \in dense[t] : RowFits(t, r)
                     /\ \A h \in hits[t] : HitFits(t, h)
                     /\ \A c \in cites[t] : CitationFits(t, c)
<1> SUFFICES ASSUME QTypeOK, IndexInv, IdleInv, SeenInv, RowsInv, [QNext]_vars, NEW u \in Query
             PROVE  Fit(u)'
  BY DEF RowsInv
<1>1. CASE dense'[u] = {} /\ hits'[u] = {} /\ cites'[u] = {}
  BY <1>1
<1>2. ASSUME dense'[u] = dense[u], hits'[u] = hits[u], cites'[u] = cites[u], req'[u] = req[u],
             phase[u] # "idle" => seen[u] \subseteq seen'[u]
      PROVE  Fit(u)'
  BY <1>1, <1>2, RowsStay DEF IdleInv
<1>3. CASE UNCHANGED <<index, locals>>
  BY <1>2, <1>3 DEF locals
<1>4. ASSUME NEW t \in Query, NEW r \in Request, Begin(t, r) PROVE Fit(u)'
  <2>1. CASE u # t
    BY <1>2, <1>4, <2>1, OthersStay
  <2>2. CASE u = t
    BY <1>1, <1>4, <2>2 DEF Begin, IdleInv
  <2>3. QED
    BY <2>1, <2>2
<1>5. ASSUME NEW t \in Query, QueryStep(t) PROVE Fit(u)'
  <2>1. CASE u # t
    BY <1>2, <1>5, <2>1, OthersStay
  <2>2. CASE u = t
    BY <1>5, <2>2, RowsStep
  <2>3. QED
    BY <2>1, <2>2
<1>6. ASSUME NEW d \in Doc, CommitUpsert(d) PROVE Fit(u)'
  BY <1>2, <1>6 DEF CommitUpsert, QTypeOK
<1>7. ASSUME NEW T, Forget(T), UNCHANGED index PROVE Fit(u)'
  BY <1>1, <1>2, <1>7, ForgetFrame
<1>8. QED
  BY <1>3, <1>4, <1>5, <1>6, <1>7, StepKinds

----------------------------------------------------------------------------
(* The guard.                                                              *)

LEMMA EarlyNext == QTypeOK /\ IdleInv /\ EarlyInv /\ [QNext]_vars => EarlyInv'
<1> DEFINE Early(t) == phase[t] \in {"guard", "read", "store", "embed", "dense", "refused"} => dense[t] = {}
<1> SUFFICES ASSUME QTypeOK, IdleInv, EarlyInv, [QNext]_vars, NEW u \in Query PROVE Early(u)'
  BY DEF EarlyInv
<1>1. ASSUME phase'[u] = phase[u], dense'[u] = dense[u] PROVE Early(u)'
  BY <1>1 DEF EarlyInv
<1>2. CASE UNCHANGED <<index, locals>>
  BY <1>1, <1>2 DEF locals
<1>3. ASSUME NEW t \in Query, NEW r \in Request, Begin(t, r) PROVE Early(u)'
  BY <1>1, <1>3, OthersStay DEF Begin, IdleInv
<1>4. ASSUME NEW t \in Query, QueryStep(t) PROVE Early(u)'
  <2>1. CASE u # t
    BY <1>1, <1>4, <2>1, OthersStay
  <2>2. CASE u = t
    <3> USE DEF EarlyInv, QTypeOK, Goto
    <3>1. CASE GuardHit(t) \/ GuardMiss(t) \/ GuardRead(t) \/ GuardStore(t) \/ EmbedQuery(t)
      BY <2>2, <3>1 DEF GuardHit, GuardMiss, GuardRead, GuardStore, EmbedQuery, Decide
    <3>2. CASE SearchVector(t) \/ SearchBm25(t)
      BY <2>2, <3>2 DEF SearchVector, SearchBm25
    <3>3. CASE AttachParent(t) \/ Rerank(t) \/ Cite(t) \/ Answer(t) \/ Fail(t)
      BY <2>2, <3>3 DEF AttachParent, Rerank, Cite, Answer, Fail
    <3>4. QED
      BY <1>4, <2>2, <3>1, <3>2, <3>3 DEF QueryStep
  <2>3. QED
    BY <2>1, <2>2
<1>5. ASSUME NEW d \in Doc, CommitUpsert(d) PROVE Early(u)'
  BY <1>1, <1>5 DEF CommitUpsert
<1>6. ASSUME NEW T, Forget(T) PROVE Early(u)'
  BY <1>1, <1>6, ForgetFrame
<1>7. QED
  BY <1>2, <1>3, <1>4, <1>5, <1>6, StepKinds

\* What a query reads of the models of its collection.
LEMMA SignaturesRead ==
  ASSUME QTypeOK, IndexInv, SeenInv, NEW t \in Query, phase[t] # "idle",
         models' = [models EXCEPT ![t] = Signatures(req[t].coll)], UNCHANGED <<req, first, index>>
  PROVE  Read(t)'
<1>1. models'[t] = Signatures(req[t].coll) /\ Indexed' = Indexed
  BY DEF QTypeOK, Indexed
<1>2. \A m \in models'[t] : \E d \in Doc : CollOf[d] = req[t].coll /\ ModelOf[d] = m
  BY <1>1 DEF Signatures, InColl, Indexed
<1>3. \A d \in first[t] \cap Indexed : CollOf[d] = req[t].coll /\ HasVectors(d) => ModelOf[d] \in models'[t]
  BY <1>1 DEF Signatures, InColl
<1>4. ASSUME Settled(req[t].coll), AlwaysSigned(t) PROVE models'[t] # {}
  <2>1. PICK d \in first[t] : CollOf[d] = req[t].coll /\ \A e \in Doc : PathOf[e] = PathOf[d] => HasVectors(e)
    BY <1>4 DEF AlwaysSigned
  <2>2. d \in seen[t] /\ d \in Doc /\ PathOf[d] \in Path
    BY QueryAssumption DEF SeenInv, QTypeOK
  <2> DEFINE e == index[PathOf[d]]
  <2>3. e \in Doc /\ PathOf[e] = PathOf[d]
    BY <2>2 DEF SeenInv, IndexInv, QTypeOK, AtomicTypeOK
  <2>4. e \in InColl(req[t].coll) /\ HasVectors(e)
    BY <1>4, <2>1, <2>2, <2>3 DEF Settled, InColl, Indexed
  <2> HIDE DEF e
  <2>5. QED
    BY <1>1, <2>4 DEF Signatures
<1>5. Read(t)' <=> /\ \A m \in models'[t] : \E d \in Doc : CollOf[d] = req[t].coll /\ ModelOf[d] = m
                   /\ \A d \in first[t] \cap Indexed :
                          CollOf[d] = req[t].coll /\ HasVectors(d) => ModelOf[d] \in models'[t]
                   /\ Settled(req[t].coll) /\ AlwaysSigned(t) => models'[t] # {}
  BY <1>1 DEF Read, Settled, AlwaysSigned, HasVectors
<1>6. QED
  BY <1>2, <1>3, <1>4, <1>5

\* A model that was read is the model of the collection.
LEMMA ReadDecides ==
  ASSUME NEW t \in Query, Read(t)
  PROVE  /\ models[t] = {} \/ req[t].model \in models[t] => Matches(t)
         /\ req[t].model \notin models[t] => ~ Unrefusable(t)
<1>1. ASSUME models[t] = {} \/ req[t].model \in models[t], Settled(req[t].coll), AlwaysSigned(t),
             NEW d \in Doc, CollOf[d] = req[t].coll
      PROVE  ModelOf[d] = req[t].model
  <2>1. req[t].model \in models[t]
    BY <1>1 DEF Read
  <2>2. PICK e \in Doc : CollOf[e] = req[t].coll /\ ModelOf[e] = req[t].model
    BY <2>1 DEF Read
  <2>3. QED
    BY <1>1, <2>2 DEF Settled
<1>2. QED
  BY <1>1 DEF Matches, Read, Unrefusable

\* The guard of a query says the same after a step that leaves it its request.
LEMMA GuardStays ==
  ASSUME QTypeOK, IndexInv, SeenInv, [QNext]_vars, NEW t \in Query, phase[t] # "idle",
         req'[t] = req[t], first'[t] = first[t]
  PROVE  /\ Matches(t) => Matches(t)'
         /\ ~ Unrefusable(t) => ~ Unrefusable(t)'
         /\ models'[t] = models[t] /\ Read(t) => Read(t)'
<1>1. first[t] \cap Indexed' \subseteq first[t] \cap Indexed
  BY RetiredStays DEF SeenInv
<1>2. AlwaysSigned(t)' <=> AlwaysSigned(t)
  BY DEF AlwaysSigned, HasVectors
<1>3. Matches(t) => Matches(t)'
  BY <1>2 DEF Matches, Settled
<1>4. ~ Unrefusable(t) => ~ Unrefusable(t)'
  BY <1>1 DEF Unrefusable, HasVectors
<1>5. models'[t] = models[t] /\ Read(t) => Read(t)'
  BY <1>1, <1>2 DEF Read, Settled, HasVectors
<1>6. QED
  BY <1>3, <1>4, <1>5

LEMMA GuardStep ==
  ASSUME QTypeOK, IndexInv, SeenInv, EarlyInv, [QNext]_vars,
         NEW t \in Query, QueryStep(t), req[t].own, Guarded(t)
  PROVE  Guarded(t)'
<1> USE DEF QTypeOK, Goto
<1>1. phase[t] # "idle" /\ req' = req /\ first' = first
  BY StepFrame, StepIsAtWork
<1>2. (Matches(t) => Matches(t)') /\ (~ Unrefusable(t) => ~ Unrefusable(t)')
  BY <1>1, GuardStays
<1>3. CASE GuardHit(t)
  BY <1>3 DEF GuardHit, Cached
<1>4. CASE GuardMiss(t)
  BY <1>4 DEF GuardMiss, EarlyInv, Guarded
<1>5. CASE GuardRead(t)
  <2>1. Read(t)'
    BY <1>1, <1>5, SignaturesRead, StepFrame DEF GuardRead
  <2>2. QED
    BY <1>5, <2>1 DEF GuardRead, EarlyInv, Guarded
<1>6. CASE GuardStore(t)
  <2>1. Read(t) /\ dense[t] = {}
    BY <1>6 DEF GuardStore, Guarded, EarlyInv
  <2>2. phase'[t] = IF models[t] = {} \/ req[t].model \in models[t] THEN "embed" ELSE "refused"
    BY <1>6 DEF GuardStore, Decide
  <2>3. dense'[t] = {}
    BY <1>6, <2>1 DEF GuardStore
  <2>4. QED
    BY <1>2, <2>1, <2>2, <2>3, ReadDecides DEF Guarded
<1>7. CASE EmbedQuery(t)
  BY <1>2, <1>7 DEF EmbedQuery, EarlyInv, Guarded
<1>8. CASE SearchVector(t)
  BY <1>2, <1>8 DEF SearchVector, Guarded
<1>9. CASE SearchBm25(t)
  BY <1>2, <1>9 DEF SearchBm25, Guarded
<1>10. CASE AttachParent(t) \/ Rerank(t) \/ Cite(t) \/ Answer(t) \/ Fail(t)
  BY <1>2, <1>10 DEF AttachParent, Rerank, Cite, Answer, Fail, Guarded
<1>11. QED
  BY <1>3, <1>4, <1>5, <1>6, <1>7, <1>8, <1>9, <1>10 DEF QueryStep

LEMMA GuardNext ==
  QTypeOK /\ IndexInv /\ IdleInv /\ SeenInv /\ EarlyInv /\ GuardInv /\ [QNext]_vars => GuardInv'
<1> SUFFICES ASSUME QTypeOK, IndexInv, IdleInv, SeenInv, EarlyInv, GuardInv, [QNext]_vars,
                    NEW u \in Query, phase'[u] # "idle", req'[u].own
             PROVE  Guarded(u)'
  BY DEF GuardInv
<1>1. ASSUME phase'[u] = phase[u], req'[u] = req[u], models'[u] = models[u], dense'[u] = dense[u],
             first'[u] = first[u]
      PROVE  Guarded(u)'
  BY <1>1, GuardStays DEF GuardInv, Guarded
<1>2. CASE UNCHANGED <<index, locals>>
  BY <1>1, <1>2 DEF locals
<1>3. ASSUME NEW t \in Query, NEW r \in Request, Begin(t, r) PROVE Guarded(u)'
  <2>1. CASE u # t
    BY <1>1, <1>3, <2>1, OthersStay
  <2>2. CASE u = t
    BY <1>3, <2>2 DEF Begin, Goto, IdleInv, Guarded, QTypeOK
  <2>3. QED
    BY <2>1, <2>2
<1>4. ASSUME NEW t \in Query, QueryStep(t) PROVE Guarded(u)'
  <2>1. CASE u # t
    BY <1>1, <1>4, <2>1, OthersStay
  <2>2. CASE u = t
    <3>1. req[u].own /\ phase[u] # "idle"
      BY <1>4, <2>2, StepFrame, StepIsAtWork
    <3>2. QED
      BY <1>4, <2>2, <3>1, GuardStep DEF GuardInv
  <2>3. QED
    BY <2>1, <2>2
<1>5. ASSUME NEW d \in Doc, CommitUpsert(d) PROVE Guarded(u)'
  BY <1>1, <1>5 DEF CommitUpsert
<1>6. ASSUME NEW T, Forget(T) PROVE Guarded(u)'
  BY <1>1, <1>6, ForgetFrame
<1>7. QED
  BY <1>2, <1>3, <1>4, <1>5, <1>6, StepKinds

----------------------------------------------------------------------------
(* Theorems.                                                               *)

LEMMA InitInvariant == QInit => IInv
<1> SUFFICES ASSUME QInit PROVE IInv
  OBVIOUS
<1>1. QTypeOK /\ ChunkInv
  BY TypeInit
<1>2. IndexInv /\ Indexed = {}
  BY QueryAssumption DEF QInit, AtomicInit, IndexInv, Indexed
<1>3. IdleInv /\ SeenInv /\ RowsInv /\ EarlyInv /\ GuardInv
  BY DEF QInit, IdleInv, SeenInv, RowsInv, EarlyInv, GuardInv
<1>4. QED
  BY <1>1, <1>2, <1>3 DEF IInv

LEMMA NextInvariant == IInv /\ [QNext]_vars => IInv'
  BY TypeNext, IndexNext, IdleNext, SeenNext, RowsNext, EarlyNext, GuardNext DEF IInv

\* The inductive invariant: what the guard decided, and what a query found, stays
\* true of the documents it saw whatever is written meanwhile.
THEOREM Invariant == QSpec => []IInv
<1>1. QED
  BY InitInvariant, NextInvariant, PTL DEF QSpec

\* Every variable of the store, the caches and the queries has its type.
THEOREM TypeCorrect == QSpec => []QTypeOK
<1>1. IInv => QTypeOK
  BY DEF IInv
<1>2. QED
  BY <1>1, Invariant, PTL

\* An answer during which nothing was written is of one version of each file, of the
\* collection that was asked, and every hit has its parent and its path
\* (retrieve_with_parents, assemble_context).
THEOREM QuietAnswersAreWhole == QSpec => []QuietAnswersWhole
<1>1. IInv => QuietAnswersWhole
  <2> SUFFICES ASSUME IInv, NEW t \in Query, Quiet(t)
               PROVE  /\ OneVersion(hits[t])
                      /\ \A h \in hits[t] : h.parent # "lost" /\ CollOf[h.doc] = req[t].coll
                      /\ \A c \in cites[t] : c.path = PathOf[c.doc]
    BY DEF QuietAnswersWhole
  <2>1. Indexed = seen[t]
    BY DEF IInv, SeenInv, Quiet
  <2>2. \A h \in hits[t] : h.doc \in Indexed /\ h.parent # "lost" /\ CollOf[h.doc] = req[t].coll
    BY <2>1 DEF IInv, RowsInv, HitFits
  <2>3. \A c \in cites[t] : c.path = PathOf[c.doc]
    BY <2>1 DEF IInv, RowsInv, CitationFits
  <2>4. OneVersion(hits[t])
    BY <2>2 DEF OneVersion, Indexed
  <2>5. QED
    BY <2>2, <2>3, <2>4
<1>2. QED
  BY <1>1, Invariant, PTL

\* Whatever is written while a query runs, an answer lacks a parent or a path, or mixes
\* versions of a file, only for documents that were served meanwhile and were replaced.
THEOREM StaleMeansReplaced == QSpec => []StaleOnlyIfReplaced
<1>1. IInv => StaleOnlyIfReplaced
  BY DEF IInv, RowsInv, HitFits, CitationFits, StaleOnlyIfReplaced, Indexed
<1>2. QED
  BY <1>1, Invariant, PTL

\* The model guard of a query with a store of its own (_assert_query_model_matches) lets
\* no collection of one model be ranked by vectors of another, and refuses no query
\* that a document served throughout would justify.
THEOREM GuardIsExact == QSpec => []RefusesExactly
<1>1. IInv => MismatchRefused
  <2> SUFFICES ASSUME IInv, NEW t \in Query, phase[t] # "idle", req[t].own, Settled(req[t].coll),
                      AlwaysSigned(t), NEW r \in dense[t]
               PROVE  ModelOf[r[1]] = req[t].model
    BY DEF MismatchRefused, ComparesWithin
  <2>1. Matches(t)
    BY DEF IInv, GuardInv, Guarded
  <2>2. r[1] \in Doc /\ CollOf[r[1]] = req[t].coll
    BY DEF IInv, QTypeOK, RowsInv, RowFits, Row
  <2>3. QED
    BY <2>1, <2>2 DEF Matches
<1>2. ASSUME IInv, NEW t \in Query, phase[t] = "refused", req[t].own PROVE ~ Unrefusable(t)
  BY <1>2 DEF IInv, GuardInv, Guarded
<1>3. IInv => RefusesExactly
  BY <1>1, <1>2 DEF RefusesExactly, RefusedRightly
<1>4. QED
  BY <1>3, Invariant, PTL
=============================================================================
