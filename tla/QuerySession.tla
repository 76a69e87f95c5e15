--------------------------- MODULE QuerySession ---------------------------
(***************************************************************************)
(* One query from the model guard to the citations: retrieve_with_parents  *)
(* of retrieval/context.py and assemble_context of retrieval/packer.py, as *)
(* POST /v1/context and `crag context` run them, one store call per step,  *)
(* while documents are being indexed.                                      *)
(*                                                                         *)
(* Each store call reads whole documents (IndexStore: ReadersSeeWhole,     *)
(* ChannelsAgree), and an upsert replaces a document in one step           *)
(* (ImplementsAtomicIndex), so the index here is the one of AtomicIndex.   *)
(* The signature cache is the server store's; `crag context` opens a store *)
(* of its own for its one query.                                           *)
(*                                                                         *)
(* Scores are left out: which rows match and which are best is chosen.     *)
(***************************************************************************)
EXTENDS AtomicIndex, Naturals, FiniteSetsExt

CONSTANTS
    Query,          \* threads that run queries
    Online,         \* documents indexed through the server; others by `crag index`
    Coll, Model, Chunk,
    CollOf, ModelOf,
    ParentOf,       \* ParentOf[d]: child of d -> its parent_chunk_id, or NoParent
    NoParent, NoPath,
    DimOf,          \* DimOf[m]: the length of the vectors of model m
    Request,        \* what is asked, and whether by `crag context`, which has a
                    \* process and a store of its own, or of the server
    TopK, CandidateK, RerankN

ASSUME QueryAssumption ==
    /\ Online \subseteq Doc /\ NoDoc \notin Doc
    /\ PathOf \in [Doc -> Path] /\ NoPath \notin Path \cup Model
    /\ CollOf \in [Doc -> Coll]
    /\ ModelOf \in [Doc -> Model]
    /\ \A d \in Doc : /\ DOMAIN ParentOf[d] \subseteq Chunk
                      /\ ParentOf[d] \in [DOMAIN ParentOf[d] -> Chunk \cup {NoParent}]
    /\ Request \subseteq [mode : {"vector", "bm25", "hybrid"}, coll : Coll,
                          model : Model, rerank : BOOLEAN, own : BOOLEAN]
    /\ TopK \in Nat \ {0} /\ CandidateK \in Nat \ {0} /\ RerankN \in Nat \ {0}

\* A missing key of _signature_cache; no set of models holds it.
NotCached == {NoPath}

VARIABLES
    cache,      \* the server store's _signature_cache: models by collection
    phase, req,
    models,     \* embedding_signatures: rows, between the SELECT and the cache
    dense,      \* dense_hits
    hits,       \* the hits of the result
    cites,      \* the citations of the packed context
    first, seen \* documents served when the query began; and at some time since

locals == <<phase, req, models, dense, hits, cites, first, seen>>
vars == <<index, status, cache, locals>>

NoRequest == [mode |-> "none"]
Ended == {"answered", "refused", "failed"}
Phase == {"idle", "guard", "read", "store", "embed", "dense", "lexical", "attach", "pack"}
         \cup Ended

Row == Doc \X Chunk
Hit == [doc : Doc, chunk : Chunk, parent : {"none", "unread", "found", "lost"}]
Citation == [doc : Doc, key : Chunk, path : Path \cup {NoPath}]

QTypeOK ==
    /\ AtomicTypeOK
    /\ cache \in [Coll -> (SUBSET Model) \cup {NotCached}]
    /\ phase \in [Query -> Phase]
    /\ req \in [Query -> Request \cup {NoRequest}]
    /\ \A t \in Query : phase[t] # "idle" => req[t] \in Request
    /\ models \in [Query -> SUBSET Model]
    /\ dense \in [Query -> SUBSET Row]
    /\ hits \in [Query -> SUBSET Hit]
    /\ cites \in [Query -> SUBSET Citation]
    /\ first \in [Query -> SUBSET Doc]
    /\ seen \in [Query -> SUBSET Doc]

QInit ==
    /\ AtomicInit
    /\ cache = [q \in Coll |-> NotCached]
    /\ phase = [t \in Query |-> "idle"]
    /\ req = [t \in Query |-> NoRequest]
    /\ models = [t \in Query |-> {}]
    /\ dense = [t \in Query |-> {}]
    /\ hits = [t \in Query |-> {}]
    /\ cites = [t \in Query |-> {}]
    /\ first = [t \in Query |-> {}]
    /\ seen = [t \in Query |-> {}]

----------------------------------------------------------------------------
(* What the store answers.                                                 *)

Indexed == {d \in Doc : index[PathOf[d]] = d}
InColl(q) == {d \in Indexed : CollOf[d] = q}

\* A file without text is stored without chunks, and then has no vectors.
HasVectors(d) == DOMAIN ParentOf[d] # {}

Signatures(q) == {ModelOf[d] : d \in {x \in InColl(q) : HasVectors(x)}}

\* Mutant of Rows: the join with documents has lost its collection.
RowsOfAll(q) == UNION {{d} \X DOMAIN ParentOf[d] : d \in Indexed}

\* The children of the documents of a collection, in both channels.
Rows(q) == UNION {{d} \X DOMAIN ParentOf[d] : d \in InColl(q)}

\* cosine_similarity raises on vectors of another length, and the row is skipped.
Comparable(q, m) == {r \in Rows(q) : DimOf[ModelOf[r[1]]] = DimOf[m]}

\* The first k of S under some ranking.
Best(k, S) == kSubset(IF Cardinality(S) < k THEN Cardinality(S) ELSE k, S)

----------------------------------------------------------------------------
(* The depths of retrieve_with_parents.                                    *)

RerankTopN == IF RerankN < TopK THEN TopK ELSE RerankN
PoolK(r) == IF r.rerank THEN RerankTopN ELSE TopK
ChannelK(r) ==
    IF r.mode # "hybrid" THEN PoolK(r)
    ELSE IF r.rerank /\ CandidateK < RerankTopN THEN RerankTopN ELSE CandidateK

\* A row as a hit whose parent is still to be read, if it has one.
AsHit(r) == [doc |-> r[1], chunk |-> r[2],
             parent |-> IF ParentOf[r[1]][r[2]] = NoParent THEN "none" ELSE "unread"]
AsHits(S) == {AsHit(r) : r \in S}

----------------------------------------------------------------------------
(* The query.                                                              *)

Goto(t, p) == phase' = [phase EXCEPT ![t] = p]

Begin(t, r) ==
    /\ phase[t] = "idle"
    /\ Goto(t, IF r.mode = "bm25" THEN "lexical" ELSE "guard")
    /\ req' = [req EXCEPT ![t] = r]
    /\ first' = [first EXCEPT ![t] = Indexed]
    /\ seen' = [seen EXCEPT ![t] = Indexed]
    /\ UNCHANGED <<index, status, cache, models, dense, hits, cites>>

\* Mutant of Cached: every store shares one signature cache.
CachedForAll(t) == cache[req[t].coll]

Cached(t) == IF req[t].own THEN NotCached ELSE cache[req[t].coll]

\* Mutant of Decide: vectors of the right length will do.
DecideOnDimensions(t, S) ==
    Goto(t, IF S = {} \/ DimOf[req[t].model] \in {DimOf[m] : m \in S} THEN "embed" ELSE "refused")

\* _assert_query_model_matches: an empty collection and any match will do.
Decide(t, S) == Goto(t, IF S = {} \/ req[t].model \in S THEN "embed" ELSE "refused")

GuardHit(t) ==
    /\ phase[t] = "guard"
    /\ Cached(t) # NotCached
    /\ Decide(t, Cached(t))
    /\ UNCHANGED <<index, status, cache, req, models, dense, hits, cites, first, seen>>

GuardMiss(t) ==
    /\ phase[t] = "guard"
    /\ Cached(t) = NotCached
    /\ Goto(t, "read")
    /\ UNCHANGED <<index, status, cache, req, models, dense, hits, cites, first, seen>>

GuardRead(t) ==
    /\ phase[t] = "read"
    /\ models' = [models EXCEPT ![t] = Signatures(req[t].coll)]
    /\ Goto(t, "store")
    /\ UNCHANGED <<index, status, cache, req, dense, hits, cites, first, seen>>

GuardStore(t) ==
    /\ phase[t] = "store"
    /\ cache' = IF req[t].own THEN cache ELSE [cache EXCEPT ![req[t].coll] = models[t]]
    /\ Decide(t, models[t])
    /\ models' = [models EXCEPT ![t] = {}]
    /\ UNCHANGED <<index, status, req, dense, hits, cites, first, seen>>

\* active_provider.embed_texts([query])
EmbedQuery(t) ==
    /\ phase[t] = "embed"
    /\ Goto(t, "dense")
    /\ UNCHANGED <<index, status, cache, req, models, dense, hits, cites, first, seen>>

SearchVector(t) ==
    /\ phase[t] = "dense"
    /\ \E S \in Best(ChannelK(req[t]), Comparable(req[t].coll, req[t].model)) :
        /\ dense' = [dense EXCEPT ![t] = S]
        /\ IF req[t].mode = "vector"
           THEN Goto(t, "attach") /\ hits' = [hits EXCEPT ![t] = AsHits(S)]
           ELSE Goto(t, "lexical") /\ UNCHANGED hits
    /\ UNCHANGED <<index, status, cache, req, models, cites, first, seen>>

\* search_bm25, then the fusion: without a lexical hit the dense ones stand.
SearchBm25(t) ==
    /\ phase[t] = "lexical"
    /\ \E S \in SUBSET Rows(req[t].coll) :
        /\ Cardinality(S) <= ChannelK(req[t])
        /\ \E F \in IF req[t].mode = "bm25" THEN {S}
                    ELSE IF S = {} THEN Best(RerankTopN, dense[t])
                    ELSE Best(PoolK(req[t]), dense[t] \cup S) :
            hits' = [hits EXCEPT ![t] = AsHits(F)]
    /\ Goto(t, "attach")
    /\ UNCHANGED <<index, status, cache, req, models, dense, cites, first, seen>>

\* get_parent: the parent row went with its document.
AttachParent(t) ==
    /\ phase[t] = "attach"
    /\ \E h \in hits[t] :
        /\ h.parent = "unread"
        /\ hits' = [hits EXCEPT ![t] = (hits[t] \ {h}) \cup
                        {[h EXCEPT !.parent = IF h.doc \in Indexed THEN "found" ELSE "lost"]}]
    /\ UNCHANGED <<index, status, cache, phase, req, models, dense, cites, first, seen>>

\* _maybe_rerank: the best top_k of what was attached.
Rerank(t) ==
    /\ phase[t] = "attach"
    /\ \A h \in hits[t] : h.parent # "unread"
    /\ \E S \in Best(TopK, hits[t]) : hits' = [hits EXCEPT ![t] = S]
    /\ Goto(t, "pack")
    /\ UNCHANGED <<index, status, cache, req, models, dense, cites, first, seen>>

DedupeKey(h) ==
    IF ParentOf[h.doc][h.chunk] = NoParent THEN h.chunk ELSE ParentOf[h.doc][h.chunk]

\* Mutant of Cite: the path is looked up only for a hit with a parent.
CitePathOfParents(t) ==
    /\ phase[t] = "pack"
    /\ \E h \in hits[t] :
        /\ \A c \in cites[t] : <<c.doc, c.key>> # <<h.doc, DedupeKey(h)>>
        /\ cites' = [cites EXCEPT ![t] = cites[t] \cup
                        {[doc |-> h.doc, key |-> DedupeKey(h),
                          path |-> IF h.parent = "found" THEN PathOf[h.doc] ELSE NoPath]}]
    /\ UNCHANGED <<index, status, cache, phase, req, models, dense, hits, first, seen>>

\* assemble_context: a hit that is not a duplicate is cited under the path
\* get_source_path gives for it, or under its doc_id.
Cite(t) ==
    /\ phase[t] = "pack"
    /\ \E h \in hits[t] :
        /\ \A c \in cites[t] : <<c.doc, c.key>> # <<h.doc, DedupeKey(h)>>
        /\ cites' = [cites EXCEPT ![t] = cites[t] \cup
                        {[doc |-> h.doc, key |-> DedupeKey(h),
                          path |-> IF h.doc \in Indexed THEN PathOf[h.doc] ELSE NoPath]}]
    /\ UNCHANGED <<index, status, cache, phase, req, models, dense, hits, first, seen>>

\* The hits are through or the budget is spent.
Answer(t) ==
    /\ phase[t] = "pack"
    /\ Goto(t, "answered")
    /\ UNCHANGED <<index, status, cache, req, models, dense, hits, cites, first, seen>>

\* A provider or a SELECT raises.
Fail(t) ==
    /\ phase[t] \in {"read", "embed", "dense", "lexical", "attach", "pack"}
    /\ Goto(t, "failed")
    /\ UNCHANGED <<index, status, cache, req, models, dense, hits, cites, first, seen>>

\* Mutant of Forget: the request is gone and the thread goes on.
ForgetRequest(T) ==
    /\ req' = [t \in Query |-> IF t \in T THEN NoRequest ELSE req[t]]
    /\ UNCHANGED <<phase, models, dense, hits, cites, first, seen>>

\* The calls of the threads T end with their frames.
Forget(T) ==
    /\ phase' = [t \in Query |-> IF t \in T THEN "idle" ELSE phase[t]]
    /\ req' = [t \in Query |-> IF t \in T THEN NoRequest ELSE req[t]]
    /\ models' = [t \in Query |-> IF t \in T THEN {} ELSE models[t]]
    /\ dense' = [t \in Query |-> IF t \in T THEN {} ELSE dense[t]]
    /\ hits' = [t \in Query |-> IF t \in T THEN {} ELSE hits[t]]
    /\ cites' = [t \in Query |-> IF t \in T THEN {} ELSE cites[t]]
    /\ first' = [t \in Query |-> IF t \in T THEN {} ELSE first[t]]
    /\ seen' = [t \in Query |-> IF t \in T THEN {} ELSE seen[t]]

\* The response is sent.
Respond(t) ==
    /\ phase[t] \in Ended
    /\ Forget({t})
    /\ UNCHANGED <<index, status, cache>>

----------------------------------------------------------------------------
(* The writers.                                                            *)

\* upsert drops the cached signatures of the store it is called on.
BeginUpsert(d) ==
    /\ Call(d)
    /\ cache' = IF d \in Online THEN [cache EXCEPT ![CollOf[d]] = NotCached] ELSE cache
    /\ UNCHANGED locals

CommitUpsert(d) ==
    /\ Publish(d)
    /\ seen' = [t \in Query |-> IF phase[t] = "idle" THEN {} ELSE seen[t] \cup {d}]
    /\ UNCHANGED <<cache, phase, req, models, dense, hits, cites, first>>

EndUpsert(d) ==
    /\ Return(d) \/ Raise(d)
    /\ UNCHANGED <<cache, locals>>

InProgress(D) == {d \in D : status[d] \in {"running", "written"}}

\* The server dies with its upserts, its queries and its cache.
ServerDies ==
    /\ Die(InProgress(Online))
    /\ cache' = [q \in Coll |-> NotCached]
    /\ Forget({t \in Query : phase[t] # "idle" /\ ~ req[t].own})

IndexerDies ==
    /\ Die(InProgress(Doc \ Online))
    /\ UNCHANGED <<cache, locals>>

QueryStep(t) ==
    \/ GuardHit(t) \/ GuardMiss(t) \/ GuardRead(t) \/ GuardStore(t)
    \/ EmbedQuery(t) \/ SearchVector(t) \/ SearchBm25(t)
    \/ AttachParent(t) \/ Rerank(t) \/ Cite(t) \/ Answer(t) \/ Fail(t)

QNext ==
    \/ \E t \in Query :
        \/ \E r \in Request : Begin(t, r)
        \/ QueryStep(t)
        \/ Respond(t)
    \/ \E d \in Doc : BeginUpsert(d) \/ CommitUpsert(d) \/ EndUpsert(d)
    \/ ServerDies
    \/ IndexerDies

QSpec == QInit /\ [][QNext]_vars

----------------------------------------------------------------------------
(* Properties.                                                             *)

\* Nothing was written since the query of t began.
Quiet(t) == phase[t] # "idle" /\ seen[t] = first[t]

OneVersion(H) == \A g, h \in H : PathOf[g.doc] = PathOf[h.doc] => g.doc = h.doc

\* If no document was written while it ran, an answer is all of a piece: one
\* version of each file, every parent there, every citation with its path,
\* and nothing from another collection.
QuietAnswersWhole ==
    \A t \in Query : Quiet(t) /\ phase[t] = "answered" =>
        /\ OneVersion(hits[t])
        /\ \A h \in hits[t] : h.parent # "lost" /\ CollOf[h.doc] = req[t].coll
        /\ \A c \in cites[t] : c.path = PathOf[c.doc]

\* Whatever is written meanwhile, an answer lacks a parent or a path, or mixes
\* two versions of a file, only for documents that were served while the query
\* ran and have been replaced by now.
StaleOnlyIfReplaced ==
    \A t \in Query :
        /\ \A h \in hits[t] : h.doc \in seen[t] /\ (h.parent = "lost" => h.doc \notin Indexed)
        /\ \A c \in cites[t] : c.path = NoPath => c.doc \notin Indexed
        /\ \A g, h \in hits[t] : PathOf[g.doc] = PathOf[h.doc] /\ g.doc # h.doc =>
                ~ {g.doc, h.doc} \subseteq Indexed

\* A collection of one model, whose files stay in it.
Settled(q) ==
    /\ \A d, e \in Doc : CollOf[d] = q /\ CollOf[e] = q => ModelOf[d] = ModelOf[e]
    /\ \A d, e \in Doc : PathOf[d] = PathOf[e] /\ CollOf[d] = q => CollOf[e] = q

ComparesWithin(t) == \A r \in dense[t] : ModelOf[r[1]] = req[t].model

\* The collection has a file that was served when the query of t began, and of
\* which no version is without vectors.
AlwaysSigned(t) ==
    \E d \in first[t] :
        /\ CollOf[d] = req[t].coll
        /\ \A e \in Doc : PathOf[e] = PathOf[d] => HasVectors(e)

\* `crag query` never ranks a collection of one model by vectors of another, if
\* the collection had vectors from the beginning.
MismatchRefused ==
    \A t \in Query :
        phase[t] # "idle" /\ req[t].own /\ Settled(req[t].coll) /\ AlwaysSigned(t) => ComparesWithin(t)

\* A query of `crag query` is refused only if no document with vectors of its model was
\* in the collection from beginning to end.
Unrefusable(t) ==
    \E d \in first[t] \cap Indexed : CollOf[d] = req[t].coll /\ ModelOf[d] = req[t].model /\ HasVectors(d)
RefusedRightly ==
    \A t \in Query : phase[t] = "refused" /\ req[t].own => ~ Unrefusable(t)

\* What docs/architecture.md says of the guard, for every query during which
\* nothing was written.
ModelsComparable ==
    \A t \in Query : Quiet(t) /\ Settled(req[t].coll) => ComparesWithin(t)

\* The guard refuses what it must, and nothing that it need not.
RefusesExactly == MismatchRefused /\ RefusedRightly
=============================================================================
