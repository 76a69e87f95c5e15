------------------------------ MODULE Embedder ------------------------------
(***************************************************************************)
(* ingestion/embedders: embed_document, the cache of vectors its callers   *)
(* may share between documents, and the in-memory dedup state.             *)
(*                                                                         *)
(* All lookups of a document come before its first call of the provider;   *)
(* then the chunks without a vector are sent in batches.  A batch may fail *)
(* half-way: zip(strict=True) stores the i-th vector that came under the   *)
(* i-th text before it notices that there are too few, or too many.  A     *)
(* step is one lookup, one call of the provider, or one vector stored.     *)
(***************************************************************************)
EXTENDS Naturals, FiniteSets, Sequences, SequencesExt

CONSTANTS
    Doc,            \* [path, version, chunks], chunks a sequence of [id, text]
    Provider,       \* [name, model]
    BatchSize,
    Limits,         \* the values of max_entries to look at
    Default,        \* max_entries of the cache that a call makes for itself
    NoHash,
    MaxCalls        \* the bound on the calls of embed_document

Chunk == UNION {ToSet(d.chunks) : d \in Doc}

\* A hash tells the texts of a file.
ASSUME EmbedderAssumption ==
    /\ BatchSize \in Nat \ {0} /\ Limits \subseteq Nat /\ Default \in Nat /\ MaxCalls \in Nat
    /\ Doc # {} /\ Provider # {}
    /\ \A d \in Doc : d.version # NoHash /\ d.chunks \in Seq(Chunk)
    /\ \A d, e \in Doc : d.path = e.path /\ d.version = e.version =>
           {c.text : c \in ToSet(d.chunks)} = {c.text : c \in ToSet(e.chunks)}

Pathname == {d.path : d \in Doc}

VARIABLES
    limit, shared, tracked,  \* max_entries; is a cache, a dedup state given?
    cache,     \* EmbeddingCache._entries, oldest first: [key, vector]
    hashes,    \* InMemoryDedupState._hashes
    pc, doc, provider,
    at,        \* the chunk to look up
    vectors,   \* vectors_by_chunk_id
    pending,   \* the chunks to send
    batch,     \* those that were sent and whose vectors are still to store
    embeddings,    \* the vectors that came for them
    out,       \* what the last call returned
    calls,
    recency,   \* what a cache without limit would hold
    paid       \* what was stored: [call, by, text, vector, whole], whole if the
               \* provider had returned as many vectors as it was sent texts

config == <<limit, shared, tracked>>
work == <<doc, provider, at>>
evars == <<config, cache, hashes, pc, work, vectors, pending, batch, embeddings, out, calls, recency, paid>>

Key(text, p) == <<text, p.model>>
\* The vector that p computes for text.
VectorOf(text, p) == [text |-> text, by |-> p]

\* What p may return for a batch: its vectors in order or, when their number is not that
\* of the texts, any of them anywhere.  (None also stands for a call that raises.)
Answers(b, p) ==
    LET own == {VectorOf(c.text, p) : c \in ToSet(b)}
    IN  {[i \in DOMAIN b |-> VectorOf(b[i].text, p)]}
        \cup UNION {[1..n -> own] : n \in (0..(Len(b) + 1)) \ {Len(b)}}

EInit ==
    /\ \/ shared = TRUE /\ limit \in Limits
       \/ shared = FALSE /\ limit = Default
    /\ tracked \in BOOLEAN
    /\ cache = <<>> /\ hashes = [p \in Pathname |-> NoHash]
    /\ pc = "idle" /\ doc \in Doc /\ provider \in Provider
    /\ at = 1 /\ vectors = <<>> /\ pending = <<>> /\ batch = <<>> /\ embeddings = <<>>
    /\ out = [kind |-> "none"]
    /\ calls = 0 /\ recency = <<>> /\ paid = {}

----------------------------------------------------------------------------
(* EmbeddingCache.                                                         *)

Holds(c, key) == \E i \in DOMAIN c : c[i].key = key
Place(c, key) == CHOOSE i \in DOMAIN c : c[i].key = key
Vector(c, key) == c[Place(c, key)].vector
Without(c, key) == IF Holds(c, key) THEN RemoveAt(c, Place(c, key)) ELSE c

\* The entry is there and is the newest.
Newest(c, key, vector) == Append(Without(c, key), [key |-> key, vector |-> vector])

\* (A get that leaves the order alone.)
TouchedNot(c, key) == c
\* get of a key that is there: move_to_end.
Touched(c, key) == Newest(c, key, Vector(c, key))

\* (A cache without a limit.)
EvictedNever(c) == c
Evicted(c) == IF Len(c) > limit THEN Tail(c) ELSE c

\* set: the entry goes to the end, and the oldest goes if that was one too many.
Stored(c, key, vector) == Evicted(Newest(c, key, vector))

----------------------------------------------------------------------------
(* embed_document.                                                         *)

Unchanged(d) == tracked /\ hashes[d.path] = d.version

\* What a call works with: the caller's cache, or one of its own.
Given(c) == IF shared THEN c ELSE <<>>

Begin(d, p) ==
    /\ pc = "idle" /\ calls < MaxCalls /\ calls' = calls + 1
    /\ doc' = d /\ provider' = p
    /\ at' = 1 /\ vectors' = <<>>
    /\ \/ Unchanged(d) /\ out' = [kind |-> "skipped"] /\ UNCHANGED <<cache, recency, pc>>
       \/ /\ ~Unchanged(d) /\ out' = [kind |-> "none"] /\ pc' = "lookup"
          /\ cache' = Given(cache) /\ recency' = Given(recency)
    /\ UNCHANGED <<config, hashes, pending, batch, embeddings, paid>>

\* vectors_by_chunk_id[c.id] = vector.
WithVector(c, vector) == [id \in DOMAIN vectors \cup {c.id} |-> IF id = c.id THEN vector ELSE vectors[id]]

\* _embed_child_chunks asks the cache for every chunk before it sends any.
LookUp ==
    /\ pc = "lookup" /\ at <= Len(doc.chunks) /\ at' = at + 1
    /\ LET c == doc.chunks[at]
           key == Key(c.text, provider)
       IN  \/ /\ Holds(cache, key)
              /\ cache' = Touched(cache, key) /\ recency' = Newest(recency, key, Vector(cache, key))
              /\ vectors' = WithVector(c, Vector(cache, key)) /\ UNCHANGED pending
           \/ /\ ~Holds(cache, key)
              /\ pending' = Append(pending, c) /\ UNCHANGED <<cache, recency, vectors>>
    /\ UNCHANGED <<config, hashes, pc, doc, provider, batch, embeddings, out, calls, paid>>

\* (zip without strict: that there are too many vectors goes unnoticed.)
ZipNotStrict ==
    \/ pc = "lookup" /\ at > Len(doc.chunks)
    \/ pc = "store" /\ batch = <<>>

\* The loop over the lookups is done, or the one over a batch is.
BatchDone ==
    \/ pc = "lookup" /\ at > Len(doc.chunks)
    \/ pc = "store" /\ batch = <<>> /\ embeddings = <<>>

\* The next batch, with what the provider returns for it.
NextBatch ==
    /\ BatchDone /\ pending # <<>> /\ pc' = "store"
    /\ LET n == IF Len(pending) < BatchSize THEN Len(pending) ELSE BatchSize
       IN  batch' = SubSeq(pending, 1, n) /\ pending' = SubSeq(pending, n + 1, Len(pending))
    /\ embeddings' \in Answers(batch', provider)
    /\ UNCHANGED <<config, cache, hashes, work, vectors, out, calls, recency, paid>>

Whole == Len(embeddings) = Len(batch)
Paying(c, vector) ==
    [call |-> calls, by |-> provider, text |-> c.text, vector |-> vector, whole |-> Whole]

Store(c, vector) ==
    LET key == Key(c.text, provider)
    IN  /\ cache' = Stored(cache, key, vector) /\ recency' = Newest(recency, key, vector)
        /\ vectors' = WithVector(c, vector)
        /\ paid' = paid \cup {Paying(c, vector)}

\* (The cache is not told.)
StoreVectorUncached ==
    /\ pc = "store" /\ batch # <<>> /\ embeddings # <<>>
    /\ vectors' = WithVector(Head(batch), Head(embeddings))
    /\ paid' = paid \cup {Paying(Head(batch), Head(embeddings))}
    /\ batch' = Tail(batch) /\ embeddings' = Tail(embeddings)
    /\ UNCHANGED <<config, cache, recency, hashes, pc, work, pending, out, calls>>

StoreVector ==
    /\ pc = "store" /\ batch # <<>> /\ embeddings # <<>>
    /\ Store(Head(batch), Head(embeddings))
    /\ batch' = Tail(batch) /\ embeddings' = Tail(embeddings)
    /\ UNCHANGED <<config, hashes, pc, work, pending, out, calls>>

Mark == IF tracked THEN [hashes EXCEPT ![doc.path] = doc.version] ELSE hashes

\* (The document counts as embedded whatever becomes of its batches.)
BatchFailsMarked ==
    /\ pc = "store" /\ (batch = <<>>) # (embeddings = <<>>)
    /\ pc' = "idle" /\ out' = [kind |-> "failed"] /\ hashes' = Mark
    /\ pending' = <<>> /\ batch' = <<>> /\ embeddings' = <<>>
    /\ UNCHANGED <<config, cache, work, vectors, calls, recency, paid>>



\* zip(strict=True) has come to the end of the one and not of the other: the provider
\* returned too few vectors, which may be none because it raised, or too many.
BatchFails ==
    /\ pc = "store" /\ (batch = <<>>) # (embeddings = <<>>)
    /\ pc' = "idle" /\ out' = [kind |-> "failed"]
    /\ pending' = <<>> /\ batch' = <<>> /\ embeddings' = <<>>
    /\ UNCHANGED <<config, cache, hashes, work, vectors, calls, recency, paid>>

AllStored == BatchDone /\ pending = <<>>

\* (The vectors are read back from the cache.)
FinishFromCache ==
    /\ AllStored
    /\ pc' = "idle" /\ hashes' = Mark
    /\ out' = [kind |-> "embedded",
               vectors |-> [i \in DOMAIN doc.chunks |->
                   LET key == Key(doc.chunks[i].text, provider)
                   IN  IF Holds(cache, key) THEN Vector(cache, key) ELSE VectorOf(doc.chunks[1].text, provider)]]
    /\ UNCHANGED <<config, cache, work, vectors, pending, batch, embeddings, calls, recency, paid>>

Finish ==
    /\ AllStored
    /\ pc' = "idle" /\ hashes' = Mark
    /\ out' = [kind |-> "embedded", vectors |-> [i \in DOMAIN doc.chunks |-> vectors[doc.chunks[i].id]]]
    /\ UNCHANGED <<config, cache, work, vectors, pending, batch, embeddings, calls, recency, paid>>

ENext ==
    \/ \E d \in Doc, p \in Provider : Begin(d, p)
    \/ LookUp \/ NextBatch \/ StoreVector \/ BatchFails \/ Finish

ESpec == EInit /\ [][ENext]_evars

----------------------------------------------------------------------------
(* Properties.                                                             *)

Vectors == {VectorOf(c.text, p) : c \in Chunk, p \in Provider}
Entry == [key : {Key(c.text, p) : c \in Chunk, p \in Provider}, vector : Vectors]

ETypeOK ==
    /\ limit \in Limits \cup {Default} /\ shared \in BOOLEAN /\ tracked \in BOOLEAN
    /\ cache \in Seq(Entry) /\ recency \in Seq(Entry) /\ Len(cache) <= limit
    /\ hashes \in [Pathname -> {d.version : d \in Doc} \cup {NoHash}]
    /\ pc \in {"idle", "lookup", "store"} /\ doc \in Doc /\ provider \in Provider
    /\ at \in 1..(Len(doc.chunks) + 1)
    /\ pending \in Seq(ToSet(doc.chunks)) /\ batch \in Seq(ToSet(doc.chunks)) /\ Len(batch) <= BatchSize
    /\ embeddings \in Seq(Vectors) /\ calls \in 0..MaxCalls
    /\ paid \subseteq [call : 1..calls, by : Provider, text : {c.text : c \in Chunk},
                       vector : Vectors, whole : BOOLEAN]

\* The cache holds what was used last, as much as max_entries allows, in the order of
\* its last use: a limit changes how much is kept, never what is kept first.
KeepsMostRecent ==
    LET n == IF Len(recency) < limit THEN Len(recency) ELSE limit
    IN  cache = SubSeq(recency, Len(recency) - n + 1, Len(recency))

\* What a shared cache may have for c from an earlier call: the vector that a provider of
\* the same model computed for its text or, if that provider had returned too few vectors
\* or too many, any vector that came in that place.
FoundFor(c, v) ==
    \E r \in paid :
        /\ r.call < calls /\ r.text = c.text /\ r.by.model = provider.model /\ r.vector = v
        /\ v # VectorOf(c.text, r.by) => ~r.whole

\* Every chunk gets a vector of its own text, also when the cache is too small for one
\* document, and unless its provider has just computed it, the caller's cache had it from
\* an earlier call.  A call that comes to its end has stored no vector out of place: one
\* that is in a wrong place is of an earlier call, whose provider returned too few vectors
\* or too many and which failed.  (Only chunks of one id share a vector.)
OwnVectors ==
    pc = "idle" /\ out.kind = "embedded" =>
        \A i \in DOMAIN doc.chunks :
            \E c \in ToSet(doc.chunks) :
                /\ c.id = doc.chunks[i].id
                /\ \/ out.vectors[i] = VectorOf(c.text, provider)
                   \/ shared /\ FoundFor(c, out.vectors[i])

\* While everything fits into the shared cache, no text is paid for by two calls: what
\* came before a failure is there when the document is tried again.
PaidOnce ==
    shared /\ Len(recency) <= limit =>
        \A r, q \in paid : r.text = q.text /\ r.by.model = q.by.model => r.call = q.call

\* A document that will be skipped had a vector stored for every text, under some model.
MarkedMeansEmbedded ==
    \A d \in Doc : hashes[d.path] = d.version =>
        \A c \in ToSet(d.chunks) : \E r \in paid : r.text = c.text

\* The cache is the last entries that were used.
CacheSound == ETypeOK /\ KeepsMostRecent

\* A failed document is tried again, and only what is missing is paid for.
RetriesPayTheRest == PaidOnce /\ MarkedMeansEmbedded
=============================================================================
