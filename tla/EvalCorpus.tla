----------------------------- MODULE EvalCorpus -----------------------------
(***************************************************************************)
(* prepare_scifact of eval/datasets.py: the benchmark's documents, queries *)
(* and manifest in a cache directory, written a file at a time by a        *)
(* process that may die at any of them, and taken as they are by a later   *)
(* run whose fingerprint the manifest carries.                             *)
(*                                                                         *)
(* A file written is whole, or torn if the process died writing it.  A     *)
(* torn sidecar reads as none (runner.py:165).                             *)
(***************************************************************************)
EXTENDS Naturals, FiniteSets, Sequences, SequencesExt, FiniteSetsExt

CONSTANTS
    Docs,         \* the dataset's documents in its order, each a number
    Blank,        \* those without text
    Queries,      \* its queries, in its order
    Judged,       \* the documents judged relevant for each query
    Requests,     \* what eval is called with
    Unlimited,    \* no max_docs, no max_queries
    MaxRuns,      \* the bound on how often eval is called
    DefaultDir,   \* no cache_dir
    Given,        \* directories nobody prepares: the fixtures
    Absent, Torn, Whole  \* the state of a file

Doc == Range(Docs)

Query == Range(Queries)

\* An id occurs once in a dataset.
ASSUME DatasetAssumption ==
    /\ Docs \in Seq(Nat) /\ IsInjective(Docs) /\ Blank \subseteq Doc
    /\ Queries \in Seq(Query) /\ IsInjective(Queries)
    /\ Judged \in [Query -> SUBSET Doc]

VARIABLES
    disk,     \* what each cache directory holds
    pc, request, todo,
    runs,     \* how often eval was called
    prepared, \* the corpus the run was given
    cut       \* directories left half cleared or half written under a manifest

Fingerprint(r) == [max_docs |-> r.max_docs, max_queries |-> r.max_queries]
Full == [max_docs |-> Unlimited, max_queries |-> Unlimited]

\* The full corpus and every subset have a directory of their own, unless the
\* caller names one.
DirOf(r) == IF r.cache_dir = DefaultDir THEN Fingerprint(r) ELSE r.cache_dir
Dir == {DirOf(r) : r \in Requests} \cup DOMAIN Given

ASSUME FileAssumption == Absent # Torn /\ Absent # Whole /\ Torn # Whole

ASSUME RequestAssumption ==
    /\ Unlimited \notin Nat
    /\ \A r \in Requests : {r.max_docs, r.max_queries} \subseteq Nat \cup {Unlimited} /\ r.force \in BOOLEAN

----------------------------------------------------------------------------
(* Which documents and queries a corpus has.                               *)

Before(s, x, y) == \E i, j \in DOMAIN s : i < j /\ s[i] = x /\ s[j] = y

\* The first n members of S in the order of the sequence s.
FirstOf(n, S, s) == {x \in S : n = Unlimited \/ Cardinality({y \in S : Before(s, y, x)}) < n}

\* The queries someone judged; the loop looks at the limit after it took one.
Chosen(r) ==
    LET limit == IF r.max_queries = Unlimited THEN Unlimited ELSE Max({1, r.max_queries})
    IN  FirstOf(limit, {q \in Query : Judged[q] # {}}, Queries)

Needed(r) == UNION {Judged[q] : q \in Chosen(r)}

\* (The limit on the filler alone.)
FillerUpToLimit(r) == FirstOf(r.max_docs, Doc \ Needed(r), Docs)

Filler(r) ==
    LET budget == IF r.max_docs = Unlimited THEN Unlimited ELSE Max({0, r.max_docs - Cardinality(Needed(r))})
    IN  FirstOf(budget, Doc \ Needed(r), Docs)

Selected(r) == Needed(r) \cup Filler(r)
Written(r) == Selected(r) \ Blank

\* What is needed goes first, by id, and the filler after it, as in the dataset.
WrittenBefore(r, d, e) ==
    \/ d \in Needed(r) /\ (e \in Needed(r) => d < e)
    \/ d \notin Needed(r) /\ e \notin Needed(r) /\ Before(Docs, d, e)

\* Queries none of whose documents was written are dropped.
Qrels(r) == {q \in Chosen(r) : Judged[q] \cap Written(r) # {}}

Manifest(r) ==
    [fingerprint |-> Fingerprint(r), doc_count |-> Cardinality(Written(r)), query_count |-> Cardinality(Qrels(r))]

----------------------------------------------------------------------------
NoFiles == [texts |-> [d \in Doc |-> Absent], sidecars |-> {}, qrels |-> Absent, manifest |-> Absent]
NoCorpus == [doc_count |-> 0, query_count |-> 0]

Here == disk[DirOf(request)]
Put(files) == disk' = [disk EXCEPT ![DirOf(request)] = files]
TxtWithoutTorn(files) == {d \in Doc : files.texts[d] # Torn}
Txt(files) == {d \in Doc : files.texts[d] # Absent}

CorpusInit ==
    /\ disk = [d \in Dir |-> IF d \in DOMAIN Given THEN Given[d] ELSE NoFiles]
    /\ pc = "idle" /\ request \in Requests /\ todo = {}
    /\ prepared = NoCorpus /\ cut = {} /\ runs = 0

\* What a process knew goes with it.
Ended == pc' = "idle" /\ todo' = {} /\ prepared' = NoCorpus /\ request' = request

Called == runs < MaxRuns /\ runs' = runs + 1

Start ==
    /\ pc = "idle" /\ pc' = "check" /\ Called
    /\ request' \in Requests
    /\ UNCHANGED <<disk, todo, prepared, cut>>

LooksPrepared ==
    ~request.force /\ Here.manifest # Absent /\ Here.qrels # Absent /\ Txt(Here) # {}

SameFingerprintUnasked == TRUE
SameFingerprint == Here.manifest.fingerprint = Fingerprint(request)

Reuse ==
    /\ pc = "check" /\ LooksPrepared /\ Here.manifest # Torn /\ SameFingerprint
    /\ pc' = "list"
    /\ prepared' = [doc_count |-> Here.manifest.doc_count, query_count |-> Here.manifest.query_count]
    /\ UNCHANGED <<disk, request, todo, cut, runs>>

\* json.loads of a manifest cut short: every run without force ends here.
ManifestUnreadable ==
    /\ pc = "check" /\ LooksPrepared /\ Here.manifest = Torn
    /\ Ended
    /\ UNCHANGED <<disk, cut, runs>>

Rebuild ==
    /\ pc = "check" /\ (LooksPrepared => Here.manifest # Torn /\ ~SameFingerprint)
    /\ pc' = "clear"
    /\ UNCHANGED <<disk, request, todo, prepared, cut, runs>>

Unlink ==
    /\ pc = "clear"
    /\ \/ \E d \in Txt(Here) : Put([Here EXCEPT !.texts[d] = Absent])
       \/ \E d \in Here.sidecars : Put([Here EXCEPT !.sidecars = @ \ {d}])
    /\ UNCHANGED <<pc, request, todo, prepared, cut, runs>>

ClearedNot ==
    /\ pc = "clear" /\ pc' = "text" /\ todo' = Selected(request)
    /\ UNCHANGED <<disk, request, prepared, cut, runs>>

Cleared ==
    /\ pc = "clear" /\ Txt(Here) = {} /\ Here.sidecars = {}
    /\ pc' = "text" /\ todo' = Selected(request)
    /\ UNCHANGED <<disk, request, prepared, cut, runs>>

IsNext(d) == d \in todo /\ \A e \in todo \ {d} : WrittenBefore(request, d, e)

WriteText ==
    /\ pc = "text"
    /\ \E d \in todo :
           /\ IsNext(d)
           /\ \/ d \in Blank /\ todo' = todo \ {d} /\ UNCHANGED <<disk, pc>>
              \/ d \notin Blank /\ Put([Here EXCEPT !.texts[d] = Whole]) /\ pc' = "sidecar" /\ UNCHANGED todo
    /\ UNCHANGED <<request, prepared, cut, runs>>

WriteSidecar ==
    /\ pc = "sidecar" /\ pc' = "text"
    /\ \E d \in todo :
           /\ IsNext(d)
           /\ todo' = todo \ {d}
           /\ Put([Here EXCEPT !.sidecars = @ \cup {d}])
    /\ UNCHANGED <<request, prepared, cut, runs>>

WriteQrels ==
    /\ pc = "text" /\ todo = {} /\ pc' = "manifest"
    /\ Put([Here EXCEPT !.qrels = Qrels(request)])
    /\ UNCHANGED <<request, todo, prepared, cut, runs>>

WriteManifest ==
    /\ pc = "manifest" /\ pc' = "list"
    /\ Put([Here EXCEPT !.manifest = Manifest(request)])
    /\ prepared' = [doc_count |-> Manifest(request).doc_count, query_count |-> Manifest(request).query_count]
    /\ cut' = cut \ {DirOf(request)}
    /\ UNCHANGED <<request, todo, runs>>

\* The directory if the process dies during the step it is at: as it is, or
\* with the file it was writing torn.
LeftBehind ==
    {Here}
    \cup {[Here EXCEPT !.texts[d] = Torn] : d \in IF pc = "text" THEN {d \in todo \ Blank : IsNext(d)} ELSE {}}
    \cup (IF pc = "text" /\ todo = {} THEN {[Here EXCEPT !.qrels = Torn]} ELSE {})
    \cup (IF pc = "manifest" THEN {[Here EXCEPT !.manifest = Torn]} ELSE {})

Preparing == pc \in {"clear", "text", "sidecar", "manifest"}

\* The process ends: killed, or the dataset failed to load half-way.
Crash ==
    /\ pc # "idle" /\ Ended
    /\ \E files \in LeftBehind :
           /\ Put(files)
           /\ cut' = IF Preparing /\ files.manifest \notin {Absent, Torn} THEN cut \cup {DirOf(request)} ELSE cut
    /\ UNCHANGED runs

Prepare ==
    \/ Reuse \/ ManifestUnreadable \/ Rebuild \/ Unlink \/ Cleared
    \/ WriteText \/ WriteSidecar \/ WriteQrels \/ WriteManifest

----------------------------------------------------------------------------
(* Properties.                                                             *)

Accepted == pc \in {"list", "index", "evaluate"} /\ DirOf(request) \notin DOMAIN Given

\* A run evaluates the corpus it asked for, each document with its sidecar and
\* the queries judged in it, and reports its size: unless an earlier preparation
\* of the directory died after it began to clear it, for then the old manifest
\* vouches for what is left (docs/evaluation.md:75 says a smoke run cannot leave
\* a truncated corpus behind).
AcceptedWhole ==
    Accepted /\ DirOf(request) \notin cut =>
        /\ \A d \in Doc : Here.texts[d] = IF d \in Written(request) THEN Whole ELSE Absent
        /\ Here.sidecars = Written(request)
        /\ Here.qrels = Qrels(request)
        /\ prepared = [doc_count |-> Cardinality(Written(request)), query_count |-> Cardinality(Qrels(request))]

\* A smoke corpus keeps what its queries need: each query of the qrels has a
\* document in the corpus, and a document the queries need is missing only if
\* it has no text, however small max_docs is.
SubsetsStayLabelled ==
    Accepted /\ DirOf(request) \notin cut =>
        /\ \A q \in Here.qrels : Judged[q] \cap Txt(Here) # {}
        /\ Needed(request) \ Txt(Here) \subseteq Blank
        /\ request.max_docs # Unlimited =>
               Cardinality(Txt(Here)) <= Max({request.max_docs, Cardinality(Needed(request))})

\* What a run takes for its corpus is one it can be graded on.
CorpusSound == AcceptedWhole /\ SubsetsStayLabelled
=============================================================================
