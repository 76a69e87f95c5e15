----------------------------- MODULE EvalHarness -----------------------------
(***************************************************************************)
(* eval/runner.py: a prepared corpus, or the fixtures, is indexed into a   *)
(* database that runs share (--db-path), and each query's ranked chunks    *)
(* are graded by document.                                                 *)
(*                                                                         *)
(* What retrieval returns is any ranking of indexed chunks, so the modes   *)
(* are not told apart.  A document's path is its directory and its number. *)
(* nDCG and the bootstrap intervals are left out.                          *)
(***************************************************************************)
EXTENDS EvalCorpus

CONSTANTS
    FixtureRequest,          \* the run over the fixtures
    FixtureRules,            \* for each of its queries, the rules of relevance
    ExpectEmpty,             \* its queries that shall find nothing
    Words,                   \* what text_contains finds in the chunks of a document
    TopK, ChunkMultiplier,
    Nothing                  \* a field a rule leaves out; no external_id

Qrel == Query \cup DOMAIN FixtureRules
Size == Nat \cup {Unlimited}

\* What a cache directory can hold.
DirFiles ==
    [texts    : [Doc -> {Absent, Torn, Whole}],
     sidecars : SUBSET Doc,
     qrels    : {Absent, Torn} \cup SUBSET Qrel,
     manifest : {Absent, Torn}
                \cup [fingerprint : [max_docs : Size, max_queries : Size], doc_count : Nat, query_count : Nat]]

ASSUME HarnessAssumption ==
    /\ \A r \in Requests : DirOf(r) \notin DOMAIN Given
    /\ DirOf(FixtureRequest) \in DOMAIN Given
    /\ Given \in [DOMAIN Given -> DirFiles]
    /\ \A dir \in DOMAIN Given : Given[dir].qrels # Absent
    /\ \A qs \in SUBSET Qrel : qs \notin {Absent, Torn}
    /\ TopK \in Nat /\ ChunkMultiplier \in Nat

\* None is no id.  The fixtures are in the repository, whole and without sidecars;
\* their queries are not the dataset's, and their rules name no ids.
ASSUME GradingAssumption ==
    /\ Nothing \notin Doc
    /\ \A dir \in DOMAIN Given : Given[dir].texts \in [Doc -> {Absent, Whole}] /\ Given[dir].sidecars = {}
    /\ Given[DirOf(FixtureRequest)].qrels \in {Torn} \cup SUBSET DOMAIN FixtureRules
    /\ Query \cap DOMAIN FixtureRules = {} /\ ExpectEmpty \subseteq DOMAIN FixtureRules
    /\ \A q \in DOMAIN FixtureRules :
           IsFiniteSet(FixtureRules[q]) /\ \A rule \in FixtureRules[q] : rule.external_id = Nothing

VARIABLES
    db,       \* the documents in the index: path, text and external_id
    taken,    \* directories a run took while they were cut
    corpora,  \* what runs have begun to index
    row       \* the query in grading

vars == <<disk, pc, request, todo, prepared, cut, runs, db, taken, corpora, row>>

NoRow == [query |-> Nothing, hits |-> <<>>, keys |-> <<>>, relevance |-> <<>>, gold |-> 0,
          hit |-> FALSE, recall |-> <<0, 1>>, rank |-> 0]

Init ==
    /\ CorpusInit
    /\ db = {} /\ taken = {} /\ corpora = {} /\ row = NoRow

StartFixtures ==
    /\ pc = "idle" /\ pc' = "list" /\ request' = FixtureRequest /\ Called
    /\ UNCHANGED <<disk, todo, prepared, cut, db, taken, corpora, row>>

PrepareCorpus == Prepare /\ UNCHANGED <<db, taken, corpora, row>>

----------------------------------------------------------------------------
(* index_corpus.                                                           *)

ListDocuments ==
    /\ pc = "list" /\ pc' = "index"
    /\ todo' = Txt(Here)
    /\ taken' = IF DirOf(request) \in cut THEN taken \cup {DirOf(request)} ELSE taken
    /\ corpora' = corpora \cup {<<DirOf(request), Fingerprint(request)>>}
    /\ UNCHANGED <<disk, request, prepared, cut, runs, db, row>>

FromFileBare(d) == [path |-> <<DirOf(request), d>>, text |-> Here.texts[d], external_id |-> Nothing]
FromFile(d) ==
    [path |-> <<DirOf(request), d>>, text |-> Here.texts[d], external_id |-> IF d \in Here.sidecars THEN d ELSE Nothing]

\* index_file leaves alone what has the text the index has, whatever its sidecar
\* says now.
IndexDocument ==
    /\ pc = "index"
    /\ \E d \in todo :
           /\ \A other \in todo : d <= other
           /\ LET file == FromFile(d)
                  old == {e \in db : e.path = file.path}
              IN  db' = IF \E e \in old : e.text = file.text THEN db ELSE (db \ old) \cup {file}
           /\ todo' = todo \ {d}
    /\ UNCHANGED <<disk, pc, request, prepared, cut, runs, taken, corpora, row>>

LoadQrels ==
    /\ pc = "index" /\ todo = {}
    /\ \/ Here.qrels = Torn /\ Ended
       \/ Here.qrels # Torn /\ pc' = "evaluate" /\ todo' = Here.qrels /\ UNCHANGED <<request, prepared>>
    /\ UNCHANGED <<disk, cut, runs, db, taken, corpora, row>>

----------------------------------------------------------------------------
(* Grading.                                                                *)

Rules(q) ==
    IF request = FixtureRequest THEN FixtureRules[q]
    ELSE {[external_id |-> d, source |-> Nothing, text |-> Nothing] : d \in Judged[q]}

\* What is indexed of a text: of a torn one, its beginning.
ChunksOf(e) == IF e.text = Torn THEN {1} ELSE DOMAIN Words[e.path[2]]
DocumentTextOfOne(e) == Words[e.path[2]][1]
DocumentText(e) == UNION {Words[e.path[2]][c] : c \in ChunksOf(e)}

HitIsRelevant(e, rules) ==
    \E rule \in rules :
        IF rule.external_id # Nothing THEN rule.external_id = e.external_id
        ELSE /\ rule.source # Nothing => e.path \in rule.source
             /\ rule.text # Nothing => rule.text \in DocumentText(e)

\* Ids and paths are not confused.
Key(e) == IF e.external_id # Nothing THEN <<e.external_id>> ELSE e.path

First(n, s) == SubSeq(s, 1, Min({n, Len(s)}))

\* Collapsed[1] ranks the documents of the hits, each once and where its best
\* chunk is; Collapsed[2] holds those some hit makes relevant.
WithHit(acc, h, rules) ==
    <<IF Key(h.of) \in Range(acc[1]) THEN acc[1] ELSE Append(acc[1], Key(h.of)),
      IF HitIsRelevant(h.of, rules) THEN acc[2] \cup {Key(h.of)} ELSE acc[2]>>

\* Collapsing(hits, rules)[n] is what the loop has after n hits.
Collapsing(hits, rules) ==
    LET after[n \in 0..Len(hits)] ==
            IF n = 0 THEN <<<<>>, {}>> ELSE WithHit(after[n - 1], hits[n], rules)
    IN  after

CollapsedAfterCut(hits, rules) == Collapsing(hits, rules)[Min({TopK, Len(hits)})]
Collapsed(hits, rules) == Collapsing(hits, rules)[Len(hits)]

Gold(q) == IF q \in ExpectEmpty THEN 0 ELSE Max({1, Cardinality(Rules(q))})

FirstRank(relevance) ==
    LET good == {i \in DOMAIN relevance : relevance[i]} IN IF good = {} THEN 0 ELSE Min(good)

GradedUncapped(relevance, gold) ==
    LET found == Cardinality({i \in DOMAIN relevance : relevance[i]})
        rank == FirstRank(relevance)
    IN  IF gold = 0 THEN [hit |-> found = 0, recall |-> <<IF found = 0 THEN 1 ELSE 0, 1>>, rank |-> IF found = 0 THEN 1 ELSE 0]
        ELSE [hit |-> rank # 0, recall |-> <<found, gold>>, rank |-> rank]

\* evaluate_ranking; the reciprocal rank is kept as the rank, 0 for none.
Graded(relevance, gold) ==
    LET found == Cardinality({i \in DOMAIN relevance : relevance[i]})
        rank == FirstRank(relevance)
    IN  IF gold = 0
        THEN [hit |-> found = 0, recall |-> <<IF found = 0 THEN 1 ELSE 0, 1>>, rank |-> IF found = 0 THEN 1 ELSE 0]
        ELSE [hit |-> rank # 0, recall |-> <<Min({found, gold}), gold>>, rank |-> rank]

\* The collections "eval" and "benchmark".
InCollection == {e \in db : e.path[1] \in DOMAIN Given <=> request = FixtureRequest}

Pool == Max({TopK * ChunkMultiplier, TopK})
Rankings ==
    LET chunks == UNION {{[of |-> e, chunk |-> c] : c \in ChunksOf(e)} : e \in InCollection}
    IN  UNION {{s \in [1..n -> chunks] : \A i, j \in 1..n : s[i] = s[j] => i = j} : n \in 0..Pool}

\* Each query is graded alone, so their order plays no part.
Evaluate ==
    /\ pc = "evaluate" /\ row = NoRow
    /\ \E q \in todo, hits \in Rankings :
           LET rules == Rules(q)
               collapsed == Collapsed(hits, rules)
               keys == First(TopK, collapsed[1])
               relevance == [i \in DOMAIN keys |-> keys[i] \in collapsed[2]]
               graded == Graded(relevance, Gold(q))
           IN  row' = [query |-> q, hits |-> hits, keys |-> keys, relevance |-> relevance,
                       gold |-> Gold(q), hit |-> graded.hit, recall |-> graded.recall, rank |-> graded.rank]
    /\ UNCHANGED <<disk, pc, request, todo, prepared, cut, runs, db, taken, corpora>>

NextQuery ==
    /\ pc = "evaluate" /\ row # NoRow /\ row' = NoRow /\ todo' = todo \ {row.query}
    /\ UNCHANGED <<disk, pc, request, prepared, cut, runs, db, taken, corpora>>

WriteReport ==
    /\ pc = "evaluate" /\ todo = {} /\ Ended
    /\ UNCHANGED <<disk, cut, runs, db, taken, corpora, row>>

Die == Crash /\ row' = NoRow /\ UNCHANGED <<db, taken, corpora>>

Next ==
    \/ Start /\ UNCHANGED <<db, taken, corpora, row>>
    \/ StartFixtures \/ PrepareCorpus
    \/ ListDocuments \/ IndexDocument \/ LoadQrels \/ Evaluate \/ NextQuery \/ WriteReport \/ Die

Spec == Init /\ [][Next]_vars

----------------------------------------------------------------------------
(* Properties.                                                             *)

TypeOK ==
    /\ disk \in [Dir -> DirFiles]
    /\ pc \in {"idle", "check", "clear", "text", "sidecar", "manifest", "list", "index", "evaluate"}
    /\ request \in Requests \cup {FixtureRequest}
    /\ todo \subseteq IF pc = "evaluate" THEN Qrel ELSE Doc
    /\ prepared \in [doc_count : Nat, query_count : Nat]
    /\ cut \cup taken \subseteq Dir
    /\ \A e \in db : e \in [path : Dir \X Doc, text : {Torn, Whole}, external_id : Doc \cup {Nothing}]
    /\ Len(row.hits) <= Pool

Benchmark == request # FixtureRequest
Grading == pc = "evaluate" /\ row # NoRow
HitKeys == {Key(row.hits[i].of) : i \in DOMAIN row.hits}
Best(k) == Min({i \in DOMAIN row.hits : Key(row.hits[i].of) = k})

\* The index a query is put to has every document of the corpus, as it is in the
\* directory and under the id the judgements use: unless some run took the
\* directory when it was cut, for what that run indexed without a sidecar stays
\* so when the corpus is repaired.
IndexKnowsCorpus ==
    pc = "evaluate" /\ Benchmark /\ DirOf(request) \notin taken =>
        \A d \in Written(request) :
            [path |-> <<DirOf(request), d>>, text |-> Whole, external_id |-> d] \in db

\* Its collection has nothing else, unless another corpus was indexed in the
\* database: the documents of that one stay and are retrieved with those of this.
NothingElseIndexed ==
    /\ pc = "evaluate" /\ Benchmark /\ taken = {}
    /\ \A c \in corpora : c[1] \in DOMAIN Given \/ c = <<DirOf(request), Fingerprint(request)>>
    => \A e \in InCollection : e.path \in {DirOf(request)} \X Written(request)

\* Many chunks of one document are one result, at the place of the best of them,
\* and the list is cut after that, not before.
RankedByBestChunk ==
    Grading =>
        /\ Range(row.keys) \subseteq HitKeys
        /\ Len(row.keys) = Min({TopK, Cardinality(HitKeys)})
        /\ \A i, j \in DOMAIN row.keys : i < j => Best(row.keys[i]) < Best(row.keys[j])
        /\ \A i \in DOMAIN row.keys : \A k \in HitKeys \ Range(row.keys) : Best(row.keys[i]) < Best(k)

\* What a query is about, whatever chunk was retrieved: for the benchmark the
\* judged documents, for the fixtures those whose file and whole text satisfy one
\* rule.
About(q, path) ==
    IF Benchmark THEN path[2] \in Judged[q]
    ELSE \E rule \in FixtureRules[q] :
             /\ rule.source # Nothing => path \in rule.source
             /\ rule.text # Nothing => rule.text \in UNION Range(Words[path[2]])

\* A result counts as relevant if and only if its document is, but for documents
\* indexed from a cut directory, whose ids the index may not know.
RelevanceIsOfDocuments ==
    Grading =>
        \A i \in DOMAIN row.keys : \A h \in Range(row.hits) :
            Key(h.of) = row.keys[i] /\ h.of.path[1] \notin taken =>
                (row.relevance[i] <=> About(row.query, h.of.path))

\* The scores of a query agree with each other and with the set it found: all
\* are nought or none is, recall is one only when as many documents are found as
\* there are judgements, and a document two directories hold counts once.
ScoresAgree ==
    LET found == {i \in DOMAIN row.keys : row.relevance[i]}
    IN  Grading =>
            /\ row.recall[1] <= row.recall[2]
            /\ row.hit <=> row.recall[1] > 0
            /\ row.hit <=> row.rank > 0
            /\ row.gold > 0 => (row.hit <=> found # {}) /\ (found # {} => row.rank = Min(found))
            /\ row.gold = 0 => (row.hit <=> found = {})
            /\ Benchmark => row.recall = <<Cardinality(found), Cardinality(Judged[row.query])>>

\* The index a query is put to is the corpus.
IndexIsCorpus == IndexKnowsCorpus /\ NothingElseIndexed

\* The documents found are ranked by their best chunks, and graded as the judgements
\* have them.
GradesDocuments == RankedByBestChunk /\ RelevanceIsOfDocuments /\ ScoresAgree
=============================================================================
