# A TLA+ verification of CRAG

CRAG (`src/src/custom_rag`) indexes files into one SQLite database and answers
queries over it: it parses a file into blocks, cuts the blocks into parent and
child chunks, embeds the children, stores everything in one transaction, and
serves dense, lexical and hybrid retrieval with citations through a command line
and an HTTP server. This directory holds TLA+ models of what it does from the units
of a file to the status of an answer and the grades of a benchmark, the TLC runs
that check them, and TLAPS proofs of what they check for files, indexes, queries and
runs of any size: everything but three liveness properties.

## The system

| Part | State | Operations | Hard behaviour |
|---|---|---|---|
| Index store (`storage/sqlite_store.py`, `schema.py`) | four tables in a file; per store object a connection, an RLock, a signature cache | `upsert`, `embedding_signatures`, the searches and getters, `_rebuild_fts`, open and close | threads share a connection; processes share the file; statements fail; processes die; the cache is read and filled outside the lock |
| Retrieval (`retrieval/context.py`, `rerank.py`) | none of its own; the locals of one query | guard, embed, dense search, lexical search, fuse, attach parents, rerank | six or more separate reads of an index that is being written |
| Fusion, packing, quality (`retrieval/hybrid.py`, `packer.py`, `quality.py`) | none | pure functions of ranked hits | budget arithmetic, thresholds on three score scales |
| Ingestion (`ingestion/pipeline.py`, `embedders/`, `metadata/`) | the locals of one file; a cache per call | read the hash, parse, chunk, skip, embed, upsert | the file is read twice; skip decision and write are apart |
| Directory indexing (`ingestion/dir_index.py`) | a report | walk, index each file, collect | one of many fails; the walk is cut at a limit |
| Chunkers (`ingestion/chunkers/`) | none | blocks to parents and children, splitting with overlap | orphans, nested leaves, the last small part |
| Embedder (`ingestion/embedders/`) | a cache of vectors, content hashes | look up, send batches, remember | the cache is full; a batch fails half-way; a provider sends too few vectors |
| Parsers (`ingestion/parsers/`) | counters and a section stack while a file is read | file to blocks | headings that skip levels, pages that interleave, elements that nest, symbols that overlap |
| Providers (`core/providers/`) and provider cache (`api/deps.py`) | a dict of providers per process | resolve, embed | first requests at the same time |
| HTTP server (`api/`) | one store, one provider cache | index, retrieve, context, health | a thread pool over all of the above |
| Command line (`cli.py`) | a store per command | index, query, context, eval, serve | a second process on the same file |
| Evaluation (`eval/`) | benchmark corpora on disk, a database runs may share | prepare, index, rank, grade, report | a crash between the files of a corpus; ids that do not reach the index |

A command or request calls the pipeline, the pipeline calls the store for the skip
decision and for `upsert`; a query calls the store for the guard, for each
channel, for each parent and for each citation. The server's threads share one
store; `crag index`, `crag query` and `crag context` are processes with a store
each. The file in WAL mode and SQLite's write lock are what processes share.

What makes each part correct:

* store: a document is there with all its rows or not there at all; a file is
  indexed once; a reader never sees a transaction in progress; a failed or killed
  upsert leaves the previous version; the signature cache says what is indexed;
* retrieval: an answer speaks of one state of the index, or differs from one only
  by documents replaced meanwhile; vectors of different models are not compared;
  a query is refused only for a reason;
* fusion, packing, quality: what both channels say of two rows is kept, a result
  is as long as it can be where the depths allow it, the context is a prefix of the
  passages within its budget and says so when something is left out, the label of
  fused ranks means what it says;
* parsing and chunking: every text a parser reads is in one block below the right
  heading, page or symbol, in the parts that are searched, but for spaces and a short
  rest, and in the one parent that is shown for them, unless that is cut;
* embedding: a call that ends has put no vector out of place, and the cache keeps what
  was used last;
* server: one instance of each provider, a status that tells what was stored, an
  answer to every request;
* evaluation: a run is graded on the corpus it asked for and on nothing else, each
  document once, as the judgements have it;
* ingestion: what the index serves is what is on disk once indexing is through;
  a skipped file is one that needs nothing done; a batch accounts for every file.

PROJECT.json lists the hazards line by line with the properties that cover them, or, where
the code lets a hazard happen, with a note that names the property that bounds it.
*Divergences* describes these.

## Modules

| Module | Models |
|---|---|
| `StoreTables` | the tables and the statements as operators on them |
| `IndexStore` | `SQLiteIndexStore`: one action per statement of `upsert`, the lookup of signatures in its three steps, `_rebuild_fts`, close and reopen, crash |
| `AtomicIndex` | the abstract index: a document replaces its predecessor in one step |
| `QuerySession` | one query from the guard to the citations, one store call per step, against writers |
| `RankFusion` | `rrf_fuse` and `sorted`, on scores that are fractions |
| `ContextBuilder` | what a query makes of the rows it found: the cuts, the fusion, reranking, the packing loop hit by hit, the label |
| `IngestPipeline` | `index_path` and `index_file`, one read or call per step, against edits of the files |
| `Blocks` | what parsers share: the units of a file, the blocks, the section stack |
| `MarkdownParser`, `OutlineParsers`, `PdfMapper`, `CodeParser` | the parsers, a unit of the file a step; `OutlineParsers` is DOCX, HTML, PPTX, text and structured files |
| `Splitter`, `Chunker` | a text to parts; blocks to parent and child chunks |
| `Documents` | `parse_file` and `chunk_file`: the parsers and the chunker put together |
| `Embedder` | `embed_document`, `EmbeddingCache` and `InMemoryDedupState` |
| `Server` | the handlers of the HTTP API in threads, the provider cache, the lazy local model |
| `EvalCorpus` | `prepare_scifact`, a file a step, with crashes |
| `EvalHarness` | indexing a corpus and grading what a query retrieves; extends `EvalCorpus` |
| `IndexStoreProofs`, `QuerySessionProofs`, `ContextBuilderProofs`, `ServerProofs` | the theorems about the module each is named after |
| `IngestionProofs` | the theorems about `IngestPipeline` and `Embedder` |
| `EvalHarnessProofs` | the theorems about `EvalCorpus` and `EvalHarness` |
| `DocumentsProofs` | the theorems about `Documents`: its types and the splitter |
| `OutlineProofs` | those about the blocks of a file and what the chunker makes of them; extends `DocumentsProofs` |
| `MC...` | the instances TLC checks |

**IndexStore.** `db` is what is committed, `work` what the open transaction has
made of it, `txn` the connection that has it open. `View(c)` is what a statement
on connection `c` sees: the sqlite3 module opens the transaction before the first
INSERT or DELETE, so the SELECT of the previous version runs before it and
`DeleteOld` starts from what is committed by then. `lock[c]` is the RLock.
`StatementFails` is any statement raising (a constraint, `busy_timeout`, the
disk); it rolls back and leaves the lock as `with self._lock, self._conn` does.
`InsertDocument` and `InsertChunk` are guarded by the keys of the schema, so where
a key is violated only `StatementFails` is left. `_rebuild_fts` holds the RLock from
its DELETE to its last INSERT and what it writes is seen on its own connection only,
so it is one step, which ends with all rows in (`RebuildFts`) or raises at any
statement (`RebuildRaises`): the transaction stays open either way, and the rows of the
children it did not get to are gone. `torn` remembers the documents this leaves
without some of their FTS rows. `sig[c]` is the signature cache;
a lookup is `LookupMiss`, `ReadSignatures` under the lock and `StoreSignatures`
after it. `Crash(c)` kills a process: its transaction, lock, cache and calls go.

**AtomicIndex** is what callers rely on. `ImplementsAtomicIndex` maps `index[p]`
to the committed document of path `p`; `Commit` is `Publish`, `BeginUpsert` is
`Call`, `Release` is `Return`, `StatementFails` is `Raise`, `Crash` is `Die`, and
every other step stutters. `QuerySession` and `IngestPipeline` stand on it: they
treat an upsert as one step and a store read as a read of whole documents.

**QuerySession** extends `AtomicIndex` with the server's signature cache and the
locals of each query. A request with `own = TRUE` is one of `crag context`, whose
store and cache begin with it. Scores are abstracted to a choice among the rows a
search may return; so is the order of hits, since no step here depends on it.
`first` and `seen` remember which documents were served when a query began and
since. A file without text is stored as a document without chunks, hence without
vectors: `Signatures` does not show it (`HasVectors`), so a collection with only such
files counts as empty for the guard, and what `RefusesExactly` promises is said of
documents with vectors.

**RankFusion and ContextBuilder** take over where `QuerySession` abstracts: with
nothing being written, what order and how much. A list of hits is a sequence of
rows with scores; the channels' lists are inputs. A text is its length and a path
its length, which is all `assemble_context` asks of them besides whether they are
blank. A score is a fraction, compared by cross multiplication, so a tie is a tie;
the code adds floats, where two sums that are equal as fractions might differ in
the last bit. The cross-encoder's answer is any assignment of logits to rows. A
channel returns each row once (`UNIQUE(doc_id, chunk_id)`, `schema.py:38`), which
`BuilderAssumption` states.

**IngestPipeline** keeps the contents each file has had (`history`) and what the
index serves of it as two contents: the one its hash was taken of and the one its
text came from. `settled[p]` remembers that a worker took `p` up after its last
change, alone, and got through with it; `torn[p]` that the row of `p` was written by a
worker between whose two reads the file changed (`between`). A file may return to an
earlier content. Then a torn row can have the hash of what is on disk and another
text, which the code keeps for good: `SettledIsCurrent` says that this is the only way
to it, and it is listed under *Divergences*.

**Documents.** A file is a sequence of units: lines, paragraphs, elements of a page
or of slides, records; for code, words and line ends with the spans of its symbols.
What a regular expression, a third-party reader, the partitioning service or
tree-sitter decides about a unit comes with it as its kind, level, page or span. A
parser reads one unit a step and adds blocks; a block is named as `BlockBuilder`
names it and has the numbers of its units, its type and its parent (an element of a
web page that is read has its own number and those of the elements in it). `Popped` is the
section stack all outline parsers share; the PDF mapper has one for each page. The
recursion of `_emit_symbol_forest` is a list of what is left to emit. Of a text the
splitter's model keeps its length and the positions at which each of the five
separators ends; every part the code makes before it strips is a stretch of the
text, so a part is a pair of positions, and joining, overlapping and dropping are
arithmetic on them. What `Chunk.strip_text` leaves of a part (`Trimmed`) is the set of
positions between its first and its last character that is no space, which may be none;
spaces are the ends of separators, so a tab counts as a letter. The chunker finds a
leaf's parent going up and a parent's leaves going down, as the code does, so that
whether the two agree is a question. Of a parent's text are kept the blocks it is put
together from and how many characters of them the cut at `parent_max_chars` leaves
(`Kept`); for a document without sections that text is its raw text, which the readers
join by "\n\n" like the blocks, except Markdown, where it is the file: there `RawGap`
stands for what is between two texts. Four kinds of units stand for text that the code
passes over: "other" in a web page (text in a td, a div, a dt), "group" and "title" on a
slide, "scalar" in a YAML file. What a library does not yield at all, as the headers and
text boxes of a DOCX file, is no unit, nor are the tags `html.py` removes before it reads.

**Embedder.** A call (`Begin`) looks up its chunks one by one (`LookUp`), sends what is
missing batch by batch (`NextBatch`), stores the i-th vector that comes under the i-th
text (`StoreVector`) and ends (`Finish`) or raises (`BatchFails`: `zip(strict=True)`
raises only when one side runs out, and what was stored stays). `Answers` is what a
provider may return: the vectors of the batch in order or, in a wrong number, any of them
in any place, so that a failed call can leave a vector under the text of another in a
cache its caller keeps. The cache is a sequence, oldest first. `recency` is what a cache
without a limit would hold, and `paid` remembers what was stored by which call, and
whether out of an answer of the right number. A hash is assumed to tell
the texts of a file. `IngestPipeline` has the call as one step, since `index_file`
makes a cache for each file.

**Server.** A thread has a program counter, its request and what the request has
done so far. `Lookup`, `Build` and `Keep` are the three parts of `ProviderCache.get`,
`Embed` and `Load` those of the local provider; between any two of them the other
thread may run. Parser, model and store may raise at any file (`Fails`, `StoreFails`),
and the guard, the model, a search or the reranker at any query, which is answered with
400 or 500 by what was raised (`Raises`). A store call is one step, by `IndexStore`; which
hits a search returns is left to `QuerySession` and `ContextBuilder`. The upper half of
`index_file` is one step here, its races being those of `IngestPipeline`. `raced`
remembers the providers that two threads were building or loading at once.

**EvalCorpus and EvalHarness.** The disk has for each directory the text of each
document (absent, torn or whole), the sidecars, the qrels and the manifest, which may be
torn too. A run may die at any write. What a corpus selects is a set; the order in which
it is written is kept (`IsNext`), because it decides what a dead run leaves behind.
The queries of a run are graded in any order, which nothing it computes depends on.
The fingerprint of a corpus is what the code hashes. An id is assumed to occur once in
a dataset. `cut` remembers the directories whose preparation died over an older
manifest, `taken` those a run used in that state. Retrieval returns any ranking of
indexed chunks.

## Runs

| Run | Shows |
|---|---|
| `index_store` | two threads of a server and a second process, three documents of two files, rebuilds of the FTS table that raise half-way: every safety property of the store, the inductive invariant and the refinement |
| `index_store_live` | every upsert returns, also that of a document with a duplicate chunk id, which always fails |
| `signature_cache_race` (violation) | signatures cached after a lookup raced an upsert are stale |
| `query_session` | answers are whole when nothing is written, and lack only what was replaced when something is; a query of a fresh store compares no vectors across models and is not refused without reason |
| `query_stale_guard` (violation) | the guard of a long-lived server passes everything after caching an empty collection |
| `ingest` | what is through stays through; a text that will be skipped is what is on disk, unless the file changed between the two reads of it; a stored text is never older than its hash, the report accounts for every file, a batch ends |
| `ingest_model_change` (violation) | re-indexing with another model skips every unchanged file |
| `context` | fusion keeps what the rankings say, results are as long as they can be, the context is a prefix of the passages, within its budget and truncated only if it must be |
| `documents` | no text that a parser reads is lost, or doubled but where elements nest; sections, pages and symbols nest by what is around them; ids clash only between two tables of a slide; parts fit, lose only spaces and a short rest, break no word that fits and are empty only where a cut is forced; each text is in the one parent its children name, which shows it unless it is cut for its length |
| `embed` | a call that ends gives each chunk the vector of its own text, or what an earlier call left for that text in a shared cache, out of place only if that call failed over the number of its vectors; the cache holds what was used last; a retry pays only for what is missing, and only what was embedded is skipped |
| `server` | providers are built and models loaded once, but for requests that race; a status says what was stored, whatever raised; lexical queries touch no provider; every request is answered |
| `eval` | but for directories whose preparation died over an older one, a run is graded on its own corpus, the index is that corpus unless others were put into the database, documents are ranked by their best chunk and graded by the judgements |

Each violation run checks one sentence of the repository's documents or comments;
PROJECT.json quotes it. Some properties are conjunctions of named parts
(`SplitsCleanly`, `OutlineKept`, `ParentsShowTheirLeaves`, `FusionRespectsChannels`,
`RefusesExactly`, `CorpusSound`, `IndexIsCorpus`, `GradesDocuments`,
`ProvidersAreShared`, `AnswersAreTrue`, `CacheSound`, `RetriesPayTheRest`); each part
has a mutant of its own. `CommittedWhole`, `CommittedOnePerPath` and `ChannelsAgree`
follow from `IInv` and `ReadersSeeWhole`, which `index_store` checks, and are proved
from them.

**Bounds.** Two versions of one file and one of another, one or two chunks a document,
two models and two collections are what the properties of store and query speak
of: each relates two versions, two channels, two models or two writers, and a
third adds no new interleaving of a pair. `query_session` has a third file, empty,
in one of the collections. Documents are written once each, because
every parse draws a new doc_id; their number bounds the runs of the store and of
queries. A file changes at most `MaxVersions[p]` times, twice for the file two
workers share: once between the reads of one of them and once after, which may bring
back what it was. `context`
takes every ranking without repetition of up to three of four rows in each
channel: two rows that both channels rank, one that each ranks alone, and one to
be cut off; the budgets go from less than one header to more than everything.
`documents` takes every Markdown file of up to
five lines out of two levels of headings, two texts and fences (with blank lines,
of up to four), which is enough for a level to be left and come back to on either
side of a fence; DOCX files of up to five units, web pages of up to four elements
with every nesting of up to three (headings, too, may have elements in them, and text
may stand in none), slides of up to six units (of up to four with groups of shapes,
repeated titles, blank shapes and notes), PDF files of up to four elements on two pages
in any order, up to three records or one scalar; code of up to six words and line ends with every nesting of up to three symbols; every line of five
to eight characters with any consistent arrangement of ". ", "; " and " "; and
blocks of code of five lines, whose breaks are the separators "\n\n" and "\n". Parts
have up to three, four or five characters, so that merging, overlap and the last
small part all meet the limit, and parents up to 100, 18, 12 or 6, so that none, some
and all are cut and the mark does and does not fit. `embed` makes three calls (one to fill the cache, one
to fail, one to retry, to evict or to be handed what the failed one left) for two
versions of one file and another one, with providers that share a model and one that
does not, and caches for none, one, some and all of the keys. `server` has two threads,
three requests and two changes of the file tree (of the paths in `Changing`): two
requests race, the third meets what they left. `eval` has four runs
over three documents (one blank) and three queries (one unjudged): a corpus, one
that dies, a smaller one put in its place, and the repair.
Threads and workers are not symmetric (they sit on different connections), so no
symmetry is declared. `CHECK_DEADLOCK FALSE` stands in `context`, `documents`, `embed`,
`server` and `eval`, which end when the request, the file or the bounded number of
calls is through; `IndexStore`, `QuerySession` and
`IngestPipeline` always have a step, a call that fails, a reopening or a crash.

**Fairness.** `IndexStore` assumes that a statement in progress ends, with a
result or an error: threads of a live interpreter run, the RLock is left by every
path, and `busy_timeout` bounds the wait for the write lock. `IngestPipeline`
assumes the same of a worker's next call, and `Server` of a thread that has a
request: a call to a model returns or raises. Nobody is assumed to call, edit, close
or crash.

## Proofs

**The store** (`IndexStoreProofs`), for any documents, paths, chunks, threads and
connections that satisfy `DocumentAssumption` and `StoreAssumption`: type
correctness, `CommittedWhole`, `CommittedOnePerPath`, `ReadersSeeWhole`,
`ChannelsAgree`, `FailedLeavesNothing`, `CachedWasCommitted`, `PathsStayIndexed`
and the refinement of `AtomicIndex`. None of these is inductive: that the
committed tables are whole depends on what the open transaction holds at the
statement that commits it. `IInv` adds that. `LockInv` says that the thread
between taking and leaving the RLock is the one the lock names, `JobInv` which
document it writes and that it alone writes it, `WorkInv` what the working copy
holds at each statement: before the first write it has the committed documents and is
whole (`NothingUpserted`: a rebuild may have changed FTS rows), while chunks go in it
holds exactly the chunks up to the counter and no FTS rows of the document, and before
the commit it is whole. Whole means that each document has all its rows, except that
one a failed rebuild left torn may lack FTS rows, which is what the code leaves;
`WholeAt` bounds it to that: never an FTS row of a chunk that is not there, never two.
`CacheInv` says that signatures on their way to the cache were committed.
There is a lemma for each action and each part; the safety theorems follow from
the invariant, the action property from the lemma that a commit replaces one path,
and the refinement from a simulation of every step.

**Ingestion** (`IngestionProofs`), for any files, contents, workers and jobs
that satisfy `IngestAssumption`: type correctness, `SettledIsCurrent`,
`TextNotOlderThanHash` and `BatchAccountsForAll`. `SettledIsCurrent` is not
inductive: a second worker may take the settled file up and write what it read.
`ReadInv` says that what a worker has read of a file that did not change since is
what is on disk, and `TurnInv` that whoever is at a settled file took it up after
its last change; so whatever it writes is current (`SettledInv`). `OrderInv` carries
the order of the two reads from the worker's locals into the index, and `PairInv` that
hash and text are of one content unless the file changed between the reads.
`ReportInv` says that every file of the batch is reported, at hand or still to
come, and that a reported file is in the index and never leaves it.

**Queries** (`QuerySessionProofs`), for any documents, chunks, models, collections,
threads, requests and depths that satisfy `QueryAssumption`: type correctness,
`QuietAnswersWhole`, `StaleOnlyIfReplaced` and `RefusesExactly`. What an answer lacks
has to be traced to a document that was replaced after the query had begun.
`IndexInv` says that a document is written once, so what was replaced does not come
back; `SeenInv` that everything served since the query began is in `seen`, and that
nothing was written if `seen` is still what it was at the beginning; `RowsInv` that
rows, hits and citations are of documents seen, and lack a parent or a path only if
their document is no longer served. `GuardInv` is the argument about the guard: the
signatures a query of its own store read include the model of every document that
was there from its beginning and still is. So in a collection of one model a query
that goes on to the search has that model, and a query is refused only if no document
with vectors of its model was there from beginning to end. For documents without text
neither holds, since they have no signature: hence `AlwaysSigned` and `HasVectors`.

**Embedding** (also `IngestionProofs`: the specification is `ESpec`, with no variable of
`IngestPipeline`), for any documents, providers, batch size and limits
(0 included) that satisfy `EmbedderAssumption`, and any answers of the providers in
`Answers`: `CacheSound` (which has the types),
`OwnVectors` and `RetriesPayTheRest`. `CacheInv` says that the cache is the end of
`recency` and as long as it may be; that both stay in step under `move_to_end` and
eviction is a lemma about sequences (`NewestIs`, `EndOfNewest`, `StoredIs`). It gives
the fact everything else needs: a key that an unlimited cache would hold is missing
only if the cache is full (`MissIs`). `PaidInv` ties every entry to a
vector that some call stored under its key, and to that of its text if the answer was
whole; `AnswerInv` says that the right number of vectors means the right vectors, also
when some of them are stored; `LookUpInv` that what is found is of earlier calls, and of
the caller's cache; `FreshInv` that while nothing was evicted no text that is still to be
sent was paid for by another call; `HandledInv` that each chunk looked up is still to be
sent or has a vector, in place unless the answer at hand is of the wrong number, in which
case the call fails.

**Ranking** (`ContextBuilderProofs`), for any rows, texts, rankings, depths, `rrf_k`
and thresholds that satisfy `BuilderAssumption`: `FusionRespectsChannels`,
`AsManyAsAsked` and `FusedHighIsAgreed`. A row with the better rank in both channels
scores more (`BothBetter`), and in channels no deeper than rrf_k + 1 two ranks score
more than any one (`TwoBeatOne`). `FusedRanks` and `BestFirst` carry this from scores
to places in the fused list. `RankingInv` adds that a channel has a row once and that
the candidates of every mode are all that matched or enough. A threshold above
1/(rrf_k + 1) is reached by no row of one channel (`BelowThreshold`), hence what
`high` means.

**Packing** (`ContextBuilderProofs`), under the same assumption: type correctness,
`PacksAPrefix`, `PackedWithinBudget` and `TruncatedIfTooLong`. The lemmas under them
are about sorting: cross multiplication orders fractions (`AtLeastTransitive`),
"better score, or the same score and earlier" is a strict total order on positions (`AheadIsTotal`), each
position's rank among the others is a place of its own and every place is taken
(`PlaceIsBijection`), hence `sorted` yields each element once and in order
(`SortedBySorts`). `PackingInv` says that there is a position up to which the hits are
dealt with, skipped or cited in their order, and from which on they are left.
`PackedWithinBudget` needs that a block which has to be cut has room for at least its
mark and then fills the budget exactly (`CutFillsBudget`). `TruncatedIfTooLong` relates
the flag to the sum of all blocks, which the code never computes: `SpentInv` says that
`used` is the sum over the passages cited so far, by induction over them.

**The server** (`ServerProofs`), for any threads, files, folders, providers and
requests that satisfy `ServerAssumption`: type correctness, `ProvidersAreShared` and
`AnswersAreTrue`. Of a provider that no two threads were building or loading at once,
`InstancesInv` says that it has one instance, which is in the cache or with its
builder; `FreshInv` that the builder is alone with it until it is kept; `OneHeldInv`
that whoever holds one holds that of the cache; `LoadsInv` that whoever loads its
model is alone and the instance has none. `FileInv` follows a request for one file
from place to place, with what is to do and was done, to the answer (`AnswerInv`).

**Evaluation** (`EvalHarnessProofs`), for any dataset, requests, limits and number of
runs that satisfy `DatasetAssumption`, `FileAssumption`, `RequestAssumption` and
`HarnessAssumption`, and for grades `GradingAssumption` (the fixtures of the repository
are whole, and their queries are not the dataset's): type correctness, `CorpusSound`,
`IndexIsCorpus` and `GradesDocuments`. That a
manifest may be trusted has to survive every death of every run: `ManifestInv` says
that outside `cut` a manifest that can be read vouches for a whole corpus, unless
that directory is being prepared, and `WritingInv` what is on disk at each write of a
preparation. `AcceptedInv`, `ListedInv`, `IndexedInv` and `DoneInv` carry this to the
database: what was indexed of a directory nobody took while it was cut is whole, has
its id and was asked for, and what is not still to do is there. That a limit is kept
(`FirstOfIsShort`) is shown by counting places. `GradesDocuments` is about one query and
any ranking of indexed chunks: what `Collapsed` has kept after a number of hits is the
documents of those hits, each once, where it came first, by induction over the hits.

**Documents** (`DocumentsProofs` and `OutlineProofs`), for files of any size in all
seven formats, texts of any length and any limits that satisfy `LineAssumption`,
`ElementAssumption`, `PdfAssumption`, `CodeAssumption` and `ConfigAssumption` (what a
reader, a regular expression or tree-sitter delivers: levels from 1 to 6, notes at the
end of their slide, symbols that nest and begin apart; and `ge=1` for the length of a
child): type correctness, `SplitsCleanly`, `ParentsShowTheirLeaves`, `IdsDistinct`,
`EveryUnitOnce` and `OutlineKept`. There are five arguments.

*Splitting.* The splitter is recursive over five separators, and within one over the
pieces. `Tiling` says that parts follow each other without a gap from the first
character to the last, `GoodCut` that a cut is at the end of a separator or in a
stretch without one (`Solid`) that is too long for a child. `Split`, both together, is
kept by joining pieces and by descending to the next separator; merging small parts
leaves nothing out but a rest, and overlap moves only where parts begin. As stripping
takes only spaces from the two ends of a part, what no child has is spaces and that
rest. For `BlankOnlyWhereForced` the induction carries what is before a part that is
all spaces (`Seamless`, `BlankBegins`): another space, a word that fills a child, or
nothing.

*Hanging.* `TypeInv` has `Forest`: a block hangs below an earlier one, and below one
that may have others. So the way up from a leaf to its parent and the way down from a
parent to its leaves are one step, and agree. What is left of `ParentsShowTheirLeaves`
is `Preamble` (a leaf without a parent is before every section), that a parent's
leaves, sorted by their numbers, come in the order of the file, and `MatchesShown`: a
text that is put together without being cut ends where its last block ends
(`StartsAre`, `EndsBefore`, `EndsInside`), so it has all of each block, and one that is
cut keeps `parent_max_chars` characters but for the mark (`ShownOrCut`).

*Names.* `NumbersInv` says for each format which counter a block got its number from and
that the counters are where the blocks left them. Names alike in kind are told apart
by their counter; the rows of two tables on a slide are not, which is the exception.

*Units.* `UnitsInv` says that each unit read is in one block (`Once`) and that
blocks follow each other like their units (`Ordered`), with an exception for the open
fence of Markdown and the tables of DOCX; in a web page a unit is in the block of each
element around it. `NestInv` explains the section stacks: levels grow from the bottom
to the top, each section so far is covered by an entry that is as late and no lower
(`Covers`), and each block hangs below the last section that outranks it; PDF has this
for every page.

*Code.* A symbol goes to the innermost one around it: by induction over the symbols in
the order of their beginnings, the stack in `Placed` has those that are open, one in
the other. `LaidInv` is the invariant of `_emit_symbol_forest`. `Sites`: each block
stands right below the block of the symbol its text is right below. `InRow`: what hangs
below one block follows in the order of the file. `Work`: a task that is left names a
symbol whose block is there and comes after what is below it. `Covered`: every word is
in a block or in a task that is left. In the end nothing is left, so every word has a
block. A symbol has one block (`OneBlock`: two would hang below the same one and share
a word), so blocks that share a word are those of two symbols, or of a symbol and what
is between symbols, of which the first is around the second (`WordTwice`), and the
block a text hangs below is that of the innermost symbol around it (`OwnerAround`).

Induction over data is done without the library's induction theorems, which cannot be
instantiated here: a set of numbers that lacks one lacks a least one (`NatInduct`,
`UpToInduct`). That a recursive function has values is shown by exhibiting one, or by
`Recursion`, where every value is determined by the earlier ones.

What stays with TLC is liveness (`UpsertsReturn`, `BatchesEnd`, `EveryRequestAnswered`),
since no backend here treats ENABLED and fairness.

## Divergences

Besides those the violation runs show, modelling met these places where the code
does something a reader of the documents would not expect:

* A document that moves to another collection leaves the signatures of the one it
  left cached: `upsert` drops the entry of the collection it writes to
  (`sqlite_store.py:192`).
* `_rebuild_fts` neither commits nor rolls back (`sqlite_store.py:463-481`): if an INSERT
  raises, the documents whose rows it did not get to are found by the dense search and
  not by the lexical one, on its connection at once and for everyone after its next
  upsert. `docs/adr/0001` has both channels search the same corpus. Nothing in the
  repository calls it ("test/maintenance helper").
* A server whose cache holds the old model refuses queries of the new one after
  another process re-indexed, until it indexes into the collection itself or
  restarts.
* A file that is A when its hash is taken, B when it is parsed and A again later
  is stored with the text of B under the hash of A, and is then skipped for good.
* Two workers at one file: the slower one, with the older content, may write last.
  The next indexing repairs it, because the hash differs.
* A file is parsed and chunked before it is skipped (`pipeline.py:55`), while
  `docs/operations.md:61-62` has an unchanged file skipped first.
* An unchanged file that is indexed into another collection is skipped.
* The label `empty` is also given when there are hits but the budget is below the
  first header; `docs/operations.md:87-88` has it mean that nothing was retrieved.
* `core/config.py:78` calls 0.025 "~top-3 in both RRF channels"; with `rrf_k` at 60
  it is reached up to rank 20 in both.
* With `candidate_k` below `top_k` a hybrid result has fewer than `top_k` hits.
* The server refuses a `top_k` above `HARD_MAX_TOP_K`; `crag context --top-k`
  (`cli.py:380`) takes any.
* Text before the first heading of a file is stored without a parent as soon as
  some heading has text below it; `docs/adr/0002` has every child store its
  `parent_chunk_id`. A match is then answered with the child alone.
* Paragraphs and code blocks are numbered apart and a parent's leaves sorted by
  that number, so its text is not in the order of the file.
* The last part of a text is dropped if it is shorter than `min_child_chars` and
  does not fit the one before it: it can be read in the parent, not found.
* A parent is cut at `parent_max_chars` (`assembler.py:31-38`), so the text of a matched
  child need not be in the parent that is returned for it: `MatchesShown` says that this
  is the only reason. For a document without sections the cut leaves the mark alone
  if `parent_max_chars` is below its seven characters, and is then longer than asked
  (`chunker.py:165-168`).
* A heading with nothing directly below it is in no chunk if another has text.
* A text that is split at its spaces may yield a part of spaces only, which
  `Chunk.strip_text` (`types.py:143-146`) makes an empty text; it is stored and embedded.
  `BlankOnlyWhereForced` says where this can happen.
* Text of a web page outside headings, p, pre and li (in a td, a div, a dt) is in no
  block (`html.py:50`), nor are shapes in a group on a slide (`pptx.py:59-79`), nor the
  one value of a YAML file that is no list and no mapping (`structured.py:125-136`; in
  JSON it is a record): nothing reports the loss.
* With `include_parents` off, a second child of the same parent is still taken for
  a duplicate and its text left out.
* A hybrid query reads dense and lexical rows under two acquisitions of the lock
  (`context.py:118-127`); with an upsert in between, one answer holds chunks of both
  versions of a file, though `docs/adr/0001` has both channels see the same one.
  `StaleOnlyIfReplaced` says how far it goes.
* A hybrid query without a lexical hit returns cosine scores, which are compared with
  the threshold for fused ranks (`context.py:129`): it is labelled `high` though one
  channel found nothing; `docs/operations.md:89` has `high` mean that both agreed.
  `FusedHighIsAgreed` is the part that holds.
* `index_file` hands no cache to `embed_document`, so an unchanged chunk of a changed
  file is embedded again; `docs/operations.md:62-63` and `docs/benchmarks.md:81` have
  it hit the cache. Only callers of `embed_document` can share one.
* A cache is keyed by text and model: shared by two providers that give one model
  name to different vectors, it hands out the vectors of the other.
* If a provider returns too few vectors, or too many, `zip(strict=True)` raises only after
  the i-th was cached under the i-th text (`embedder.py:96-98`). Which vector was missing is
  not known, so a cache the caller keeps may have some under the wrong text, and the retry
  takes them from there.
* Two requests that find no provider each build one, and each may load the model;
  `api/deps.py:17` and `docs/operations.md:81` have one instance and one load.
* Every provider of a server is built with the configured model name, and the guard
  compares names only: a query that names another provider is not refused, whatever
  that provider computes (`docs/architecture.md:65-69`).
* A file that disappears while it is indexed alone is answered with 200 and a batch
  report, with the failure in it; 415 is answered only if a directory without files
  is replaced by a file meanwhile.
* Two tables on one slide number their rows alike, so two blocks have one id; the
  store refuses the document (`UNIQUE(doc_id, chunk_id)`) and the file cannot be
  indexed.
* In a web page an element nested in others that are read is in the text of each, so
  nested lists are indexed more than once.
* The rows of DOCX tables hang below the last heading of the file.
* `parsers/code.py:1` promises non-overlapping spans; a symbol that begins on the
  first line of the symbol around it has that line with it. What is between symbols
  is numbered after them, so it follows them in a parent's text.
* The first line of a class that holds nothing but classes with members of their own
  is in no chunk, as with a heading that has only headings below it.
* The PDF mapper has a branch for headings of level 2 that no element reaches.
* A benchmark preparation that is forced, or put into a directory of another size,
  and dies after it began leaves the manifest of the earlier one beside a truncated
  corpus, and the next run accepts it (`datasets.py:103`); `docs/evaluation.md:75-76`
  and `datasets.py:87-88` have that ruled out, which holds for default directories
  and runs that end.
* Documents indexed from such a directory without their sidecars keep no external
  id when it is repaired, because their text is unchanged and they are skipped: they
  are graded as not relevant.
* A manifest torn by a crash makes every later run fail (`datasets.py:102`) until it
  is forced.
* A database given twice with `--db-path` keeps the documents of earlier corpora,
  which are retrieved and graded with those of the run.
* `--max-queries 0` yields one query.
* `metrics.py:124-125` scores a query without judgements as perfect when nothing is
  returned; the runner judges by rules such a query does not have, so it is perfect
  whatever is returned.

## Not modelled

A `_rebuild_fts` whose DELETE finds the write lock taken (it leaves a transaction open
that has no lock, in which later reads of that connection keep to an older state of the
file); vectors, locations and timestamps; the cosine and BM25 formulas, nDCG and bootstrap
intervals (real arithmetic); decoding of files, front
matter, the choice of a parser by extension, and the third-party readers, models and
SQLite itself, which are represented by what the code sees of them; configuration
and argument handling; the health check and the server's shutdown; provenance,
latencies and the layout of the evaluation report.

## Plan

Done: the store, its abstraction and the refinement; queries, ingestion, embedding,
context building, the server, the evaluation, the parsers and the chunkers, each with
proofs of all the safety properties its runs check. Left:

1. Configuration: which settings of `core/config.py` may be combined, and what the
   models assume of them.
2. Liveness, with hand-written arguments where the provers have none.
