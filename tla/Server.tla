------------------------------- MODULE Server -------------------------------
(***************************************************************************)
(* The HTTP API: api/app.py's handlers, which FastAPI runs in threads of   *)
(* one process, the provider cache of api/deps.py they share, and the      *)
(* local provider, which loads its model when it first embeds.             *)
(*                                                                         *)
(* A handler's store calls are single steps (IndexStore), its reads of a   *)
(* file are those of IngestPipeline put into one, and what retrieval       *)
(* returns is left to QuerySession and ContextBuilder: here it matters     *)
(* which answer a request gets and what it leaves behind.                  *)
(***************************************************************************)
EXTENDS Naturals, FiniteSets, Sequences, SequencesExt

CONSTANTS
    Thread,
    File, Folder,        \* what requests name: files, and directories
    FilesIn,             \* the files of each directory
    Allowed,             \* the paths inside allowed_index_roots
    Provider,
    Configured,          \* the provider of the settings
    Unnamed,             \* a request that names none
    Keyless,             \* providers that cannot be built without a key
    Lazy,                \* those that load a model when they first embed
    ServerModel,         \* embedding.model, which every provider is built with
    Request,
    Earlier,             \* what another server indexed: path and model
    MaxRequests, MaxChanges, \* bounds: requests, changes of the file tree
    Changing             \* bound: the paths that change

Path == File \cup Folder

ASSUME ServerAssumption ==
    /\ FilesIn \in [Folder -> SUBSET File] /\ \A d \in Folder : IsFiniteSet(FilesIn[d])
    /\ Configured \in Provider /\ Keyless \cup Lazy \subseteq Provider
    /\ Request \subseteq
           [op : {"index"}, path : Path, provider : Provider \cup {Unnamed}, key : BOOLEAN]
           \cup [op : {"query"}, mode : {"vector", "bm25", "hybrid"}, provider : Provider \cup {Unnamed},
                 deep : BOOLEAN, key : BOOLEAN]
    /\ Earlier \subseteq [path : File, model : {d.model : d \in Earlier}]
    /\ MaxRequests \in Nat /\ MaxChanges \in Nat

VARIABLES
    kind,      \* what each path is now
    index,     \* the documents: path and model
    cached,    \* ProviderCache._providers: for each name an instance, or 0
    made,      \* the provider of each instance ever built
    loaded,    \* the instances with a model
    loads,     \* how often each provider's model was loaded
    pc, request, provider, todo, result, answer,
    served,    \* requests taken
    changes,   \* of the file tree
    raced      \* providers two threads were building or loading at once

locals == <<pc, request, provider, todo, result, answer>>
vars == <<kind, index, cached, made, loaded, loads, locals, served, changes, raced>>

NoRequest == [op |-> "none"]
NoAnswer == [status |-> 0, kind |-> "none"]
NoResult == [files |-> 0, failed |-> 0, stored |-> {}]

\* get of deps.py: provider_name or settings.embedding.provider.
Name(r) == IF r.provider = Unnamed THEN Configured ELSE r.provider

Init ==
    /\ kind = [p \in Path |-> IF p \in File THEN "file" ELSE "folder"]
    /\ index = Earlier
    /\ cached = [p \in Provider |-> 0] /\ made = <<>>
    /\ loaded = {} /\ loads = [p \in Provider |-> 0]
    /\ pc = [t \in Thread |-> "idle"]
    /\ request = [t \in Thread |-> NoRequest]
    /\ provider = [t \in Thread |-> 0]
    /\ todo = [t \in Thread |-> <<>>]
    /\ result = [t \in Thread |-> NoResult]
    /\ answer = [t \in Thread |-> NoAnswer]
    /\ served = 0 /\ changes = 0 /\ raced = {}

----------------------------------------------------------------------------
\* Thread t at `from` goes on to `to`.
Goto(t, from, to) == pc[t] = from /\ pc' = [pc EXCEPT ![t] = to]

Reply(t, from, status, sort) ==
    /\ Goto(t, from, "idle")
    /\ answer' = [answer EXCEPT ![t] = [status |-> status, kind |-> sort]]

shared == <<kind, index, cached, made, loaded, loads, served, changes, raced>>
Asks(t, op) == request[t].op = op

Receive(t) ==
    /\ served < MaxRequests /\ served' = served + 1
    /\ Goto(t, "idle", "validate")
    /\ \E r \in Request : request' = [request EXCEPT ![t] = r]
    /\ provider' = [provider EXCEPT ![t] = 0]
    /\ todo' = [todo EXCEPT ![t] = <<>>]
    /\ result' = [result EXCEPT ![t] = NoResult]
    /\ answer' = [answer EXCEPT ![t] = NoAnswer]
    /\ UNCHANGED <<kind, index, cached, made, loaded, loads, changes, raced>>

\* require_api_key, resolve_index_path, path.exists, _validate_depths.
Refused(t, status) ==
    LET r == request[t]
    IN  \/ ~r.key /\ status = 401
        \/ r.key /\ r.op = "index" /\ r.path \notin Allowed /\ status = 403
        \/ r.key /\ r.op = "index" /\ r.path \in Allowed /\ kind[r.path] = "none" /\ status = 404
        \/ r.key /\ r.op = "query" /\ r.deep /\ status = 422

\* (A lexical query asks for its provider like the others.)
ValidateThenProvider(t) ==
    /\ \/ \E status \in {401, 403, 404, 422} :
              Refused(t, status) /\ Reply(t, "validate", status, "error")
       \/ /\ \A status \in {401, 403, 404, 422} : ~Refused(t, status)
          /\ Goto(t, "validate", "provider") /\ UNCHANGED answer
    /\ UNCHANGED <<shared, request, provider, todo, result>>

Validate(t) ==
    /\ \/ \E status \in {401, 403, 404, 422} :
              Refused(t, status) /\ Reply(t, "validate", status, "error")
       \/ /\ \A status \in {401, 403, 404, 422} : ~Refused(t, status)
          /\ Goto(t, "validate", IF Asks(t, "query") /\ request[t].mode = "bm25" THEN "search" ELSE "provider")
          /\ UNCHANGED answer
    /\ UNCHANGED <<shared, request, provider, todo, result>>

----------------------------------------------------------------------------
(* ProviderCache.get, which takes no lock, and resolve_embedding_provider. *)

AfterProvider(t) == IF Asks(t, "index") THEN "list" ELSE "guard"

Others(t, at) == {u \in Thread \ {t} : pc[u] \in at /\ Name(request[u]) = Name(request[t])}
Raced(t, at) == raced' = IF Others(t, at) # {} THEN raced \cup {Name(request[t])} ELSE raced

\* (A cache that is not asked.)
LookupForgets(t) ==
    /\ Goto(t, "provider", "build") /\ Raced(t, {"build", "keep"})
    /\ UNCHANGED <<kind, index, cached, made, loaded, loads, served, changes, request, provider, todo, result, answer>>

Lookup(t) ==
    LET name == Name(request[t])
    IN  /\ \/ cached[name] # 0 /\ Goto(t, "provider", AfterProvider(t))
                /\ provider' = [provider EXCEPT ![t] = cached[name]] /\ UNCHANGED raced
           \/ cached[name] = 0 /\ Goto(t, "provider", "build")
                /\ Raced(t, {"build", "keep"}) /\ UNCHANGED provider
        /\ UNCHANGED <<kind, index, cached, made, loaded, loads, served, changes, request, todo, result, answer>>

\* (An index one too high.)
BuildAbove(t) ==
    LET name == Name(request[t])
    IN  /\ name \notin Keyless /\ Goto(t, "build", "keep")
        /\ made' = Append(made, name)
        /\ provider' = [provider EXCEPT ![t] = Len(made') + 1]
        /\ UNCHANGED <<kind, index, cached, loaded, loads, served, changes, raced, request, todo, result, answer>>

Build(t) ==
    LET name == Name(request[t])
    IN  /\ \/ name \in Keyless /\ Reply(t, "build", 400, "error") /\ UNCHANGED <<made, provider>>
           \/ /\ name \notin Keyless /\ Goto(t, "build", "keep")
              /\ made' = Append(made, name)
              /\ provider' = [provider EXCEPT ![t] = Len(made')]
              /\ UNCHANGED answer
        /\ UNCHANGED <<kind, index, cached, loaded, loads, served, changes, raced, request, todo, result>>

Keep(t) ==
    /\ Goto(t, "keep", AfterProvider(t))
    /\ cached' = [cached EXCEPT ![Name(request[t])] = provider[t]]
    /\ UNCHANGED <<kind, index, made, loaded, loads, served, changes, raced, request, provider, todo, result, answer>>

----------------------------------------------------------------------------
(* Embedding: _get_model of the local provider, without a lock either.     *)

AfterEmbed(t) == IF Asks(t, "index") THEN "store" ELSE "search"

\* A ValueError is answered with 400, any other exception with 500.
Raises(t, from) == \E status \in {400, 500} : Reply(t, from, status, "error")

\* (The file is tried again.)
FailsAgain(t, from) ==
    IF Asks(t, "index") THEN Goto(t, from, "files") /\ UNCHANGED <<result, todo, answer>>
    ELSE Raises(t, from) /\ UNCHANGED <<result, todo>>

\* index_path goes on after a file that fails; a query ends.
Fails(t, from) ==
    IF Asks(t, "index")
    THEN /\ Goto(t, from, "files")
         /\ result' = [result EXCEPT ![t].files = @ + 1, ![t].failed = @ + 1]
         /\ todo' = [todo EXCEPT ![t] = Tail(@)]
         /\ UNCHANGED answer
    ELSE Raises(t, from) /\ UNCHANGED <<result, todo>>

\* (The model is not kept.)
NeedsModelAlways(t) == Name(request[t]) \in Lazy

NeedsModel(t) == Name(request[t]) \in Lazy /\ provider[t] \notin loaded

Embed(t) ==
    /\ \/ NeedsModel(t) /\ Goto(t, "embed", "load") /\ Raced(t, {"load"}) /\ UNCHANGED <<result, todo, answer>>
       \/ ~NeedsModel(t) /\ Goto(t, "embed", AfterEmbed(t)) /\ UNCHANGED <<raced, result, todo, answer>>
       \/ ~NeedsModel(t) /\ Fails(t, "embed") /\ UNCHANGED raced
    /\ UNCHANGED <<kind, index, cached, made, loaded, loads, served, changes, request, provider>>

Load(t) ==
    /\ \/ /\ Goto(t, "load", AfterEmbed(t))
          /\ loaded' = loaded \cup {provider[t]}
          /\ loads' = [loads EXCEPT ![Name(request[t])] = @ + 1]
          /\ UNCHANGED <<result, todo, answer>>
       \/ Fails(t, "load") /\ UNCHANGED <<loaded, loads>>
    /\ UNCHANGED <<kind, index, cached, made, served, changes, raced, request, provider>>

----------------------------------------------------------------------------
(* POST /v1/index.                                                         *)

\* (A directory is walked in the order of names, which is some order.)
ListFiles(t) ==
    LET path == request[t].path
    IN  /\ Goto(t, "list", "files")
        /\ \/ kind[path] = "file" /\ todo' = [todo EXCEPT ![t] = <<path>>] /\ UNCHANGED result
           \/ kind[path] = "folder" /\ UNCHANGED result
                /\ todo' = [todo EXCEPT ![t] = SetToSeq({f \in FilesIn[path] : kind[f] = "file"})]
           \/ kind[path] = "none" /\ result' = [result EXCEPT ![t].failed = 1] /\ UNCHANGED todo
        /\ UNCHANGED <<shared, request, provider, answer>>

\* index_file up to the model: read, parse, compare the hash.  A file that is gone
\* fails; so may any other, in its parser or in the store.
ReadFile(t) ==
    /\ todo[t] # <<>>
    /\ \/ Fails(t, "files")
       \/ /\ kind[Head(todo[t])] = "file" /\ \E d \in index : d.path = Head(todo[t])
          /\ Goto(t, "files", "files")
          /\ result' = [result EXCEPT ![t].files = @ + 1]
          /\ todo' = [todo EXCEPT ![t] = Tail(@)]
          /\ UNCHANGED answer
       \/ /\ kind[Head(todo[t])] = "file" /\ \A d \in index : d.path # Head(todo[t])
          /\ Goto(t, "files", "embed")
          /\ UNCHANGED <<result, todo, answer>>
    /\ UNCHANGED <<shared, request, provider>>



Store(t) ==
    LET f == Head(todo[t])
    IN  /\ Goto(t, "store", "files")
        /\ index' = {d \in index : d.path # f} \cup {[path |-> f, model |-> ServerModel]}
        /\ result' = [result EXCEPT ![t].files = @ + 1, ![t].stored = @ \cup {f}]
        /\ todo' = [todo EXCEPT ![t] = Tail(@)]
        /\ UNCHANGED <<kind, cached, made, loaded, loads, served, changes, raced, request, provider, answer>>

\* (The exception is lost, and the file reported like one that was stored.)
StoreFailsUnseen(t) ==
    /\ Goto(t, "store", "files")
    /\ result' = [result EXCEPT ![t].files = @ + 1]
    /\ todo' = [todo EXCEPT ![t] = Tail(@)]
    /\ UNCHANGED <<shared, request, provider, answer>>

\* upsert raises, and leaves the index as it was.
StoreFails(t) ==
    /\ Fails(t, "store")
    /\ UNCHANGED <<shared, request, provider>>

\* (The failures are not looked at.)
AnswerFirst(t) ==
    /\ pc[t] = "files" /\ todo[t] = <<>>
    /\ Reply(t, "files", 200, IF kind[request[t].path] = "file" THEN "file" ELSE "batch")
    /\ UNCHANGED <<shared, request, provider, todo, result>>

\* path.is_file is asked again, after the work.
AnswerIndex(t) ==
    LET path == request[t].path
        single == kind[path] = "file"
    IN  /\ pc[t] = "files" /\ todo[t] = <<>>
        /\ \/ single /\ result[t].failed > 0 /\ Reply(t, "files", 422, "error")
           \/ single /\ result[t].failed = 0 /\ result[t].files = 0 /\ Reply(t, "files", 415, "error")
           \/ single /\ result[t].failed = 0 /\ result[t].files > 0 /\ Reply(t, "files", 200, "file")
           \/ ~single /\ Reply(t, "files", 200, "batch")
        /\ UNCHANGED <<shared, request, provider, todo, result>>

----------------------------------------------------------------------------
(* POST /v1/retrieve and /v1/context.                                      *)

\* _assert_query_model_matches; the store may raise instead.
Guard(t) ==
    LET models == {d.model : d \in index}
    IN  /\ \/ models # {} /\ ServerModel \notin models /\ Reply(t, "guard", 409, "error")
           \/ (models = {} \/ ServerModel \in models) /\ Goto(t, "guard", "embed") /\ UNCHANGED answer
           \/ Raises(t, "guard")
        /\ UNCHANGED <<shared, request, provider, todo, result>>

\* The searches, the parents, the reranker and the packing: a channel may raise
\* StorageError, and the reranker ImportError.
Search(t) ==
    /\ Reply(t, "search", 200, "hits") \/ Raises(t, "search")
    /\ UNCHANGED <<shared, request, provider, todo, result>>

Handle(t) ==
    /\ pc[t] # "idle"
    /\ \/ Validate(t) \/ Lookup(t) \/ Build(t) \/ Keep(t)
       \/ ListFiles(t) \/ ReadFile(t) \/ Store(t) \/ StoreFails(t) \/ AnswerIndex(t)
       \/ Guard(t) \/ Embed(t) \/ Load(t) \/ Search(t)

\* Files come and go, and an empty directory may be replaced by a file.
Change ==
    /\ changes < MaxChanges /\ changes' = changes + 1
    /\ \E p \in Path :
           /\ p \in Changing
           /\ p \in File => \A d \in Folder : p \in FilesIn[d] => kind[d] = "folder"
           /\ p \in Folder => \A f \in FilesIn[p] : kind[f] = "none"
           /\ \E k \in {"file", "none"} : k # kind[p] /\ kind' = [kind EXCEPT ![p] = k]
    /\ UNCHANGED <<index, cached, made, loaded, loads, locals, served, raced>>

Next == (\E t \in Thread : Receive(t) \/ Handle(t)) \/ Change

\* A thread that has a request is scheduled, and a call to a model returns or
\* fails.
Spec == Init /\ [][Next]_vars /\ \A t \in Thread : WF_vars(Handle(t))

----------------------------------------------------------------------------
(* Properties.                                                             *)

TypeOK ==
    /\ kind \in [Path -> {"file", "folder", "none"}]
    /\ index \subseteq [path : File \cup Folder, model : {d.model : d \in Earlier} \cup {ServerModel}]
    /\ made \in Seq(Provider)
    /\ \A p \in Provider : cached[p] # 0 => cached[p] \in DOMAIN made /\ made[cached[p]] = p
    /\ loaded \subseteq DOMAIN made
    /\ \A t \in Thread :
           /\ pc[t] \in {"idle", "validate", "provider", "build", "keep", "list", "files", "embed", "load", "store",
                         "guard", "search"}
           /\ pc[t] \in {"embed", "load", "store", "guard"} =>
                  provider[t] \in DOMAIN made /\ made[provider[t]] = Name(request[t])
    /\ served <= MaxRequests /\ changes <= MaxChanges /\ raced \subseteq Provider

\* There is one instance of each provider (deps.py:17), unless two requests were
\* building it at once: then each goes on with its own, and the cache keeps the
\* one that was stored last.
OneInstancePerProvider ==
    \A p \in Provider : p \notin raced =>
        /\ Cardinality({i \in DOMAIN made : made[i] = p}) <= 1
        /\ \A t \in Thread : provider[t] # 0 /\ made[provider[t]] = p /\ pc[t] # "keep" => provider[t] = cached[p]

\* A model is loaded once (docs/operations.md:81), unless two requests were
\* building or loading its provider at once.
ModelLoadedOnce == \A p \in Provider : loads[p] > 1 => p \in raced

Answered(t) == pc[t] = "idle" /\ answer[t].status # 0
Holds(path) == \E d \in index : d.path = path

\* The status of a request for a file tells whether the file is in the index: an
\* error says it stored nothing, 200 that the file is there, unless the file
\* disappeared while it was indexed, which is answered like a directory, with 200
\* and the failure in the report.  Only a directory replaced by a file is 415.
StatusTellsStored ==
    \A t \in Thread : Answered(t) /\ Asks(t, "index") /\ request[t].path \in File =>
        LET path == request[t].path
        IN  /\ answer[t].status # 200 => result[t].stored = {}
            /\ answer[t].kind = "file" => Holds(path) /\ result[t].failed = 0
            /\ answer[t].kind = "batch" => Holds(path) \/ result[t].failed = 1
            /\ answer[t].status # 415

\* A lexical query waits for no provider and meets no failure of one: it is checked,
\* searches and is answered with hits, 401, 422 or the 400 or 500 of its own search.
LexicalNeedsNoProvider ==
    \A t \in Thread : Asks(t, "query") /\ request[t].mode = "bm25" =>
        /\ pc[t] \in {"idle", "validate", "search"} /\ provider[t] = 0
        /\ Answered(t) => answer[t].status \in {200, 400, 401, 422, 500}

\* One instance and one load for each provider.
ProvidersAreShared == OneInstancePerProvider /\ ModelLoadedOnce

\* What a status says is so.
AnswersAreTrue == StatusTellsStored /\ LexicalNeedsNoProvider

\* Every request is answered.
EveryRequestAnswered == \A t \in Thread : pc[t] # "idle" ~> pc[t] = "idle"
=============================================================================
