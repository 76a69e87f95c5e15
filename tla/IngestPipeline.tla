-------------------------- MODULE IngestPipeline --------------------------
(***************************************************************************)
(* ingestion/dir_index.py: index_path, and for each file index_file of     *)
(* ingestion/pipeline.py, while the files on disk are being edited.        *)
(*                                                                         *)
(* A worker is a thread of the server serving POST /v1/index or a process  *)
(* of `crag index`.  A file is read twice, first by extract_file_metadata  *)
(* for its hash and then by its parser for its text; the skip decision, the*)
(* model call and the upsert follow, and any of them may raise, which      *)
(* index_path turns into a failed entry of its report.                     *)
(*                                                                         *)
(* A content stands for its own hash (SHA-256 is taken to be injective).   *)
(* upsert is one step, as IndexStore's ImplementsAtomicIndex has it.  What *)
(* the index serves for a path is the content its hash was taken of, the   *)
(* content its text was parsed from, its collection and its model.         *)
(***************************************************************************)
EXTENDS Naturals, Sequences

CONSTANTS
    Worker, Path, Content, Coll, Model,
    First,          \* First[p]: the content of p at the beginning
    Job, JobsOf,    \* calls of index_path, [files, coll, model], and who makes them
    MaxFiles,       \* api.max_index_files
    MaxVersions,    \* bound: how often each file changes
    Gone, NoRow, NoJob

ASSUME IngestAssumption ==
    /\ Path # {}
    /\ First \in [Path -> Content]
    /\ Job \subseteq [files : Seq(Path), coll : Coll, model : Model]
    /\ MaxFiles \in Nat \ {0}
    /\ JobsOf \in [Worker -> SUBSET Job]
    /\ MaxVersions \in [Path -> Nat]
    /\ Gone \notin Content
    /\ NoRow \notin [hash : Content, text : Content, coll : Coll, model : Model]
    /\ NoJob \notin Job

VARIABLES
    history,    \* history[p]: the contents p has had on disk, the current one last
    index,      \* index[p]: the documents row of p and what came with it, or NoRow
    job, phase, \* what each worker does, and the next step of its current file
    todo,       \* the files after the current one
    file,       \* the current one
    hash, text, \* metadata.content_hash; the content that was parsed, Gone before
    indexed, skipped, failed,   \* the IndexDirectoryResult
    unedited,   \* unedited[w]: the file has not changed since w took it up
    alone,      \* alone[w]: nor was another worker at it then
    between,    \* between[w]: the file changed between w's two reads of it
    settled,    \* settled[p]: a worker that was alone with p since its last change is through
    torn        \* torn[p]: the row of p was written by a worker with `between`

report == <<indexed, skipped, failed>>
ghosts == <<unedited, alone, between, settled, torn>>
vars == <<history, index, job, phase, todo, file, hash, text, report, ghosts>>

Row == [hash : Content, text : Content, coll : Coll, model : Model]
Working == {"metadata", "parse", "dedup", "embed", "upsert"}

TypeOK ==
    /\ history \in [Path -> Seq(Content \cup {Gone})]
    /\ index \in [Path -> Row \cup {NoRow}]
    /\ job \in [Worker -> Job \cup {NoJob}]
    /\ phase \in [Worker -> {"idle", "next"} \cup Working]
    /\ todo \in [Worker -> Seq(Path)]
    /\ file \in [Worker -> Path]
    /\ hash \in [Worker -> Content \cup {Gone}]
    /\ text \in [Worker -> Content \cup {Gone}]
    /\ indexed \in [Worker -> SUBSET Path]
    /\ skipped \in [Worker -> SUBSET Path]
    /\ failed \in [Worker -> SUBSET Path]
    /\ unedited \in [Worker -> BOOLEAN]
    /\ alone \in [Worker -> BOOLEAN]
    /\ between \in [Worker -> BOOLEAN]
    /\ settled \in [Path -> BOOLEAN]
    /\ torn \in [Path -> BOOLEAN]
    /\ \A w \in Worker :
        /\ phase[w] # "idle" => job[w] \in Job
        /\ phase[w] \in Working \ {"metadata"} => hash[w] \in Content
        /\ phase[w] \in Working \ {"metadata", "parse"} => text[w] \in Content

disk(p) == history[p][Len(history[p])]
AnyPath == CHOOSE p \in Path : TRUE

Init ==
    /\ history = [p \in Path |-> <<First[p]>>]
    /\ index = [p \in Path |-> NoRow]
    /\ job = [w \in Worker |-> NoJob]
    /\ phase = [w \in Worker |-> "idle"]
    /\ todo = [w \in Worker |-> <<>>]
    /\ file = [w \in Worker |-> AnyPath]
    /\ hash = [w \in Worker |-> Gone]
    /\ text = [w \in Worker |-> Gone]
    /\ indexed = [w \in Worker |-> {}]
    /\ skipped = [w \in Worker |-> {}]
    /\ failed = [w \in Worker |-> {}]
    /\ unedited = [w \in Worker |-> FALSE]
    /\ alone = [w \in Worker |-> FALSE]
    /\ between = [w \in Worker |-> FALSE]
    /\ settled = [p \in Path |-> FALSE]
    /\ torn = [p \in Path |-> FALSE]

At(w, p) == phase[w] \in Working /\ file[w] = p
Goto(w, l) == phase' = [phase EXCEPT ![w] = l]

----------------------------------------------------------------------------
(* The disk.                                                               *)

\* Someone saves, removes or restores a file: any other content, one that it
\* had before included.
Edit(p, c) ==
    /\ c # disk(p)
    /\ Len(history[p]) <= MaxVersions[p]
    /\ history' = [history EXCEPT ![p] = Append(@, c)]
    /\ unedited' = [w \in Worker |-> unedited[w] /\ ~ At(w, p)]
    /\ between' = [w \in Worker |-> between[w] \/ (phase[w] = "parse" /\ file[w] = p)]
    /\ settled' = [settled EXCEPT ![p] = FALSE]
    /\ UNCHANGED <<index, job, phase, todo, file, hash, text, report, alone, torn>>

----------------------------------------------------------------------------
(* index_path.                                                             *)

\* Mutant of FilesOf: the walk is cut one file short of the limit.
FilesBelow(j) == SubSeq(j.files, 1, IF Len(j.files) < MaxFiles THEN Len(j.files) ELSE MaxFiles - 1)

\* iter_indexable_files: what the walk found, cut at max_files.
FilesOf(j) == SubSeq(j.files, 1, IF Len(j.files) < MaxFiles THEN Len(j.files) ELSE MaxFiles)

StartJob(w, j) ==
    /\ phase[w] = "idle"
    /\ job' = [job EXCEPT ![w] = j]
    /\ todo' = [todo EXCEPT ![w] = FilesOf(j)]
    /\ Goto(w, "next")
    /\ UNCHANGED <<history, index, file, hash, text, report, ghosts>>

NextFile(w) ==
    /\ phase[w] = "next"
    /\ todo[w] # <<>>
    /\ file' = [file EXCEPT ![w] = Head(todo[w])]
    /\ todo' = [todo EXCEPT ![w] = Tail(@)]
    /\ Goto(w, "metadata")
    /\ unedited' = [unedited EXCEPT ![w] = TRUE]
    /\ alone' = [alone EXCEPT ![w] = \A u \in Worker : ~ At(u, Head(todo[w]))]
    /\ UNCHANGED <<history, index, job, hash, text, report, between, settled, torn>>

\* What index_file leaves behind of the current file.
LeaveFile(w) ==
    /\ Goto(w, "next")
    /\ hash' = [hash EXCEPT ![w] = Gone]
    /\ text' = [text EXCEPT ![w] = Gone]

\* The file is in the index, skipped or written.
Through(w) ==
    /\ settled' = [settled EXCEPT ![file[w]] = @ \/ (unedited[w] /\ alone[w])]
    /\ UNCHANGED <<unedited, alone, between>>

\* Mutant of FileFails: the exception of one file ends the batch.
FileFailsBatch(w) ==
    /\ phase[w] \in Working
    /\ failed' = [failed EXCEPT ![w] = @ \cup {file[w]}]
    /\ todo' = [todo EXCEPT ![w] = <<>>]
    /\ LeaveFile(w)
    /\ UNCHANGED <<history, index, job, file, indexed, skipped, ghosts>>

\* Mutant of FileFails: the loop tries the same file again.
FileRetried(w) ==
    /\ phase[w] \in Working
    /\ Goto(w, "metadata")
    /\ hash' = [hash EXCEPT ![w] = Gone]
    /\ text' = [text EXCEPT ![w] = Gone]
    /\ UNCHANGED <<history, index, job, todo, file, report, ghosts>>

\* `except Exception`: the file is reported as failed and the loop goes on.
FileFails(w) ==
    /\ phase[w] \in Working
    /\ failed' = [failed EXCEPT ![w] = @ \cup {file[w]}]
    /\ LeaveFile(w)
    /\ UNCHANGED <<history, index, job, todo, file, indexed, skipped, ghosts>>

\* The result is sent or printed.
FinishJob(w) ==
    /\ phase[w] = "next"
    /\ todo[w] = <<>>
    /\ Goto(w, "idle")
    /\ job' = [job EXCEPT ![w] = NoJob]
    /\ indexed' = [indexed EXCEPT ![w] = {}]
    /\ skipped' = [skipped EXCEPT ![w] = {}]
    /\ failed' = [failed EXCEPT ![w] = {}]
    /\ UNCHANGED <<history, index, todo, file, hash, text, ghosts>>

----------------------------------------------------------------------------
(* index_file.                                                             *)

\* extract_file_metadata; a file that is gone raises (FileFails).
ReadMetadata(w) ==
    /\ phase[w] = "metadata"
    /\ disk(file[w]) # Gone
    /\ hash' = [hash EXCEPT ![w] = disk(file[w])]
    /\ Goto(w, "parse")
    /\ between' = [between EXCEPT ![w] = FALSE]
    /\ UNCHANGED <<history, index, job, todo, file, text, report,
                   unedited, alone, settled, torn>>

\* Mutant of ParseAndChunk: a file that is gone is parsed as an empty one.
ParseMissing(w) ==
    /\ phase[w] = "parse"
    /\ text' = [text EXCEPT ![w] = disk(file[w])]
    /\ Goto(w, "dedup")
    /\ UNCHANGED <<history, index, job, todo, file, hash, report, ghosts>>

\* parser.parse reads the file again, and chunk_document runs on the result.
ParseAndChunk(w) ==
    /\ phase[w] = "parse"
    /\ disk(file[w]) # Gone
    /\ text' = [text EXCEPT ![w] = disk(file[w])]
    /\ Goto(w, "dedup")
    /\ UNCHANGED <<history, index, job, todo, file, hash, report, ghosts>>

\* Mutant of UpToDate: any row of the path will do.
StoredAtAll(w) == index[file[w]] # NoRow

\* should_skip_embedding: the stored hash is the hash of the metadata.
UpToDate(w) == index[file[w]] # NoRow /\ index[file[w]].hash = hash[w]

Skip(w) ==
    /\ phase[w] = "dedup"
    /\ UpToDate(w)
    /\ skipped' = [skipped EXCEPT ![w] = @ \cup {file[w]}]
    /\ LeaveFile(w)
    /\ Through(w)
    /\ UNCHANGED <<history, index, job, todo, file, indexed, failed, torn>>

DoNotSkip(w) ==
    /\ phase[w] = "dedup"
    /\ ~ UpToDate(w)
    /\ Goto(w, "embed")
    /\ UNCHANGED <<history, index, job, todo, file, hash, text, report, ghosts>>

\* _embed_child_chunks calls the model; the vectors are those of Embedder.
Embed(w) ==
    /\ phase[w] = "embed"
    /\ Goto(w, "upsert")
    /\ UNCHANGED <<history, index, job, todo, file, hash, text, report, ghosts>>

\* Mutant of Upsert: the hash is taken when the row is written.
UpsertRehashing(w) ==
    /\ phase[w] = "upsert"
    /\ disk(file[w]) # Gone
    /\ index' = [index EXCEPT ![file[w]] = [hash |-> disk(file[w]), text |-> text[w],
                                            coll |-> job[w].coll, model |-> job[w].model]]
    /\ torn' = [torn EXCEPT ![file[w]] = between[w]]
    /\ indexed' = [indexed EXCEPT ![w] = @ \cup {file[w]}]
    /\ LeaveFile(w)
    /\ Through(w)
    /\ UNCHANGED <<history, job, todo, file, skipped, failed>>

Upsert(w) ==
    /\ phase[w] = "upsert"
    /\ index' = [index EXCEPT ![file[w]] =
            [hash |-> hash[w], text |-> text[w], coll |-> job[w].coll, model |-> job[w].model]]
    /\ torn' = [torn EXCEPT ![file[w]] = between[w]]
    /\ indexed' = [indexed EXCEPT ![w] = @ \cup {file[w]}]
    /\ LeaveFile(w)
    /\ Through(w)
    /\ UNCHANGED <<history, job, todo, file, skipped, failed>>

\* The process dies; the job is lost with it.
Crash(w) ==
    /\ phase[w] # "idle"
    /\ Goto(w, "idle")
    /\ job' = [job EXCEPT ![w] = NoJob]
    /\ todo' = [todo EXCEPT ![w] = <<>>]
    /\ hash' = [hash EXCEPT ![w] = Gone]
    /\ text' = [text EXCEPT ![w] = Gone]
    /\ indexed' = [indexed EXCEPT ![w] = {}]
    /\ skipped' = [skipped EXCEPT ![w] = {}]
    /\ failed' = [failed EXCEPT ![w] = {}]
    /\ UNCHANGED <<history, index, file, ghosts>>

WorkerStep(w) ==
    \/ NextFile(w) \/ FileFails(w) \/ FinishJob(w)
    \/ ReadMetadata(w) \/ ParseAndChunk(w)
    \/ Skip(w) \/ DoNotSkip(w) \/ Embed(w) \/ Upsert(w)

Next ==
    \/ \E p \in Path, c \in Content \cup {Gone} : Edit(p, c)
    \/ \E w \in Worker :
        \/ \E j \in JobsOf[w] : StartJob(w, j)
        \/ WorkerStep(w)
        \/ Crash(w)

Spec == Init /\ [][Next]_vars

\* Every call of a live worker ends, with its result or an exception.
FairSpec == Spec /\ \A w \in Worker : WF_vars(WorkerStep(w))

----------------------------------------------------------------------------
(* Properties.                                                             *)

Current(p) == index[p] # NoRow /\ index[p].hash = disk(p)

\* A file that a worker indexed or skipped, which took it up after its last
\* change and while no other worker was at it, is in the index under the hash
\* of what is on disk, until it changes again: whoever else comes later.  And
\* whoever wrote it, at whatever speed: where the hash is that of what is on
\* disk, which the next run will skip, so is the text, unless the row is of a
\* worker under whose two reads the file changed.  Such a row, hash of A and
\* text of B, is taken for current when the file is A again.
SettledIsCurrent ==
    \A p \in Path :
        /\ settled[p] => Current(p)
        /\ Current(p) /\ ~ torn[p] => index[p].text = disk(p)

\* At the end of a batch every file of the walk up to the limit is reported as
\* indexed, skipped or failed, and the first two are in the index.
BatchAccountsForAll ==
    \A w \in Worker : phase[w] = "next" /\ todo[w] = <<>> =>
        /\ \A i \in 1..Len(job[w].files) : i <= MaxFiles =>
                job[w].files[i] \in indexed[w] \cup skipped[w] \cup failed[w]
        /\ \A p \in indexed[w] \cup skipped[w] : index[p] # NoRow

\* The text that is served under a hash is never older than the content the
\* hash was taken of: the contents the file had have them in that order.
TextNotOlderThanHash ==
    \A p \in Path : index[p] # NoRow =>
        \E i \in DOMAIN history[p] : \E k \in i..Len(history[p]) :
            history[p][i] = index[p].hash /\ history[p][k] = index[p].text

\* A batch that was begun ends.
BatchesEnd == \A w \in Worker : phase[w] # "idle" ~> phase[w] = "idle"

\* README.md: re-indexing is what a change of model takes.
ReindexChangesModel ==
    \A w \in Worker : phase[w] = "next" /\ todo[w] = <<>> =>
        \A p \in indexed[w] \cup skipped[w] : index[p].model = job[w].model
=============================================================================
