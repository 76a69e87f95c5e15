-------------------------- MODULE IngestionProofs ---------------------------
(***************************************************************************)
(* Theorems about IngestPipeline and about Embedder, which is one step of  *)
(* it: for any files, contents, workers and jobs, what the index serves    *)
(* is what is on disk once indexing is through; and for any documents,     *)
(* providers, batch size and size of cache, the cache holds what was used  *)
(* last, each chunk gets a vector of its own text, and a retry pays for    *)
(* what is missing.  The two have no variable in common.                   *)
(***************************************************************************)
EXTENDS IngestPipeline, Embedder, SequenceTheorems, TLAPS

----------------------------------------------------------------------------
(* Ingestion: the inductive invariant.                                     *)

\* A file has a content, or is gone.
HistoryInv == \A p \in Path : Len(history[p]) >= 1

\* In the history s the content h was on disk, and t at the same time or later.
Occurs(s, h) == \E i \in DOMAIN s : s[i] = h
InOrder(s, h, t) == \E i \in DOMAIN s : \E k \in i..Len(s) : s[i] = h /\ s[k] = t

HasBoth == {"dedup", "embed", "upsert"}

OrderInv ==
    /\ \A w \in Worker : phase[w] = "parse" => Occurs(history[file[w]], hash[w])
    /\ \A w \in Worker : phase[w] \in HasBoth => InOrder(history[file[w]], hash[w], text[w])
    /\ \A p \in Path : index[p] # NoRow => InOrder(history[p], index[p].hash, index[p].text)

\* What a worker has of an unedited file is what is on disk.
ReadInv ==
    \A w \in Worker : unedited[w] =>
        /\ phase[w] \in HasBoth \cup {"parse"} => hash[w] = disk(file[w])
        /\ phase[w] \in HasBoth => text[w] = disk(file[w])

\* Hash and text are of one content, unless the file changed between the reads.
PairInv ==
    /\ \A p \in Path : index[p] # NoRow /\ ~ torn[p] => index[p].text = index[p].hash
    /\ \A w \in Worker : ~ between[w] =>
        /\ phase[w] = "parse" => hash[w] = disk(file[w])
        /\ phase[w] \in HasBoth => text[w] = hash[w]

\* Who is at a file with a worker that was alone with it, or after one that got
\* through with it, came after its last change too.
TurnInv ==
    /\ \A w, u \in Worker, p \in Path :
        At(w, p) /\ At(u, p) /\ alone[w] /\ unedited[w] => unedited[u]
    /\ \A p \in Path, u \in Worker : settled[p] /\ At(u, p) => unedited[u]

\* A file of the batch is reported, or being worked on, or still to come.
Reported(w) == indexed[w] \cup skipped[w] \cup failed[w]
Coming(w) == {todo[w][k] : k \in 1..Len(todo[w])}
Covered(w) == Reported(w) \cup {p \in {file[w]} : phase[w] \in Working} \cup Coming(w)
ReportInv ==
    \A w \in Worker :
        /\ \A p \in indexed[w] \cup skipped[w] : index[p] # NoRow
        /\ phase[w] # "idle" =>
            \A i \in 1..Len(FilesOf(job[w])) : FilesOf(job[w])[i] \in Covered(w)

\* A worker that got through with a file: the first part of SettledIsCurrent.
SettledInv == \A p \in Path : settled[p] => Current(p)

IInv ==
    /\ TypeOK /\ HistoryInv /\ OrderInv /\ ReadInv /\ PairInv /\ TurnInv
    /\ SettledInv /\ ReportInv

----------------------------------------------------------------------------
(* Types.                                                                  *)

LEMMA AnyPathIsPath == AnyPath \in Path
  BY IngestAssumption DEF AnyPath

\* The walk, cut at the limit, is a beginning of what was found.
LEMMA WalkIsPrefix ==
  ASSUME NEW j \in Job
  PROVE  /\ FilesOf(j) \in Seq(Path)
         /\ Len(FilesOf(j)) = IF Len(j.files) < MaxFiles THEN Len(j.files) ELSE MaxFiles
         /\ \A i \in 1..Len(FilesOf(j)) : FilesOf(j)[i] = j.files[i]
<1>1. j.files \in Seq(Path) /\ MaxFiles \in Nat /\ Len(j.files) \in Nat
  BY IngestAssumption
<1> DEFINE n == IF Len(j.files) < MaxFiles THEN Len(j.files) ELSE MaxFiles
<1>2. n \in Nat /\ n <= Len(j.files) /\ FilesOf(j) = SubSeq(j.files, 1, n)
  BY <1>1 DEF FilesOf
<1> HIDE DEF n
<1>3. QED
  BY <1>1, <1>2, SubSeqProperties DEF n

LEMMA TypeInit == Init => TypeOK
  BY IngestAssumption, AnyPathIsPath DEF Init, TypeOK, Working, report, ghosts

LEMMA TypeNext == TypeOK /\ HistoryInv /\ [Next]_vars => TypeOK'
<1> SUFFICES ASSUME TypeOK, HistoryInv, [Next]_vars PROVE TypeOK'
  OBVIOUS
<1> USE DEF TypeOK, Working
<1>1. CASE UNCHANGED vars
  BY <1>1 DEF vars, report, ghosts
<1>2. ASSUME NEW p \in Path, NEW c \in Content \cup {Gone}, Edit(p, c) PROVE TypeOK'
  <2>1. Append(history[p], c) \in Seq(Content \cup {Gone})
    BY AppendProperties
  <2>2. history' \in [Path -> Seq(Content \cup {Gone})]
    BY <1>2, <2>1 DEF Edit
  <2>3. QED
    BY <1>2, <2>2 DEF Edit, report
<1>3. ASSUME NEW w \in Worker, NEW j \in JobsOf[w], StartJob(w, j) PROVE TypeOK'
  <2>1. j \in Job /\ FilesOf(j) \in Seq(Path)
    BY WalkIsPrefix, IngestAssumption
  <2>2. QED
    BY <1>3, <2>1 DEF StartJob, Goto, report, ghosts
<1>4. ASSUME NEW w \in Worker, WorkerStep(w) PROVE TypeOK'
  <2>1. CASE NextFile(w)
    <3>1. Head(todo[w]) \in Path /\ Tail(todo[w]) \in Seq(Path)
      BY <2>1, HeadTailProperties DEF NextFile
    <3>2. QED
      BY <2>1, <3>1 DEF NextFile, Goto, report
  <2>2. CASE FileFails(w)
    BY <2>2 DEF FileFails, LeaveFile, Goto, ghosts
  <2>3. CASE FinishJob(w)
    BY <2>3 DEF FinishJob, Goto, ghosts
  <2>4. CASE ReadMetadata(w)
    <3>1. disk(file[w]) \in Content \cup {Gone}
      BY LenProperties DEF disk, HistoryInv
    <3>2. QED
      BY <2>4, <3>1 DEF ReadMetadata, Goto, report, ghosts
  <2>5. CASE ParseAndChunk(w)
    <3>1. disk(file[w]) \in Content \cup {Gone}
      BY LenProperties DEF disk, HistoryInv
    <3>2. QED
      BY <2>5, <3>1 DEF ParseAndChunk, Goto, report, ghosts
  <2>6. CASE Skip(w)
    BY <2>6 DEF Skip, LeaveFile, Goto, Through
  <2>7. CASE DoNotSkip(w)
    BY <2>7 DEF DoNotSkip, Goto, report, ghosts
  <2>8. CASE Embed(w)
    BY <2>8 DEF Embed, Goto, report, ghosts
  <2>9. CASE Upsert(w)
    <3>1. job[w].coll \in Coll /\ job[w].model \in Model
      BY <2>9, IngestAssumption DEF Upsert
    <3>2. QED
      BY <2>9, <3>1 DEF Upsert, LeaveFile, Goto, Through, Row
  <2>10. QED
    BY <1>4, <2>1, <2>2, <2>3, <2>4, <2>5, <2>6, <2>7, <2>8, <2>9 DEF WorkerStep
<1>5. ASSUME NEW w \in Worker, Crash(w) PROVE TypeOK'
  BY <1>5 DEF Crash, Goto, ghosts
<1>6. QED
  BY <1>1, <1>2, <1>3, <1>4, <1>5 DEF Next

----------------------------------------------------------------------------
(* Histories.                                                              *)

\* Edit appends to one history; nothing else touches any.
LEMMA EditAppends ==
  ASSUME TypeOK, HistoryInv, NEW p \in Path, NEW c \in Content \cup {Gone}, Edit(p, c)
  PROVE  /\ Len(history[p]) \in Nat
         /\ Len(history'[p]) = Len(history[p]) + 1
         /\ history'[p][Len(history[p]) + 1] = c
         /\ \A i \in 1..Len(history[p]) : history'[p][i] = history[p][i]
         /\ \A q \in Path \ {p} : history'[q] = history[q]
         /\ history'[p] \in Seq(Content \cup {Gone})
<1>1. history[p] \in Seq(Content \cup {Gone}) /\ history'[p] = Append(history[p], c)
  BY DEF TypeOK, Edit
<1>2. \A q \in Path \ {p} : history'[q] = history[q]
  BY DEF TypeOK, Edit
<1>3. QED
  BY <1>1, <1>2, AppendProperties, LenProperties

LEMMA OnlyEditsChangeHistory ==
  ASSUME [Next]_vars
  PROVE  history' = history \/ \E p \in Path, c \in Content \cup {Gone} : Edit(p, c)
  BY DEF Next, vars, WorkerStep, StartJob, NextFile, FileFails, FinishJob, ReadMetadata,
         ParseAndChunk, Skip, DoNotSkip, Embed, Upsert, Crash

LEMMA HistoryInit == Init => HistoryInv
  BY IngestAssumption DEF Init, HistoryInv

LEMMA HistoryNext == TypeOK /\ HistoryInv /\ [Next]_vars => HistoryInv'
<1> SUFFICES ASSUME TypeOK, HistoryInv, [Next]_vars PROVE HistoryInv'
  OBVIOUS
<1>1. CASE history' = history
  BY <1>1 DEF HistoryInv
<1>2. ASSUME NEW p \in Path, NEW c \in Content \cup {Gone}, Edit(p, c) PROVE HistoryInv'
  <2>1. Len(history'[p]) >= 1
    BY <1>2, EditAppends DEF HistoryInv
  <2>2. \A q \in Path \ {p} : Len(history'[q]) >= 1
    BY <1>2, EditAppends DEF HistoryInv
  <2>3. QED
    BY <2>1, <2>2 DEF HistoryInv
<1>3. QED
  BY <1>1, <1>2, OnlyEditsChangeHistory

\* What was on disk stays in the history, in its order.
LEMMA HistoryGrows ==
  ASSUME TypeOK, HistoryInv, [Next]_vars, NEW q \in Path
  PROVE  /\ \A h : Occurs(history[q], h) => Occurs(history'[q], h)
         /\ \A h, t : InOrder(history[q], h, t) => InOrder(history'[q], h, t)
<1>1. CASE history' = history
  BY <1>1
<1>2. ASSUME NEW p \in Path, NEW c \in Content \cup {Gone}, Edit(p, c)
      PROVE  /\ \A h : Occurs(history[q], h) => Occurs(history'[q], h)
             /\ \A h, t : InOrder(history[q], h, t) => InOrder(history'[q], h, t)
  <2>1. CASE q # p
    BY <1>2, <2>1, EditAppends
  <2>2. CASE q = p
    <3> DEFINE n == Len(history[q])
    <3>1. /\ n \in Nat /\ Len(history'[q]) = n + 1
          /\ DOMAIN history[q] = 1..n /\ DOMAIN history'[q] = 1..(n + 1)
          /\ \A i \in 1..n : history'[q][i] = history[q][i]
      BY <1>2, <2>2, EditAppends, LenProperties DEF TypeOK
    <3>2. QED
      BY <3>1 DEF Occurs, InOrder
  <2>3. QED
    BY <2>1, <2>2
<1>3. QED
  BY <1>1, <1>2, OnlyEditsChangeHistory

\* The content on disk is the last of the history.
LEMMA DiskIsLast ==
  ASSUME TypeOK, HistoryInv, NEW p \in Path
  PROVE  /\ disk(p) \in Content \cup {Gone}
         /\ Len(history[p]) \in DOMAIN history[p]
         /\ \A i \in DOMAIN history[p] : i \in Nat /\ i <= Len(history[p])
         /\ Occurs(history[p], disk(p))
         /\ \A h : Occurs(history[p], h) => InOrder(history[p], h, disk(p))
<1>1. /\ history[p] \in Seq(Content \cup {Gone}) /\ Len(history[p]) \in Nat
      /\ Len(history[p]) >= 1 /\ DOMAIN history[p] = 1..Len(history[p])
  BY LenProperties DEF TypeOK, HistoryInv
<1>2. disk(p) = history[p][Len(history[p])]
  BY DEF disk
<1>3. QED
  BY <1>1, <1>2 DEF Occurs, InOrder

----------------------------------------------------------------------------
(* Texts and hashes.                                                       *)

LEMMA OrderInit == Init => OrderInv
  BY DEF Init, OrderInv, HasBoth

LEMMA OrderNext == TypeOK /\ HistoryInv /\ OrderInv /\ [Next]_vars => OrderInv'
<1> SUFFICES ASSUME TypeOK, HistoryInv, OrderInv, [Next]_vars PROVE OrderInv'
  OBVIOUS
<1> USE DEF OrderInv, HasBoth
<1>a. \A q \in Path : \A h : Occurs(history[q], h) => Occurs(history'[q], h)
  BY HistoryGrows
<1>b. \A q \in Path : \A h, t : InOrder(history[q], h, t) => InOrder(history'[q], h, t)
  BY HistoryGrows
<1>c. file \in [Worker -> Path] /\ phase \in [Worker -> {"idle", "next"} \cup Working]
  BY DEF TypeOK
<1>1. CASE UNCHANGED vars
  BY <1>1 DEF vars
<1>2. ASSUME NEW p \in Path, NEW c \in Content \cup {Gone}, Edit(p, c) PROVE OrderInv'
  BY <1>2, <1>a, <1>b, <1>c DEF Edit
<1>3. ASSUME NEW w \in Worker, NEW j \in JobsOf[w], StartJob(w, j) PROVE OrderInv'
  BY <1>3, <1>c DEF StartJob, Goto
<1>4. ASSUME NEW w \in Worker, WorkerStep(w) PROVE OrderInv'
  <2>1. CASE NextFile(w)
    BY <2>1, <1>c DEF NextFile, Goto
  <2>2. CASE FileFails(w)
    BY <2>2, <1>c DEF FileFails, LeaveFile, Goto, TypeOK
  <2>3. CASE FinishJob(w)
    BY <2>3, <1>c DEF FinishJob, Goto
  <2>4. CASE ReadMetadata(w)
    <3>1. Occurs(history[file[w]], disk(file[w]))
      BY <1>c, DiskIsLast
    <3>2. QED
      BY <2>4, <3>1, <1>c DEF ReadMetadata, Goto, TypeOK
  <2>5. CASE ParseAndChunk(w)
    <3>1. InOrder(history[file[w]], hash[w], disk(file[w]))
      BY <2>5, <1>c, DiskIsLast DEF ParseAndChunk
    <3>2. QED
      BY <2>5, <3>1, <1>c DEF ParseAndChunk, Goto, TypeOK
  <2>6. CASE Skip(w)
    BY <2>6, <1>c DEF Skip, LeaveFile, Goto, TypeOK
  <2>7. CASE DoNotSkip(w)
    BY <2>7, <1>c DEF DoNotSkip, Goto
  <2>8. CASE Embed(w)
    BY <2>8, <1>c DEF Embed, Goto
  <2>9. CASE Upsert(w)
    <3>1. InOrder(history[file[w]], hash[w], text[w])
      BY <2>9 DEF Upsert
    <3>2. \A q \in Path : index'[q] # NoRow => InOrder(history[q], index'[q].hash, index'[q].text)
      BY <2>9, <3>1 DEF Upsert, TypeOK
    <3>3. QED
      BY <2>9, <3>2, <1>c DEF Upsert, LeaveFile, Goto, TypeOK
  <2>10. QED
    BY <1>4, <2>1, <2>2, <2>3, <2>4, <2>5, <2>6, <2>7, <2>8, <2>9 DEF WorkerStep
<1>5. ASSUME NEW w \in Worker, Crash(w) PROVE OrderInv'
  BY <1>5, <1>c DEF Crash, Goto, TypeOK
<1>6. QED
  BY <1>1, <1>2, <1>3, <1>4, <1>5 DEF Next

----------------------------------------------------------------------------
(* Reports.                                                                *)

LEMMA ReportInit == Init => ReportInv
  BY DEF Init, ReportInv

\* Nothing is taken out of the index.
LEMMA RowsStay ==
  ASSUME TypeOK, [Next]_vars, NEW p \in Path, index[p] # NoRow
  PROVE  index'[p] # NoRow
<1>1. CASE index' = index
  BY <1>1
<1>2. ASSUME NEW w \in Worker, Upsert(w) PROVE index'[p] # NoRow
  <2> DEFINE row == [hash |-> hash[w], text |-> text[w],
                     coll |-> job[w].coll, model |-> job[w].model]
  <2>1. row \in Row
    BY <1>2, IngestAssumption DEF Upsert, TypeOK, Row, Working
  <2>2. row # NoRow /\ index' = [index EXCEPT ![file[w]] = row]
    BY <1>2, <2>1, IngestAssumption DEF Row, Upsert
  <2> HIDE DEF row
  <2>3. QED
    BY <2>2 DEF TypeOK
<1>3. QED
  BY <1>1, <1>2 DEF Next, vars, WorkerStep, Edit, StartJob, NextFile, FileFails, FinishJob,
         ReadMetadata, ParseAndChunk, Skip, DoNotSkip, Embed, Crash

\* The row that upsert writes is a row.
LEMMA UpsertWrites ==
  ASSUME TypeOK, NEW w \in Worker, Upsert(w)
  PROVE  /\ index'[file[w]] # NoRow
         /\ index'[file[w]].hash = hash[w] /\ index'[file[w]].text = text[w]
         /\ \A q \in Path \ {file[w]} : index'[q] = index[q]
<1> DEFINE row == [hash |-> hash[w], text |-> text[w],
                   coll |-> job[w].coll, model |-> job[w].model]
<1>1. row \in Row
  BY IngestAssumption DEF Upsert, TypeOK, Row, Working
<1>2. row # NoRow /\ index' = [index EXCEPT ![file[w]] = row]
  BY <1>1, IngestAssumption DEF Row, Upsert
<1>3. row.hash = hash[w] /\ row.text = text[w]
  OBVIOUS
<1> HIDE DEF row
<1>4. QED
  BY <1>2, <1>3 DEF TypeOK

LEMMA NextFileTakesOne ==
  ASSUME TypeOK, NEW w \in Worker, todo[w] # <<>>
  PROVE  Coming(w) \subseteq {Head(todo[w])} \cup {Tail(todo[w])[k] : k \in 1..Len(Tail(todo[w]))}
<1>1. /\ Head(todo[w]) = todo[w][1]
      /\ Len(todo[w]) \in Nat
      /\ Len(Tail(todo[w])) = Len(todo[w]) - 1
      /\ \A k \in 2..Len(todo[w]) : todo[w][k] = Tail(todo[w])[k - 1]
  BY HeadTailProperties, LenProperties DEF TypeOK
<1>2. ASSUME NEW k \in 1..Len(todo[w]), k # 1
      PROVE  \E l \in 1..Len(Tail(todo[w])) : Tail(todo[w])[l] = todo[w][k]
  <2>1. k - 1 \in 1..Len(Tail(todo[w])) /\ Tail(todo[w])[k - 1] = todo[w][k]
    BY <1>1, <1>2
  <2>2. QED
    BY <2>1
<1>3. QED
  BY <1>1, <1>2 DEF Coming

\* A step of a batch keeps its files covered, and leaves the others alone.
LEMMA StepCovers ==
  ASSUME TypeOK, NEW w \in Worker, WorkerStep(w)
  PROVE  /\ \A u \in Worker \ {w} :
                /\ phase'[u] = phase[u] /\ job'[u] = job[u] /\ Covered(u)' = Covered(u)
                /\ indexed'[u] = indexed[u] /\ skipped'[u] = skipped[u]
         /\ phase[w] # "idle"
         /\ phase'[w] # "idle" => job'[w] = job[w] /\ Covered(w) \subseteq Covered(w)'
<1> USE DEF Covered, Reported, Coming
<1>c. /\ file \in [Worker -> Path] /\ phase \in [Worker -> {"idle", "next"} \cup Working]
      /\ todo \in [Worker -> Seq(Path)] /\ job \in [Worker -> Job \cup {NoJob}]
      /\ indexed \in [Worker -> SUBSET Path] /\ skipped \in [Worker -> SUBSET Path]
      /\ failed \in [Worker -> SUBSET Path]
  BY DEF TypeOK
<1>1. CASE NextFile(w)
  <2>1. Coming(w) \subseteq {Head(todo[w])} \cup {Tail(todo[w])[k] : k \in 1..Len(Tail(todo[w]))}
    BY <1>1, NextFileTakesOne DEF NextFile
  <2>2. /\ file'[w] = Head(todo[w]) /\ todo'[w] = Tail(todo[w])
        /\ phase[w] = "next" /\ phase'[w] = "metadata"
        /\ UNCHANGED <<job, indexed, skipped, failed>>
        /\ \A u \in Worker \ {w} :
            file'[u] = file[u] /\ todo'[u] = todo[u] /\ phase'[u] = phase[u]
    BY <1>1, <1>c DEF NextFile, Goto, report
  <2>3. \A u \in Worker \ {w} : Covered(u)' = Covered(u)
    BY <2>2
  <2>4. Coming(w)' = {Tail(todo[w])[k] : k \in 1..Len(Tail(todo[w]))}
    BY <2>2
  <2>5. Reported(w)' = Reported(w) /\ Covered(w) = Reported(w) \cup Coming(w)
    BY <2>2 DEF Working
  <2>6. Covered(w)' = Reported(w) \cup {Head(todo[w])} \cup Coming(w)'
    BY <2>2 DEF Working
  <2> HIDE DEF Covered, Reported, Coming
  <2>7. QED
    BY <2>1, <2>2, <2>3, <2>4, <2>5, <2>6
<1>2. CASE FileFails(w)
  BY <1>2, <1>c DEF FileFails, LeaveFile, Goto, Working
<1>3. CASE FinishJob(w)
  BY <1>3, <1>c DEF FinishJob, Goto, Working
<1>4. CASE ReadMetadata(w)
  BY <1>4, <1>c DEF ReadMetadata, Goto, report, Working
<1>5. CASE ParseAndChunk(w)
  BY <1>5, <1>c DEF ParseAndChunk, Goto, report, Working
<1>6. CASE Skip(w)
  BY <1>6, <1>c DEF Skip, LeaveFile, Goto, Working
<1>7. CASE DoNotSkip(w)
  BY <1>7, <1>c DEF DoNotSkip, Goto, report, Working
<1>8. CASE Embed(w)
  BY <1>8, <1>c DEF Embed, Goto, report, Working
<1>9. CASE Upsert(w)
  BY <1>9, <1>c DEF Upsert, LeaveFile, Goto, Working
<1>10. QED
  BY <1>1, <1>2, <1>3, <1>4, <1>5, <1>6, <1>7, <1>8, <1>9 DEF WorkerStep

\* What a worker has just reported as indexed or skipped is in the index.
LEMMA StepReports ==
  ASSUME TypeOK, NEW w \in Worker, WorkerStep(w), NEW p \in indexed'[w] \cup skipped'[w]
  PROVE  p \in indexed[w] \cup skipped[w] \/ (p \in Path /\ index'[p] # NoRow)
<1>c. /\ file \in [Worker -> Path]
      /\ indexed \in [Worker -> SUBSET Path] /\ skipped \in [Worker -> SUBSET Path]
  BY DEF TypeOK
<1>1. CASE Upsert(w)
  <2>1. p \in indexed[w] \cup {file[w]} \cup skipped[w]
    BY <1>1, <1>c DEF Upsert
  <2>2. index'[file[w]] # NoRow /\ file[w] \in Path
    BY <1>1, <1>c, UpsertWrites
  <2>3. QED
    BY <2>1, <2>2
<1>2. CASE Skip(w)
  BY <1>2, <1>c DEF Skip, UpToDate
<1>3. CASE FinishJob(w)
  BY <1>3, <1>c DEF FinishJob
<1>4. CASE indexed' = indexed /\ skipped' = skipped
  BY <1>4
<1>5. QED
  BY <1>1, <1>2, <1>3, <1>4 DEF WorkerStep, NextFile, FileFails, ReadMetadata,
         ParseAndChunk, DoNotSkip, Embed, report

LEMMA ReportNext == TypeOK /\ ReportInv /\ [Next]_vars => ReportInv'
<1> SUFFICES ASSUME TypeOK, ReportInv, [Next]_vars PROVE ReportInv'
  OBVIOUS
<1>c. /\ file \in [Worker -> Path] /\ phase \in [Worker -> {"idle", "next"} \cup Working]
      /\ todo \in [Worker -> Seq(Path)] /\ job \in [Worker -> Job \cup {NoJob}]
      /\ indexed \in [Worker -> SUBSET Path] /\ skipped \in [Worker -> SUBSET Path]
      /\ failed \in [Worker -> SUBSET Path]
  BY DEF TypeOK
<1>1. CASE UNCHANGED vars
  BY <1>1 DEF vars, report, ReportInv, Covered, Reported, Coming
<1>2. ASSUME NEW p \in Path, NEW c \in Content \cup {Gone}, Edit(p, c) PROVE ReportInv'
  BY <1>2 DEF Edit, report, ReportInv, Covered, Reported, Coming
<1>3. ASSUME NEW w \in Worker, NEW j \in JobsOf[w], StartJob(w, j) PROVE ReportInv'
  <2>1. /\ job'[w] = j /\ todo'[w] = FilesOf(j)
        /\ \A u \in Worker \ {w} :
            job'[u] = job[u] /\ todo'[u] = todo[u] /\ phase'[u] = phase[u]
        /\ UNCHANGED <<index, file, indexed, skipped, failed>>
    BY <1>3, <1>c DEF StartJob, Goto, report
  <2>2. QED
    BY <2>1 DEF ReportInv, Covered, Reported, Coming
<1>4. ASSUME NEW w \in Worker, WorkerStep(w) PROVE ReportInv'
  <2>1. ASSUME NEW u \in Worker, NEW p \in indexed'[u] \cup skipped'[u] PROVE index'[p] # NoRow
    <3>1. p \in indexed[u] \cup skipped[u] \/ (p \in Path /\ index'[p] # NoRow)
      BY <1>4, <2>1, StepCovers, StepReports
    <3>2. QED
      BY <3>1, RowsStay, <1>c DEF ReportInv
  <2>2. ASSUME NEW u \in Worker, phase'[u] # "idle"
        PROVE  \A i \in 1..Len(FilesOf(job'[u])) : FilesOf(job'[u])[i] \in Covered(u)'
    <3>1. job'[u] = job[u] /\ phase[u] # "idle" /\ Covered(u) \subseteq Covered(u)'
      BY <1>4, <2>2, StepCovers
    <3>2. QED
      BY <3>1 DEF ReportInv
  <2>3. QED
    BY <2>1, <2>2 DEF ReportInv, FilesOf
<1>5. ASSUME NEW w \in Worker, Crash(w) PROVE ReportInv'
  <2>1. /\ phase'[w] = "idle" /\ indexed'[w] = {} /\ skipped'[w] = {}
        /\ UNCHANGED <<index, file>>
        /\ \A u \in Worker \ {w} :
            /\ phase'[u] = phase[u] /\ job'[u] = job[u] /\ todo'[u] = todo[u]
            /\ indexed'[u] = indexed[u] /\ skipped'[u] = skipped[u] /\ failed'[u] = failed[u]
    BY <1>5, <1>c DEF Crash, Goto
  <2>2. \A u \in Worker \ {w} : Covered(u)' = Covered(u)
    BY <2>1 DEF Covered, Reported, Coming
  <2>3. QED
    BY <2>1, <2>2 DEF ReportInv, FilesOf
<1>6. QED
  BY <1>1, <1>2, <1>3, <1>4, <1>5 DEF Next

----------------------------------------------------------------------------
(* What is through.                                                        *)

LEMMA DiskStays ==
  ASSUME history' = history, NEW p \in Path
  PROVE  disk(p)' = disk(p)
  BY DEF disk

LEMMA ReadInit == Init => ReadInv
  BY DEF Init, ReadInv

LEMMA ReadNext == TypeOK /\ HistoryInv /\ ReadInv /\ [Next]_vars => ReadInv'
<1> SUFFICES ASSUME TypeOK, HistoryInv, ReadInv, [Next]_vars PROVE ReadInv'
  OBVIOUS
<1> USE DEF ReadInv, HasBoth
<1>c. /\ file \in [Worker -> Path] /\ phase \in [Worker -> {"idle", "next"} \cup Working]
      /\ hash \in [Worker -> Content \cup {Gone}] /\ text \in [Worker -> Content \cup {Gone}]
      /\ unedited \in [Worker -> BOOLEAN]
  BY DEF TypeOK
<1>d. history' = history => \A q \in Path : disk(q)' = disk(q)
  BY DiskStays
<1>1. CASE UNCHANGED vars
  BY <1>1, <1>c, <1>d DEF vars, ghosts
<1>2. ASSUME NEW p \in Path, NEW c \in Content \cup {Gone}, Edit(p, c) PROVE ReadInv'
  <2>1. \A q \in Path \ {p} : disk(q)' = disk(q)
    BY <1>2, EditAppends DEF disk
  <2>2. QED
    BY <1>2, <2>1, <1>c DEF Edit, At, Working
<1>3. ASSUME NEW w \in Worker, NEW j \in JobsOf[w], StartJob(w, j) PROVE ReadInv'
  BY <1>3, <1>c, <1>d DEF StartJob, Goto, ghosts
<1>4. ASSUME NEW w \in Worker, WorkerStep(w) PROVE ReadInv'
  <2>1. CASE NextFile(w)
    BY <2>1, <1>c, <1>d DEF NextFile, Goto
  <2>2. CASE FileFails(w)
    BY <2>2, <1>c, <1>d DEF FileFails, LeaveFile, Goto, ghosts
  <2>3. CASE FinishJob(w)
    BY <2>3, <1>c, <1>d DEF FinishJob, Goto, ghosts
  <2>4. CASE ReadMetadata(w)
    BY <2>4, <1>c, <1>d DEF ReadMetadata, Goto, ghosts
  <2>5. CASE ParseAndChunk(w)
    BY <2>5, <1>c, <1>d DEF ParseAndChunk, Goto, ghosts
  <2>6. CASE Skip(w)
    BY <2>6, <1>c, <1>d DEF Skip, LeaveFile, Goto, Through
  <2>7. CASE DoNotSkip(w)
    BY <2>7, <1>c, <1>d DEF DoNotSkip, Goto, ghosts
  <2>8. CASE Embed(w)
    BY <2>8, <1>c, <1>d DEF Embed, Goto, ghosts
  <2>9. CASE Upsert(w)
    BY <2>9, <1>c, <1>d DEF Upsert, LeaveFile, Goto, Through
  <2>10. QED
    BY <1>4, <2>1, <2>2, <2>3, <2>4, <2>5, <2>6, <2>7, <2>8, <2>9 DEF WorkerStep
<1>5. ASSUME NEW w \in Worker, Crash(w) PROVE ReadInv'
  BY <1>5, <1>c, <1>d DEF Crash, Goto, ghosts
<1>6. QED
  BY <1>1, <1>2, <1>3, <1>4, <1>5 DEF Next

LEMMA PairInit == Init => PairInv
  BY DEF Init, PairInv, HasBoth

LEMMA PairNext == TypeOK /\ HistoryInv /\ PairInv /\ [Next]_vars => PairInv'
<1> SUFFICES ASSUME TypeOK, HistoryInv, PairInv, [Next]_vars PROVE PairInv'
  OBVIOUS
<1> USE DEF PairInv, HasBoth
<1>c. /\ file \in [Worker -> Path] /\ phase \in [Worker -> {"idle", "next"} \cup Working]
      /\ hash \in [Worker -> Content \cup {Gone}] /\ text \in [Worker -> Content \cup {Gone}]
      /\ between \in [Worker -> BOOLEAN] /\ torn \in [Path -> BOOLEAN]
  BY DEF TypeOK
<1>d. history' = history => \A q \in Path : disk(q)' = disk(q)
  BY DiskStays
<1>1. CASE UNCHANGED vars
  BY <1>1, <1>c, <1>d DEF vars, ghosts
<1>2. ASSUME NEW p \in Path, NEW c \in Content \cup {Gone}, Edit(p, c) PROVE PairInv'
  <2>1. \A q \in Path \ {p} : disk(q)' = disk(q)
    BY <1>2, EditAppends DEF disk
  <2>2. QED
    BY <1>2, <2>1, <1>c DEF Edit
<1>3. ASSUME NEW w \in Worker, NEW j \in JobsOf[w], StartJob(w, j) PROVE PairInv'
  BY <1>3, <1>c, <1>d DEF StartJob, Goto, ghosts
<1>4. ASSUME NEW w \in Worker, WorkerStep(w) PROVE PairInv'
  <2>1. CASE NextFile(w)
    BY <2>1, <1>c, <1>d DEF NextFile, Goto
  <2>2. CASE FileFails(w)
    BY <2>2, <1>c, <1>d DEF FileFails, LeaveFile, Goto, ghosts
  <2>3. CASE FinishJob(w)
    BY <2>3, <1>c, <1>d DEF FinishJob, Goto, ghosts
  <2>4. CASE ReadMetadata(w)
    BY <2>4, <1>c, <1>d DEF ReadMetadata, Goto
  <2>5. CASE ParseAndChunk(w)
    BY <2>5, <1>c, <1>d DEF ParseAndChunk, Goto, ghosts
  <2>6. CASE Skip(w)
    BY <2>6, <1>c, <1>d DEF Skip, LeaveFile, Goto, Through
  <2>7. CASE DoNotSkip(w)
    BY <2>7, <1>c, <1>d DEF DoNotSkip, Goto, ghosts
  <2>8. CASE Embed(w)
    BY <2>8, <1>c, <1>d DEF Embed, Goto, ghosts
  <2>9. CASE Upsert(w)
    <3>1. \A q \in Path : index'[q] # NoRow /\ ~ torn'[q] => index'[q].text = index'[q].hash
      BY <2>9, <1>c DEF Upsert, TypeOK
    <3>2. QED
      BY <2>9, <3>1, <1>c, <1>d DEF Upsert, LeaveFile, Goto, Through
  <2>10. QED
    BY <1>4, <2>1, <2>2, <2>3, <2>4, <2>5, <2>6, <2>7, <2>8, <2>9 DEF WorkerStep
<1>5. ASSUME NEW w \in Worker, Crash(w) PROVE PairInv'
  BY <1>5, <1>c, <1>d DEF Crash, Goto, ghosts
<1>6. QED
  BY <1>1, <1>2, <1>3, <1>4, <1>5 DEF Next

LEMMA TurnInit == Init => TurnInv
  BY DEF Init, TurnInv, At, Working

LEMMA TurnNext == TypeOK /\ TurnInv /\ [Next]_vars => TurnInv'
<1> SUFFICES ASSUME TypeOK, TurnInv, [Next]_vars PROVE TurnInv'
  OBVIOUS
<1> USE DEF TurnInv, At
<1>c. /\ file \in [Worker -> Path] /\ phase \in [Worker -> {"idle", "next"} \cup Working]
      /\ unedited \in [Worker -> BOOLEAN] /\ alone \in [Worker -> BOOLEAN]
      /\ settled \in [Path -> BOOLEAN]
  BY DEF TypeOK
<1>1. CASE UNCHANGED vars
  BY <1>1 DEF vars, ghosts
<1>2. ASSUME NEW p \in Path, NEW c \in Content \cup {Gone}, Edit(p, c) PROVE TurnInv'
  BY <1>2, <1>c DEF Edit
<1>3. ASSUME NEW w \in Worker, NEW j \in JobsOf[w], StartJob(w, j) PROVE TurnInv'
  BY <1>3, <1>c DEF StartJob, Goto, ghosts, Working
<1>4. ASSUME NEW w \in Worker, WorkerStep(w) PROVE TurnInv'
  <2>1. CASE NextFile(w)
    BY <2>1, <1>c DEF NextFile, Goto, Working
  <2>2. CASE FileFails(w)
    BY <2>2, <1>c DEF FileFails, LeaveFile, Goto, ghosts, Working
  <2>3. CASE FinishJob(w)
    BY <2>3, <1>c DEF FinishJob, Goto, ghosts, Working
  <2>4. CASE ReadMetadata(w)
    BY <2>4, <1>c DEF ReadMetadata, Goto, ghosts, Working
  <2>5. CASE ParseAndChunk(w)
    BY <2>5, <1>c DEF ParseAndChunk, Goto, ghosts, Working
  <2>6. CASE Skip(w)
    BY <2>6, <1>c DEF Skip, LeaveFile, Goto, Through, Working
  <2>7. CASE DoNotSkip(w)
    BY <2>7, <1>c DEF DoNotSkip, Goto, ghosts, Working
  <2>8. CASE Embed(w)
    BY <2>8, <1>c DEF Embed, Goto, ghosts, Working
  <2>9. CASE Upsert(w)
    BY <2>9, <1>c DEF Upsert, LeaveFile, Goto, Through, Working
  <2>10. QED
    BY <1>4, <2>1, <2>2, <2>3, <2>4, <2>5, <2>6, <2>7, <2>8, <2>9 DEF WorkerStep
<1>5. ASSUME NEW w \in Worker, Crash(w) PROVE TurnInv'
  BY <1>5, <1>c DEF Crash, Goto, ghosts, Working
<1>6. QED
  BY <1>1, <1>2, <1>3, <1>4, <1>5 DEF Next

LEMMA SettledIs == PairInv /\ SettledInv => SettledIsCurrent
  BY DEF PairInv, SettledInv, SettledIsCurrent, Current

LEMMA SettledInit == Init => SettledInv
  BY DEF Init, SettledInv

LEMMA SettledNext == IInv /\ [Next]_vars => SettledInv'
<1> SUFFICES ASSUME IInv, [Next]_vars PROVE SettledInv'
  OBVIOUS
<1>c. /\ file \in [Worker -> Path] /\ settled \in [Path -> BOOLEAN]
      /\ TypeOK /\ HistoryInv /\ ReadInv /\ TurnInv /\ SettledInv
  BY DEF IInv, TypeOK
<1>d. history' = history => \A q \in Path : disk(q)' = disk(q)
  BY DiskStays
<1>1. CASE index' = index /\ settled' = settled /\ history' = history
  BY <1>1, <1>c, <1>d DEF SettledInv, Current
<1>2. ASSUME NEW p \in Path, NEW c \in Content \cup {Gone}, Edit(p, c) PROVE SettledInv'
  <2>1. \A q \in Path \ {p} : disk(q)' = disk(q)
    BY <1>2, <1>c, EditAppends DEF disk
  <2>2. QED
    BY <1>2, <1>c, <2>1 DEF Edit, SettledInv, Current
<1>3. ASSUME NEW w \in Worker, Skip(w) PROVE SettledInv'
  <2> DEFINE p == file[w]
  <2>1. p \in Path /\ index[p] # NoRow /\ index[p].hash = hash[w]
    BY <1>3, <1>c DEF Skip, UpToDate
  <2>2. unedited[w] => hash[w] = disk(p)
    BY <1>3, <1>c DEF ReadInv, Skip, HasBoth
  <2>3. /\ \A q \in Path : settled'[q] => settled[q] \/ (q = p /\ unedited[w])
        /\ index' = index /\ history' = history
    BY <1>3, <1>c DEF Skip, Through
  <2>4. QED
    BY <2>1, <2>2, <2>3, <1>c, <1>d DEF SettledInv, Current
<1>4. ASSUME NEW w \in Worker, Upsert(w) PROVE SettledInv'
  <2> DEFINE p == file[w]
  <2>1. /\ p \in Path /\ index'[p] # NoRow /\ index'[p].hash = hash[w]
        /\ \A q \in Path \ {p} : index'[q] = index[q]
    BY <1>4, <1>c, UpsertWrites
  <2>2. unedited[w] => hash[w] = disk(p)
    BY <1>4, <1>c DEF Upsert, ReadInv, HasBoth
  <2>3. settled[p] => unedited[w]
    BY <1>4, <1>c DEF TurnInv, Upsert, At, Working
  <2>4. /\ \A q \in Path : settled'[q] => settled[q] \/ (q = p /\ unedited[w])
        /\ history' = history
    BY <1>4, <1>c DEF Upsert, Through
  <2>5. QED
    BY <2>1, <2>2, <2>3, <2>4, <1>c, <1>d DEF SettledInv, Current
<1>5. QED
  BY <1>1, <1>2, <1>3, <1>4 DEF Next, vars, ghosts, WorkerStep, StartJob, NextFile, FileFails,
         FinishJob, ReadMetadata, ParseAndChunk, DoNotSkip, Embed, Crash

----------------------------------------------------------------------------
(* Theorems.                                                               *)

\* The inductive invariant holds in every reachable state.
THEOREM Invariant == Spec => []IInv
<1>1. Init => IInv
  BY TypeInit, HistoryInit, OrderInit, ReadInit, PairInit, TurnInit, SettledInit, ReportInit DEF IInv
<1>2. IInv /\ [Next]_vars => IInv'
  BY TypeNext, HistoryNext, OrderNext, ReadNext, PairNext, TurnNext, SettledNext, ReportNext DEF IInv
<1>3. QED
  BY <1>1, <1>2, PTL DEF Spec

\* Every variable of index_path, index_file and the index has its type.
THEOREM TypeCorrect == Spec => []TypeOK
  BY Invariant, PTL DEF IInv

\* A file that a worker got through with, alone and after its last change, is
\* indexed under the hash it has on disk, whichever workers follow; and where the
\* hash is that of the file, so is the text, but for rows of a worker between
\* whose two reads the file changed.
THEOREM SettledFilesAreCurrent == Spec => []SettledIsCurrent
<1>1. IInv => SettledIsCurrent
  BY SettledIs DEF IInv
<1>2. QED
  BY Invariant, <1>1, PTL

\* index_file never stores a text under the hash of a later content.
THEOREM TextIsNotOlder == Spec => []TextNotOlderThanHash
<1>1. IInv => TextNotOlderThanHash
  BY DEF IInv, OrderInv, InOrder, TextNotOlderThanHash
<1>2. QED
  BY Invariant, <1>1, PTL

\* At its end index_path has reported each file up to max_files, and those it
\* calls indexed or skipped are in the index.
THEOREM BatchIsAccountedFor == Spec => []BatchAccountsForAll
<1>1. IInv => BatchAccountsForAll
  <2> SUFFICES ASSUME IInv, NEW w \in Worker, phase[w] = "next", todo[w] = <<>>
               PROVE  /\ \A i \in 1..Len(job[w].files) : i <= MaxFiles =>
                            job[w].files[i] \in Reported(w)
                      /\ \A p \in indexed[w] \cup skipped[w] : index[p] # NoRow
    BY DEF BatchAccountsForAll, Reported
  <2>1. job[w] \in Job /\ Covered(w) = Reported(w)
    BY DEF IInv, TypeOK, Covered, Coming, Working
  <2>2. MaxFiles \in Nat /\ Len(job[w].files) \in Nat
    BY <2>1, LenProperties, IngestAssumption
  <2>3. \A i \in 1..Len(job[w].files) : i <= MaxFiles =>
            i \in 1..Len(FilesOf(job[w])) /\ FilesOf(job[w])[i] = job[w].files[i]
    BY <2>1, <2>2, WalkIsPrefix
  <2>4. QED
    BY <2>1, <2>3 DEF IInv, ReportInv
<1>2. QED
  BY Invariant, <1>1, PTL

----------------------------------------------------------------------------
(* Embedding.                                                              *)

----------------------------------------------------------------------------
(* The inductive invariant.                                                *)

\* The keys of a cache are distinct.
Distinct(c) == \A i, j \in DOMAIN c : c[i].key = c[j].key => i = j

\* c is the end of r.
IsEnd(c, r) ==
    /\ Len(c) <= Len(r)
    /\ \A i \in 1..Len(c) : c[i] = r[Len(r) - Len(c) + i]

\* The cache is the end of the unlimited one, as long as it may be.
CacheInv ==
    /\ Distinct(recency) /\ IsEnd(cache, recency)
    /\ Len(cache) = IF Len(recency) < limit THEN Len(recency) ELSE limit

\* What is sent, and when.
WorkInv ==
    /\ pc = "idle" => pending = <<>> /\ batch = <<>>
    /\ pc = "lookup" => batch = <<>>
    /\ pc # "store" => embeddings = <<>>
    /\ pc = "store" => at > Len(doc.chunks)
    /\ pc # "idle" => calls > 0

PaidFor(txt) == \E r \in paid : r.text = txt
Bought(entry) == \E r \in paid : Key(r.text, r.by) = entry.key /\ r.vector = entry.vector

\* What is in a cache was stored by some call; what came as one of the right number of
\* vectors is that of its text; and a shared cache without limit has all that was stored.
PaidInv ==
    /\ \A i \in DOMAIN recency : Bought(recency[i])
    /\ \A r \in paid : r.whole => r.vector = VectorOf(r.text, r.by)
    /\ shared => \A r \in paid : Holds(recency, Key(r.text, r.by))

\* While a call looks its chunks up, all that was ever stored is of earlier calls, and a
\* cache of its own is empty.
LookUpInv ==
    pc = "lookup" => (\A r \in paid : r.call # calls) /\ (shared \/ recency = <<>>)

\* The right number of vectors means the right vectors.
AnswerInv == Whole => \A i \in 1..Len(batch) : embeddings[i] = VectorOf(batch[i].text, provider)

\* While everything fits, what is to be sent was not paid for by an earlier call.
ToSend == ToSet(pending) \cup ToSet(batch)

FreshInv ==
    shared /\ Len(recency) <= limit =>
        \A c \in ToSend : \A r \in paid : Key(r.text, r.by) = Key(c.text, provider) => r.call = calls

\* A vector for a chunk of this id: of the text of one of them, or found for it.
OwnVector(id, v) ==
    \E c \in ToSet(doc.chunks) :
        c.id = id /\ (v = VectorOf(c.text, provider) \/ (shared /\ FoundFor(c, v)))

\* A chunk that was looked up has its vector, and its text is paid for, or it is
\* still to be sent; the vectors are in place unless the call is bound to fail.
HandledInv ==
    /\ pc # "idle" /\ Whole => \A id \in DOMAIN vectors : OwnVector(id, vectors[id])
    /\ pc # "idle" =>
           \A i \in 1..(at - 1) :
               \/ doc.chunks[i] \in ToSend
               \/ doc.chunks[i].id \in DOMAIN vectors /\ PaidFor(doc.chunks[i].text)

EInv ==
    /\ ETypeOK /\ CacheInv /\ WorkInv /\ PaidInv /\ LookUpInv /\ AnswerInv /\ FreshInv /\ HandledInv
    /\ OwnVectors /\ RetriesPayTheRest
----------------------------------------------------------------------------
(* Sequences.                                                              *)

LEMMA RemoveAtIs ==
    ASSUME NEW S, NEW s \in Seq(S), NEW p \in 1..Len(s)
    PROVE  /\ RemoveAt(s, p) \in Seq(S)
           /\ Len(RemoveAt(s, p)) = Len(s) - 1
           /\ \A i \in 1..(Len(s) - 1) : RemoveAt(s, p)[i] = IF i < p THEN s[i] ELSE s[i + 1]
<1> DEFINE front == SubSeq(s, 1, p - 1)
           back == SubSeq(s, p + 1, Len(s))
<1>1. front \in Seq(S) /\ Len(front) = p - 1 /\ \A i \in 1..(p - 1) : front[i] = s[i]
  OBVIOUS
<1>2. back \in Seq(S) /\ Len(back) = Len(s) - p /\ \A i \in 1..(Len(s) - p) : back[i] = s[i + p]
  OBVIOUS
<1>3. RemoveAt(s, p) = front \o back
  BY DEF RemoveAt
<1> HIDE DEF front, back
<1>4. /\ front \o back \in Seq(S) /\ Len(front \o back) = (p - 1) + (Len(s) - p)
      /\ \A i \in 1..(Len(s) - 1) :
             (front \o back)[i] = IF i <= p - 1 THEN front[i] ELSE back[i - (p - 1)]
  <2>1. /\ front \o back \in Seq(S) /\ Len(front \o back) = Len(front) + Len(back)
        /\ \A i \in 1..(Len(front) + Len(back)) :
               (front \o back)[i] = IF i <= Len(front) THEN front[i] ELSE back[i - Len(front)]
    BY <1>1, <1>2, ConcatProperties
  <2>2. (p - 1) + (Len(s) - p) = Len(s) - 1
    OBVIOUS
  <2> QED
    BY <1>1, <1>2, <2>1, <2>2
<1>5. ASSUME NEW i \in 1..(Len(s) - 1), i >= p PROVE (front \o back)[i] = s[i + 1]
  <2>1. i - (p - 1) \in 1..(Len(s) - p) /\ (i - (p - 1)) + p = i + 1 /\ ~(i <= p - 1)
    BY <1>5
  <2> QED
    BY <1>2, <1>4, <2>1
<1>6. ASSUME NEW i \in 1..(Len(s) - 1), i < p PROVE (front \o back)[i] = s[i]
  <2>1. i \in 1..(p - 1) /\ i <= p - 1
    BY <1>6
  <2> QED
    BY <1>1, <1>4, <2>1
<1> QED
  BY <1>3, <1>4, <1>5, <1>6

LEMMA ToSetIs ==
    ASSUME NEW S, NEW s \in Seq(S)
    PROVE  ToSet(s) \subseteq S /\ s \in Seq(ToSet(s)) /\ \A x : x \in ToSet(s) <=> \E i \in 1..Len(s) : s[i] = x
BY DEF ToSet

LEMMA ToSetOfNone == ToSet(<<>>) = {}
BY DEF ToSet

\* The set of a sequence without its head, and of two sequences one was cut into.
LEMMA ToSetTail ==
    ASSUME NEW S, NEW s \in Seq(S), s # <<>>
    PROVE  /\ Tail(s) \in Seq(S) /\ Head(s) \in S /\ Len(Tail(s)) = Len(s) - 1
           /\ ToSet(s) = ToSet(Tail(s)) \cup {Head(s)}
<1>1. Tail(s) \in Seq(S) /\ Len(Tail(s)) = Len(s) - 1 /\ \A i \in 1..(Len(s) - 1) : Tail(s)[i] = s[i + 1]
  OBVIOUS
<1>2. Head(s) = s[1] /\ Len(s) \in Nat /\ Len(s) >= 1 /\ Head(s) \in S
  OBVIOUS
<1>3. ASSUME NEW x, \E i \in 1..Len(s) : s[i] = x PROVE x = Head(s) \/ \E i \in 1..(Len(s) - 1) : Tail(s)[i] = x
  <2>1. PICK i \in 1..Len(s) : s[i] = x
    BY <1>3
  <2>2. CASE i = 1
    BY <2>1, <2>2, <1>2
  <2>3. CASE i # 1
    <3>1. i - 1 \in 1..(Len(s) - 1) /\ s[(i - 1) + 1] = x
      BY <2>1, <2>3
    <3> QED
      BY <3>1, <1>1
  <2> QED
    BY <2>2, <2>3
<1>4. \A i \in 1..(Len(s) - 1) : \E j \in 1..Len(s) : s[j] = Tail(s)[i]
  BY <1>1, <1>2
<1>5. \A x : x \in ToSet(Tail(s)) <=> \E i \in 1..(Len(s) - 1) : Tail(s)[i] = x
  BY <1>1, ToSetIs
<1>6. \A x : x \in ToSet(s) <=> \E i \in 1..Len(s) : s[i] = x
  BY ToSetIs
<1>7. ToSet(s) = ToSet(Tail(s)) \cup {Head(s)}
  <2>1. 1 \in 1..Len(s)
    BY <1>2
  <2> QED
    BY <1>2, <1>3, <1>4, <1>5, <1>6, <2>1, Zenon
<1> QED
  BY <1>1, <1>2, <1>7

LEMMA ToSetCut ==
    ASSUME NEW S, NEW s \in Seq(S), NEW n \in 0..Len(s)
    PROVE  /\ SubSeq(s, 1, n) \in Seq(S) /\ SubSeq(s, n + 1, Len(s)) \in Seq(S)
           /\ Len(SubSeq(s, 1, n)) = n
           /\ ToSet(s) = ToSet(SubSeq(s, 1, n)) \cup ToSet(SubSeq(s, n + 1, Len(s)))
<1> DEFINE front == SubSeq(s, 1, n)
           back == SubSeq(s, n + 1, Len(s))
<1>1. front \in Seq(S) /\ Len(front) = n /\ \A i \in 1..n : front[i] = s[i]
  OBVIOUS
<1>2. back \in Seq(S) /\ Len(back) = Len(s) - n /\ \A i \in 1..(Len(s) - n) : back[i] = s[i + n]
  OBVIOUS
<1>3. \A x : x \in ToSet(s) <=> \E i \in 1..Len(s) : s[i] = x
  BY ToSetIs
<1> HIDE DEF front, back
<1>4. \A x : x \in ToSet(front) <=> \E i \in 1..n : front[i] = x
  BY <1>1, ToSetIs
<1>5. \A x : x \in ToSet(back) <=> \E i \in 1..(Len(s) - n) : back[i] = x
  BY <1>2, ToSetIs
<1>6. ASSUME NEW i \in 1..Len(s) PROVE s[i] \in ToSet(front) \/ s[i] \in ToSet(back)
  <2>1. CASE i <= n
    <3>1. i \in 1..n /\ front[i] = s[i]
      BY <1>1, <2>1
    <3> QED
      BY <3>1, <1>4
  <2>2. CASE i > n
    <3>1. i - n \in 1..(Len(s) - n) /\ back[i - n] = s[(i - n) + n]
      BY <1>2, <2>2
    <3>2. (i - n) + n = i
      OBVIOUS
    <3> QED
      BY <3>1, <3>2, <1>5
  <2> QED
    BY <2>1, <2>2
<1>7. \A i \in 1..n : \E j \in 1..Len(s) : s[j] = front[i]
  BY <1>1
<1>8. \A i \in 1..(Len(s) - n) : \E j \in 1..Len(s) : s[j] = back[i]
  BY <1>2
<1>9. ToSet(s) = ToSet(front) \cup ToSet(back)
  BY <1>3, <1>4, <1>5, <1>6, <1>7, <1>8
<1> QED
  BY <1>1, <1>2, <1>9 DEF front, back

----------------------------------------------------------------------------
(* The cache.                                                              *)

\* new is s with the entry at p, if there is one, gone and another at the end.
MovesFrom(s, key, v, p, new) ==
    /\ Holds(s, key) => p <= Len(s) /\ s[p].key = key
    /\ ~Holds(s, key) => p = Len(s) + 1
    /\ Len(new) = IF Holds(s, key) THEN Len(s) ELSE Len(s) + 1
    /\ new[Len(new)] = [key |-> key, vector |-> v]
    /\ \A i \in 1..(Len(new) - 1) : new[i] = IF i < p THEN s[i] ELSE s[i + 1]

\* Making an entry the newest moves it, or adds it.
LEMMA NewestIs ==
    ASSUME NEW s \in Seq(Entry), Distinct(s), NEW key, NEW v, [key |-> key, vector |-> v] \in Entry
    PROVE  /\ Newest(s, key, v) \in Seq(Entry) /\ Distinct(Newest(s, key, v))
           /\ Holds(Newest(s, key, v), key)
           /\ \A k : Holds(Newest(s, key, v), k) <=> k = key \/ Holds(s, k)
           /\ \A i \in DOMAIN Newest(s, key, v) :
                  Newest(s, key, v)[i] = [key |-> key, vector |-> v] \/ \E j \in DOMAIN s : Newest(s, key, v)[i] = s[j]
           /\ \E p \in 1..(Len(s) + 1) : MovesFrom(s, key, v, p, Newest(s, key, v))
<1> DEFINE e == [key |-> key, vector |-> v]
<1> DEFINE Moved(rest, p) ==
               /\ Holds(s, key) => p <= Len(s) /\ s[p].key = key
               /\ ~Holds(s, key) => p = Len(s) + 1
               /\ Len(rest) = IF Holds(s, key) THEN Len(s) - 1 ELSE Len(s)
               /\ \A i \in 1..Len(rest) : rest[i] = IF i < p THEN s[i] ELSE s[i + 1]
<1>17. PICK rest : rest = Without(s, key)
  OBVIOUS
<1>18. rest \in Seq(Entry) /\ \E p \in 1..(Len(s) + 1) : Moved(rest, p)
  <2>1. CASE Holds(s, key)
    <3>1. Place(s, key) \in 1..Len(s) /\ s[Place(s, key)].key = key
      BY <2>1 DEF Holds, Place
    <3>2. PICK p \in 1..Len(s) : p = Place(s, key)
      BY <3>1
    <3>3. rest = RemoveAt(s, p)
      BY <1>17, <2>1, <3>2 DEF Without
    <3>6. Len(rest) = Len(s) - 1 /\ \A i \in 1..(Len(s) - 1) : rest[i] = IF i < p THEN s[i] ELSE s[i + 1]
      BY <3>3, RemoveAtIs
    <3>7. p <= Len(s) /\ s[p].key = key
      BY <3>1, <3>2
    <3>4. Moved(rest, p)
      BY <2>1, <3>6, <3>7
    <3>5. p \in 1..(Len(s) + 1) /\ rest \in Seq(Entry)
      BY <3>3, RemoveAtIs
    <3> QED
      BY <3>4, <3>5
  <2>2. CASE ~Holds(s, key)
    <3>1. rest = s
      BY <1>17, <2>2 DEF Without
    <3>2. Moved(s, Len(s) + 1) /\ Len(s) + 1 \in 1..(Len(s) + 1)
      BY <2>2
    <3> QED
      BY <3>1, <3>2
  <2> QED
    BY <2>1, <2>2
<1>1. PICK p \in 1..(Len(s) + 1) :
          /\ Holds(s, key) => p <= Len(s) /\ s[p].key = key
          /\ ~Holds(s, key) => p = Len(s) + 1
          /\ Len(rest) = IF Holds(s, key) THEN Len(s) - 1 ELSE Len(s)
          /\ \A i \in 1..Len(rest) : rest[i] = IF i < p THEN s[i] ELSE s[i + 1]
  BY <1>18
<1> HIDE DEF Moved
<1>2. PICK new : new = Append(rest, e)
  OBVIOUS
<1>3. Newest(s, key, v) = new
  BY <1>17, <1>2 DEF Newest
<1>4. /\ new \in Seq(Entry) /\ Len(new) = Len(rest) + 1 /\ new[Len(new)] = e
      /\ \A i \in 1..Len(rest) : new[i] = rest[i]
  BY <1>18, <1>2
<1>5. e.key = key
  OBVIOUS
<1> HIDE DEF e
<1>6. PICK n \in Nat, m \in Nat :
          /\ n = Len(s) /\ m = Len(rest) /\ DOMAIN new = 1..(m + 1) /\ DOMAIN s = 1..n /\ p \in 1..(n + 1)
          /\ new[m + 1] = e /\ Len(new) = m + 1
  <2>1. Len(s) \in Nat /\ Len(rest) \in Nat /\ DOMAIN s = 1..Len(s) /\ DOMAIN new = 1..Len(new)
    BY <1>18, <1>4
  <2> QED
    BY <1>4, <2>1
\* Where an entry of the old cache is in the new one.
<1>7. \A i \in 1..m : new[i] = IF i < p THEN s[i] ELSE s[i + 1]
  BY <1>1, <1>4, <1>6
<1>19. \/ Holds(s, key) /\ m = n - 1 /\ p <= n /\ s[p].key = key
       \/ ~Holds(s, key) /\ m = n /\ p = n + 1
  BY <1>1, <1>6
<1>8. ASSUME NEW i \in 1..m PROVE \E j \in 1..n : j # p /\ new[i] = s[j] /\ j = IF i < p THEN i ELSE i + 1
  BY <1>19, <1>6, <1>7
<1>9. ASSUME NEW j \in 1..n, j # p PROVE \E i \in 1..m : new[i] = s[j]
  <2>1. CASE j < p
    BY <1>19, <1>6, <1>7, <2>1
  <2>2. CASE j > p
    <3>1. j - 1 \in 1..m /\ ~(j - 1 < p) /\ (j - 1) + 1 = j
      BY <1>19, <1>6, <2>2
    <3> QED
      BY <1>7, <3>1
  <2> QED
    BY <1>9, <1>6, <2>1, <2>2
<1>10. \A j \in 1..n : j # p => s[j].key # key
  <2>1. CASE Holds(s, key)
    BY <1>19, <1>6, <2>1 DEF Distinct
  <2>2. CASE ~Holds(s, key)
    BY <1>6, <2>2 DEF Holds
  <2> QED
    BY <2>1, <2>2
<1>11. Distinct(new)
  <2> SUFFICES ASSUME NEW i \in 1..(m + 1), NEW j \in 1..(m + 1), i < j
               PROVE  new[i].key # new[j].key
    BY <1>6 DEF Distinct
  <2>1. i \in 1..m
    BY <1>6
  <2>2. PICK a \in 1..n : a # p /\ new[i] = s[a] /\ a = IF i < p THEN i ELSE i + 1
    BY <1>8, <2>1
  <2>3. CASE j = m + 1
    BY <1>5, <1>6, <1>10, <2>2, <2>3
  <2>4. CASE j \in 1..m
    <3>1. PICK b \in 1..n : b # p /\ new[j] = s[b] /\ b = IF j < p THEN j ELSE j + 1
      BY <1>8, <2>4
    <3>2. a # b
      BY <2>2, <3>1
    <3> QED
      BY <1>6, <2>2, <3>1, <3>2 DEF Distinct
  <2> QED
    BY <1>6, <2>3, <2>4
<1>12. \A i \in DOMAIN new : new[i] = e \/ \E j \in DOMAIN s : new[i] = s[j]
  <2> TAKE i \in DOMAIN new
  <2>1. i \in 1..m \/ i = m + 1
    BY <1>6
  <2> QED
    BY <1>6, <1>8, <2>1
<1>13. ASSUME NEW k PROVE Holds(new, k) <=> k = key \/ Holds(s, k)
  <2>1. Holds(new, key)
    BY <1>5, <1>6 DEF Holds
  <2>2. Holds(new, k) => k = key \/ Holds(s, k)
    BY <1>5, <1>12 DEF Holds
  <2>3. ASSUME NEW j \in 1..n, s[j].key = k, k # key PROVE Holds(new, k)
    <3>1. j # p
      BY <1>19, <1>6, <2>3 DEF Holds
    <3>2. PICK i \in 1..m : new[i] = s[j]
      BY <1>9, <3>1
    <3> QED
      BY <1>6, <2>3, <3>2 DEF Holds
  <2> QED
    BY <1>6, <2>1, <2>2, <2>3 DEF Holds
<1>14. Len(new) = (IF Holds(s, key) THEN Len(s) ELSE Len(s) + 1) /\ Len(new) - 1 = Len(rest)
  BY <1>19, <1>6
<1>15. Holds(new, key)
  BY <1>13
<1>16. \A i \in 1..(Len(new) - 1) : new[i] = IF i < p THEN s[i] ELSE s[i + 1]
  BY <1>6, <1>7, <1>14
<1> QED
  BY <1>1, <1>3, <1>4, <1>16, <1>11, <1>12, <1>13, <1>14, <1>15 DEF e, MovesFrom

\* The same happens to a cache and to the unlimited one it is the end of.
LEMMA EndOfNewest ==
    ASSUME NEW c \in Seq(Entry), NEW r \in Seq(Entry), Distinct(r), IsEnd(c, r),
           NEW key, NEW v, [key |-> key, vector |-> v] \in Entry
    PROVE  /\ Distinct(c) /\ IsEnd(Newest(c, key, v), Newest(r, key, v))
           /\ Holds(c, key) => Holds(r, key)
           /\ ~Holds(c, key) /\ Holds(r, key) => Len(c) < Len(r)
           /\ Len(Newest(c, key, v)) = IF Holds(c, key) THEN Len(c) ELSE Len(c) + 1
           /\ Len(Newest(r, key, v)) = IF Holds(r, key) THEN Len(r) ELSE Len(r) + 1
<1>1. PICK n \in Nat, m \in Nat : n = Len(r) /\ m = Len(c) /\ m <= n /\ DOMAIN r = 1..n /\ DOMAIN c = 1..m
  <2>1. Len(r) \in Nat /\ Len(c) \in Nat /\ DOMAIN r = 1..Len(r) /\ DOMAIN c = 1..Len(c)
    OBVIOUS
  <2> QED
    BY <2>1 DEF IsEnd
<1>2. \A i \in 1..m : c[i] = r[n - m + i] /\ n - m + i \in 1..n
  BY <1>1 DEF IsEnd
<1>3. Distinct(c)
  <2> SUFFICES ASSUME NEW i \in 1..m, NEW j \in 1..m, c[i].key = c[j].key PROVE i = j
    BY <1>1 DEF Distinct
  <2>1. /\ c[i] = r[n - m + i] /\ n - m + i \in 1..n
        /\ c[j] = r[n - m + j] /\ n - m + j \in 1..n
    BY <1>2
  <2>2. r[n - m + i].key = r[n - m + j].key
    BY <2>1
  <2>3. n - m + i = n - m + j
    BY <1>1, <2>1, <2>2 DEF Distinct
  <2> QED
    BY <2>3, <1>1
<1>4. Holds(c, key) => Holds(r, key)
  BY <1>1, <1>2 DEF Holds
<1>5. PICK newr, newc : newr = Newest(r, key, v) /\ newc = Newest(c, key, v)
  OBVIOUS
<1>6. newr \in Seq(Entry) /\ newc \in Seq(Entry)
  BY <1>3, <1>5, NewestIs
<1>7. PICK p \in 1..(n + 1) : MovesFrom(r, key, v, p, newr)
  BY <1>1, <1>5, NewestIs
<1>8. PICK q \in 1..(m + 1) : MovesFrom(c, key, v, q, newc)
  BY <1>1, <1>3, <1>5, NewestIs
<1>9. PICK k \in Nat, l \in Nat : k = Len(newr) /\ l = Len(newc)
  BY <1>6
\* Where the entry was in each.
<1>10. \/ Holds(c, key) /\ Holds(r, key) /\ k = n /\ l = m /\ q <= m /\ p = n - m + q
       \/ ~Holds(c, key) /\ Holds(r, key) /\ k = n /\ l = m + 1 /\ q = m + 1 /\ p <= n - m
       \/ ~Holds(c, key) /\ ~Holds(r, key) /\ k = n + 1 /\ l = m + 1 /\ q = m + 1 /\ p = n + 1
  <2>1. CASE Holds(c, key)
    <3>1. /\ Holds(r, key) /\ k = n /\ l = m /\ q <= m /\ p <= n
          /\ c[q].key = key /\ r[p].key = key
      BY <1>1, <1>4, <1>7, <1>8, <1>9, <2>1 DEF MovesFrom
    <3>4. q \in 1..m /\ p \in 1..n
      BY <1>1, <3>1
    <3>5. c[q] = r[n - m + q] /\ n - m + q \in 1..n
      BY <1>2, <3>4
    <3>2. r[n - m + q].key = key /\ n - m + q \in 1..n /\ p \in 1..n
      BY <3>1, <3>4, <3>5
    <3>3. p = n - m + q
      BY <1>1, <3>1, <3>2 DEF Distinct
    <3> QED
      BY <2>1, <3>1, <3>3
  <2>2. CASE ~Holds(c, key) /\ Holds(r, key)
    <3>1. k = n /\ l = m + 1 /\ q = m + 1 /\ p <= n /\ r[p].key = key
      BY <1>1, <1>7, <1>8, <1>9, <2>2 DEF MovesFrom
    <3>2. ASSUME p > n - m PROVE FALSE
      <4>1. p - (n - m) \in 1..m /\ n - m + (p - (n - m)) = p
        BY <1>1, <3>1, <3>2
      <4>2. c[p - (n - m)].key = key
        BY <1>2, <3>1, <4>1
      <4> QED
        BY <1>1, <2>2, <4>1, <4>2 DEF Holds
    <3>3. p <= n - m
      BY <1>1, <3>2
    <3> QED
      BY <2>2, <3>1, <3>3
  <2>3. CASE ~Holds(c, key) /\ ~Holds(r, key)
    BY <1>1, <1>7, <1>8, <1>9, <2>3 DEF MovesFrom
  <2> QED
    BY <1>4, <2>1, <2>2, <2>3
<1>11. /\ \A i \in 1..(k - 1) : newr[i] = IF i < p THEN r[i] ELSE r[i + 1]
       /\ \A i \in 1..(l - 1) : newc[i] = IF i < q THEN c[i] ELSE c[i + 1]
       /\ newr[k] = newc[l]
  BY <1>7, <1>8, <1>9 DEF MovesFrom
<1>12. ASSUME NEW i \in 1..(l - 1) PROVE newc[i] = newr[k - l + i]
  <2>1. k - l + i \in 1..(k - 1)
    BY <1>1, <1>10
  <2>2. newr[k - l + i] = IF k - l + i < p THEN r[k - l + i] ELSE r[k - l + i + 1]
    BY <1>11, <2>1
  <2>3. newc[i] = IF i < q THEN c[i] ELSE c[i + 1]
    BY <1>11
  <2>4. CASE i < q
    <3>1. i \in 1..m /\ newc[i] = r[n - m + i]
      BY <1>2, <1>10, <2>3, <2>4
    <3>2. \/ k - l = n - m /\ k - l + i < p
          \/ k - l + 1 = n - m /\ ~(k - l + i < p)
      BY <1>1, <1>10, <2>4
    <3>3. k - l + 1 = n - m => k - l + i + 1 = n - m + i
      BY <1>1
    <3> QED
      BY <2>2, <3>1, <3>2, <3>3
  <2>5. CASE ~(i < q)
    <3>4. l = m /\ i \in 1..(m - 1) /\ i + 1 \in 1..m
      BY <1>1, <1>10, <2>5
    <3>5. newc[i] = c[i + 1]
      BY <2>3, <2>5
    <3>1. i + 1 \in 1..m /\ newc[i] = r[n - m + (i + 1)]
      BY <1>2, <3>4, <3>5
    <3>2. k - l = n - m /\ ~(k - l + i < p) /\ k - l + i + 1 = n - m + (i + 1)
      BY <1>1, <1>10, <2>5
    <3> QED
      BY <2>2, <3>1, <3>2
  <2> QED
    BY <2>4, <2>5
<1>13. \A i \in 1..l : newc[i] = newr[k - l + i]
  <2> TAKE i \in 1..l
  <2>1. CASE i \in 1..(l - 1)
    BY <1>12, <2>1
  <2>2. CASE i = l /\ k - l + i = k
    BY <1>11, <2>2
  <2> QED
    BY <2>1, <2>2, <1>9
<1>14. IsEnd(newc, newr)
  BY <1>1, <1>9, <1>10, <1>13 DEF IsEnd
<1>15. ~Holds(c, key) /\ Holds(r, key) => m < n
  BY <1>1, <1>10
<1>16. k = (IF Holds(r, key) THEN n ELSE n + 1) /\ l = (IF Holds(c, key) THEN m ELSE m + 1)
  BY <1>10
<1> QED
  BY <1>1, <1>3, <1>4, <1>5, <1>9, <1>14, <1>15, <1>16

\* A cache that was one too long and lost its oldest entry is the end of the same.
LEMMA EndOfTail ==
    ASSUME NEW c \in Seq(Entry), NEW r, IsEnd(c, r), c # <<>>, Len(r) \in Nat
    PROVE  Tail(c) \in Seq(Entry) /\ IsEnd(Tail(c), r) /\ Len(Tail(c)) = Len(c) - 1
<1>1. PICK m \in Nat : m = Len(c) /\ m >= 1
  OBVIOUS
<1>2. Tail(c) \in Seq(Entry) /\ Len(Tail(c)) = m - 1 /\ \A i \in 1..(m - 1) : Tail(c)[i] = c[i + 1]
  BY <1>1
<1>3. ASSUME NEW i \in 1..(m - 1) PROVE Tail(c)[i] = r[Len(r) - (m - 1) + i]
  <2>1. i + 1 \in 1..m /\ Len(r) - m + (i + 1) = Len(r) - (m - 1) + i
    BY <1>1
  <2> QED
    BY <1>1, <1>2, <2>1 DEF IsEnd
<1> QED
  BY <1>1, <1>2, <1>3 DEF IsEnd

----------------------------------------------------------------------------
(* Documents, entries and the cache as the invariant has them.             *)

LEMMA ChunkIs ==
    ASSUME NEW d \in Doc
    PROVE  /\ d.chunks \in Seq(ToSet(d.chunks)) /\ Len(d.chunks) \in Nat /\ DOMAIN d.chunks = 1..Len(d.chunks)
           /\ ToSet(d.chunks) \subseteq Chunk
           /\ \A i \in 1..Len(d.chunks) : d.chunks[i] \in ToSet(d.chunks)
<1>1. d.chunks \in Seq(Chunk)
  BY EmbedderAssumption
<1>2. ToSet(d.chunks) \in {ToSet(e.chunks) : e \in Doc}
  OBVIOUS
<1> QED
  BY <1>1, <1>2, ToSetIs DEF Chunk

LEMMA EntryIs ==
    \A c \in Chunk, p \in Provider, v \in Vectors : [key |-> Key(c.text, p), vector |-> v] \in Entry
BY DEF Entry

LEMMA LimitIs ==
    ASSUME ETypeOK
    PROVE  limit \in Nat
BY EmbedderAssumption DEF ETypeOK

\* A key that the cache holds is of an entry that an unlimited cache would hold too.
LEMMA HitIs ==
    ASSUME ETypeOK, CacheInv, NEW key, Holds(cache, key)
    PROVE  \E j \in DOMAIN recency : recency[j].key = key /\ recency[j].vector = Vector(cache, key)
<1>1. PICK i \in 1..Len(cache) : i = Place(cache, key) /\ cache[i].key = key
  BY DEF Holds, Place, ETypeOK
<1>2. PICK n \in Nat, m \in Nat : n = Len(recency) /\ m = Len(cache) /\ m <= n /\ DOMAIN recency = 1..n
  <2>1. Len(recency) \in Nat /\ Len(cache) \in Nat /\ DOMAIN recency = 1..Len(recency)
    BY DEF ETypeOK
  <2> QED
    BY <2>1 DEF CacheInv, IsEnd
<1>3. n - m + i \in 1..n /\ cache[i] = recency[n - m + i]
  BY <1>1, <1>2 DEF CacheInv, IsEnd
<1> QED
  BY <1>1, <1>2, <1>3 DEF Vector

\* A key that an unlimited cache would hold and the cache does not had no place.
LEMMA MissIs ==
    ASSUME ETypeOK, CacheInv, NEW key, ~Holds(cache, key), Holds(recency, key)
    PROVE  Len(recency) > limit
<1>1. PICK n \in Nat, m \in Nat : n = Len(recency) /\ m = Len(cache) /\ m <= n /\ DOMAIN recency = 1..n /\ DOMAIN cache = 1..m
  <2>1. Len(recency) \in Nat /\ Len(cache) \in Nat /\ DOMAIN recency = 1..Len(recency) /\ DOMAIN cache = 1..Len(cache)
    BY DEF ETypeOK
  <2> QED
    BY <2>1 DEF CacheInv, IsEnd
<1>2. SUFFICES ASSUME n <= limit PROVE FALSE
  BY <1>1, LimitIs
<1>3. m = n
  BY <1>1, <1>2, LimitIs DEF CacheInv
<1>4. PICK j \in 1..n : recency[j].key = key
  BY <1>1 DEF Holds
<1>5. n - m + j = j
  BY <1>3
<1>6. cache[j] = recency[j]
  BY <1>1, <1>3, <1>4, <1>5 DEF CacheInv, IsEnd
<1> QED
  BY <1>1, <1>3, <1>4, <1>6 DEF Holds

\* A key is of one text and one model.
LEMMA KeyIs ==
    ASSUME NEW c, NEW p, NEW r, Key(r.text, r.by) = Key(c.text, p)
    PROVE  r.text = c.text /\ r.by.model = p.model
BY DEF Key

----------------------------------------------------------------------------
(* The initial states.                                                     *)

LEMMA InitInv == EInit => EInv
<1> SUFFICES ASSUME EInit PROVE EInv
  OBVIOUS
<1> USE DEF EInit
<1>1. Len(doc.chunks) \in Nat
  BY ChunkIs
<1>2. ETypeOK
  <2>1. limit \in Limits \cup {Default} /\ limit \in Nat
    BY EmbedderAssumption
  <2>2. /\ cache \in Seq(Entry) /\ recency \in Seq(Entry) /\ Len(cache) <= limit
        /\ embeddings \in Seq(Vectors)
    BY <2>1
  <2>3. hashes \in [Pathname -> {d.version : d \in Doc} \cup {NoHash}]
    OBVIOUS
  <2>4. pending \in Seq(ToSet(doc.chunks)) /\ batch \in Seq(ToSet(doc.chunks)) /\ Len(batch) <= BatchSize
    BY EmbedderAssumption
  <2>5. calls \in 0..MaxCalls /\ at \in 1..(Len(doc.chunks) + 1)
    BY <1>1, EmbedderAssumption
  <2>6. shared \in BOOLEAN
    BY Zenon
  <2> QED
    BY <2>1, <2>2, <2>3, <2>4, <2>5, <2>6 DEF ETypeOK
<1>3. CacheInv
  BY <1>2, LimitIs DEF CacheInv, Distinct, IsEnd
<1>4. WorkInv /\ PaidInv /\ LookUpInv /\ AnswerInv
  BY DEF WorkInv, PaidInv, LookUpInv, AnswerInv
<1>5. FreshInv /\ HandledInv /\ OwnVectors
  BY DEF FreshInv, HandledInv, OwnVectors
<1>6. RetriesPayTheRest
  <2>1. \A d \in Doc : hashes[d.path] = NoHash
    BY DEF Pathname
  <2> QED
    BY <2>1, EmbedderAssumption DEF RetriesPayTheRest, PaidOnce, MarkedMeansEmbedded
<1> QED
  BY <1>2, <1>3, <1>4, <1>5, <1>6 DEF EInv

----------------------------------------------------------------------------
(* Each step keeps the invariant.                                          *)

LEMMA BeginInv ==
    ASSUME EInv, NEW d \in Doc, NEW p \in Provider, Begin(d, p)
    PROVE  EInv'
<1> USE DEF Begin, EInv
<1>1. UNCHANGED <<limit, shared, tracked, hashes, pending, batch, embeddings, paid>>
  BY DEF config
<1>2. /\ calls < MaxCalls /\ calls' = calls + 1 /\ calls \in Nat /\ MaxCalls \in Nat
      /\ pending = <<>> /\ batch = <<>> /\ embeddings = <<>> /\ doc' = d /\ at' = 1 /\ vectors' = <<>>
  BY EmbedderAssumption DEF ETypeOK, WorkInv
<1>3. \A r \in paid : r.call \in 1..calls /\ r.call # calls'
  BY <1>2 DEF ETypeOK
<1>4. \/ cache' = cache /\ recency' = recency
      \/ ~shared /\ cache' = <<>> /\ recency' = <<>>
  BY DEF Given
<1>13. pc' = "lookup" => shared \/ recency' = <<>>
  BY DEF Given
<1>5. pc' \in {"idle", "lookup"} /\ out'.kind # "embedded"
  <2>1. CASE out' = [kind |-> "skipped"] /\ UNCHANGED pc
    BY <2>1
  <2>2. CASE out' = [kind |-> "none"] /\ pc' = "lookup"
    BY <2>2
  <2> QED
    BY <2>1, <2>2
<1>6. ETypeOK'
  <2>1. cache' \in Seq(Entry) /\ recency' \in Seq(Entry) /\ Len(cache') <= limit
    <3>1. CASE cache' = cache /\ recency' = recency
      BY <3>1 DEF ETypeOK
    <3>2. CASE cache' = <<>> /\ recency' = <<>>
      BY <3>2, LimitIs
    <3> QED
      BY <1>4, <3>1, <3>2
  <2>2. at' \in 1..(Len(doc'.chunks) + 1)
    BY <1>2, ChunkIs
  <2>3. pending' \in Seq(ToSet(doc'.chunks)) /\ batch' \in Seq(ToSet(doc'.chunks)) /\ Len(batch') <= BatchSize
    BY <1>1, <1>2, EmbedderAssumption
  <2>4. calls' \in 0..MaxCalls
    BY <1>2
  <2>5. paid' \subseteq [call : 1..calls', by : Provider, text : {c.text : c \in Chunk},
                         vector : Vectors, whole : BOOLEAN]
    <3>1. 1..calls \subseteq 1..calls'
      BY <1>2
    <3> QED
      BY <1>1, <3>1 DEF ETypeOK
  <2> QED
    BY <1>1, <1>5, <2>1, <2>2, <2>3, <2>4, <2>5 DEF ETypeOK
<1>7. CacheInv'
  <2>1. CASE cache' = cache /\ recency' = recency
    BY <1>1, <2>1 DEF CacheInv, Distinct, IsEnd
  <2>2. CASE cache' = <<>> /\ recency' = <<>>
    BY <1>1, <2>2, LimitIs DEF CacheInv, Distinct, IsEnd
  <2> QED
    BY <1>4, <2>1, <2>2
<1>8. WorkInv'
  BY <1>1, <1>2, <1>5 DEF WorkInv
<1>9. PaidInv'
  <2>1. \A r \in paid' : r.call # calls'
    BY <1>1, <1>3
  <2>2. CASE cache' = cache /\ recency' = recency
    BY <1>1, <2>1, <2>2 DEF PaidInv, Bought, Holds
  <2>3. CASE ~shared /\ recency' = <<>>
    BY <1>1, <2>1, <2>3 DEF PaidInv
  <2> QED
    BY <1>4, <2>2, <2>3
<1>10. FreshInv' /\ HandledInv'
  <2>1. ToSend' = {} /\ at' - 1 = 0 /\ DOMAIN vectors' = {}
    BY <1>1, <1>2, ToSetOfNone DEF ToSend
  <2> QED
    BY <2>1 DEF FreshInv, HandledInv
<1>11. OwnVectors'
  BY <1>5 DEF OwnVectors
<1>12. RetriesPayTheRest'
  <2>1. shared' => recency' = recency
    BY <1>1, <1>4
  <2> QED
    BY <1>1, <2>1 DEF RetriesPayTheRest, PaidOnce, MarkedMeansEmbedded
<1>14. LookUpInv' /\ AnswerInv'
  <2>1. \A r \in paid' : r.call # calls'
    BY <1>1, <1>3
  <2> QED
    BY <1>1, <1>2, <1>13, <2>1 DEF LookUpInv, AnswerInv, Whole
<1> QED
  BY <1>6, <1>7, <1>8, <1>9, <1>10, <1>11, <1>12, <1>14

\* The chunk at hand.
LEMMA LookUpAt ==
    ASSUME EInv, LookUp
    PROVE  /\ doc.chunks[at] \in ToSet(doc.chunks) /\ doc.chunks[at] \in Chunk
           /\ at \in Nat /\ at' \in 1..(Len(doc.chunks) + 1) /\ at' - 1 = at
           /\ \A i \in 1..at : i = at \/ i \in 1..(at - 1)
           /\ calls \in Nat /\ \A r \in paid : r.call \in 1..calls
           /\ doc \in Doc /\ provider \in Provider /\ pc = "lookup" /\ pc' = "lookup"
           /\ UNCHANGED <<limit, shared, tracked, hashes, doc, provider, batch, embeddings, out, calls, paid>>
           /\ batch = <<>> /\ embeddings = <<>> /\ Whole
<1> USE DEF EInv, LookUp
<1>1. UNCHANGED <<limit, shared, tracked, hashes, doc, provider, batch, embeddings, out, calls, paid>> /\ pc' = "lookup"
  BY DEF config
<1>2. doc \in Doc /\ provider \in Provider /\ at \in 1..Len(doc.chunks) /\ calls \in Nat /\ Len(doc.chunks) \in Nat
  BY ChunkIs, EmbedderAssumption DEF ETypeOK
<1>3. \A r \in paid : r.call \in 1..calls
  BY DEF ETypeOK
<1>4. at' \in 1..(Len(doc.chunks) + 1) /\ at' - 1 = at /\ at \in Nat /\ \A i \in 1..at : i = at \/ i \in 1..(at - 1)
  BY <1>2
<1>5. batch = <<>> /\ embeddings = <<>> /\ Whole
  BY DEF WorkInv, Whole
<1> QED
  BY <1>1, <1>2, <1>3, <1>4, <1>5, ChunkIs

LEMMA HitInv ==
    ASSUME EInv, LookUp, Holds(cache, Key(doc.chunks[at].text, provider))
    PROVE  EInv'
<1> USE DEF EInv
<1> DEFINE c == doc.chunks[at]
           key == Key(c.text, provider)
           v == Vector(cache, key)
<1>1. UNCHANGED <<limit, shared, tracked, hashes, doc, provider, batch, embeddings, out, calls, paid, pc, pending>>
  BY LookUpAt DEF LookUp
<1>2. /\ cache' = Newest(cache, key, v) /\ recency' = Newest(recency, key, v)
      /\ vectors' = WithVector(c, v)
  BY DEF LookUp, Touched
<1>3. c \in ToSet(doc.chunks) /\ c \in Chunk
  BY LookUpAt
<1> HIDE DEF c, v
<1>4. PICK j \in DOMAIN recency : recency[j].key = key /\ recency[j].vector = v
  BY HitIs DEF v, c
<1>5. recency[j] \in Entry /\ cache \in Seq(Entry) /\ recency \in Seq(Entry) /\ recency[j] = [key |-> key, vector |-> v]
  <2>1. recency[j] \in Entry /\ cache \in Seq(Entry) /\ recency \in Seq(Entry)
    BY DEF ETypeOK
  <2> QED
    BY <2>1, <1>4 DEF Entry
<1>6. PICK paidfor \in paid : Key(paidfor.text, paidfor.by) = key /\ paidfor.vector = v
  BY <1>4 DEF PaidInv, Bought
<1>7. paidfor.text = c.text /\ paidfor.by.model = provider.model
  BY <1>6, KeyIs
<1>8. Holds(cache, key) /\ Holds(recency, key)
  BY <1>4 DEF Holds, c
<1> HIDE DEF key
<1>9. /\ cache' \in Seq(Entry) /\ recency' \in Seq(Entry)
      /\ IsEnd(cache', recency') /\ Distinct(recency') /\ Len(cache') = Len(cache) /\ Len(recency') = Len(recency)
      /\ \A k : Holds(recency', k) <=> Holds(recency, k)
      /\ \A i \in DOMAIN recency' : recency'[i] = recency[j] \/ \E l \in DOMAIN recency : recency'[i] = recency[l]
  <2>1. Distinct(recency) /\ IsEnd(cache, recency)
    BY DEF CacheInv
  <2>2. Distinct(cache) /\ IsEnd(cache', recency') /\ Len(cache') = Len(cache) /\ Len(recency') = Len(recency)
    BY <1>2, <1>5, <1>8, <2>1, EndOfNewest
  <2>3. cache' \in Seq(Entry)
    BY <1>2, <1>5, <2>2, NewestIs
  <2>4. /\ recency' \in Seq(Entry) /\ Distinct(recency')
        /\ \A k : Holds(recency', k) <=> k = key \/ Holds(recency, k)
        /\ \A i \in DOMAIN recency' : recency'[i] = recency[j] \/ \E l \in DOMAIN recency : recency'[i] = recency[l]
    BY <1>2, <1>5, <2>1, NewestIs
  <2> QED
    BY <1>8, <2>2, <2>3, <2>4
<1>10. \A i \in DOMAIN recency' : \E l \in DOMAIN recency : recency'[i] = recency[l]
  BY <1>9
<1>11. ETypeOK'
  <2>1. Len(cache') <= limit
    BY <1>9 DEF ETypeOK
  <2> QED
    BY <1>1, <1>9, <2>1, LookUpAt DEF ETypeOK
<1>12. CacheInv'
  BY <1>1, <1>9 DEF CacheInv
<1>13. WorkInv'
  BY <1>1, LookUpAt DEF WorkInv
<1>14. PaidInv'
  <2>1. \A i \in DOMAIN recency' : Bought(recency'[i])
    BY <1>10 DEF PaidInv
  <2> QED
    BY <1>1, <1>9, <2>1 DEF PaidInv, Bought
<1>15. FreshInv'
  BY <1>1, <1>9 DEF FreshInv, ToSend
<1>16. OwnVector(c.id, v)
  <2>1. paidfor.call # calls
    BY LookUpAt DEF LookUpInv
  <2>2. paidfor.call < calls
    BY <2>1, LookUpAt
  <2>3. paidfor.whole => v = VectorOf(c.text, paidfor.by)
    BY <1>6, <1>7 DEF PaidInv
  <2>4. FoundFor(c, v)
    BY <1>6, <1>7, <2>2, <2>3 DEF FoundFor
  <2>5. recency # <<>> /\ shared
    BY <1>4, LookUpAt DEF LookUpInv
  <2> QED
    BY <1>3, <2>4, <2>5 DEF OwnVector
<1>17. /\ DOMAIN vectors' = DOMAIN vectors \cup {c.id}
       /\ \A id \in DOMAIN vectors' : vectors'[id] = IF id = c.id THEN v ELSE vectors[id]
  BY <1>2 DEF WithVector
<1>18. PaidFor(c.text)
  BY <1>7 DEF PaidFor
<1>19. HandledInv'
  <2>1. \A id \in DOMAIN vectors : OwnVector(id, vectors[id])
    BY LookUpAt DEF HandledInv
  <2>2. \A id \in DOMAIN vectors' : OwnVector(id, vectors'[id])
    BY <1>16, <1>17, <2>1
  <2>3. \A i \in 1..(at - 1) :
            \/ doc.chunks[i] \in ToSend
            \/ doc.chunks[i].id \in DOMAIN vectors /\ PaidFor(doc.chunks[i].text)
    BY LookUpAt DEF HandledInv
  <2>4. \A i \in 1..at :
            \/ doc.chunks[i] \in ToSend
            \/ doc.chunks[i].id \in DOMAIN vectors' /\ PaidFor(doc.chunks[i].text)
    <3> TAKE i \in 1..at
    <3>1. CASE i = at
      BY <1>17, <1>18, <3>1 DEF c
    <3>2. CASE i \in 1..(at - 1)
      BY <1>17, <2>3, <3>2
    <3> QED
      BY <3>1, <3>2, LookUpAt
  <2> QED
    BY <1>1, <2>2, <2>4, LookUpAt DEF HandledInv, OwnVector, FoundFor, PaidFor, ToSend
<1>22. LookUpInv' /\ AnswerInv'
  <2>1. recency # <<>> /\ shared
    BY <1>4, LookUpAt DEF LookUpInv
  <2> QED
    BY <1>1, <2>1, LookUpAt DEF LookUpInv, AnswerInv, Whole
<1>20. OwnVectors'
  BY <1>1, LookUpAt DEF OwnVectors
<1>21. RetriesPayTheRest'
  BY <1>1, <1>9 DEF RetriesPayTheRest, PaidOnce, MarkedMeansEmbedded
<1> QED
  BY <1>11, <1>12, <1>13, <1>14, <1>15, <1>19, <1>20, <1>21, <1>22

LEMMA MissInv ==
    ASSUME EInv, LookUp, ~Holds(cache, Key(doc.chunks[at].text, provider))
    PROVE  EInv'
<1> USE DEF EInv
<1> DEFINE c == doc.chunks[at]
           key == Key(c.text, provider)
<1>1. /\ UNCHANGED <<limit, shared, tracked, hashes, doc, provider, batch, embeddings, out, calls, paid>>
      /\ UNCHANGED <<pc, cache, recency, vectors>>
  BY LookUpAt DEF LookUp
<1>2. pending' = Append(pending, c)
  BY DEF LookUp
<1>3. c \in ToSet(doc.chunks) /\ c \in Chunk
  BY LookUpAt
<1>4. ~Holds(cache, key)
  OBVIOUS
<1> HIDE DEF c
<1>5. pending \in Seq(ToSet(doc.chunks))
  BY DEF ETypeOK
<1>6. pending' \in Seq(ToSet(doc.chunks)) /\ ToSend' = ToSend \cup {c}
  <2>1. /\ pending' \in Seq(ToSet(doc.chunks)) /\ Len(pending') = Len(pending) + 1 /\ Len(pending) \in Nat
        /\ pending'[Len(pending) + 1] = c /\ \A i \in 1..Len(pending) : pending'[i] = pending[i]
    BY <1>2, <1>3, <1>5
  <2>2. \A x : x \in ToSet(pending) <=> \E i \in 1..Len(pending) : pending[i] = x
    BY <1>5, ToSetIs
  <2>3. \A x : x \in ToSet(pending') <=> \E i \in 1..(Len(pending) + 1) : pending'[i] = x
    BY <2>1, ToSetIs
  <2>4. \A i \in 1..(Len(pending) + 1) : i = Len(pending) + 1 \/ i \in 1..Len(pending)
    BY <2>1
  <2>5. 1..Len(pending) \subseteq 1..(Len(pending) + 1) /\ Len(pending) + 1 \in 1..(Len(pending) + 1)
    BY <2>1
  <2>6. \A x : x \in ToSet(pending') <=> x \in ToSet(pending) \/ x = c
    BY <2>1, <2>2, <2>3, <2>4, <2>5
  <2> QED
    BY <1>1, <2>1, <2>6 DEF ToSend
<1>7. ETypeOK'
  BY <1>1, <1>6, LookUpAt DEF ETypeOK
<1>8. CacheInv' /\ PaidInv' /\ LookUpInv' /\ AnswerInv'
  BY <1>1, LookUpAt DEF CacheInv, Distinct, IsEnd, PaidInv, Bought, Holds, LookUpInv, AnswerInv, Whole
<1>9. WorkInv'
  BY <1>1, LookUpAt DEF WorkInv
<1>10. FreshInv'
  <2>1. SUFFICES ASSUME shared, Len(recency) <= limit,
                        NEW d \in ToSend \cup {c}, NEW r \in paid, Key(r.text, r.by) = Key(d.text, provider)
                 PROVE  r.call = calls
    BY <1>1, <1>6 DEF FreshInv
  <2>2. CASE d \in ToSend
    BY <2>1, <2>2 DEF FreshInv
  <2>3. CASE d = c
    <3>1. Holds(recency, key)
      BY <2>1, <2>3 DEF PaidInv
    <3>2. Len(recency) > limit
      BY <1>4, <3>1, MissIs
    <3>3. Len(recency) \in Nat
      BY DEF ETypeOK
    <3> QED
      BY <2>1, <3>2, <3>3, LimitIs
  <2> QED
    BY <2>2, <2>3
<1>11. HandledInv'
  <2>1. \A i \in 1..(at - 1) :
            \/ doc.chunks[i] \in ToSend
            \/ doc.chunks[i].id \in DOMAIN vectors /\ PaidFor(doc.chunks[i].text)
    BY LookUpAt DEF HandledInv
  <2>2. \A i \in 1..at :
            \/ doc.chunks[i] \in ToSend'
            \/ doc.chunks[i].id \in DOMAIN vectors /\ PaidFor(doc.chunks[i].text)
    BY <1>6, <2>1, LookUpAt DEF c
  <2>3. \A id \in DOMAIN vectors : OwnVector(id, vectors[id])
    BY LookUpAt DEF HandledInv
  <2> QED
    BY <1>1, <2>2, <2>3, LookUpAt DEF HandledInv, OwnVector, FoundFor, PaidFor
<1>12. OwnVectors'
  BY <1>1, LookUpAt DEF OwnVectors
<1>13. RetriesPayTheRest'
  BY <1>1 DEF RetriesPayTheRest, PaidOnce, MarkedMeansEmbedded
<1> QED
  BY <1>7, <1>8, <1>9, <1>10, <1>11, <1>12, <1>13

LEMMA LookUpKeeps ==
    ASSUME EInv, LookUp
    PROVE  EInv'
BY HitInv, MissInv

\* An answer is vectors, and if they are as many as the texts, it is the texts' own.
LEMMA AnswerIs ==
    ASSUME NEW d \in Doc, NEW p \in Provider, NEW b \in Seq(ToSet(d.chunks)), NEW a \in Answers(b, p)
    PROVE  /\ a \in Seq(Vectors)
           /\ Len(a) = Len(b) => \A i \in 1..Len(b) : a[i] = VectorOf(b[i].text, p)
<1> DEFINE own == {VectorOf(c.text, p) : c \in ToSet(b)}
<1>1. PICK m \in Nat : m = Len(b) /\ DOMAIN b = 1..m /\ \A i \in 1..m : b[i] \in ToSet(d.chunks)
  <2>1. Len(b) \in Nat
    OBVIOUS
  <2> QED
    BY <2>1
<1>2. \A i \in 1..m : b[i] \in Chunk
  BY <1>1, ChunkIs
<1>3. own \subseteq Vectors
  <2>1. \A c \in ToSet(b) : \E i \in 1..Len(b) : b[i] = c
    BY ToSetIs
  <2> QED
    BY <1>1, <1>2, <2>1 DEF Vectors
<1>4. CASE a = [i \in DOMAIN b |-> VectorOf(b[i].text, p)]
  <2>1. \A i \in 1..m : VectorOf(b[i].text, p) \in Vectors
    BY <1>2 DEF Vectors
  <2>2. a = [i \in 1..m |-> VectorOf(b[i].text, p)]
    BY <1>1, <1>4
  <2> QED
    BY <1>1, <2>1, <2>2
<1> HIDE DEF own
<1>5. CASE \E n \in (0..(Len(b) + 1)) \ {Len(b)} : a \in [1..n -> own]
  <2>1. PICK n \in Nat : n # m /\ a \in [1..n -> own]
    BY <1>1, <1>5
  <2>2. a \in [1..n -> Vectors]
    BY <1>3, <2>1
  <2>3. a \in Seq(Vectors) /\ Len(a) = n
    BY <2>2
  <2> QED
    BY <1>1, <2>1, <2>3
<1> QED
  BY <1>4, <1>5 DEF Answers, own

LEMMA NextBatchInv ==
    ASSUME EInv, NextBatch
    PROVE  EInv'
<1> USE DEF EInv, NextBatch
<1>1. UNCHANGED <<limit, shared, tracked, hashes, doc, provider, at, out, calls, paid, cache, recency, vectors>>
  BY DEF config, work
<1>2. /\ pending \in Seq(ToSet(doc.chunks)) /\ batch = <<>> /\ at > Len(doc.chunks) /\ pc # "idle" /\ pc' = "store"
      /\ Whole
  BY DEF ETypeOK, WorkInv, BatchDone, Whole
<1>3. PICK n \in 0..Len(pending) :
          n <= BatchSize /\ batch' = SubSeq(pending, 1, n) /\ pending' = SubSeq(pending, n + 1, Len(pending))
  <2>1. Len(pending) \in Nat /\ BatchSize \in Nat
    BY <1>2, EmbedderAssumption
  <2>2. (IF Len(pending) < BatchSize THEN Len(pending) ELSE BatchSize) \in 0..Len(pending)
    BY <2>1
  <2>3. (IF Len(pending) < BatchSize THEN Len(pending) ELSE BatchSize) <= BatchSize
    BY <2>1
  <2> QED
    BY <2>2, <2>3
<1>4. /\ batch' \in Seq(ToSet(doc.chunks)) /\ pending' \in Seq(ToSet(doc.chunks)) /\ Len(batch') <= BatchSize
      /\ ToSet(pending) = ToSet(batch') \cup ToSet(pending')
  <2>1. /\ SubSeq(pending, 1, n) \in Seq(ToSet(doc.chunks)) /\ SubSeq(pending, n + 1, Len(pending)) \in Seq(ToSet(doc.chunks))
        /\ Len(SubSeq(pending, 1, n)) = n
        /\ ToSet(pending) = ToSet(SubSeq(pending, 1, n)) \cup ToSet(SubSeq(pending, n + 1, Len(pending)))
    BY <1>2, ToSetCut, Zenon
  <2>2. batch' = SubSeq(pending, 1, n) /\ pending' = SubSeq(pending, n + 1, Len(pending)) /\ n <= BatchSize
    BY <1>3
  <2> HIDE DEF NextBatch
  <2> QED
    BY <2>1, <2>2, Zenon
<1>5. ToSend' = ToSend
  BY <1>2, <1>4, ToSetOfNone DEF ToSend
<1>12. embeddings' \in Seq(Vectors) /\ AnswerInv'
  <2>1. embeddings' \in Answers(batch', provider) /\ doc \in Doc /\ provider \in Provider /\ provider' = provider
    BY <1>1 DEF ETypeOK
  <2>2. PICK b : b = batch'
    OBVIOUS
  <2>3. PICK a : a = embeddings'
    OBVIOUS
  <2>4. a \in Answers(b, provider) /\ b \in Seq(ToSet(doc.chunks))
    BY <1>4, <2>1, <2>2, <2>3
  <2>5. a \in Seq(Vectors) /\ (Len(a) = Len(b) => \A i \in 1..Len(b) : a[i] = VectorOf(b[i].text, provider))
    BY <2>1, <2>4, AnswerIs
  <2> QED
    BY <2>1, <2>2, <2>3, <2>5 DEF AnswerInv, Whole
<1>6. ETypeOK'
  BY <1>1, <1>2, <1>4, <1>12 DEF ETypeOK
<1>7. CacheInv' /\ PaidInv'
  BY <1>1 DEF CacheInv, Distinct, IsEnd, PaidInv, Bought, Holds
<1>8. WorkInv' /\ LookUpInv'
  BY <1>1, <1>2 DEF WorkInv, LookUpInv
<1>9. FreshInv' /\ HandledInv'
  BY <1>1, <1>2, <1>5 DEF FreshInv, HandledInv, OwnVector, FoundFor, PaidFor
<1>10. OwnVectors'
  BY <1>2 DEF OwnVectors
<1>11. RetriesPayTheRest'
  BY <1>1 DEF RetriesPayTheRest, PaidOnce, MarkedMeansEmbedded
<1> QED
  BY <1>6, <1>7, <1>8, <1>9, <1>10, <1>11, <1>12

LEMMA BatchFailsInv ==
    ASSUME EInv, BatchFails
    PROVE  EInv'
<1> USE DEF EInv, BatchFails
<1>1. UNCHANGED <<limit, shared, tracked, hashes, doc, provider, at, calls, paid, cache, recency, vectors>>
  BY DEF config, work
<1>2. pc' = "idle" /\ pending' = <<>> /\ batch' = <<>> /\ embeddings' = <<>> /\ out'.kind # "embedded"
  OBVIOUS
<1>3. ETypeOK'
  BY <1>1, <1>2, EmbedderAssumption DEF ETypeOK
<1>4. CacheInv' /\ PaidInv'
  BY <1>1 DEF CacheInv, Distinct, IsEnd, PaidInv, Bought, Holds
<1>5. WorkInv' /\ HandledInv' /\ OwnVectors' /\ LookUpInv' /\ AnswerInv'
  BY <1>2 DEF WorkInv, HandledInv, OwnVectors, LookUpInv, AnswerInv
<1>6. FreshInv'
  <2>1. ToSend' = {}
    BY <1>2, ToSetOfNone DEF ToSend
  <2> QED
    BY <2>1 DEF FreshInv
<1>7. RetriesPayTheRest'
  BY <1>1 DEF RetriesPayTheRest, PaidOnce, MarkedMeansEmbedded
<1> QED
  BY <1>3, <1>4, <1>5, <1>6, <1>7

\* What is stored goes to the end of both caches, and the limit is kept.
LEMMA StoredIs ==
    ASSUME ETypeOK, CacheInv, NEW key, NEW v, [key |-> key, vector |-> v] \in Entry
    PROVE  /\ Stored(cache, key, v) \in Seq(Entry) /\ IsEnd(Stored(cache, key, v), Newest(recency, key, v))
           /\ Len(recency) <= Len(Newest(recency, key, v))
           /\ Len(Stored(cache, key, v)) =
                  IF Len(Newest(recency, key, v)) < limit THEN Len(Newest(recency, key, v)) ELSE limit
<1>1. cache \in Seq(Entry) /\ recency \in Seq(Entry) /\ Distinct(recency) /\ IsEnd(cache, recency)
  BY DEF ETypeOK, CacheInv
<1>2. PICK new, newr : new = Newest(cache, key, v) /\ newr = Newest(recency, key, v)
  OBVIOUS
<1>3. /\ Distinct(cache) /\ IsEnd(new, newr)
      /\ Holds(cache, key) => Holds(recency, key)
      /\ ~Holds(cache, key) /\ Holds(recency, key) => Len(cache) < Len(recency)
      /\ Len(new) = IF Holds(cache, key) THEN Len(cache) ELSE Len(cache) + 1
      /\ Len(newr) = IF Holds(recency, key) THEN Len(recency) ELSE Len(recency) + 1
  BY <1>1, <1>2, EndOfNewest
<1>4. new \in Seq(Entry) /\ newr \in Seq(Entry)
  BY <1>1, <1>2, <1>3, NewestIs
<1>5. PICK n \in Nat, m \in Nat, k \in Nat, l \in Nat :
          n = Len(recency) /\ m = Len(cache) /\ k = Len(newr) /\ l = Len(new)
  <2>1. Len(recency) \in Nat /\ Len(cache) \in Nat /\ Len(newr) \in Nat /\ Len(new) \in Nat
    BY <1>1, <1>4
  <2> QED
    BY <2>1
<1>6. m = (IF n < limit THEN n ELSE limit) /\ limit \in Nat
  BY <1>5, LimitIs DEF CacheInv
<1>7. \/ l = m /\ k = n
      \/ l = m + 1 /\ k = n /\ m < n
      \/ l = m + 1 /\ k = n + 1
  BY <1>3, <1>5
<1>8. Stored(cache, key, v) = IF l > limit THEN Tail(new) ELSE new
  BY <1>2, <1>5 DEF Stored, Evicted
<1>9. CASE l > limit
  <2>1. l = limit + 1 /\ k >= limit /\ k >= n
    BY <1>6, <1>7, <1>9
  <2>2. new # <<>>
    BY <1>5, <1>6, <1>9
  <2>3. Tail(new) \in Seq(Entry) /\ IsEnd(Tail(new), newr) /\ Len(Tail(new)) = l - 1
    BY <1>3, <1>4, <1>5, <2>2, EndOfTail
  <2> QED
    BY <1>2, <1>5, <1>6, <1>8, <1>9, <2>1, <2>3
<1>10. CASE ~(l > limit)
  <2>1. l = (IF k < limit THEN k ELSE limit) /\ k >= n
    BY <1>6, <1>7, <1>10
  <2> QED
    BY <1>2, <1>3, <1>4, <1>5, <1>8, <1>10, <2>1
<1> QED
  BY <1>9, <1>10

LEMMA StoreVectorInv ==
    ASSUME EInv, StoreVector
    PROVE  EInv'
<1> USE DEF EInv
<1> DEFINE c == Head(batch)
           key == Key(c.text, provider)
           v == Head(embeddings)
           e == [key |-> key, vector |-> v]
           new == Paying(c, v)
<1>1. /\ UNCHANGED <<limit, shared, tracked, hashes, pc, doc, provider, at, pending, out, calls>>
      /\ pc = "store" /\ batch # <<>> /\ batch' = Tail(batch)
      /\ embeddings # <<>> /\ embeddings' = Tail(embeddings)
  BY DEF StoreVector, config, work
<1>2. /\ cache' = Stored(cache, key, v) /\ recency' = Newest(recency, key, v)
      /\ vectors' = WithVector(c, v) /\ paid' = paid \cup {new}
  BY DEF StoreVector, Store
<1>3. /\ batch' \in Seq(ToSet(doc.chunks)) /\ Len(batch') <= BatchSize /\ c \in ToSet(doc.chunks)
      /\ ToSet(batch) = ToSet(batch') \cup {c}
  <2>1. batch \in Seq(ToSet(doc.chunks)) /\ Len(batch) <= BatchSize /\ BatchSize \in Nat /\ Len(batch) \in Nat
    BY EmbedderAssumption DEF ETypeOK
  <2>2. /\ Tail(batch) \in Seq(ToSet(doc.chunks)) /\ c \in ToSet(doc.chunks) /\ Len(Tail(batch)) = Len(batch) - 1
        /\ ToSet(batch) = ToSet(Tail(batch)) \cup {c}
    BY <1>1, <2>1, ToSetTail
  <2> QED
    BY <1>1, <2>1, <2>2
\* The answer goes on as it began.
<1>23. /\ embeddings' \in Seq(Vectors) /\ v \in Vectors /\ Whole \in BOOLEAN
       /\ Whole' => Whole
       /\ Whole => v = VectorOf(c.text, provider)
       /\ AnswerInv'
  <2>1. /\ batch \in Seq(ToSet(doc.chunks)) /\ embeddings \in Seq(Vectors)
        /\ Len(batch) \in Nat \ {0} /\ Len(embeddings) \in Nat \ {0}
    BY <1>1 DEF ETypeOK
  <2>2. PICK m \in Nat \ {0}, n \in Nat \ {0} : m = Len(batch) /\ n = Len(embeddings)
    BY <2>1
  <2>3. /\ Tail(embeddings) \in Seq(Vectors) /\ v \in Vectors /\ v = embeddings[1] /\ c = batch[1]
        /\ Len(Tail(embeddings)) = n - 1 /\ Len(Tail(batch)) = m - 1
        /\ \A i \in 1..(m - 1) : Tail(batch)[i] = batch[i + 1]
        /\ \A i \in 1..(n - 1) : Tail(embeddings)[i] = embeddings[i + 1]
    BY <2>1, <2>2
  <2>4. (Whole <=> n = m) /\ (Whole' <=> n - 1 = m - 1)
    BY <1>1, <2>2, <2>3 DEF Whole
  <2>5. Whole => \A i \in 1..m : embeddings[i] = VectorOf(batch[i].text, provider)
    BY <2>2 DEF AnswerInv
  <2>6. ASSUME Whole', NEW i \in 1..(m - 1)
        PROVE  Tail(embeddings)[i] = VectorOf(Tail(batch)[i].text, provider)
    <3>1. Whole /\ n = m /\ i + 1 \in 1..m
      BY <2>2, <2>4, <2>6
    <3>2. embeddings[i + 1] = VectorOf(batch[i + 1].text, provider)
      BY <2>5, <3>1
    <3> QED
      BY <2>3, <3>1, <3>2
  <2>7. 1 \in 1..m
    BY <2>2
  <2>8. Whole => v = VectorOf(c.text, provider)
    BY <2>3, <2>5, <2>7
  <2>9. AnswerInv'
    BY <1>1, <2>3, <2>6 DEF AnswerInv
  <2>10. Whole' => Whole
    BY <2>2, <2>4
  <2> QED
    BY <1>1, <2>3, <2>8, <2>9, <2>10 DEF Whole
<1> HIDE DEF c, v
<1>4. c \in Chunk /\ doc \in Doc /\ provider \in Provider
  BY <1>3, ChunkIs DEF ETypeOK
<1>5. e \in Entry /\ e.vector = v /\ e.key = key
  BY <1>4, <1>23, EntryIs
<1>6. ToSend = ToSend' \cup {c}
  BY <1>1, <1>3 DEF ToSend
<1>7. calls \in 1..MaxCalls /\ calls \in 1..calls /\ \A r \in paid : r.call \in 1..calls
  BY <1>1, EmbedderAssumption DEF ETypeOK, WorkInv
<1>8. /\ new.call = calls /\ new.by = provider /\ new.text = c.text /\ new.vector = v /\ new.whole = Whole
      /\ new \in [call : 1..calls, by : Provider, text : {b.text : b \in Chunk}, vector : Vectors, whole : BOOLEAN]
  BY <1>4, <1>7, <1>23 DEF Paying
<1> HIDE DEF new, key
<1>9. /\ cache' \in Seq(Entry) /\ IsEnd(cache', recency') /\ Len(recency) <= Len(recency')
      /\ Len(cache') = IF Len(recency') < limit THEN Len(recency') ELSE limit
  BY <1>2, <1>5, StoredIs
<1>10. /\ recency' \in Seq(Entry) /\ Distinct(recency')
       /\ \A k : Holds(recency', k) <=> k = key \/ Holds(recency, k)
       /\ \A i \in DOMAIN recency' : recency'[i] = e \/ \E l \in DOMAIN recency : recency'[i] = recency[l]
  <2>1. recency \in Seq(Entry) /\ Distinct(recency)
    BY DEF ETypeOK, CacheInv
  <2>2. PICK newr : newr = Newest(recency, key, v)
    OBVIOUS
  <2>3. /\ newr \in Seq(Entry) /\ Distinct(newr)
        /\ \A k : Holds(newr, k) <=> k = key \/ Holds(recency, k)
        /\ \A i \in DOMAIN newr : newr[i] = e \/ \E l \in DOMAIN recency : newr[i] = recency[l]
    <3>1. [key |-> key, vector |-> v] \in Entry
      BY <1>5
    <3>2. newr \in Seq(Entry) /\ Distinct(newr) /\ \A k : Holds(newr, k) <=> k = key \/ Holds(recency, k)
      BY <2>1, <2>2, <3>1, NewestIs
    <3>3. \A i \in DOMAIN newr : newr[i] = [key |-> key, vector |-> v] \/ \E l \in DOMAIN recency : newr[i] = recency[l]
      BY <2>1, <2>2, <3>1, NewestIs
    <3> QED
      BY <3>2, <3>3
  <2> QED
    BY <1>2, <2>2, <2>3
<1> HIDE DEF e
<1>11. Len(recency) \in Nat /\ Len(recency') \in Nat /\ limit \in Nat
  BY <1>10, LimitIs DEF ETypeOK
<1>12. ETypeOK'
  <2>1. Len(cache') <= limit
    BY <1>9, <1>11
  <2>3. paid' \subseteq [call : 1..calls, by : Provider, text : {b.text : b \in Chunk},
                         vector : Vectors, whole : BOOLEAN]
    BY <1>2, <1>8 DEF ETypeOK
  <2> QED
    BY <1>1, <1>3, <1>9, <1>10, <1>23, <2>1, <2>3 DEF ETypeOK
<1>13. CacheInv'
  BY <1>1, <1>9, <1>10 DEF CacheInv
<1>14. WorkInv' /\ LookUpInv'
  BY <1>1 DEF WorkInv, LookUpInv
<1>15. PaidInv'
  <2>1. \A i \in DOMAIN recency' : \E r \in paid' : Key(r.text, r.by) = recency'[i].key /\ r.vector = recency'[i].vector
    <3> TAKE i \in DOMAIN recency'
    <3>1. CASE recency'[i] = e
      BY <1>2, <1>5, <1>8, <3>1 DEF key
    <3>2. CASE \E l \in DOMAIN recency : recency'[i] = recency[l]
      BY <1>2, <3>2 DEF PaidInv, Bought
    <3> QED
      BY <1>10, <3>1, <3>2
  <2>2. \A r \in paid' : r.whole => r.vector = VectorOf(r.text, r.by)
    BY <1>2, <1>8, <1>23 DEF PaidInv
  <2>3. shared => \A r \in paid' : Holds(recency', Key(r.text, r.by))
    BY <1>2, <1>8, <1>10 DEF PaidInv, key
  <2> QED
    BY <1>1, <2>1, <2>2, <2>3 DEF PaidInv, Bought
<1>16. FreshInv'
  <2> SUFFICES ASSUME shared, Len(recency') <= limit,
                      NEW d \in ToSend', NEW r \in paid', Key(r.text, r.by) = Key(d.text, provider)
               PROVE  r.call = calls
    BY <1>1 DEF FreshInv
  <2>1. Len(recency) <= limit /\ d \in ToSend
    BY <1>6, <1>9, <1>11
  <2> QED
    BY <1>2, <1>8, <2>1 DEF FreshInv
<1>17. Whole => OwnVector(c.id, v)
  BY <1>3, <1>23 DEF OwnVector
<1>18. /\ DOMAIN vectors' = DOMAIN vectors \cup {c.id}
       /\ \A id \in DOMAIN vectors' : vectors'[id] = IF id = c.id THEN v ELSE vectors[id]
  BY <1>2 DEF WithVector
<1>19. HandledInv'
  <2>1. Whole => \A id \in DOMAIN vectors : OwnVector(id, vectors[id])
    BY <1>1 DEF HandledInv
  <2>2. Whole => \A id \in DOMAIN vectors' : OwnVector(id, vectors'[id])
    BY <1>17, <1>18, <2>1
  <2>5. \A d, u : FoundFor(d, u) => FoundFor(d, u)'
    BY <1>1, <1>2 DEF FoundFor
  <2>3. Whole' => \A id \in DOMAIN vectors' : OwnVector(id, vectors[id])'
    BY <1>1, <1>23, <2>2, <2>5 DEF OwnVector
  <2>4. ASSUME NEW i \in 1..(at - 1)
        PROVE  \/ doc.chunks[i] \in ToSend'
               \/ doc.chunks[i].id \in DOMAIN vectors' /\ \E r \in paid' : r.text = doc.chunks[i].text
    <3>1. \/ doc.chunks[i] \in ToSend
          \/ doc.chunks[i].id \in DOMAIN vectors /\ PaidFor(doc.chunks[i].text)
      BY <1>1 DEF HandledInv
    <3>2. CASE doc.chunks[i] = c
      BY <1>2, <1>8, <1>18, <3>2 DEF PaidFor
    <3>3. CASE doc.chunks[i].id \in DOMAIN vectors /\ PaidFor(doc.chunks[i].text)
      BY <1>2, <1>18, <3>3 DEF PaidFor
    <3> QED
      BY <1>6, <3>1, <3>2, <3>3
  <2> QED
    BY <1>1, <2>3, <2>4 DEF HandledInv, PaidFor
<1>20. OwnVectors'
  BY <1>1 DEF OwnVectors
<1>21. PaidOnce'
  <2> SUFFICES ASSUME shared, Len(recency') <= limit,
                      NEW r \in paid', NEW q \in paid', r.text = q.text, r.by.model = q.by.model
               PROVE  r.call = q.call
    BY <1>1 DEF PaidOnce
  <2>1. Len(recency) <= limit /\ c \in ToSend
    BY <1>6, <1>9, <1>11
  <2>2. \A s \in paid : s.text = c.text /\ s.by.model = provider.model => s.call = calls
    BY <2>1 DEF FreshInv, Key
  <2>3. CASE r \in paid /\ q \in paid
    BY <2>1, <2>3 DEF RetriesPayTheRest, PaidOnce
  <2>4. CASE r = new \/ q = new
    BY <1>2, <1>8, <2>2, <2>4
  <2> QED
    BY <1>2, <2>3, <2>4
<1>22. RetriesPayTheRest'
  <2>1. MarkedMeansEmbedded'
    BY <1>1, <1>2 DEF RetriesPayTheRest, MarkedMeansEmbedded
  <2> QED
    BY <1>21, <2>1 DEF RetriesPayTheRest
<1> QED
  BY <1>12, <1>13, <1>14, <1>15, <1>16, <1>19, <1>20, <1>22, <1>23

LEMMA FinishInv ==
    ASSUME EInv, Finish
    PROVE  EInv'
<1> USE DEF EInv
<1>1. /\ UNCHANGED <<limit, shared, tracked, cache, doc, provider, at, vectors, pending, batch, embeddings>>
      /\ UNCHANGED <<calls, recency, paid>>
  BY DEF Finish, config, work
<1>2. /\ pc # "idle" /\ pc' = "idle" /\ pending = <<>> /\ batch = <<>> /\ at > Len(doc.chunks)
      /\ embeddings = <<>> /\ Whole
      /\ hashes' = Mark
      /\ out' = [kind |-> "embedded", vectors |-> [i \in DOMAIN doc.chunks |-> vectors[doc.chunks[i].id]]]
  BY DEF Finish, AllStored, BatchDone, WorkInv, Whole
<1>3. doc \in Doc /\ at - 1 = Len(doc.chunks) /\ DOMAIN doc.chunks = 1..Len(doc.chunks)
  <2>1. doc \in Doc /\ at \in 1..(Len(doc.chunks) + 1)
    BY DEF ETypeOK
  <2>2. Len(doc.chunks) \in Nat /\ DOMAIN doc.chunks = 1..Len(doc.chunks)
    BY <2>1, ChunkIs
  <2> QED
    BY <1>2, <2>1, <2>2
<1>4. ToSend = {} /\ ToSend' = {}
  BY <1>1, <1>2, ToSetOfNone DEF ToSend
<1>5. \A i \in DOMAIN doc.chunks :
          /\ doc.chunks[i].id \in DOMAIN vectors /\ PaidFor(doc.chunks[i].text)
          /\ OwnVector(doc.chunks[i].id, vectors[doc.chunks[i].id])
  BY <1>2, <1>3, <1>4 DEF HandledInv
<1>6. ETypeOK'
  <2>1. doc.path \in Pathname /\ doc.version \in {d.version : d \in Doc}
    BY <1>3 DEF Pathname
  <2>2. hashes' \in [Pathname -> {d.version : d \in Doc} \cup {NoHash}]
    BY <1>2, <2>1 DEF ETypeOK, Mark
  <2> QED
    BY <1>1, <1>2, <2>2 DEF ETypeOK
<1>7. CacheInv' /\ PaidInv'
  BY <1>1 DEF CacheInv, Distinct, IsEnd, PaidInv, Bought, Holds
<1>8. WorkInv' /\ HandledInv' /\ FreshInv' /\ LookUpInv' /\ AnswerInv'
  BY <1>1, <1>2, <1>4 DEF WorkInv, HandledInv, FreshInv, LookUpInv, AnswerInv
<1>9. OwnVectors'
  <2>1. \A i \in DOMAIN doc.chunks : out'.vectors[i] = vectors[doc.chunks[i].id]
    BY <1>2
  <2> QED
    BY <1>1, <1>5, <2>1 DEF OwnVectors, OwnVector, FoundFor
<1>10. MarkedMeansEmbedded'
  <2> SUFFICES ASSUME NEW d \in Doc, hashes'[d.path] = d.version, NEW c \in ToSet(d.chunks)
               PROVE  PaidFor(c.text)
    BY <1>1 DEF MarkedMeansEmbedded, PaidFor
  <2>1. CASE hashes[d.path] = d.version
    BY <2>1 DEF RetriesPayTheRest, MarkedMeansEmbedded, PaidFor
  <2>2. CASE hashes[d.path] # d.version
    <3>1. d.path = doc.path /\ d.version = doc.version
      <4>1. hashes' = [hashes EXCEPT ![doc.path] = doc.version]
        BY <1>2, <2>2 DEF Mark
      <4>2. hashes \in [Pathname -> {b.version : b \in Doc} \cup {NoHash}] /\ d.path \in Pathname /\ doc.path \in Pathname
        BY <1>3 DEF ETypeOK, Pathname
      <4> QED
        BY <2>2, <4>1, <4>2
    <3>2. c.text \in {b.text : b \in ToSet(d.chunks)}
      OBVIOUS
    <3>3. c.text \in {b.text : b \in ToSet(doc.chunks)}
      BY <1>3, <3>1, <3>2, EmbedderAssumption
    <3>4. PICK b \in ToSet(doc.chunks) : b.text = c.text
      BY <3>3
    <3>5. PICK i \in DOMAIN doc.chunks : doc.chunks[i] = b
      <4>1. doc.chunks \in Seq(ToSet(doc.chunks))
        BY <1>3, ChunkIs
      <4>2. \E i \in 1..Len(doc.chunks) : doc.chunks[i] = b
        BY <4>1, ToSetIs
      <4> QED
        BY <1>3, <4>2
    <3> QED
      BY <1>5, <3>4, <3>5
  <2> QED
    BY <2>1, <2>2
<1>11. RetriesPayTheRest'
  BY <1>1, <1>10 DEF RetriesPayTheRest, PaidOnce
<1> QED
  BY <1>6, <1>7, <1>8, <1>9, <1>11

----------------------------------------------------------------------------
(* The theorems.                                                           *)

LEMMA StutterInv ==
    ASSUME EInv, UNCHANGED evars
    PROVE  EInv'
<1>1. /\ UNCHANGED <<limit, shared, tracked, cache, hashes, pc, doc, provider, at, vectors>>
      /\ UNCHANGED <<pending, batch, embeddings, out, calls, recency, paid>>
  BY DEF evars, config, work
<1>2. ETypeOK' /\ CacheInv' /\ WorkInv'
  BY <1>1 DEF EInv, ETypeOK, CacheInv, Distinct, IsEnd, WorkInv
<1>3. PaidInv' /\ FreshInv' /\ HandledInv'
  BY <1>1 DEF EInv, PaidInv, Bought, Holds, FreshInv, ToSend, HandledInv, OwnVector, FoundFor, Whole, PaidFor
<1>5. LookUpInv' /\ AnswerInv'
  BY <1>1 DEF EInv, LookUpInv, AnswerInv, Whole
<1>4. OwnVectors' /\ RetriesPayTheRest'
  BY <1>1 DEF EInv, OwnVectors, FoundFor, RetriesPayTheRest, PaidOnce, MarkedMeansEmbedded
<1> QED
  BY <1>2, <1>3, <1>4, <1>5 DEF EInv

LEMMA NextInv == EInv /\ [ENext]_evars => EInv'
<1> SUFFICES ASSUME EInv, [ENext]_evars PROVE EInv'
  OBVIOUS
<1>1. CASE \E d \in Doc, p \in Provider : Begin(d, p)
  BY <1>1, BeginInv
<1>2. CASE LookUp
  BY <1>2, LookUpKeeps
<1>3. CASE NextBatch
  BY <1>3, NextBatchInv
<1>4. CASE StoreVector
  BY <1>4, StoreVectorInv
<1>5. CASE BatchFails
  BY <1>5, BatchFailsInv
<1>6. CASE Finish
  BY <1>6, FinishInv
<1>7. CASE UNCHANGED evars
  BY <1>7, StutterInv
<1> QED
  BY <1>1, <1>2, <1>3, <1>4, <1>5, <1>6, <1>7 DEF ENext

\* The inductive invariant holds for any documents, providers, sizes of batch and
\* limits of the cache, also of none (max_entries = 0).
THEOREM EInvariant == ESpec => []EInv
BY InitInv, NextInv, PTL DEF ESpec

\* Two sequences of one length with the same elements are one.
LEMMA EndIsSubSeq ==
    ASSUME NEW c \in Seq(Entry), NEW r \in Seq(Entry), IsEnd(c, r)
    PROVE  c = SubSeq(r, Len(r) - Len(c) + 1, Len(r))
<1>1. PICK n \in Nat, m \in Nat : n = Len(r) /\ m = Len(c) /\ m <= n
  <2>1. Len(r) \in Nat /\ Len(c) \in Nat
    OBVIOUS
  <2> QED
    BY <2>1 DEF IsEnd
<1>2. PICK s : s = SubSeq(r, n - m + 1, n)
  OBVIOUS
<1>3. s \in Seq(Entry) /\ Len(s) = m /\ \A i \in 1..m : s[i] = r[n - m + i]
  <2>1. \A i \in (n - m + 1)..n : r[i] \in Entry
    BY <1>1
  <2>2. s \in Seq(Entry) /\ Len(s) = m
    BY <1>1, <1>2, <2>1
  <2>3. \A i \in 1..m : s[i] = r[n - m + i]
    BY <1>1, <1>2
  <2> QED
    BY <2>2, <2>3
<1>4. \A i \in 1..m : s[i] = c[i]
  BY <1>1, <1>3 DEF IsEnd
<1>5. s = c
  BY <1>1, <1>3, <1>4, SeqEqual
<1> QED
  BY <1>1, <1>2, <1>5

LEMMA CacheIsEnd == EInv => CacheSound
<1> SUFFICES ASSUME EInv PROVE KeepsMostRecent
  BY DEF EInv, CacheSound
<1>1. /\ cache \in Seq(Entry) /\ recency \in Seq(Entry) /\ IsEnd(cache, recency)
      /\ Len(cache) = IF Len(recency) < limit THEN Len(recency) ELSE limit
  BY DEF EInv, ETypeOK, CacheInv
<1> QED
  BY <1>1, EndIsSubSeq DEF KeepsMostRecent

\* EmbeddingCache, with its move_to_end on a hit and its popitem of the oldest after a
\* set, holds the last max_entries that were used, in the order of use: whichever calls
\* share it, fail or are skipped.
THEOREM CacheIsSound == ESpec => []CacheSound
BY EInvariant, CacheIsEnd, PTL

\* embed_document returns for each chunk the vector its provider computes for a text of
\* its id, or what an earlier call left in the shared cache under that text and model:
\* the vector of the text, unless that call failed over the number of its vectors.
THEOREM VectorsAreOwn == ESpec => []OwnVectors
<1>1. EInv => OwnVectors
  BY DEF EInv
<1> QED
  BY <1>1, EInvariant, PTL

\* No two calls pay for one text and model while all fits into the shared cache, also
\* after a batch that failed half-way, and a file is marked only when each of its texts
\* was paid for.
THEOREM RetriesPay == ESpec => []RetriesPayTheRest
<1>1. EInv => RetriesPayTheRest
  BY DEF EInv
<1> QED
  BY <1>1, EInvariant, PTL
=============================================================================
