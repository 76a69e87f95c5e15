---------------------------- MODULE ServerProofs ----------------------------
(***************************************************************************)
(* The safety properties of Server, for any threads, files, providers and  *)
(* requests.                                                               *)
(***************************************************************************)
EXTENDS Server, FiniteSetTheorems, SequenceTheorems, TLAPS

At(t, S) == pc[t] \in S
NameOf(t) == Name(request[t])

\* A thread at a request has one; a file is never a directory.
WorkInv ==
    /\ \A t \in Thread : pc[t] # "idle" \/ answer[t].status # 0 => request[t] \in Request
    /\ \A t \in Thread :
           /\ At(t, {"list", "files", "store"}) => Asks(t, "index")
           /\ At(t, {"guard", "search"}) => Asks(t, "query")
    /\ \A f \in File : kind[f] \in {"file", "none"}
    /\ kind \in [Path -> {"file", "folder", "none"}]

Result == [files : Nat, failed : Nat, stored : SUBSET Path]

\* What a thread has to do and has done, whatever it is.
TaskInv ==
    /\ todo \in [Thread -> Seq(Path)]
    /\ result \in [Thread -> Result]
    /\ \A t \in Thread : At(t, {"embed", "load", "store"}) /\ Asks(t, "index") => todo[t] # <<>>

Place == {"idle", "validate", "provider", "build", "keep", "list", "files", "embed", "load", "store", "guard",
          "search"}
Answer == [status : Nat, kind : {"none", "error", "file", "batch", "hits"}]

ShapeInv ==
    /\ pc \in [Thread -> Place]
    /\ request \in [Thread -> Request \cup {NoRequest}]
    /\ provider \in [Thread -> Nat]
    /\ answer \in [Thread -> Answer]
    /\ cached \in [Provider -> Nat] /\ loads \in [Provider -> Nat]
    /\ served \in Nat /\ changes \in Nat

\* An instance that a thread holds is one of its provider.
HeldInv ==
    \A t \in Thread :
        /\ provider[t] # 0 => provider[t] \in DOMAIN made /\ made[provider[t]] = NameOf(t)
        /\ At(t, {"keep", "list", "files", "embed", "load", "store", "guard"}) => provider[t] # 0
        /\ At(t, {"validate", "provider", "build"}) => provider[t] = 0

IType == ShapeInv /\ TypeOK /\ WorkInv /\ TaskInv /\ HeldInv

\* The instances of a provider that no two threads were building or loading at once:
\* there is one at most, its builder is alone until the cache has it, and whoever
\* holds it has the one of the cache.
Lone(p) == p \notin raced

InstancesInv ==
    /\ \A i, j \in DOMAIN made : made[i] = made[j] /\ Lone(made[i]) => i = j
    /\ \A i \in DOMAIN made :
           Lone(made[i]) => cached[made[i]] # 0 \/ \E t \in Thread : At(t, {"keep"}) /\ NameOf(t) = made[i]
    /\ \A t \in Thread : At(t, {"build"}) /\ Lone(NameOf(t)) =>
           cached[NameOf(t)] = 0 /\ \A i \in DOMAIN made : made[i] # NameOf(t)
    /\ \A t, u \in Thread :
           At(t, {"build", "keep"}) /\ At(u, {"build", "keep"}) /\ NameOf(t) = NameOf(u) /\ t # u =>
               ~ Lone(NameOf(t))

\* An instance is its builder's alone until it is kept.
FreshInv ==
    \A t \in Thread : At(t, {"keep"}) =>
        /\ cached[NameOf(t)] # provider[t]
        /\ \A u \in Thread \ {t} : provider[u] # provider[t]

OneHeldInv ==
    \A t \in Thread : provider[t] # 0 /\ ~ At(t, {"keep"}) /\ Lone(NameOf(t)) => provider[t] = cached[NameOf(t)]

\* The model of such a provider is loaded once: by a thread alone with it, into an
\* instance that has none.
LoadsInv ==
    /\ \A p \in Provider : Lone(p) => loads[p] <= 1
    /\ \A p \in Provider : Lone(p) /\ loads[p] # 0 => \E i \in loaded : made[i] = p
    /\ \A t \in Thread : At(t, {"load"}) /\ Lone(NameOf(t)) => provider[t] \notin loaded
    /\ \A t, u \in Thread :
           At(t, {"load"}) /\ At(u, {"load"}) /\ NameOf(t) = NameOf(u) /\ t # u => ~ Lone(NameOf(t))

ProviderInv == InstancesInv /\ FreshInv /\ OneHeldInv /\ LoadsInv

\* What was done so far for a request for one file.
Untouched(t) == result[t] = NoResult
Missed(t) == result[t].failed = 1 /\ result[t].stored = {}
Found(t) == result[t].failed = 0 /\ result[t].files = 1 /\ Holds(request[t].path)

OneFile(t) == request[t] # NoRequest /\ Asks(t, "index") /\ request[t].path \in File

FileInv ==
    \A t \in Thread : OneFile(t) =>
        /\ At(t, {"validate", "provider", "build", "keep", "list"}) => Untouched(t) /\ todo[t] = <<>>
        /\ At(t, {"embed", "load", "store"}) => Untouched(t) /\ todo[t] = <<request[t].path>>
        /\ At(t, {"files"}) =>
               \/ Untouched(t) /\ todo[t] = <<request[t].path>>
               \/ todo[t] = <<>> /\ (Missed(t) \/ Found(t))

\* What an answer says.
SaysStored(t) ==
    /\ answer[t].status # 200 => result[t].stored = {}
    /\ answer[t].kind = "file" => Found(t)
    /\ answer[t].kind = "batch" => Missed(t) \/ Found(t)
    /\ answer[t].status # 415

AnswerInv ==
    /\ \A t \in Thread : OneFile(t) /\ Answered(t) => SaysStored(t)
    /\ \A t \in Thread : Asks(t, "query") /\ request[t].mode = "bm25" =>
           /\ At(t, {"idle", "validate", "search"}) /\ provider[t] = 0
           /\ Answered(t) => answer[t].status \in {200, 400, 401, 422, 500}

IInv == IType /\ ProviderInv /\ FileInv /\ AnswerInv

----------------------------------------------------------------------------
(* Types.                                                                  *)

LEMMA NameIsProvider == ASSUME NEW r \in Request PROVE Name(r) \in Provider
  BY ServerAssumption DEF Name

LEMMA RequestIsNone == NoRequest \notin Request /\ \A r \in Request : r.op \in {"index", "query"}
  BY ServerAssumption DEF NoRequest

\* The files of a directory as a list.
LEMMA FilesAreSeq == ASSUME NEW S, IsFiniteSet(S) PROVE SetToSeq(S) \in Seq(S)
<1>1. Cardinality(S) \in Nat /\ \E f \in [1..Cardinality(S) -> S] : IsInjective(f)
  BY FS_CardinalityType DEF ExistsBijection, Bijection, Injection, IsInjective
<1>2. SetToSeq(S) \in [1..Cardinality(S) -> S]
  BY <1>1 DEF SetToSeq
<1>3. QED
  BY <1>1, <1>2

LEMMA TypeInit == Init => IType
<1> SUFFICES ASSUME Init PROVE IType
  OBVIOUS
<1>1. ShapeInv
  BY DEF Init, ShapeInv, NoAnswer, Place, Answer
<1>2. TypeOK
  <2>1. Earlier \subseteq [path : File \cup Folder, model : {d.model : d \in Earlier} \cup {ServerModel}]
    BY ServerAssumption
  <2>2. MaxRequests \in Nat /\ MaxChanges \in Nat
    BY ServerAssumption
  <2>3. <<>> \in Seq(Provider)
    OBVIOUS
  <2>4. QED
    BY <2>1, <2>2, <2>3 DEF Init, TypeOK, Path
<1>3. WorkInv
  BY DEF Init, WorkInv, At, Path, NoAnswer
<1>4. TaskInv
  BY DEF Init, TaskInv, Result, At, NoResult
<1>5. HeldInv
  BY DEF Init, HeldInv, At
<1>6. QED
  BY <1>1, <1>2, <1>3, <1>4, <1>5 DEF IType

\* A thread at a request, and the others stay where they are.
LEMMA OthersStay ==
  ASSUME IType, NEW t \in Thread, Receive(t) \/ Handle(t), NEW u \in Thread, u # t
  PROVE  /\ pc'[u] = pc[u] /\ request'[u] = request[u] /\ provider'[u] = provider[u]
         /\ todo'[u] = todo[u] /\ result'[u] = result[u] /\ answer'[u] = answer[u]
<1> USE DEF IType, ShapeInv, TaskInv, Goto, Reply
<1>1. CASE Receive(t) \/ Validate(t) \/ Lookup(t) \/ Build(t) \/ Keep(t)
  BY <1>1 DEF Receive, Validate, Lookup, Build, Keep
<1>2. CASE ListFiles(t)
  <2>1. pc'[u] = pc[u] /\ UNCHANGED <<request, provider, answer>>
    BY <1>2 DEF ListFiles
  <2>2. \/ UNCHANGED result /\ \E s : todo' = [todo EXCEPT ![t] = s]
        \/ UNCHANGED todo /\ result' = [result EXCEPT ![t].failed = 1]
    BY <1>2 DEF ListFiles
  <2>3. QED
    BY <2>1, <2>2
<1>3. CASE ReadFile(t) \/ Store(t) \/ StoreFails(t)
  BY <1>3 DEF Raises, ReadFile, Store, StoreFails, Fails
<1>4. CASE AnswerIndex(t) \/ Guard(t) \/ Embed(t) \/ Load(t) \/ Search(t)
  BY <1>4 DEF Raises, AnswerIndex, Guard, Embed, Load, Search, Fails
<1>5. QED
  BY <1>1, <1>2, <1>3, <1>4 DEF Handle

LEMMA ReplyShape ==
  ASSUME ShapeInv, NEW t \in Thread, NEW from, NEW status \in Nat, NEW sort \in {"error", "file", "batch", "hits"},
         Reply(t, from, status, sort)
  PROVE  pc' \in [Thread -> Place] /\ answer' \in [Thread -> Answer]
<1>1. [status |-> status, kind |-> sort] \in Answer
  BY DEF Answer
<1>2. QED
  BY <1>1 DEF ShapeInv, Reply, Goto, Place

LEMMA RaisesEnds ==
  ASSUME ShapeInv, NEW t \in Thread, NEW from, Raises(t, from)
  PROVE  pc[t] = from /\ pc'[t] = "idle"
  BY DEF Raises, ShapeInv, Reply, Goto

LEMMA FailsShape ==
  ASSUME ShapeInv, NEW t \in Thread, NEW from, Fails(t, from)
  PROVE  pc' \in [Thread -> Place] /\ answer' \in [Thread -> Answer]
<1>1. CASE Raises(t, from)
  BY <1>1, ReplyShape DEF Raises
<1>2. CASE UNCHANGED answer /\ Goto(t, from, "files")
  BY <1>2 DEF Goto, Place, ShapeInv
<1>3. QED
  BY <1>1, <1>2 DEF Fails

LEMMA ShapeHandle ==
  ASSUME IType, NEW t \in Thread, Handle(t)
  PROVE  pc' \in [Thread -> Place] /\ answer' \in [Thread -> Answer]
<1> USE DEF IType, ShapeInv, Goto, Place
<1>1. CASE Validate(t)
  <2>1. CASE \E status \in {401, 403, 404, 422} : Reply(t, "validate", status, "error")
    BY <2>1, ReplyShape
  <2>2. CASE pc' \in [Thread -> Place] /\ UNCHANGED answer
    BY <2>2
  <2>3. QED
    BY <1>1, <2>1, <2>2 DEF Validate
<1>2. CASE Lookup(t)
  BY <1>2 DEF Lookup, AfterProvider
<1>3. CASE Build(t)
  <2>1. CASE Reply(t, "build", 400, "error")
    BY <2>1, ReplyShape
  <2>2. CASE pc' \in [Thread -> Place] /\ UNCHANGED answer
    BY <2>2
  <2>3. QED
    BY <1>3, <2>1, <2>2 DEF Build
<1>4. CASE Keep(t)
  BY <1>4 DEF Keep, AfterProvider
<1>5. CASE ListFiles(t)
  BY <1>5 DEF ListFiles, shared
<1>6. CASE ReadFile(t)
  BY <1>6, FailsShape DEF ReadFile
<1>7. CASE Store(t) \/ StoreFails(t)
  BY <1>7, FailsShape DEF Store, StoreFails
<1>8. CASE AnswerIndex(t)
  BY <1>8, ReplyShape DEF AnswerIndex
<1>9. CASE Guard(t)
  <2>1. CASE Reply(t, "guard", 409, "error") \/ Raises(t, "guard")
    BY <2>1, ReplyShape DEF Raises
  <2>2. CASE pc' \in [Thread -> Place] /\ UNCHANGED answer
    BY <2>2
  <2>3. QED
    BY <1>9, <2>1, <2>2 DEF Guard
<1>10. CASE Embed(t)
  BY <1>10, FailsShape DEF Embed, AfterEmbed
<1>11. CASE Load(t)
  BY <1>11, FailsShape DEF Load, AfterEmbed
<1>12. CASE Search(t)
  BY <1>12, ReplyShape DEF Search, Raises
<1>13. QED
  BY <1>1, <1>2, <1>3, <1>4, <1>5, <1>6, <1>7, <1>8, <1>9, <1>10, <1>11, <1>12 DEF Handle

\* What a thread holds after a step is a number, and so are the instances of the cache.
LEMMA ShapeHeld ==
  ASSUME IType, NEW t \in Thread, Handle(t)
  PROVE  provider' \in [Thread -> Nat] /\ cached' \in [Provider -> Nat] /\ loads' \in [Provider -> Nat]
<1> USE DEF IType, ShapeInv
<1>1. CASE Lookup(t)
  <2>1. Name(request[t]) \in Provider
    BY <1>1, NameIsProvider DEF Lookup, Goto, WorkInv
  <2>2. QED
    BY <1>1, <2>1 DEF Lookup
<1>2. CASE Build(t)
  <2>1. made \in Seq(Provider) /\ Name(request[t]) \in Provider
    BY <1>2, NameIsProvider DEF Build, Goto, Reply, WorkInv, TypeOK
  <2>2. Len(Append(made, Name(request[t]))) \in Nat
    BY <2>1
  <2>3. QED
    BY <1>2, <2>2 DEF Build
<1>3. CASE Keep(t)
  BY <1>3 DEF Keep
<1>4. CASE Load(t)
  BY <1>4 DEF Load
<1>5. QED
  BY <1>1, <1>2, <1>3, <1>4 DEF Handle, Validate, ListFiles, ReadFile, Store, StoreFails, AnswerIndex, Guard,
     Embed, Search, shared

LEMMA ShapeNext == IType /\ [Next]_vars => ShapeInv'
<1> SUFFICES ASSUME IType, [Next]_vars PROVE ShapeInv'
  OBVIOUS
<1> USE DEF IType, ShapeInv
<1>1. CASE UNCHANGED vars
  BY <1>1 DEF vars, locals
<1>2. CASE Change
  BY <1>2 DEF Change, locals
<1>3. ASSUME NEW t \in Thread, Receive(t) PROVE ShapeInv'
  <2>1. pc' \in [Thread -> Place]
    BY <1>3 DEF Receive, Goto, Place
  <2>2. NoAnswer \in Answer
    BY DEF NoAnswer, Answer
  <2>3. request' \in [Thread -> Request \cup {NoRequest}]
    BY <1>3 DEF Receive
  <2>4. answer' \in [Thread -> Answer]
    BY <1>3, <2>2 DEF Receive
  <2>5. provider' \in [Thread -> Nat] /\ served' \in Nat /\ UNCHANGED <<cached, loads, changes>>
    BY <1>3 DEF Receive
  <2>6. QED
    BY <2>1, <2>3, <2>4, <2>5
<1>4. ASSUME NEW t \in Thread, Handle(t) PROVE ShapeInv'
  <2>1. UNCHANGED <<request, served, changes>>
    BY <1>4 DEF Handle, Validate, Lookup, Build, Keep, ListFiles, ReadFile, Store, StoreFails, AnswerIndex,
       Guard, Embed, Load, Search, shared
  <2>2. QED
    BY <1>4, <2>1, ShapeHandle, ShapeHeld
<1>5. QED
  BY <1>1, <1>2, <1>3, <1>4 DEF Next

\* A report with one field changed, and what a step makes of the report of its request.
LEMMA FieldSet ==
  ASSUME NEW r, r \in Result
  PROVE  /\ \A n \in Nat : [r EXCEPT !.files = n] = [files |-> n, failed |-> r.failed, stored |-> r.stored]
         /\ \A n \in Nat : [r EXCEPT !.failed = n] = [files |-> r.files, failed |-> n, stored |-> r.stored]
         /\ \A S : [r EXCEPT !.stored = S] = [files |-> r.files, failed |-> r.failed, stored |-> S]
<1>1. ASSUME NEW n \in Nat PROVE [r EXCEPT !.files = n] = [files |-> n, failed |-> r.failed, stored |-> r.stored]
  BY DEF Result
<1>2. ASSUME NEW n \in Nat PROVE [r EXCEPT !.failed = n] = [files |-> r.files, failed |-> n, stored |-> r.stored]
  BY DEF Result
<1>3. ASSUME NEW S PROVE [r EXCEPT !.stored = S] = [files |-> r.files, failed |-> r.failed, stored |-> S]
  BY DEF Result
<1>4. QED
  BY <1>1, <1>2, <1>3

LEMMA Reports ==
  ASSUME TaskInv, NEW t \in Thread
  PROVE  LET r == result[t]
         IN  /\ [result EXCEPT ![t].files = @ + 1, ![t].failed = @ + 1]
                = [result EXCEPT ![t] = [files |-> r.files + 1, failed |-> r.failed + 1, stored |-> r.stored]]
             /\ [result EXCEPT ![t].files = @ + 1]
                = [result EXCEPT ![t] = [files |-> r.files + 1, failed |-> r.failed, stored |-> r.stored]]
             /\ [result EXCEPT ![t].failed = 1]
                = [result EXCEPT ![t] = [files |-> r.files, failed |-> 1, stored |-> r.stored]]
             /\ \A f \in Path : [result EXCEPT ![t].files = @ + 1, ![t].stored = @ \cup {f}]
                = [result EXCEPT ![t] = [files |-> r.files + 1, failed |-> r.failed, stored |-> r.stored \cup {f}]]
<1> DEFINE r == result[t]
           q == [files |-> r.files + 1, failed |-> r.failed, stored |-> r.stored]
<1>1. result \in [Thread -> Result] /\ r \in Result
  BY DEF TaskInv, Result
<1>2. r.files \in Nat /\ r.failed \in Nat /\ r.stored \in SUBSET Path
  BY <1>1 DEF Result
<1>3. q \in Result /\ q.files = r.files + 1 /\ q.failed = r.failed /\ q.stored = r.stored
  BY <1>2 DEF Result
<1>4. [r EXCEPT !.files = r.files + 1] = q
  BY <1>1, <1>2, FieldSet
<1>5. [r EXCEPT !.failed = 1] = [files |-> r.files, failed |-> 1, stored |-> r.stored]
  BY <1>1, FieldSet
<1>6. [r EXCEPT !.files = r.files + 1, !.failed = r.failed + 1]
      = [files |-> r.files + 1, failed |-> r.failed + 1, stored |-> r.stored]
  <2>1. [r EXCEPT !.files = r.files + 1, !.failed = r.failed + 1]
        = [[r EXCEPT !.files = r.files + 1] EXCEPT !.failed = r.failed + 1]
    OBVIOUS
  <2> HIDE DEF q
  <2>2. [q EXCEPT !.failed = r.failed + 1] = [files |-> q.files, failed |-> r.failed + 1, stored |-> q.stored]
    BY <1>2, <1>3, FieldSet
  <2>3. QED
    BY <1>3, <1>4, <2>1, <2>2
<1>7. ASSUME NEW f \in Path
      PROVE [r EXCEPT !.files = r.files + 1, !.stored = r.stored \cup {f}]
            = [files |-> r.files + 1, failed |-> r.failed, stored |-> r.stored \cup {f}]
  <2>1. [r EXCEPT !.files = r.files + 1, !.stored = r.stored \cup {f}]
        = [[r EXCEPT !.files = r.files + 1] EXCEPT !.stored = r.stored \cup {f}]
    OBVIOUS
  <2> HIDE DEF q
  <2>2. [q EXCEPT !.stored = r.stored \cup {f}]
        = [files |-> q.files, failed |-> q.failed, stored |-> r.stored \cup {f}]
    BY <1>3, FieldSet
  <2>3. QED
    BY <1>3, <1>4, <2>1, <2>2
<1>8. QED
  BY <1>1, <1>4, <1>5, <1>6, <1>7

Report(files, failed, stored) == [files |-> files, failed |-> failed, stored |-> stored]
Reported(t, files, failed, stored) == result' = [result EXCEPT ![t] = Report(files, failed, stored)]
Dropped(t) == todo' = [todo EXCEPT ![t] = Tail(todo[t])]

\* The four steps that report a file.
LEMMA FailsReports ==
  ASSUME TaskInv, NEW t \in Thread, NEW from, Fails(t, from), Asks(t, "index")
  PROVE  /\ Goto(t, from, "files") /\ Dropped(t) /\ UNCHANGED answer
         /\ Reported(t, result[t].files + 1, result[t].failed + 1, result[t].stored)
  BY Reports DEF Fails, Dropped, Reported, Report

LEMMA ReadReports ==
  ASSUME TaskInv, NEW t \in Thread, ReadFile(t)
  PROVE  /\ todo[t] # <<>> /\ pc[t] = "files" /\ UNCHANGED <<shared, request, provider>>
         /\ \/ Fails(t, "files")
            \/ /\ Goto(t, "files", "files") /\ Dropped(t) /\ UNCHANGED answer /\ Holds(Head(todo[t]))
               /\ Reported(t, result[t].files + 1, result[t].failed, result[t].stored)
            \/ Goto(t, "files", "embed") /\ UNCHANGED <<result, todo, answer>>
  BY Reports DEF ReadFile, Dropped, Reported, Report, Fails, Raises, Goto, Reply, Holds

LEMMA StoreReports ==
  ASSUME TaskInv, NEW t \in Thread, Store(t), Head(todo[t]) \in Path
  PROVE  /\ Goto(t, "store", "files") /\ Dropped(t) /\ UNCHANGED answer
         /\ Reported(t, result[t].files + 1, result[t].failed, result[t].stored \cup {Head(todo[t])})
  BY Reports DEF Store, Dropped, Reported, Report

LEMMA ListReports ==
  ASSUME TaskInv, NEW t \in Thread, ListFiles(t)
  PROVE  /\ Goto(t, "list", "files") /\ UNCHANGED <<shared, request, provider, answer>>
         /\ LET path == request[t].path
            IN  \/ kind[path] = "file" /\ todo' = [todo EXCEPT ![t] = <<path>>] /\ UNCHANGED result
                \/ kind[path] = "folder" /\ UNCHANGED result
                     /\ todo' = [todo EXCEPT ![t] = SetToSeq({f \in FilesIn[path] : kind[f] = "file"})]
                \/ kind[path] = "none" /\ UNCHANGED todo /\ Reported(t, result[t].files, 1, result[t].stored)
  BY Reports DEF ListFiles, Reported, Report

LEMMA RequestFields ==
  ASSUME WorkInv, NEW t \in Thread, pc[t] # "idle" \/ answer[t].status # 0
  PROVE  /\ request[t] \in Request /\ NameOf(t) \in Provider /\ request[t] # NoRequest
         /\ Asks(t, "index") \/ Asks(t, "query")
         /\ Asks(t, "index") => request[t].path \in Path /\ ~ Asks(t, "query")
<1>1. request[t] \in Request
  BY DEF WorkInv
<1>2. QED
  BY <1>1, NameIsProvider, RequestIsNone, ServerAssumption DEF Asks, NameOf

\* A report is a report, and what is left to do are paths.
LEMMA TaskTypes ==
  ASSUME IType, NEW t \in Thread, Handle(t)
  PROVE  todo' \in [Thread -> Seq(Path)] /\ result' \in [Thread -> Result]
<1> USE DEF IType
<1>1. /\ todo \in [Thread -> Seq(Path)] /\ result \in [Thread -> Result]
      /\ result[t].files \in Nat /\ result[t].failed \in Nat /\ result[t].stored \in SUBSET Path
  BY DEF TaskInv, Result
<1>2. ASSUME todo[t] # <<>>
      PROVE  Tail(todo[t]) \in Seq(Path) /\ Head(todo[t]) \in Path
  BY <1>1, <1>2
<1>a. ASSUME NEW s \in Seq(Path), todo' = [todo EXCEPT ![t] = s] PROVE todo' \in [Thread -> Seq(Path)]
  BY <1>1, <1>a
<1>b. ASSUME todo[t] # <<>>, Dropped(t) PROVE todo' \in [Thread -> Seq(Path)]
  BY <1>2, <1>a, <1>b DEF Dropped
<1>3. ASSUME NEW n \in Nat, NEW k \in Nat, NEW S \in SUBSET Path, Reported(t, n, k, S)
      PROVE  result' \in [Thread -> Result]
  <2>1. Report(n, k, S) \in Result
    BY DEF Report, Result
  <2>2. QED
    BY <1>1, <1>3, <2>1 DEF Reported
<1>4. ASSUME NEW from, Fails(t, from), Asks(t, "index") => todo[t] # <<>>
      PROVE  todo' \in [Thread -> Seq(Path)] /\ result' \in [Thread -> Result]
  <2>1. CASE Asks(t, "index")
    <3>1. Dropped(t) /\ Reported(t, result[t].files + 1, result[t].failed + 1, result[t].stored)
      BY <1>4, <2>1, FailsReports
    <3>2. result[t].files + 1 \in Nat /\ result[t].failed + 1 \in Nat
      BY <1>1
    <3>3. QED
      BY <1>1, <1>3, <1>4, <1>b, <2>1, <3>1, <3>2
  <2>2. CASE ~ Asks(t, "index")
    BY <1>1, <1>4, <2>2 DEF Fails
  <2>3. QED
    BY <2>1, <2>2
<1>5. CASE ListFiles(t)
  <2>1. request[t].path \in Path /\ pc[t] = "list"
    BY <1>5, RequestFields DEF ListFiles, Goto, WorkInv, At
  <2>2. ASSUME kind[request[t].path] = "folder"
        PROVE  SetToSeq({f \in FilesIn[request[t].path] : kind[f] = "file"}) \in Seq(Path)
    <3> DEFINE path == request[t].path  S == {f \in FilesIn[path] : kind[f] = "file"}
    <3>1. path \in Folder
      BY <2>1, <2>2 DEF Path, WorkInv
    <3>2. IsFiniteSet(S) /\ S \subseteq Path
      BY <3>1, FS_Subset, ServerAssumption DEF Path
    <3>3. SetToSeq(S) \in Seq(S)
      BY <3>2, FilesAreSeq
    <3> HIDE DEF S
    <3>4. SetToSeq(S) \in Seq(Path)
      BY <3>2, <3>3
    <3>5. QED
      BY <3>4 DEF S
  <2>3. todo' \in [Thread -> Seq(Path)]
    <3>1. <<request[t].path>> \in Seq(Path)
      BY <2>1
    <3>2. \/ todo' = [todo EXCEPT ![t] = <<request[t].path>>]
          \/ /\ kind[request[t].path] = "folder"
             /\ todo' = [todo EXCEPT ![t] = SetToSeq({f \in FilesIn[request[t].path] : kind[f] = "file"})]
          \/ UNCHANGED todo
      BY <1>5, ListReports
    <3>3. QED
      BY <1>1, <1>a, <2>2, <3>1, <3>2
  <2>4. result' \in [Thread -> Result]
    BY <1>1, <1>3, <1>5, ListReports
  <2>5. QED
    BY <2>3, <2>4
<1>6. CASE ReadFile(t)
  <2>1. result[t].files + 1 \in Nat
    BY <1>1
  <2>2. QED
    BY <1>1, <1>3, <1>4, <1>6, <1>b, <2>1, ReadReports
<1>7. CASE Store(t)
  <2>1. todo[t] # <<>>
    BY <1>7 DEF Store, Goto, TaskInv, WorkInv, At
  <2>2. result[t].stored \cup {Head(todo[t])} \in SUBSET Path
    BY <1>1, <1>2, <2>1
  <2>3. QED
    <3>1. result[t].files + 1 \in Nat
      BY <1>1
    <3>2. Dropped(t) /\ Reported(t, result[t].files + 1, result[t].failed, result[t].stored \cup {Head(todo[t])})
      BY <1>2, <1>7, <2>1, StoreReports
    <3>3. QED
      BY <1>1, <1>3, <1>b, <2>1, <2>2, <3>1, <3>2
<1>8. CASE Embed(t) \/ Load(t)
  <2>1. Asks(t, "index") => todo[t] # <<>>
    BY <1>8 DEF Embed, Load, Goto, Fails, Raises, Reply, TaskInv, At
  <2>2. QED
    BY <1>1, <1>4, <1>8, <2>1 DEF Embed, Load
<1>9. CASE StoreFails(t)
  <2>1. Asks(t, "index") /\ todo[t] # <<>>
    BY <1>9 DEF StoreFails, Fails, Raises, Goto, Reply, TaskInv, WorkInv, At
  <2>2. QED
    BY <1>1, <1>4, <1>9, <2>1 DEF StoreFails
<1>10. QED
  BY <1>1, <1>5, <1>6, <1>7, <1>8, <1>9 DEF Handle, Validate, Lookup, Build, Keep, AnswerIndex, Guard, Search

\* What the steps of a request leave alone.
LEMMA HandleKeeps ==
  ASSUME NEW t \in Thread, Handle(t)
  PROVE  pc[t] # "idle" /\ UNCHANGED <<kind, request, served, changes>>
  BY DEF Handle, Validate, Lookup, Build, Keep, ListFiles, ReadFile, Store, StoreFails, AnswerIndex, Guard,
     Embed, Load, Search, shared

\* Where a request goes.
LEMMA Moves ==
  ASSUME IType, NEW t \in Thread, Handle(t)
  PROVE  \/ pc'[t] = "idle"
         \/ pc[t] = "validate" /\ pc'[t] = "search" /\ Asks(t, "query") /\ request[t].mode = "bm25" /\ Validate(t)
         \/ pc[t] = "validate" /\ pc'[t] = "provider" /\ Validate(t)
               /\ ~ (Asks(t, "query") /\ request[t].mode = "bm25")
         \/ pc[t] = "provider" /\ pc'[t] \in {AfterProvider(t), "build"} /\ Lookup(t)
         \/ pc[t] = "build" /\ pc'[t] = "keep" /\ Build(t)
         \/ pc[t] = "keep" /\ pc'[t] = AfterProvider(t) /\ Keep(t)
         \/ pc[t] = "list" /\ pc'[t] = "files" /\ ListFiles(t)
         \/ pc[t] = "files" /\ pc'[t] \in {"files", "embed"} /\ ReadFile(t)
         \/ pc[t] = "store" /\ pc'[t] = "files" /\ (Store(t) \/ StoreFails(t))
         \/ pc[t] = "guard" /\ pc'[t] = "embed" /\ Guard(t)
         \/ pc[t] = "embed" /\ pc'[t] \in {"load", AfterEmbed(t)} /\ Embed(t)
         \/ pc[t] = "load" /\ pc'[t] = AfterEmbed(t) /\ Load(t)
         \/ pc[t] \in {"embed", "load"} /\ pc'[t] = "files" /\ Asks(t, "index") /\ (Embed(t) \/ Load(t))
<1> USE DEF IType, ShapeInv, Goto
<1>1. CASE Validate(t)
  BY <1>1 DEF Validate, Reply
<1>2. CASE Lookup(t)
  BY <1>2 DEF Lookup
<1>3. CASE Build(t) \/ Keep(t) \/ ListFiles(t)
  BY <1>3 DEF Build, Keep, ListFiles, Reply
<1>4. CASE ReadFile(t) \/ Store(t) \/ StoreFails(t)
  BY <1>4, RaisesEnds DEF ReadFile, Store, StoreFails, Fails
<1>5. CASE AnswerIndex(t) \/ Guard(t) \/ Search(t)
  BY <1>5, RaisesEnds DEF AnswerIndex, Guard, Search, Reply
<1>6. CASE Embed(t)
  BY <1>6, RaisesEnds DEF Embed, Fails
<1>7. CASE Load(t)
  BY <1>7, RaisesEnds DEF Load, Fails
<1>8. QED
  BY <1>1, <1>2, <1>3, <1>4, <1>5, <1>6, <1>7 DEF Handle

LEMMA WorkHandle ==
  ASSUME IType, NEW t \in Thread, Handle(t)
  PROVE  WorkInv'
<1> USE DEF IType
<1>1. pc[t] # "idle" /\ UNCHANGED <<kind, request>>
  BY HandleKeeps
<1>2. request[t] \in Request /\ (Asks(t, "index") \/ Asks(t, "query"))
  BY <1>1, RequestFields
<1>3. /\ pc'[t] \in {"list", "files", "store"} => Asks(t, "index")
      /\ pc'[t] \in {"guard", "search"} => Asks(t, "query")
  BY <1>2, Moves DEF WorkInv, At, AfterProvider, AfterEmbed
<1>4. \A u \in Thread \ {t} : pc'[u] = pc[u] /\ answer'[u] = answer[u]
  BY OthersStay
<1>5. QED
  BY <1>1, <1>2, <1>3, <1>4 DEF WorkInv, At, Asks

LEMMA TaskHandle ==
  ASSUME IType, NEW t \in Thread, Handle(t)
  PROVE  TaskInv'
<1> USE DEF IType
<1>1. todo' \in [Thread -> Seq(Path)] /\ result' \in [Thread -> Result] /\ UNCHANGED request
  BY TaskTypes, HandleKeeps
<1>2. ASSUME pc'[t] \in {"embed", "load", "store"}, Asks(t, "index")
      PROVE  todo'[t] # <<>>
  <2>1. \/ ReadFile(t) /\ pc'[t] = "embed"
        \/ pc[t] \in {"embed", "load"} /\ pc'[t] # "files" /\ (Embed(t) \/ Load(t))
    BY <1>2, Moves DEF AfterProvider, AfterEmbed, Asks, WorkInv, At
  <2>2. CASE ReadFile(t) /\ pc'[t] = "embed"
    BY <1>2, <2>2, ReadReports DEF Goto, Fails, ShapeInv
  <2>3. CASE pc[t] \in {"embed", "load"} /\ pc'[t] # "files" /\ (Embed(t) \/ Load(t))
    BY <1>2, <2>3 DEF Embed, Load, Goto, Fails, ShapeInv, TaskInv, At
  <2>4. QED
    BY <2>1, <2>2, <2>3
<1>3. \A u \in Thread \ {t} : pc'[u] = pc[u] /\ todo'[u] = todo[u]
  BY OthersStay
<1>4. \A u \in Thread : At(u, {"embed", "load", "store"})' /\ Asks(u, "index")' => todo'[u] # <<>>
  BY <1>1, <1>2, <1>3 DEF TaskInv, At, Asks
<1>5. QED
  BY <1>1, <1>4 DEF TaskInv, Result

\* The instances are only added to, and what a thread holds changes in three steps.
LEMMA Instances ==
  ASSUME IType, NEW t \in Thread, Handle(t)
  PROVE  /\ made' \in Seq(Provider)
         /\ DOMAIN made \subseteq DOMAIN made' /\ \A i \in DOMAIN made : made'[i] = made[i]
         /\ \/ Lookup(t) /\ cached[NameOf(t)] # 0 /\ provider'[t] = cached[NameOf(t)] /\ UNCHANGED made
            \/ /\ Build(t) /\ pc'[t] = "keep" /\ made' = Append(made, NameOf(t)) /\ provider'[t] = Len(made')
               /\ Len(made') \in DOMAIN made' \ DOMAIN made /\ made'[Len(made')] = NameOf(t)
               /\ DOMAIN made' = DOMAIN made \cup {Len(made')}
            \/ UNCHANGED <<made, provider>>
<1> USE DEF IType
<1>1. made \in Seq(Provider) /\ NameOf(t) \in Provider
  BY HandleKeeps, RequestFields DEF TypeOK
<1>2. CASE Lookup(t)
  BY <1>1, <1>2 DEF Lookup, ShapeInv, NameOf
<1>3. CASE Build(t)
  <2>1. CASE UNCHANGED <<made, provider>>
    BY <1>1, <2>1
  <2>2. CASE /\ made' = Append(made, NameOf(t)) /\ provider' = [provider EXCEPT ![t] = Len(made')]
             /\ Goto(t, "build", "keep")
    BY <1>1, <1>3, <2>2 DEF ShapeInv, Goto
  <2>3. QED
    BY <1>3, <2>1, <2>2 DEF Build, NameOf
<1>4. CASE UNCHANGED <<made, provider>>
  BY <1>1, <1>4
<1>5. QED
  BY <1>2, <1>3, <1>4 DEF Handle, Validate, Keep, ListFiles, ReadFile, Store, StoreFails, AnswerIndex, Guard,
     Embed, Load, Search, shared

LEMMA HeldHandle ==
  ASSUME IType, NEW t \in Thread, Handle(t)
  PROVE  HeldInv'
<1> USE DEF IType
<1>1. UNCHANGED request /\ pc[t] # "idle"
  BY HandleKeeps
<1>2. /\ DOMAIN made \subseteq DOMAIN made' /\ \A i \in DOMAIN made : made'[i] = made[i]
      /\ \A u \in Thread \ {t} : pc'[u] = pc[u] /\ provider'[u] = provider[u]
  BY Instances, OthersStay
<1>3. ASSUME NEW u \in Thread \ {t}
      PROVE  /\ provider'[u] # 0 => provider'[u] \in DOMAIN made' /\ made'[provider'[u]] = NameOf(u)
             /\ pc'[u] \in {"keep", "list", "files", "embed", "load", "store", "guard"} => provider'[u] # 0
             /\ pc'[u] \in {"validate", "provider", "build"} => provider'[u] = 0
  BY <1>2 DEF HeldInv, At
<1>4. provider'[t] # 0 => provider'[t] \in DOMAIN made' /\ made'[provider'[t]] = NameOf(t)
  <2>1. NameOf(t) \in Provider
    BY <1>1, RequestFields
  <2>2. QED
    BY <1>2, <2>1, Instances DEF HeldInv, TypeOK
<1>5. CASE pc'[t] \in {"idle", "search"}
  BY <1>5, <1>1, <1>3, <1>4 DEF HeldInv, At, NameOf
<1>6. CASE pc'[t] \in {"provider", "build"}
  <2>1. \/ pc[t] = "validate" /\ Validate(t)
        \/ pc[t] = "provider" /\ Lookup(t) /\ pc'[t] = "build"
    BY <1>6, Moves DEF AfterProvider, AfterEmbed
  <2>2. provider'[t] = 0
    BY <2>1 DEF Validate, Lookup, HeldInv, At, Goto, ShapeInv, AfterProvider
  <2>3. QED
    BY <1>6, <2>2, <1>1, <1>3, <1>4 DEF HeldInv, At, NameOf
<1>7. CASE pc'[t] \notin {"idle", "search", "provider", "build"}
  <2>1. \/ Lookup(t) /\ pc'[t] = AfterProvider(t)
        \/ pc[t] = "build" /\ Build(t) /\ pc'[t] = "keep"
        \/ pc[t] \in {"keep", "list", "files", "embed", "load", "store", "guard"} /\ UNCHANGED provider
    BY <1>7, Moves DEF AfterProvider, AfterEmbed, Keep, ListFiles, ReadFile, Store, StoreFails, Guard, Embed,
       Load, shared
  <2>2. provider'[t] # 0
    <3>1. CASE Lookup(t) /\ pc'[t] = AfterProvider(t)
      BY <3>1 DEF Lookup, Goto, ShapeInv, AfterProvider, HeldInv, At
    <3>2. CASE pc[t] = "build" /\ Build(t) /\ pc'[t] = "keep"
      <4>1. made' \in Seq(Provider) /\ Len(made') \in DOMAIN made' /\ provider'[t] = Len(made')
        BY <3>2, Instances DEF Build, Lookup, Goto, Reply, ShapeInv
      <4>2. QED
        BY <4>1
    <3>3. QED
      BY <2>1, <3>1, <3>2 DEF HeldInv, At
  <2>3. pc'[t] \notin {"validate", "provider", "build"}
    BY <1>7, Moves DEF AfterProvider, AfterEmbed
  <2>4. QED
    BY <2>2, <2>3, <1>1, <1>3, <1>4 DEF HeldInv, At, NameOf
<1>8. QED
  BY <1>5, <1>6, <1>7

LEMMA TypeHandle ==
  ASSUME IType, NEW t \in Thread, Handle(t)
  PROVE  TypeOK'
<1> USE DEF IType
<1>1. UNCHANGED <<kind, request, served, changes>> /\ pc[t] # "idle" /\ NameOf(t) \in Provider
  BY HandleKeeps, RequestFields
<1>2. index' \subseteq [path : File \cup Folder, model : {d.model : d \in Earlier} \cup {ServerModel}]
  <2>1. CASE Store(t)
    <3>1. Head(todo[t]) \in File \cup Folder
      <4>1. todo[t] # <<>> /\ todo[t] \in Seq(Path)
        BY <2>1 DEF Store, Goto, TaskInv, WorkInv, At
      <4>2. Head(todo[t]) \in Path
        BY <4>1
      <4>3. QED
        BY <4>2 DEF Path
    <3>2. QED
      BY <2>1, <3>1 DEF Store, TypeOK
  <2>2. CASE UNCHANGED index
    BY <2>2 DEF TypeOK
  <2>3. QED
    BY <2>1, <2>2 DEF Handle, Validate, Lookup, Build, Keep, ListFiles, ReadFile, StoreFails, AnswerIndex,
       Guard, Embed, Load, Search, shared
<1>3. /\ made' \in Seq(Provider) /\ DOMAIN made \subseteq DOMAIN made'
      /\ \A i \in DOMAIN made : made'[i] = made[i]
  BY Instances
<1>4. \A p \in Provider : cached'[p] # 0 => cached'[p] \in DOMAIN made' /\ made'[cached'[p]] = p
  <2>1. CASE Keep(t)
    <3>1. provider[t] \in DOMAIN made /\ made[provider[t]] = NameOf(t)
      BY <2>1 DEF Keep, Goto, HeldInv, At
    <3>2. cached' = [cached EXCEPT ![NameOf(t)] = provider[t]]
      BY <2>1 DEF Keep, NameOf
    <3>3. QED
      BY <1>1, <1>3, <3>1, <3>2 DEF TypeOK, ShapeInv
  <2>2. CASE UNCHANGED cached
    BY <2>2, <1>3 DEF TypeOK
  <2>3. QED
    BY <2>1, <2>2 DEF Handle, Validate, Lookup, Build, Store, StoreFails, ListFiles, ReadFile, AnswerIndex,
       Guard, Embed, Load, Search, shared
<1>5. loaded' \subseteq DOMAIN made'
  <2>1. CASE Load(t)
    <3>1. provider[t] \in DOMAIN made
      BY <2>1 DEF Load, Goto, Fails, Raises, Reply, HeldInv, At
    <3>2. QED
      BY <2>1, <3>1, <1>3 DEF TypeOK, Load
  <2>2. CASE UNCHANGED loaded
    BY <2>2, <1>3 DEF TypeOK
  <2>3. QED
    BY <2>1, <2>2 DEF Handle, Validate, Lookup, Build, Keep, Store, StoreFails, ListFiles, ReadFile,
       AnswerIndex, Guard, Embed, Search, shared
<1>6. raced' \subseteq Provider
  <2>1. UNCHANGED raced \/ \E at : Raced(t, at)
    BY DEF Handle, Validate, Lookup, Build, Keep, Store, StoreFails, ListFiles, ReadFile, AnswerIndex, Guard,
       Embed, Load, Search, shared
  <2>2. QED
    BY <2>1, <1>1 DEF TypeOK, Raced, NameOf
<1>7. ASSUME NEW u \in Thread
      PROVE  /\ pc'[u] \in Place
             /\ pc'[u] \in {"embed", "load", "store", "guard"} =>
                    provider'[u] \in DOMAIN made' /\ made'[provider'[u]] = NameOf(u)
  <2>1. pc' \in [Thread -> Place]
    BY ShapeHandle
  <2>2. QED
    BY <1>1, <2>1, HeldHandle DEF HeldInv, At, NameOf
<1>8. QED
  BY <1>1, <1>2, <1>3, <1>4, <1>5, <1>6, <1>7 DEF TypeOK, Place, NameOf

LEMMA ReceiveMeans ==
  ASSUME IType, NEW t \in Thread, Receive(t)
  PROVE  /\ pc[t] = "idle" /\ pc'[t] = "validate" /\ request'[t] \in Request /\ provider'[t] = 0
         /\ todo'[t] = <<>> /\ result'[t] = NoResult /\ answer'[t] = NoAnswer
         /\ UNCHANGED <<kind, index, cached, made, loaded, loads, changes, raced>>
         /\ todo' \in [Thread -> Seq(Path)] /\ result' \in [Thread -> Result]
         /\ NameOf(t)' \in Provider /\ (Asks(t, "index") \/ Asks(t, "query"))'
<1>1. /\ todo' = [todo EXCEPT ![t] = <<>>] /\ result' = [result EXCEPT ![t] = NoResult]
      /\ provider' = [provider EXCEPT ![t] = 0] /\ answer' = [answer EXCEPT ![t] = NoAnswer]
      /\ \E r \in Request : request' = [request EXCEPT ![t] = r]
      /\ UNCHANGED <<kind, index, cached, made, loaded, loads, changes, raced>>
  BY DEF Receive
<1>2. NoResult \in Result /\ <<>> \in Seq(Path)
  BY DEF NoResult, Result
<1>3. todo \in [Thread -> Seq(Path)] /\ result \in [Thread -> Result]
  BY DEF IType, TaskInv, Result
<1>4. todo'[t] = <<>> /\ todo' \in [Thread -> Seq(Path)]
  BY <1>1, <1>2, <1>3
<1>5. result'[t] = NoResult /\ result' \in [Thread -> Result]
  BY <1>1, <1>2, <1>3
<1>6. pc[t] = "idle" /\ pc'[t] = "validate"
  BY DEF Receive, Goto, IType, ShapeInv
<1>7. request'[t] \in Request /\ provider'[t] = 0 /\ answer'[t] = NoAnswer
  BY <1>1 DEF IType, ShapeInv
<1>8. QED
  BY <1>1, <1>4, <1>5, <1>6, <1>7, NameIsProvider, RequestIsNone DEF NameOf, Asks

LEMMA TypeReceive ==
  ASSUME IType, NEW t \in Thread, Receive(t)
  PROVE  (TypeOK /\ WorkInv /\ TaskInv /\ HeldInv)'
<1> USE DEF IType
<1>1. /\ pc[t] = "idle" /\ pc'[t] = "validate" /\ request'[t] \in Request /\ provider'[t] = 0
      /\ answer'[t] = NoAnswer /\ UNCHANGED <<kind, index, cached, made, loaded, loads, changes, raced>>
      /\ todo' \in [Thread -> Seq(Path)] /\ result' \in [Thread -> Result]
  BY ReceiveMeans
<1>2. \A u \in Thread \ {t} :
          /\ pc'[u] = pc[u] /\ request'[u] = request[u] /\ provider'[u] = provider[u]
          /\ todo'[u] = todo[u] /\ answer'[u] = answer[u]
  BY OthersStay
<1>3. served' <= MaxRequests
  BY ServerAssumption DEF Receive, ShapeInv
<1>4. TypeOK'
  BY <1>1, <1>2, <1>3 DEF TypeOK
<1>5. WorkInv'
  BY <1>1, <1>2 DEF WorkInv, At, Asks
<1>6. TaskInv'
  BY <1>1, <1>2 DEF TaskInv, Result, At, Asks
<1>7. HeldInv'
  BY <1>1, <1>2 DEF HeldInv, At, NameOf
<1>8. QED
  BY <1>4, <1>5, <1>6, <1>7

LEMMA TypeNext == IType /\ [Next]_vars => IType'
<1> SUFFICES ASSUME IType, [Next]_vars PROVE (TypeOK /\ WorkInv /\ TaskInv /\ HeldInv)'
  BY ShapeNext DEF IType
<1>1. CASE UNCHANGED vars
  BY <1>1 DEF vars, locals, IType, TypeOK, WorkInv, TaskInv, HeldInv, At, Asks, NameOf
<1>2. CASE Change
  <2>1. kind' \in [Path -> {"file", "folder", "none"}] /\ \A f \in File : kind'[f] \in {"file", "none"}
    BY <1>2 DEF Change, IType, WorkInv, Path
  <2>2. changes' <= MaxChanges
    BY <1>2, ServerAssumption DEF Change, IType, ShapeInv
  <2>3. UNCHANGED <<index, cached, made, loaded, loads, pc, request, provider, todo, result, answer, served, raced>>
    BY <1>2 DEF Change, locals
  <2>4. TypeOK'
    BY <2>1, <2>2, <2>3 DEF IType, TypeOK
  <2>5. (WorkInv /\ TaskInv /\ HeldInv)'
    BY <2>1, <2>3 DEF IType, WorkInv, TaskInv, HeldInv, At, Asks, NameOf
  <2>6. QED
    BY <2>4, <2>5
<1>3. ASSUME NEW t \in Thread, Receive(t) PROVE (TypeOK /\ WorkInv /\ TaskInv /\ HeldInv)'
  BY <1>3, TypeReceive
<1>4. ASSUME NEW t \in Thread, Handle(t) PROVE (TypeOK /\ WorkInv /\ TaskInv /\ HeldInv)'
  BY <1>4, TypeHandle, WorkHandle, TaskHandle, HeldHandle
<1>5. QED
  BY <1>1, <1>2, <1>3, <1>4 DEF Next

----------------------------------------------------------------------------
(* Providers.                                                              *)

\* The steps that have to do with providers, each with what it changes.
LEMMA ProviderSteps ==
  ASSUME IType, NEW t \in Thread, Handle(t)
  PROVE  /\ UNCHANGED request /\ raced \subseteq raced' /\ NameOf(t) \in Provider
         /\ \/ /\ pc[t] = "provider" /\ pc'[t] \notin {"build", "keep", "load"}
               /\ cached[NameOf(t)] # 0 /\ provider'[t] = cached[NameOf(t)]
               /\ UNCHANGED <<cached, made, loaded, loads, raced>>
            \/ /\ pc[t] = "provider" /\ pc'[t] = "build" /\ cached[NameOf(t)] = 0 /\ Raced(t, {"build", "keep"})
               /\ UNCHANGED <<cached, made, loaded, loads, provider>>
            \/ /\ pc[t] = "build" /\ pc'[t] = "keep" /\ UNCHANGED <<cached, loaded, loads, raced>>
               /\ made' = Append(made, NameOf(t)) /\ provider'[t] = Len(made')
               /\ Len(made') \in DOMAIN made' \ DOMAIN made /\ made'[Len(made')] = NameOf(t)
               /\ DOMAIN made' = DOMAIN made \cup {Len(made')} /\ \A i \in DOMAIN made : made'[i] = made[i]
            \/ /\ pc[t] = "build" /\ pc'[t] = "idle" /\ UNCHANGED <<cached, made, loaded, loads, raced, provider>>
            \/ /\ pc[t] = "keep" /\ pc'[t] \notin {"build", "keep", "load"}
               /\ cached' = [cached EXCEPT ![NameOf(t)] = provider[t]]
               /\ UNCHANGED <<made, loaded, loads, raced, provider>>
            \/ /\ pc[t] = "embed" /\ pc'[t] = "load" /\ provider[t] \notin loaded /\ Raced(t, {"load"})
               /\ UNCHANGED <<cached, made, loaded, loads, provider>>
            \/ /\ pc[t] = "load" /\ pc'[t] \notin {"build", "keep", "load"}
               /\ loaded' = loaded \cup {provider[t]} /\ loads' = [loads EXCEPT ![NameOf(t)] = @ + 1]
               /\ UNCHANGED <<cached, made, raced, provider>>
            \/ /\ pc[t] \notin {"provider", "build", "keep"} /\ pc'[t] \notin {"build", "keep", "load"}
               /\ UNCHANGED <<cached, made, loaded, loads, raced, provider>>
<1> USE DEF IType, ShapeInv, Goto, Reply
<1>1. UNCHANGED request /\ NameOf(t) \in Provider
  BY HandleKeeps, RequestFields
<1>2. raced \subseteq raced'
  <2>1. UNCHANGED raced \/ \E at : Raced(t, at)
    BY DEF Handle, Validate, Lookup, Build, Keep, Store, StoreFails, ListFiles, ReadFile, AnswerIndex, Guard,
       Embed, Load, Search, shared
  <2>2. QED
    BY <2>1 DEF Raced
<1>3. CASE Validate(t)
  BY <1>1, <1>2, <1>3 DEF Validate, shared
<1>4. CASE Lookup(t)
  BY <1>1, <1>2, <1>4 DEF Lookup, NameOf, AfterProvider
<1>5. CASE Build(t)
  <2>1. CASE UNCHANGED <<made, provider>> /\ pc'[t] = "idle"
    BY <1>1, <1>2, <1>5, <2>1 DEF Build
  <2>2. CASE pc'[t] = "keep"
    <3>1. pc[t] = "build" /\ UNCHANGED <<cached, loaded, loads, raced>>
      BY <1>5, <2>2 DEF Build
    <3>2. /\ made' = Append(made, NameOf(t)) /\ provider'[t] = Len(made')
          /\ Len(made') \in DOMAIN made' \ DOMAIN made /\ made'[Len(made')] = NameOf(t)
          /\ DOMAIN made' = DOMAIN made \cup {Len(made')} /\ \A i \in DOMAIN made : made'[i] = made[i]
      <4>1. ~ Lookup(t) /\ (UNCHANGED made => FALSE)
        <5>1. made' = Append(made, Name(request[t])) /\ pc[t] = "build"
          BY <1>5, <2>2 DEF Build
        <5>2. made \in Seq(Provider)
          BY DEF TypeOK
        <5>3. QED
          BY <1>1, <5>1, <5>2 DEF Lookup, NameOf
      <4>2. QED
        BY <4>1, Instances
    <3>3. QED
      BY <1>1, <1>2, <2>2, <3>1, <3>2
  <2>3. QED
    BY <1>5, <2>1, <2>2 DEF Build
<1>6. CASE Keep(t)
  BY <1>1, <1>2, <1>6 DEF Keep, NameOf, AfterProvider
<1>7. CASE ListFiles(t) \/ ReadFile(t) \/ Store(t) \/ StoreFails(t)
  BY <1>1, <1>2, <1>7 DEF Raises, ListFiles, ReadFile, Store, StoreFails, Fails, shared
<1>8. CASE AnswerIndex(t) \/ Guard(t) \/ Search(t)
  BY <1>1, <1>2, <1>8 DEF AnswerIndex, Guard, Search, Raises, shared
<1>9. CASE Embed(t)
  BY <1>1, <1>2, <1>9 DEF Raises, Embed, Fails, NeedsModel, AfterEmbed
<1>10. CASE Load(t)
  BY <1>1, <1>2, <1>10 DEF Raises, Load, Fails, NameOf, AfterEmbed
<1>11. QED
  BY <1>3, <1>4, <1>5, <1>6, <1>7, <1>8, <1>9, <1>10 DEF Handle

\* Two threads do not build or load a provider at once unless it is raced.
LEMMA AloneHandle ==
  ASSUME IType, ProviderInv, NEW t \in Thread, Handle(t), NEW u \in Thread, NEW v \in Thread, u # v,
         NameOf(u) = NameOf(v), NameOf(u) \notin raced'
  PROVE  ~ (pc'[u] \in {"build", "keep"} /\ pc'[v] \in {"build", "keep"}) /\ ~ (pc'[u] = "load" /\ pc'[v] = "load")
<1>1. /\ NameOf(u) \notin raced
      /\ ~ (pc[u] \in {"build", "keep"} /\ pc[v] \in {"build", "keep"})
      /\ ~ (pc[u] = "load" /\ pc[v] = "load")
  BY ProviderSteps DEF ProviderInv, InstancesInv, LoadsInv, At, Lone
<1>2. \A w \in Thread \ {t} : pc'[w] = pc[w]
  BY OthersStay
<1>3. CASE t \notin {u, v}
  BY <1>1, <1>2, <1>3
<1>4. ASSUME NEW w \in Thread, w # t, NameOf(w) = NameOf(t), {u, v} = {t, w}
      PROVE  /\ ~ (pc'[t] \in {"build", "keep"} /\ pc[w] \in {"build", "keep"})
             /\ ~ (pc'[t] = "load" /\ pc[w] = "load")
  <2>1. NameOf(t) \notin raced' /\ NameOf(t) \notin raced
    BY <1>1, <1>4
  <2>2. /\ ~ (pc[t] \in {"build", "keep"} /\ pc[w] \in {"build", "keep"})
        /\ ~ (pc[t] = "load" /\ pc[w] = "load")
    BY <1>1, <1>4
  <2>3. \A at : w \in Others(t, at) <=> pc[w] \in at
    BY <1>4 DEF Others, NameOf
  <2>4. \A at : Raced(t, at) => pc[w] \notin at
    BY <2>1, <2>3 DEF Raced, NameOf
  <2>5. CASE pc'[t] = "build"
    BY <2>4, <2>5, ProviderSteps
  <2>6. CASE pc'[t] = "keep"
    BY <2>2, <2>6, ProviderSteps
  <2>7. CASE pc'[t] = "load"
    BY <2>4, <2>7, ProviderSteps
  <2>8. QED
    BY <2>5, <2>6, <2>7
<1>5. QED
  BY <1>2, <1>3, <1>4

LEMMA InstancesHandle ==
  ASSUME IType, ProviderInv, NEW t \in Thread, Handle(t)
  PROVE  InstancesInv'
<1> USE DEF IType, ProviderInv
<1>1. UNCHANGED request /\ raced \subseteq raced' /\ NameOf(t) \in Provider
  BY ProviderSteps
<1>2. /\ \A u \in Thread \ {t} : pc'[u] = pc[u] /\ provider'[u] = provider[u]
      /\ DOMAIN made \subseteq DOMAIN made' /\ \A i \in DOMAIN made : made'[i] = made[i]
      /\ \A i \in DOMAIN made : made[i] \in Provider
      /\ \A u \in Thread : pc'[u] # "idle" => NameOf(u) \in Provider
  <2>1. \A u \in Thread : pc'[u] # "idle" => pc[u] # "idle"
    BY OthersStay, ProviderSteps, HandleKeeps
  <2>2. QED
    BY <2>1, OthersStay, Instances, RequestFields DEF TypeOK
<1>3. ASSUME NEW i \in DOMAIN made', NEW j \in DOMAIN made', made'[i] = made'[j], made'[i] \notin raced'
      PROVE  i = j
  <2>1. CASE UNCHANGED made
    BY <1>1, <1>3, <2>1 DEF InstancesInv, Lone
  <2>2. CASE ~ UNCHANGED made
    BY <1>1, <1>2, <1>3, <2>2, ProviderSteps DEF InstancesInv, Lone, At
  <2>3. QED
    BY <2>1, <2>2
<1>4. ASSUME NEW i \in DOMAIN made', made'[i] \notin raced'
      PROVE  cached'[made'[i]] # 0 \/ \E u \in Thread : pc'[u] = "keep" /\ NameOf(u) = made'[i]
  <2>1. CASE i \notin DOMAIN made
    BY <1>4, <2>1, ProviderSteps
  <2>2. CASE i \in DOMAIN made
    <3>1. cached[made[i]] # 0 \/ \E u \in Thread : pc[u] = "keep" /\ NameOf(u) = made[i]
      BY <1>1, <1>2, <1>4, <2>2 DEF InstancesInv, Lone, At
    <3>2. cached[made[i]] # 0 => cached'[made[i]] # 0
      BY <1>1, <1>2, <2>2, ProviderSteps DEF ShapeInv, HeldInv, At
    <3>3. pc[t] = "keep" => cached'[NameOf(t)] # 0
      BY <1>1, ProviderSteps DEF ShapeInv, HeldInv, At
    <3>4. QED
      BY <1>2, <2>2, <3>1, <3>2, <3>3
  <2>3. QED
    BY <2>1, <2>2
<1>5. ASSUME NEW u \in Thread, pc'[u] = "build", NameOf(u) \notin raced'
      PROVE  cached'[NameOf(u)] = 0 /\ \A i \in DOMAIN made' : made'[i] # NameOf(u)
  <2>1. CASE u = t
    <3>1. /\ pc[t] = "provider" /\ cached[NameOf(t)] = 0 /\ Raced(t, {"build", "keep"})
          /\ UNCHANGED <<cached, made>>
      BY <1>5, <2>1, ProviderSteps
    <3>2. \A w \in Thread : pc[w] = "keep" => NameOf(w) # NameOf(t)
      BY <1>5, <2>1, <3>1 DEF Raced, Others, NameOf
    <3>3. QED
      BY <1>1, <1>5, <2>1, <3>1, <3>2 DEF InstancesInv, Lone, At
  <2>2. CASE u # t
    <3>1. pc[u] = "build" /\ cached[NameOf(u)] = 0 /\ \A i \in DOMAIN made : made[i] # NameOf(u)
      BY <1>1, <1>2, <1>5, <2>2 DEF InstancesInv, Lone, At
    <3>2. pc[t] \in {"build", "keep"} => NameOf(t) # NameOf(u)
      BY <1>1, <1>5, <2>2, <3>1 DEF InstancesInv, Lone, At
    <3>3. cached'[NameOf(u)] = 0
      <4>1. UNCHANGED cached \/ (pc[t] = "keep" /\ cached' = [cached EXCEPT ![NameOf(t)] = provider[t]])
        BY ProviderSteps
      <4>2. NameOf(u) \in Provider /\ NameOf(u) \in DOMAIN cached
        BY <1>2, <1>5 DEF ShapeInv
      <4>3. QED
        BY <3>1, <3>2, <4>1, <4>2
    <3>4. QED
      BY <1>2, <3>1, <3>2, <3>3, ProviderSteps
  <2>3. QED
    BY <2>1, <2>2
<1>6. \A u, v \in Thread :
          pc'[u] \in {"build", "keep"} /\ pc'[v] \in {"build", "keep"} /\ NameOf(u) = NameOf(v) /\ u # v =>
              NameOf(u) \in raced'
  BY AloneHandle
<1>7. \A u \in Thread : NameOf(u)' = NameOf(u)
  BY <1>1 DEF NameOf
<1>8. QED
  BY <1>3, <1>4, <1>5, <1>6, <1>7 DEF InstancesInv, Lone, At

LEMMA FreshHandle ==
  ASSUME IType, ProviderInv, NEW t \in Thread, Handle(t)
  PROVE  FreshInv'
<1> USE DEF IType, ProviderInv
<1>1. UNCHANGED request /\ NameOf(t) \in Provider /\ \A u \in Thread : NameOf(u)' = NameOf(u)
  BY ProviderSteps DEF NameOf
<1>2. \A u \in Thread \ {t} : pc'[u] = pc[u] /\ provider'[u] = provider[u]
  BY OthersStay
<1>3. /\ \A u \in Thread : provider[u] # 0 => provider[u] \in DOMAIN made /\ made[provider[u]] = NameOf(u)
      /\ \A p \in Provider : cached[p] # 0 => cached[p] \in DOMAIN made /\ made[cached[p]] = p
      /\ \A u \in Thread : pc[u] = "keep" =>
             provider[u] # 0 /\ NameOf(u) \in Provider /\ cached[NameOf(u)] # provider[u]
      /\ \A u \in Thread : pc[u] = "keep" => \A v \in Thread \ {u} : provider[v] # provider[u]
  BY RequestFields DEF HeldInv, TypeOK, FreshInv, At
<1>4. 0 \notin DOMAIN made
  BY DEF TypeOK
<1>5. ASSUME NEW u \in Thread, pc'[u] = "keep"
      PROVE  /\ cached'[NameOf(u)] # provider'[u]
             /\ \A v \in Thread \ {u} : provider'[v] # provider'[u]
  <2>1. CASE u = t
    <3>1. UNCHANGED cached /\ provider'[t] \notin DOMAIN made /\ provider'[t] # 0
      <4>1. UNCHANGED cached /\ provider'[t] = Len(made') /\ Len(made') \in DOMAIN made' \ DOMAIN made
        BY <1>5, <2>1, ProviderSteps
      <4>2. made' \in Seq(Provider)
        BY Instances
      <4>3. QED
        BY <4>1, <4>2
    <3>2. QED
      BY <1>1, <1>2, <1>3, <2>1, <3>1
  <2>2. CASE u # t
    <3>1. pc[u] = "keep" /\ provider'[u] = provider[u] /\ NameOf(u) \in Provider
      BY <1>2, <1>3, <1>5, <2>2
    <3>2. provider'[t] # provider[u]
      <4>1. \/ provider'[t] = provider[t]
            \/ provider'[t] = cached[NameOf(t)]
            \/ provider'[t] \notin DOMAIN made
        BY ProviderSteps
      <4>2. provider'[t] = cached[NameOf(t)] => provider'[t] # provider[u]
        BY <1>1, <1>3, <3>1
      <4>3. QED
        BY <1>3, <2>2, <3>1, <4>1, <4>2
    <3>3. cached'[NameOf(u)] # provider[u]
      <4>1. UNCHANGED cached \/ cached' = [cached EXCEPT ![NameOf(t)] = provider[t]]
        BY ProviderSteps
      <4>2. provider[t] # provider[u]
        BY <1>3, <2>2, <3>1
      <4>3. QED
        BY <1>3, <3>1, <4>1, <4>2 DEF ShapeInv
    <3>4. QED
      BY <1>2, <1>3, <3>1, <3>2, <3>3
  <2>3. QED
    BY <2>1, <2>2
<1>6. QED
  BY <1>1, <1>5 DEF FreshInv, At

LEMMA OneHeldHandle ==
  ASSUME IType, ProviderInv, NEW t \in Thread, Handle(t)
  PROVE  OneHeldInv'
<1> USE DEF IType, ProviderInv
<1>1. /\ UNCHANGED request /\ NameOf(t) \in Provider /\ \A u \in Thread : NameOf(u)' = NameOf(u)
      /\ raced \subseteq raced'
  BY ProviderSteps DEF NameOf
<1>2. \A u \in Thread \ {t} : pc'[u] = pc[u] /\ provider'[u] = provider[u]
  BY OthersStay
<1>3. ASSUME NEW u \in Thread, provider'[u] # 0, pc'[u] # "keep", NameOf(u) \notin raced'
      PROVE  provider'[u] = cached'[NameOf(u)]
  <2>1. CASE u = t
    <3>1. CASE pc[t] = "keep"
      BY <1>1, <2>1, <3>1, ProviderSteps DEF ShapeInv
    <3>2. CASE pc[t] # "keep"
      <4>1. UNCHANGED cached /\ (provider'[t] = cached[NameOf(t)] \/ provider'[t] = provider[t])
        BY <1>3, <2>1, <3>2, ProviderSteps
      <4>2. QED
        BY <1>1, <1>3, <2>1, <3>2, <4>1 DEF OneHeldInv, At, Lone
    <3>3. QED
      BY <3>1, <3>2
  <2>2. CASE u # t
    <3>1. provider[u] = cached[NameOf(u)] /\ provider[u] # 0 /\ NameOf(u) \notin raced
      BY <1>1, <1>2, <1>3, <2>2 DEF OneHeldInv, At, Lone
    <3>2. CASE UNCHANGED cached
      BY <1>2, <2>2, <3>1, <3>2
    <3>3. CASE pc[t] = "keep" /\ cached' = [cached EXCEPT ![NameOf(t)] = provider[t]]
      <4>1. CASE NameOf(u) = NameOf(t)
        <5>1. /\ provider[t] # 0 /\ provider[t] \in DOMAIN made /\ made[provider[t]] = NameOf(t)
              /\ provider[u] \in DOMAIN made /\ made[provider[u]] = NameOf(u)
          BY <3>1, <3>3 DEF HeldInv, At
        <5>2. provider[t] = provider[u]
          BY <3>1, <4>1, <5>1 DEF InstancesInv, Lone
        <5>3. QED
          BY <2>2, <3>3, <5>2 DEF FreshInv, At
      <4>2. CASE NameOf(u) # NameOf(t)
        <5>1. made[provider[u]] = NameOf(u) /\ provider[u] \in DOMAIN made
          BY <3>1 DEF HeldInv
        <5>2. NameOf(u) \in Provider
          BY <5>1 DEF TypeOK
        <5>3. QED
          BY <1>2, <2>2, <3>1, <3>3, <4>2, <5>2 DEF ShapeInv
      <4>3. QED
        BY <4>1, <4>2
    <3>4. QED
      BY <3>2, <3>3, ProviderSteps
  <2>3. QED
    BY <2>1, <2>2
<1>4. QED
  BY <1>1, <1>3 DEF OneHeldInv, At, Lone

LEMMA LoadsHandle ==
  ASSUME IType, ProviderInv, NEW t \in Thread, Handle(t)
  PROVE  LoadsInv'
<1> USE DEF IType, ProviderInv
<1>1. /\ UNCHANGED request /\ NameOf(t) \in Provider /\ \A u \in Thread : NameOf(u)' = NameOf(u)
      /\ raced \subseteq raced'
  BY ProviderSteps DEF NameOf
<1>2. /\ \A u \in Thread \ {t} : pc'[u] = pc[u] /\ provider'[u] = provider[u]
      /\ DOMAIN made \subseteq DOMAIN made' /\ \A i \in DOMAIN made : made'[i] = made[i]
      /\ loaded \subseteq DOMAIN made
  BY OthersStay, Instances DEF TypeOK
<1>3. \/ UNCHANGED <<loaded, loads>>
      \/ /\ pc[t] = "load" /\ pc'[t] # "load" /\ UNCHANGED provider
         /\ loaded' = loaded \cup {provider[t]} /\ loads' = [loads EXCEPT ![NameOf(t)] = @ + 1]
  BY ProviderSteps
<1>4. pc[t] = "load" => provider[t] \in DOMAIN made /\ made[provider[t]] = NameOf(t)
  BY DEF HeldInv, At
<1>5. pc[t] = "load" /\ NameOf(t) \notin raced => loads[NameOf(t)] = 0
  <2>1. SUFFICES ASSUME pc[t] = "load", NameOf(t) \notin raced, loads[NameOf(t)] # 0 PROVE FALSE
    OBVIOUS
  <2>2. PICK i \in loaded : made[i] = NameOf(t)
    BY <1>1, <2>1 DEF LoadsInv, Lone
  <2>3. i = provider[t]
    BY <1>2, <1>4, <2>1, <2>2 DEF InstancesInv, Lone
  <2>4. QED
    BY <2>1, <2>2, <2>3 DEF LoadsInv, At, Lone
<1>6. ASSUME NEW p \in Provider, p \notin raced'
      PROVE  loads'[p] <= 1 /\ (loads'[p] # 0 => \E i \in loaded' : made'[i] = p)
  <2>1. /\ loads[p] <= 1 /\ (loads[p] # 0 => \E i \in loaded : made[i] = p)
        /\ loads \in [Provider -> Nat]
    BY <1>1, <1>6 DEF LoadsInv, Lone, ShapeInv
  <2>2. CASE UNCHANGED <<loaded, loads>>
    BY <1>2, <2>1, <2>2
  <2>3. CASE /\ pc[t] = "load" /\ loaded' = loaded \cup {provider[t]}
             /\ loads' = [loads EXCEPT ![NameOf(t)] = @ + 1]
    <3>1. CASE p = NameOf(t)
      <4>1. loads'[p] = 1
        BY <1>1, <1>5, <1>6, <2>1, <2>3, <3>1
      <4>2. provider[t] \in loaded' /\ made'[provider[t]] = p
        BY <1>2, <1>4, <2>3, <3>1
      <4>3. QED
        BY <4>1, <4>2
    <3>2. CASE p # NameOf(t)
      BY <1>2, <2>1, <2>3, <3>2
    <3>3. QED
      BY <3>1, <3>2
  <2>4. QED
    BY <1>3, <2>2, <2>3
<1>7. ASSUME NEW u \in Thread, pc'[u] = "load", NameOf(u) \notin raced'
      PROVE  provider'[u] \notin loaded'
  <2>1. CASE u = t
    BY <1>7, <2>1, ProviderSteps
  <2>2. CASE u # t
    <3>1. pc[u] = "load" /\ provider'[u] = provider[u] /\ provider[u] \notin loaded
      BY <1>1, <1>2, <1>7, <2>2 DEF LoadsInv, At, Lone
    <3>2. pc[t] = "load" => provider[t] # provider[u]
      <4>1. SUFFICES ASSUME pc[t] = "load", provider[t] = provider[u] PROVE FALSE
        OBVIOUS
      <4>2. NameOf(t) = NameOf(u)
        BY <3>1, <4>1 DEF HeldInv, At
      <4>3. QED
        BY <1>1, <1>7, <2>2, <3>1, <4>1, <4>2 DEF LoadsInv, At, Lone
    <3>3. QED
      BY <1>3, <3>1, <3>2
  <2>3. QED
    BY <2>1, <2>2
<1>8. \A u, v \in Thread : pc'[u] = "load" /\ pc'[v] = "load" /\ NameOf(u) = NameOf(v) /\ u # v =>
          NameOf(u) \in raced'
  BY AloneHandle
<1>9. QED
  BY <1>1, <1>6, <1>7, <1>8 DEF LoadsInv, At, Lone

LEMMA ProviderReceive ==
  ASSUME IType, ProviderInv, NEW t \in Thread, Receive(t)
  PROVE  ProviderInv'
<1> USE DEF IType, ProviderInv
<1>1. /\ pc[t] = "idle" /\ pc'[t] = "validate" /\ provider'[t] = 0
      /\ UNCHANGED <<cached, made, loaded, loads, raced>>
  BY ReceiveMeans
<1>2. \A u \in Thread \ {t} : pc'[u] = pc[u] /\ provider'[u] = provider[u] /\ NameOf(u)' = NameOf(u)
  BY OthersStay DEF NameOf
<1>3. \A u \in Thread : pc[u] = "keep" => provider[u] # 0
  BY DEF HeldInv, At
<1>4. InstancesInv'
  BY <1>1, <1>2 DEF InstancesInv, At, Lone
<1>5. FreshInv'
  BY <1>1, <1>2, <1>3 DEF FreshInv, At
<1>6. OneHeldInv'
  BY <1>1, <1>2 DEF OneHeldInv, At, Lone
<1>7. LoadsInv'
  BY <1>1, <1>2 DEF LoadsInv, At, Lone
<1>8. QED
  BY <1>4, <1>5, <1>6, <1>7

LEMMA ProviderNext == IType /\ ProviderInv /\ [Next]_vars => ProviderInv'
<1> SUFFICES ASSUME IType, ProviderInv, [Next]_vars PROVE ProviderInv'
  OBVIOUS
<1>1. CASE Change \/ UNCHANGED vars
  BY <1>1 DEF Change, vars, locals, ProviderInv, InstancesInv, FreshInv, OneHeldInv, LoadsInv, At, Lone, NameOf
<1>2. ASSUME NEW t \in Thread, Receive(t) PROVE ProviderInv'
  BY <1>2, ProviderReceive
<1>3. ASSUME NEW t \in Thread, Handle(t) PROVE ProviderInv'
  BY <1>3, InstancesHandle, FreshHandle, OneHeldHandle, LoadsHandle DEF ProviderInv
<1>4. QED
  BY <1>1, <1>2, <1>3 DEF Next

----------------------------------------------------------------------------
(* Answers.                                                                *)

\* What is in the index stays there.
LEMMA HoldsStays ==
  ASSUME NEW t \in Thread, Receive(t) \/ Handle(t), NEW p, Holds(p)
  PROVE  Holds(p)'
<1>1. CASE Store(t)
  <2>1. index' = {d \in index : d.path # Head(todo[t])} \cup {[path |-> Head(todo[t]), model |-> ServerModel]}
    BY <1>1 DEF Store
  <2>2. PICK d \in index : d.path = p
    BY DEF Holds
  <2>3. CASE p = Head(todo[t])
    <3> DEFINE e == [path |-> Head(todo[t]), model |-> ServerModel]
    <3>1. e \in index' /\ e.path = p
      BY <2>1, <2>3
    <3> HIDE DEF e
    <3>2. QED
      BY <3>1 DEF Holds
  <2>4. CASE p # Head(todo[t])
    BY <2>1, <2>2, <2>4 DEF Holds
  <2>5. QED
    BY <2>3, <2>4
<1>2. CASE UNCHANGED index
  BY <1>2 DEF Holds
<1>3. QED
  BY <1>1, <1>2 DEF Receive, Handle, Validate, Lookup, Build, Keep, ListFiles, ReadFile, StoreFails,
     AnswerIndex, Guard, Embed, Load, Search, shared

\* The steps that answer.
LEMMA Replies ==
  ASSUME IType, NEW t \in Thread, Handle(t), pc'[t] = "idle"
  PROVE  /\ UNCHANGED <<result, index>>
         /\ \/ pc[t] = "validate" /\ \E status \in {401, 403, 404, 422} :
                   Refused(t, status) /\ answer'[t] = [status |-> status, kind |-> "error"]
            \/ pc[t] = "build" /\ answer'[t] = [status |-> 400, kind |-> "error"]
            \/ pc[t] \in {"guard", "embed", "load"} /\ ~ Asks(t, "index")
            \/ pc[t] = "search" /\ answer'[t].status \in {200, 400, 500}
            \/ /\ pc[t] = "files" /\ todo[t] = <<>>
               /\ \/ result[t].failed > 0 /\ answer'[t] = [status |-> 422, kind |-> "error"]
                  \/ result[t].failed = 0 /\ result[t].files = 0 /\ answer'[t] = [status |-> 415, kind |-> "error"]
                  \/ result[t].failed = 0 /\ result[t].files > 0 /\ answer'[t] = [status |-> 200, kind |-> "file"]
                  \/ answer'[t] = [status |-> 200, kind |-> "batch"]
<1> USE DEF IType, ShapeInv
<1>1. ASSUME NEW from, NEW status, NEW sort, Reply(t, from, status, sort)
      PROVE  pc[t] = from /\ answer'[t] = [status |-> status, kind |-> sort]
  BY <1>1 DEF Reply, Goto
<1>2. CASE Validate(t)
  <2>1. PICK status \in {401, 403, 404, 422} : Refused(t, status) /\ Reply(t, "validate", status, "error")
    BY <1>2 DEF Validate, Goto
  <2>2. UNCHANGED <<result, index>>
    BY <1>2 DEF Validate, shared
  <2>3. QED
    BY <1>1, <2>1, <2>2
<1>3. CASE Lookup(t) \/ Keep(t) \/ ListFiles(t) \/ Store(t)
  BY <1>3 DEF Lookup, Keep, ListFiles, Store, Goto, AfterProvider
<1>4. CASE Build(t)
  <2>1. Reply(t, "build", 400, "error") /\ UNCHANGED <<result, index>>
    BY <1>4 DEF Build, Goto
  <2>2. QED
    BY <1>1, <2>1
<1>5. CASE ReadFile(t)
  <2>1. Fails(t, "files") /\ ~ Asks(t, "index") /\ pc[t] = "files"
    BY <1>5 DEF ReadFile, Fails, Raises, Goto, Reply
  <2>2. QED
    BY <2>1 DEF WorkInv, At
<1>6. CASE AnswerIndex(t)
  BY <1>1, <1>6 DEF AnswerIndex, shared
<1>7. CASE Guard(t)
  <2>1. /\ Reply(t, "guard", 409, "error") \/ Raises(t, "guard")
        /\ UNCHANGED <<result, index>>
    BY <1>7 DEF Guard, Goto, shared
  <2>2. request[t] \in Request
    BY HandleKeeps, RequestFields
  <2>3. pc[t] = "guard" /\ ~ Asks(t, "index")
    BY <1>1, <2>1, <2>2, RaisesEnds DEF WorkInv, At, Asks
  <2>4. QED
    BY <2>1, <2>3
<1>8. CASE Embed(t) \/ Load(t)
  <2>1. (Fails(t, "embed") \/ Fails(t, "load")) /\ UNCHANGED index
    BY <1>8 DEF Embed, Load, Goto, AfterEmbed
  <2>2. ~ Asks(t, "index") /\ pc[t] \in {"embed", "load"} /\ UNCHANGED result
    BY <2>1 DEF Fails, Raises, Goto, Reply
  <2>3. QED
    BY <2>1, <2>2
<1>9. CASE Search(t)
  <2>1. Reply(t, "search", 200, "hits") \/ Raises(t, "search")
    BY <1>9 DEF Search
  <2>a. \A status : \A sort : [status |-> status, kind |-> sort].status = status
    OBVIOUS
  <2>b. PICK status \in {200, 400, 500} : \E sort : Reply(t, "search", status, sort)
    BY <2>1 DEF Raises
  <2>c. PICK sort : Reply(t, "search", status, sort)
    BY <2>b
  <2>d. pc[t] = "search" /\ answer'[t] = [status |-> status, kind |-> sort]
    BY <1>1, <2>c
  <2>2. pc[t] = "search" /\ answer'[t].status \in {200, 400, 500}
    BY <2>a, <2>b, <2>d
  <2>3. QED
    BY <1>9, <2>2 DEF Search, shared
<1>10. CASE StoreFails(t)
  <2>1. Fails(t, "store") /\ pc[t] = "store" /\ ~ Asks(t, "index")
    BY <1>10 DEF StoreFails, Fails, Raises, Goto, Reply
  <2>2. QED
    BY <2>1 DEF WorkInv, At
<1>11. QED
  BY <1>2, <1>3, <1>4, <1>5, <1>6, <1>7, <1>8, <1>9, <1>10 DEF Handle

LEMMA ListedOnce == ASSUME NEW x, NEW s, s = <<x>> PROVE s # <<>> /\ Head(s) = x /\ Tail(s) = <<>>
  OBVIOUS

LEMMA FileHandle ==
  ASSUME IType, FileInv, NEW t \in Thread, Handle(t)
  PROVE  FileInv'
<1> USE DEF IType
<1>1. UNCHANGED <<kind, request>> /\ pc[t] # "idle"
  BY HandleKeeps
<1>2. \A u \in Thread \ {t} :
          pc'[u] = pc[u] /\ request'[u] = request[u] /\ todo'[u] = todo[u] /\ result'[u] = result[u]
  BY OthersStay
<1>3. \A p : Holds(p) => Holds(p)'
  BY HoldsStays
<1>4. ASSUME NEW u \in Thread \ {t}, OneFile(u)
      PROVE  /\ pc'[u] \in {"validate", "provider", "build", "keep", "list"} =>
                    result'[u] = NoResult /\ todo'[u] = <<>>
             /\ pc'[u] \in {"embed", "load", "store"} => result'[u] = NoResult /\ todo'[u] = <<request[u].path>>
             /\ pc'[u] = "files" =>
                    \/ result'[u] = NoResult /\ todo'[u] = <<request[u].path>>
                    \/ todo'[u] = <<>> /\ (Missed(u)' \/ Found(u)')
  BY <1>1, <1>2, <1>3, <1>4 DEF FileInv, At, Untouched, Missed, Found
<1>5. ASSUME OneFile(t)
      PROVE  /\ pc'[t] \in {"validate", "provider", "build", "keep", "list"} =>
                    result'[t] = NoResult /\ todo'[t] = <<>>
             /\ pc'[t] \in {"embed", "load", "store"} => result'[t] = NoResult /\ todo'[t] = <<request[t].path>>
             /\ pc'[t] = "files" =>
                    \/ result'[t] = NoResult /\ todo'[t] = <<request[t].path>>
                    \/ todo'[t] = <<>> /\ (Missed(t)' \/ Found(t)')
  <2> PICK f : f = request[t].path
    OBVIOUS
  <2>1. /\ Asks(t, "index") /\ f \in File /\ f \in Path /\ kind[f] \in {"file", "none"}
        /\ todo \in [Thread -> Seq(Path)] /\ result \in [Thread -> Result]
        /\ ~ Asks(t, "query")
    BY <1>1, <1>5, RequestFields DEF OneFile, WorkInv, Path, TaskInv, Result
  <2>2. NoResult.files = 0 /\ NoResult.failed = 0 /\ NoResult.stored = {}
    BY DEF NoResult
  <2>3. ASSUME Untouched(t), todo[t] = <<f>>, Dropped(t),
               Reported(t, result[t].files + 1, result[t].failed + 1, result[t].stored)
        PROVE  todo'[t] = <<>> /\ Missed(t)'
    <3>1. Report(result[t].files + 1, result[t].failed + 1, result[t].stored).failed = 1
          /\ Report(result[t].files + 1, result[t].failed + 1, result[t].stored).stored = {}
      BY <2>2, <2>3 DEF Untouched, Report
    <3>2. QED
      BY <2>1, <2>3, <3>1, ListedOnce DEF Missed, Reported, Dropped
  <2>4. ASSUME NEW S, Untouched(t), todo[t] = <<f>>, Dropped(t), Holds(f)',
               Reported(t, result[t].files + 1, result[t].failed, S)
        PROVE  todo'[t] = <<>> /\ Found(t)'
    <3>1. Report(result[t].files + 1, result[t].failed, S).failed = 0
          /\ Report(result[t].files + 1, result[t].failed, S).files = 1
      BY <2>2, <2>4 DEF Untouched, Report
    <3>2. QED
      BY <1>1, <2>1, <2>4, <3>1, ListedOnce DEF Found, Reported, Dropped
  <2>5. CASE pc[t] \in {"validate", "provider", "build", "keep"}
    <3>1. UNCHANGED <<result, todo>> /\ pc'[t] \in {"idle", "provider", "build", "keep", "list"}
      BY <1>5, <2>1, <2>5, Moves DEF Handle, Validate, Lookup, Build, Keep, ListFiles, ReadFile, Store,
         StoreFails, AnswerIndex, Guard, Embed, Load, Search, Fails, Raises, Goto, Reply, ShapeInv, AfterProvider
    <3>2. QED
      BY <1>5, <2>5, <3>1 DEF FileInv, At, Untouched
  <2>6. CASE pc[t] = "list"
    <3>1. ListFiles(t) /\ pc'[t] = "files" /\ Untouched(t) /\ todo[t] = <<>>
      BY <1>5, <2>6, Moves, Replies DEF FileInv, At
    <3>2. CASE kind[f] = "file"
      BY <2>1, <2>2, <3>1, <3>2, ListReports DEF Untouched
    <3>3. CASE kind[f] = "none"
      <4>1. Reported(t, result[t].files, 1, result[t].stored) /\ UNCHANGED todo
        BY <3>1, <3>3, ListReports
      <4>2. Report(result[t].files, 1, result[t].stored).failed = 1
            /\ Report(result[t].files, 1, result[t].stored).stored = {}
        BY <2>2, <3>1 DEF Untouched, Report
      <4>3. QED
        BY <2>1, <3>1, <4>1, <4>2 DEF Missed, Reported
    <3>4. QED
      BY <2>1, <3>2, <3>3
  <2>7. CASE pc[t] = "files"
    <3>1. CASE pc'[t] = "idle"
      BY <3>1
    <3>2. CASE pc'[t] # "idle"
      <4>1. ReadFile(t) /\ todo[t] # <<>>
        BY <2>7, <3>2, Moves, ReadReports
      <4>2. Untouched(t) /\ todo[t] = <<f>> /\ Head(todo[t]) = f
        BY <1>5, <2>7, <4>1, ListedOnce DEF FileInv, At
      <4>3. CASE Fails(t, "files")
        <5>1. /\ Dropped(t) /\ pc'[t] = "files"
              /\ Reported(t, result[t].files + 1, result[t].failed + 1, result[t].stored)
          BY <2>1, <4>3, FailsReports DEF Goto, ShapeInv
        <5>2. QED
          BY <2>3, <4>2, <5>1
      <4>4. CASE /\ Goto(t, "files", "files") /\ Dropped(t) /\ Holds(Head(todo[t]))
                 /\ Reported(t, result[t].files + 1, result[t].failed, result[t].stored)
        <5>1. pc'[t] = "files" /\ Holds(f)'
          BY <1>3, <4>2, <4>4 DEF Goto, ShapeInv
        <5>2. QED
          BY <2>4, <4>2, <4>4, <5>1
      <4>5. CASE Goto(t, "files", "embed") /\ UNCHANGED <<result, todo, answer>>
        BY <4>2, <4>5 DEF Goto, ShapeInv, Untouched
      <4>6. QED
        BY <4>1, <4>3, <4>4, <4>5, ReadReports
    <3>3. QED
      BY <3>1, <3>2
  <2>8. CASE pc[t] = "store"
    <3>1. /\ Store(t) \/ StoreFails(t)
          /\ pc'[t] = "files" /\ Untouched(t) /\ todo[t] = <<f>> /\ Head(todo[t]) = f
      BY <1>5, <2>8, Moves, Replies, ListedOnce DEF FileInv, At
    <3>2. CASE Store(t)
      <4>1. Dropped(t) /\ Reported(t, result[t].files + 1, result[t].failed, result[t].stored \cup {f})
        BY <2>1, <3>1, <3>2, StoreReports
      <4>2. Holds(f)'
        <5> DEFINE e == [path |-> f, model |-> ServerModel]
        <5>1. e \in index' /\ e.path = f
          BY <3>1, <3>2 DEF Store
        <5> HIDE DEF e
        <5>2. QED
          BY <5>1 DEF Holds
      <4>3. QED
        BY <2>4, <3>1, <4>1, <4>2
    <3>3. CASE StoreFails(t)
      <4>1. Dropped(t) /\ Reported(t, result[t].files + 1, result[t].failed + 1, result[t].stored)
        BY <2>1, <3>3, FailsReports DEF StoreFails
      <4>2. QED
        BY <2>3, <3>1, <4>1
    <3>4. QED
      BY <3>1, <3>2, <3>3
  <2>9. CASE pc[t] \in {"embed", "load"}
    <3>1. (Embed(t) \/ Load(t)) /\ Untouched(t) /\ todo[t] = <<f>>
      BY <1>5, <2>1, <2>9, Moves, Replies DEF FileInv, At
    <3>2. CASE UNCHANGED <<result, todo>> /\ pc'[t] \in {"load", "store"}
      BY <3>1, <3>2 DEF Untouched
    <3>3. CASE Fails(t, "embed") \/ Fails(t, "load")
      <4>1. /\ Dropped(t) /\ pc'[t] = "files"
            /\ Reported(t, result[t].files + 1, result[t].failed + 1, result[t].stored)
        BY <2>1, <3>3, FailsReports DEF Goto, ShapeInv
      <4>2. QED
        BY <2>3, <3>1, <4>1
    <3>4. QED
      BY <2>1, <3>1, <3>2, <3>3 DEF Embed, Load, AfterEmbed, Goto, ShapeInv
  <2>10. CASE pc[t] \in {"guard", "search"}
    BY <2>1, <2>10 DEF WorkInv, At
  <2>11. QED
    BY <1>1, <2>5, <2>6, <2>7, <2>8, <2>9, <2>10 DEF ShapeInv, Place
<1>6. \A u \in Thread : OneFile(u)' => OneFile(u)
  BY <1>1 DEF OneFile, Asks
<1>7. QED
  BY <1>1, <1>4, <1>5, <1>6 DEF FileInv, At, Untouched

LEMMA AnswerHandle ==
  ASSUME IType, FileInv, AnswerInv, NEW t \in Thread, Handle(t)
  PROVE  AnswerInv'
<1> USE DEF IType
<1>1. UNCHANGED <<kind, request>> /\ pc[t] # "idle" /\ request[t] \in Request
  BY HandleKeeps, RequestFields
<1>2. \A u \in Thread \ {t} :
          /\ pc'[u] = pc[u] /\ request'[u] = request[u] /\ provider'[u] = provider[u]
          /\ result'[u] = result[u] /\ answer'[u] = answer[u]
  BY OthersStay
<1>3. \A p : Holds(p) => Holds(p)'
  BY HoldsStays
<1>4. ASSUME NEW u \in Thread \ {t}, OneFile(u), Answered(u)'
      PROVE  SaysStored(u)'
  BY <1>1, <1>2, <1>3, <1>4 DEF AnswerInv, SaysStored, Answered, Missed, Found
<1>5. ASSUME OneFile(t), Answered(t)'
      PROVE  SaysStored(t)'
  <2>1. /\ pc'[t] = "idle" /\ Asks(t, "index") /\ ~ Asks(t, "query")
        /\ request[t].path \in File /\ UNCHANGED <<result, index>>
    BY <1>1, <1>5, Replies, RequestFields DEF Answered, OneFile
  <2>2. Untouched(t) => result[t].stored = {}
    BY DEF Untouched, NoResult
  <2>3. CASE pc[t] \in {"validate", "build"}
    <3>1. \E status \in {400, 401, 403, 404, 422} : answer'[t] = [status |-> status, kind |-> "error"]
      BY <2>1, <2>3, Replies
    <3>2. Untouched(t)
      BY <1>5, <2>3 DEF FileInv, At
    <3>3. answer'[t].status # 415 /\ answer'[t].kind = "error" /\ result'[t].stored = {}
      BY <2>1, <2>2, <3>1, <3>2
    <3>4. QED
      BY <3>3 DEF SaysStored
  <2>4. CASE pc[t] = "files" /\ todo[t] = <<>>
    <3>1. Missed(t) \/ Found(t)
      BY <1>5, <2>4, ListedOnce DEF FileInv, At
    <3>2. (Missed(t) => Missed(t)') /\ (Found(t) => Found(t)')
      BY <1>1, <2>1 DEF Missed, Found, Holds
    <3>3. \/ Missed(t) /\ answer'[t] = [status |-> 422, kind |-> "error"]
          \/ Found(t) /\ answer'[t] = [status |-> 200, kind |-> "file"]
          \/ answer'[t] = [status |-> 200, kind |-> "batch"]
      BY <2>1, <2>4, <3>1, Replies DEF Missed, Found
    <3>4. CASE Missed(t) /\ answer'[t] = [status |-> 422, kind |-> "error"]
      <4>1. result'[t].stored = {} /\ answer'[t].status = 422 /\ answer'[t].kind = "error"
        BY <2>1, <3>4 DEF Missed
      <4>2. QED
        BY <4>1 DEF SaysStored
    <3>5. CASE Found(t) /\ answer'[t] = [status |-> 200, kind |-> "file"]
      <4>1. Found(t)' /\ answer'[t].status = 200 /\ answer'[t].kind = "file"
        BY <3>2, <3>5
      <4>2. QED
        BY <4>1 DEF SaysStored
    <3>6. CASE answer'[t] = [status |-> 200, kind |-> "batch"]
      <4>1. answer'[t].status = 200 /\ answer'[t].kind = "batch"
        BY <3>6
      <4>2. QED
        BY <3>1, <3>2, <4>1 DEF SaysStored
    <3>7. QED
      BY <3>3, <3>4, <3>5, <3>6
  <2>5. CASE pc[t] = "search"
    BY <2>1, <2>5 DEF WorkInv, At
  <2>6. QED
    BY <2>1, <2>3, <2>4, <2>5, Replies
<1>6. ASSUME Asks(t, "query"), request[t].mode = "bm25"
      PROVE  /\ pc'[t] \in {"idle", "validate", "search"} /\ provider'[t] = 0
             /\ Answered(t)' => answer'[t].status \in {200, 400, 401, 422, 500}
  <2>1. pc[t] \in {"validate", "search"} /\ provider[t] = 0 /\ ~ Asks(t, "index") /\ request[t].op = "query"
    BY <1>1, <1>6 DEF AnswerInv, At, Asks
  <2>2. pc'[t] \in {"idle", "search"}
    BY <1>6, <2>1, Moves
  <2>3. provider'[t] = 0
    BY <2>1, ProviderSteps
  <2>4. Answered(t)' => answer'[t].status \in {200, 400, 401, 422, 500}
    <3>1. SUFFICES ASSUME pc'[t] = "idle" PROVE answer'[t].status \in {200, 400, 401, 422, 500}
      BY DEF Answered
    <3>2. CASE pc[t] = "validate"
      <4>1. PICK status \in {401, 403, 404, 422} :
                Refused(t, status) /\ answer'[t] = [status |-> status, kind |-> "error"]
        BY <3>1, <3>2, Replies
      <4>2. status \in {401, 422}
        BY <2>1, <4>1 DEF Refused
      <4>3. QED
        BY <4>1, <4>2
    <3>3. CASE pc[t] = "search"
      <4>1. answer'[t].status \in {200, 400, 500}
        BY <3>1, <3>3, Replies
      <4>2. QED
        BY <4>1
    <3>4. QED
      BY <2>1, <3>2, <3>3
  <2>5. QED
    BY <2>2, <2>3, <2>4
<1>7. \A u \in Thread : /\ OneFile(u)' <=> OneFile(u)
                        /\ Asks(u, "query")' <=> Asks(u, "query")
  BY <1>1 DEF OneFile, Asks
<1>8. \A u \in Thread : OneFile(u)' /\ Answered(u)' => SaysStored(u)'
  BY <1>4, <1>5, <1>7
<1>9. ASSUME NEW u \in Thread, Asks(u, "query"), request[u].mode = "bm25"
      PROVE  /\ pc'[u] \in {"idle", "validate", "search"} /\ provider'[u] = 0
             /\ Answered(u)' => answer'[u].status \in {200, 400, 401, 422, 500}
  <2>1. CASE u = t
    BY <1>6, <1>9, <2>1
  <2>2. CASE u # t
    BY <1>2, <1>9, <2>2 DEF AnswerInv, At, Answered
  <2>3. QED
    BY <2>1, <2>2
<1>10. QED
  BY <1>1, <1>7, <1>8, <1>9 DEF AnswerInv, At

LEMMA AnswerReceive ==
  ASSUME IType, FileInv, AnswerInv, NEW t \in Thread, Receive(t)
  PROVE  FileInv' /\ AnswerInv'
<1>1. /\ pc'[t] = "validate" /\ provider'[t] = 0 /\ todo'[t] = <<>> /\ result'[t] = NoResult
      /\ answer'[t] = NoAnswer /\ UNCHANGED index
  BY ReceiveMeans
<1>2. \A u \in Thread \ {t} :
          /\ pc'[u] = pc[u] /\ request'[u] = request[u] /\ provider'[u] = provider[u]
          /\ todo'[u] = todo[u] /\ result'[u] = result[u] /\ answer'[u] = answer[u]
  BY OthersStay
<1>3. FileInv'
  BY <1>1, <1>2 DEF FileInv, OneFile, Asks, At, Untouched, Missed, Found, Holds
<1>4. \A u \in Thread : OneFile(u)' /\ Answered(u)' => SaysStored(u)'
  BY <1>1, <1>2 DEF AnswerInv, OneFile, Asks, Answered, SaysStored, Missed, Found, Holds
<1>5. \A u \in Thread : (Asks(u, "query") /\ request[u].mode = "bm25")' =>
          /\ pc'[u] \in {"idle", "validate", "search"} /\ provider'[u] = 0
          /\ Answered(u)' => answer'[u].status \in {200, 400, 401, 422, 500}
  BY <1>1, <1>2 DEF AnswerInv, Asks, At, Answered
<1>6. QED
  BY <1>3, <1>4, <1>5 DEF AnswerInv, At

LEMMA AnswerNext == IType /\ FileInv /\ AnswerInv /\ [Next]_vars => FileInv' /\ AnswerInv'
<1> SUFFICES ASSUME IType, FileInv, AnswerInv, [Next]_vars PROVE FileInv' /\ AnswerInv'
  OBVIOUS
<1>1. CASE Change \/ UNCHANGED vars
  <2>1. UNCHANGED <<pc, request, provider, todo, result, answer, index>>
    BY <1>1 DEF Change, vars, locals
  <2>2. FileInv'
    BY <2>1 DEF FileInv, OneFile, Asks, At, Untouched, Missed, Found, Holds
  <2>3. AnswerInv'
    BY <2>1 DEF AnswerInv, OneFile, Asks, At, Answered, SaysStored, Missed, Found, Holds
  <2>4. QED
    BY <2>2, <2>3
<1>2. ASSUME NEW t \in Thread, Receive(t) PROVE FileInv' /\ AnswerInv'
  BY <1>2, AnswerReceive
<1>3. ASSUME NEW t \in Thread, Handle(t) PROVE FileInv' /\ AnswerInv'
  BY <1>3, FileHandle, AnswerHandle
<1>4. QED
  BY <1>1, <1>2, <1>3 DEF Next

----------------------------------------------------------------------------
(* The theorems.                                                           *)

\* IInv holds in every reachable state: the types, one instance of each provider that
\* was not raced, and what was done so far for every request for one file
\* (api/app.py's handlers over the cache of api/deps.py).
THEOREM Invariant == Spec => []IInv
<1>1. Init => IInv
  <2> SUFFICES ASSUME Init PROVE ProviderInv /\ FileInv /\ AnswerInv
    BY TypeInit DEF IInv
  <2>1. /\ \A t \in Thread : pc[t] = "idle" /\ provider[t] = 0 /\ answer[t] = NoAnswer /\ request[t] = NoRequest
        /\ made = <<>> /\ \A p \in Provider : loads[p] = 0
    BY DEF Init
  <2>2. ProviderInv
    BY <2>1 DEF ProviderInv, InstancesInv, FreshInv, OneHeldInv, LoadsInv, At
  <2>3. FileInv /\ AnswerInv
    BY <2>1 DEF FileInv, AnswerInv, OneFile, Answered, Asks, NoRequest, NoAnswer
  <2>4. QED
    BY <2>2, <2>3
<1>2. IInv /\ [Next]_vars => IInv'
  BY TypeNext, ProviderNext, AnswerNext DEF IInv
<1>3. QED
  BY <1>1, <1>2, PTL DEF Spec

\* Every reachable state is of the type of the model.
THEOREM TypeCorrect == Spec => []TypeOK
<1>1. IInv => TypeOK
  BY DEF IInv, IType
<1>2. QED
  BY <1>1, Invariant, PTL

\* A provider that no two requests were building or loading at once has one instance
\* at most, the one of the cache, and its model was loaded at most once, however the
\* handlers' threads interleave (api/deps.py:17, docs/operations.md:81).
THEOREM ProvidersShared == Spec => []ProvidersAreShared
<1>1. ASSUME IInv PROVE ProvidersAreShared
  <2> USE <1>1 DEF IInv, IType, ProviderInv
  <2>1. ASSUME NEW p \in Provider, p \notin raced
        PROVE  Cardinality({i \in DOMAIN made : made[i] = p}) <= 1
    <3> DEFINE S == {i \in DOMAIN made : made[i] = p}
    <3>1. \A i, j \in S : i = j
      BY <2>1 DEF InstancesInv, Lone
    <3>2. CASE S = {}
      BY <3>2, FS_EmptySet
    <3>3. ASSUME NEW i \in S PROVE Cardinality(S) <= 1
      <4>1. S = {i}
        BY <3>1, <3>3
      <4>2. Cardinality({i}) = 1
        BY FS_Singleton
      <4>3. QED
        BY <4>1, <4>2
    <3>4. QED
      BY <3>2, <3>3
  <2>2. ASSUME NEW p \in Provider, p \notin raced, NEW t \in Thread,
               provider[t] # 0, made[provider[t]] = p, pc[t] # "keep"
        PROVE  provider[t] = cached[p]
    BY <2>2 DEF OneHeldInv, HeldInv, Lone, At
  <2>3. OneInstancePerProvider
    BY <2>1, <2>2 DEF OneInstancePerProvider
  <2>4. ModelLoadedOnce
    BY DEF ModelLoadedOnce, LoadsInv, Lone, ShapeInv
  <2>5. QED
    BY <2>3, <2>4 DEF ProvidersAreShared
<1>2. QED
  BY <1>1, Invariant, PTL

\* What the status of an answer says of the index is so: an error to a request for a
\* file stored nothing and 200 has the file in the index, unless it vanished on the
\* way; a lexical query needs no provider (api/app.py:143-221).
THEOREM AnswersTrue == Spec => []AnswersAreTrue
<1>1. ASSUME IInv PROVE AnswersAreTrue
  <2> USE <1>1 DEF IInv, IType
  <2>1. ASSUME NEW t \in Thread, Answered(t), Asks(t, "index"), request[t].path \in File
        PROVE  LET path == request[t].path
               IN  /\ answer[t].status # 200 => result[t].stored = {}
                   /\ answer[t].kind = "file" => Holds(path) /\ result[t].failed = 0
                   /\ answer[t].kind = "batch" => Holds(path) \/ result[t].failed = 1
                   /\ answer[t].status # 415
    <3>1. OneFile(t)
      BY <2>1, RequestFields DEF OneFile, Answered
    <3>2. SaysStored(t)
      BY <2>1, <3>1 DEF AnswerInv
    <3>3. QED
      BY <3>2 DEF SaysStored, Missed, Found
  <2>2. StatusTellsStored
    BY <2>1 DEF StatusTellsStored
  <2>3. LexicalNeedsNoProvider
    BY DEF AnswerInv, LexicalNeedsNoProvider, At
  <2>4. QED
    BY <2>2, <2>3 DEF AnswersAreTrue
<1>2. QED
  BY <1>1, Invariant, PTL

=============================================================================
