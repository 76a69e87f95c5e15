------------------------- MODULE EvalHarnessProofs -------------------------
(***************************************************************************)
(* Theorems about EvalCorpus and EvalHarness: for any dataset, requests    *)
(* and number of runs, whatever write a run dies at, a run that is not     *)
(* over a cut directory has the corpus it asked for, and its index has     *)
(* that corpus; and for any ranking of its chunks a query is graded on     *)
(* documents, each once, by the judgements.                                *)
(***************************************************************************)
EXTENDS EvalHarness, FiniteSetTheorems, SequenceTheorems, WellFoundedInduction, TLAPS

----------------------------------------------------------------------------
(* The inductive invariant.                                                *)

\* A directory holds what the request asks for.
WholeFor(files, r) ==
    /\ files.texts = [d \in Doc |-> IF d \in Written(r) THEN Whole ELSE Absent]
    /\ files.sidecars = Written(r)
    /\ files.qrels = Qrels(r)

SizeOf(r) == [doc_count |-> Cardinality(Written(r)), query_count |-> Cardinality(Qrels(r))]

\* Only a benchmark prepares anything, and nobody touches the fixtures.
OwnerInv ==
    /\ pc \in {"check", "clear", "text", "sidecar", "manifest"} => request \in Requests
    /\ \A dir \in DOMAIN Given : disk[dir] = Given[dir]

\* The manifest of a directory that is neither cut nor being prepared vouches for
\* a corpus somebody asked for and that is all there.
Vouched(dir) ==
    \E r \in Requests :
        DirOf(r) = dir /\ disk[dir].manifest = Manifest(r) /\ WholeFor(disk[dir], r)

ManifestInv ==
    \A dir \in Dir \ (DOMAIN Given \cup cut) :
        disk[dir].manifest \notin {Absent, Torn} /\ ~(Preparing /\ dir = DirOf(request)) => Vouched(dir)

\* How far the documents are written: all but those still to do, and the next one
\* without its sidecar.
TextsAre(ds) == Here.texts = [d \in Doc |-> IF d \in ds THEN Whole ELSE Absent]

WritingInv ==
    /\ pc \in {"text", "sidecar"} =>
           todo \subseteq Selected(request) /\ Here.sidecars = Written(request) \ todo
    /\ pc = "text" => TextsAre(Written(request) \ todo)
    /\ pc = "sidecar" => \E d \in todo \ Blank : IsNext(d) /\ TextsAre((Written(request) \ todo) \cup {d})
    /\ pc = "manifest" => WholeFor(Here, request)

\* What a run has accepted.
AcceptedInv ==
    /\ pc \in {"list", "index", "evaluate"} /\ request \in Requests /\ DirOf(request) \notin cut =>
           WholeFor(Here, request) /\ prepared = SizeOf(request)
    /\ pc \in {"manifest", "list", "index"} => Here.qrels # Absent

\* What is being indexed is in the directory, and known to be.
ListedInv ==
    /\ pc = "index" => todo \subseteq Txt(Here)
    /\ pc \in {"index", "evaluate"} =>
           /\ DirOf(request) \in cut => DirOf(request) \in taken
           /\ <<DirOf(request), Fingerprint(request)>> \in corpora

\* A document of a directory no run took while it was cut is indexed whole, with
\* its id, and was asked for by a run.
IndexedInv ==
    \A e \in db : e.path[1] \notin DOMAIN Given \cup taken =>
        /\ e.text = Whole /\ e.external_id = e.path[2]
        /\ \E r \in Requests :
               DirOf(r) = e.path[1] /\ <<DirOf(r), Fingerprint(r)>> \in corpora /\ e.path[2] \in Written(r)

Entry(dir, d) == [path |-> <<dir, d>>, text |-> Whole, external_id |-> d]

DoneInv ==
    pc \in {"index", "evaluate"} /\ request \in Requests /\ DirOf(request) \notin taken =>
        \A d \in Written(request) : (pc = "index" /\ d \in todo) \/ Entry(DirOf(request), d) \in db

\* The fixtures are indexed whole and have no ids.
FixturesInv ==
    \A e \in db : e.path[1] \in DOMAIN Given => e.text = Whole /\ e.external_id = Nothing

\* The queries of a corpus are those of the dataset that someone judged, and a run
\* is graded on its own.
Labelled == {q \in Query : Judged[q] # {}}

QueriesInv ==
    /\ \A dir \in Dir \ DOMAIN Given : disk[dir].qrels \in {Absent, Torn} \cup SUBSET Labelled
    /\ pc = "evaluate" => todo \subseteq IF Benchmark THEN Labelled ELSE DOMAIN FixtureRules

\* The row Evaluate writes for a query and what retrieval found for it.
RowOf(q, rules, gold, hits) ==
    LET collapsed == Collapsed(hits, rules)
        keys == First(TopK, collapsed[1])
        relevance == [i \in DOMAIN keys |-> keys[i] \in collapsed[2]]
        graded == Graded(relevance, gold)
    IN  [query |-> q, hits |-> hits, keys |-> keys, relevance |-> relevance,
         gold |-> gold, hit |-> graded.hit, recall |-> graded.recall, rank |-> graded.rank]

RowInv ==
    row # NoRow =>
        /\ pc = "evaluate" /\ row.query \in todo /\ row.hits \in Rankings
        /\ row = RowOf(row.query, Rules(row.query), Gold(row.query), row.hits)

IInv ==
    /\ TypeOK /\ OwnerInv /\ ManifestInv /\ WritingInv /\ AcceptedInv
    /\ ListedInv /\ IndexedInv /\ DoneInv /\ FixturesInv /\ QueriesInv /\ RowInv
----------------------------------------------------------------------------
(* The data.                                                               *)

\* The range of a finite sequence is finite.
LEMMA RangeFinite ==
    ASSUME NEW S, NEW s \in Seq(S)
    PROVE  IsFiniteSet(Range(s)) /\ Range(s) \subseteq S
<1>1. IsFiniteSet(1..Len(s))
  BY FS_Interval
<1>2. s \in Surjection(1..Len(s), Range(s))
  BY DEF Range, Surjection
<1> QED
  BY <1>1, <1>2, FS_Surjection DEF Range

\* Documents are finitely many numbers, queries finitely many.
LEMMA DataFinite ==
    /\ Doc \subseteq Nat /\ IsFiniteSet(Doc) /\ IsFiniteSet(Query)
    /\ \A S \in SUBSET Doc : IsFiniteSet(S) /\ Cardinality(S) \in Nat
    /\ \A S \in SUBSET Query : IsFiniteSet(S) /\ Cardinality(S) \in Nat
<1>1. Doc \subseteq Nat /\ IsFiniteSet(Doc)
  BY DatasetAssumption, RangeFinite DEF Doc
<1>2. IsFiniteSet(Query)
  <2>1. Queries \in Seq(Query)
    BY DatasetAssumption
  <2> QED
    BY <2>1, RangeFinite DEF Query
<1> QED
  BY <1>1, <1>2, FS_Subset, FS_CardinalityType

\* What a request selects comes from the dataset.
LEMMA SelectionInDataset ==
    ASSUME NEW r
    PROVE  /\ Chosen(r) \subseteq Query /\ Qrels(r) \subseteq Query
           /\ Needed(r) \subseteq Doc /\ Selected(r) \subseteq Doc
           /\ Written(r) = Selected(r) \ Blank
           /\ Cardinality(Written(r)) \in Nat /\ Cardinality(Qrels(r)) \in Nat
<1>1. Chosen(r) \subseteq Query /\ Qrels(r) \subseteq Query
  BY DEF Chosen, Qrels, FirstOf
<1>2. Needed(r) \subseteq Doc
  BY <1>1, DatasetAssumption DEF Needed
<1>3. Filler(r) \subseteq Doc
  BY DEF Filler, FirstOf
<1> QED
  BY <1>1, <1>2, <1>3, DataFinite DEF Selected, Written

\* The fingerprint of a request says what its corpus is.
LEMMA FingerprintDecides ==
    ASSUME NEW r1, NEW r2, Fingerprint(r1) = Fingerprint(r2)
    PROVE  Written(r1) = Written(r2) /\ Qrels(r1) = Qrels(r2)
<1>1. r1.max_docs = r2.max_docs /\ r1.max_queries = r2.max_queries
  BY DEF Fingerprint
<1>2. Chosen(r1) = Chosen(r2)
  BY <1>1 DEF Chosen
<1>3. Needed(r1) = Needed(r2)
  BY <1>2 DEF Needed
<1>4. Filler(r1) = Filler(r2)
  BY <1>1, <1>3 DEF Filler
<1> QED
  BY <1>2, <1>3, <1>4 DEF Written, Selected, Qrels

\* A place in an injective sequence is before another or after it.
LEMMA BeforeIsOrder ==
    ASSUME NEW S, NEW s \in Seq(S), IsInjective(s), NEW x, NEW y
    PROVE  /\ ~(Before(s, x, y) /\ Before(s, y, x))
           /\ x \in Range(s) /\ y \in Range(s) /\ x # y => Before(s, x, y) \/ Before(s, y, x)
           /\ \A z : Before(s, x, y) /\ Before(s, y, z) => Before(s, x, z)
<1>1. DOMAIN s = 1..Len(s) /\ Len(s) \in Nat
  OBVIOUS
<1>2. \A i, j \in DOMAIN s : s[i] = s[j] => i = j
  BY DEF IsInjective
<1> QED
  BY <1>1, <1>2 DEF Before, Range

\* There is one document to be written next.
LEMMA OneIsNext ==
    ASSUME todo \subseteq Doc, NEW d \in todo, NEW e \in todo, IsNext(d), IsNext(e)
    PROVE  d = e
<1> SUFFICES ASSUME d # e PROVE FALSE
  OBVIOUS
<1>1. WrittenBefore(request, d, e) /\ WrittenBefore(request, e, d)
  BY DEF IsNext
<1>2. d \in Nat /\ e \in Nat
  BY DataFinite
<1>3. ~(Before(Docs, d, e) /\ Before(Docs, e, d))
  BY DatasetAssumption, BeforeIsOrder
<1> QED
  BY <1>1, <1>2, <1>3 DEF WrittenBefore

----------------------------------------------------------------------------
(* The filler keeps its limit.                                             *)

LEMMA TwoMax ==
    ASSUME NEW a \in Int, NEW b \in Int
    PROVE  Max({a, b}) = IF a >= b THEN a ELSE b
<1>1. \E m \in {a, b} : \A x \in {a, b} : m >= x
  OBVIOUS
<1>2. Max({a, b}) \in {a, b} /\ \A x \in {a, b} : Max({a, b}) >= x
  BY <1>1 DEF Max
<1> QED
  BY <1>2

\* The first n members of a set are at most n: the number of members before each
\* is a number below n, and no two have the same.
LEMMA FirstOfIsShort ==
    ASSUME NEW T, NEW s \in Seq(T), IsInjective(s), NEW S \in SUBSET Range(s), NEW n \in Nat
    PROVE  IsFiniteSet(FirstOf(n, S, s)) /\ Cardinality(FirstOf(n, S, s)) <= n
<1> DEFINE Ahead(x) == {y \in S : Before(s, y, x)}
           F == FirstOf(n, S, s)
<1>1. IsFiniteSet(S) /\ \A x : Ahead(x) \in SUBSET S
  BY RangeFinite, FS_Subset
<1>2. \A x : IsFiniteSet(Ahead(x)) /\ Cardinality(Ahead(x)) \in Nat
  BY <1>1, FS_Subset, FS_CardinalityType
<1>3. PICK place : place = [x \in S |-> Cardinality(Ahead(x))]
  OBVIOUS
<1>4. place \in [S -> Nat]
  BY <1>2, <1>3
<1>5. F = {x \in S : place[x] < n}
  <2>1. \A x \in S : place[x] = Cardinality({y \in S : Before(s, y, x)})
    BY <1>3
  <2>2. n # Unlimited
    BY RequestAssumption
  <2> QED
    BY <2>1, <2>2 DEF FirstOf
<1>6. ASSUME NEW x \in S, NEW y \in S, Before(s, y, x)
      PROVE  place[y] < place[x]
  <2>1. Ahead(y) \in SUBSET Ahead(x) /\ y \in Ahead(x) /\ y \notin Ahead(y)
    BY <1>6, BeforeIsOrder
  <2>2. Cardinality(Ahead(y)) <= Cardinality(Ahead(x)) /\ Cardinality(Ahead(y)) # Cardinality(Ahead(x))
    BY <2>1, <1>2, FS_Subset
  <2>3. place[x] = Cardinality(Ahead(x)) /\ place[y] = Cardinality(Ahead(y))
    BY <1>3
  <2>4. place[y] <= place[x] /\ place[y] # place[x]
    BY <2>2, <2>3
  <2> QED
    BY <2>4, <1>4
<1>7. [x \in F |-> place[x]] \in Injection(F, 0..(n - 1))
  <2>1. \A x, y \in F : x # y => Before(s, x, y) \/ Before(s, y, x)
    BY <1>5, BeforeIsOrder
  <2>2. \A x, y \in F : x # y => place[x] # place[y]
    BY <2>1, <1>4, <1>5, <1>6
  <2>3. \A x \in F : place[x] \in 0..(n - 1)
    BY <1>4, <1>5
  <2> HIDE DEF F
  <2> QED
    BY <2>2, <2>3 DEF Injection, IsInjective
<1>8. IsFiniteSet(0..(n - 1)) /\ Cardinality(0..(n - 1)) = n
  BY FS_Interval
<1>9. IsFiniteSet(F) /\ Cardinality(F) <= Cardinality(0..(n - 1))
  <2> HIDE DEF F
  <2> QED
    BY <1>7, <1>8, FS_Injection
<1> QED
  BY <1>8, <1>9

\* A limited corpus has no more documents than its limit or than its queries
\* need.
LEMMA LimitKept ==
    ASSUME NEW r \in Requests, r.max_docs # Unlimited
    PROVE  Cardinality(Written(r)) <= Max({r.max_docs, Cardinality(Needed(r))})
<1> DEFINE need == Cardinality(Needed(r))
           budget == Max({0, r.max_docs - need})
<1>1. r.max_docs \in Nat /\ need \in Nat
  BY RequestAssumption, SelectionInDataset, DataFinite
<1>2. budget = (IF r.max_docs >= need THEN r.max_docs - need ELSE 0) /\ budget \in Nat
  BY <1>1, TwoMax
<1>3. Filler(r) = FirstOf(budget, Doc \ Needed(r), Docs)
  BY DEF Filler
<1>4. Cardinality(Filler(r)) <= budget /\ IsFiniteSet(Filler(r)) /\ Cardinality(Filler(r)) \in Nat
  <2>1. Docs \in Seq(Nat) /\ IsInjective(Docs) /\ Doc \ Needed(r) \in SUBSET Range(Docs)
    BY DatasetAssumption DEF Doc
  <2> HIDE DEF budget
  <2>2. Cardinality(Filler(r)) <= budget /\ IsFiniteSet(Filler(r))
    BY <1>2, <1>3, <2>1, FirstOfIsShort
  <2> QED
    BY <2>2, FS_CardinalityType
<1>5. IsFiniteSet(Needed(r))
  BY SelectionInDataset, DataFinite
<1>6. IsFiniteSet(Selected(r)) /\ Cardinality(Selected(r)) <= need + budget
  <2>1. Cardinality(Needed(r) \cap Filler(r)) \in Nat
    BY <1>5, FS_Intersection, FS_CardinalityType
  <2>2. Cardinality(Selected(r)) = need + Cardinality(Filler(r)) - Cardinality(Needed(r) \cap Filler(r))
    BY <1>4, <1>5, FS_Union DEF Selected
  <2>3. IsFiniteSet(Selected(r))
    BY <1>4, <1>5, FS_Union DEF Selected
  <2> HIDE DEF budget, need
  <2> QED
    BY <1>1, <1>2, <1>4, <2>1, <2>2, <2>3
<1>7. Cardinality(Written(r)) <= Cardinality(Selected(r))
  BY <1>6, FS_Subset DEF Written
<1>8. Cardinality(Selected(r)) \in Nat /\ Cardinality(Written(r)) \in Nat
  BY <1>6, SelectionInDataset, FS_CardinalityType
<1> QED
  BY <1>1, <1>2, <1>6, <1>7, <1>8, TwoMax

----------------------------------------------------------------------------
(* Induction, and the loop that collapses hits to documents.               *)

\* What holds of nought, and of every number after one it holds of, holds of all.
LEMMA NatInduct ==
    ASSUME NEW S, 0 \in S, \A n \in Nat : n \in S => n + 1 \in S
    PROVE  Nat \subseteq S
<1> DEFINE R == OpToRel(<, Nat)
           T == {n \in Nat : n \notin S}
<1>1. IsWellFoundedOn(R, Nat)
  BY NatLessThanWellFounded
<1>2. \A x, y \in Nat : x < y => <<x, y>> \in R
  BY DEF OpToRel
<1> SUFFICES ASSUME T # {} PROVE FALSE
  OBVIOUS
<1>3. T \subseteq Nat
  OBVIOUS
<1> HIDE DEF R, T
<1>4. PICK x \in T : \A y \in T : ~(<<y, x>> \in R)
  BY <1>1, <1>3, WFMin
<1>5. x \in Nat /\ x \notin S
  BY DEF T
<1>6. x - 1 \in Nat /\ x - 1 < x /\ (x - 1) + 1 = x
  BY <1>5
<1>7. x - 1 \notin T
  BY <1>2, <1>3, <1>4, <1>5, <1>6
<1> QED
  BY <1>5, <1>6, <1>7 DEF T

\* The same of the numbers up to a bound.
LEMMA UpToInduct ==
    ASSUME NEW N \in Nat, NEW S, 0 \in S, \A n \in 1..N : n - 1 \in S => n \in S
    PROVE  0..N \subseteq S
<1> DEFINE T == {n \in Nat : n <= N => n \in S}
<1>1. 0 \in T
  OBVIOUS
<1>2. ASSUME NEW n \in Nat, n \in T PROVE n + 1 \in T
  <2>1. CASE n + 1 <= N
    <3>1. n + 1 \in 1..N /\ (n + 1) - 1 = n /\ n \in S
      BY <1>2, <2>1
    <3> QED
      BY <3>1
  <2> QED
    BY <2>1
<1> HIDE DEF T
<1>3. Nat \subseteq T
  BY <1>1, <1>2, NatInduct
<1> QED
  BY <1>3 DEF T

\* The loop has nothing before the first hit, and after the n-th what WithHit makes
\* of what it had before.
LEMMA CollapsingStep ==
    ASSUME NEW N \in Nat, NEW hits, Len(hits) = N, NEW rules
    PROVE  /\ Collapsing(hits, rules)[0] = <<<<>>, {}>>
           /\ \A n \in 1..N : Collapsing(hits, rules)[n] = WithHit(Collapsing(hits, rules)[n - 1], hits[n], rules)
<1> DEFINE Loop(f, M) == /\ f = [n \in 0..M |-> f[n]] /\ f[0] = <<<<>>, {}>>
                         /\ \A n \in 1..M : f[n] = WithHit(f[n - 1], hits[n], rules)
           Has == {M \in Nat : \E f : Loop(f, M)}
<1>1. 0 \in Has
  <2>1. Loop([n \in 0..0 |-> <<<<>>, {}>>], 0)
    OBVIOUS
  <2> QED
    BY <2>1
<1>2. ASSUME NEW M \in Nat, M \in Has PROVE M + 1 \in Has
  <2>1. PICK f : Loop(f, M)
    BY <1>2
  <2>2. PICK last : last = WithHit(f[M], hits[M + 1], rules)
    OBVIOUS
  <2>3. PICK g : g = [n \in 0..(M + 1) |-> IF n = M + 1 THEN last ELSE f[n]]
    OBVIOUS
  <2>4. g = [n \in 0..(M + 1) |-> g[n]] /\ g[0] = <<<<>>, {}>>
    BY <2>1, <2>3
  <2>5. \A n \in 0..M : g[n] = f[n]
    BY <2>3
  <2>6. ASSUME NEW n \in 1..(M + 1) PROVE g[n] = WithHit(g[n - 1], hits[n], rules)
    <3>1. CASE n = M + 1
      <4>1. n - 1 = M /\ M \in 0..M /\ g[n] = last
        BY <3>1, <2>3
      <4> QED
        BY <3>1, <4>1, <2>2, <2>5
    <3>2. CASE n # M + 1
      <4>1. n \in 1..M /\ n - 1 \in 0..M /\ n \in 0..M
        BY <3>2
      <4> QED
        BY <4>1, <2>1, <2>5
    <3> QED
      BY <3>1, <3>2
  <2>7. Loop(g, M + 1)
    BY <2>4, <2>6
  <2>8. M + 1 \in Nat
    OBVIOUS
  <2> HIDE DEF Loop
  <2> QED
    BY <2>7, <2>8
<1> DEFINE Equation(f) == f = [n \in 0..N |-> IF n = 0 THEN <<<<>>, {}>> ELSE WithHit(f[n - 1], hits[n], rules)]
<1>3. \E f : Equation(f)
  <2> HIDE DEF Has
  <2>1. N \in Has
    BY <1>1, <1>2, NatInduct
  <2>2. PICK f : Loop(f, N)
    BY <2>1 DEF Has
  <2>3. ASSUME NEW n \in 0..N
        PROVE  f[n] = IF n = 0 THEN <<<<>>, {}>> ELSE WithHit(f[n - 1], hits[n], rules)
    <3>1. CASE n = 0
      BY <2>2, <3>1
    <3>2. CASE n # 0
      <4>1. n \in 1..N
        BY <3>2
      <4> QED
        BY <2>2, <3>2, <4>1
    <3> QED
      BY <3>1, <3>2
  <2>4. Equation(f)
    BY <2>2, <2>3, Zenon
  <2> QED
    BY <2>4
<1>4. Collapsing(hits, rules) = CHOOSE f : Equation(f)
  BY DEF Collapsing
<1>5. Equation(Collapsing(hits, rules))
  <2> HIDE DEF Equation
  <2> QED
    BY <1>3, <1>4
<1>6. PICK c : c = Collapsing(hits, rules)
  OBVIOUS
<1>7. c = [n \in 0..N |-> IF n = 0 THEN <<<<>>, {}>> ELSE WithHit(c[n - 1], hits[n], rules)]
  BY <1>5, <1>6
<1> HIDE DEF Loop, Has, Equation
<1>8. c[0] = <<<<>>, {}>>
  BY <1>7
<1>9. ASSUME NEW n \in 1..N PROVE c[n] = WithHit(c[n - 1], hits[n], rules)
  <2>1. n \in 0..N /\ n # 0
    OBVIOUS
  <2> QED
    BY <1>7, <2>1
<1> QED
  BY <1>6, <1>8, <1>9

\* The keys of the first n hits, each once, and one before another if some hit has
\* it before any has the other; and the keys of the relevant ones.
Collapses(keys, relevant, key, good, n) ==
    /\ keys \in Seq({key[i] : i \in 1..n})
    /\ \A i \in 1..n : \E j \in 1..Len(keys) : keys[j] = key[i]
    /\ \A i, j \in 1..Len(keys) :
           i < j => \E p \in 1..n : key[p] = keys[i] /\ \A q \in 1..p : key[q] # keys[j]
    /\ relevant = {key[i] : i \in 1..n \cap good}

LEMMA CollapseOne ==
    ASSUME NEW n \in Nat, n > 0, NEW key, NEW good, NEW keys, NEW relevant,
           Collapses(keys, relevant, key, good, n - 1),
           NEW all, all = (IF key[n] \in Range(keys) THEN keys ELSE Append(keys, key[n])),
           NEW rel, rel = (IF n \in good THEN relevant \cup {key[n]} ELSE relevant)
    PROVE  Collapses(all, rel, key, good, n)
<1> DEFINE Was == {key[i] : i \in 1..(n - 1)}
           Now == {key[i] : i \in 1..n}
<1>1. keys \in Seq(Was) /\ Len(keys) \in Nat /\ DOMAIN keys = 1..Len(keys)
  BY DEF Collapses
<1>2. Now = Was \cup {key[n]} /\ n - 1 \in Nat
  OBVIOUS
<1>3. \A i \in 1..(n - 1) : \E j \in 1..Len(keys) : keys[j] = key[i]
  BY DEF Collapses
<1>4. \A i, j \in 1..Len(keys) :
          i < j => \E p \in 1..(n - 1) : key[p] = keys[i] /\ \A q \in 1..p : key[q] # keys[j]
  BY DEF Collapses
<1>5. rel = {key[i] : i \in 1..n \cap good}
  <2>1. relevant = {key[i] : i \in 1..(n - 1) \cap good}
    BY DEF Collapses
  <2>2. 1..n = 1..(n - 1) \cup {n}
    OBVIOUS
  <2> QED
    BY <2>1, <2>2
<1>6. all \in Seq(Now)
  <2>1. keys \in Seq(Now)
    BY <1>1, <1>2
  <2> HIDE DEF Now
  <2>2. key[n] \in Now
    BY <1>2
  <2> QED
    BY <2>1, <2>2
<1>7. CASE key[n] \in Range(keys)
  <2>1. all = keys
    BY <1>7
  <2>2. \E j \in 1..Len(keys) : keys[j] = key[n]
    BY <1>1, <1>7 DEF Range
  <2>3. \A i \in 1..n : \E j \in 1..Len(keys) : keys[j] = key[i]
    <3> TAKE i \in 1..n
    <3>1. CASE i = n
      BY <2>2, <3>1
    <3>2. CASE i # n
      <4>1. i \in 1..(n - 1)
        BY <3>2
      <4> QED
        BY <4>1, <1>3
    <3> QED
      BY <3>1, <3>2
  <2>4. 1..(n - 1) \subseteq 1..n
    OBVIOUS
  <2>5. \A i, j \in 1..Len(keys) :
            i < j => \E p \in 1..n : key[p] = keys[i] /\ \A q \in 1..p : key[q] # keys[j]
    BY <1>4, <2>4
  <2>6. keys \in Seq({key[i] : i \in 1..n}) /\ rel = {key[i] : i \in 1..n \cap good}
    BY <1>5, <1>6, <2>1
  <2>7. Collapses(keys, rel, key, good, n)
    BY <2>3, <2>5, <2>6 DEF Collapses
  <2> QED
    BY <2>1, <2>7
<1>8. CASE key[n] \notin Range(keys)
  <2>1. PICK L \in Nat : L = Len(keys)
    BY <1>1
  <2>2. all = Append(keys, key[n])
    BY <1>8
  <2>3. Len(all) = L + 1 /\ all[L + 1] = key[n] /\ \A i \in 1..L : all[i] = keys[i]
    BY <1>1, <2>1, <2>2
  <2>4. \A i \in 1..n : \E j \in 1..(L + 1) : all[j] = key[i]
    <3> TAKE i \in 1..n
    <3>1. CASE i = n
      <4>1. L + 1 \in 1..(L + 1)
        OBVIOUS
      <4> QED
        BY <2>3, <3>1, <4>1
    <3>2. CASE i # n
      <4>1. i \in 1..(n - 1)
        BY <3>2
      <4>2. PICK j \in 1..L : keys[j] = key[i]
        BY <4>1, <1>3, <2>1
      <4>3. j \in 1..(L + 1) /\ all[j] = key[i]
        BY <2>3, <4>2
      <4> QED
        BY <4>3
    <3> QED
      BY <3>1, <3>2
  <2>5. ASSUME NEW i \in 1..(L + 1), NEW j \in 1..(L + 1), i < j
        PROVE  \E p \in 1..n : key[p] = all[i] /\ \A q \in 1..p : key[q] # all[j]
    <3>1. i \in 1..L /\ all[i] = keys[i]
      BY <2>3, <2>5
    <3>2. CASE j = L + 1
      <4>1. PICK p \in 1..(n - 1) : key[p] = keys[i]
        <5>1. keys[i] \in Was
          BY <1>1, <2>1, <3>1
        <5> QED
          BY <5>1
      <4>2. ASSUME NEW q \in 1..p PROVE key[q] # key[n]
        <5>1. q \in 1..(n - 1)
          OBVIOUS
        <5>2. PICK m \in 1..Len(keys) : keys[m] = key[q]
          BY <5>1, <1>3
        <5> QED
          BY <1>1, <1>8, <5>2 DEF Range
      <4>3. p \in 1..n
        OBVIOUS
      <4> QED
        BY <2>3, <3>1, <3>2, <4>1, <4>2, <4>3
    <3>3. CASE j # L + 1
      <4>1. j \in 1..L /\ all[j] = keys[j]
        BY <3>3, <2>3
      <4>2. PICK p \in 1..(n - 1) : key[p] = keys[i] /\ \A q \in 1..p : key[q] # keys[j]
        BY <1>4, <2>1, <2>5, <3>1, <4>1
      <4>3. p \in 1..n
        OBVIOUS
      <4> QED
        BY <3>1, <4>1, <4>2, <4>3
    <3> QED
      BY <3>2, <3>3
  <2>6. all \in Seq(Now) /\ rel = {key[i] : i \in 1..n \cap good} /\ L + 1 = Len(all)
    BY <1>5, <1>6, <2>3
  <2>7. \A i, j \in 1..Len(all) :
            i < j => \E p \in 1..n : key[p] = all[i] /\ \A q \in 1..p : key[q] # all[j]
    <3> SUFFICES ASSUME NEW i \in 1..Len(all), NEW j \in 1..Len(all), i < j
                 PROVE  \E p \in 1..n : key[p] = all[i] /\ \A q \in 1..p : key[q] # all[j]
      OBVIOUS
    <3>1. i \in 1..(L + 1) /\ j \in 1..(L + 1)
      BY <2>6
    <3> QED
      BY <2>5, <3>1
  <2> QED
    BY <2>4, <2>6, <2>7 DEF Collapses
<1> QED
  BY <1>7, <1>8

\* What the loop has after every hit.
LEMMA CollapsedHits ==
    ASSUME NEW N \in Nat, NEW hits, Len(hits) = N, NEW rules, NEW key, NEW good,
           \A i \in 1..N : key[i] = Key(hits[i].of) /\ (i \in good <=> HitIsRelevant(hits[i].of, rules))
    PROVE  Collapses(Collapsed(hits, rules)[1], Collapsed(hits, rules)[2], key, good, N)
<1>1. PICK c : c = Collapsing(hits, rules)
  OBVIOUS
<1>2. c[0] = <<<<>>, {}>> /\ \A n \in 1..N : c[n] = WithHit(c[n - 1], hits[n], rules)
  BY <1>1, CollapsingStep
<1> DEFINE S == {n \in 0..N : Collapses(c[n][1], c[n][2], key, good, n)}
<1>3. 0 \in S
  <2>1. c[0][1] = <<>> /\ c[0][2] = {} /\ 1..0 = {}
    BY <1>2
  <2>2. <<>> \in Seq({key[i] : i \in 1..0}) /\ Len(<<>>) = 0
    OBVIOUS
  <2>3. {} = {key[i] : i \in 1..0 \cap good}
    BY <2>1
  <2>4. Collapses(<<>>, {}, key, good, 0)
    BY <2>1, <2>2, <2>3 DEF Collapses
  <2>5. Collapses(c[0][1], c[0][2], key, good, 0) /\ 0 \in 0..N
    BY <2>1, <2>4
  <2> QED
    BY <2>5
<1>4. ASSUME NEW n \in 1..N, n - 1 \in S PROVE n \in S
  <2>1. Collapses(c[n - 1][1], c[n - 1][2], key, good, n - 1)
    BY <1>4
  <2>2. n \in Nat /\ n > 0 /\ key[n] = Key(hits[n].of) /\ (n \in good <=> HitIsRelevant(hits[n].of, rules))
    OBVIOUS
  <2> HIDE DEF S
  <2>6. c[n] = WithHit(c[n - 1], hits[n], rules)
    BY <1>2
  <2>3. c[n][1] = (IF key[n] \in Range(c[n - 1][1]) THEN c[n - 1][1] ELSE Append(c[n - 1][1], key[n]))
    BY <2>2, <2>6 DEF WithHit
  <2>4. c[n][2] = (IF n \in good THEN c[n - 1][2] \cup {key[n]} ELSE c[n - 1][2])
    BY <2>2, <2>6 DEF WithHit
  <2>5. Collapses(c[n][1], c[n][2], key, good, n)
    BY <2>1, <2>2, <2>3, <2>4, CollapseOne
  <2> QED
    BY <2>5 DEF S
<1>5. N \in S
  <2> HIDE DEF S
  <2> QED
    BY <1>3, <1>4, UpToInduct
<1> QED
  BY <1>1, <1>5 DEF Collapsed

----------------------------------------------------------------------------
(* Directories and what is written to them.                                *)

LEMMA DirsOfRequests ==
    /\ \A r \in Requests \cup {FixtureRequest} : DirOf(r) \in Dir
    /\ \A r \in Requests : DirOf(r) \notin DOMAIN Given
    /\ FixtureRequest \notin Requests
BY HarnessAssumption DEF Dir

\* Writing one file leaves the others.
LEMMA FilesWritten ==
    ASSUME NEW f \in DirFiles
    PROVE  /\ \A d \in Doc, state \in {Absent, Torn, Whole} :
                  /\ [f EXCEPT !.texts[d] = state] \in DirFiles
                  /\ [f EXCEPT !.texts[d] = state].texts = [f.texts EXCEPT ![d] = state]
                  /\ [f EXCEPT !.texts[d] = state].sidecars = f.sidecars
                  /\ [f EXCEPT !.texts[d] = state].qrels = f.qrels
           /\ \A ds \in SUBSET Doc :
                  /\ [f EXCEPT !.sidecars = ds] \in DirFiles
                  /\ [f EXCEPT !.sidecars = ds].texts = f.texts
                  /\ [f EXCEPT !.sidecars = ds].sidecars = ds
                  /\ [f EXCEPT !.sidecars = ds].qrels = f.qrels
           /\ \A qs \in {Absent, Torn} \cup SUBSET Qrel :
                  /\ [f EXCEPT !.qrels = qs] \in DirFiles
                  /\ [f EXCEPT !.qrels = qs].texts = f.texts
                  /\ [f EXCEPT !.qrels = qs].sidecars = f.sidecars
                  /\ [f EXCEPT !.qrels = qs].qrels = qs
BY DEF DirFiles

LEMMA ManifestWritten ==
    ASSUME NEW f \in DirFiles, NEW r \in Requests
    PROVE  /\ [f EXCEPT !.manifest = Manifest(r)] \in DirFiles
           /\ [f EXCEPT !.manifest = Torn] \in DirFiles
           /\ [f EXCEPT !.manifest = Torn].manifest = Torn
           /\ [f EXCEPT !.manifest = Manifest(r)].manifest = Manifest(r)
           /\ [f EXCEPT !.manifest = Manifest(r)].texts = f.texts
           /\ [f EXCEPT !.manifest = Manifest(r)].sidecars = f.sidecars
           /\ [f EXCEPT !.manifest = Manifest(r)].qrels = f.qrels
<1>1. Manifest(r) \in [fingerprint : [max_docs : Size, max_queries : Size], doc_count : Nat, query_count : Nat]
  BY RequestAssumption, SelectionInDataset DEF Manifest, Fingerprint, Size
<1> HIDE DEF Manifest
<1> QED
  BY <1>1 DEF DirFiles

LEMMA HereIsTyped ==
    ASSUME TypeOK
    PROVE  /\ DirOf(request) \in Dir /\ Here \in DirFiles
           /\ Txt(Here) \subseteq Doc /\ Here.sidecars \in SUBSET Doc /\ Here.texts \in [Doc -> {Absent, Torn, Whole}]
<1>1. DirOf(request) \in Dir /\ Here \in DirFiles
  BY DirsOfRequests DEF TypeOK, Here
<1> QED
  BY <1>1 DEF DirFiles, Txt

\* What Put does to the disk.
LEMMA PutHere ==
    ASSUME TypeOK, NEW f, Put(f)
    PROVE  /\ disk'[DirOf(request)] = f
           /\ \A dir \in Dir : dir # DirOf(request) => disk'[dir] = disk[dir]
           /\ f \in DirFiles => disk' \in [Dir -> DirFiles]
BY HereIsTyped DEF TypeOK, Put

\* What a process that dies leaves is a directory like any other, and the one it
\* found unless it was preparing it.
LEMMA LeftIsTyped ==
    ASSUME TypeOK, OwnerInv, NEW files \in LeftBehind
    PROVE  files \in DirFiles /\ (~Preparing => files = Here)
<1>1. Here \in DirFiles
  BY HereIsTyped
<1>2. CASE files = Here
  BY <1>1, <1>2
<1>3. CASE pc = "text" /\ \E d \in todo \ Blank : files = [Here EXCEPT !.texts[d] = Torn]
  <2>1. todo \subseteq Doc
    BY <1>3 DEF TypeOK
  <2> QED
    BY <1>1, <1>3, <2>1, FilesWritten DEF Preparing
<1>4. CASE pc = "text" /\ files = [Here EXCEPT !.qrels = Torn]
  BY <1>1, <1>4, FilesWritten DEF Preparing
<1>5. CASE pc = "manifest" /\ files = [Here EXCEPT !.manifest = Torn]
  BY <1>1, <1>5, ManifestWritten DEF Preparing, OwnerInv
<1> QED
  BY <1>2, <1>3, <1>4, <1>5 DEF LeftBehind

----------------------------------------------------------------------------
(* Types.                                                                  *)

LEMMA PoolIsNumber == Pool \in Nat
<1>1. PICK p \in Int : p = TopK * ChunkMultiplier
  BY HarnessAssumption
<1>2. Max({p, TopK}) = (IF p >= TopK THEN p ELSE TopK)
  BY HarnessAssumption, TwoMax
<1> QED
  BY <1>1, <1>2, HarnessAssumption DEF Pool

LEMMA NoRowFits == Len(NoRow.hits) <= Pool
BY PoolIsNumber DEF NoRow

Prepared == [doc_count : Nat, query_count : Nat]

LEMMA NoCorpusPrepared == NoCorpus \in Prepared
BY DEF NoCorpus, Prepared

LEMMA StartType ==
    ASSUME TypeOK, \/ Start /\ UNCHANGED <<db, taken, corpora, row>>
                   \/ StartFixtures
    PROVE  TypeOK'
BY DEF TypeOK, Start, StartFixtures

LEMMA CheckType ==
    ASSUME TypeOK, Reuse \/ ManifestUnreadable \/ Rebuild, UNCHANGED <<db, taken, corpora, row>>
    PROVE  TypeOK'
<1>1. CASE Reuse
  <2>1. Here.manifest \in [fingerprint : [max_docs : Size, max_queries : Size], doc_count : Nat, query_count : Nat]
    BY <1>1, HereIsTyped DEF DirFiles, Reuse, LooksPrepared
  <2>2. prepared' \in [doc_count : Nat, query_count : Nat]
    BY <1>1, <2>1 DEF Reuse
  <2> QED
    BY <1>1, <2>2 DEF TypeOK, Reuse
<1>2. CASE ManifestUnreadable
  BY <1>2, NoCorpusPrepared DEF TypeOK, ManifestUnreadable, Ended, Prepared
<1>3. CASE Rebuild
  BY <1>3 DEF TypeOK, Rebuild
<1> QED
  BY <1>1, <1>2, <1>3

LEMMA WriteType ==
    ASSUME TypeOK, OwnerInv, Unlink \/ Cleared \/ WriteText \/ WriteSidecar \/ WriteQrels \/ WriteManifest,
           UNCHANGED <<db, taken, corpora, row>>
    PROVE  TypeOK'
<1> USE HereIsTyped, FilesWritten
<1>1. CASE Unlink
  <2>1. disk' \in [Dir -> DirFiles]
    <3>1. CASE \E d \in Txt(Here) : Put([Here EXCEPT !.texts[d] = Absent])
      BY <3>1, PutHere
    <3>2. CASE \E d \in Here.sidecars : Put([Here EXCEPT !.sidecars = @ \ {d}])
      <4>1. PICK d \in Here.sidecars : Put([Here EXCEPT !.sidecars = Here.sidecars \ {d}])
        BY <3>2
      <4>2. Here.sidecars \ {d} \in SUBSET Doc
        OBVIOUS
      <4> QED
        BY <4>1, <4>2, PutHere
    <3> QED
      BY <1>1, <3>1, <3>2 DEF Unlink
  <2> QED
    BY <1>1, <2>1 DEF TypeOK, Unlink
<1>2. CASE Cleared
  BY <1>2, SelectionInDataset DEF TypeOK, Cleared
<1>3. CASE WriteText
  <2>1. todo \subseteq Doc
    BY <1>3 DEF TypeOK, WriteText
  <2>2. disk' \in [Dir -> DirFiles]
    BY <1>3, <2>1, PutHere DEF WriteText, TypeOK
  <2> QED
    BY <1>3, <2>1, <2>2 DEF TypeOK, WriteText
<1>4. CASE WriteSidecar
  <2>1. todo \subseteq Doc
    BY <1>4 DEF TypeOK, WriteSidecar
  <2>2. PICK d \in todo : todo' = todo \ {d} /\ Put([Here EXCEPT !.sidecars = Here.sidecars \cup {d}])
    BY <1>4 DEF WriteSidecar
  <2>3. Here.sidecars \cup {d} \in SUBSET Doc
    BY <2>1
  <2>4. disk' \in [Dir -> DirFiles]
    BY <2>2, <2>3, PutHere
  <2> QED
    BY <1>4, <2>1, <2>2, <2>4 DEF TypeOK, WriteSidecar
<1>5. CASE WriteQrels
  <2>1. Qrels(request) \in SUBSET Qrel
    BY SelectionInDataset DEF Qrel
  <2>2. disk' \in [Dir -> DirFiles]
    BY <1>5, <2>1, PutHere DEF WriteQrels
  <2> QED
    BY <1>5, <2>2 DEF TypeOK, WriteQrels
<1>6. CASE WriteManifest
  <2>1. request \in Requests
    BY <1>6 DEF OwnerInv, WriteManifest
  <2>2. disk' \in [Dir -> DirFiles]
    BY <1>6, <2>1, PutHere, ManifestWritten DEF WriteManifest
  <2>3. prepared' \in [doc_count : Nat, query_count : Nat]
    BY <1>6, SelectionInDataset DEF WriteManifest, Manifest
  <2> QED
    BY <1>6, <2>2, <2>3 DEF TypeOK, WriteManifest
<1> QED
  BY <1>1, <1>2, <1>3, <1>4, <1>5, <1>6

LEMMA IndexType ==
    ASSUME TypeOK, AcceptedInv, ListedInv, ListDocuments \/ IndexDocument \/ LoadQrels
    PROVE  TypeOK'
<1> USE HereIsTyped
<1>1. CASE ListDocuments
  BY <1>1 DEF TypeOK, ListDocuments
<1>2. CASE IndexDocument
  <2>1. PICK d \in todo :
            /\ db' = db \/ db' \subseteq db \cup {FromFile(d)}
            /\ todo' = todo \ {d}
    BY <1>2 DEF IndexDocument
  <2>2. d \in Doc /\ Here.texts[d] \in {Torn, Whole}
    BY <1>2 DEF IndexDocument, TypeOK, ListedInv, Txt
  <2>3. FromFile(d) \in [path : Dir \X Doc, text : {Torn, Whole}, external_id : Doc \cup {Nothing}]
    BY <2>2 DEF FromFile
  <2> QED
    BY <1>2, <2>1, <2>3 DEF TypeOK, IndexDocument
<1>3. CASE LoadQrels
  <2>1. CASE Here.qrels = Torn /\ Ended
    BY <1>3, <2>1, NoCorpusPrepared DEF TypeOK, LoadQrels, Ended, Prepared
  <2>2. CASE Here.qrels # Torn /\ pc' = "evaluate" /\ todo' = Here.qrels /\ UNCHANGED <<request, prepared>>
    <3>1. Here.qrels \in SUBSET Qrel
      BY <1>3, <2>2 DEF LoadQrels, AcceptedInv, DirFiles
    <3> QED
      BY <1>3, <2>2, <3>1 DEF TypeOK, LoadQrels
  <2> QED
    BY <1>3, <2>1, <2>2 DEF LoadQrels
<1> QED
  BY <1>1, <1>2, <1>3

LEMMA GradeType ==
    ASSUME TypeOK, Evaluate \/ NextQuery \/ WriteReport
    PROVE  TypeOK'
<1>1. CASE Evaluate
  <2>1. PICK hits \in Rankings : row'.hits = hits
    BY <1>1 DEF Evaluate
  <2>2. \E n \in 0..Pool : \E S : hits \in [1..n -> S]
    BY <2>1 DEF Rankings
  <2>3. Len(row'.hits) <= Pool
    BY <2>1, <2>2, PoolIsNumber
  <2> QED
    BY <1>1, <2>3 DEF TypeOK, Evaluate
<1>2. CASE NextQuery
  BY <1>2, NoRowFits DEF TypeOK, NextQuery
<1>3. CASE WriteReport
  BY <1>3, NoCorpusPrepared DEF TypeOK, WriteReport, Ended, Prepared
<1> QED
  BY <1>1, <1>2, <1>3

LEMMA DieType ==
    ASSUME TypeOK, OwnerInv, Die
    PROVE  TypeOK'
<1>1. PICK files \in LeftBehind :
          Put(files) /\ (cut' = cut \/ cut' = cut \cup {DirOf(request)})
  BY DEF Die, Crash
<1>2. disk' \in [Dir -> DirFiles]
  BY <1>1, LeftIsTyped, PutHere
<1> QED
  BY <1>1, <1>2, HereIsTyped, NoRowFits, NoCorpusPrepared DEF TypeOK, Die, Crash, Ended, Prepared

LEMMA InitType ==
    ASSUME Init
    PROVE  TypeOK
<1>1. ASSUME NEW dir \in Dir PROVE disk[dir] \in DirFiles
  <2>1. NoFiles \in DirFiles
    BY DEF NoFiles, DirFiles
  <2> QED
    BY <2>1, HarnessAssumption DEF Init, CorpusInit
<1>2. disk \in [Dir -> DirFiles]
  BY <1>1 DEF Init, CorpusInit
<1> QED
  BY <1>2, NoRowFits, NoCorpusPrepared DEF Init, CorpusInit, TypeOK, Prepared

LEMMA TypeStep ==
    ASSUME TypeOK, OwnerInv, AcceptedInv, ListedInv, [Next]_vars
    PROVE  TypeOK'
<1>1. CASE UNCHANGED vars
  BY <1>1 DEF TypeOK, vars
<1>2. CASE PrepareCorpus
  BY <1>2, CheckType, WriteType DEF PrepareCorpus, Prepare
<1> QED
  BY <1>1, <1>2, StartType, IndexType, GradeType, DieType DEF Next

----------------------------------------------------------------------------
(* Who prepares what.                                                      *)

LEMMA OwnerStep ==
    ASSUME TypeOK, OwnerInv, [Next]_vars
    PROVE  OwnerInv'
<1>1. pc' \in {"check", "clear", "text", "sidecar", "manifest"} => request' \in Requests
  <2>1. CASE UNCHANGED vars
    BY <2>1 DEF OwnerInv, vars
  <2>2. CASE PrepareCorpus
    BY <2>2 DEF OwnerInv, PrepareCorpus, Prepare, Reuse, ManifestUnreadable, Rebuild, Unlink, Cleared,
                WriteText, WriteSidecar, WriteQrels, WriteManifest, Ended
  <2>3. CASE Start \/ StartFixtures
    BY <2>3 DEF Start, StartFixtures
  <2>4. CASE ListDocuments \/ IndexDocument \/ LoadQrels \/ Evaluate \/ NextQuery \/ WriteReport \/ Die
    BY <2>4 DEF ListDocuments, IndexDocument, LoadQrels, Evaluate, NextQuery, WriteReport, Die, Crash, Ended
  <2> QED
    BY <2>1, <2>2, <2>3, <2>4 DEF Next
<1>2. disk' = disk \/ (\E f : Put(f) /\ (f = Here \/ (Preparing /\ request \in Requests)))
  <2>1. CASE UNCHANGED vars
    BY <2>1 DEF vars
  <2>2. CASE Reuse \/ ManifestUnreadable \/ Rebuild \/ Cleared
    BY <2>2 DEF Reuse, ManifestUnreadable, Rebuild, Cleared
  <2>3. CASE Unlink \/ WriteText \/ WriteSidecar \/ WriteQrels \/ WriteManifest
    BY <2>3 DEF Unlink, WriteText, WriteSidecar, WriteQrels, WriteManifest, OwnerInv, Preparing
  <2>4. CASE Die
    BY <2>4, LeftIsTyped DEF Die, Crash, OwnerInv, Preparing
  <2>5. CASE Start \/ StartFixtures \/ ListDocuments \/ IndexDocument \/ LoadQrels \/ Evaluate \/ NextQuery \/ WriteReport
    BY <2>5 DEF Start, StartFixtures, ListDocuments, IndexDocument, LoadQrels, Evaluate, NextQuery, WriteReport
  <2> QED
    BY <2>1, <2>2, <2>3, <2>4, <2>5 DEF Next, PrepareCorpus, Prepare
<1>3. ASSUME NEW dir \in DOMAIN Given PROVE disk'[dir] = Given[dir]
  <2>1. disk[dir] = Given[dir] /\ dir \in Dir
    BY DEF OwnerInv, Dir
  <2>2. CASE disk' = disk
    BY <2>1, <2>2
  <2>3. ASSUME NEW f, Put(f), f = Here \/ request \in Requests
        PROVE  disk'[dir] = Given[dir]
    <3>1. CASE dir = DirOf(request)
      BY <2>1, <2>3, <3>1, PutHere, DirsOfRequests DEF Here
    <3>2. CASE dir # DirOf(request)
      BY <2>1, <2>3, <3>2, PutHere
    <3> QED
      BY <3>1, <3>2
  <2> QED
    BY <1>2, <2>2, <2>3
<1> QED
  BY <1>1, <1>3 DEF OwnerInv

----------------------------------------------------------------------------
(* Manifests.                                                              *)

\* Nothing is written, and nothing is prepared or it goes on being so.
LEMMA ManifestQuiet ==
    ASSUME ManifestInv, disk' = disk, cut' = cut, ~Preparing \/ (Preparing' /\ request' = request)
    PROVE  ManifestInv'
BY DEF ManifestInv, Vouched

\* The directory in preparation is written to.
LEMMA ManifestElsewhere ==
    ASSUME TypeOK, ManifestInv, NEW f, Put(f), Preparing', request' = request, cut' = cut
    PROVE  ManifestInv'
<1> SUFFICES ASSUME NEW dir \in Dir \ (DOMAIN Given \cup cut),
                    disk'[dir].manifest \notin {Absent, Torn}, dir # DirOf(request)
             PROVE  Vouched(dir)'
  BY DEF ManifestInv
<1>1. disk'[dir] = disk[dir]
  BY PutHere
<1>2. Vouched(dir)
  BY <1>1 DEF ManifestInv
<1> QED
  BY <1>1, <1>2 DEF Vouched

LEMMA ManifestDone ==
    ASSUME TypeOK, OwnerInv, ManifestInv, WritingInv, WriteManifest
    PROVE  ManifestInv'
<1>1. pc = "manifest" /\ request \in Requests /\ WholeFor(Here, request)
  BY DEF WriteManifest, WritingInv, OwnerInv
<1>2. PICK f : Put(f) /\ f = [Here EXCEPT !.manifest = Manifest(request)]
  BY DEF WriteManifest
<1>3. f.manifest = Manifest(request) /\ WholeFor(f, request)
  BY <1>1, <1>2, HereIsTyped, ManifestWritten DEF WholeFor
<1>4. ASSUME NEW dir \in Dir \ (DOMAIN Given \cup cut'),
             disk'[dir].manifest \notin {Absent, Torn}
      PROVE  Vouched(dir)'
  <2>1. CASE dir = DirOf(request)
    BY <1>1, <1>2, <1>3, <2>1, PutHere DEF Vouched
  <2>2. CASE dir # DirOf(request)
    <3>1. disk'[dir] = disk[dir] /\ dir \notin cut
      BY <1>2, <2>2, PutHere DEF WriteManifest
    <3>2. Vouched(dir)
      BY <1>4, <2>2, <3>1 DEF ManifestInv
    <3> QED
      BY <3>1, <3>2 DEF Vouched
  <2> QED
    BY <2>1, <2>2
<1> QED
  BY <1>4 DEF ManifestInv

LEMMA ManifestLeft ==
    ASSUME TypeOK, OwnerInv, ManifestInv, Crash
    PROVE  ManifestInv'
<1>1. PICK files \in LeftBehind :
          /\ Put(files)
          /\ cut' = IF Preparing /\ files.manifest \notin {Absent, Torn} THEN cut \cup {DirOf(request)} ELSE cut
  BY DEF Crash
<1>2. ASSUME NEW dir \in Dir \ (DOMAIN Given \cup cut'),
             disk'[dir].manifest \notin {Absent, Torn}
      PROVE  Vouched(dir)'
  <2>1. disk'[dir] = disk[dir] /\ ~(Preparing /\ dir = DirOf(request))
    <3>1. CASE dir = DirOf(request)
      <4>1. disk'[dir] = files
        BY <1>1, <3>1, PutHere
      <4>2. ~Preparing
        BY <1>1, <1>2, <3>1, <4>1
      <4> QED
        BY <3>1, <4>1, <4>2, LeftIsTyped DEF Here
    <3>2. CASE dir # DirOf(request)
      BY <1>1, <3>2, PutHere
    <3> QED
      BY <3>1, <3>2
  <2>2. dir \notin cut
    BY <1>1
  <2>3. Vouched(dir)
    BY <1>2, <2>1, <2>2 DEF ManifestInv
  <2> QED
    BY <2>1, <2>3 DEF Vouched
<1> QED
  BY <1>2 DEF ManifestInv

LEMMA ManifestStep ==
    ASSUME TypeOK, OwnerInv, ManifestInv, WritingInv, [Next]_vars
    PROVE  ManifestInv'
<1>1. CASE UNCHANGED vars
  BY <1>1, ManifestQuiet DEF vars, Preparing
<1>2. CASE Reuse \/ ManifestUnreadable \/ Rebuild \/ Cleared
  BY <1>2, ManifestQuiet DEF Reuse, ManifestUnreadable, Rebuild, Cleared, Preparing
<1>3. CASE Unlink \/ WriteText \/ WriteSidecar \/ WriteQrels
  <2>1. (disk' = disk \/ \E f : Put(f)) /\ Preparing' /\ request' = request /\ cut' = cut
    BY <1>3 DEF Unlink, WriteText, WriteSidecar, WriteQrels, Preparing
  <2> QED
    BY <2>1, ManifestQuiet, ManifestElsewhere
<1>4. CASE Start \/ StartFixtures \/ ListDocuments \/ IndexDocument \/ LoadQrels \/ Evaluate \/ NextQuery \/ WriteReport
  BY <1>4, ManifestQuiet DEF Start, StartFixtures, ListDocuments, IndexDocument, LoadQrels, Evaluate,
                             NextQuery, WriteReport, Preparing
<1> QED
  BY <1>1, <1>2, <1>3, <1>4, ManifestDone, ManifestLeft DEF Next, PrepareCorpus, Prepare, Die

----------------------------------------------------------------------------
(* Writing the corpus.                                                     *)

LEMMA HerePut ==
    ASSUME TypeOK, NEW f, Put(f), request' = request
    PROVE  Here' = f
BY PutHere DEF Here

LEMMA WritingCleared ==
    ASSUME TypeOK, Cleared
    PROVE  WritingInv'
<1>1. Here' = Here /\ request' = request /\ pc' = "text" /\ todo' = Selected(request)
  BY DEF Cleared, Here
<1>2. Written(request) \ todo' = {}
  BY <1>1, SelectionInDataset
<1>3. Here.texts = [d \in Doc |-> Absent]
  BY HereIsTyped DEF Cleared, Txt
<1> QED
  BY <1>1, <1>2, <1>3 DEF WritingInv, TextsAre, Cleared

LEMMA WritingText ==
    ASSUME TypeOK, WritingInv, WriteText
    PROVE  WritingInv'
<1>1. PICK d \in todo :
          /\ IsNext(d)
          /\ \/ d \in Blank /\ todo' = todo \ {d} /\ UNCHANGED <<disk, pc>>
             \/ d \notin Blank /\ Put([Here EXCEPT !.texts[d] = Whole]) /\ pc' = "sidecar" /\ UNCHANGED todo
  BY DEF WriteText
<1>2. /\ pc = "text" /\ request' = request /\ todo \subseteq Selected(request)
      /\ Here.sidecars = Written(request) \ todo /\ TextsAre(Written(request) \ todo)
  BY DEF WriteText, WritingInv
<1>3. d \in Doc /\ Here \in DirFiles
  BY <1>2, HereIsTyped DEF TypeOK
<1>4. CASE d \in Blank /\ todo' = todo \ {d} /\ UNCHANGED <<disk, pc>>
  <2>1. Here' = Here /\ Written(request) \ todo' = Written(request) \ todo /\ todo' \subseteq Selected(request)
    BY <1>2, <1>4, SelectionInDataset DEF Here
  <2> QED
    BY <1>2, <1>4, <2>1 DEF WritingInv, TextsAre
<1>5. CASE d \notin Blank /\ Put([Here EXCEPT !.texts[d] = Whole]) /\ pc' = "sidecar" /\ UNCHANGED todo
  <2>1. /\ Here'.texts = [Here.texts EXCEPT ![d] = Whole]
        /\ Here'.sidecars = Here.sidecars
    <3>1. PICK f : f = [Here EXCEPT !.texts[d] = Whole] /\ Put(f)
      BY <1>5
    <3>2. Here' = f
      BY <1>2, <3>1, HerePut
    <3> QED
      BY <1>3, <3>1, <3>2, FilesWritten
  <2>2. Here'.texts = [x \in Doc |-> IF x \in (Written(request) \ todo) \cup {d} THEN Whole ELSE Absent]
    BY <1>2, <1>3, <2>1 DEF TextsAre
  <2>3. IsNext(d)'
    BY <1>1, <1>2, <1>5 DEF IsNext
  <2> QED
    BY <1>2, <1>5, <2>1, <2>2, <2>3 DEF WritingInv, TextsAre
<1> QED
  BY <1>1, <1>4, <1>5

LEMMA WritingSidecar ==
    ASSUME TypeOK, WritingInv, WriteSidecar
    PROVE  WritingInv'
<1>1. PICK e \in todo : IsNext(e) /\ todo' = todo \ {e} /\ Put([Here EXCEPT !.sidecars = Here.sidecars \cup {e}])
  BY DEF WriteSidecar
<1>2. /\ pc = "sidecar" /\ pc' = "text" /\ request' = request
      /\ todo \subseteq Selected(request) /\ Here.sidecars = Written(request) \ todo
  BY DEF WriteSidecar, WritingInv
<1>3. PICK d \in todo \ Blank : IsNext(d) /\ TextsAre((Written(request) \ todo) \cup {d})
  BY <1>2 DEF WritingInv
<1>4. todo \subseteq Doc
  BY <1>2 DEF TypeOK
<1>5. e = d
  BY <1>1, <1>3, <1>4, OneIsNext
<1>6. Written(request) \ todo' = (Written(request) \ todo) \cup {d}
  BY <1>1, <1>2, <1>3, <1>5, SelectionInDataset
<1>7. Here.sidecars \cup {e} \in SUBSET Doc
  BY <1>4, HereIsTyped
<1>8. Here'.sidecars = Here.sidecars \cup {e} /\ Here'.texts = Here.texts
  <2>1. PICK f : f = [Here EXCEPT !.sidecars = Here.sidecars \cup {e}] /\ Put(f)
    BY <1>1
  <2>2. Here' = f
    BY <1>2, <2>1, HerePut
  <2> QED
    BY <1>7, <2>1, <2>2, HereIsTyped, FilesWritten
<1> QED
  BY <1>1, <1>2, <1>3, <1>5, <1>6, <1>8 DEF WritingInv, TextsAre

LEMMA WritingQrels ==
    ASSUME TypeOK, WritingInv, WriteQrels
    PROVE  WritingInv' /\ Here'.qrels = Qrels(request)
<1>1. /\ pc = "text" /\ pc' = "manifest" /\ request' = request /\ todo = {}
      /\ Put([Here EXCEPT !.qrels = Qrels(request)])
  BY DEF WriteQrels
<1>2. Here.sidecars = Written(request) /\ Here.texts = [d \in Doc |-> IF d \in Written(request) THEN Whole ELSE Absent]
  BY <1>1 DEF WritingInv, TextsAre
<1>3. Qrels(request) \in {Absent, Torn} \cup SUBSET Qrel
  BY SelectionInDataset DEF Qrel
<1>4. Here'.qrels = Qrels(request) /\ Here'.texts = Here.texts /\ Here'.sidecars = Here.sidecars
  <2>1. PICK f : f = [Here EXCEPT !.qrels = Qrels(request)] /\ Put(f)
    BY <1>1
  <2>2. Here' = f
    BY <1>1, <2>1, HerePut
  <2> QED
    BY <1>3, <2>1, <2>2, HereIsTyped, FilesWritten
<1> QED
  BY <1>1, <1>2, <1>4 DEF WritingInv, WholeFor

LEMMA WritingStep ==
    ASSUME TypeOK, WritingInv, [Next]_vars
    PROVE  WritingInv'
<1>1. CASE UNCHANGED vars
  BY <1>1 DEF vars, WritingInv, WholeFor, TextsAre, IsNext, Here
<1>2. CASE Reuse \/ ManifestUnreadable \/ Rebuild \/ Unlink \/ WriteManifest
  BY <1>2 DEF WritingInv, Reuse, ManifestUnreadable, Rebuild, Unlink, WriteManifest, Ended
<1>3. CASE Start \/ StartFixtures \/ ListDocuments \/ IndexDocument \/ LoadQrels
  BY <1>3 DEF WritingInv, Start, StartFixtures, ListDocuments, IndexDocument, LoadQrels, Ended
<1>4. CASE Evaluate \/ NextQuery \/ WriteReport \/ Die
  BY <1>4 DEF WritingInv, Evaluate, NextQuery, WriteReport, Die, Crash, Ended
<1> QED
  BY <1>1, <1>2, <1>3, <1>4, WritingCleared, WritingText, WritingSidecar, WritingQrels
  DEF Next, PrepareCorpus, Prepare

----------------------------------------------------------------------------
(* Accepting a corpus.                                                     *)

\* A manifest that is there and has the right fingerprint stands for the right
\* corpus.
LEMMA AcceptedReuse ==
    ASSUME TypeOK, OwnerInv, ManifestInv, Reuse
    PROVE  AcceptedInv'
<1>1. /\ pc = "check" /\ pc' = "list" /\ request' = request /\ disk' = disk /\ cut' = cut /\ request \in Requests
      /\ Here.manifest \notin {Absent, Torn} /\ Here.qrels # Absent
      /\ Here.manifest.fingerprint = Fingerprint(request)
      /\ prepared' = [doc_count |-> Here.manifest.doc_count, query_count |-> Here.manifest.query_count]
  BY DEF Reuse, LooksPrepared, SameFingerprint, OwnerInv
<1>2. Here' = Here
  BY <1>1 DEF Here
<1>3. ASSUME DirOf(request) \notin cut
      PROVE  WholeFor(Here, request) /\ prepared' = SizeOf(request)
  <2>1. Vouched(DirOf(request))
    BY <1>1, <1>3, DirsOfRequests DEF ManifestInv, Preparing, Here
  <2>2. PICK r \in Requests : Here.manifest = Manifest(r) /\ WholeFor(Here, r)
    BY <2>1 DEF Vouched, Here
  <2>3. Fingerprint(r) = Fingerprint(request)
    BY <1>1, <2>2 DEF Manifest
  <2>4. Written(r) = Written(request) /\ Qrels(r) = Qrels(request)
    BY <2>3, FingerprintDecides
  <2>5. prepared' = [doc_count |-> Cardinality(Written(r)), query_count |-> Cardinality(Qrels(r))]
    BY <1>1, <2>2 DEF Manifest
  <2> QED
    BY <2>2, <2>4, <2>5 DEF WholeFor, SizeOf
<1> QED
  BY <1>1, <1>2, <1>3 DEF AcceptedInv, WholeFor, SizeOf

LEMMA AcceptedDone ==
    ASSUME TypeOK, OwnerInv, WritingInv, AcceptedInv, WriteManifest
    PROVE  AcceptedInv'
<1>1. /\ pc = "manifest" /\ pc' = "list" /\ request' = request /\ request \in Requests
      /\ Put([Here EXCEPT !.manifest = Manifest(request)])
      /\ WholeFor(Here, request) /\ Here.qrels # Absent
  BY DEF WriteManifest, OwnerInv, WritingInv, AcceptedInv
<1>2. /\ Here'.texts = Here.texts /\ Here'.sidecars = Here.sidecars /\ Here'.qrels = Here.qrels
  <2>1. PICK f : f = [Here EXCEPT !.manifest = Manifest(request)] /\ Put(f)
    BY <1>1
  <2>2. Here' = f
    BY <1>1, <2>1, HerePut
  <2> QED
    BY <1>1, <2>1, <2>2, HereIsTyped, ManifestWritten
<1>3. prepared' = SizeOf(request)
  BY DEF WriteManifest, Manifest, SizeOf
<1> QED
  BY <1>1, <1>2, <1>3 DEF AcceptedInv, WholeFor, SizeOf

LEMMA AcceptedFixtures ==
    ASSUME OwnerInv, StartFixtures
    PROVE  AcceptedInv'
<1>1. pc' = "list" /\ request' = FixtureRequest /\ disk' = disk
  BY DEF StartFixtures
<1>2. Here' = Given[DirOf(FixtureRequest)]
  BY <1>1, HarnessAssumption DEF Here, OwnerInv
<1> QED
  BY <1>1, <1>2, DirsOfRequests, HarnessAssumption DEF AcceptedInv

LEMMA AcceptedStep ==
    ASSUME TypeOK, OwnerInv, ManifestInv, WritingInv, AcceptedInv, [Next]_vars
    PROVE  AcceptedInv'
<1>1. CASE UNCHANGED vars
  BY <1>1 DEF vars, AcceptedInv, WholeFor, SizeOf, Here
<1>2. CASE ManifestUnreadable \/ Rebuild \/ Unlink \/ Cleared \/ WriteText \/ WriteSidecar
  BY <1>2 DEF AcceptedInv, ManifestUnreadable, Rebuild, Unlink, Cleared, WriteText, WriteSidecar, Ended
<1>3. CASE WriteQrels
  <2>1. Here'.qrels = Qrels(request) /\ pc' = "manifest"
    BY <1>3, WritingQrels DEF WriteQrels
  <2>2. Qrels(request) # Absent
    BY SelectionInDataset, HarnessAssumption DEF Qrel
  <2> QED
    BY <2>1, <2>2 DEF AcceptedInv
<1>4. CASE Start \/ WriteReport \/ Die
  BY <1>4 DEF AcceptedInv, Start, WriteReport, Die, Crash, Ended
<1>5. CASE ListDocuments \/ IndexDocument \/ Evaluate \/ NextQuery
  BY <1>5 DEF AcceptedInv, ListDocuments, IndexDocument, Evaluate, NextQuery, WholeFor, SizeOf, Here
<1>6. CASE LoadQrels
  BY <1>6 DEF AcceptedInv, LoadQrels, WholeFor, SizeOf, Here, Ended
<1> QED
  BY <1>1, <1>2, <1>3, <1>4, <1>5, <1>6, AcceptedReuse, AcceptedDone, AcceptedFixtures
  DEF Next, PrepareCorpus, Prepare

----------------------------------------------------------------------------
(* Indexing the corpus.                                                    *)

LEMMA ListedStep ==
    ASSUME TypeOK, ListedInv, [Next]_vars
    PROVE  ListedInv'
<1>1. CASE UNCHANGED vars
  BY <1>1 DEF vars, ListedInv, Here, Txt
<1>2. CASE PrepareCorpus
  BY <1>2 DEF ListedInv, PrepareCorpus, Prepare, Reuse, ManifestUnreadable, Rebuild, Unlink, Cleared,
              WriteText, WriteSidecar, WriteQrels, WriteManifest, Ended
<1>3. CASE Start \/ StartFixtures \/ WriteReport \/ Die
  BY <1>3 DEF ListedInv, Start, StartFixtures, WriteReport, Die, Crash, Ended
<1>4. CASE ListDocuments
  BY <1>4 DEF ListedInv, ListDocuments, Here, Txt
<1>5. CASE IndexDocument
  BY <1>5 DEF ListedInv, IndexDocument, Here, Txt
<1>6. CASE LoadQrels \/ Evaluate \/ NextQuery
  BY <1>6 DEF ListedInv, LoadQrels, Evaluate, NextQuery, Ended
<1> QED
  BY <1>1, <1>2, <1>3, <1>4, <1>5, <1>6 DEF Next

\* Whoever indexes from a directory that no run took while it was cut has the
\* corpus in front of it.
LEMMA WholeWhereUntaken ==
    ASSUME TypeOK, AcceptedInv, ListedInv, pc \in {"index", "evaluate"},
           DirOf(request) \notin DOMAIN Given \cup taken
    PROVE  request \in Requests /\ WholeFor(Here, request) /\ Txt(Here) = Written(request)
<1>1. request \in Requests
  BY HarnessAssumption DEF TypeOK
<1>2. WholeFor(Here, request)
  BY <1>1 DEF ListedInv, AcceptedInv
<1> QED
  BY <1>1, <1>2, SelectionInDataset, FileAssumption DEF WholeFor, Txt

\* What IndexDocument makes of a document.
LEMMA IndexedAsEntry ==
    ASSUME TypeOK, AcceptedInv, ListedInv, pc = "index", NEW d \in todo,
           DirOf(request) \notin DOMAIN Given \cup taken
    PROVE  FromFile(d) = Entry(DirOf(request), d) /\ d \in Written(request)
<1>1. d \in Txt(Here)
  BY DEF ListedInv
<1>2. d \in Written(request) /\ WholeFor(Here, request)
  BY <1>1, WholeWhereUntaken
<1>3. d \in Doc
  BY <1>2, SelectionInDataset
<1> QED
  BY <1>2, <1>3 DEF WholeFor, FromFile, Entry

LEMMA IndexedStep ==
    ASSUME TypeOK, AcceptedInv, ListedInv, IndexedInv, [Next]_vars
    PROVE  IndexedInv'
<1>1. CASE UNCHANGED <<db, taken, corpora>>
  BY <1>1 DEF IndexedInv
<1>2. CASE ListDocuments
  <2>1. db' = db /\ taken \subseteq taken' /\ corpora \subseteq corpora'
    BY <1>2 DEF ListDocuments
  <2> QED
    BY <2>1 DEF IndexedInv
<1>3. CASE IndexDocument
  <2>1. PICK d \in todo : db' = db \/ db' \subseteq db \cup {FromFile(d)}
    BY <1>3 DEF IndexDocument
  <2>2. pc = "index" /\ taken' = taken /\ corpora' = corpora
    BY <1>3 DEF IndexDocument
  <2>3. <<DirOf(request), Fingerprint(request)>> \in corpora
    BY <2>2 DEF ListedInv
  <2>4. ASSUME NEW e \in db', e.path[1] \notin DOMAIN Given \cup taken, e = FromFile(d)
        PROVE  /\ e.text = Whole /\ e.external_id = e.path[2]
               /\ \E r \in Requests :
                      DirOf(r) = e.path[1] /\ <<DirOf(r), Fingerprint(r)>> \in corpora /\ e.path[2] \in Written(r)
    <3>1. e.path = <<DirOf(request), d>>
      BY <2>4 DEF FromFile
    <3>2. e = Entry(DirOf(request), d) /\ d \in Written(request) /\ request \in Requests
      BY <2>2, <2>4, <3>1, IndexedAsEntry, WholeWhereUntaken
    <3> QED
      BY <2>3, <3>2 DEF Entry
  <2>5. \A e \in db' : e \in db \/ e = FromFile(d)
    BY <2>1
  <2> QED
    BY <2>2, <2>4, <2>5 DEF IndexedInv
<1> QED
  BY <1>1, <1>2, <1>3
  DEF vars, Next, Start, StartFixtures, PrepareCorpus, LoadQrels, Evaluate, NextQuery, WriteReport, Die

LEMMA DoneStep ==
    ASSUME TypeOK, AcceptedInv, ListedInv, IndexedInv, DoneInv, [Next]_vars
    PROVE  DoneInv'
<1>1. CASE UNCHANGED vars
  BY <1>1 DEF vars, DoneInv
<1>2. CASE PrepareCorpus
  BY <1>2 DEF DoneInv, PrepareCorpus, Prepare, Reuse, ManifestUnreadable, Rebuild, Unlink, Cleared,
              WriteText, WriteSidecar, WriteQrels, WriteManifest, Ended
<1>3. CASE Start \/ StartFixtures \/ WriteReport \/ Die
  BY <1>3 DEF DoneInv, Start, StartFixtures, WriteReport, Die, Crash, Ended
<1>4. CASE ListDocuments
  <2> SUFFICES ASSUME request \in Requests, DirOf(request) \notin taken'
               PROVE  Written(request) \subseteq todo'
    BY <1>4 DEF DoneInv, ListDocuments
  <2>1. pc = "list" /\ DirOf(request) \notin cut /\ todo' = Txt(Here)
    BY <1>4 DEF ListDocuments
  <2>2. WholeFor(Here, request)
    BY <2>1 DEF AcceptedInv
  <2> QED
    BY <2>1, <2>2, SelectionInDataset, FileAssumption DEF WholeFor, Txt
<1>5. CASE IndexDocument
  <2> DEFINE dir == DirOf(request)
  <2>1. /\ pc = "index" /\ pc' = "index" /\ request' = request /\ taken' = taken
    BY <1>5 DEF IndexDocument
  <2>2. PICK d \in todo :
            /\ todo' = todo \ {d}
            /\ LET file == FromFile(d)
                   old == {e \in db : e.path = file.path}
               IN  db' = IF \E e \in old : e.text = file.text THEN db ELSE (db \ old) \cup {file}
    BY <1>5 DEF IndexDocument
  <2> SUFFICES ASSUME request \in Requests, dir \notin taken, NEW w \in Written(request), w \notin todo'
               PROVE  Entry(dir, w) \in db'
    BY <2>1 DEF DoneInv
  <2>3. dir \notin DOMAIN Given
    BY HarnessAssumption
  <2>4. FromFile(d) = Entry(dir, d)
    BY <2>1, <2>3, IndexedAsEntry
  <2>5. FromFile(d).path = <<dir, d>> /\ FromFile(d).text = Whole
    BY <2>4 DEF Entry
  <2>6. CASE w = d
    <3>1. ASSUME NEW e \in db, e.path = <<dir, d>>, e.text = Whole
          PROVE  e = Entry(dir, d)
      <4>1. e \in [path : Dir \X Doc, text : {Torn, Whole}, external_id : Doc \cup {Nothing}]
        BY DEF TypeOK
      <4>2. e.path[1] = dir /\ e.path[2] = d
        BY <3>1
      <4>3. e.external_id = d
        BY <2>3, <4>2 DEF IndexedInv
      <4> QED
        BY <3>1, <4>1, <4>3 DEF Entry
    <3> QED
      BY <2>2, <2>4, <2>5, <2>6, <3>1
  <2>7. CASE w # d
    <3>1. Entry(dir, w) \in db
      BY <2>1, <2>2, <2>7 DEF DoneInv
    <3>2. Entry(dir, w).path # <<dir, d>>
      BY <2>7 DEF Entry
    <3> QED
      BY <2>2, <2>5, <3>1, <3>2
  <2> QED
    BY <2>6, <2>7
<1>6. CASE LoadQrels
  BY <1>6 DEF DoneInv, LoadQrels, Ended
<1>7. CASE Evaluate \/ NextQuery
  BY <1>7 DEF DoneInv, Evaluate, NextQuery
<1> QED
  BY <1>1, <1>2, <1>3, <1>4, <1>5, <1>6, <1>7 DEF Next

----------------------------------------------------------------------------
(* Fixtures, queries and rows.                                             *)

LEMMA FixturesStep ==
    ASSUME TypeOK, OwnerInv, FixturesInv, ListedInv, [Next]_vars
    PROVE  FixturesInv'
<1>1. CASE UNCHANGED db
  BY <1>1 DEF FixturesInv
<1>2. CASE IndexDocument
  <2>1. PICK d \in todo : db' = db \/ db' \subseteq db \cup {FromFile(d)}
    BY <1>2 DEF IndexDocument
  <2>2. pc = "index" /\ todo \subseteq Txt(Here)
    BY <1>2 DEF IndexDocument, ListedInv
  <2>3. ASSUME DirOf(request) \in DOMAIN Given
        PROVE  FromFile(d).text = Whole /\ FromFile(d).external_id = Nothing
    <3>1. Here = Given[DirOf(request)]
      BY <2>3 DEF Here, OwnerInv
    <3>2. Here.texts \in [Doc -> {Absent, Whole}] /\ Here.sidecars = {}
      BY <2>3, <3>1, GradingAssumption
    <3>3. d \in Doc /\ Here.texts[d] # Absent
      BY <2>2 DEF Txt
    <3> QED
      BY <3>2, <3>3 DEF FromFile
  <2>4. FromFile(d).path[1] = DirOf(request)
    BY DEF FromFile
  <2> QED
    BY <2>1, <2>3, <2>4 DEF FixturesInv
<1> QED
  BY <1>1, <1>2
  DEF vars, Next, Start, StartFixtures, PrepareCorpus, ListDocuments, LoadQrels, Evaluate, NextQuery, WriteReport, Die

LEMMA QrelsLabelled ==
    ASSUME NEW r
    PROVE  Qrels(r) \subseteq Labelled
BY DEF Qrels, Chosen, FirstOf, Labelled

\* The qrels of a directory stay, are torn, or become those of a request.
LEMMA QrelsWritten ==
    ASSUME TypeOK, [Next]_vars
    PROVE  \/ disk' = disk
           \/ \E f : Put(f) /\ (f.qrels \in {Here.qrels, Torn} \/ f.qrels = Qrels(request))
<1>1. CASE UNCHANGED vars
  BY <1>1 DEF vars
<1>2. CASE Reuse \/ ManifestUnreadable \/ Rebuild \/ Cleared
  BY <1>2 DEF Reuse, ManifestUnreadable, Rebuild, Cleared
<1>3. CASE Unlink
  <2>1. PICK f : /\ Put(f)
                 /\ \/ \E d \in Txt(Here) : f = [Here EXCEPT !.texts[d] = Absent]
                    \/ \E d \in Here.sidecars : f = [Here EXCEPT !.sidecars = @ \ {d}]
    BY <1>3 DEF Unlink
  <2>2. Here \in DirFiles
    BY HereIsTyped
  <2>3. \A d \in Txt(Here) : [Here EXCEPT !.texts[d] = Absent].qrels = Here.qrels
    BY <2>2 DEF DirFiles
  <2>4. \A d \in Here.sidecars : [Here EXCEPT !.sidecars = @ \ {d}].qrels = Here.qrels
    BY <2>2 DEF DirFiles
  <2>6. ASSUME NEW d \in Txt(Here), f = [Here EXCEPT !.texts[d] = Absent] PROVE f.qrels = Here.qrels
    BY <2>3, <2>6
  <2>7. ASSUME NEW d \in Here.sidecars, f = [Here EXCEPT !.sidecars = @ \ {d}] PROVE f.qrels = Here.qrels
    BY <2>4, <2>7
  <2>5. f.qrels = Here.qrels
    BY <2>1, <2>6, <2>7
  <2> QED
    BY <2>1, <2>5
<1>4. CASE WriteText \/ WriteSidecar
  <2>1. \/ disk' = disk
        \/ \E d \in todo : Put([Here EXCEPT !.texts[d] = Whole]) \/ Put([Here EXCEPT !.sidecars = @ \cup {d}])
    BY <1>4 DEF WriteText, WriteSidecar
  <2>2. ASSUME NEW d \in todo
        PROVE  [Here EXCEPT !.texts[d] = Whole].qrels = Here.qrels /\ [Here EXCEPT !.sidecars = @ \cup {d}].qrels = Here.qrels
    <3>1. Here \in DirFiles
      BY HereIsTyped
    <3> QED
      BY <3>1 DEF DirFiles
  <2> QED
    BY <2>1, <2>2
<1>5. CASE WriteQrels
  <2>1. Put([Here EXCEPT !.qrels = Qrels(request)])
    BY <1>5 DEF WriteQrels
  <2>2. [Here EXCEPT !.qrels = Qrels(request)].qrels = Qrels(request)
    BY HereIsTyped DEF DirFiles
  <2> QED
    BY <2>1, <2>2
<1>6. CASE WriteManifest
  <2>1. Put([Here EXCEPT !.manifest = Manifest(request)])
    BY <1>6 DEF WriteManifest
  <2>2. [Here EXCEPT !.manifest = Manifest(request)].qrels = Here.qrels
    BY HereIsTyped DEF DirFiles
  <2> QED
    BY <2>1, <2>2
<1>7. CASE Die
  <2>1. PICK f \in LeftBehind : Put(f)
    BY <1>7 DEF Die, Crash
  <2>2. Here \in DirFiles
    BY HereIsTyped
  <2>3. f.qrels \in {Here.qrels, Torn}
    BY <2>1, <2>2 DEF LeftBehind, DirFiles
  <2> QED
    BY <2>1, <2>3
<1>8. CASE Start \/ StartFixtures \/ ListDocuments \/ IndexDocument \/ LoadQrels \/ Evaluate \/ NextQuery \/ WriteReport
  BY <1>8 DEF Start, StartFixtures, ListDocuments, IndexDocument, LoadQrels, Evaluate, NextQuery, WriteReport
<1> QED
  BY <1>1, <1>2, <1>3, <1>4, <1>5, <1>6, <1>7, <1>8 DEF Next, PrepareCorpus, Prepare

LEMMA QueriesStep ==
    ASSUME TypeOK, OwnerInv, AcceptedInv, QueriesInv, [Next]_vars
    PROVE  QueriesInv'
<1>1. ASSUME NEW dir \in Dir \ DOMAIN Given
      PROVE  disk'[dir].qrels \in {Absent, Torn} \cup SUBSET Labelled
  <2>1. disk[dir].qrels \in {Absent, Torn} \cup SUBSET Labelled
    BY DEF QueriesInv
  <2>2. ASSUME NEW f, Put(f), f.qrels \in {Here.qrels, Torn} \/ f.qrels = Qrels(request)
        PROVE  disk'[dir].qrels \in {Absent, Torn} \cup SUBSET Labelled
    <3>1. CASE dir = DirOf(request)
      BY <2>1, <2>2, <3>1, PutHere, QrelsLabelled DEF Here
    <3>2. CASE dir # DirOf(request)
      BY <2>1, <2>2, <3>2, PutHere
    <3> QED
      BY <3>1, <3>2
  <2> QED
    BY <2>1, <2>2, QrelsWritten
<1>2. pc' = "evaluate" => todo' \subseteq IF request' # FixtureRequest THEN Labelled ELSE DOMAIN FixtureRules
  <2>1. CASE LoadQrels
    <3> SUFFICES ASSUME pc' = "evaluate"
                 PROVE  todo' \subseteq IF request' # FixtureRequest THEN Labelled ELSE DOMAIN FixtureRules
      OBVIOUS
    <3>1. Here.qrels # Torn /\ todo' = Here.qrels /\ request' = request /\ pc = "index"
      BY <2>1 DEF LoadQrels, Ended
    <3>2. Here.qrels # Absent
      BY <3>1 DEF AcceptedInv
    <3>3. CASE request = FixtureRequest
      <4>1. Here = Given[DirOf(FixtureRequest)]
        BY <3>3, HarnessAssumption DEF Here, OwnerInv
      <4> QED
        BY <3>1, <3>3, <4>1, GradingAssumption
    <3>4. CASE request # FixtureRequest
      <4>1. DirOf(request) \in Dir \ DOMAIN Given
        BY <3>4, DirsOfRequests DEF TypeOK
      <4> QED
        BY <3>1, <3>2, <3>4, <4>1 DEF QueriesInv, Here
    <3> QED
      BY <3>3, <3>4
  <2>2. CASE UNCHANGED vars
    BY <2>2 DEF vars, QueriesInv, Benchmark
  <2>3. CASE Evaluate \/ NextQuery
    BY <2>3 DEF Evaluate, NextQuery, QueriesInv, Benchmark
  <2>4. CASE PrepareCorpus
    BY <2>4 DEF PrepareCorpus, Prepare, Reuse, ManifestUnreadable, Rebuild, Unlink, Cleared,
                WriteText, WriteSidecar, WriteQrels, WriteManifest, Ended
  <2>5. CASE Start \/ StartFixtures \/ ListDocuments \/ IndexDocument \/ WriteReport \/ Die
    BY <2>5 DEF Start, StartFixtures, ListDocuments, IndexDocument, WriteReport, Die, Crash, Ended
  <2> QED
    BY <2>1, <2>2, <2>3, <2>4, <2>5 DEF Next
<1> QED
  BY <1>1, <1>2 DEF QueriesInv, Benchmark

LEMMA RowStep ==
    ASSUME RowInv, [Next]_vars
    PROVE  RowInv'
<1>1. CASE UNCHANGED vars
  <2>1. row' = row /\ pc' = pc /\ todo' = todo /\ db' = db /\ request' = request
    BY <1>1 DEF vars
  <2>2. Rankings' = Rankings
    BY <2>1 DEF Rankings, InCollection
  <2>3. Rules(row.query)' = Rules(row.query) /\ Gold(row.query)' = Gold(row.query)
    BY <2>1 DEF Rules, Gold
  <2> HIDE DEF Rankings, Rules, Gold
  <2> QED
    BY <2>1, <2>2, <2>3 DEF RowInv
<1>2. CASE Evaluate
  <2>1. PICK q \in todo, hits \in Rankings : row' = RowOf(q, Rules(q), Gold(q), hits)
    BY <1>2 DEF Evaluate, RowOf
  <2>2. row'.query = q /\ row'.hits = hits
    BY <2>1 DEF RowOf
  <2>3. pc' = "evaluate" /\ todo' = todo /\ db' = db /\ request' = request
    BY <1>2 DEF Evaluate
  <2>4. Rankings' = Rankings
    BY <2>3 DEF Rankings, InCollection
  <2>5. Rules(row.query)' = Rules(q) /\ Gold(row.query)' = Gold(q)
    BY <2>2, <2>3 DEF Rules, Gold
  <2>6. PICK r : r = row'
    OBVIOUS
  <2>7. r = RowOf(r.query, Rules(q), Gold(q), r.hits) /\ r.query \in todo /\ r.hits \in Rankings
    BY <2>1, <2>2, <2>6
  <2>8. r = RowOf(r.query, Rules(row.query)', Gold(row.query)', r.hits)
    BY <2>5, <2>7
  <2> HIDE DEF RowOf, Rankings, Rules, Gold
  <2> QED
    BY <2>3, <2>4, <2>6, <2>7, <2>8 DEF RowInv
<1>3. CASE NextQuery \/ Die
  BY <1>3 DEF RowInv, NextQuery, Die
<1>4. CASE WriteReport
  <2>1. row = NoRow /\ row' = row
    BY <1>4 DEF WriteReport, RowInv
  <2> QED
    BY <2>1 DEF RowInv
<1>5. ASSUME row' = row, pc # "evaluate" PROVE RowInv'
  <2>1. row = NoRow
    BY <1>5 DEF RowInv
  <2> QED
    BY <1>5, <2>1 DEF RowInv
<1>6. CASE PrepareCorpus
  <2>1. row' = row
    BY <1>6 DEF PrepareCorpus
  <2>2. pc # "evaluate"
    BY <1>6 DEF PrepareCorpus, Prepare, Reuse, ManifestUnreadable, Rebuild, Unlink, Cleared,
                WriteText, WriteSidecar, WriteQrels, WriteManifest
  <2> QED
    BY <1>5, <2>1, <2>2
<1>7. CASE (Start /\ UNCHANGED <<db, taken, corpora, row>>) \/ StartFixtures \/ ListDocuments \/ IndexDocument \/ LoadQrels
  <2>1. row' = row
    BY <1>7 DEF StartFixtures, ListDocuments, IndexDocument, LoadQrels
  <2>2. pc # "evaluate"
    BY <1>7 DEF Start, StartFixtures, ListDocuments, IndexDocument, LoadQrels
  <2> QED
    BY <1>5, <2>1, <2>2
<1> QED
  BY <1>1, <1>2, <1>3, <1>4, <1>6, <1>7 DEF Next

----------------------------------------------------------------------------
(* The rows of the report.                                                 *)

LEMMA NatMin ==
    ASSUME NEW S \in SUBSET Nat, S # {}
    PROVE  Min(S) \in S /\ \A x \in S : Min(S) <= x
<1> DEFINE R == OpToRel(<, Nat)
<1>1. IsWellFoundedOn(R, Nat)
  BY NatLessThanWellFounded
<1>2. \A x, y \in Nat : x < y => <<x, y>> \in R
  BY DEF OpToRel
<1> HIDE DEF R
<1>3. PICK m \in S : \A y \in S : ~(<<y, m>> \in R)
  BY <1>1, WFMin
<1>4. ASSUME NEW y \in S PROVE m <= y
  <2>1. ~(y < m)
    BY <1>2, <1>3
  <2> QED
    BY <2>1
<1> QED
  BY <1>3, <1>4 DEF Min

LEMMA TwoMin ==
    ASSUME NEW a \in Nat, NEW b \in Nat
    PROVE  Min({a, b}) = IF a <= b THEN a ELSE b
<1>1. Min({a, b}) \in {a, b} /\ \A x \in {a, b} : Min({a, b}) <= x
  BY NatMin
<1> QED
  BY <1>1

\* The documents found, the first TopK of them.
LEMMA FirstKeys ==
    ASSUME NEW all, NEW S, all \in Seq(S)
    PROVE  /\ Len(First(TopK, all)) = Min({TopK, Len(all)}) /\ Len(First(TopK, all)) \in Nat
           /\ DOMAIN First(TopK, all) = 1..Len(First(TopK, all))
           /\ Len(First(TopK, all)) <= Len(all)
           /\ \A i \in DOMAIN First(TopK, all) : i \in 1..Len(all) /\ First(TopK, all)[i] = all[i]
<1>1. PICK n \in Nat : n = Min({TopK, Len(all)}) /\ n <= Len(all)
  <2>1. TopK \in Nat /\ Len(all) \in Nat
    BY HarnessAssumption
  <2> QED
    BY <2>1, TwoMin
<1>2. First(TopK, all) = SubSeq(all, 1, n)
  BY <1>1 DEF First
<1>3. PICK sub : sub = SubSeq(all, 1, n)
  OBVIOUS
<1>4. sub \in Seq(S) /\ Len(sub) = n /\ \A i \in 1..n : sub[i] = all[i]
  <2>1. \A i \in 1..n : all[i] \in S
    BY <1>1
  <2>2. sub \in Seq(S) /\ Len(sub) = (IF 1 <= n THEN n - 1 + 1 ELSE 0)
        /\ \A i \in 1..(n - 1 + 1) : sub[i] = all[1 + i - 1]
    BY <1>3, <2>1, SubSeqProperties
  <2> QED
    BY <2>2
<1>5. DOMAIN sub = 1..n
  BY <1>4
<1>6. First(TopK, all) = sub
  BY <1>2, <1>3
<1>7. \A i \in DOMAIN sub : i \in 1..Len(all) /\ sub[i] = all[i]
  <2>1. PICK m \in Nat : m = Len(all)
    OBVIOUS
  <2>2. \A i \in 1..n : i \in 1..m
    BY <1>1, <2>1
  <2> QED
    BY <1>4, <1>5, <2>1, <2>2
<1> QED
  BY <1>1, <1>4, <1>5, <1>6, <1>7

\* Documents are ranked by their best chunks.
LEMMA RankingOfRow ==
    ASSUME NEW q, NEW rules, NEW gold, NEW N \in Nat, NEW D, NEW hits \in [1..N -> D],
           row = RowOf(q, rules, gold, hits)
    PROVE  RankedByBestChunk
<1>1. Len(hits) = N /\ DOMAIN hits = 1..N
  OBVIOUS
<1>2. PICK key : key = [i \in 1..N |-> Key(hits[i].of)]
  OBVIOUS
<1>3. PICK good : good = {i \in 1..N : HitIsRelevant(hits[i].of, rules)}
  OBVIOUS
<1>4. PICK all, rel : all = Collapsed(hits, rules)[1] /\ rel = Collapsed(hits, rules)[2]
  OBVIOUS
<1>5. Collapses(all, rel, key, good, N)
  <2>1. \A i \in 1..N : key[i] = Key(hits[i].of) /\ (i \in good <=> HitIsRelevant(hits[i].of, rules))
    BY <1>2, <1>3
  <2> QED
    BY <1>1, <1>4, <2>1, CollapsedHits
<1> DEFINE K == {key[i] : i \in 1..N}
<1>6. PICK L \in Nat : L = Len(all) /\ DOMAIN all = 1..L /\ all \in Seq(K)
  <2>1. all \in Seq(K)
    BY <1>5 DEF Collapses
  <2> HIDE DEF K
  <2> QED
    BY <2>1
<1>7. \A i \in 1..N : \E j \in 1..L : all[j] = key[i]
  BY <1>5, <1>6 DEF Collapses
<1>8. \A i, j \in 1..L : i < j => \E p \in 1..N : key[p] = all[i] /\ \A r \in 1..p : key[r] # all[j]
  BY <1>5, <1>6 DEF Collapses
<1>9. HitKeys = K
  <2>1. row.hits = hits
    BY DEF RowOf
  <2> QED
    BY <1>1, <1>2, <2>1 DEF HitKeys
<1>10. ASSUME NEW k \in K
       PROVE  Best(k) \in 1..N /\ key[Best(k)] = k /\ \A p \in 1..N : key[p] = k => Best(k) <= p
  <2>1. row.hits = hits
    BY DEF RowOf
  <2>2. Best(k) = Min({i \in 1..N : key[i] = k})
    BY <1>1, <1>2, <2>1 DEF Best
  <2>3. {i \in 1..N : key[i] = k} # {} /\ {i \in 1..N : key[i] = k} \in SUBSET Nat
    OBVIOUS
  <2> QED
    BY <2>2, <2>3, NatMin
<1>11. \A i \in 1..L : all[i] \in K
  BY <1>6
<1> HIDE DEF K
<1>12. ASSUME NEW i \in 1..L, NEW j \in 1..L, i < j
       PROVE  Best(all[i]) < Best(all[j])
  <2>1. PICK p \in 1..N : key[p] = all[i] /\ \A r \in 1..p : key[r] # all[j]
    BY <1>8, <1>12
  <2>2. Best(all[i]) \in 1..N /\ Best(all[i]) <= p
    BY <1>10, <1>11, <2>1
  <2>3. Best(all[j]) \in 1..N /\ key[Best(all[j])] = all[j]
    BY <1>10, <1>11
  <2>4. Best(all[j]) \notin 1..p
    BY <2>1, <2>3
  <2> QED
    BY <2>2, <2>3, <2>4
<1>13. Cardinality(K) = L
  <2>1. \A i, j \in 1..L : i # j => all[i] # all[j]
    <3> SUFFICES ASSUME NEW i \in 1..L, NEW j \in 1..L, i < j PROVE all[i] # all[j]
      OBVIOUS
    <3>1. Best(all[i]) \in 1..N /\ Best(all[j]) \in 1..N
      BY <1>10, <1>11
    <3> QED
      BY <1>12, <3>1
  <2>5. all \in [1..L -> K]
    BY <1>6
  <2>2. \A k \in K : \E j \in 1..L : all[j] = k
    BY <1>7 DEF K
  <2>3. all \in Bijection(1..L, K)
    BY <2>1, <2>2, <2>5 DEF Bijection, Injection, Surjection, IsInjective
  <2>4. IsFiniteSet(1..L) /\ Cardinality(1..L) = L
    BY FS_Interval
  <2>6. Cardinality(1..L) = Cardinality(K)
    BY <2>3, <2>4, FS_Bijection DEF ExistsBijection
  <2> QED
    BY <2>4, <2>6
<1>14. PICK keys : keys = First(TopK, all)
  OBVIOUS
<1>15. row.keys = keys
  BY <1>4, <1>14 DEF RowOf
<1>16. PICK M \in Nat : M = Len(keys) /\ M = Min({TopK, L}) /\ M <= L /\ DOMAIN keys = 1..M
                        /\ \A i \in 1..M : i \in 1..L /\ keys[i] = all[i]
  BY <1>6, <1>14, FirstKeys
<1>17. Range(keys) \subseteq K
  BY <1>11, <1>16 DEF Range
<1>18. \A i, j \in 1..M : i < j => Best(keys[i]) < Best(keys[j])
  BY <1>12, <1>16
<1>19. ASSUME NEW i \in 1..M, NEW k \in K \ Range(keys) PROVE Best(keys[i]) < Best(k)
  <2>1. PICK j \in 1..L : all[j] = k
    BY <1>7 DEF K
  <2>2. j \notin 1..M
    BY <1>16, <1>19, <2>1 DEF Range
  <2>3. i < j
    BY <1>16, <2>2
  <2> QED
    BY <1>12, <1>16, <2>1, <2>3
<1> QED
  BY <1>9, <1>13, <1>15, <1>16, <1>17, <1>18, <1>19 DEF RankedByBestChunk

\* A result is relevant if some hit of its document is.
SomeHitDecides(rules, hits, N) ==
    \A i \in DOMAIN row.keys :
        row.relevance[i] <=> \E j \in 1..N : Key(hits[j].of) = row.keys[i] /\ HitIsRelevant(hits[j].of, rules)

LEMMA RelevanceOfRow ==
    ASSUME NEW q, NEW rules, NEW gold, NEW N \in Nat, NEW D, NEW hits \in [1..N -> D],
           row = RowOf(q, rules, gold, hits)
    PROVE  /\ \E M \in Nat : /\ DOMAIN row.keys = 1..M /\ row.relevance \in [1..M -> BOOLEAN]
                             /\ \A i, j \in 1..M : row.keys[i] = row.keys[j] => i = j
           /\ SomeHitDecides(rules, hits, N)
<1>1. Len(hits) = N /\ DOMAIN hits = 1..N
  OBVIOUS
<1>2. PICK key : key = [i \in 1..N |-> Key(hits[i].of)]
  OBVIOUS
<1>3. PICK good : good = {i \in 1..N : HitIsRelevant(hits[i].of, rules)}
  OBVIOUS
<1>4. PICK all, rel : all = Collapsed(hits, rules)[1] /\ rel = Collapsed(hits, rules)[2]
  OBVIOUS
<1>5. Collapses(all, rel, key, good, N)
  <2>1. \A i \in 1..N : key[i] = Key(hits[i].of) /\ (i \in good <=> HitIsRelevant(hits[i].of, rules))
    BY <1>2, <1>3
  <2> QED
    BY <1>1, <1>4, <2>1, CollapsedHits
<1>6. PICK keys : keys = First(TopK, all)
  OBVIOUS
<1>7. row.keys = keys /\ row.relevance = [i \in DOMAIN keys |-> keys[i] \in rel]
  BY <1>4, <1>6 DEF RowOf
<1> DEFINE K == {key[i] : i \in 1..N}
<1>8. PICK L \in Nat : L = Len(all) /\ all \in Seq(K)
  <2>1. all \in Seq(K)
    BY <1>5 DEF Collapses
  <2> HIDE DEF K
  <2> QED
    BY <2>1
<1>9. PICK M \in Nat : DOMAIN keys = 1..M /\ \A i \in 1..M : i \in 1..L /\ keys[i] = all[i]
  BY <1>6, <1>8, FirstKeys
<1>10. ASSUME NEW i \in 1..M, NEW j \in 1..M, i < j PROVE keys[i] # keys[j]
  <2>1. i \in 1..L /\ j \in 1..L
    BY <1>9
  <2>2. PICK p \in 1..N : key[p] = all[i] /\ \A r \in 1..p : key[r] # all[j]
    BY <1>5, <1>8, <1>10, <2>1 DEF Collapses
  <2>3. p \in 1..p
    OBVIOUS
  <2> QED
    BY <1>9, <2>2, <2>3
<1>11. \A i, j \in 1..M : keys[i] = keys[j] => i = j
  BY <1>10
<1>12. rel = {key[j] : j \in 1..N \cap good}
  BY <1>5 DEF Collapses
<1>13. ASSUME NEW i \in 1..M
       PROVE  row.relevance[i] <=> \E j \in 1..N : Key(hits[j].of) = keys[i] /\ HitIsRelevant(hits[j].of, rules)
  <2>1. row.relevance[i] <=> keys[i] \in rel
    BY <1>7, <1>9, Zenon
  <2> QED
    BY <1>2, <1>3, <1>12, <2>1
<1>14. row.relevance \in [1..M -> BOOLEAN]
  BY <1>7, <1>9
<1>15. SomeHitDecides(rules, hits, N)
  BY <1>7, <1>9, <1>13 DEF SomeHitDecides
<1> QED
  BY <1>7, <1>9, <1>11, <1>14, <1>15

\* Hits of one document are relevant together, if and only if the query is about
\* it.
LEMMA DocumentDecides ==
    ASSUME IInv, pc = "evaluate", NEW q \in todo, NEW e \in InCollection, NEW f \in InCollection,
           Key(e) = Key(f), e.path[1] \notin taken
    PROVE  HitIsRelevant(f, Rules(q)) <=> About(q, e.path)
<1>1. /\ e \in [path : Dir \X Doc, text : {Torn, Whole}, external_id : Doc \cup {Nothing}]
      /\ f \in [path : Dir \X Doc, text : {Torn, Whole}, external_id : Doc \cup {Nothing}]
      /\ e \in db /\ f \in db
  BY DEF IInv, TypeOK, InCollection
<1>2. CASE Benchmark
  <2>1. e.path[1] \notin DOMAIN Given
    BY <1>2 DEF Benchmark, InCollection
  <2>2. e.external_id = e.path[2] /\ e.path[2] \in Doc
    BY <1>1, <2>1 DEF IInv, IndexedInv
  <2>3. Key(e) = <<e.path[2]>>
    BY <2>2, GradingAssumption DEF Key
  <2>4. f.external_id = e.path[2]
    <3>1. CASE f.external_id # Nothing
      <4>1. Key(f) = <<f.external_id>>
        BY <3>1 DEF Key
      <4>2. <<f.external_id>> = <<e.path[2]>>
        BY <2>3, <4>1
      <4> QED
        BY <4>2
    <3>2. CASE f.external_id = Nothing
      <4>1. PICK x, y : f.path = <<x, y>>
        BY <1>1
      <4>2. <<x, y>> = <<e.path[2]>>
        BY <2>3, <3>2, <4>1 DEF Key
      <4>3. Len(<<x, y>>) = 2 /\ Len(<<e.path[2]>>) = 1
        OBVIOUS
      <4> QED
        BY <4>2, <4>3
    <3> QED
      BY <3>1, <3>2
  <2>5. Rules(q) = {[external_id |-> d, source |-> Nothing, text |-> Nothing] : d \in Judged[q]}
    BY <1>2 DEF Rules, Benchmark
  <2>6. q \in Query /\ Judged[q] \in SUBSET Doc
    BY <1>2, DatasetAssumption DEF IInv, QueriesInv, Labelled
  <2> DEFINE Holds(rule) ==
                IF rule.external_id # Nothing THEN rule.external_id = f.external_id
                ELSE /\ rule.source # Nothing => f.path \in rule.source
                     /\ rule.text # Nothing => rule.text \in DocumentText(f)
             Judgement(d) == [external_id |-> d, source |-> Nothing, text |-> Nothing]
  <2>7. HitIsRelevant(f, Rules(q)) <=> \E rule \in Rules(q) : Holds(rule)
    BY DEF HitIsRelevant
  <2>8. \A d \in Judged[q] : Holds(Judgement(d)) <=> d = f.external_id
    BY <2>6, GradingAssumption
  <2>9. Rules(q) = {Judgement(d) : d \in Judged[q]}
    BY <2>5
  <2> HIDE DEF Holds, Judgement
  <2>10. HitIsRelevant(f, Rules(q)) <=> \E d \in Judged[q] : d = f.external_id
    BY <2>7, <2>8, <2>9
  <2> QED
    BY <1>2, <2>4, <2>10 DEF About
<1>3. CASE ~Benchmark
  <2>1. e.path[1] \in DOMAIN Given /\ f.path[1] \in DOMAIN Given
    BY <1>3 DEF Benchmark, InCollection
  <2>2. e.external_id = Nothing /\ f.external_id = Nothing /\ f.text = Whole
    BY <1>1, <2>1 DEF IInv, FixturesInv
  <2>3. e.path = f.path
    BY <2>2 DEF Key
  <2>4. q \in DOMAIN FixtureRules /\ Rules(q) = FixtureRules[q]
    BY <1>3 DEF IInv, QueriesInv, Rules, Benchmark
  <2>5. \A rule \in Rules(q) : rule.external_id = Nothing
    BY <2>4, GradingAssumption
  <2>6. DocumentText(f) = UNION Range(Words[e.path[2]])
    <3>1. ChunksOf(f) = DOMAIN Words[e.path[2]]
      BY <2>2, <2>3, FileAssumption DEF ChunksOf
    <3> QED
      BY <2>3, <3>1 DEF DocumentText, Range
  <2>7. HitIsRelevant(f, Rules(q)) <=>
            \E rule \in Rules(q) : /\ rule.source # Nothing => f.path \in rule.source
                                   /\ rule.text # Nothing => rule.text \in DocumentText(f)
    BY <2>5 DEF HitIsRelevant
  <2> QED
    BY <1>3, <2>3, <2>4, <2>6, <2>7 DEF About
<1> QED
  BY <1>2, <1>3

\* The scores evaluate_ranking gives agree.
Agree(g, gold, found) ==
    /\ g.recall[1] <= g.recall[2]
    /\ g.hit <=> g.recall[1] > 0
    /\ g.hit <=> g.rank > 0
    /\ gold > 0 => (g.hit <=> found # {}) /\ (found # {} => g.rank = Min(found))
    /\ gold = 0 => (g.hit <=> found = {})
    /\ gold > 0 /\ Cardinality(found) <= gold => g.recall = <<Cardinality(found), gold>>

LEMMA GradesAgree ==
    ASSUME NEW M \in Nat, NEW relevance \in [1..M -> BOOLEAN], NEW gold \in Nat,
           NEW found, found = {i \in 1..M : relevance[i]}, NEW g, g = Graded(relevance, gold)
    PROVE  Agree(g, gold, found)
<1>1. found = {i \in DOMAIN relevance : relevance[i]} /\ found \in SUBSET Nat
  OBVIOUS
<1>2. IsFiniteSet(found) /\ Cardinality(found) \in Nat /\ (Cardinality(found) = 0 <=> found = {})
  <2>1. IsFiniteSet(1..M)
    BY FS_Interval
  <2>2. IsFiniteSet(found)
    BY <2>1, FS_Subset
  <2> QED
    BY <2>2, FS_CardinalityType, FS_EmptySet
<1>3. PICK c \in Nat : c = Cardinality(found) /\ (c = 0 <=> found = {})
  BY <1>2
<1>4. PICK rank : rank = FirstRank(relevance)
  OBVIOUS
<1>5. IF found = {} THEN rank = 0 ELSE rank = Min(found) /\ rank \in Nat /\ rank # 0
  <2>1. found # {} => Min(found) \in found
    BY <1>1, NatMin
  <2>2. rank = IF found = {} THEN 0 ELSE Min(found)
    BY <1>1, <1>4 DEF FirstRank
  <2>3. \A i \in found : i \in Nat /\ i # 0
    OBVIOUS
  <2> QED
    BY <2>1, <2>2, <2>3
<1>6. CASE gold = 0
  <2>1. /\ g.hit = (c = 0) /\ g.recall = <<IF c = 0 THEN 1 ELSE 0, 1>> /\ g.rank = (IF c = 0 THEN 1 ELSE 0)
    BY <1>1, <1>3, <1>6 DEF Graded
  <2>2. g.hit <=> c = 0
    BY <2>1, Zenon
  <2>3. g.recall[1] = (IF c = 0 THEN 1 ELSE 0) /\ g.recall[2] = 1
    BY <2>1
  <2>4. g.recall[1] <= g.recall[2] /\ (g.recall[1] > 0 <=> c = 0) /\ (g.rank > 0 <=> c = 0)
    BY <2>1, <2>3
  <2>5. ~(gold > 0)
    BY <1>6
  <2> QED
    BY <1>2, <1>3, <1>6, <2>2, <2>4, <2>5, Zenon DEF Agree
<1>7. CASE gold # 0
  <2>1. /\ g.hit = (rank # 0) /\ g.recall = <<Min({c, gold}), gold>> /\ g.rank = rank
    BY <1>1, <1>3, <1>4, <1>7 DEF Graded
  <2>2. Min({c, gold}) = IF c <= gold THEN c ELSE gold
    BY <1>3, TwoMin
  <2>3. g.hit <=> rank # 0
    BY <2>1, Zenon
  <2>4. rank # 0 <=> found # {}
    BY <1>5
  <2>5. g.recall[1] = (IF c <= gold THEN c ELSE gold) /\ g.recall[2] = gold
    BY <2>1, <2>2
  <2>6. g.recall[1] <= g.recall[2] /\ (g.recall[1] > 0 <=> c # 0)
    BY <1>7, <2>5
  <2>7. g.rank > 0 <=> rank # 0
    BY <1>5, <2>1
  <2>8. found # {} => g.rank = Min(found)
    BY <1>5, <2>1
  <2>9. c <= gold => g.recall = <<c, gold>>
    BY <2>1, <2>2
  <2> QED
    BY <1>2, <1>3, <1>7, <2>3, <2>4, <2>6, <2>7, <2>8, <2>9, Zenon DEF Agree
<1> QED
  BY <1>6, <1>7

\* What a query has to find is counted.
LEMMA GoldIsCount ==
    ASSUME IInv, pc = "evaluate", NEW q \in todo
    PROVE  /\ Gold(q) \in Nat
           /\ Benchmark => Gold(q) = Cardinality(Judged[q]) /\ Gold(q) > 0 /\ IsFiniteSet(Judged[q])
<1>1. CASE Benchmark
  <2>1. q \in Query /\ Judged[q] # {} /\ Judged[q] \in SUBSET Doc
    BY <1>1, DatasetAssumption DEF IInv, QueriesInv, Labelled
  <2>2. IsFiniteSet(Judged[q]) /\ Cardinality(Judged[q]) \in Nat /\ Cardinality(Judged[q]) # 0
    BY <2>1, DataFinite, FS_EmptySet
  <2> DEFINE Judgement(d) == [external_id |-> d, source |-> Nothing, text |-> Nothing]
  <2>3. Rules(q) = {Judgement(d) : d \in Judged[q]}
    BY <1>1 DEF Rules, Benchmark
  <2>4. [d \in Judged[q] |-> Judgement(d)] \in Bijection(Judged[q], Rules(q))
    <3>1. \A d, e \in Judged[q] : Judgement(d) = Judgement(e) => d = e
      <4> TAKE d, e \in Judged[q]
      <4>1. Judgement(d).external_id = d /\ Judgement(e).external_id = e
        OBVIOUS
      <4> HIDE DEF Judgement
      <4> QED
        BY <4>1
    <3> HIDE DEF Judgement
    <3> QED
      BY <2>3, <3>1 DEF Bijection, Injection, Surjection, IsInjective
  <2>5. Cardinality(Rules(q)) = Cardinality(Judged[q])
    BY <2>2, <2>4, FS_Bijection DEF ExistsBijection
  <2>6. q \notin ExpectEmpty
    BY <2>1, GradingAssumption
  <2>7. Gold(q) = Max({1, Cardinality(Judged[q])})
    BY <2>5, <2>6 DEF Gold
  <2> QED
    BY <2>2, <2>7, TwoMax
<1>2. CASE ~Benchmark
  <2>1. q \in DOMAIN FixtureRules /\ Rules(q) = FixtureRules[q]
    BY <1>2 DEF IInv, QueriesInv, Rules, Benchmark
  <2>2. Cardinality(Rules(q)) \in Nat
    BY <2>1, GradingAssumption, FS_CardinalityType
  <2>3. Max({1, Cardinality(Rules(q))}) \in Nat
    BY <2>2, TwoMax
  <2> QED
    BY <1>2, <2>3 DEF Gold
<1> QED
  BY <1>1, <1>2

\* A row is of a query still in grading, and of hits in the collection.
LEMMA RowIsOfHits ==
    ASSUME IInv, Grading
    PROVE  /\ row.query \in todo /\ row = RowOf(row.query, Rules(row.query), Gold(row.query), row.hits)
           /\ \E N \in Nat : \E D : row.hits \in [1..N -> D] /\ \A i \in 1..N : row.hits[i].of \in InCollection
<1>1. /\ row.query \in todo /\ row.hits \in Rankings
      /\ row = RowOf(row.query, Rules(row.query), Gold(row.query), row.hits)
  BY DEF IInv, RowInv, Grading
<1> DEFINE chunks == UNION {{[of |-> e, chunk |-> c] : c \in ChunksOf(e)} : e \in InCollection}
<1>2. PICK n \in 0..Pool : row.hits \in [1..n -> chunks]
  BY <1>1 DEF Rankings
<1>3. \A c \in chunks : c.of \in InCollection
  OBVIOUS
<1>4. n \in Nat
  BY PoolIsNumber
<1> HIDE DEF chunks
<1>5. \A i \in 1..n : row.hits[i].of \in InCollection
  BY <1>2, <1>3
<1> QED
  BY <1>1, <1>2, <1>4, <1>5

\* Of a benchmark's query no more documents are found than are judged.
LEMMA FoundAreJudged ==
    ASSUME IInv, Grading, Benchmark
    PROVE  Cardinality({i \in DOMAIN row.keys : row.relevance[i]}) <= Cardinality(Judged[row.query])
<1> DEFINE q == row.query
           found == {i \in DOMAIN row.keys : row.relevance[i]}
<1>1. q \in todo /\ row = RowOf(q, Rules(q), Gold(q), row.hits)
  BY RowIsOfHits
<1>2. PICK N \in Nat : \E D : row.hits \in [1..N -> D] /\ \A i \in 1..N : row.hits[i].of \in InCollection
  BY RowIsOfHits
<1>10. PICK D : row.hits \in [1..N -> D]
  BY <1>2
<1>11. \A i \in DOMAIN row.keys :
           row.relevance[i] <=>
               \E j \in 1..N : Key(row.hits[j].of) = row.keys[i] /\ HitIsRelevant(row.hits[j].of, Rules(q))
  <2> HIDE DEF q
  <2>1. PICK rules, gold, hits : rules = Rules(q) /\ gold = Gold(q) /\ hits = row.hits
    OBVIOUS
  <2>2. row = RowOf(q, rules, gold, hits) /\ hits \in [1..N -> D]
    BY <1>1, <1>10, <2>1
  <2>3. SomeHitDecides(rules, hits, N)
    BY <2>2, RelevanceOfRow
  <2> QED
    BY <2>1, <2>3 DEF SomeHitDecides
<1>3. PICK M \in Nat : DOMAIN row.keys = 1..M /\ \A i, j \in 1..M : row.keys[i] = row.keys[j] => i = j
  BY <1>1, <1>10, RelevanceOfRow
<1>4. q \in Query /\ Judged[q] \in SUBSET Doc /\ IsFiniteSet(Judged[q])
  BY <1>1, DatasetAssumption, GoldIsCount DEF IInv, QueriesInv, Labelled, Grading
<1>5. ASSUME NEW i \in found PROVE \E d \in Judged[q] : row.keys[i] = <<d>>
  <2>1. PICK j \in 1..N : Key(row.hits[j].of) = row.keys[i] /\ HitIsRelevant(row.hits[j].of, Rules(q))
    BY <1>11
  <2>2. Rules(q) = {[external_id |-> d, source |-> Nothing, text |-> Nothing] : d \in Judged[q]}
    BY DEF Rules, Benchmark
  <2>3. PICK d \in Judged[q] :
            IF d # Nothing THEN d = row.hits[j].of.external_id
            ELSE /\ Nothing # Nothing => row.hits[j].of.path \in Nothing
                 /\ Nothing # Nothing => Nothing \in DocumentText(row.hits[j].of)
    BY <2>1, <2>2 DEF HitIsRelevant
  <2>4. d # Nothing /\ row.hits[j].of.external_id = d
    BY <1>4, <2>3, GradingAssumption
  <2>5. Key(row.hits[j].of) = <<d>>
    BY <2>4 DEF Key
  <2> QED
    BY <2>1, <2>5
<1>6. PICK f : f = [i \in found |-> CHOOSE d \in Judged[q] : row.keys[i] = <<d>>]
  OBVIOUS
<1>7. \A i \in found : f[i] \in Judged[q] /\ row.keys[i] = <<f[i]>>
  <2> HIDE DEF found
  <2> QED
    BY <1>5, <1>6
<1>8. f \in Injection(found, Judged[q])
  <2>1. ASSUME NEW i \in found, NEW j \in found, f[i] = f[j] PROVE i = j
    <3>1. row.keys[i] = row.keys[j]
      BY <1>7, <2>1
    <3>2. i \in 1..M /\ j \in 1..M
      BY <1>3
    <3> QED
      BY <1>3, <3>1, <3>2
  <2> HIDE DEF found
  <2> QED
    BY <1>6, <1>7, <2>1 DEF Injection, IsInjective
<1> HIDE DEF found
<1>9. Cardinality(found) <= Cardinality(Judged[q])
  BY <1>4, <1>8, FS_Injection
<1> QED
  BY <1>9 DEF found

----------------------------------------------------------------------------
(* The theorems.                                                           *)

LEMMA InitInv == Init => IInv
<1> SUFFICES ASSUME Init PROVE IInv
  OBVIOUS
<1>1. TypeOK
  BY InitType
<1>2. pc = "idle" /\ db = {} /\ \A dir \in DOMAIN Given : disk[dir] = Given[dir]
  BY DEF Init, CorpusInit, Dir
<1>3. \A dir \in Dir \ DOMAIN Given : disk[dir].manifest = Absent
  BY DEF Init, CorpusInit, NoFiles
<1>4. row = NoRow /\ \A dir \in Dir \ DOMAIN Given : disk[dir].qrels = Absent
  BY DEF Init, CorpusInit, NoFiles
<1> QED
  BY <1>1, <1>2, <1>3, <1>4
  DEF IInv, OwnerInv, ManifestInv, WritingInv, AcceptedInv, ListedInv, IndexedInv, DoneInv,
      FixturesInv, QueriesInv, RowInv

LEMMA StepInv == IInv /\ [Next]_vars => IInv'
BY TypeStep, OwnerStep, ManifestStep, WritingStep, AcceptedStep, ListedStep, IndexedStep, DoneStep,
   FixturesStep, QueriesStep, RowStep
DEF IInv

\* The inductive invariant of preparing, indexing and dying.
THEOREM Invariant == Spec => []IInv
BY InitInv, StepInv, PTL DEF Spec

\* Every variable has its type; in particular no document is indexed that is not
\* in the directory (runner.py:481).
THEOREM TypeCorrect == Spec => []TypeOK
<1>1. IInv => TypeOK
  BY DEF IInv
<1> QED
  BY <1>1, Invariant, PTL

LEMMA AcceptedIsWhole ==
    ASSUME IInv, Accepted, DirOf(request) \notin cut
    PROVE  /\ request \in Requests /\ WholeFor(Here, request) /\ prepared = SizeOf(request)
           /\ Txt(Here) = Written(request)
<1>1. request \in Requests
  BY HarnessAssumption DEF IInv, TypeOK, Accepted
<1>2. WholeFor(Here, request) /\ prepared = SizeOf(request)
  BY <1>1 DEF IInv, AcceptedInv, Accepted
<1> QED
  BY <1>1, <1>2, SelectionInDataset, FileAssumption DEF WholeFor, Txt

\* Whatever write an earlier run died at, a run over a directory that is not cut
\* has the corpus it asked for, with every query labelled and no more documents
\* than allowed (datasets.py:95-113, 125-211).
THEOREM CorpusIsSound == Spec => []CorpusSound
<1>1. IInv => AcceptedWhole
  <2> SUFFICES ASSUME IInv, Accepted, DirOf(request) \notin cut
               PROVE  /\ \A d \in Doc : Here.texts[d] = IF d \in Written(request) THEN Whole ELSE Absent
                      /\ Here.sidecars = Written(request)
                      /\ Here.qrels = Qrels(request)
                      /\ prepared = [doc_count |-> Cardinality(Written(request)),
                                     query_count |-> Cardinality(Qrels(request))]
    BY DEF AcceptedWhole
  <2> QED
    BY AcceptedIsWhole DEF WholeFor, SizeOf
<1>2. IInv => SubsetsStayLabelled
  <2> SUFFICES ASSUME IInv, Accepted, DirOf(request) \notin cut
               PROVE  /\ \A q \in Here.qrels : Judged[q] \cap Txt(Here) # {}
                      /\ Needed(request) \ Txt(Here) \subseteq Blank
                      /\ request.max_docs # Unlimited =>
                             Cardinality(Txt(Here)) <= Max({request.max_docs, Cardinality(Needed(request))})
    BY DEF SubsetsStayLabelled
  <2>1. Txt(Here) = Written(request) /\ Here.qrels = Qrels(request) /\ request \in Requests
    BY AcceptedIsWhole DEF WholeFor
  <2>2. \A q \in Here.qrels : Judged[q] \cap Txt(Here) # {}
    BY <2>1 DEF Qrels
  <2>3. Needed(request) \ Txt(Here) \subseteq Blank
    BY <2>1 DEF Written, Selected
  <2> QED
    BY <2>1, <2>2, <2>3, LimitKept
<1> QED
  BY <1>1, <1>2, Invariant, PTL DEF CorpusSound

\* Unless a run took a cut directory, the index a query is put to has every
\* document of the corpus with its id, and nothing else unless other corpora were
\* put into the database (runner.py:160-173, 481-482).
THEOREM IndexHoldsCorpus == Spec => []IndexIsCorpus
<1>1. IInv => IndexKnowsCorpus
  <2> SUFFICES ASSUME IInv, pc = "evaluate", Benchmark, DirOf(request) \notin taken, NEW d \in Written(request)
               PROVE  [path |-> <<DirOf(request), d>>, text |-> Whole, external_id |-> d] \in db
    BY DEF IndexKnowsCorpus
  <2>1. request \in Requests
    BY DEF IInv, TypeOK, Benchmark
  <2> QED
    BY <2>1 DEF IInv, DoneInv, Entry
<1>2. IInv => NothingElseIndexed
  <2> SUFFICES ASSUME IInv, pc = "evaluate", Benchmark, taken = {},
                      \A c \in corpora : c[1] \in DOMAIN Given \/ c = <<DirOf(request), Fingerprint(request)>>,
                      NEW e \in InCollection
               PROVE  e.path \in {DirOf(request)} \X Written(request)
    BY DEF NothingElseIndexed
  <2>1. e \in db /\ e.path[1] \notin DOMAIN Given
    BY DEF InCollection, Benchmark
  <2>2. PICK r \in Requests :
            DirOf(r) = e.path[1] /\ <<DirOf(r), Fingerprint(r)>> \in corpora /\ e.path[2] \in Written(r)
    BY <2>1 DEF IInv, IndexedInv
  <2>3. DirOf(r) = DirOf(request) /\ Fingerprint(r) = Fingerprint(request)
    BY <2>1, <2>2
  <2>4. Written(r) = Written(request)
    BY <2>3, FingerprintDecides
  <2>5. e.path \in Dir \X Doc
    BY <2>1 DEF IInv, TypeOK
  <2> QED
    BY <2>2, <2>3, <2>4, <2>5
<1> QED
  BY <1>1, <1>2, Invariant, PTL DEF IndexIsCorpus

\* Documents found are ranked by their best chunks, counted once, and graded
\* relevant if and only if the query is about them; the scores agree with each
\* other, and a query's recall is of what is judged (runner.py:184-225, metrics.py
\* :116-150).
THEOREM DocumentsAreGraded == Spec => []GradesDocuments
<1>1. ASSUME IInv, Grading
      PROVE  RankedByBestChunk /\ RelevanceIsOfDocuments /\ ScoresAgree
  <2>1. PICK q, rules, gold, hits :
            /\ q = row.query /\ rules = Rules(q) /\ gold = Gold(q) /\ hits = row.hits
            /\ row = RowOf(q, rules, gold, hits) /\ q \in todo /\ pc = "evaluate"
    BY <1>1, RowIsOfHits DEF Grading
  <2>2. PICK N \in Nat : \E D : hits \in [1..N -> D] /\ \A i \in 1..N : hits[i].of \in InCollection
    BY <1>1, <2>1, RowIsOfHits
  <2>3. PICK D : hits \in [1..N -> D]
    BY <2>2
  <2>4. RankedByBestChunk
    BY <2>1, <2>3, RankingOfRow
  <2>9. SomeHitDecides(rules, hits, N)
    BY <2>1, <2>3, RelevanceOfRow
  <2>5. \A i \in DOMAIN row.keys :
            row.relevance[i] <=> \E j \in 1..N : Key(hits[j].of) = row.keys[i] /\ HitIsRelevant(hits[j].of, rules)
    BY <2>9 DEF SomeHitDecides
  <2>6. PICK M \in Nat : DOMAIN row.keys = 1..M /\ row.relevance \in [1..M -> BOOLEAN]
    BY <2>1, <2>3, RelevanceOfRow
  <2>7. RelevanceIsOfDocuments
    <3> SUFFICES ASSUME NEW i \in DOMAIN row.keys, NEW h \in Range(row.hits),
                        Key(h.of) = row.keys[i], h.of.path[1] \notin taken
                 PROVE  row.relevance[i] <=> About(row.query, h.of.path)
      BY DEF RelevanceIsOfDocuments
    <3>1. PICK n \in 1..N : h = hits[n]
      BY <2>1, <2>3 DEF Range
    <3>2. h.of \in InCollection
      BY <2>2, <3>1
    <3>3. \A j \in 1..N : Key(hits[j].of) = row.keys[i] =>
              (HitIsRelevant(hits[j].of, rules) <=> About(q, h.of.path))
      BY <1>1, <2>1, <2>2, <3>2, DocumentDecides
    <3> QED
      BY <2>1, <2>5, <3>1, <3>3
  <2>8. ScoresAgree
    <3> DEFINE found == {i \in DOMAIN row.keys : row.relevance[i]}
               g == Graded(row.relevance, gold)
    <3>1. /\ gold \in Nat
          /\ Benchmark => gold = Cardinality(Judged[row.query]) /\ gold > 0
      BY <1>1, <2>1, GoldIsCount
    <3>2. row.gold = gold /\ row.hit = g.hit /\ row.recall = g.recall /\ row.rank = g.rank
      BY <2>1 DEF RowOf
    <3>3. found = {i \in 1..M : row.relevance[i]}
      BY <2>6
    <3>4. Benchmark => Cardinality(found) <= gold
      BY <1>1, <3>1, FoundAreJudged
    <3> HIDE DEF found, g
    <3>5. g = Graded(row.relevance, gold)
      BY DEF g
    <3>6. Agree(g, gold, found)
      BY <2>6, <3>1, <3>3, <3>5, GradesAgree
    <3>7. /\ row.recall[1] <= row.recall[2]
          /\ row.hit <=> row.recall[1] > 0
          /\ row.hit <=> row.rank > 0
          /\ row.gold > 0 => (row.hit <=> found # {}) /\ (found # {} => row.rank = Min(found))
          /\ row.gold = 0 => (row.hit <=> found = {})
          /\ Benchmark => row.recall = <<Cardinality(found), Cardinality(Judged[row.query])>>
      BY <3>1, <3>2, <3>4, <3>6 DEF Agree
    <3> QED
      BY <3>7 DEF ScoresAgree, found
  <2> QED
    BY <2>4, <2>7, <2>8
<1>2. ~Grading => RankedByBestChunk /\ RelevanceIsOfDocuments /\ ScoresAgree
  BY DEF RankedByBestChunk, RelevanceIsOfDocuments, ScoresAgree
<1>3. IInv => GradesDocuments
  BY <1>1, <1>2 DEF GradesDocuments
<1> QED
  BY <1>3, Invariant, PTL

=============================================================================
