----------------------------- MODULE CodeParser -----------------------------
(***************************************************************************)
(* CodeParser.parse of ingestion/parsers/code.py.                          *)
(*                                                                         *)
(* A file of code is a sequence of words and line ends, with the spans of  *)
(* its symbols (functions, classes) as tree-sitter found them: they nest,  *)
(* and each begins and ends with a word of its own.  The recursion of      *)
(* _emit_symbol_forest is a list of what is left to emit.                  *)
(***************************************************************************)
EXTENDS Blocks

CONSTANTS
    CodeSource,
    WindowSize  \* lines of a window where there are no symbols

Laminar(spans) ==
    \A s, t \in spans : s = t \/ s[2] < t[1] \/ t[2] < s[1]
                              \/ (s[1] < t[1] /\ t[2] <= s[2]) \/ (t[1] < s[1] /\ s[2] <= t[2])

ASSUME CodeAssumption ==
    /\ WindowSize \in Nat \ {0}
    /\ \A s \in CodeSource :
           /\ s.units \in Seq({"word", "line end"})
           /\ s.symbols \subseteq (DOMAIN s.units) \X (DOMAIN s.units)
           /\ Laminar(s.symbols)
           /\ \A t \in s.symbols : t[1] <= t[2] /\ s.units[t[1]] = "word" /\ s.units[t[2]] = "word"

VARIABLE todo   \* what is left of the calls of _emit_symbol_forest and _emit_gaps

CodeTypeOK ==
    todo \in Seq([task : {"symbol", "gaps"}, span : Nat \X Nat, parent : 1..Len(blocks), covered : SUBSET (Nat \X Nat)])

CodeInit == todo = <<>>

Parses == format = "code" /\ phase = "parse" /\ UNCHANGED <<file, read, stack>>

----------------------------------------------------------------------------
(* Spans.                                                                  *)

InSpan(s) == {p \in s[1]..s[2] : source.units[p] = "word"}
LineEnds(s) == {p \in s[1]..s[2] : source.units[p] = "line end"}
WholeFile == <<1, Len(source.units)>>

\* The text between the first and the last word.
TextOf(s) ==
    LET words == InSpan(s)
        breaks == {p - Min(words) + 1 : p \in LineEnds(<<Min(words), Max(words)>>)}
    IN  IF words = {} THEN NoText
        ELSE [len |-> Max(words) - Min(words) + 1,
              ends |-> [l \in Level |-> CASE l = 1 -> ParagraphEnds(breaks) [] l = 2 -> breaks [] OTHER -> {}]]

\* _header_text: the first line of a symbol.
Header(s) == IF LineEnds(s) = {} THEN s ELSE <<s[1], Min(LineEnds(s)) - 1>>

InOrder(spans) ==
    InOrderOf(spans, LAMBDA s, t : s[1] < t[1] \/ (s[1] = t[1] /\ s[2] > t[2]))

Outside == <<0, 0>>

\* Mutant of Placed: the stack is never popped.
PlacedUnpopped(acc, s) ==
    [open |-> Append(acc.open, s),
     placed |-> Append(acc.placed, [symbol |-> s, in |-> IF acc.open = <<>> THEN Outside ELSE Last(acc.open)])]

\* A symbol goes into the one on top of the stack of those that are still open
\* where it begins.
Placed(acc, s) ==
    LET Spans(t) == t[1] <= s[1] /\ s[2] <= t[2]
        open == SubSeq(acc.open, 1, Max({n \in 0..Len(acc.open) : n = 0 \/ Spans(acc.open[n])}))
    IN  [open |-> Append(open, s),
         placed |-> Append(acc.placed, [symbol |-> s, in |-> IF open = <<>> THEN Outside ELSE Last(open)])]

\* _nest_symbols; NestingAfter[n] is what the loop has after n symbols.
NestingAfter ==
    LET ordered == InOrder(source.symbols)
        after[n \in 0..Len(ordered)] ==
            IF n = 0 THEN [open |-> <<>>, placed |-> <<>>] ELSE Placed(after[n - 1], ordered[n])
    IN  after
Nesting == NestingAfter[Cardinality(source.symbols)].placed

ChildSymbols(s) == {n.symbol : n \in {n \in ToSet(Nesting) : n.in = s}}

\* _emit_gaps: the stretches of a span that nothing covers, numbered.
Gaps(span, covered) ==
    LET bare == {p \in span[1]..span[2] : \A c \in covered : p \notin c[1]..c[2]}
        starts == InOrderOf({p \in bare : p - 1 \notin bare}, <)
        EndOf(p) == Max({q \in bare : p..q \subseteq bare})
    IN  [i \in DOMAIN starts |-> <<starts[i], EndOf(starts[i])>>]

----------------------------------------------------------------------------
(* The blocks.                                                             *)

ModuleBlock == NewBlock("module", Named("module", 0), 0, 0, NoText, {})

SymbolTasks(spans, parent) ==
    [i \in 1..Cardinality(spans) |->
        [task |-> "symbol", span |-> InOrder(spans)[i], parent |-> parent, covered |-> {}]]
GapTask(span, covered, parent) ==
    <<[task |-> "gaps", span |-> span, parent |-> parent, covered |-> covered]>>

BeginModule ==
    /\ Parses /\ blocks = <<>> /\ source.symbols # {}
    /\ blocks' = <<ModuleBlock>>
    /\ LET roots == ChildSymbols(Outside)
       IN  todo' = SymbolTasks(roots, 1) \o GapTask(WholeFile, roots, 1)
    /\ UNCHANGED <<counters, phase>>

Task == Head(todo)
Performs(task) == Parses /\ todo # <<>> /\ Task.task = task /\ UNCHANGED phase
Order == counters["symbol"]     \* order, which names the symbol too

EmitSymbol ==
    /\ Performs("symbol") /\ ChildSymbols(Task.span) = {}
    /\ blocks' = Append(blocks, NewBlock("code_symbol", Named("sym", Order), Task.parent, Order,
                                         TextOf(Task.span), InSpan(Task.span)))
    /\ counters' = Counted("symbol")
    /\ todo' = Tail(todo)

\* A symbol with others in it: its first line, the others, and what is between.
EmitContainer ==
    /\ Performs("symbol") /\ ChildSymbols(Task.span) # {}
    /\ LET s == Task.span
           header == Header(s)
           inner == ChildSymbols(s)
           own == Len(blocks) + 1
       IN  /\ blocks' = Append(blocks, NewBlock("code_container", Named("sym", Order), Task.parent, Order,
                                                TextOf(header), InSpan(header)))
           /\ todo' = SymbolTasks(inner, own) \o GapTask(<<header[2] + 1, s[2]>>, inner, own) \o Tail(todo)
    /\ counters' = Counted("symbol")

\* order_base: behind all symbols.
GapBase(parent) == IF parent = 1 THEN 10000 ELSE Order + 1000

EmitGaps ==
    /\ Performs("gaps")
    /\ LET gaps == Gaps(Task.span, Task.covered)
           \* parent_id is the word module or ends in the symbol's number.
           of == IF Task.parent = 1 THEN 0 ELSE blocks[Task.parent].id.n + 1
           Gap(i) == NewBlock("code_block", [name |-> "gap", of |-> of, n |-> i - 1], Task.parent,
                              GapBase(Task.parent) + i - 1, TextOf(gaps[i]), InSpan(gaps[i]))
           full == InOrderOf({i \in DOMAIN gaps : InSpan(gaps[i]) # {}}, <)
       IN  blocks' = blocks \o [i \in DOMAIN full |-> Gap(full[i])]
    /\ todo' = Tail(todo)
    /\ UNCHANGED counters

\* _add_line_windows
EmitWindows ==
    /\ Parses /\ blocks = <<>> /\ source.symbols = {}
    /\ LET LineOf(p) == Cardinality(LineEnds(<<1, p - 1>>))
           Window(k) == {p \in InSpan(WholeFile) : LineOf(p) \div WindowSize = k}
           full == InOrderOf({k \in 0..Len(source.units) : Window(k) # {}}, <)
           WindowBlock(k) == NewBlock("code_symbol", Named("win", k), 1, k,
                                 TextOf(<<Min(Window(k)), Max(Window(k))>>), Window(k))
       IN  blocks' = <<ModuleBlock>> \o [i \in DOMAIN full |-> WindowBlock(full[i])]
    /\ phase' = "chunk"
    /\ UNCHANGED <<counters, todo>>

CodeEnd ==
    /\ Parses /\ blocks # <<>> /\ todo = <<>>
    /\ phase' = "chunk"
    /\ UNCHANGED <<blocks, counters, todo>>

CodeStep == BeginModule \/ EmitSymbol \/ EmitContainer \/ EmitGaps \/ EmitWindows \/ CodeEnd
=============================================================================
