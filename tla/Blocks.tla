------------------------------- MODULE Blocks -------------------------------
(***************************************************************************)
(* What the parsers of ingestion/parsers/ have in common: the file they    *)
(* read a unit at a time (a line, a paragraph, an element), the blocks     *)
(* they make of it with BlockBuilder, their counters and, where they know  *)
(* headings, the section stack.                                            *)
(*                                                                         *)
(* Of a block's metadata only the units its text comes from are kept.      *)
(***************************************************************************)
EXTENDS Splitter

VARIABLES
    format,     \* which parser the registry chose
    source,     \* the file
    read,       \* how many of its units have been read
    blocks,     \* builder.blocks
    stack,      \* section_stack: sections with their levels
    counters,   \* section_counter, paragraph_counter, ...
    phase       \* "parse", "chunk", "done"

file == <<format, source>>

ParentTypes == {"document", "page", "slide", "section", "module", "code_container", "table"}
ChildTypes == {"paragraph", "code_block", "code_symbol", "table_row", "list_item", "shape",
               "note", "figure", "record"}

Counter == {"section", "paragraph", "code", "row", "table", "figure", "list",
            "slide", "shape", "rowIndex", "symbol"}

\* block_id is a word and a number, behind the id of a slide or of the symbol
\* around it, which is one more number.
IdName == {"page", "slide", "doc_root", "module", "sec", "tbl", "p", "code", "row", "li", "fig",
           "shape", "slide_row", "notes", "record", "sym", "gap", "win"}
Id == [name : IdName, of : Nat, n : Nat]

\* parent is 0 for none; units are those the text is made of.
Block == [id : Id, type : ParentTypes \cup ChildTypes, parent : Nat, order : Nat,
          text : Text, units : SUBSET Nat]

NewBlock(type, id, parent, order, text, units) ==
    [id |-> id, type |-> type, parent |-> parent, order |-> order, text |-> text, units |-> units]

Named(name, n) == [name |-> name, of |-> 0, n |-> n]

Counted(counter) == [counters EXCEPT ![counter] = @ + 1]
Number(counter) == counters[counter] + 1

BlocksTypeOK ==
    /\ blocks \in Seq(Block)
    /\ stack \in Seq([block : 1..Len(blocks), level : 1..6])
    /\ \A i \in DOMAIN blocks : blocks[i].parent < i
    /\ counters \in [Counter -> Nat]
    /\ phase \in {"parse", "chunk", "done"}

BlocksInit ==
    /\ read = 0
    /\ blocks = <<>>
    /\ stack = <<>>
    /\ counters = [c \in Counter |-> 0]
    /\ phase = "parse"

IsParentType(i) == blocks[i].type \in ParentTypes

----------------------------------------------------------------------------
(* The section stack.                                                      *)

\* Mutant of Popped: a section of the same level stays open.
PoppedAbove(open, level) ==
    SubSeq(open, 1, Max({n \in 0..Len(open) : n = 0 \/ open[n].level <= level}))

\* while section_stack[-1] >= level: pop
Popped(open, level) ==
    SubSeq(open, 1, Max({n \in 0..Len(open) : n = 0 \/ open[n].level < level}))

Top(open, root) == IF open = <<>> THEN root ELSE Last(open).block

AddSection(units, level, text) ==
    LET open == Popped(stack, level)
    IN  /\ blocks' = Append(blocks, NewBlock("section", Named("sec", Number("section")),
                                             Top(open, 0), Number("section"), text, units))
        /\ stack' = Append(open, [block |-> Len(blocks) + 1, level |-> level])
        /\ counters' = Counted("section")

AddLeaf(type, name, counter, text, units) ==
    /\ blocks' = Append(blocks, NewBlock(type, Named(name, Number(counter)), Top(stack, 0),
                                         Number(counter), text, units))
    /\ counters' = Counted(counter)
    /\ UNCHANGED stack

Skip == UNCHANGED <<blocks, stack, counters>>

----------------------------------------------------------------------------
(* Texts.                                                                  *)

\* The end of a line that ends a paragraph too; of three breaks in a row, the
\* first two.
ParagraphEnds(breaks) ==
    LET Second(p) == Cardinality({q \in breaks : q < p /\ q..p \subseteq breaks}) % 2 = 1
    IN  {p \in breaks : Second(p)}

\* EndsOfLines(texts)[i] is where the break after the i-th line is.
EndsOfLines(texts) ==
    LET end[i \in 0..Len(texts)] == IF i = 0 THEN 0 ELSE end[i - 1] + texts[i].len + 1
    IN  end

\* "\n".join(texts)
Lines(texts) ==
    LET end == EndsOfLines(texts)
        breaks == {end[i] : i \in 1..Len(texts) - 1}
        InLine(l) == UNION {{end[i - 1] + p : p \in texts[i].ends[l]} : i \in DOMAIN texts}
    IN  IF texts = <<>> THEN NoText
        ELSE [len |-> end[Len(texts)] - 1,
              ends |-> [l \in Level |-> CASE l = 1 -> ParagraphEnds(breaks)
                                           [] l = 2 -> breaks
                                           [] OTHER -> InLine(l)]]
=============================================================================
