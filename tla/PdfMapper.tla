------------------------------ MODULE PdfMapper ------------------------------
(***************************************************************************)
(* map_elements_to_blocks of ingestion/parsers/pdf/mapper.py, one element  *)
(* a step.  The service that partitions the file yields the elements, each *)
(* with a type and a page, in an order of its own.                         *)
(***************************************************************************)
EXTENDS Blocks

CONSTANT PdfSource

ASSUME PdfAssumption ==
    PdfSource \subseteq Seq([kind : {"Title", "Table", "ListItem", "Image", "NarrativeText", "Footer"},
                             text : Text, page : Nat])

VARIABLES
    pages,      \* page_blocks: blocks of the pages met so far
    sections    \* section_stack of mapper.py: a stack for each page

pdf == <<pages, sections>>

Empty == [p \in {} |-> 0]

\* map[key] = value
Set(map, key, value) == [k \in DOMAIN map \cup {key} |-> IF k = key THEN value ELSE map[k]]

PdfTypeOK ==
    /\ \A p \in DOMAIN pages : pages[p] \in DOMAIN blocks
    /\ \A p \in DOMAIN sections : sections[p] \in Seq([block : 1..Len(blocks), level : {1, 2}])

PdfInit == pages = Empty /\ sections = Empty

----------------------------------------------------------------------------
(* The elements.                                                           *)

El == source[read + 1]

ReadsElement ==
    /\ format = "pdf" /\ phase = "parse"
    /\ read < Len(source)
    /\ read' = read + 1
    /\ UNCHANGED <<file, stack, phase>>

Skipped(element) == element.text.len = 0 \/ element.kind = "Footer"

\* Mutant of WithPage: a page is made for each element.
WithPageAgain ==
    Append(blocks, NewBlock("page", Named("page", El.page), 0, El.page, NoText, {}))

\* _ensure_page_block
WithPage ==
    IF El.page \in DOMAIN pages THEN blocks
    ELSE Append(blocks, NewBlock("page", Named("page", El.page), 0, El.page, NoText, {}))
PageBlock == IF El.page \in DOMAIN pages THEN pages[El.page] ELSE Len(WithPage)

\* Mutant of OpenSections: one stack for all pages.
OpenSectionsAnywhere ==
    IF sections = Empty THEN <<>> ELSE sections[Max(DOMAIN sections)]

OpenSections == IF El.page \in DOMAIN sections THEN sections[El.page] ELSE <<>>

EnsuresPage == pages' = Set(pages, El.page, PageBlock)

SkipElement ==
    /\ ReadsElement
    /\ Skipped(El)
    /\ UNCHANGED <<blocks, counters, pdf>>

\* _add_section_block; an element of type Header never gets here, so every
\* level is 1.
AddTitle ==
    /\ ReadsElement
    /\ ~ Skipped(El) /\ El.kind = "Title"
    /\ LET open == Popped(OpenSections, 1)
       IN  /\ blocks' = Append(WithPage,
                               NewBlock("section", Named("sec", Number("section")), Top(open, PageBlock),
                                        Number("section"), El.text, {read + 1}))
           /\ sections' = Set(sections, El.page, Append(open, [block |-> Len(WithPage) + 1, level |-> 1]))
    /\ EnsuresPage
    /\ counters' = Counted("section")

\* _add_table_blocks
AddTable ==
    /\ ReadsElement
    /\ ~ Skipped(El) /\ El.kind = "Table"
    /\ LET n == Number("table")
           table == NewBlock("table", Named("tbl", n), Top(OpenSections, PageBlock), n, NoText, {})
           row == NewBlock("table_row", [name |-> "row", of |-> n, n |-> 0], Len(WithPage) + 1, 0,
                           El.text, {read + 1})
       IN  blocks' = WithPage \o <<table, row>>
    /\ EnsuresPage
    /\ counters' = Counted("table")
    /\ UNCHANGED sections

\* _child_block_spec
ChildBlockSpec(kind) ==
    CASE kind = "Image" -> [type |-> "figure", name |-> "fig", counter |-> "figure"]
      [] kind = "ListItem" -> [type |-> "list_item", name |-> "li", counter |-> "list"]
      [] OTHER -> [type |-> "paragraph", name |-> "p", counter |-> "paragraph"]

AddChild ==
    /\ ReadsElement
    /\ ~ Skipped(El) /\ El.kind \notin {"Title", "Table"}
    /\ LET spec == ChildBlockSpec(El.kind)
           n == Number(spec.counter)
       IN  /\ blocks' = Append(WithPage, NewBlock(spec.type, Named(spec.name, n),
                                                  Top(OpenSections, PageBlock), n, El.text, {read + 1}))
           /\ counters' = Counted(spec.counter)
    /\ EnsuresPage
    /\ UNCHANGED sections

PdfEnd ==
    /\ format = "pdf" /\ phase = "parse" /\ read = Len(source)
    /\ phase' = "chunk"
    /\ Skip /\ UNCHANGED <<file, read, pdf>>

PdfStep == SkipElement \/ AddTitle \/ AddTable \/ AddChild \/ PdfEnd
=============================================================================
