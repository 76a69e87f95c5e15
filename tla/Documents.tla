------------------------------ MODULE Documents ------------------------------
(***************************************************************************)
(* parse_file and chunk_file of ingestion/pipeline.py: the parser the      *)
(* registry chooses for a file, then the chunker.                          *)
(***************************************************************************)
EXTENDS MarkdownParser, OutlineParsers, PdfMapper, CodeParser, Chunker

vars == <<file, read, blocks, stack, counters, phase, markdown, pdf, todo, chunks>>

File ==
    [format : {"markdown"}, source : Source] \cup [format : {"docx"}, source : DocxSource]
    \cup [format : {"html"}, source : HtmlSource] \cup [format : {"pptx"}, source : PptxSource]
    \cup [format : {"records"}, source : RecordSource] \cup [format : {"pdf"}, source : PdfSource]
    \cup [format : {"code"}, source : CodeSource]

Init ==
    /\ \E f \in File : format = f.format /\ source = f.source
    /\ BlocksInit /\ MarkdownInit /\ PdfInit /\ CodeInit /\ ChunkerInit

Parse ==
    /\ \/ MarkdownStep /\ UNCHANGED <<pdf, todo>>
       \/ OutlineStep /\ UNCHANGED <<markdown, pdf, todo>>
       \/ PdfStep /\ UNCHANGED <<markdown, todo>>
       \/ CodeStep /\ UNCHANGED <<markdown, pdf>>
    /\ UNCHANGED chunks

Chunk == ChunkDocument /\ UNCHANGED <<markdown, pdf, todo>>

Next == Parse \/ Chunk
Spec == Init /\ [][Next]_vars

----------------------------------------------------------------------------
(* Properties.                                                             *)

\* Every variable has its type; a block comes after the one it hangs below.
TypeOK == BlocksTypeOK /\ MarkdownTypeOK /\ PdfTypeOK /\ CodeTypeOK /\ ChunkerTypeOK

Parsed == phase # "parse"
Holders(u) == {i \in DOMAIN blocks : u \in blocks[i].units}

\* Text that no parser takes in: what repeats the title of a slide or is in a group
\* of shapes, the one value of a YAML file, a footer.
LeftOut == {"title", "group", "scalar", "Footer"}

Accepted ==
    IF format = "code" THEN InSpan(WholeFile)
    ELSE {u \in DOMAIN source : source[u].text.len > 0 /\ source[u].kind \notin LeftOut}

\* The headings, paragraphs, pre and list items that a text of a web page stands in,
\* itself included if it is one.
Around(u) == {e \in 1..u : u <= source[e].last /\ source[e].kind # "other"}

Above(i) ==
    LET up[b \in 0..Len(blocks)] == IF b = 0 THEN {} ELSE {blocks[b].parent} \cup up[blocks[b].parent]
    IN  up[i]

\* On the way from a file to blocks no text is lost but what LeftOut names and what
\* in a web page stands in none of the elements that are read; and none is doubled
\* but an element of a web page nested in others, which is in each of them, and the
\* first line of a symbol if one in it begins there (code.py:1 calls the spans
\* non-overlapping).
EveryUnitOnce ==
    Parsed =>
        \A u \in Accepted :
            CASE format = "html" -> Cardinality(Holders(u)) = Cardinality(Around(u))
              [] format = "code" ->
                   /\ Holders(u) # {}
                   /\ \A i, j \in Holders(u) : i < j => blocks[i].type = "code_container" /\ i \in Above(j)
              [] OTHER -> Cardinality(Holders(u)) = 1

\* Blocks follow each other as in the file, except where the parser reads the
\* file in another order: the tables of DOCX, and what is between symbols.
BlocksInFileOrder ==
    LET full == {i \in DOMAIN blocks : blocks[i].units # {}}
        Comparable(i, j) ==
            CASE format = "docx" -> (blocks[i].type = "table_row") = (blocks[j].type = "table_row")
              [] format = "code" -> (blocks[i].type = "code_block") = (blocks[j].type = "code_block")
                                    /\ blocks[i].parent = blocks[j].parent
              [] OTHER -> TRUE
    IN  \A i, j \in full :
            i < j /\ Comparable(i, j) => Min(blocks[i].units) < Min(blocks[j].units)

UnitOf(i) == source[Min(blocks[i].units)]
LevelOf(i) == IF blocks[i].type # "section" THEN 7 ELSE IF format = "pdf" THEN 1 ELSE UnitOf(i).level
HasSections == {"markdown", "docx", "html", "pdf"}

\* What the section stacks are for: a section hangs below the last heading before
\* it that outranks it (in PDF: on its page), anything else below the last
\* heading; what no heading is above hangs below its page, or nothing.  So a row
\* of a DOCX table hangs below the last heading of the file, wherever the table
\* stands.
SectionsNest ==
    format \in HasSections =>
        \A i \in {i \in DOMAIN blocks : blocks[i].units # {} \/ blocks[i].type = "table"} :
            LET page == IF format # "pdf" THEN 0
                        ELSE IF blocks[i].type = "table" THEN UnitOf(i + 1).page ELSE UnitOf(i).page
                OnPage(j) == format = "pdf" => UnitOf(j).page = page
                above == {j \in 1..i - 1 : blocks[j].type = "section" /\ LevelOf(j) < LevelOf(i) /\ OnPage(j)}
                InTable == format = "pdf" /\ blocks[i].type = "table_row"
            IN  IF InTable THEN blocks[i].parent = i - 1 /\ blocks[i - 1].type = "table"
                ELSE IF above # {} THEN blocks[i].parent = Max(above)
                ELSE IF format = "pdf"
                THEN /\ blocks[i].parent # 0
                     /\ blocks[blocks[i].parent].id = Named("page", page)
                ELSE blocks[i].parent = 0

\* A symbol and what is between symbols hang below the innermost symbol around
\* them.
SymbolsNest ==
    format = "code" =>
        \A i \in {i \in DOMAIN blocks : blocks[i].units # {}} :
            LET p == Min(blocks[i].units)
                around == {s \in source.symbols : s[1] < p /\ p <= s[2]}
                inner == CHOOSE s \in around : \A t \in around : t[1] <= s[1]
            IN  IF around = {} THEN blocks[i].parent = 1
                ELSE Min(blocks[blocks[i].parent].units) = inner[1]

UnitIndex(i) == Min(blocks[i].units)
SameTableRows(i, j) ==
    format = "pptx" /\ blocks[i].type = "table_row" /\ blocks[j].type = "table_row"

\* A chunk is named by its block, and the store takes a chunk_id once a document:
\* two blocks have the same id only if they are rows of two tables on one slide.
IdsDistinct ==
    \A i, j \in DOMAIN blocks :
        i < j /\ blocks[i].id = blocks[j].id =>
            /\ SameTableRows(i, j)
            /\ \E t \in UnitIndex(i) + 1 .. UnitIndex(j) : source[t].kind = "table"

\* The outline of the file is that of its blocks.
OutlineKept == BlocksInFileOrder /\ SectionsNest /\ SymbolsNest
=============================================================================
