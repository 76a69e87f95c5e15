--------------------------- MODULE OutlineParsers ---------------------------
(***************************************************************************)
(* The parsers of ingestion/parsers/ that make of each element one block,  *)
(* below the last heading, the slide or the root: DOCXParser, HTMLParser,  *)
(* PPTXParser, TextParser and StructuredParser.  The library that opens    *)
(* the file yields the elements; one is read a step.                       *)
(***************************************************************************)
EXTENDS Blocks

CONSTANTS DocxSource, HtmlSource, PptxSource, RecordSource

Element(kinds) == [kind : kinds, level : {0}, text : Text]
DocxElement == [kind : {"heading"}, level : 1..6, text : Text] \cup Element({"paragraph", "row"})

\* last is where the elements nested in one end; "other" is text that stands
\* elsewhere, in a td, a div, a dt.
HtmlElement ==
    [kind : {"heading"}, level : 1..6, text : Text, last : Nat]
    \cup [kind : {"p", "pre", "li", "other"}, level : {0}, text : Text, last : Nat]

\* The elements of a slide follow it, its notes, if there are any, as the last;
\* the rows of a table follow it, too, and have its text.  A group of shapes has
\* neither a text frame nor a table.
Presentation(s) ==
    /\ s # <<>> => s[1].kind = "slide"
    /\ \A i \in DOMAIN s :
           /\ s[i].kind = "row" => i > 1 /\ s[i - 1].kind \in {"table", "row"}
           /\ s[i].kind = "table" => s[i].text = NoText
           /\ s[i].kind = "notes" => s[i].text.len > 0 /\ (i = Len(s) \/ s[i + 1].kind = "slide")

ASSUME ElementAssumption ==
    /\ DocxSource \subseteq Seq(DocxElement)
    /\ HtmlSource \subseteq Seq(HtmlElement)
    /\ \A s \in HtmlSource : \A i \in DOMAIN s : s[i].last \in i..Len(s)
    /\ PptxSource \subseteq Seq(Element({"slide", "title", "shape", "group", "table", "row", "notes"}))
    /\ \A s \in PptxSource : Presentation(s)
    /\ RecordSource \subseteq Seq(Element({"paragraph", "record", "table_row", "scalar"}))
    /\ \A s \in RecordSource : \A i \in DOMAIN s : s[i].kind = "scalar" => Len(s) = 1

Blank(i) == source[i].text.len = 0

Reads(fmt, kinds, i) ==
    /\ format = fmt /\ phase = "parse"
    /\ read < Len(source)
    /\ source[i].kind \in kinds
    /\ read' = read + 1
    /\ UNCHANGED <<file, phase>>

----------------------------------------------------------------------------
(* DOCX: document.paragraphs, and then document.tables, whose rows hang    *)
(* below the section that is open by then.                                 *)

DocxOrder ==
    LET rows == {i \in DOMAIN source : source[i].kind = "row"}
    IN  InOrderOf(DOMAIN source \ rows, <) \o InOrderOf(rows, <)

DocxUnit == DocxOrder[read + 1]
Docx(kinds) == Reads("docx", kinds, DocxUnit)

DocxBlank == Docx({"heading", "paragraph", "row"}) /\ Blank(DocxUnit) /\ Skip

DocxHeading ==
    /\ Docx({"heading"}) /\ ~ Blank(DocxUnit)
    /\ AddSection({DocxUnit}, source[DocxUnit].level, source[DocxUnit].text)

DocxParagraph ==
    /\ Docx({"paragraph"}) /\ ~ Blank(DocxUnit)
    /\ AddLeaf("paragraph", "p", "paragraph", source[DocxUnit].text, {DocxUnit})

DocxRow ==
    /\ Docx({"row"}) /\ ~ Blank(DocxUnit)
    /\ AddLeaf("table_row", "row", "row", source[DocxUnit].text, {DocxUnit})

----------------------------------------------------------------------------
(* HTML: soup.find_all(...), outer elements first; the text of an element  *)
(* has that of the elements in it.                                         *)

HtmlUnit == read + 1
HtmlElements == HtmlUnit .. source[HtmlUnit].last
HtmlUnits == {i \in HtmlElements : ~ Blank(i)}
HtmlText ==
    LET inside == InOrderOf(HtmlUnits, <)
        joined == Lines([i \in DOMAIN inside |-> source[inside[i]].text])
    IN  [len |-> joined.len,
         ends |-> [l \in Level |-> CASE l \in {1, 2} -> {}
                                      [] l = 5 -> joined.ends[2] \cup joined.ends[5]
                                      [] OTHER -> joined.ends[l]]]

Html(kinds) == Reads("html", kinds, HtmlUnit)

HtmlBlank == Html({"heading", "p", "pre", "li"}) /\ HtmlUnits = {} /\ Skip

\* find_all does not yield it; its text is read only with an element around it.
HtmlOther == Html({"other"}) /\ Skip

HtmlHeading ==
    /\ Html({"heading"}) /\ HtmlUnits # {}
    /\ AddSection(HtmlElements, source[HtmlUnit].level, HtmlText)

HtmlPre ==
    /\ Html({"pre"}) /\ HtmlUnits # {}
    /\ AddLeaf("code_block", "code", "code", HtmlText, HtmlElements)

\* Mutant of HtmlItem: list items have a counter of their own.
HtmlItemCountedApart ==
    /\ Html({"li"}) /\ HtmlUnits # {}
    /\ AddLeaf("list_item", "li", "list", HtmlText, HtmlElements)

HtmlItem ==
    /\ Html({"li"}) /\ HtmlUnits # {}
    /\ AddLeaf("list_item", "li", "paragraph", HtmlText, HtmlElements)

HtmlParagraph ==
    /\ Html({"p"}) /\ HtmlUnits # {}
    /\ AddLeaf("paragraph", "p", "paragraph", HtmlText, HtmlElements)

----------------------------------------------------------------------------
(* PPTX: a slide, then its shapes, the rows of its tables and its notes.   *)

PptxUnit == read + 1
Pptx(kinds) == Reads("pptx", kinds, PptxUnit) /\ UNCHANGED stack

Slide == Max({i \in DOMAIN blocks : blocks[i].type = "slide"})
OnSlide(name, n) == [name |-> name, of |-> counters["slide"], n |-> n]
AddToSlide(type, id) ==
    blocks' = Append(blocks, NewBlock(type, id, Slide, Number("shape"), source[PptxUnit].text, {PptxUnit}))

ReadSlide ==
    /\ Pptx({"slide"})
    /\ blocks' = Append(blocks, NewBlock("slide", Named("slide", Number("slide")), 0, Number("slide"),
                                         source[PptxUnit].text,
                                         IF Blank(PptxUnit) THEN {} ELSE {PptxUnit}))
    /\ counters' = [Counted("slide") EXCEPT !["shape"] = 0, !["rowIndex"] = 0]

ReadShape ==
    /\ Pptx({"shape"}) /\ ~ Blank(PptxUnit)
    /\ AddToSlide("shape", OnSlide("shape", Number("shape")))
    /\ counters' = Counted("shape")

\* A shape without text, or with the title's, and what is no shape with text.
SkipShape ==
    /\ \/ Pptx({"shape"}) /\ Blank(PptxUnit)
       \/ Pptx({"title", "group"})
    /\ UNCHANGED <<blocks, counters>>

\* for row_index, row in enumerate(table.rows): from 0 for each table.
BeginTable ==
    /\ Pptx({"table"})
    /\ counters' = [counters EXCEPT !["rowIndex"] = 0]
    /\ UNCHANGED blocks

\* An empty row counts, too.
ReadRow ==
    /\ Pptx({"row"})
    /\ IF Blank(PptxUnit) THEN UNCHANGED blocks
       ELSE AddToSlide("table_row", OnSlide("slide_row", counters["rowIndex"]))
    /\ counters' = [counters EXCEPT !["rowIndex"] = @ + 1,
                                    !["shape"] = @ + (IF Blank(PptxUnit) THEN 0 ELSE 1)]

ReadNotes ==
    /\ Pptx({"notes"})
    /\ AddToSlide("note", OnSlide("notes", 0))
    /\ counters' = Counted("shape")

----------------------------------------------------------------------------
(* Plain text, JSON, YAML and CSV: paragraphs or records below one root.   *)

RecordUnit == read + 1

AddRoot ==
    /\ format = "records" /\ phase = "parse" /\ blocks = <<>>
    /\ blocks' = <<NewBlock("document", Named("doc_root", 0), 0, 0, NoText, {})>>
    /\ UNCHANGED <<file, read, stack, counters, phase>>

ReadRecord ==
    /\ Reads("records", {"paragraph", "record", "table_row"}, RecordUnit)
    /\ blocks # <<>>
    /\ blocks' = Append(blocks, NewBlock(source[RecordUnit].kind, Named("record", read), 1, read,
                                         source[RecordUnit].text, {RecordUnit}))
    /\ UNCHANGED <<stack, counters>>

\* _parse_yaml knows lists and mappings; one value alone gives no record, as it
\* does in JSON.
SkipScalar ==
    /\ Reads("records", {"scalar"}, RecordUnit)
    /\ blocks # <<>>
    /\ Skip

----------------------------------------------------------------------------

OutlineEnd ==
    /\ format \in {"docx", "html", "pptx", "records"} /\ phase = "parse"
    /\ read = Len(source) /\ (format = "records" => blocks # <<>>)
    /\ phase' = "chunk"
    /\ Skip /\ UNCHANGED <<file, read>>

OutlineStep ==
    \/ DocxBlank \/ DocxHeading \/ DocxParagraph \/ DocxRow
    \/ HtmlBlank \/ HtmlOther \/ HtmlHeading \/ HtmlPre \/ HtmlItem \/ HtmlParagraph
    \/ ReadSlide \/ ReadShape \/ SkipShape \/ BeginTable \/ ReadRow \/ ReadNotes
    \/ AddRoot \/ ReadRecord \/ SkipScalar \/ OutlineEnd
=============================================================================
