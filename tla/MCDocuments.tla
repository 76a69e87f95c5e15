----------------------------- MODULE MCDocuments -----------------------------
(***************************************************************************)
(* Markdown files of up to five lines of up to six kinds, of one line with *)
(* every arrangement of separators, and of one block of code; files of the *)
(* other formats with up to four or five elements; code of up to six words *)
(* and line ends with every nesting of up to three symbols.                *)
(***************************************************************************)
EXTENDS Documents

\* A text of the length with ". " ending at s, "; " at c and " " also at w.
Words(len, s, c, w) ==
    [len |-> len, ends |-> <<{}, {}, s, c, s \cup c \cup w>>]

\* Every line of a length: it neither begins nor ends with a space, and what
\* stands before the space of a separator is no space.
LinesOf(len) ==
    {t \in {Words(len, s, c, w) : s, c, w \in SUBSET (2..len - 1)} :
        LET spaces == t.ends[5]
        IN  \A p \in t.ends[3] \cup t.ends[4] : p - 1 \notin spaces /\ p \notin t.ends[3] \cap t.ends[4]}

Short == Words(3, {}, {}, {2})
Long == Words(9, {6}, {}, {3})

MCLineText == {Short, Long} \cup UNION {LinesOf(n) : n \in 5..8}

HeadLine(level) == [kind |-> "heading", level |-> level, text |-> Short]
TextLine(t) == [kind |-> "text", level |-> 0, text |-> t]
Bare(kind) == [kind |-> kind, level |-> 0, text |-> NoText]

AnyLine == {HeadLine(1), HeadLine(2), TextLine(Short), TextLine(Long), Bare("fence")}
CodeLine == {TextLine(Short), TextLine(Long), Bare("blank")}

UpTo(n, units) == UNION {[1..k -> units] : k \in 0..n}

MCSource ==
    UpTo(4, AnyLine \cup {Bare("blank")})
    \cup [1..5 -> AnyLine]
    \cup {<<TextLine(t)>> : t \in UNION {LinesOf(n) : n \in 5..8}}
    \cup {<<Bare("fence")>> \o s : s \in [1..5 -> CodeLine]}

Unit(kind) == [kind |-> kind, level |-> 0, text |-> Short]

MCDocxSource ==
    UpTo(5, {HeadLine(1), HeadLine(2), Unit("paragraph"), Unit("row")})
    \cup UpTo(2, {Bare("paragraph"), HeadLine(1), Unit("row"), Bare("row")})

\* Elements nest in list items and headings.
Nested(n) == {f \in [1..n -> 1..n] : \A i \in 1..n : i <= f[i] /\ \A j \in i..f[i] : f[j] <= f[i]}
Tags == {HeadLine(1), HeadLine(2), Unit("p"), Unit("pre"), Unit("li"), Bare("li"), Unit("other")}
Tag(unit, last) == [kind |-> unit.kind, level |-> unit.level, text |-> unit.text, last |-> last]
AnyHtml ==
    UNION {{[i \in 1..n |-> Tag(s[i], f[i])] :
                s \in [1..n -> Tags], f \in Nested(n)} : n \in 0..3}
    \cup {[i \in 1..4 |-> Tag(s[i], i)] : s \in [1..4 -> {HeadLine(1), Unit("p"), Unit("pre"), Unit("li")}]}
    \cup {<<Tag(li, 4), Tag(Unit("p"), 2), Tag(Unit("li"), 4), Tag(Unit("p"), 4)>> :
              li \in {Unit("li"), Bare("li")}}

MCHtmlSource == {s \in AnyHtml : \A i \in DOMAIN s : i < s[i].last => s[i].kind \in {"li", "heading", "other"}}

\* A shape repeats the title only of a slide that has one.
Titled(s) ==
    \A i \in DOMAIN s :
        s[i].kind = "title" => \E j \in 1..i : s[j] = Unit("slide") /\ \A k \in j + 1..i : s[k].kind # "slide"
MCPptxSource ==
    {s \in UpTo(6, {Unit("slide"), Bare("table"), Unit("row"), Unit("shape")})
           \cup UpTo(4, {Unit("slide"), Bare("slide"), Bare("table"), Unit("row"), Bare("row"), Unit("shape"),
                         Bare("shape"), Unit("title"), Unit("group"), Unit("notes")}) : Presentation(s) /\ Titled(s)}

MCRecordSource ==
    UpTo(3, {Unit("record")}) \cup UpTo(2, {Unit("paragraph")}) \cup UpTo(2, {Unit("table_row")})
    \cup {<<Unit("scalar")>>}

OnPages(kind, text) == [kind : {kind}, text : {text}, page : {1, 2}]
MCPdfSource ==
    UpTo(4, UNION {OnPages(k, Short) : k \in {"Title", "Table", "NarrativeText"}})
    \cup UpTo(2, UNION {OnPages(k, Short) : k \in {"Title", "ListItem", "Image", "Footer"}}
                 \cup OnPages("Title", NoText))

\* No two functions or classes begin with the same word.
Symbols(units) ==
    LET words == {p \in DOMAIN units : units[p] = "word"}
        spans == {s \in words \X words : s[1] <= s[2]}
    IN  {S \in kSubset(3, spans) \cup kSubset(2, spans) \cup kSubset(1, spans) \cup {{}} :
            Laminar(S) /\ \A s, t \in S : s[1] = t[1] => s = t}
MCCodeSource ==
    UNION {{[units |-> u, symbols |-> s] : s \in Symbols(u)} : u \in UpTo(6, {"word", "line end"})}

MCConfig ==
    {[max |-> 4, overlap |-> 1, min |-> 2, parent |-> 100], [max |-> 3, overlap |-> 4, min |-> 2, parent |-> 18],
     [max |-> 5, overlap |-> 2, min |-> 4, parent |-> 12], [max |-> 3, overlap |-> 0, min |-> 0, parent |-> 6]}
=============================================================================
