--------------------------- MODULE MarkdownParser ---------------------------
(***************************************************************************)
(* MarkdownParser.parse of ingestion/parsers/markdown.py, one line a step. *)
(* A line comes with its kind, which the two regular expressions decide,   *)
(* and stands for its text.                                                *)
(***************************************************************************)
EXTENDS Blocks

CONSTANTS
    LineText,   \* texts of single lines
    Source      \* the files, as sequences of lines

Line == [kind : {"heading"}, level : 1..6, text : LineText]
        \cup [kind : {"text"}, level : {0}, text : LineText]
        \cup [kind : {"fence", "blank"}, level : {0}, text : {NoText}]

\* A line has no line break.
ASSUME LineAssumption ==
    /\ LineText \subseteq Text
    /\ \A t \in LineText : t.len > 0 /\ t.ends[1] = {} /\ t.ends[2] = {}
    /\ Source \subseteq Seq(Line)

VARIABLES inFence, code  \* in_code_fence; code_lines, by their numbers

markdown == <<inFence, code>>

MarkdownTypeOK ==
    /\ inFence \in BOOLEAN
    /\ ToSet(code) \subseteq 1..read
    /\ ~ inFence => code = <<>>

MarkdownInit == inFence = FALSE /\ code = <<>>

----------------------------------------------------------------------------
(* The lines.                                                              *)

Next1 == source[read + 1]
ReadsLine(kinds) ==
    /\ format = "markdown" /\ phase = "parse"
    /\ read < Len(source)
    /\ Next1.kind \in kinds
    /\ read' = read + 1
    /\ UNCHANGED <<file, phase>>

ReadHeading ==
    /\ ~ inFence
    /\ ReadsLine({"heading"})
    /\ AddSection({read + 1}, Next1.level, Next1.text)
    /\ UNCHANGED markdown

ReadParagraph ==
    /\ ~ inFence
    /\ ReadsLine({"text"})
    /\ AddLeaf("paragraph", "p", "paragraph", Next1.text, {read + 1})
    /\ UNCHANGED markdown

ReadBlank ==
    /\ ~ inFence
    /\ ReadsLine({"blank"})
    /\ Skip /\ UNCHANGED markdown

OpenFence ==
    /\ ~ inFence
    /\ ReadsLine({"fence"})
    /\ inFence' = TRUE
    /\ Skip /\ UNCHANGED code

\* Anything between two fences is code, headings included.
ReadCode ==
    /\ inFence
    /\ ReadsLine({"heading", "text", "blank"})
    /\ code' = Append(code, read + 1)
    /\ Skip /\ UNCHANGED inFence

\* "\n".join(code_lines).strip()
Stripped(lines) ==
    LET solid == {i \in DOMAIN lines : source[lines[i]].kind # "blank"}
    IN  IF solid = {} THEN <<>> ELSE SubSeq(lines, Min(solid), Max(solid))

EndCode ==
    AddLeaf("code_block", "code", "code",
            Lines([i \in DOMAIN Stripped(code) |-> source[Stripped(code)[i]].text]), ToSet(code))

\* Mutant of CloseFence: code_lines is not reset.
CloseFenceKeeping ==
    /\ inFence
    /\ ReadsLine({"fence"})
    /\ EndCode
    /\ inFence' = FALSE
    /\ UNCHANGED code

CloseFence ==
    /\ inFence
    /\ ReadsLine({"fence"})
    /\ EndCode
    /\ inFence' = FALSE
    /\ code' = <<>>

AtEnd == format = "markdown" /\ phase = "parse" /\ read = Len(source)

\* Mutant of EndOfFile: an open fence is forgotten.
EndOfFileForgetting ==
    /\ AtEnd
    /\ phase' = "chunk"
    /\ Skip /\ UNCHANGED <<file, read, markdown>>

\* A fence that is never closed ends with the file.
EndOfFile ==
    /\ AtEnd
    /\ phase' = "chunk"
    /\ IF inFence /\ code # <<>> THEN EndCode ELSE Skip
    /\ UNCHANGED <<file, read, markdown>>

MarkdownStep ==
    \/ ReadHeading \/ ReadParagraph \/ ReadBlank
    \/ OpenFence \/ ReadCode \/ CloseFence \/ EndOfFile
=============================================================================
