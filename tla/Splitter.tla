------------------------------ MODULE Splitter ------------------------------
(***************************************************************************)
(* split_text of ingestion/chunkers/splitter.py.                           *)
(*                                                                         *)
(* Of a text only its length is kept and the positions at which each of    *)
(* the five separators ends.  Every part the splitter makes before it      *)
(* strips is a stretch of the text, so a part is a span <<first, last>>.   *)
(***************************************************************************)
EXTENDS Integers, SequencesExt

\* "\n\n", "\n", ". ", "; ", " ", in the order in which they are tried.
Level == 1..5
Width == <<2, 1, 2, 2, 1>>

\* A text: a separator is within it, and of the two characters of ". " or "; "
\* the first ends no separator.
Separated(text) ==
    /\ \A l \in Level : \A p \in text.ends[l] : Width[l] <= p /\ p <= text.len
    /\ \A l \in {3, 4}, m \in Level : \A p \in text.ends[l] : p - 1 \notin text.ends[m]

Text == {t \in [len : Nat, ends : [Level -> SUBSET Nat]] : Separated(t)}
NoText == [len |-> 0, ends |-> [l \in Level |-> {}]]

\* A set in an order; SetToSortSeq would go through all sequences of its size.
InOrderOf(set, Before(_, _)) ==
    [i \in 1..Cardinality(set) |-> CHOOSE x \in set : Cardinality({y \in set : Before(y, x)}) = i - 1]

Length(span) == span[2] - span[1] + 1

\* Mutant of Ends: a space is no separator.
EndsWithoutSpaces(text, level, a, b) ==
    {p \in text.ends[level] : level # 5 /\ a + Width[level] - 1 <= p /\ p <= b}

\* Separators of a level that lie within a span.
Ends(text, level, a, b) == {p \in text.ends[level] : a + Width[level] - 1 <= p /\ p <= b}

\* span.split(separator), each piece with its separator; an empty last piece
\* has no effect and is left out.
Pieces(text, level, a, b) ==
    LET cuts == InOrderOf(Ends(text, level, a, b) \cup {b}, <)
    IN  [i \in DOMAIN cuts |-> <<IF i = 1 THEN a ELSE cuts[i - 1] + 1, cuts[i]>>]

\* Mutant of HardSplit: only whole windows.
HardSplitWhole(a, b, max) ==
    [i \in 1..((b - a + 1) \div max) |-> <<a + (i - 1) * max, a + i * max - 1>>]

HardSplit(a, b, max) ==
    [i \in 1..((b - a) \div max + 1) |->
        <<a + (i - 1) * max, IF a + i * max - 1 < b THEN a + i * max - 1 ELSE b>>]

\* Joins pieces while they fit; a piece too long by itself becomes the parts it
\* is split into.  Packing(...)[n] is what the loop has after n pieces.
Flushed(acc) == IF acc.current = <<>> THEN acc.parts ELSE Append(acc.parts, acc.current)

WithPiece(acc, piece, parts, max) ==
    LET candidate == <<IF acc.current = <<>> THEN piece[1] ELSE acc.current[1], piece[2]>>
    IN  IF Length(candidate) <= max THEN [parts |-> acc.parts, current |-> candidate]
        ELSE IF Length(piece) <= max THEN [parts |-> Flushed(acc), current |-> piece]
        ELSE [parts |-> Flushed(acc) \o parts, current |-> <<>>]

Packing(pieces, split, max) ==
    LET after[n \in 0..Len(pieces)] ==
            IF n = 0 THEN [parts |-> <<>>, current |-> <<>>]
            ELSE WithPiece(after[n - 1], pieces[n], split[n], max)
    IN  after

\* One call of _recursive_split, with the separators from level k on; deeper has
\* what the calls with one separator less make of each span.
SplitSpan(text, max, k, deeper, a, b) ==
    LET found == {l \in k..5 : Ends(text, l, a, b) # {}}
        pieces == Pieces(text, Min(found), a, b)
        split == [i \in DOMAIN pieces |->
                     IF Min(found) = 5 THEN HardSplit(pieces[i][1], pieces[i][2], max)
                     ELSE deeper[pieces[i]]]
    IN  IF b - a + 1 <= max THEN <<<<a, b>>>>
        ELSE IF found = {} THEN HardSplit(a, b, max)
        ELSE Flushed(Packing(pieces, split, max)[Len(pieces)])

\* _recursive_split of each span of a text, with the last d separators.
Splitting(text, max) ==
    LET split[d \in 0..5] ==
            [span \in (1..text.len) \X (1..text.len) |->
                SplitSpan(text, max, 6 - d, IF d = 0 THEN <<>> ELSE split[d - 1], span[1], span[2])]
    IN  split

RecursiveSplit(text, max) == Splitting(text, max)[5][<<1, text.len>>]

\* _merge_small_parts: a part below the minimum takes the next one in if they
\* fit; a last one below it joins the part before it, or is dropped.
Joined(parts, part) == Append(Front(parts), <<Last(parts)[1], part[2]>>)
Fits(part, next, max) == Length(part) + Length(next) <= max

WithPart(acc, part, min, max) ==
    IF acc # <<>> /\ Length(Last(acc)) < min /\ Fits(Last(acc), part, max)
    THEN Joined(acc, part) ELSE Append(acc, part)

Merging(parts, min, max) ==
    LET after[n \in 0..Len(parts)] ==
            IF n = 0 THEN <<>> ELSE WithPart(after[n - 1], parts[n], min, max)
    IN  after

\* Mutant of MergeSmall: a small last part is dropped, whether it fits or not.
MergeSmallDropping(parts, min, max) ==
    LET all == Merging(parts, min, max)[Len(parts)]
    IN  IF min = 0 \/ Len(all) < 2 \/ Length(Last(all)) >= min THEN all ELSE Front(all)

MergeSmall(parts, min, max) ==
    LET all == Merging(parts, min, max)[Len(parts)]
    IN  IF min = 0 \/ Len(all) < 2 \/ Length(Last(all)) >= min THEN all
        ELSE IF Fits(Last(Front(all)), Last(all), max) THEN Joined(Front(all), Last(all))
        ELSE Front(all)

\* Mutant of WithOverlap: the overlap is added whatever it makes of the length.
WithOverlapAlways(parts, overlap, max) ==
    [i \in DOMAIN parts |->
        IF i = 1 THEN parts[i] ELSE <<parts[i][1] - overlap, parts[i][2]>>]

\* _apply_overlap: the end of the part before it, as that one has become, is
\* repeated if there is room.
Overlapped(before, part, overlap, max) ==
    LET from == part[1] - overlap
        start == IF from < before[1] THEN before[1] ELSE from
    IN  IF part[2] - start + 1 <= max THEN <<start, part[2]>> ELSE part

WithOverlap(parts, overlap, max) ==
    LET lapped[n \in DOMAIN parts] ==
            IF n = 1 THEN parts[1] ELSE Overlapped(lapped[n - 1], parts[n], overlap, max)
    IN  lapped

SplitText(text, max, overlap, min) ==
    IF text.len = 0 THEN <<>>
    ELSE IF text.len <= max THEN <<<<1, text.len>>>>
    ELSE WithOverlap(MergeSmall(RecursiveSplit(text, max), min, max), overlap, max)
=============================================================================
