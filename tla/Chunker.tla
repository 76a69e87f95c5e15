------------------------------- MODULE Chunker -------------------------------
(***************************************************************************)
(* chunk_document of ingestion/chunkers/, on the blocks of a parsed file.  *)
(*                                                                         *)
(* A parent chunk is named by its block; of its text are kept the blocks   *)
(* it is put together from and how many characters of them the cut leaves. *)
(* A child chunk has a span of its block's text, what strip_text leaves of *)
(* it, and the parent chunk it names, if any.                              *)
(***************************************************************************)
EXTENDS Blocks

CONSTANTS
    Config,     \* child_max_chars, child_overlap_chars, min_child_chars, parent_max_chars
    RawGap      \* what stands between two texts of a Markdown file: breaks, marks

ASSUME ConfigAssumption ==
    /\ \A c \in Config : c.max \in Nat \ {0} /\ c.overlap \in Nat /\ c.min \in Nat /\ c.parent \in Nat \ {0}
    /\ RawGap \in Nat

NoConfig == [max |-> 0, overlap |-> 0, min |-> 0, parent |-> 0]     \* before it is called

VARIABLES config, parents, children

chunks == <<config, parents, children>>

Synthetic == 0  \* _SYNTHETIC_PARENT_BLOCK_ID
NoParent == -1  \* a child without a parent_chunk_id

----------------------------------------------------------------------------
(* Roles.                                                                  *)

\* Blocks that become children: is_child_type(type) and text.
Leaves == {i \in DOMAIN blocks : blocks[i].type \in ChildTypes /\ blocks[i].text.len > 0}

\* nearest_parent_block; 0 for none.
NearestParent(i) ==
    LET up[b \in 0..Len(blocks)] ==
            IF b = 0 \/ IsParentType(b) THEN b ELSE up[blocks[b].parent]
    IN  up[blocks[i].parent]

OwningParents == {NearestParent(i) : i \in Leaves} \ {0}

\* sorted(..., key=order), which is stable.
ByOrder(leaves) ==
    LET Before(i, j) == blocks[i].order < blocks[j].order \/ (blocks[i].order = blocks[j].order /\ i < j)
    IN  InOrderOf(leaves, Before)

\* Mutant of OwnedLeaves: descendant_leaf_blocks, through nested sections.
DescendantLeaves(p) ==
    LET under[b \in DOMAIN blocks] ==
            UNION {({c} \cap Leaves) \cup under[c] : c \in {c \in DOMAIN blocks : blocks[c].parent = b}}
    IN  ByOrder(under[p])

\* owned_leaf_blocks: down from a parent, not into another and not below a leaf.
OwnedLeaves(p) ==
    LET under[b \in DOMAIN blocks] ==
            UNION {IF c \in Leaves THEN {c} ELSE under[c] :
                       c \in {c \in DOMAIN blocks : blocks[c].parent = b /\ ~ IsParentType(c)}}
    IN  ByOrder(under[p])

----------------------------------------------------------------------------
(* Chunks.                                                                 *)

\* assemble_parent_text: the title, then the leaves.
Assembled(p) == (IF blocks[p].text.len > 0 THEN <<p>> ELSE <<>>) \o OwnedLeaves(p)

InFileOrder(indices) == InOrderOf(indices, <)

\* Where each text begins that is joined with others; last, where one more would.
Starts(texts, gap) ==
    LET start[n \in 1..Len(texts) + 1] ==
            IF n = 1 THEN 0 ELSE start[n - 1] + blocks[texts[n - 1]].text.len + gap
    IN  start

\* "\n\n".join(...); raw_text, too, is joined, but for Markdown, where it is the file.
Glue(block) == IF block = Synthetic /\ format = "markdown" THEN RawGap ELSE 2
Size(block, texts) == Starts(texts, Glue(block))[Len(texts) + 1] - Glue(block)

Marker == 7     \* len(_TRUNCATION_MARKER)
Budget(block, max) ==
    IF max > Marker THEN max - Marker ELSE IF block = Synthetic THEN 0 ELSE max

\* Mutant of Kept: a text that fits without the mark is cut for it.
KeptWithMarker(block, size, max) == IF size + Marker <= max THEN size ELSE Budget(block, max)

\* A text that is too long is cut; the spaces then at its end go, too.
Kept(block, size, max) == IF size <= max THEN size ELSE Budget(block, max)

ParentChunk(block, texts, max) ==
    [block |-> block, text |-> texts, kept |-> Kept(block, Size(block, texts), max)]

\* A document none of whose leaves has a section is one parent, its raw_text.
ParentChunks(max) ==
    IF OwningParents # {}
    THEN LET owners == InFileOrder(OwningParents)
         IN  [i \in DOMAIN owners |-> ParentChunk(owners[i], Assembled(owners[i]), max)]
    ELSE IF Leaves # {} THEN <<ParentChunk(Synthetic, InFileOrder(DOMAIN blocks), max)>>
    ELSE <<>>

\* Mutant of ParentOf: no fallback.
ParentOfNearest(i, emitted) ==
    IF NearestParent(i) # 0 /\ NearestParent(i) \in emitted THEN NearestParent(i) ELSE NoParent

\* _resolve_parent_chunk_id, from the parents that have a chunk.
ParentOf(i, emitted) ==
    IF NearestParent(i) # 0 /\ NearestParent(i) \in emitted THEN NearestParent(i)
    ELSE IF Synthetic \in emitted THEN Synthetic
    ELSE NoParent

\* Every separator ends with a space or a line break.
Spaces(text) == UNION {text.ends[l] : l \in Level}

\* Chunk.strip_text
Trimmed(text, span) ==
    LET solid == (span[1]..span[2]) \ Spaces(text)
    IN  {p \in span[1]..span[2] : \E first, last \in solid : first <= p /\ p <= last}

ChildrenOf(i, emitted, c) ==
    LET parts == SplitText(blocks[i].text, c.max, c.overlap, c.min)
    IN  [n \in DOMAIN parts |-> [block |-> i, span |-> parts[n], text |-> Trimmed(blocks[i].text, parts[n]),
                                 parent |-> ParentOf(i, emitted)]]

ChunkDocument ==
    /\ phase = "chunk"
    /\ config' \in Config
    /\ parents' = ParentChunks(config'.parent)
    /\ LET emitted == {parents'[i].block : i \in DOMAIN parents'}
       IN  children' = FlattenSeq([n \in 1..Cardinality(Leaves) |->
                                       ChildrenOf(InFileOrder(Leaves)[n], emitted, config')])
    /\ phase' = "done"
    /\ UNCHANGED <<file, read, blocks, stack, counters>>

ChunkerInit ==
    /\ config = NoConfig
    /\ parents = <<>> /\ children = <<>>

----------------------------------------------------------------------------
(* Properties.                                                             *)

ChunkerTypeOK ==
    /\ config \in Config \cup {NoConfig}
    /\ parents \in Seq([block : 0..Len(blocks), text : Seq(1..Len(blocks)), kept : Int])
    /\ children \in Seq([block : 1..Len(blocks), span : Nat \X Nat, text : SUBSET Nat, parent : Int])

PartsOf(i) ==
    LET own == InOrderOf({n \in DOMAIN children : children[n].block = i}, <)
    IN  [n \in DOMAIN own |-> children[own[n]]]
Pairs(parts) == {<<parts[n].span, parts[n + 1].span>> : n \in 1..Len(parts) - 1}

\* However a text is cut, merged and overlapped, a part is not empty before it is
\* stripped and fits the model (child_max_chars).
PartsFit == \A i \in DOMAIN children : Length(children[i].span) \in 1..config.max

\* The parts of a block go through its text from the beginning without a gap and
\* each goes further, repeating no more than child_overlap_chars.  The text may end
\* with a rest that is in no part, shorter than min_child_chars and too long for the
\* last one.
PartsCover ==
    phase = "done" =>
        \A i \in Leaves :
            LET parts == PartsOf(i)
                last == Last(parts).span
                rest == blocks[i].text.len - last[2]
            IN  /\ parts # <<>> /\ parts[1].span[1] = 1
                /\ \A p \in Pairs(parts) :
                       /\ p[2][1] \in p[1][2] + 1 - config.overlap .. p[1][2] + 1
                       /\ p[2][2] > p[1][2]
                /\ \/ rest = 0
                   \/ rest \in 1..config.min - 1 /\ Length(last) + rest > config.max

\* A text is cut after a separator; only a stretch without one that is too long
\* for a child is cut elsewhere.
CutsAtSeparators ==
    phase = "done" =>
        \A i \in Leaves :
            LET cuts == {p[1][2] : p \in Pairs(PartsOf(i))}
                ends == {0, blocks[i].text.len} \cup UNION {blocks[i].text.ends[l] : l \in Level}
                Stretch(c) == CHOOSE s \in ends \X ends :
                                  s[1] < c /\ c < s[2] /\ \A e \in ends : e <= s[1] \/ s[2] <= e
            IN  \A c \in cuts \ ends : Stretch(c)[2] - Stretch(c)[1] > config.max

\* What no child has of a text is spaces and that rest.
OnlyRestLost ==
    phase = "done" =>
        \A i \in Leaves :
            LET parts == PartsOf(i)
                found == UNION {c.text : c \in ToSet(parts)}
            IN  \A p \in 1..blocks[i].text.len :
                    p \in Spaces(blocks[i].text) \/ p \in found \/ p > Last(parts).span[2]

\* A child is empty, a part of spaces, only behind another space or behind a word
\* as long as a child may be (or at the beginning of a text that begins with one).
BlankOnlyWhereForced ==
    \A n \in DOMAIN children :
        children[n].text = {} =>
            LET spaces == Spaces(blocks[children[n].block].text)
                from == children[n].span[1]
            IN  \E p \in from..children[n].span[2] :
                    p = 1 \/ p - 1 \in spaces \/ (p - config.max >= 1 /\ (p - config.max .. p - 1) \cap spaces = {})

\* Going up from a leaf and down from a parent agree: the leaf is among the texts
\* that one parent is put together from, the parent its children name, or in none
\* and they name none.
LeavesInOneParent ==
    phase = "done" =>
        \A i \in Leaves :
            LET holders == {n \in DOMAIN parents : i \in ToSet(parents[n].text)}
                named == {c.parent : c \in ToSet(PartsOf(i))}
            IN  \/ named = {NoParent} /\ holders = {}
                \/ \E n \in DOMAIN parents : holders = {n} /\ named = {parents[n].block}

\* Only what stands before the first heading has no parent to be shown in, and
\* only if some text stands below a heading.
OnlyPreambleIsOrphan ==
    \A n \in DOMAIN children :
        children[n].parent = NoParent =>
            /\ \A b \in 1..children[n].block : ~ IsParentType(b)
            /\ \E i \in Leaves : NearestParent(i) # 0

\* In a parent's text the leaves of one type follow each other as they were read,
\* though each type is numbered by itself, and so do list items and paragraphs
\* of a web page, which share a counter.
KindsInOrder ==
    \A n \in DOMAIN parents :
        LET text == parents[n].text
            Together(x, y) ==
                \/ blocks[text[x]].type = blocks[text[y]].type
                \/ /\ format = "html"
                   /\ {blocks[text[x]].type, blocks[text[y]].type} = {"paragraph", "list_item"}
        IN  \A x, y \in DOMAIN text : x < y /\ Together(x, y) => text[x] < text[y]

\* A match is answered with a parent that has the whole text of the child, unless
\* that parent is longer than parent_max_chars and cut; a cut leaves that many
\* characters but for the mark.
HasTextOf(parent, child) ==
    \E x \in DOMAIN parent.text :
        /\ parent.text[x] = child.block
        /\ \A p \in child.text : Starts(parent.text, Glue(parent.block))[x] + p <= parent.kept
CutForLength(parent) ==
    Size(parent.block, parent.text) > config.parent /\ parent.kept >= config.parent - Marker
MatchesShown ==
    \A n \in DOMAIN children :
        children[n].parent = NoParent
        \/ \E m \in DOMAIN parents :
               /\ parents[m].block = children[n].parent
               /\ HasTextOf(parents[m], children[n]) \/ CutForLength(parents[m])

\* Of a text that is split nothing is lost but spaces and a short rest at its end,
\* no word that fits is broken, and no part is of spaces only without need.
SplitsCleanly == PartsFit /\ PartsCover /\ CutsAtSeparators /\ OnlyRestLost /\ BlankOnlyWhereForced

\* What a reader is shown for a match: the one parent put together from the matched
\* text and others, if there is one, with that text in it unless it is cut, in the
\* order of the file within each kind of block.
ParentsShowTheirLeaves == LeavesInOneParent /\ OnlyPreambleIsOrphan /\ MatchesShown /\ KindsInOrder
=============================================================================
