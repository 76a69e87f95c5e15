--------------------------- MODULE OutlineProofs ----------------------------
(***************************************************************************)
(* What Documents promises of the blocks that a file becomes, for files of *)
(* any size: every text is in one of them, they hang below the right one,  *)
(* no two have one name that are not rows of two tables, and a parent      *)
(* shows the leaves that name it.                                          *)
(***************************************************************************)
EXTENDS DocumentsProofs

----------------------------------------------------------------------------
(* The parent of a leaf.                                                   *)

\* The children of a leaf name one parent.
LEMMA NamedIs ==
    ASSUME TypeInv, phase = "done", NEW i \in Leaves
    PROVE  {c.parent : c \in ToSet(PartsOf(i))} = {ParentOf(i, Emitted)}
<1>0. PICK parts : parts = PartsOf(i)
  OBVIOUS
<1>1. PICK m \in Nat \ {0} :
          /\ m = Len(CutOf(i, config)) /\ parts \in Seq(Child) /\ Len(parts) = m
          /\ \A n \in 1..m : parts[n].parent = ParentOf(i, Emitted)
  BY <1>0, PartsAre
<1>2. DOMAIN parts = 1..m /\ 1 \in 1..m
  BY <1>1
<1>3. ToSet(parts) = {parts[n] : n \in 1..m}
  BY <1>2 DEF ToSet
<1>4. {c.parent : c \in ToSet(parts)} = {parts[n].parent : n \in 1..m}
  BY <1>3
<1>5. {parts[n].parent : n \in 1..m} = {ParentOf(i, Emitted)}
  BY <1>1, <1>2
<1> QED
  BY <1>0, <1>4, <1>5

\* A parent's text has the parent itself and the leaves below it, no others.
LEMMA ShownIn ==
    ASSUME Forest(blocks), NEW p \in 1..Len(blocks), NEW text, NEW sorted, Shows(text, p, sorted), IsParentType(p),
           NEW i \in Leaves
    PROVE  i \in ToSet(text) <=> blocks[i].parent = p
<1>1. PICK m \in Nat, k \in Nat : m = Len(blocks) /\ k = Len(text)
  BY ForestTyped DEF Shows
<1>2. text \in Seq(1..m) /\ DOMAIN text = 1..k /\ ToSet(text) = {text[n] : n \in 1..k}
  BY <1>1 DEF Shows, ToSet
<1>3. ~ IsParentType(i)
  BY LeavesAre
<1>4. PICK c \in Nat : /\ c = Cardinality(Below(p)) /\ c = Len(sorted)
                       /\ \A n \in 1..c : sorted[n] \in Below(p)
                       /\ \A x \in Below(p) : \E n \in 1..c : sorted[n] = x
  BY DEF Shows, InOrderBy
<1>5. i \in Below(p) <=> blocks[i].parent = p
  BY DEF Below
<1>6. CASE text = sorted
  BY <1>1, <1>2, <1>4, <1>5, <1>6
<1>7. CASE Len(text) = Len(sorted) + 1 /\ text[1] = p /\ \A n \in 1..Len(sorted) : text[n + 1] = sorted[n]
  <2>1. k = c + 1 /\ text[1] = p /\ \A n \in 1..c : text[n + 1] = sorted[n]
    BY <1>1, <1>4, <1>7
  <2>2. ASSUME i \in ToSet(text) PROVE i \in Below(p)
    <3>1. PICK n \in 1..k : text[n] = i
      BY <1>2, <2>2
    <3>2. n # 1
      BY <1>3, <2>1, <3>1
    <3>3. n - 1 \in 1..c /\ (n - 1) + 1 = n
      BY <2>1, <3>1, <3>2
    <3> QED
      BY <1>4, <2>1, <3>1, <3>3
  <2>3. ASSUME i \in Below(p) PROVE i \in ToSet(text)
    <3>1. PICK n \in 1..c : sorted[n] = i
      BY <1>4, <2>3
    <3>2. n + 1 \in 1..k /\ text[n + 1] = i
      BY <2>1, <3>1
    <3> QED
      BY <1>2, <3>2
  <2> QED
    BY <1>5, <2>2, <2>3
<1> QED
  BY <1>6, <1>7 DEF Shows

LEMMA InOneParent ==
    ASSUME TypeInv, phase = "done", NEW i \in Leaves
    PROVE  LET holders == {n \in DOMAIN parents : i \in ToSet(parents[n].text)}
           IN  \/ ParentOf(i, Emitted) = NoParent /\ holders = {}
               \/ \E n \in DOMAIN parents : holders = {n} /\ ParentOf(i, Emitted) = parents[n].block
<1> DEFINE holders == {n \in DOMAIN parents : i \in ToSet(parents[n].text)}
<1>1. Forest(blocks) /\ config \in Config /\ parents = ParentChunks(config.parent)
  BY DEF TypeInv, ChunksInv
<1>2. PICK m \in Nat : m = Len(blocks) /\ i \in 1..m /\ NearestParent(i) = blocks[i].parent
  BY <1>1, ForestTyped, LeavesAre, NearestIs
<1>3. parents \in Seq(ParentType)
  BY <1>1, ParentsAre
<1>4. ASSUME NEW owners, Owned(owners)
      PROVE  \/ ParentOf(i, Emitted) = NoParent /\ holders = {}
             \/ \E n \in DOMAIN parents : holders = {n} /\ ParentOf(i, Emitted) = parents[n].block
  <2>1. PICK c \in Nat : c = Len(owners) /\ c = Len(parents) /\ DOMAIN parents = 1..c
    BY <1>3, <1>4 DEF Owned, Increasing
  <2>2. ASSUME NEW k \in 1..c
        PROVE  /\ owners[k] \in OwningParents /\ parents[k].block = owners[k] /\ owners[k] \in 1..m
               /\ i \in ToSet(parents[k].text) <=> blocks[i].parent = owners[k]
    <3>1. owners[k] \in OwningParents /\ parents[k].block = owners[k]
      BY <1>4, <2>1 DEF Owned
    <3>2. PICK sorted : Shows(parents[k].text, owners[k], sorted)
      BY <1>4, <2>1 DEF Owned
    <3>3. owners[k] \in 1..m /\ IsParentType(owners[k])
      BY <1>1, <1>2, <3>1, OwnersAre
    <3> QED
      BY <1>1, <1>2, <3>1, <3>2, <3>3, ShownIn
  <2>3. Emitted = {owners[k] : k \in 1..c}
    BY <2>1, <2>2 DEF Emitted
  <2>4. /\ \A k, l \in 1..c : owners[k] = owners[l] => k = l
        /\ \A x \in OwningParents : \E k \in 1..c : owners[k] = x
    <3>1. \A k \in 1..c : owners[k] \in Int
      BY <2>2
    <3>2. \A k, l \in 1..c : k < l => owners[k] < owners[l]
      BY <1>4, <2>1 DEF Owned, Increasing
    <3>3. \A x \in OwningParents : \E k \in 1..c : owners[k] = x
      BY <1>4, <2>1 DEF Owned, Increasing
    <3> QED
      BY <3>1, <3>2, <3>3
  <2>5. CASE blocks[i].parent = 0
    <3>1. holders = {}
      BY <2>1, <2>2, <2>5
    <3>2. Synthetic \notin Emitted
      BY <2>2, <2>3 DEF Synthetic
    <3>3. ParentOf(i, Emitted) = NoParent
      BY <1>2, <2>5, <3>2 DEF ParentOf
    <3> QED
      BY <3>1, <3>3
  <2>6. CASE blocks[i].parent # 0
    <3>1. blocks[i].parent \in OwningParents
      BY <1>1, <2>6, OwnersAre
    <3>2. PICK k \in 1..c : owners[k] = blocks[i].parent
      BY <2>4, <3>1
    <3>3. holders = {k}
      BY <2>1, <2>2, <2>4, <3>2
    <3>4. blocks[i].parent \in Emitted
      BY <2>3, <3>2
    <3>5. ParentOf(i, Emitted) = parents[k].block
      BY <1>2, <2>2, <2>6, <3>2, <3>4 DEF ParentOf
    <3> QED
      BY <2>1, <3>3, <3>5
  <2> QED
    BY <2>5, <2>6
<1>5. ASSUME Synthesized
      PROVE  \E n \in DOMAIN parents : holders = {n} /\ ParentOf(i, Emitted) = parents[n].block
  <2>1. DOMAIN parents = 1..1 /\ 1..1 = {1}
    BY <1>3, <1>5 DEF Synthesized
  <2>2. PICK text : text = parents[1].text /\ Increasing(text, 1..m)
    BY <1>2, <1>5 DEF Synthesized
  <2>3. PICK k \in 1..Len(text) : text[k] = i
    BY <1>2, <2>2 DEF Increasing
  <2>4. DOMAIN text = 1..Len(text)
    BY <2>2 DEF Increasing
  <2>5. i \in ToSet(text)
    BY <2>3, <2>4 DEF ToSet
  <2>6. holders = {1}
    BY <2>1, <2>2, <2>5
  <2>7. blocks[i].parent = 0
    BY <1>1, <1>5, OwnersAre DEF Synthesized
  <2>8. Emitted = {Synthetic} /\ parents[1].block = Synthetic
    BY <1>5, <2>1 DEF Emitted, Synthesized
  <2>9. ParentOf(i, Emitted) = Synthetic
    BY <1>2, <2>7, <2>8 DEF ParentOf
  <2> QED
    BY <2>1, <2>6, <2>8, <2>9
<1>6. ~ (Leaves = {} /\ parents = <<>>)
  OBVIOUS
<1> HIDE DEF holders
<1>7. \/ ParentOf(i, Emitted) = NoParent /\ holders = {}
      \/ \E n \in DOMAIN parents : holders = {n} /\ ParentOf(i, Emitted) = parents[n].block
  BY <1>1, <1>4, <1>5, <1>6, ParentsAre
<1> QED
  BY <1>7 DEF holders

LEMMA OneParentEach == TypeInv => LeavesInOneParent
<1> SUFFICES ASSUME TypeInv, phase = "done", NEW i \in Leaves
             PROVE  LET holders == {n \in DOMAIN parents : i \in ToSet(parents[n].text)}
                        named == {c.parent : c \in ToSet(PartsOf(i))}
                    IN  \/ named = {NoParent} /\ holders = {}
                        \/ \E n \in DOMAIN parents : holders = {n} /\ named = {parents[n].block}
  BY DEF LeavesInOneParent
<1>1. {c.parent : c \in ToSet(PartsOf(i))} = {ParentOf(i, Emitted)}
  BY NamedIs
<1> QED
  BY <1>1, InOneParent

----------------------------------------------------------------------------
(* The numbers of blocks, and what hangs below nothing.                    *)

\* A parser that counts each kind of block by itself numbers them as it adds them.
OutlineTags ==
    [t \in {"section", "paragraph", "list_item", "code_block", "table_row"} |->
        CASE t = "section" -> [name |-> "sec", counter |-> "section"]
          [] t = "paragraph" -> [name |-> "p", counter |-> "paragraph"]
          [] t = "list_item" -> [name |-> "li", counter |-> "paragraph"]
          [] t = "code_block" -> [name |-> "code", counter |-> "code"]
          [] t = "table_row" -> [name |-> "row", counter |-> "row"]]
PdfTags ==
    [t \in {"section", "paragraph", "list_item", "figure", "table"} |->
        CASE t = "section" -> [name |-> "sec", counter |-> "section"]
          [] t = "paragraph" -> [name |-> "p", counter |-> "paragraph"]
          [] t = "list_item" -> [name |-> "li", counter |-> "list"]
          [] t = "figure" -> [name |-> "fig", counter |-> "figure"]
          [] t = "table" -> [name |-> "tbl", counter |-> "table"]]

Numbers(bs, cnt, tags) ==
    /\ \A i \in 1..Len(bs) :
           bs[i].type \in DOMAIN tags =>
               /\ bs[i].id = Named(tags[bs[i].type].name, bs[i].order)
               /\ bs[i].order <= cnt[tags[bs[i].type].counter]
    /\ \A i, j \in 1..Len(bs) :
           /\ i < j /\ bs[i].type \in DOMAIN tags /\ bs[j].type \in DOMAIN tags
           /\ tags[bs[i].type].counter = tags[bs[j].type].counter
           => bs[i].order < bs[j].order

OutlineNumbers(bs, cnt) ==
    /\ Numbers(bs, cnt, OutlineTags)
    /\ \A i \in 1..Len(bs) : bs[i].type \in DOMAIN OutlineTags

LEMMA OutlineTagsAre ==
    /\ DOMAIN OutlineTags = {"section", "paragraph", "list_item", "code_block", "table_row"}
    /\ OutlineTags["section"] = [name |-> "sec", counter |-> "section"]
    /\ OutlineTags["paragraph"] = [name |-> "p", counter |-> "paragraph"]
    /\ OutlineTags["list_item"] = [name |-> "li", counter |-> "paragraph"]
    /\ OutlineTags["code_block"] = [name |-> "code", counter |-> "code"]
    /\ OutlineTags["table_row"] = [name |-> "row", counter |-> "row"]
    /\ \A t \in DOMAIN OutlineTags : OutlineTags[t].counter \in Counter
BY DEF OutlineTags, Counter

LEMMA PdfTagsAre ==
    /\ DOMAIN PdfTags = {"section", "paragraph", "list_item", "figure", "table"}
    /\ PdfTags["section"] = [name |-> "sec", counter |-> "section"]
    /\ PdfTags["paragraph"] = [name |-> "p", counter |-> "paragraph"]
    /\ PdfTags["list_item"] = [name |-> "li", counter |-> "list"]
    /\ PdfTags["figure"] = [name |-> "fig", counter |-> "figure"]
    /\ PdfTags["table"] = [name |-> "tbl", counter |-> "table"]
    /\ \A t \in DOMAIN PdfTags : PdfTags[t].counter \in Counter
BY DEF PdfTags, Counter

\* What Append makes of a sequence.
Appended(bs, b, cs) ==
    /\ Len(cs) = Len(bs) + 1 /\ cs[Len(bs) + 1] = b
    /\ \A i \in 1..Len(bs) : cs[i] = bs[i]

LEMMA AppendIs ==
    ASSUME NEW bs, Forest(bs), NEW b
    PROVE  Appended(bs, b, Append(bs, b))
BY DEF Forest, Appended

LEMMA NumbersTagged ==
    ASSUME NEW bs, Forest(bs), NEW b, NEW cs, Appended(bs, b, cs), NEW tags, NEW cnt \in [Counter -> Nat],
           NEW new \in [Counter -> Nat], Numbers(bs, cnt, tags), \A t \in DOMAIN tags : tags[t].counter \in Counter,
           b.type \in DOMAIN tags, b.order \in Nat, b.id = Named(tags[b.type].name, b.order),
           b.order = cnt[tags[b.type].counter] + 1,
           new[tags[b.type].counter] = b.order,
           \A c \in Counter : c # tags[b.type].counter => new[c] = cnt[c]
    PROVE  Numbers(cs, new, tags)
<1>1. PICK m \in Nat : m = Len(bs) /\ m + 1 = Len(cs) /\ cs[m + 1] = b /\ \A i \in 1..m : cs[i] = bs[i]
  BY ForestTyped DEF Appended
<1>2. \A i \in 1..m + 1 : i = m + 1 \/ i \in 1..m
  OBVIOUS
<1>3. \A c \in Counter : new[c] \in Nat /\ cnt[c] \in Nat /\ cnt[c] <= new[c]
  <2> TAKE c \in Counter
  <2>1. new[c] \in Nat /\ cnt[c] \in Nat
    OBVIOUS
  <2>2. CASE c = tags[b.type].counter
    BY <2>1, <2>2
  <2>3. CASE c # tags[b.type].counter
    BY <2>1, <2>3
  <2> QED
    BY <2>1, <2>2, <2>3
<1>4. ASSUME NEW i \in 1..m, bs[i].type \in DOMAIN tags
      PROVE  /\ bs[i].id = Named(tags[bs[i].type].name, bs[i].order) /\ bs[i].order \in Nat
             /\ bs[i].order <= cnt[tags[bs[i].type].counter] /\ tags[bs[i].type].counter \in Counter
  BY <1>1, <1>4, ForestTyped DEF Numbers
<1>5. ASSUME NEW i \in 1..m + 1, cs[i].type \in DOMAIN tags
      PROVE  /\ cs[i].id = Named(tags[cs[i].type].name, cs[i].order)
             /\ cs[i].order <= new[tags[cs[i].type].counter]
  <2>1. CASE i = m + 1
    BY <1>1, <2>1
  <2>2. CASE i \in 1..m
    <3>1. cs[i] = bs[i]
      BY <1>1, <2>2
    <3>2. PICK c \in Counter : c = tags[bs[i].type].counter
      BY <1>4, <1>5, <2>2, <3>1
    <3>3. bs[i].order \in Nat /\ bs[i].order <= cnt[c] /\ cnt[c] \in Nat /\ new[c] \in Nat /\ cnt[c] <= new[c]
      BY <1>3, <1>4, <1>5, <2>2, <3>1, <3>2
    <3>4. bs[i].order <= new[c]
      BY <3>3
    <3> QED
      BY <1>4, <1>5, <2>2, <3>1, <3>2, <3>4
  <2> QED
    BY <1>2, <2>1, <2>2
<1>6. ASSUME NEW i \in 1..m + 1, NEW j \in 1..m + 1, i < j, cs[i].type \in DOMAIN tags, cs[j].type \in DOMAIN tags,
             tags[cs[i].type].counter = tags[cs[j].type].counter
      PROVE  cs[i].order < cs[j].order
  <2>1. i \in 1..m /\ cs[i] = bs[i]
    BY <1>1, <1>6
  <2>2. CASE j = m + 1
    <3>1. cs[j] = b
      BY <1>1, <2>2
    <3>2. PICK c \in Counter : c = tags[b.type].counter
      OBVIOUS
    <3>3. bs[i].order \in Nat /\ bs[i].order <= cnt[c] /\ cnt[c] \in Nat /\ b.order = cnt[c] + 1
      BY <1>3, <1>4, <1>6, <2>1, <3>1, <3>2
    <3> QED
      BY <2>1, <3>1, <3>3
  <2>3. CASE j \in 1..m
    <3>1. cs[j] = bs[j]
      BY <1>1, <2>3
    <3> QED
      BY <1>1, <1>6, <2>1, <2>3, <3>1 DEF Numbers
  <2> QED
    BY <1>2, <2>2, <2>3
<1> QED
  BY <1>1, <1>5, <1>6 DEF Numbers

LEMMA NumbersUntagged ==
    ASSUME NEW bs, Forest(bs), NEW b, NEW cs, Appended(bs, b, cs), NEW tags, NEW cnt, Numbers(bs, cnt, tags),
           b.type \notin DOMAIN tags
    PROVE  Numbers(cs, cnt, tags)
<1>1. PICK m \in Nat : m = Len(bs) /\ m + 1 = Len(cs) /\ cs[m + 1] = b /\ \A i \in 1..m : cs[i] = bs[i]
  BY ForestTyped DEF Appended
<1>2. \A i \in 1..m + 1 : cs[i].type \in DOMAIN tags => i \in 1..m /\ cs[i] = bs[i]
  <2> TAKE i \in 1..m + 1
  <2>1. i = m + 1 \/ i \in 1..m
    OBVIOUS
  <2> QED
    BY <1>1, <2>1
<1> QED
  BY <1>1, <1>2 DEF Numbers

\* What stands before the first heading, and nothing else, hangs below nothing.
Headings == {"markdown", "docx", "html"}
Preamble(bs, open, fmt) ==
    /\ \A i \in 1..Len(bs) :
           bs[i].parent = 0 /\ bs[i].type \in ChildTypes => \A b \in 1..i : bs[b].type \notin ParentTypes
    /\ fmt \in Headings /\ open = <<>> => \A b \in 1..Len(bs) : bs[b].type \notin ParentTypes

\* A parser that knows headings adds a section, or a leaf below the last.
AddsLeaf ==
    \E type \in DOMAIN OutlineTags \ {"section"} : \E text, units :
        AddLeaf(type, OutlineTags[type].name, OutlineTags[type].counter, text, units)
AddsSection == \E units, level, text : AddSection(units, level, text)
Headed == Skip \/ AddsSection \/ AddsLeaf

LEMMA MarkdownHeaded ==
    ASSUME MarkdownStep
    PROVE  Headed /\ format' = format /\ format = "markdown"
<1>1. \A text, units : AddLeaf("paragraph", "p", "paragraph", text, units) => AddsLeaf
  BY OutlineTagsAre DEF AddsLeaf
<1>2. EndCode => AddsLeaf
  <2>1. \A text, units : AddLeaf("code_block", "code", "code", text, units) => AddsLeaf
    BY OutlineTagsAre DEF AddsLeaf
  <2> QED
    BY <2>1 DEF EndCode
<1>3. CASE ReadHeading
  BY <1>3 DEF ReadHeading, ReadsLine, file, Headed, AddsSection
<1>4. CASE ReadParagraph
  BY <1>1, <1>4 DEF ReadParagraph, ReadsLine, file, Headed
<1>5. CASE ReadBlank \/ OpenFence \/ ReadCode
  BY <1>5 DEF ReadBlank, OpenFence, ReadCode, ReadsLine, file, Headed
<1>6. CASE CloseFence
  BY <1>2, <1>6 DEF CloseFence, ReadsLine, file, Headed
<1>7. CASE EndOfFile
  BY <1>2, <1>7 DEF EndOfFile, AtEnd, file, Headed
<1> QED
  BY <1>3, <1>4, <1>5, <1>6, <1>7 DEF MarkdownStep

LEMMA OutlineHeaded ==
    ASSUME OutlineStep, format \in {"docx", "html"}
    PROVE  Headed /\ format' = format
<1>0. \A text, units : /\ AddLeaf("paragraph", "p", "paragraph", text, units) => AddsLeaf
                       /\ AddLeaf("table_row", "row", "row", text, units) => AddsLeaf
                       /\ AddLeaf("code_block", "code", "code", text, units) => AddsLeaf
                       /\ AddLeaf("list_item", "li", "paragraph", text, units) => AddsLeaf
  BY OutlineTagsAre DEF AddsLeaf
<1>1. CASE DocxBlank \/ HtmlBlank \/ HtmlOther \/ OutlineEnd
  BY <1>1 DEF DocxBlank, HtmlBlank, HtmlOther, OutlineEnd, Docx, Html, Reads, file, Headed
<1>2. CASE DocxHeading \/ HtmlHeading
  BY <1>2 DEF DocxHeading, HtmlHeading, Docx, Html, Reads, file, Headed, AddsSection
<1>3. CASE DocxParagraph \/ DocxRow
  BY <1>0, <1>3 DEF DocxParagraph, DocxRow, Docx, Reads, file, Headed
<1>4. CASE HtmlPre \/ HtmlItem \/ HtmlParagraph
  BY <1>0, <1>4 DEF HtmlPre, HtmlItem, HtmlParagraph, Html, Reads, file, Headed
<1>5. ~ (ReadSlide \/ ReadShape \/ SkipShape \/ BeginTable \/ ReadRow \/ ReadNotes)
  BY DEF ReadSlide, ReadShape, SkipShape, BeginTable, ReadRow, ReadNotes, Pptx, Reads
<1>6. ~ (AddRoot \/ ReadRecord \/ SkipScalar)
  BY DEF AddRoot, ReadRecord, SkipScalar, Reads
<1> QED
  BY <1>1, <1>2, <1>3, <1>4, <1>5, <1>6 DEF OutlineStep

\* A block added below the last heading.
LEMMA PreambleKept ==
    ASSUME NEW bs, Forest(bs), NEW b, NEW cs, Appended(bs, b, cs), NEW open, NEW new, NEW fmt,
           Preamble(bs, open, fmt),
           b.type \in ChildTypes /\ b.parent = 0 => fmt \in Headings /\ open = <<>>,
           fmt \in Headings /\ new = <<>> => open = <<>> /\ b.type \notin ParentTypes
    PROVE  Preamble(cs, new, fmt)
<1>1. PICK m \in Nat : m = Len(bs) /\ m + 1 = Len(cs) /\ cs[m + 1] = b /\ \A i \in 1..m : cs[i] = bs[i]
  BY ForestTyped DEF Appended
<1>2. \A i \in 1..m + 1 : i = m + 1 \/ i \in 1..m
  OBVIOUS
<1>3. ASSUME NEW i \in 1..m + 1, cs[i].parent = 0, cs[i].type \in ChildTypes, NEW k \in 1..i
      PROVE  cs[k].type \notin ParentTypes
  <2>1. CASE i = m + 1
    <3>1. cs[i] = b /\ fmt \in Headings /\ open = <<>>
      BY <1>1, <1>3, <2>1
    <3>2. \A a \in 1..m : bs[a].type \notin ParentTypes
      BY <1>1, <3>1 DEF Preamble
    <3>3. b.type \notin ParentTypes
      BY <1>3, <3>1, Kinds
    <3>4. k = m + 1 \/ k \in 1..m
      BY <1>2, <2>1
    <3> QED
      BY <1>1, <3>2, <3>3, <3>4
  <2>2. CASE i \in 1..m
    <3>1. k \in 1..m /\ cs[i] = bs[i] /\ cs[k] = bs[k]
      BY <1>1, <2>2
    <3> QED
      BY <1>1, <1>3, <2>2, <3>1 DEF Preamble
  <2> QED
    BY <1>2, <2>1, <2>2
<1>4. ASSUME fmt \in Headings, new = <<>>, NEW k \in 1..m + 1
      PROVE  cs[k].type \notin ParentTypes
  <2>1. open = <<>> /\ b.type \notin ParentTypes
    BY <1>4
  <2>2. \A a \in 1..m : bs[a].type \notin ParentTypes
    BY <1>1, <1>4, <2>1 DEF Preamble
  <2> QED
    BY <1>1, <1>2, <2>1, <2>2
<1> QED
  BY <1>1, <1>3, <1>4 DEF Preamble

LEMMA TopIs ==
    ASSUME NEW bs, Forest(bs), NEW open, NEW levels, Open(open, bs, levels), NEW root
    PROVE  IF open = <<>> THEN Top(open, root) = root ELSE Top(open, root) \in 1..Len(bs)
<1>1. CASE open = <<>>
  BY <1>1 DEF Top
<1>2. CASE open # <<>>
  <2>1. PICK n \in Nat \ {0} : n = Len(open)
    BY <1>2, EmptySeq DEF Open
  <2>2. n \in 1..n
    OBVIOUS
  <2>3. Last(open) = open[n]
    BY <2>1 DEF Last
  <2>4. open[n] \in [block : 1..Len(bs), level : levels]
    <3>1. open \in Seq([block : 1..Len(bs), level : levels]) /\ n \in 1..Len(open)
      BY <2>1, <2>2 DEF Open
    <3> QED
      BY <3>1, Entry
  <2> QED
    BY <1>2, <2>3, <2>4 DEF Top
<1> QED
  BY <1>1, <1>2

LEMMA AppendedTypes ==
    ASSUME NEW bs, Forest(bs), NEW b, NEW cs, Appended(bs, b, cs), NEW T, b.type \in T,
           \A i \in 1..Len(bs) : bs[i].type \in T
    PROVE  \A i \in 1..Len(cs) : cs[i].type \in T
<1>1. PICK m \in Nat : m = Len(bs) /\ m + 1 = Len(cs) /\ cs[m + 1] = b /\ \A i \in 1..m : cs[i] = bs[i]
  BY ForestTyped DEF Appended
<1>2. \A i \in 1..m + 1 : i = m + 1 \/ i \in 1..m
  OBVIOUS
<1> QED
  BY <1>1, <1>2

LEMMA HeadedNumbers ==
    ASSUME Forest(blocks), Open(stack, blocks, 1..6), Counting, format \in Headings, Headed,
           counters' \in [Counter -> Nat],
           OutlineNumbers(blocks, counters), Preamble(blocks, stack, format)
    PROVE  OutlineNumbers(blocks', counters') /\ Preamble(blocks', stack', format)
<1>1. CASE Skip
  BY <1>1 DEF Skip
<1>2. ASSUME AddsLeaf PROVE OutlineNumbers(blocks', counters') /\ Preamble(blocks', stack', format)
  <2>0. PICK type \in DOMAIN OutlineTags \ {"section"} : \E text, units :
            AddLeaf(type, OutlineTags[type].name, OutlineTags[type].counter, text, units)
    BY <1>2 DEF AddsLeaf
  <2>1. PICK text, units : AddLeaf(type, OutlineTags[type].name, OutlineTags[type].counter, text, units)
    BY <2>0
  <2>2. PICK c \in Counter : c = OutlineTags[type].counter
    BY OutlineTagsAre
  <2>3. PICK b : b = NewBlock(type, Named(OutlineTags[type].name, Number(c)), Top(stack, 0), Number(c), text, units)
    OBVIOUS
  <2>4. b.type = type /\ b.order = Number(c) /\ b.parent = Top(stack, 0) /\ b.id = Named(OutlineTags[type].name, Number(c))
    BY <2>3 DEF NewBlock
  <2>5. blocks' = Append(blocks, b) /\ counters' = Counted(c) /\ stack' = stack
    BY <2>1, <2>2, <2>3 DEF AddLeaf
  <2>6. Appended(blocks, b, blocks')
    BY <2>5, AppendIs
  <2>7. /\ Number(c) \in Nat /\ Number(c) = counters[c] + 1
        /\ counters'[c] = Number(c) /\ \A d \in Counter : d # c => counters'[d] = counters[d]
    BY <2>5, CountedTyped
  <2>8. Numbers(blocks, counters, OutlineTags) /\ \A i \in 1..Len(blocks) : blocks[i].type \in DOMAIN OutlineTags
    BY DEF OutlineNumbers
  <2>9. Numbers(blocks', counters', OutlineTags)
    <3>1. counters \in [Counter -> Nat]
      BY DEF Counting
    <3>2. /\ b.type \in DOMAIN OutlineTags /\ b.order \in Nat /\ b.id = Named(OutlineTags[b.type].name, b.order)
          /\ b.order = counters[OutlineTags[b.type].counter] + 1
          /\ counters'[OutlineTags[b.type].counter] = b.order
          /\ \A d \in Counter : d # OutlineTags[b.type].counter => counters'[d] = counters[d]
      BY <2>2, <2>4, <2>7
    <3> QED
      BY <2>6, <2>8, <3>1, <3>2, OutlineTagsAre, NumbersTagged
  <2>10. \A i \in 1..Len(blocks') : blocks'[i].type \in DOMAIN OutlineTags
    BY <2>4, <2>6, <2>8, AppendedTypes
  <2>11. type \in ChildTypes /\ type \notin ParentTypes
    BY <2>1, OutlineTagsAre DEF ChildTypes, ParentTypes
  <2>12. IF stack = <<>> THEN Top(stack, 0) = 0 ELSE Top(stack, 0) \in 1..Len(blocks)
    BY TopIs
  <2>13. b.parent = 0 => stack = <<>>
    BY <2>4, <2>12
  <2>14. Preamble(blocks', stack', format)
    BY <2>4, <2>5, <2>6, <2>11, <2>13, PreambleKept
  <2> QED
    BY <2>9, <2>10, <2>14 DEF OutlineNumbers
<1>3. ASSUME AddsSection PROVE OutlineNumbers(blocks', counters') /\ Preamble(blocks', stack', format)
  <2>1. PICK units, level, text : AddSection(units, level, text)
    BY <1>3 DEF AddsSection
  <2>2. PICK open : open = Popped(stack, level)
    OBVIOUS
  <2>3. PICK b : b = NewBlock("section", Named("sec", Number("section")), Top(open, 0), Number("section"), text, units)
    OBVIOUS
  <2>4. b.type = "section" /\ b.order = Number("section") /\ b.id = Named("sec", Number("section"))
    BY <2>3 DEF NewBlock
  <2>5. blocks' = Append(blocks, b) /\ counters' = Counted("section")
        /\ stack' = Append(open, [block |-> Len(blocks) + 1, level |-> level])
    BY <2>1, <2>2, <2>3 DEF AddSection
  <2>6. Appended(blocks, b, blocks')
    BY <2>5, AppendIs
  <2>7. /\ Number("section") \in Nat /\ Number("section") = counters["section"] + 1 /\ "section" \in Counter
        /\ counters'["section"] = Number("section") /\ \A d \in Counter : d # "section" => counters'[d] = counters[d]
    <3>1. "section" \in Counter
      BY DEF Counter
    <3> QED
      BY <2>5, <3>1, CountedTyped
  <2>8. Numbers(blocks, counters, OutlineTags) /\ \A i \in 1..Len(blocks) : blocks[i].type \in DOMAIN OutlineTags
    BY DEF OutlineNumbers
  <2>9. Numbers(blocks', counters', OutlineTags)
    <3>1. counters \in [Counter -> Nat]
      BY DEF Counting
    <3>2. /\ b.type \in DOMAIN OutlineTags /\ b.order \in Nat /\ b.id = Named(OutlineTags[b.type].name, b.order)
          /\ b.order = counters[OutlineTags[b.type].counter] + 1
          /\ counters'[OutlineTags[b.type].counter] = b.order
          /\ \A d \in Counter : d # OutlineTags[b.type].counter => counters'[d] = counters[d]
      BY <2>4, <2>7, OutlineTagsAre
    <3> QED
      BY <2>6, <2>8, <3>1, <3>2, OutlineTagsAre, NumbersTagged
  <2>10. \A i \in 1..Len(blocks') : blocks'[i].type \in DOMAIN OutlineTags
    <3>1. b.type \in DOMAIN OutlineTags
      BY <2>4, OutlineTagsAre
    <3> QED
      BY <2>6, <2>8, <3>1, AppendedTypes
  <2>11. stack' # <<>>
    <3>1. open \in Seq([block : 1..Len(blocks), level : 1..6])
      BY <2>2, PoppedTyped DEF Open
    <3>2. Len(stack') = Len(open) + 1 /\ Len(open) \in Nat
      BY <2>5, <3>1
    <3> QED
      BY <3>2, EmptySeq
  <2>12. "section" \notin ChildTypes
    BY DEF ChildTypes
  <2>13. Preamble(blocks', stack', format)
    BY <2>4, <2>6, <2>11, <2>12, PreambleKept
  <2> QED
    BY <2>9, <2>10, <2>13 DEF OutlineNumbers
<1> QED
  BY <1>1, <1>2, <1>3 DEF Headed

\* A page is named by its number, the row of a table by the table it follows.
PdfRow(bs, i) ==
    /\ bs[i].type = "table_row" /\ i # 1 /\ bs[i].parent = i - 1 /\ bs[i - 1].type = "table"
    /\ bs[i].id = [name |-> "row", of |-> bs[i - 1].order, n |-> 0]
PdfPage(b, ps) == b.type = "page" /\ b.id = Named("page", b.order) /\ b.order \in DOMAIN ps
PdfNumbers(bs, cnt, ps) ==
    /\ Numbers(bs, cnt, PdfTags)
    /\ \A i \in 1..Len(bs) : bs[i].type \in DOMAIN PdfTags \/ PdfPage(bs[i], ps) \/ PdfRow(bs, i)
    /\ \A i, j \in 1..Len(bs) :
           i < j /\ bs[i].type = "page" /\ bs[j].type = "page" => bs[i].order # bs[j].order

LEMMA PdfAppended ==
    ASSUME NEW bs, Forest(bs), NEW b, NEW cs, Appended(bs, b, cs), NEW cnt, NEW new, NEW ps, NEW qs,
           PdfNumbers(bs, cnt, ps), Numbers(cs, new, PdfTags), DOMAIN ps \subseteq DOMAIN qs,
           b.type \in DOMAIN PdfTags \/ (PdfPage(b, qs) /\ b.order \notin DOMAIN ps) \/ PdfRow(cs, Len(bs) + 1)
    PROVE  PdfNumbers(cs, new, qs)
<1>1. PICK m \in Nat : m = Len(bs) /\ m + 1 = Len(cs) /\ cs[m + 1] = b /\ \A i \in 1..m : cs[i] = bs[i]
  BY ForestTyped DEF Appended
<1>2. \A i \in 1..m + 1 : i = m + 1 \/ i \in 1..m
  OBVIOUS
<1>3. ASSUME NEW i \in 1..m PROVE bs[i].type \in DOMAIN PdfTags \/ PdfPage(bs[i], ps) \/ PdfRow(bs, i)
  BY <1>1 DEF PdfNumbers
<1>4. ASSUME NEW i \in 1..m + 1
      PROVE  cs[i].type \in DOMAIN PdfTags \/ PdfPage(cs[i], qs) \/ PdfRow(cs, i)
  <2>1. CASE i = m + 1
    BY <1>1, <2>1
  <2>2. CASE i \in 1..m
    <3>1. cs[i] = bs[i]
      BY <1>1, <2>2
    <3>2. PdfPage(bs[i], ps) => PdfPage(bs[i], qs)
      BY DEF PdfPage
    <3>3. ASSUME PdfRow(bs, i) PROVE PdfRow(cs, i)
      <4>1. i - 1 \in 1..m
        BY <2>2, <3>3 DEF PdfRow
      <4>2. cs[i - 1] = bs[i - 1]
        BY <1>1, <4>1
      <4> QED
        BY <3>1, <3>3, <4>2 DEF PdfRow
    <3> QED
      BY <1>3, <2>2, <3>1, <3>2, <3>3
  <2> QED
    BY <1>2, <2>1, <2>2
<1>5. ASSUME NEW i \in 1..m + 1, NEW j \in 1..m + 1, i < j, cs[i].type = "page", cs[j].type = "page"
      PROVE  cs[i].order # cs[j].order
  <2>1. i \in 1..m /\ cs[i] = bs[i]
    BY <1>1, <1>5
  <2>2. CASE j = m + 1
    <3>1. cs[j] = b /\ b.type = "page"
      BY <1>1, <1>5, <2>2
    <3>2. "page" \notin DOMAIN PdfTags
      BY PdfTagsAre
    <3>3. b.order \notin DOMAIN ps
      BY <1>1, <3>1, <3>2 DEF PdfRow
    <3>4. bs[i].order \in DOMAIN ps
      <4>1. bs[i].type = "page" /\ "page" # "table_row"
        BY <1>5, <2>1
      <4>2. ~ PdfRow(bs, i)
        BY <4>1 DEF PdfRow
      <4>3. PdfPage(bs[i], ps)
        BY <1>3, <2>1, <3>2, <4>1, <4>2
      <4> QED
        BY <4>3 DEF PdfPage
    <3> QED
      BY <2>1, <3>1, <3>3, <3>4
  <2>3. CASE j \in 1..m
    <3>1. cs[j] = bs[j]
      BY <1>1, <2>3
    <3> QED
      BY <1>1, <1>5, <2>1, <2>3, <3>1 DEF PdfNumbers
  <2> QED
    BY <1>2, <2>2, <2>3
<1> QED
  BY <1>1, <1>4, <1>5 DEF PdfNumbers

\* _ensure_page_block
LEMMA WithPageNumbers ==
    ASSUME Forest(blocks), Pages(pages, blocks), PdfNumbers(blocks, counters, pages), NEW fmt,
           Preamble(blocks, stack, fmt), fmt \notin Headings
    PROVE  LET qs == Set(pages, El.page, PageBlock)
           IN  PdfNumbers(WithPage, counters, qs) /\ Preamble(WithPage, stack, fmt)
<1> DEFINE qs == Set(pages, El.page, PageBlock)
<1>1. DOMAIN qs = DOMAIN pages \cup {El.page}
  BY DEF Set
<1>2. CASE El.page \in DOMAIN pages
  <2>1. WithPage = blocks /\ DOMAIN qs = DOMAIN pages
    BY <1>1, <1>2 DEF WithPage
  <2> HIDE DEF qs
  <2>2. PdfNumbers(blocks, counters, qs)
    BY <2>1 DEF PdfNumbers, PdfPage
  <2> QED
    BY <2>1, <2>2 DEF qs
<1>3. CASE El.page \notin DOMAIN pages
  <2>1. PICK b : b = NewBlock("page", Named("page", El.page), 0, El.page, NoText, {})
    OBVIOUS
  <2>2. b.type = "page" /\ b.id = Named("page", b.order) /\ b.order = El.page
    BY <2>1 DEF NewBlock
  <2>3. WithPage = Append(blocks, b)
    BY <1>3, <2>1 DEF WithPage
  <2>4. Appended(blocks, b, WithPage)
    BY <2>3, AppendIs
  <2> HIDE DEF qs
  <2>5. PdfPage(b, qs) /\ b.order \notin DOMAIN pages /\ DOMAIN pages \subseteq DOMAIN qs
    BY <1>1, <1>3, <2>2 DEF PdfPage
  <2>6. Numbers(WithPage, counters, PdfTags)
    <3>1. b.type \notin DOMAIN PdfTags
      BY <2>2, PdfTagsAre
    <3> QED
      BY <2>4, <3>1, NumbersUntagged DEF PdfNumbers
  <2>7. PdfNumbers(WithPage, counters, qs)
    BY <2>4, <2>5, <2>6, PdfAppended
  <2>8. b.type \notin ChildTypes
    BY <2>2, Kinds
  <2>9. Preamble(WithPage, stack, fmt)
    BY <2>4, <2>8, PreambleKept
  <2> QED
    BY <2>7, <2>9 DEF qs
<1> QED
  BY <1>2, <1>3

LEMMA PdfNumbered ==
    ASSUME TypeInv, PdfStep, TypeInv', PdfNumbers(blocks, counters, pages), Preamble(blocks, stack, format)
    PROVE  /\ PdfNumbers(blocks', counters', pages') /\ Preamble(blocks', stack', format')
           /\ format = "pdf" /\ format' = "pdf"
<1>1. Forest(blocks) /\ counters \in [Counter -> Nat] /\ FileInv /\ Pages(pages, blocks) /\ Stacks(sections, blocks)
      /\ counters' \in [Counter -> Nat] /\ Counting
  BY DEF TypeInv, Counting
<1>2. format = "pdf" /\ phase = "parse" /\ format' = "pdf" /\ stack' = stack /\ format \notin Headings
  BY DEF PdfStep, SkipElement, AddTitle, AddTable, AddChild, PdfEnd, ReadsElement, Skip, file, Headings
<1>3. PICK qs : qs = Set(pages, El.page, PageBlock)
  OBVIOUS
<1>4. PdfNumbers(WithPage, counters, qs) /\ Preamble(WithPage, stack, "pdf")
  BY <1>1, <1>2, <1>3, WithPageNumbers
<1>5. ASSUME ReadsElement
      PROVE  /\ Forest(WithPage) /\ Len(WithPage) \in Nat
             /\ \A n : Open(Popped(OpenSections, n), WithPage, {1, 2})
             /\ Open(OpenSections, WithPage, {1, 2}) /\ PageBlock \in 1..Len(WithPage)
  <2>1. read + 1 \in 1..Len(source)
    <3>1. Len(source) \in Nat /\ read \in Nat /\ read < Len(source)
      BY <1>1, <1>2, <1>5, SourceIs DEF FileInv, ReadsElement
    <3> QED
      BY <3>1
  <2>2. El.page \in Nat
    BY <1>1, <1>2, <2>1, UnitTyped DEF El
  <2>3. Forest(WithPage) /\ Open(OpenSections, WithPage, {1, 2}) /\ PageBlock \in 1..Len(WithPage)
    BY <1>1, <2>2, WithPageAdds
  <2>4. \A n : Open(Popped(OpenSections, n), WithPage, {1, 2})
    BY <2>3, PoppedTyped
  <2> QED
    BY <2>3, <2>4, ForestTyped
<1>6. ASSUME NEW b, NEW bs, Appended(WithPage, b, bs), ReadsElement, b.type \in DOMAIN PdfTags, b.parent # 0,
             b.order = Number(PdfTags[b.type].counter), b.id = Named(PdfTags[b.type].name, b.order),
             counters' = Counted(PdfTags[b.type].counter)
      PROVE  PdfNumbers(bs, counters', qs) /\ Preamble(bs, stack, "pdf")
  <2>1. PICK c \in Counter : c = PdfTags[b.type].counter
    BY <1>6, PdfTagsAre
  <2>2. /\ Number(c) \in Nat /\ Number(c) = counters[c] + 1
        /\ counters'[c] = Number(c) /\ \A d \in Counter : d # c => counters'[d] = counters[d]
    BY <1>1, <1>6, <2>1, CountedTyped
  <2>3. /\ b.order \in Nat /\ b.order = counters[PdfTags[b.type].counter] + 1
        /\ counters'[PdfTags[b.type].counter] = b.order
        /\ \A d \in Counter : d # PdfTags[b.type].counter => counters'[d] = counters[d]
    BY <1>6, <2>1, <2>2
  <2>4. Forest(WithPage) /\ Numbers(WithPage, counters, PdfTags)
    BY <1>4, <1>5, <1>6 DEF PdfNumbers
  <2>5. Numbers(bs, counters', PdfTags)
    BY <1>1, <1>6, <2>3, <2>4, PdfTagsAre, NumbersTagged
  <2>6. PdfNumbers(bs, counters', qs)
    BY <1>4, <1>6, <2>4, <2>5, PdfAppended
  <2>7. Preamble(bs, stack, "pdf")
    BY <1>2, <1>4, <1>6, <2>4, PreambleKept
  <2> QED
    BY <2>6, <2>7
<1>7. CASE SkipElement \/ PdfEnd
  BY <1>2, <1>7 DEF SkipElement, PdfEnd, Skip, pdf
<1>8. CASE AddTitle
  <2>1. PICK open : open = Popped(OpenSections, 1)
    OBVIOUS
  <2>2. PICK b : b = NewBlock("section", Named("sec", Number("section")), Top(open, PageBlock),
                              Number("section"), El.text, {read + 1})
    OBVIOUS
  <2>3. /\ ReadsElement /\ blocks' = Append(WithPage, b) /\ pages' = qs /\ counters' = Counted("section")
    BY <1>3, <1>8, <2>1, <2>2 DEF AddTitle, EnsuresPage
  <2>4. b.type = "section" /\ b.order = Number("section") /\ b.id = Named("sec", b.order) /\ b.parent = Top(open, PageBlock)
    BY <2>2 DEF NewBlock
  <2>5. Appended(WithPage, b, blocks')
    BY <1>5, <2>3, AppendIs
  <2>6. b.parent # 0
    <3>1. IF open = <<>> THEN Top(open, PageBlock) = PageBlock ELSE Top(open, PageBlock) \in 1..Len(WithPage)
      BY <1>5, <2>1, <2>3, TopIs
    <3> QED
      BY <1>5, <2>3, <2>4, <3>1
  <2>7. /\ b.type \in DOMAIN PdfTags /\ b.order = Number(PdfTags[b.type].counter)
        /\ b.id = Named(PdfTags[b.type].name, b.order) /\ counters' = Counted(PdfTags[b.type].counter)
    BY <2>3, <2>4, PdfTagsAre
  <2>8. PdfNumbers(blocks', counters', qs) /\ Preamble(blocks', stack, "pdf")
    BY <1>6, <2>3, <2>5, <2>6, <2>7
  <2> QED
    BY <1>2, <2>3, <2>8
<1>9. CASE AddTable
  <2>1. PICK n : n = Number("table")
    OBVIOUS
  <2>2. PICK b : b = NewBlock("table", Named("tbl", n), Top(OpenSections, PageBlock), n, NoText, {})
    OBVIOUS
  <2>3. PICK c : c = NewBlock("table_row", [name |-> "row", of |-> n, n |-> 0], Len(WithPage) + 1, 0,
                              El.text, {read + 1})
    OBVIOUS
  <2>4. /\ ReadsElement /\ blocks' = WithPage \o <<b, c>> /\ pages' = qs /\ counters' = Counted("table")
    BY <1>3, <1>9, <2>1, <2>2, <2>3 DEF AddTable, EnsuresPage
  <2>5. b.type = "table" /\ b.order = n /\ b.id = Named("tbl", b.order) /\ b.parent = Top(OpenSections, PageBlock)
    BY <2>2 DEF NewBlock
  <2>6. c.type = "table_row" /\ c.id = [name |-> "row", of |-> n, n |-> 0] /\ c.parent = Len(WithPage) + 1
    BY <2>3 DEF NewBlock
  <2>7. PICK k \in Nat : k = Len(WithPage)
    BY <1>5, <2>4
  <2>8. PICK bs : bs = SubSeq(blocks', 1, k + 1)
    OBVIOUS
  <2>9. blocks' \in Seq(Block) /\ WithPage \in Seq(Block)
    BY <1>5, <2>4 DEF TypeInv, Forest
  <2>10. Len(blocks') = k + 2 /\ blocks'[k + 1] = b /\ blocks'[k + 2] = c /\ \A i \in 1..k : blocks'[i] = WithPage[i]
    BY <2>4, <2>7, <2>9
  <2>11. bs \in Seq(Block) /\ Len(bs) = k + 1 /\ \A i \in 1..k + 1 : bs[i] = blocks'[i]
    BY <2>8, <2>9, <2>10, PrefixIs
  <2>12. Appended(WithPage, b, bs)
    BY <2>7, <2>10, <2>11 DEF Appended
  <2>13. Appended(bs, c, blocks')
    BY <2>10, <2>11 DEF Appended
  <2>14. b.parent # 0
    <3>1. IF OpenSections = <<>> THEN Top(OpenSections, PageBlock) = PageBlock
          ELSE Top(OpenSections, PageBlock) \in 1..Len(WithPage)
      BY <1>5, <2>4, TopIs
    <3> QED
      BY <1>5, <2>4, <2>5, <3>1
  <2>15. /\ b.type \in DOMAIN PdfTags /\ b.order = Number(PdfTags[b.type].counter)
         /\ b.id = Named(PdfTags[b.type].name, b.order) /\ counters' = Counted(PdfTags[b.type].counter)
    BY <2>1, <2>4, <2>5, PdfTagsAre
  <2>16. PdfNumbers(bs, counters', qs) /\ Preamble(bs, stack, "pdf")
    BY <1>6, <2>4, <2>12, <2>14, <2>15
  <2>17. Forest(bs)
    <3>1. Forest(blocks')
      BY DEF TypeInv
    <3>2. ASSUME NEW i \in 1..k + 1
          PROVE  bs[i].parent < i /\ (bs[i].parent = 0 \/ bs[bs[i].parent].type \in ParentTypes)
      <4>1. i \in 1..Len(blocks') /\ bs[i] = blocks'[i]
        BY <2>10, <2>11
      <4>2. /\ blocks'[i].parent < i /\ blocks'[i].parent \in Nat
            /\ blocks'[i].parent = 0 \/ blocks'[blocks'[i].parent].type \in ParentTypes
        BY <3>1, <4>1, ForestTyped DEF Forest
      <4>3. blocks'[i].parent # 0 => blocks'[i].parent \in 1..k + 1
        BY <4>2
      <4>4. blocks'[i].parent # 0 => bs[blocks'[i].parent] = blocks'[blocks'[i].parent]
        BY <2>11, <4>3
      <4> QED
        BY <4>1, <4>2, <4>4
    <3> QED
      BY <2>11, <3>2 DEF Forest
  <2>18. PdfRow(blocks', Len(bs) + 1)
    <3>1. Len(bs) + 1 = k + 2 /\ k + 2 # 1 /\ (k + 2) - 1 = k + 1
      BY <2>11
    <3> QED
      BY <2>5, <2>6, <2>7, <2>10, <3>1 DEF PdfRow
  <2>19. c.type \notin DOMAIN PdfTags /\ c.parent # 0
    BY <2>6, <2>7, PdfTagsAre
  <2>20. Numbers(blocks', counters', PdfTags)
    BY <2>13, <2>16, <2>17, <2>19, NumbersUntagged DEF PdfNumbers
  <2>21. PdfNumbers(blocks', counters', qs)
    BY <2>13, <2>16, <2>17, <2>18, <2>20, PdfAppended
  <2>22. Preamble(blocks', stack, "pdf")
    BY <1>2, <2>13, <2>16, <2>17, <2>19, PreambleKept
  <2> QED
    BY <1>2, <2>4, <2>21, <2>22
<1>10. CASE AddChild
  <2>1. PICK s : s = ChildBlockSpec(El.kind)
    OBVIOUS
  <2>2. s.type \in DOMAIN PdfTags /\ s.name = PdfTags[s.type].name /\ s.counter = PdfTags[s.type].counter
    BY <2>1, PdfTagsAre DEF ChildBlockSpec
  <2>3. PICK b : b = NewBlock(s.type, Named(s.name, Number(s.counter)), Top(OpenSections, PageBlock),
                              Number(s.counter), El.text, {read + 1})
    OBVIOUS
  <2>4. /\ ReadsElement /\ blocks' = Append(WithPage, b) /\ pages' = qs /\ counters' = Counted(s.counter)
    BY <1>3, <1>10, <2>1, <2>3 DEF AddChild, EnsuresPage
  <2>5. b.type = s.type /\ b.order = Number(s.counter) /\ b.id = Named(s.name, b.order)
        /\ b.parent = Top(OpenSections, PageBlock)
    BY <2>3 DEF NewBlock
  <2>6. Appended(WithPage, b, blocks')
    BY <1>5, <2>4, AppendIs
  <2>7. b.parent # 0
    <3>1. IF OpenSections = <<>> THEN Top(OpenSections, PageBlock) = PageBlock
          ELSE Top(OpenSections, PageBlock) \in 1..Len(WithPage)
      BY <1>5, <2>4, TopIs
    <3> QED
      BY <1>5, <2>4, <2>5, <3>1
  <2>8. PdfNumbers(blocks', counters', qs) /\ Preamble(blocks', stack, "pdf")
    BY <1>6, <2>2, <2>4, <2>5, <2>6, <2>7
  <2> QED
    BY <1>2, <2>4, <2>8
<1> QED
  BY <1>7, <1>8, <1>9, <1>10 DEF PdfStep

\* Records are numbered by their place in the file.
RecordBlock(b, rd) ==
    b.type \in ChildTypes /\ b.id = Named("record", b.order) /\ b.order < rd /\ b.parent = 1
RecordNumbers(bs, rd) ==
    /\ bs # <<>> => bs[1].type = "document" /\ bs[1].id = Named("doc_root", 0)
    /\ \A i \in 2..Len(bs) : RecordBlock(bs[i], rd)
    /\ \A i, j \in 2..Len(bs) : i < j => bs[i].order < bs[j].order

LEMMA RecordsNumbered ==
    ASSUME TypeInv, OutlineStep, TypeInv', format = "records", RecordNumbers(blocks, read),
           Preamble(blocks, stack, format)
    PROVE  RecordNumbers(blocks', read') /\ Preamble(blocks', stack', format') /\ format' = format
<1>1. Forest(blocks) /\ FileInv /\ read \in Nat /\ format \notin Headings
  BY DEF TypeInv, FileInv, Headings
<1>2. \/ OutlineEnd \/ AddRoot \/ ReadRecord \/ SkipScalar
  <2>1. ~ (DocxBlank \/ DocxHeading \/ DocxParagraph \/ DocxRow)
    BY DEF DocxBlank, DocxHeading, DocxParagraph, DocxRow, Docx, Reads
  <2>2. ~ (HtmlBlank \/ HtmlOther \/ HtmlHeading \/ HtmlPre \/ HtmlItem \/ HtmlParagraph)
    BY DEF HtmlBlank, HtmlOther, HtmlHeading, HtmlPre, HtmlItem, HtmlParagraph, Html, Reads
  <2>3. ~ (ReadSlide \/ ReadShape \/ SkipShape \/ BeginTable \/ ReadRow \/ ReadNotes)
    BY DEF ReadSlide, ReadShape, SkipShape, BeginTable, ReadRow, ReadNotes, Pptx, Reads
  <2> QED
    BY <2>1, <2>2, <2>3 DEF OutlineStep
<1>3. CASE OutlineEnd
  BY <1>3 DEF OutlineEnd, Skip, file
<1>4. CASE AddRoot
  <2>1. PICK b : b = NewBlock("document", Named("doc_root", 0), 0, 0, NoText, {})
    OBVIOUS
  <2>2. b.type = "document" /\ b.id = Named("doc_root", 0)
    BY <2>1 DEF NewBlock
  <2>3. /\ blocks = <<>> /\ blocks' = <<b>> /\ read' = read /\ stack' = stack /\ format' = format
    BY <1>4, <2>1 DEF AddRoot, file
  <2>4. blocks' = Append(blocks, b)
    BY <2>3
  <2>5. Appended(blocks, b, blocks')
    BY <1>1, <2>4, AppendIs
  <2>6. Len(blocks') = 1 /\ blocks'[1] = b
    BY <2>3
  <2>7. b.type \notin ChildTypes
    BY <2>2, Kinds
  <2>8. Preamble(blocks', stack', format')
    BY <1>1, <2>3, <2>5, <2>7, PreambleKept
  <2>9. RecordNumbers(blocks', read')
    BY <2>2, <2>6 DEF RecordNumbers
  <2> QED
    BY <2>3, <2>8, <2>9
<1>5. CASE ReadRecord
  <2>1. PICK b : b = NewBlock(source[RecordUnit].kind, Named("record", read), 1, read,
                              source[RecordUnit].text, {RecordUnit})
    OBVIOUS
  <2>2. /\ blocks # <<>> /\ blocks' = Append(blocks, b) /\ read' = read + 1 /\ stack' = stack /\ format' = format
        /\ source[RecordUnit].kind \in {"paragraph", "record", "table_row"}
    BY <1>5, <2>1 DEF ReadRecord, Reads, file
  <2>3. b.type \in ChildTypes /\ b.id = Named("record", b.order) /\ b.order = read /\ b.parent = 1
    BY <2>1, <2>2, Kinds DEF NewBlock
  <2>4. Appended(blocks, b, blocks')
    BY <1>1, <2>2, AppendIs
  <2>5. PICK m \in Nat \ {0} : m = Len(blocks) /\ m + 1 = Len(blocks') /\ blocks'[m + 1] = b
                               /\ \A i \in 1..m : blocks'[i] = blocks[i]
    <3>1. Len(blocks) \in Nat /\ Len(blocks) # 0
      BY <1>1, <2>2, ForestTyped, EmptySeq DEF Forest
    <3> QED
      BY <2>4, <3>1 DEF Appended
  <2>6. \A i \in 2..m + 1 : i = m + 1 \/ i \in 2..m
    OBVIOUS
  <2>7. \A i \in 2..m : blocks'[i] = blocks[i] /\ RecordBlock(blocks[i], read) /\ blocks[i].order \in Nat
    <3> TAKE i \in 2..m
    <3>1. i \in 1..m
      OBVIOUS
    <3> QED
      BY <1>1, <2>5, <3>1, ForestTyped DEF RecordNumbers
  <2>8. \A i \in 2..m + 1 : RecordBlock(blocks'[i], read + 1)
    <3> TAKE i \in 2..m + 1
    <3>1. CASE i = m + 1
      BY <1>1, <2>3, <2>5, <3>1 DEF RecordBlock
    <3>2. CASE i \in 2..m
      BY <1>1, <2>7, <3>2 DEF RecordBlock
    <3> QED
      BY <2>6, <3>1, <3>2
  <2>9. \A i, j \in 2..m + 1 : i < j => blocks'[i].order < blocks'[j].order
    <3> SUFFICES ASSUME NEW i \in 2..m + 1, NEW j \in 2..m + 1, i < j PROVE blocks'[i].order < blocks'[j].order
      OBVIOUS
    <3>1. i \in 2..m
      OBVIOUS
    <3>2. blocks'[i] = blocks[i] /\ blocks[i].order < read
      BY <2>7, <3>1 DEF RecordBlock
    <3>3. CASE j = m + 1
      BY <2>3, <2>5, <3>2, <3>3
    <3>4. CASE j \in 2..m
      BY <2>5, <2>7, <3>1, <3>4 DEF RecordNumbers
    <3> QED
      BY <2>6, <3>3, <3>4
  <2>10. blocks'[1] = blocks[1] /\ blocks[1].type = "document" /\ blocks[1].id = Named("doc_root", 0)
    BY <2>2, <2>5 DEF RecordNumbers
  <2>11. RecordNumbers(blocks', read')
    BY <2>2, <2>5, <2>8, <2>9, <2>10 DEF RecordNumbers
  <2>12. Preamble(blocks', stack', format')
    BY <1>1, <2>2, <2>3, <2>4, PreambleKept
  <2> QED
    BY <2>2, <2>11, <2>12
<1>6. CASE SkipScalar
  <2>1. blocks' = blocks /\ stack' = stack /\ format' = format /\ read' = read + 1
    BY <1>6 DEF SkipScalar, Skip, Reads, RecordUnit, file
  <2>2. PICK l \in Nat : l = Len(blocks)
    BY <1>1, ForestTyped
  <2>3. \A i \in 2..l : RecordBlock(blocks[i], read + 1)
    <3> TAKE i \in 2..l
    <3>1. RecordBlock(blocks[i], read) /\ i \in 1..l
      BY <2>2 DEF RecordNumbers
    <3>2. blocks[i].order \in Nat
      BY <1>1, <2>2, <3>1, ForestTyped
    <3> QED
      BY <1>1, <3>1, <3>2 DEF RecordBlock
  <2>4. RecordNumbers(blocks, read + 1)
    BY <2>2, <2>3 DEF RecordNumbers
  <2> QED
    BY <2>1, <2>4
<1> QED
  BY <1>2, <1>3, <1>4, <1>5, <1>6

\* What is on a slide is numbered on it, the rows of a table in the table.
TableAfter(src, b, e) == \E u \in b.units : \E t \in u + 1 .. e : src[t].kind = "table"
TableBetween(src, b, c) == \E v \in c.units : TableAfter(src, b, v)

SlideBlock(b, cnt) == b.type = "slide" /\ b.id = Named("slide", b.order) /\ b.order <= cnt["slide"]
OnLastSlide(b, cnt, src, rd) ==
    /\ b.order <= cnt["shape"]
    /\ b.type = "note" => src[rd].kind = "notes"
    /\ b.type = "table_row" => b.id.n < cnt["rowIndex"] \/ TableAfter(src, b, rd)
OneUnit(b, rd) == \E u \in 1..rd : b.units = {u}
ShapeBlock(bs, b, cnt, src, rd) ==
    /\ \/ b.type = "shape" /\ b.id.name = "shape" /\ b.id.n = b.order
       \/ b.type = "table_row" /\ b.id.name = "slide_row"
       \/ b.type = "note" /\ b.id.name = "notes"
    /\ b.parent \in 1..Len(bs) /\ bs[b.parent].type = "slide" /\ bs[b.parent].order = b.id.of
    /\ OneUnit(b, rd)
    /\ b.id.of = cnt["slide"] => OnLastSlide(b, cnt, src, rd)

SlidePair(b, c, src) ==
    /\ b.type = "slide" /\ c.type = "slide" => b.order < c.order
    /\ b.type # "slide" /\ c.type # "slide" /\ b.id.of = c.id.of =>
           /\ b.order < c.order
           /\ ~ (b.type = "note" /\ c.type = "note")
           /\ b.type = "table_row" /\ c.type = "table_row" => b.id.n < c.id.n \/ TableBetween(src, b, c)

LastSlide(bs, cnt, s) ==
    bs[s].type = "slide" /\ bs[s].order = cnt["slide"] /\ \A i \in 1..Len(bs) : bs[i].type = "slide" => i <= s

PptxNumbers(bs, cnt, src, rd) ==
    /\ \A i \in 1..Len(bs) : SlideBlock(bs[i], cnt) \/ ShapeBlock(bs, bs[i], cnt, src, rd)
    /\ \A i, j \in 1..Len(bs) : i < j => SlidePair(bs[i], bs[j], src)
    /\ bs # <<>> => \E s \in 1..Len(bs) : LastSlide(bs, cnt, s)

\* What the element after one that is no note does to the counters.
Counts(cnt, new, src, rd) ==
    /\ new["slide"] = cnt["slide"] /\ cnt["shape"] <= new["shape"]
    /\ cnt["rowIndex"] <= new["rowIndex"] \/ src[rd + 1].kind = "table"
    /\ rd # 0 => src[rd].kind # "notes"

LEMMA ShapeStays ==
    ASSUME NEW bs, NEW b \in Block, NEW cnt \in [Counter -> Nat], NEW new \in [Counter -> Nat], NEW src,
           NEW rd \in Nat, ShapeBlock(bs, b, cnt, src, rd), Counts(cnt, new, src, rd)
    PROVE  /\ ShapeBlock(bs, b, new, src, rd + 1)
           /\ b.id.of = cnt["slide"] => b.type # "note" /\ b.order <= cnt["shape"]
           /\ OneUnit(b, rd)
<1>1. b.order \in Nat /\ b.id.n \in Nat /\ b.id.of \in Nat
  BY DEF Block, Id
<1>2. cnt["shape"] \in Nat /\ new["shape"] \in Nat /\ cnt["rowIndex"] \in Nat /\ new["rowIndex"] \in Nat
  BY Kinds
<1>3. PICK u \in 1..rd : b.units = {u}
  BY DEF ShapeBlock, OneUnit
<1>4. u \in 1..rd + 1 /\ rd # 0
  BY <1>3
<1>5. ASSUME b.id.of = cnt["slide"]
      PROVE  b.type # "note" /\ b.order <= cnt["shape"] /\ OnLastSlide(b, new, src, rd + 1)
  <2>1. OnLastSlide(b, cnt, src, rd)
    BY <1>5 DEF ShapeBlock
  <2>2. b.type # "note"
    BY <1>4, <2>1 DEF OnLastSlide, Counts
  <2>3. b.order <= new["shape"]
    BY <1>1, <1>2, <2>1 DEF OnLastSlide, Counts
  <2>4. ASSUME b.type = "table_row" PROVE b.id.n < new["rowIndex"] \/ TableAfter(src, b, rd + 1)
    <3>1. CASE TableAfter(src, b, rd)
      <4>1. PICK t \in u + 1 .. rd : src[t].kind = "table"
        BY <1>3, <3>1 DEF TableAfter
      <4>2. t \in u + 1 .. rd + 1
        OBVIOUS
      <4> QED
        BY <1>3, <4>1, <4>2 DEF TableAfter
    <3>2. CASE src[rd + 1].kind = "table"
      <4>1. rd + 1 \in u + 1 .. rd + 1
        OBVIOUS
      <4> QED
        BY <1>3, <3>2, <4>1 DEF TableAfter
    <3>3. CASE b.id.n < cnt["rowIndex"] /\ cnt["rowIndex"] <= new["rowIndex"]
      BY <1>1, <1>2, <3>3
    <3> QED
      BY <2>1, <2>4, <3>1, <3>2, <3>3 DEF OnLastSlide, Counts
  <2> QED
    BY <2>1, <2>2, <2>3, <2>4 DEF OnLastSlide
<1>6. new["slide"] = cnt["slide"]
  BY DEF Counts
<1> QED
  BY <1>3, <1>4, <1>5, <1>6 DEF ShapeBlock, OneUnit

LEMMA PptxRead ==
    ASSUME NEW bs, Forest(bs), NEW cnt \in [Counter -> Nat], NEW new \in [Counter -> Nat], NEW src,
           NEW rd \in Nat, PptxNumbers(bs, cnt, src, rd), Counts(cnt, new, src, rd)
    PROVE  PptxNumbers(bs, new, src, rd + 1)
<1>1. new["slide"] = cnt["slide"]
  BY DEF Counts
<1>2. ASSUME NEW i \in 1..Len(bs)
      PROVE  SlideBlock(bs[i], new) \/ ShapeBlock(bs, bs[i], new, src, rd + 1)
  <2>1. bs[i] \in Block
    BY ForestTyped
  <2>2. SlideBlock(bs[i], cnt) \/ ShapeBlock(bs, bs[i], cnt, src, rd)
    BY DEF PptxNumbers
  <2>3. SlideBlock(bs[i], cnt) => SlideBlock(bs[i], new)
    BY <1>1 DEF SlideBlock
  <2> QED
    BY <2>1, <2>2, <2>3, ShapeStays
<1>3. \A s : LastSlide(bs, cnt, s) => LastSlide(bs, new, s)
  BY <1>1 DEF LastSlide
<1> QED
  BY <1>2, <1>3 DEF PptxNumbers

LEMMA PptxShape ==
    ASSUME NEW bs, Forest(bs), NEW cnt \in [Counter -> Nat], NEW new \in [Counter -> Nat], NEW src,
           NEW rd \in Nat, PptxNumbers(bs, cnt, src, rd), Counts(cnt, new, src, rd),
           NEW b \in Block, NEW cs, Appended(bs, b, cs),
           \/ b.type = "shape" /\ b.id.name = "shape" /\ b.id.n = b.order
           \/ b.type = "table_row" /\ b.id.name = "slide_row"
           \/ b.type = "note" /\ b.id.name = "notes",
           b.parent \in 1..Len(bs), LastSlide(bs, cnt, b.parent), b.id.of = cnt["slide"], b.units = {rd + 1},
           b.order = cnt["shape"] + 1, new["shape"] = b.order,
           b.type = "note" => src[rd + 1].kind = "notes",
           b.type = "table_row" => b.id.n = cnt["rowIndex"] /\ new["rowIndex"] = cnt["rowIndex"] + 1
    PROVE  PptxNumbers(cs, new, src, rd + 1)
<1>1. PICK m \in Nat : m = Len(bs) /\ m + 1 = Len(cs) /\ cs[m + 1] = b /\ \A i \in 1..m : cs[i] = bs[i]
  BY ForestTyped DEF Appended
<1>2. \A i \in 1..m + 1 : i = m + 1 \/ i \in 1..m
  OBVIOUS
<1>3. new["slide"] = cnt["slide"] /\ cnt["shape"] \in Nat /\ cnt["rowIndex"] \in Nat
  BY Kinds DEF Counts
<1>4. ASSUME NEW i \in 1..m
      PROVE  /\ SlideBlock(bs[i], cnt) \/ ShapeBlock(bs, bs[i], cnt, src, rd)
             /\ SlideBlock(bs[i], new) \/ ShapeBlock(bs, bs[i], new, src, rd + 1)
             /\ bs[i] \in Block /\ bs[i].order \in Nat /\ bs[i].id.n \in Nat
  <2>1. bs[i] \in Block /\ bs[i].order \in Nat
    BY <1>1, ForestTyped
  <2>2. bs[i].id.n \in Nat
    BY <2>1 DEF Block, Id
  <2>3. PptxNumbers(bs, new, src, rd + 1)
    BY PptxRead
  <2> QED
    BY <1>1, <2>1, <2>2, <2>3 DEF PptxNumbers
<1>5. \A a : ShapeBlock(bs, a, new, src, rd + 1) => ShapeBlock(cs, a, new, src, rd + 1)
  <2> SUFFICES ASSUME NEW a, ShapeBlock(bs, a, new, src, rd + 1) PROVE ShapeBlock(cs, a, new, src, rd + 1)
    OBVIOUS
  <2>1. a.parent \in 1..m /\ a.parent \in 1..m + 1 /\ cs[a.parent] = bs[a.parent]
    BY <1>1 DEF ShapeBlock
  <2> QED
    BY <1>1, <2>1 DEF ShapeBlock
<1>6. ShapeBlock(bs, b, new, src, rd + 1)
  <2>1. bs[b.parent].type = "slide" /\ bs[b.parent].order = b.id.of
    BY DEF LastSlide
  <2>2. OnLastSlide(b, new, src, rd + 1)
    BY <1>3 DEF OnLastSlide
  <2>3. rd + 1 \in 1..rd + 1
    OBVIOUS
  <2> QED
    BY <2>1, <2>2, <2>3 DEF ShapeBlock, OneUnit
<1>7. \A i \in 1..m + 1 : SlideBlock(cs[i], new) \/ ShapeBlock(cs, cs[i], new, src, rd + 1)
  BY <1>1, <1>2, <1>4, <1>5, <1>6
<1>8. ASSUME NEW i \in 1..m PROVE SlidePair(bs[i], b, src)
  <2>1. CASE SlideBlock(bs[i], cnt)
    BY <2>1 DEF SlideBlock, SlidePair
  <2>2. CASE ShapeBlock(bs, bs[i], cnt, src, rd)
    <3>1. bs[i].type # "slide" /\ b.type # "slide"
      BY <2>2 DEF ShapeBlock
    <3>2. ASSUME bs[i].id.of = b.id.of
          PROVE  /\ bs[i].order < b.order /\ bs[i].type # "note"
                 /\ bs[i].type = "table_row" /\ b.type = "table_row" => bs[i].id.n < b.id.n \/ TableBetween(src, bs[i], b)
      <4>1. bs[i].type # "note" /\ bs[i].order <= cnt["shape"] /\ OneUnit(bs[i], rd)
        BY <1>4, <2>2, <3>2, ShapeStays
      <4>2. bs[i].order < b.order
        BY <1>3, <1>4, <4>1
      <4>3. OnLastSlide(bs[i], cnt, src, rd)
        BY <2>2, <3>2 DEF ShapeBlock
      <4>4. ASSUME TableAfter(src, bs[i], rd) PROVE TableBetween(src, bs[i], b)
        <5>1. PICK u \in 1..rd : bs[i].units = {u}
          BY <4>1 DEF OneUnit
        <5>2. PICK t \in u + 1 .. rd : src[t].kind = "table"
          BY <4>4, <5>1 DEF TableAfter
        <5>3. t \in u + 1 .. rd + 1
          OBVIOUS
        <5>4. TableAfter(src, bs[i], rd + 1)
          BY <5>1, <5>2, <5>3 DEF TableAfter
        <5> QED
          BY <5>4 DEF TableBetween
      <4> QED
        BY <4>1, <4>2, <4>3, <4>4 DEF OnLastSlide
    <3> QED
      BY <3>1, <3>2 DEF SlidePair
  <2> QED
    BY <1>4, <2>1, <2>2
<1>9. ASSUME NEW i \in 1..m + 1, NEW j \in 1..m + 1, i < j PROVE SlidePair(cs[i], cs[j], src)
  <2>1. i \in 1..m /\ cs[i] = bs[i]
    BY <1>1, <1>9
  <2>2. CASE j = m + 1
    BY <1>1, <1>8, <2>1, <2>2
  <2>3. CASE j \in 1..m
    BY <1>1, <1>9, <2>1, <2>3 DEF PptxNumbers
  <2> QED
    BY <1>2, <2>2, <2>3
<1>10. LastSlide(cs, new, b.parent) /\ b.parent \in 1..m + 1
  <2>1. b.parent \in 1..m /\ cs[b.parent] = bs[b.parent]
    BY <1>1
  <2>2. b.type # "slide"
    OBVIOUS
  <2>3. \A i \in 1..m + 1 : cs[i].type = "slide" => i <= b.parent
    BY <1>1, <1>2, <2>2 DEF LastSlide
  <2> QED
    BY <1>1, <1>3, <2>1, <2>3 DEF LastSlide
<1> QED
  BY <1>1, <1>7, <1>9, <1>10 DEF PptxNumbers

LEMMA PptxSlide ==
    ASSUME NEW bs, Forest(bs), NEW cnt \in [Counter -> Nat], NEW new \in [Counter -> Nat], NEW src,
           NEW rd \in Nat, PptxNumbers(bs, cnt, src, rd),
           NEW b, NEW cs, Appended(bs, b, cs),
           b.type = "slide", b.id = Named("slide", b.order), b.order = cnt["slide"] + 1, new["slide"] = b.order
    PROVE  PptxNumbers(cs, new, src, rd + 1)
<1>1. PICK m \in Nat : m = Len(bs) /\ m + 1 = Len(cs) /\ cs[m + 1] = b /\ \A i \in 1..m : cs[i] = bs[i]
  BY ForestTyped DEF Appended
<1>2. \A i \in 1..m + 1 : i = m + 1 \/ i \in 1..m
  OBVIOUS
<1>3. cnt["slide"] \in Nat
  BY Kinds
<1>4. ASSUME NEW i \in 1..m
      PROVE  /\ SlideBlock(bs[i], new) \/ ShapeBlock(cs, bs[i], new, src, rd + 1)
             /\ SlidePair(bs[i], b, src)
  <2>1. bs[i].order \in Nat
    BY <1>1, ForestTyped
  <2>2. CASE SlideBlock(bs[i], cnt)
    <3>1. bs[i].order <= cnt["slide"]
      BY <2>2 DEF SlideBlock
    <3>2. bs[i].order <= new["slide"] /\ bs[i].order < b.order
      BY <1>3, <2>1, <3>1
    <3> QED
      BY <2>2, <3>2 DEF SlideBlock, SlidePair
  <2>3. CASE ShapeBlock(bs, bs[i], cnt, src, rd)
    <3>1. PICK p \in 1..m : p = bs[i].parent /\ bs[p].type = "slide" /\ bs[p].order = bs[i].id.of
      BY <1>1, <2>3 DEF ShapeBlock
    <3>2. bs[p].order \in Nat
      BY <1>1, ForestTyped
    <3>3. SlideBlock(bs[p], cnt)
      BY <1>1, <3>1 DEF PptxNumbers, ShapeBlock
    <3>4. bs[i].id.of # new["slide"]
      BY <1>3, <3>1, <3>2, <3>3 DEF SlideBlock
    <3>5. PICK u \in 1..rd : bs[i].units = {u}
      BY <2>3 DEF ShapeBlock, OneUnit
    <3>6. u \in 1..rd + 1 /\ p \in 1..m + 1 /\ cs[p] = bs[p]
      BY <1>1, <3>1, <3>5
    <3>7. ShapeBlock(cs, bs[i], new, src, rd + 1)
      BY <1>1, <2>3, <3>1, <3>4, <3>5, <3>6 DEF ShapeBlock, OneUnit
    <3>8. bs[i].type # "slide"
      BY <2>3 DEF ShapeBlock
    <3> QED
      BY <3>7, <3>8 DEF SlidePair
  <2> QED
    BY <1>1, <2>2, <2>3 DEF PptxNumbers
<1>5. SlideBlock(b, new)
  BY <1>3 DEF SlideBlock
<1>6. \A i \in 1..m + 1 : SlideBlock(cs[i], new) \/ ShapeBlock(cs, cs[i], new, src, rd + 1)
  BY <1>1, <1>2, <1>4, <1>5
<1>7. ASSUME NEW i \in 1..m + 1, NEW j \in 1..m + 1, i < j PROVE SlidePair(cs[i], cs[j], src)
  <2>1. i \in 1..m /\ cs[i] = bs[i]
    BY <1>1, <1>7
  <2>2. CASE j = m + 1
    BY <1>1, <1>4, <2>1, <2>2
  <2>3. CASE j \in 1..m
    BY <1>1, <1>7, <2>1, <2>3 DEF PptxNumbers
  <2> QED
    BY <1>2, <2>2, <2>3
<1>8. LastSlide(cs, new, m + 1) /\ m + 1 \in 1..m + 1
  BY <1>1 DEF LastSlide
<1> QED
  BY <1>1, <1>6, <1>7, <1>8 DEF PptxNumbers

LEMMA SlideLast ==
    ASSUME Forest(blocks), NEW s \in 1..Len(blocks), LastSlide(blocks, counters, s)
    PROVE  Slide = s
<1>1. PICK n \in Nat : n = Len(blocks) /\ DOMAIN blocks = 1..n
  BY ForestTyped
<1> DEFINE T == {i \in DOMAIN blocks : blocks[i].type = "slide"}
<1>2. T \subseteq 1..n /\ T # {} /\ s \in T /\ \A i \in T : i <= s
  BY <1>1 DEF LastSlide
<1>3. Slide = Max(T)
  BY DEF Slide
<1>4. Slide \in T /\ s <= Slide
  <2>1. n \in Int /\ 1 \in Nat
    OBVIOUS
  <2> HIDE DEF T
  <2>2. Max(T) \in T /\ \A x \in T : x <= Max(T)
    BY <1>2, <2>1, Edges
  <2> QED
    BY <1>2, <1>3, <2>2
<1>5. Slide \in 1..n /\ Slide <= s
  BY <1>2, <1>4
<1> QED
  BY <1>1, <1>4, <1>5

LEMMA PptxNumbered ==
    ASSUME TypeInv, OutlineStep, TypeInv', format = "pptx", PptxNumbers(blocks, counters, source, read),
           Preamble(blocks, stack, format)
    PROVE  PptxNumbers(blocks', counters', source', read') /\ Preamble(blocks', stack', format') /\ format' = format
<1>1. /\ Forest(blocks) /\ FileInv /\ Rooted /\ Counting /\ format \notin Headings
      /\ counters \in [Counter -> Nat] /\ counters' \in [Counter -> Nat]
  BY DEF TypeInv, Headings, Counting
<1>2. \/ OutlineEnd \/ ReadSlide \/ ReadShape \/ SkipShape \/ BeginTable \/ ReadRow \/ ReadNotes
  <2>1. ~ (DocxBlank \/ DocxHeading \/ DocxParagraph \/ DocxRow)
    BY DEF DocxBlank, DocxHeading, DocxParagraph, DocxRow, Docx, Reads
  <2>2. ~ (HtmlBlank \/ HtmlOther \/ HtmlHeading \/ HtmlPre \/ HtmlItem \/ HtmlParagraph)
    BY DEF HtmlBlank, HtmlOther, HtmlHeading, HtmlPre, HtmlItem, HtmlParagraph, Html, Reads
  <2>3. ~ (AddRoot \/ ReadRecord \/ SkipScalar)
    BY DEF AddRoot, ReadRecord, SkipScalar, Reads
  <2> QED
    BY <2>1, <2>2, <2>3 DEF OutlineStep
<1>3. CASE OutlineEnd
  BY <1>3 DEF OutlineEnd, Skip, file
<1>4. ASSUME ~ OutlineEnd
      PROVE  /\ read \in Nat /\ read + 1 \in 1..Len(source) /\ Len(source) \in Nat /\ read' = read + 1
             /\ source' = source /\ format' = format
             /\ stack' = stack /\ PptxUnit = read + 1 /\ source[PptxUnit].text \in Text
  <2>1. PICK kinds : Pptx(kinds)
    BY <1>2, <1>4 DEF ReadSlide, ReadShape, SkipShape, BeginTable, ReadRow, ReadNotes
  <2>2. /\ UNCHANGED file /\ read \in Nat /\ Len(source) \in Nat /\ read + 1 \in 1..Len(source) /\ read' = read + 1
        /\ stack' = stack
    BY <1>1, <2>1, ReadsIs DEF Pptx
  <2>3. source[read + 1].text \in Text
    BY <1>1, <2>2, UnitTyped
  <2> QED
    BY <2>2, <2>3 DEF file, PptxUnit
<1>5. ASSUME ~ OutlineEnd, source[read + 1].kind # "slide" PROVE read # 0 => source[read].kind # "notes"
  <2>1. read # 0 => read \in 1..Len(source) /\ read # Len(source) /\ Len(source) \in Nat
    BY <1>4, <1>5
  <2>2. Presentation(source) /\ DOMAIN source = 1..Len(source)
    BY <1>1, SourceIs
  <2> QED
    BY <1>5, <2>1, <2>2 DEF Presentation
<1>6. ASSUME ~ OutlineEnd, source[read + 1].kind # "slide"
      PROVE  Slide \in 1..Len(blocks) /\ LastSlide(blocks, counters, Slide)
  <2>1. read < Len(source)
    BY <1>4, <1>6
  <2>2. PICK i \in 1..Len(blocks) : blocks[i].type = "slide"
    BY <1>1, <1>6, <2>1, SlideFirst
  <2>3. blocks # <<>>
    BY <2>2
  <2>4. PICK s \in 1..Len(blocks) : LastSlide(blocks, counters, s)
    BY <2>3 DEF PptxNumbers
  <2> QED
    BY <1>1, <2>4, SlideLast
<1>7. ASSUME ~ OutlineEnd, blocks' = blocks, Counts(counters, counters', source, read)
      PROVE  PptxNumbers(blocks', counters', source', read') /\ Preamble(blocks', stack', format')
  <2>1. PptxNumbers(blocks, counters', source, read + 1)
    BY <1>1, <1>4, <1>7, PptxRead
  <2> QED
    BY <1>4, <1>7, <2>1
<1>8. ASSUME ~ OutlineEnd, NEW type, NEW id \in Id, AddToSlide(type, id), source[read + 1].kind # "slide",
             Counts(counters, counters', source, read),
             \/ type = "shape" /\ id.name = "shape" /\ id.n = counters["shape"] + 1
             \/ type = "table_row" /\ id.name = "slide_row"
             \/ type = "note" /\ id.name = "notes",
             id.of = counters["slide"], counters'["shape"] = counters["shape"] + 1,
             type = "note" => source[read + 1].kind = "notes",
             type = "table_row" => id.n = counters["rowIndex"] /\ counters'["rowIndex"] = counters["rowIndex"] + 1
      PROVE  PptxNumbers(blocks', counters', source', read') /\ Preamble(blocks', stack', format')
  <2>1. type \in ChildTypes /\ type \in ParentTypes \cup ChildTypes
    BY <1>8, Kinds
  <2>2. Slide \in 1..Len(blocks) /\ LastSlide(blocks, counters, Slide) /\ Slide \in Nat
    BY <1>1, <1>6, <1>8, ForestTyped
  <2>3. Number("shape") \in Nat /\ Number("shape") = counters["shape"] + 1
    BY <1>1, CountedTyped, Kinds
  <2>4. source[PptxUnit].text \in Text /\ PptxUnit = read + 1 /\ {PptxUnit} \in SUBSET Nat
    BY <1>4, <1>8
  <2>5. PICK b \in Block : /\ b = NewBlock(type, id, Slide, Number("shape"), source[PptxUnit].text, {PptxUnit})
                           /\ b.type = type /\ b.id = id /\ b.parent = Slide /\ b.order = Number("shape")
                           /\ b.units = {PptxUnit}
    BY <1>8, <2>1, <2>2, <2>3, <2>4, BlockIs
  <2>6. blocks' = Append(blocks, b)
    BY <1>8, <2>5 DEF AddToSlide
  <2>7. Appended(blocks, b, blocks')
    BY <1>1, <2>6, AppendIs
  <2>8. /\ b.parent \in 1..Len(blocks) /\ LastSlide(blocks, counters, b.parent) /\ b.id.of = counters["slide"]
        /\ b.units = {read + 1} /\ b.order = counters["shape"] + 1 /\ counters'["shape"] = b.order
    BY <1>8, <2>2, <2>3, <2>4, <2>5
  <2>9. /\ \/ b.type = "shape" /\ b.id.name = "shape" /\ b.id.n = b.order
           \/ b.type = "table_row" /\ b.id.name = "slide_row"
           \/ b.type = "note" /\ b.id.name = "notes"
        /\ b.type = "note" => source[read + 1].kind = "notes"
        /\ b.type = "table_row" => b.id.n = counters["rowIndex"] /\ counters'["rowIndex"] = counters["rowIndex"] + 1
    BY <1>8, <2>3, <2>5
  <2>10. PptxNumbers(blocks', counters', source, read + 1)
    BY <1>1, <1>4, <1>8, <2>7, <2>8, <2>9, PptxShape
  <2>11. b.parent # 0
    BY <2>8
  <2>12. Preamble(blocks', stack', format)
    BY <1>1, <2>7, <2>11, PreambleKept
  <2> QED
    BY <1>4, <1>8, <2>10, <2>12
<1>9. /\ Counted("shape")["shape"] = counters["shape"] + 1 /\ Counted("shape")["slide"] = counters["slide"]
      /\ Counted("shape")["rowIndex"] = counters["rowIndex"]
      /\ Counted("slide")["slide"] = counters["slide"] + 1
      /\ counters["shape"] \in Nat /\ counters["rowIndex"] \in Nat /\ counters["slide"] \in Nat
      /\ "shape" \in Counter /\ "rowIndex" \in Counter /\ "slide" \in Counter
      /\ Number("shape") = counters["shape"] + 1 /\ Number("shape") \in Nat /\ Number("slide") = counters["slide"] + 1
      /\ Number("slide") \in Nat /\ Counted("slide") \in [Counter -> Nat]
  BY <1>1, Kinds, CountedTyped
<1>10. CASE ReadSlide
  <2>1. ~ OutlineEnd
    BY <1>10 DEF ReadSlide, Pptx, Reads, OutlineEnd
  <2>2. PICK b : b = NewBlock("slide", Named("slide", Number("slide")), 0, Number("slide"), source[PptxUnit].text,
                              IF Blank(PptxUnit) THEN {} ELSE {PptxUnit})
    OBVIOUS
  <2>3. b.type = "slide" /\ b.id = Named("slide", b.order) /\ b.order = counters["slide"] + 1
    BY <1>9, <2>2 DEF NewBlock
  <2>4. blocks' = Append(blocks, b) /\ counters' = [Counted("slide") EXCEPT !["shape"] = 0, !["rowIndex"] = 0]
    BY <1>10, <2>2 DEF ReadSlide
  <2>5. counters'["slide"] = counters["slide"] + 1
    BY <1>9, <2>4
  <2>6. Appended(blocks, b, blocks')
    BY <1>1, <2>4, AppendIs
  <2>7. PptxNumbers(blocks', counters', source, read + 1)
    BY <1>1, <1>4, <2>1, <2>3, <2>5, <2>6, PptxSlide
  <2>8. Preamble(blocks', stack', format)
    <3>1. b.type \notin ChildTypes
      BY <2>3, Kinds
    <3> QED
      BY <1>1, <2>6, <3>1, PreambleKept
  <2> QED
    BY <1>4, <2>1, <2>7, <2>8
<1>11. CASE ReadShape
  <2>1. ~ OutlineEnd
    BY <1>11 DEF ReadShape, Pptx, Reads, OutlineEnd
  <2>2. /\ source[read + 1].kind = "shape" /\ AddToSlide("shape", OnSlide("shape", Number("shape")))
        /\ counters' = Counted("shape")
    BY <1>4, <1>11, <2>1 DEF ReadShape, Pptx, Reads
  <2>3. Counts(counters, counters', source, read)
    BY <1>5, <1>9, <2>1, <2>2 DEF Counts
  <2>4. PICK id \in Id : id = OnSlide("shape", Number("shape")) /\ id.name = "shape" /\ id.of = counters["slide"]
                         /\ id.n = counters["shape"] + 1
    BY <1>1, <1>9, Kinds, OnSlideTyped DEF OnSlide
  <2>5. AddToSlide("shape", id) /\ counters'["shape"] = counters["shape"] + 1
    BY <1>9, <2>2, <2>4
  <2> QED
    BY <1>4, <1>8, <2>1, <2>2, <2>3, <2>4, <2>5
<1>12. CASE SkipShape
  <2>1. ~ OutlineEnd
    BY <1>12 DEF SkipShape, Pptx, Reads, OutlineEnd
  <2>2. source[read + 1].kind # "slide" /\ blocks' = blocks /\ counters' = counters
    BY <1>4, <1>12, <2>1 DEF SkipShape, Pptx, Reads
  <2>3. Counts(counters, counters', source, read)
    BY <1>5, <1>9, <2>1, <2>2 DEF Counts
  <2> QED
    BY <1>4, <1>7, <2>1, <2>2, <2>3
<1>13. CASE BeginTable
  <2>1. ~ OutlineEnd
    BY <1>13 DEF BeginTable, Pptx, Reads, OutlineEnd
  <2>2. /\ source[read + 1].kind = "table" /\ blocks' = blocks
        /\ counters' = [counters EXCEPT !["rowIndex"] = 0]
    BY <1>4, <1>13, <2>1 DEF BeginTable, Pptx, Reads
  <2>3. counters'["slide"] = counters["slide"] /\ counters'["shape"] = counters["shape"]
    BY <1>1, <1>9, <2>2
  <2>4. Counts(counters, counters', source, read)
    BY <1>5, <1>9, <2>1, <2>2, <2>3 DEF Counts
  <2> QED
    BY <1>4, <1>7, <2>1, <2>2, <2>4
<1>14. CASE ReadRow
  <2>1. ~ OutlineEnd
    BY <1>14 DEF ReadRow, Pptx, Reads, OutlineEnd
  <2>2. PICK d \in Nat : d = IF Blank(PptxUnit) THEN 0 ELSE 1
    OBVIOUS
  <2>3. /\ source[read + 1].kind = "row"
        /\ counters' = [counters EXCEPT !["rowIndex"] = @ + 1, !["shape"] = @ + d]
        /\ IF Blank(PptxUnit) THEN blocks' = blocks
           ELSE AddToSlide("table_row", OnSlide("slide_row", counters["rowIndex"]))
    BY <1>4, <1>14, <2>1, <2>2 DEF ReadRow, Pptx, Reads
  <2>4. /\ counters'["slide"] = counters["slide"] /\ counters'["shape"] = counters["shape"] + d
        /\ counters'["rowIndex"] = counters["rowIndex"] + 1
    BY <1>1, <1>9, <2>3
  <2>5. Counts(counters, counters', source, read)
    BY <1>5, <1>9, <2>1, <2>2, <2>3, <2>4 DEF Counts
  <2>6. CASE Blank(PptxUnit)
    BY <1>4, <1>7, <2>1, <2>3, <2>5, <2>6
  <2>7. CASE ~ Blank(PptxUnit)
    <3>1. PICK id \in Id : id = OnSlide("slide_row", counters["rowIndex"]) /\ id.name = "slide_row"
                           /\ id.of = counters["slide"] /\ id.n = counters["rowIndex"]
      BY <1>1, <1>9, Kinds, OnSlideTyped DEF OnSlide
    <3>2. AddToSlide("table_row", id) /\ counters'["shape"] = counters["shape"] + 1
      BY <2>2, <2>3, <2>4, <2>7, <3>1
    <3> QED
      BY <1>4, <1>8, <2>1, <2>3, <2>4, <2>5, <3>1, <3>2
  <2> QED
    BY <2>6, <2>7
<1>15. CASE ReadNotes
  <2>1. ~ OutlineEnd
    BY <1>15 DEF ReadNotes, Pptx, Reads, OutlineEnd
  <2>2. /\ source[read + 1].kind = "notes" /\ AddToSlide("note", OnSlide("notes", 0))
        /\ counters' = Counted("shape")
    BY <1>4, <1>15, <2>1 DEF ReadNotes, Pptx, Reads
  <2>3. Counts(counters, counters', source, read)
    BY <1>5, <1>9, <2>1, <2>2 DEF Counts
  <2>4. PICK id \in Id : id = OnSlide("notes", 0) /\ id.name = "notes" /\ id.of = counters["slide"]
    <3>1. 0 \in Nat /\ "notes" \in IdName
      BY Kinds
    <3>2. OnSlide("notes", 0) \in Id
      BY <1>1, <3>1, OnSlideTyped
    <3>3. PICK id : id = OnSlide("notes", 0)
      OBVIOUS
    <3>4. id.name = "notes" /\ id.of = counters["slide"]
      BY <3>3 DEF OnSlide
    <3> QED
      BY <3>2, <3>3, <3>4
  <2>5. AddToSlide("note", id) /\ counters'["shape"] = counters["shape"] + 1
    BY <1>9, <2>2, <2>4
  <2> QED
    BY <1>4, <1>8, <2>1, <2>2, <2>3, <2>4, <2>5
<1> QED
  BY <1>2, <1>3, <1>4, <1>10, <1>11, <1>12, <1>13, <1>14, <1>15

\* Symbols are numbered as they come, what is between those of one as it is when
\* they are done, windows by their place.
Symbol == {"code_symbol", "code_container"}
SymbolBlock(b, cnt) ==
    b.type \in Symbol /\ b.id = Named("sym", b.order) /\ b.order < cnt["symbol"] /\ b.parent # 0
Container(bs, p) == p = 1 \/ (p \in 2..Len(bs) /\ bs[p].type = "code_container")
GapIn(bs, p) == IF p = 1 THEN 0 ELSE bs[p].id.n + 1
GapBlock(bs, b) ==
    b.type = "code_block" /\ b.id.name = "gap" /\ Container(bs, b.parent) /\ b.id.of = GapIn(bs, b.parent)

CodePair(b, c) ==
    /\ b.type \in Symbol /\ c.type \in Symbol => b.order < c.order
    /\ b.type = "code_block" /\ c.type = "code_block" /\ b.parent = c.parent => b.order < c.order /\ b.id.n < c.id.n

SymbolsCounted(bs, cnt) ==
    /\ bs # <<>> => bs[1] = ModuleBlock
    /\ \A i \in 2..Len(bs) : SymbolBlock(bs[i], cnt) \/ GapBlock(bs, bs[i])
    /\ \A i, j \in 2..Len(bs) : i < j => CodePair(bs[i], bs[j])

WindowsCounted(bs) ==
    /\ bs # <<>> /\ bs[1] = ModuleBlock
    /\ \A i \in 2..Len(bs) : bs[i].type = "code_symbol" /\ bs[i].parent = 1 /\ bs[i].id = Named("win", bs[i].order)
    /\ \A i, j \in 2..Len(bs) : i < j => bs[i].order < bs[j].order

\* What is between the symbols of one is still to come when it is to be emitted.
NoGapBelow(bs, p) == \A i \in 2..Len(bs) : bs[i].type = "code_block" => bs[i].parent # p
GapsLeft(bs, tasks) ==
    /\ \A n \in 1..Len(tasks) : Container(bs, tasks[n].parent)
    /\ \A n \in 1..Len(tasks) : tasks[n].task = "gaps" => NoGapBelow(bs, tasks[n].parent)
    /\ \A m, n \in 1..Len(tasks) :
           m < n /\ tasks[m].task = "gaps" /\ tasks[n].task = "gaps" => tasks[m].parent # tasks[n].parent

CodeNumbers(bs, cnt, tasks, ph) ==
    \/ ph # "parse" /\ WindowsCounted(bs)
    \/ SymbolsCounted(bs, cnt) /\ (ph = "parse" => GapsLeft(bs, tasks))

LEMMA ContainerStays ==
    ASSUME NEW bs, Forest(bs), NEW cs, Forest(cs), Extends(bs, cs), bs # <<>>, NEW p, Container(bs, p)
    PROVE  p \in 1..Len(bs) /\ p \in Nat /\ Container(cs, p) /\ GapIn(cs, p) = GapIn(bs, p)
<1>1. PICK n \in Nat \ {0}, m \in Nat : n = Len(bs) /\ m = Len(cs) /\ n <= m /\ \A i \in 1..n : cs[i] = bs[i]
  BY ForestTyped, EmptySeq DEF Extends, Forest
<1>2. p \in 1..n
  BY <1>1 DEF Container
<1> QED
  BY <1>1, <1>2 DEF Container, GapIn

LEMMA SymbolsGrow ==
    ASSUME NEW bs, Forest(bs), NEW cs, Forest(cs), Extends(bs, cs), bs # <<>>,
           NEW cnt \in [Counter -> Nat], NEW new \in [Counter -> Nat], cnt["symbol"] <= new["symbol"],
           SymbolsCounted(bs, cnt),
           \A i \in Len(bs) + 1 .. Len(cs) : SymbolBlock(cs[i], new) \/ GapBlock(cs, cs[i]),
           \A i \in 2..Len(bs) : \A j \in Len(bs) + 1 .. Len(cs) : CodePair(bs[i], cs[j]),
           \A i, j \in Len(bs) + 1 .. Len(cs) : i < j => CodePair(cs[i], cs[j])
    PROVE  SymbolsCounted(cs, new)
<1>1. PICK n \in Nat \ {0}, m \in Nat : n = Len(bs) /\ m = Len(cs) /\ n <= m /\ \A i \in 1..n : cs[i] = bs[i]
  BY ForestTyped, EmptySeq DEF Extends, Forest
<1>2. \A i \in 2..m : i \in 2..n \/ i \in n + 1 .. m
  OBVIOUS
<1>3. \A i \in 2..n : i \in 1..n /\ cs[i] = bs[i]
  BY <1>1
<1>4. cs[1] = ModuleBlock
  <2>1. 1 \in 1..n
    OBVIOUS
  <2> QED
    BY <1>1, <2>1 DEF SymbolsCounted
<1>5. ASSUME NEW i \in 2..n PROVE SymbolBlock(cs[i], new) \/ GapBlock(cs, cs[i])
  <2>1. CASE SymbolBlock(bs[i], cnt)
    <3>1. bs[i].order \in Nat /\ cnt["symbol"] \in Nat /\ new["symbol"] \in Nat
      BY <1>1, <1>3, ForestTyped, Kinds
    <3> QED
      BY <1>3, <2>1, <3>1 DEF SymbolBlock
  <2>2. CASE GapBlock(bs, bs[i])
    BY <1>3, <2>2, ContainerStays DEF GapBlock
  <2> QED
    BY <1>1, <2>1, <2>2 DEF SymbolsCounted
<1>6. ASSUME NEW i \in 2..m, NEW j \in 2..m, i < j PROVE CodePair(cs[i], cs[j])
  <2>1. CASE j \in 2..n
    <3>1. i \in 2..n
      BY <1>6, <2>1
    <3> QED
      BY <1>1, <1>3, <1>6, <2>1, <3>1 DEF SymbolsCounted
  <2>2. CASE i \in 2..n /\ j \in n + 1 .. m
    BY <1>1, <1>3, <2>2
  <2>3. CASE i \in n + 1 .. m
    <3>1. j \in n + 1 .. m
      BY <1>6, <2>3
    <3> QED
      BY <1>1, <1>6, <2>3, <3>1
  <2> QED
    BY <1>2, <2>1, <2>2, <2>3
<1> QED
  BY <1>1, <1>2, <1>4, <1>5, <1>6 DEF SymbolsCounted

NoneAdded(bs, cs, tasks) ==
    \A n \in 1..Len(tasks) : tasks[n].task = "gaps" =>
        \A i \in Len(bs) + 1 .. Len(cs) : cs[i].type = "code_block" => cs[i].parent # tasks[n].parent

LEMMA GapsLeftStays ==
    ASSUME NEW bs, Forest(bs), NEW cs, Forest(cs), Extends(bs, cs), bs # <<>>, NEW tasks, GapsLeft(bs, tasks),
           NoneAdded(bs, cs, tasks)
    PROVE  GapsLeft(cs, tasks)
<1>1. PICK n \in Nat \ {0}, m \in Nat : n = Len(bs) /\ m = Len(cs) /\ n <= m /\ \A i \in 1..n : cs[i] = bs[i]
  BY ForestTyped, EmptySeq DEF Extends, Forest
<1>2. \A i \in 2..m : i \in n + 1 .. m \/ (i \in 2..n /\ cs[i] = bs[i])
  BY <1>1
<1>3. \A k \in 1..Len(tasks) : Container(cs, tasks[k].parent)
  BY ContainerStays DEF GapsLeft
<1>4. ASSUME NEW k \in 1..Len(tasks), tasks[k].task = "gaps", NEW i \in 2..m, cs[i].type = "code_block"
      PROVE  cs[i].parent # tasks[k].parent
  <2>1. CASE i \in n + 1 .. m
    BY <1>1, <1>4, <2>1 DEF NoneAdded
  <2>2. CASE i \in 2..n /\ cs[i] = bs[i]
    BY <1>1, <1>4, <2>2 DEF GapsLeft, NoGapBelow
  <2> QED
    BY <1>2, <2>1, <2>2
<1> QED
  BY <1>1, <1>3, <1>4 DEF GapsLeft, NoGapBelow

\* The tasks of a container come before what was left.
LEMMA GapsJoin ==
    ASSUME NEW bs, NEW s, NEW t, NEW T, s \in Seq(T), t \in Seq(T), GapsLeft(bs, s), GapsLeft(bs, t),
           \A m \in 1..Len(s) : \A n \in 1..Len(t) :
               s[m].task = "gaps" /\ t[n].task = "gaps" => s[m].parent # t[n].parent
    PROVE  GapsLeft(bs, s \o t)
<1>1. PICK a \in Nat, b \in Nat : a = Len(s) /\ b = Len(t)
  OBVIOUS
<1>2. PICK u : u = s \o t
  OBVIOUS
<1>3. Len(u) = a + b /\ \A i \in 1..a + b : u[i] = IF i <= a THEN s[i] ELSE t[i - a]
  BY <1>1, <1>2, ConcatProperties
<1>4. \A i \in 1..a + b : \/ i \in 1..a /\ u[i] = s[i]
                          \/ ~ (i <= a) /\ i - a \in 1..b /\ u[i] = t[i - a]
  BY <1>3
<1>5. \A i \in 1..a + b : Container(bs, u[i].parent)
  BY <1>1, <1>4 DEF GapsLeft
<1>6. ASSUME NEW i \in 1..a + b, u[i].task = "gaps"
      PROVE  NoGapBelow(bs, u[i].parent)
  BY <1>1, <1>4, <1>6 DEF GapsLeft
<1>7. ASSUME NEW i \in 1..a + b, NEW j \in 1..a + b, i < j, u[i].task = "gaps", u[j].task = "gaps"
      PROVE  u[i].parent # u[j].parent
  <2>1. CASE j <= a
    <3>1. i \in 1..a /\ j \in 1..a
      BY <1>7, <2>1
    <3> QED
      BY <1>1, <1>4, <1>7, <3>1 DEF GapsLeft
  <2>2. CASE i <= a /\ ~ (j <= a)
    BY <1>1, <1>4, <1>7, <2>2
  <2>3. CASE ~ (i <= a) /\ ~ (j <= a)
    <3>1. i - a \in 1..b /\ j - a \in 1..b /\ u[i] = t[i - a] /\ u[j] = t[j - a]
      BY <1>4, <2>3
    <3>2. i - a < j - a
      BY <1>7
    <3> QED
      BY <1>1, <1>7, <3>1, <3>2 DEF GapsLeft
  <2> QED
    BY <1>7, <2>1, <2>2, <2>3
<1> QED
  BY <1>2, <1>3, <1>5, <1>6, <1>7 DEF GapsLeft

\* What is left when the first task is done.
LEMMA GapsLeftTail ==
    ASSUME NEW bs, NEW syms, Forest(bs), Todo(todo, bs, syms), todo # <<>>, GapsLeft(bs, todo)
    PROVE  /\ GapsLeft(bs, Tail(todo)) /\ Container(bs, Task.parent)
           /\ Task.task = "gaps" =>
                  /\ NoGapBelow(bs, Task.parent)
                  /\ \A n \in 1..Len(Tail(todo)) :
                         Tail(todo)[n].task = "gaps" => Tail(todo)[n].parent # Task.parent
<1>1. PICK t, n : t = Tail(todo) /\ n = Len(todo) /\ n \in Nat \ {0} /\ Len(t) = n - 1 /\ Task = todo[1]
                  /\ \A i \in 1..n - 1 : t[i] = todo[i + 1]
  BY TaskIs
<1>2. \A i \in 1..n - 1 : i + 1 \in 1..n /\ 1 < i + 1
  BY <1>1
<1>3. 1 \in 1..n
  BY <1>1
<1>4. \A i \in 1..n - 1 : Container(bs, t[i].parent)
  BY <1>1, <1>2 DEF GapsLeft
<1>5. \A i \in 1..n - 1 : t[i].task = "gaps" => NoGapBelow(bs, t[i].parent)
  BY <1>1, <1>2 DEF GapsLeft
<1>6. ASSUME NEW i \in 1..n - 1, NEW j \in 1..n - 1, i < j, t[i].task = "gaps", t[j].task = "gaps"
      PROVE  t[i].parent # t[j].parent
  <2>1. i + 1 < j + 1
    BY <1>1, <1>6
  <2> QED
    BY <1>1, <1>2, <1>6, <2>1 DEF GapsLeft
<1>7. GapsLeft(bs, t)
  BY <1>1, <1>4, <1>5, <1>6 DEF GapsLeft
<1>8. Container(bs, Task.parent)
  BY <1>1, <1>3 DEF GapsLeft
<1>9. ASSUME Task.task = "gaps"
      PROVE  /\ NoGapBelow(bs, Task.parent)
             /\ \A i \in 1..n - 1 : t[i].task = "gaps" => t[i].parent # Task.parent
  <2>1. NoGapBelow(bs, Task.parent)
    BY <1>1, <1>3, <1>9 DEF GapsLeft
  <2>2. \A i \in 1..n - 1 : t[i].task = "gaps" => t[i].parent # Task.parent
    BY <1>1, <1>2, <1>3, <1>9 DEF GapsLeft
  <2> QED
    BY <2>1, <2>2
<1> QED
  BY <1>1, <1>7, <1>8, <1>9

\* The tasks of a symbol with others in it.
Gapless(tasks) == \A n \in 1..Len(tasks) : tasks[n].task # "gaps"
AllBelow(tasks, p) == \A n \in 1..Len(tasks) : tasks[n].parent = p

LEMMA NewTasksLeft ==
    ASSUME FileInv, format = "code", NEW spans, spans \subseteq source.symbols,
           NEW bs, Forest(bs), NEW p \in 1..Len(bs), Container(bs, p), bs[p].type \in ParentTypes, NEW span, NEW covered,
           NoGapBelow(bs, p)
    PROVE  /\ GapsLeft(bs, SymbolTasks(spans, p)) /\ GapsLeft(bs, GapTask(span, covered, p))
           /\ Gapless(SymbolTasks(spans, p)) /\ AllBelow(GapTask(span, covered, p), p)
<1>1. PICK n, s : n \in Nat /\ n = Cardinality(spans) /\ s = SymbolTasks(spans, p) /\ Len(s) = n
  <2>1. Todo(SymbolTasks(spans, p), bs, source.symbols) /\ Len(SymbolTasks(spans, p)) = Cardinality(spans)
    BY SymbolTasksTyped
  <2>2. Len(SymbolTasks(spans, p)) \in Nat
    BY <2>1 DEF Todo
  <2> QED
    BY <2>1, <2>2
<1>2. \A i \in 1..n : s[i] = [task |-> "symbol", span |-> InOrder(spans)[i], parent |-> p, covered |-> {}]
  BY <1>1 DEF SymbolTasks
<1>3. \A i \in 1..n : s[i].task # "gaps" /\ s[i].parent = p
  <2> TAKE i \in 1..n
  <2>1. PICK e : e = [task |-> "symbol", span |-> InOrder(spans)[i], parent |-> p, covered |-> {}]
    OBVIOUS
  <2>2. e.task = "symbol" /\ e.parent = p
    BY <2>1
  <2> QED
    BY <1>2, <2>1, <2>2
<1>4. GapsLeft(bs, s)
  BY <1>1, <1>3 DEF GapsLeft
<1>5. PICK g, t : g = [task |-> "gaps", span |-> span, parent |-> p, covered |-> covered]
                  /\ t = GapTask(span, covered, p) /\ t = <<g>>
  BY DEF GapTask
<1>6. Len(t) = 1 /\ t[1] = g /\ g.parent = p /\ g.task = "gaps"
  BY <1>5
<1>7. \A i \in 1..1 : i = 1
  OBVIOUS
<1>8. GapsLeft(bs, t)
  <2>1. \A i \in 1..1 : Container(bs, t[i].parent)
    BY <1>6, <1>7
  <2>2. \A i \in 1..1 : NoGapBelow(bs, t[i].parent)
    BY <1>6, <1>7
  <2>3. \A i, j \in 1..1 : ~ (i < j)
    OBVIOUS
  <2> QED
    BY <1>6, <2>1, <2>2, <2>3 DEF GapsLeft
<1> QED
  BY <1>1, <1>3, <1>4, <1>5, <1>6, <1>7, <1>8 DEF Gapless, AllBelow

LEMMA BeginNumbered ==
    ASSUME TypeInv, BeginModule, TypeInv'
    PROVE  SymbolsCounted(blocks', counters') /\ GapsLeft(blocks', todo')
<1>1. /\ format = "code" /\ FileInv /\ blocks' = <<ModuleBlock>> /\ Forest(blocks')
  BY DEF BeginModule, Parses, TypeInv
<1>2. Len(blocks') = 1 /\ blocks'[1] = ModuleBlock /\ blocks'[1].type \in ParentTypes /\ 1 \in 1..Len(blocks')
  BY <1>1, ModuleIs, Kinds
<1>3. SymbolsCounted(blocks', counters')
  <2>1. 2..1 = {}
    OBVIOUS
  <2> QED
    BY <1>2, <2>1 DEF SymbolsCounted
<1>4. PICK roots : roots = ChildSymbols(Outside) /\ roots \subseteq source.symbols
  BY <1>1, ChildSymbolsTyped
<1>5. PICK s, t : s = SymbolTasks(roots, 1) /\ t = GapTask(WholeFile, roots, 1) /\ todo' = s \o t
  BY <1>4 DEF BeginModule
<1>6. Container(blocks', 1) /\ NoGapBelow(blocks', 1)
  <2>1. 2..1 = {}
    OBVIOUS
  <2> QED
    BY <1>2, <2>1 DEF Container, NoGapBelow
<1>7. /\ GapsLeft(blocks', s) /\ GapsLeft(blocks', t)
      /\ Gapless(s)
  <2>1. PICK bs, p : bs = blocks' /\ p = 1
    OBVIOUS
  <2>2. /\ FileInv /\ format = "code" /\ roots \subseteq source.symbols /\ Forest(bs) /\ p \in 1..Len(bs)
        /\ Container(bs, p) /\ bs[p].type \in ParentTypes /\ NoGapBelow(bs, p)
    BY <1>1, <1>2, <1>4, <1>6, <2>1
  <2>3. /\ GapsLeft(bs, SymbolTasks(roots, p)) /\ GapsLeft(bs, GapTask(WholeFile, roots, p))
        /\ Gapless(SymbolTasks(roots, p))
    BY <2>2, NewTasksLeft
  <2> QED
    BY <1>5, <2>1, <2>3
<1>8. PICK T : s \in Seq(T) /\ t \in Seq(T)
  <2>1. WholeFile \in Nat \X Nat
    BY <1>1, SymbolsAre DEF WholeFile
  <2>2. Todo(s, blocks', source.symbols) /\ Todo(t, blocks', source.symbols)
    BY <1>1, <1>2, <1>4, <1>5, <2>1, SymbolTasksTyped, GapTaskTyped
  <2> QED
    BY <2>2 DEF Todo
<1>9. GapsLeft(blocks', s \o t)
  BY <1>7, <1>8, GapsJoin DEF Gapless
<1> QED
  BY <1>3, <1>5, <1>9

\* A symbol has the next number.
LEMMA SymbolCounted ==
    ASSUME TypeInv, TypeInv', format = "code", phase = "parse", todo # <<>>, Task.task = "symbol", counters' = Counted("symbol"),
           SymbolsCounted(blocks, counters), GapsLeft(blocks, todo),
           NEW type \in Symbol, NEW span, span[1] \in Nat, span[2] \in Int,
           blocks' = Append(blocks, NewBlock(type, Named("sym", Order), Task.parent, Order, TextOf(span), InSpan(span)))
    PROVE  /\ SymbolsCounted(blocks', counters') /\ GapsLeft(blocks', Tail(todo)) /\ blocks # <<>>
           /\ NoGapBelow(blocks', Len(blocks) + 1)
<1>1. /\ Forest(blocks) /\ Forest(blocks') /\ Todo(todo, blocks, source.symbols) /\ FileInv /\ Counting
      /\ counters \in [Counter -> Nat] /\ counters' \in [Counter -> Nat]
  BY DEF TypeInv, Counting
<1>2. PICK n \in Nat \ {0} : n = Len(blocks) /\ Task.parent \in 1..n /\ DOMAIN blocks = 1..n
  <2>1. PICK n \in Nat : n = Len(blocks) /\ DOMAIN blocks = 1..n
    BY <1>1, ForestTyped
  <2>2. Task.parent \in 1..n
    BY <1>1, <2>1, TaskIs
  <2>3. n # 0
    BY <2>2
  <2> QED
    BY <2>1, <2>2, <2>3
<1>3. blocks # <<>>
  BY <1>1, <1>2, EmptySeq DEF Forest
<1>4. type \in {"code_symbol", "code_container"}
  BY DEF Symbol
<1>5. /\ Extends(blocks, blocks') /\ Len(blocks') = n + 1 /\ blocks'[n + 1].type = type /\ blocks'[n + 1].order = Order
      /\ blocks'[n + 1].id = Named("sym", Order) /\ blocks'[n + 1].parent = Task.parent
  BY <1>2, <1>4, SymbolAdds
<1>6. \A i \in n + 1 .. n + 1 : i = n + 1
  OBVIOUS
<1>7. /\ counters["symbol"] \in Nat /\ counters'["symbol"] = counters["symbol"] + 1 /\ Order = counters["symbol"]
      /\ counters["symbol"] <= counters'["symbol"] /\ Order < counters'["symbol"]
  <2>1. "symbol" \in Counter
    BY Kinds
  <2>2. counters["symbol"] \in Nat /\ Number("symbol") = counters["symbol"] + 1
        /\ counters'["symbol"] = counters["symbol"] + 1
    BY <1>1, <2>1, CountedTyped DEF Counted
  <2> QED
    BY <2>2 DEF Order
<1>8. SymbolBlock(blocks'[n + 1], counters')
  <2>1. Task.parent # 0
    BY <1>2
  <2> QED
    BY <1>5, <1>7, <2>1 DEF SymbolBlock
<1>9. ASSUME NEW i \in 2..n PROVE CodePair(blocks[i], blocks'[n + 1])
  <2>1. blocks'[n + 1].type # "code_block"
    BY <1>4, <1>5
  <2>2. SymbolBlock(blocks[i], counters) \/ GapBlock(blocks, blocks[i])
    BY <1>2 DEF SymbolsCounted
  <2>3. CASE SymbolBlock(blocks[i], counters)
    BY <1>5, <1>7, <2>1, <2>3 DEF SymbolBlock, CodePair
  <2>4. CASE GapBlock(blocks, blocks[i])
    BY <2>1, <2>4 DEF GapBlock, CodePair, Symbol
  <2> QED
    BY <2>2, <2>3, <2>4
<1>10. SymbolsCounted(blocks', counters')
  <2>1. \A i \in Len(blocks) + 1 .. Len(blocks') :
            SymbolBlock(blocks'[i], counters') \/ GapBlock(blocks', blocks'[i])
    BY <1>2, <1>5, <1>6, <1>8
  <2>2. \A i \in 2..Len(blocks) : \A j \in Len(blocks) + 1 .. Len(blocks') : CodePair(blocks[i], blocks'[j])
    BY <1>2, <1>5, <1>6, <1>9
  <2>3. \A i, j \in Len(blocks) + 1 .. Len(blocks') : i < j => CodePair(blocks'[i], blocks'[j])
    BY <1>2, <1>5, <1>6
  <2> QED
    BY <1>1, <1>3, <1>5, <1>7, <2>1, <2>2, <2>3, SymbolsGrow, ZenonT(30)
<1>11. GapsLeft(blocks', Tail(todo))
  <2>0. PICK t : t = Tail(todo)
    OBVIOUS
  <2>1. GapsLeft(blocks, t)
    BY <1>1, <2>0, GapsLeftTail
  <2>2. NoneAdded(blocks, blocks', t)
    <3>1. \A i \in Len(blocks) + 1 .. Len(blocks') : blocks'[i].type # "code_block"
      BY <1>2, <1>4, <1>5, <1>6
    <3> QED
      BY <3>1 DEF NoneAdded
  <2>3. GapsLeft(blocks', t)
    BY <1>1, <1>3, <1>5, <2>1, <2>2, GapsLeftStays
  <2> QED
    BY <2>0, <2>3
<1>12. ASSUME NEW i \in 2..n + 1, blocks'[i].type = "code_block" PROVE blocks'[i].parent # n + 1
  <2>1. i # n + 1
    BY <1>4, <1>5, <1>12
  <2>2. i \in 1..n /\ blocks'[i] = blocks[i]
    BY <1>2, <1>5, <2>1 DEF Extends
  <2>3. blocks[i].parent \in Nat /\ blocks[i].parent < i
    BY <1>1, <1>2, <2>2, ForestTyped DEF Forest
  <2>4. PICK p \in Nat : p = blocks[i].parent /\ p < i
    BY <2>3
  <2>5. p # n + 1
    BY <2>2, <2>4
  <2> QED
    BY <2>2, <2>4, <2>5
<1> QED
  BY <1>2, <1>3, <1>5, <1>10, <1>11, <1>12 DEF NoGapBelow

LEMMA SymbolsNumbered ==
    ASSUME TypeInv, EmitSymbol \/ EmitContainer, TypeInv', SymbolsCounted(blocks, counters), GapsLeft(blocks, todo)
    PROVE  SymbolsCounted(blocks', counters') /\ GapsLeft(blocks', todo')
<1>1. /\ format = "code" /\ phase = "parse" /\ todo # <<>> /\ Task.task = "symbol" /\ counters' = Counted("symbol")
      /\ FileInv /\ Forest(blocks) /\ Forest(blocks') /\ Todo(todo, blocks, source.symbols)
  BY DEF EmitSymbol, EmitContainer, Performs, Parses, TypeInv
<1>2. PICK s \in source.symbols : s = Task.span
  BY <1>1, TaskIs
<1>3. s[1] \in Nat /\ s[2] \in Nat /\ s[2] \in Int
  <2>1. s[1] \in Nat /\ s[2] \in Nat
    BY <1>1, SymbolsAre
  <2> QED
    BY <2>1
<1>4. CASE EmitSymbol
  <2>1. blocks' = Append(blocks, NewBlock("code_symbol", Named("sym", Order), Task.parent, Order, TextOf(s), InSpan(s)))
    BY <1>2, <1>4 DEF EmitSymbol
  <2>2. "code_symbol" \in Symbol
    BY DEF Symbol
  <2>3. SymbolsCounted(blocks', counters') /\ GapsLeft(blocks', Tail(todo))
    BY <1>1, <1>3, <2>1, <2>2, SymbolCounted
  <2> QED
    BY <1>4, <2>3 DEF EmitSymbol
<1>5. CASE EmitContainer
  <2>1. PICK header : header = Header(s) /\ header[1] \in Nat /\ header[2] \in Int
                      /\ <<header[2] + 1, s[2]>> \in Nat \X Nat
    BY <1>1, <1>3, HeaderIs
  <2>2. PICK own : own = Len(blocks) + 1
    OBVIOUS
  <2>3. PICK inner : inner = ChildSymbols(s) /\ inner \subseteq source.symbols
    BY <1>1, ChildSymbolsTyped
  <2>4. blocks' = Append(blocks, NewBlock("code_container", Named("sym", Order), Task.parent, Order, TextOf(header), InSpan(header)))
    BY <1>2, <1>5, <2>1 DEF EmitContainer
  <2>5. /\ own \in 1..Len(blocks') /\ blocks'[own].type = "code_container" /\ Extends(blocks, blocks')
        /\ Len(blocks') = Len(blocks) + 1
    BY <1>1, <2>1, <2>2, <2>4, SymbolAdds
  <2>6. blocks'[own].type \in ParentTypes
    BY <2>5, Kinds
  <2>7. "code_container" \in Symbol
    BY DEF Symbol
  <2>8. /\ SymbolsCounted(blocks', counters') /\ GapsLeft(blocks', Tail(todo)) /\ blocks # <<>>
        /\ NoGapBelow(blocks', own)
    BY <1>1, <2>1, <2>2, <2>4, <2>7, SymbolCounted
  <2>9. PICK n \in Nat \ {0} : n = Len(blocks)
    BY <1>1, <2>8, ForestTyped, EmptySeq DEF Forest
  <2>10. Container(blocks', own) /\ own = n + 1
    BY <2>2, <2>5, <2>9 DEF Container
  <2>11. PICK g, a, b, t : /\ g = <<header[2] + 1, s[2]>> /\ a = SymbolTasks(inner, own) /\ b = GapTask(g, inner, own)
                           /\ t = Tail(todo) /\ todo' = a \o b \o t
    BY <1>2, <1>5, <2>1, <2>2, <2>3 DEF EmitContainer
  <2>12. /\ GapsLeft(blocks', a) /\ GapsLeft(blocks', b)
         /\ Gapless(a) /\ AllBelow(b, own)
    <3>1. PICK bs : bs = blocks'
      OBVIOUS
    <3>2. /\ FileInv /\ format = "code" /\ inner \subseteq source.symbols /\ Forest(bs) /\ own \in 1..Len(bs)
          /\ Container(bs, own) /\ bs[own].type \in ParentTypes /\ NoGapBelow(bs, own)
      BY <1>1, <2>3, <2>5, <2>6, <2>8, <2>10, <3>1
    <3>3. /\ GapsLeft(bs, SymbolTasks(inner, own)) /\ GapsLeft(bs, GapTask(g, inner, own))
          /\ Gapless(SymbolTasks(inner, own)) /\ AllBelow(GapTask(g, inner, own), own)
      BY <3>2, NewTasksLeft
    <3> QED
      BY <2>11, <3>1, <3>3
  <2>13. PICK T : a \in Seq(T) /\ b \in Seq(T) /\ t \in Seq(T)
    <3>1. Todo(a, blocks', source.symbols)
      BY <1>1, <2>3, <2>5, <2>6, <2>11, SymbolTasksTyped
    <3>2. Todo(b, blocks', source.symbols)
      BY <1>1, <2>1, <2>3, <2>5, <2>6, <2>11, GapTaskTyped
    <3>3. Todo(t, blocks', source.symbols)
      BY <1>1, <2>5, <2>11, TaskIs, TodoStays
    <3> QED
      BY <3>1, <3>2, <3>3 DEF Todo
  <2>14. \A i \in 1..Len(t) : t[i].parent \in 1..n
    <3>1. Todo(t, blocks, source.symbols)
      BY <1>1, <2>11, TaskIs
    <3> TAKE i \in 1..Len(t)
    <3>2. t[i] \in Tasks(source.symbols, n)
      BY <2>9, <3>1, Entry DEF Todo
    <3> QED
      BY <3>2 DEF Tasks
  <2>15. PICK u : u = b \o t /\ u \in Seq(T)
    BY <2>13, ConcatProperties
  <2>16. GapsLeft(blocks', u)
    <3>1. \A i \in 1..Len(b) : \A j \in 1..Len(t) : b[i].parent # t[j].parent
      BY <2>9, <2>10, <2>12, <2>14 DEF AllBelow
    <3> QED
      BY <2>8, <2>11, <2>12, <2>13, <2>15, <3>1, GapsJoin
  <2>17. GapsLeft(blocks', a \o u)
    BY <2>12, <2>13, <2>15, <2>16, GapsJoin DEF Gapless
  <2>18. a \o b \o t = a \o u
    BY <2>13, <2>15, SMTT(30)
  <2> QED
    BY <2>8, <2>11, <2>17, <2>18
<1> QED
  BY <1>4, <1>5

LEMMA GapsNumbered ==
    ASSUME TypeInv, EmitGaps, TypeInv', SymbolsCounted(blocks, counters), GapsLeft(blocks, todo)
    PROVE  SymbolsCounted(blocks', counters') /\ GapsLeft(blocks', todo')
<1>1. /\ format = "code" /\ phase = "parse" /\ todo # <<>> /\ Task.task = "gaps" /\ counters' = counters
      /\ todo' = Tail(todo) /\ FileInv /\ Counting /\ Forest(blocks) /\ Forest(blocks') /\ Todo(todo, blocks, source.symbols)
      /\ counters \in [Counter -> Nat]
  BY DEF EmitGaps, Performs, Parses, TypeInv, Counting
<1>2. Task.parent \in 1..Len(blocks) /\ Task.span \in Nat \X Nat /\ Root(blocks, Task.parent)
  BY <1>1, TaskIs
<1>3. PICK new, full : Emits(new, full, Gaps(Task.span, Task.covered))
  BY <1>1, <1>2, EmitsGaps
<1>4. PICK n \in Nat : n = Len(blocks) /\ n # 0 /\ DOMAIN blocks = 1..n
  <2>1. PICK n \in Nat : n = Len(blocks) /\ DOMAIN blocks = 1..n
    BY <1>1, ForestTyped
  <2>2. n # 0
    BY <1>2, <2>1
  <2> QED
    BY <2>1, <2>2
<1>5. PICK l \in Nat : /\ l = Len(new) /\ new \in Seq(Block) /\ l = Len(full)
                       /\ \A j \in 1..l : full[j] \in Nat \ {0} /\ GapEntry(new[j], Gaps(Task.span, Task.covered), full[j])
                       /\ \A i, j \in 1..l : i < j => full[i] < full[j]
  BY <1>3 DEF Emits, Increasing
<1>6. blocks \in Seq(Block) /\ blocks' = blocks \o new /\ blocks # <<>>
  <2>1. blocks \in Seq(Block) /\ blocks' = blocks \o new
    BY <1>1, <1>3 DEF Emits, Forest
  <2> QED
    BY <1>4, <2>1, EmptySeq
<1>7. Len(blocks') = n + l /\ \A i \in 1..n + l : blocks'[i] = IF i <= n THEN blocks[i] ELSE new[i - n]
  BY <1>4, <1>5, <1>6, ConcatProperties, ZenonT(30)
<1>8. Extends(blocks, blocks')
  BY <1>4, <1>5, <1>7 DEF Extends
<1>9. \A i \in n + 1 .. n + l : i - n \in 1..l /\ blocks'[i] = new[i - n]
  BY <1>7
<1>10. PICK base : base = GapBase(Task.parent) /\ base \in Nat
  BY <1>1, Kinds DEF GapBase, Order, Counting
<1>11. GapOf = GapIn(blocks', Task.parent) /\ Container(blocks', Task.parent)
  <2>1. Container(blocks, Task.parent)
    BY <1>1, GapsLeftTail
  <2>2. GapOf = GapIn(blocks, Task.parent)
    BY DEF GapOf, GapIn
  <2> QED
    BY <1>1, <1>6, <1>8, <2>1, <2>2, ContainerStays
<1>12. ASSUME NEW j \in 1..l
       PROVE  /\ new[j].type = "code_block" /\ new[j].parent = Task.parent
              /\ new[j].id = [name |-> "gap", of |-> GapOf, n |-> full[j] - 1] /\ new[j].order = base + full[j] - 1
              /\ new[j].id.name = "gap" /\ new[j].id.of = GapOf /\ new[j].id.n = full[j] - 1
  <2>1. /\ new[j].type = "code_block" /\ new[j].parent = Task.parent
        /\ new[j].id = [name |-> "gap", of |-> GapOf, n |-> full[j] - 1] /\ new[j].order = base + full[j] - 1
    BY <1>5, <1>10 DEF GapEntry
  <2>2. PICK id : id = [name |-> "gap", of |-> GapOf, n |-> full[j] - 1]
    OBVIOUS
  <2>3. id.name = "gap" /\ id.of = GapOf /\ id.n = full[j] - 1
    BY <2>2
  <2> QED
    BY <2>1, <2>2, <2>3
<1>13. ASSUME NEW i \in n + 1 .. n + l PROVE GapBlock(blocks', blocks'[i])
  BY <1>9, <1>11, <1>12 DEF GapBlock
<1>14. /\ NoGapBelow(blocks, Task.parent) /\ GapsLeft(blocks, Tail(todo))
       /\ \A k \in 1..Len(Tail(todo)) : Tail(todo)[k].task = "gaps" => Tail(todo)[k].parent # Task.parent
  BY <1>1, GapsLeftTail
<1>15. ASSUME NEW i \in 2..n, NEW j \in n + 1 .. n + l PROVE CodePair(blocks[i], blocks'[j])
  <2>1. blocks'[j].type = "code_block" /\ blocks'[j].parent = Task.parent
    BY <1>9, <1>12
  <2>2. blocks[i].type = "code_block" => blocks[i].parent # Task.parent
    BY <1>4, <1>14 DEF NoGapBelow
  <2> QED
    BY <2>1, <2>2 DEF CodePair, Symbol
<1>16. ASSUME NEW i \in n + 1 .. n + l, NEW j \in n + 1 .. n + l, i < j PROVE CodePair(blocks'[i], blocks'[j])
  <2>1. i - n \in 1..l /\ j - n \in 1..l /\ i - n < j - n
    BY <1>9, <1>16
  <2>2. PICK a \in Nat, b \in Nat : a = full[i - n] /\ b = full[j - n] /\ a < b
    BY <1>5, <2>1
  <2>3. /\ blocks'[i].order = base + a - 1 /\ blocks'[j].order = base + b - 1
        /\ blocks'[i].id.n = a - 1 /\ blocks'[j].id.n = b - 1 /\ blocks'[i].type = "code_block"
    BY <1>9, <1>12, <2>1, <2>2
  <2>4. base + a - 1 < base + b - 1 /\ a - 1 < b - 1
    BY <1>10, <2>2
  <2>5. "code_block" \notin Symbol
    BY DEF Symbol
  <2> QED
    BY <2>3, <2>4, <2>5 DEF CodePair
<1>17. SymbolsCounted(blocks', counters')
  <2>1. \A i \in Len(blocks) + 1 .. Len(blocks') : GapBlock(blocks', blocks'[i])
    BY <1>4, <1>7, <1>13
  <2>2. \A i \in 2..Len(blocks) : \A j \in Len(blocks) + 1 .. Len(blocks') : CodePair(blocks[i], blocks'[j])
    BY <1>4, <1>7, <1>15
  <2>3. \A i, j \in Len(blocks) + 1 .. Len(blocks') : i < j => CodePair(blocks'[i], blocks'[j])
    BY <1>4, <1>7, <1>16
  <2>4. counters["symbol"] <= counters'["symbol"] /\ counters' \in [Counter -> Nat]
    BY <1>1, Kinds
  <2> QED
    BY <1>1, <1>6, <1>8, <2>1, <2>2, <2>3, <2>4, SymbolsGrow
<1>18. GapsLeft(blocks', todo')
  <2>1. PICK t : t = Tail(todo)
    OBVIOUS
  <2>2. \A i \in Len(blocks) + 1 .. Len(blocks') : blocks'[i].parent = Task.parent
    <3>1. ASSUME NEW i \in n + 1 .. n + l PROVE blocks'[i].parent = Task.parent
      BY <1>9, <1>12
    <3> QED
      BY <1>4, <1>7, <3>1
  <2>3. NoneAdded(blocks, blocks', t)
    BY <1>14, <2>1, <2>2 DEF NoneAdded
  <2>4. GapsLeft(blocks', t)
    BY <1>1, <1>6, <1>8, <1>14, <2>1, <2>3, GapsLeftStays
  <2> QED
    BY <1>1, <2>1, <2>4
<1> QED
  BY <1>17, <1>18

LEMMA WindowsNumbered ==
    ASSUME TypeInv, EmitWindows, TypeInv'
    PROVE  WindowsCounted(blocks') /\ phase' # "parse"
<1>1. /\ format = "code" /\ phase' = "chunk" /\ FileInv
  BY DEF EmitWindows, Parses, TypeInv
<1>2. PICK new, full : EmitsWindows(new, full)
  BY <1>1, WindowsEmitted
<1>3. PICK l \in Nat : /\ l = Len(new) /\ new \in Seq(Block) /\ l = Len(full)
                       /\ \A j \in 1..l : full[j] \in Nat /\ WindowEntry(new[j], full[j])
                       /\ \A i, j \in 1..l : i < j => full[i] < full[j]
  BY <1>2 DEF EmitsWindows, Increasing
<1>4. PICK first : first = <<ModuleBlock>> /\ first \in Seq(Block) /\ Len(first) = 1 /\ first[1] = ModuleBlock
  <2>1. PICK b \in Block : b = ModuleBlock
    BY ModuleIs
  <2>2. <<b>> \in Seq(Block) /\ Len(<<b>>) = 1 /\ <<b>>[1] = b
    OBVIOUS
  <2> QED
    BY <2>1, <2>2
<1>5. blocks' = first \o new
  BY <1>2, <1>4 DEF EmitsWindows
<1>6. Len(blocks') = 1 + l /\ \A i \in 1..1 + l : blocks'[i] = IF i <= 1 THEN first[i] ELSE new[i - 1]
  <2>1. PICK u : u = first \o new
    OBVIOUS
  <2>2. Len(u) = Len(first) + Len(new)
        /\ \A i \in 1..Len(first) + Len(new) : u[i] = IF i <= Len(first) THEN first[i] ELSE new[i - Len(first)]
    BY <1>3, <1>4, <2>1, ConcatProperties, ZenonT(30)
  <2> QED
    BY <1>3, <1>4, <1>5, <2>1, <2>2
<1>7. \A i \in 2..1 + l : i - 1 \in 1..l /\ blocks'[i] = new[i - 1]
  BY <1>6
<1>8. blocks'[1] = ModuleBlock /\ blocks' # <<>>
  <2>1. 1 \in 1..1 + l /\ 1 <= 1 /\ 1 + l # 0
    OBVIOUS
  <2>2. blocks' # <<>>
    BY <1>6, <2>1
  <2> QED
    BY <1>4, <1>6, <2>1, <2>2
<1>9. \A j \in 1..l : /\ new[j].type = "code_symbol" /\ new[j].parent = 1 /\ new[j].id = Named("win", new[j].order)
                      /\ new[j].order = full[j]
  BY <1>3 DEF WindowEntry
<1>10. ASSUME NEW i \in 2..1 + l, NEW j \in 2..1 + l, i < j PROVE blocks'[i].order < blocks'[j].order
  <2>1. i - 1 \in 1..l /\ j - 1 \in 1..l /\ i - 1 < j - 1
    BY <1>7, <1>10
  <2> QED
    BY <1>3, <1>7, <1>9, <2>1
<1>11. \A i \in 2..1 + l : blocks'[i].type = "code_symbol" /\ blocks'[i].parent = 1 /\ blocks'[i].id = Named("win", blocks'[i].order)
  BY <1>7, <1>9
<1> QED
  BY <1>1, <1>6, <1>8, <1>10, <1>11 DEF WindowsCounted

LEMMA CodeNumbered ==
    ASSUME TypeInv, CodeStep, TypeInv', CodeNumbers(blocks, counters, todo, phase)
    PROVE  CodeNumbers(blocks', counters', todo', phase') /\ format = "code" /\ format' = format
<1>1. format = "code" /\ format' = format /\ phase = "parse"
  BY DEF CodeStep, BeginModule, EmitSymbol, EmitContainer, EmitGaps, EmitWindows, CodeEnd, Performs, Parses, file
<1>2. SymbolsCounted(blocks, counters) /\ GapsLeft(blocks, todo)
  BY <1>1 DEF CodeNumbers
<1>3. CASE BeginModule
  BY <1>1, <1>3, BeginNumbered DEF CodeNumbers
<1>4. CASE EmitSymbol \/ EmitContainer
  BY <1>1, <1>2, <1>4, SymbolsNumbered DEF CodeNumbers
<1>5. CASE EmitGaps
  BY <1>1, <1>2, <1>5, GapsNumbered DEF CodeNumbers
<1>6. CASE EmitWindows
  BY <1>1, <1>6, WindowsNumbered DEF CodeNumbers
<1>7. CASE CodeEnd
  <2>1. blocks' = blocks /\ counters' = counters /\ phase' # "parse"
    BY <1>7 DEF CodeEnd
  <2> QED
    BY <1>1, <1>2, <2>1 DEF CodeNumbers
<1> QED
  BY <1>3, <1>4, <1>5, <1>6, <1>7, SMTT(30) DEF CodeStep

\* In code everything hangs below something.
LEMMA CodePreamble ==
    ASSUME NEW bs, Forest(bs), NEW cnt, NEW tasks, NEW ph, CodeNumbers(bs, cnt, tasks, ph), NEW open
    PROVE  Preamble(bs, open, "code")
<1>1. "code" \notin Headings
  BY DEF Headings
<1>2. ASSUME NEW i \in 1..Len(bs), bs[i].type \in ChildTypes PROVE bs[i].parent # 0
  <2>1. PICK n \in Nat : n = Len(bs) /\ bs # <<>>
    <3>1. Len(bs) \in Nat
      BY ForestTyped
    <3> QED
      BY <3>1
  <2>2. bs[1] = ModuleBlock
    BY <2>1 DEF CodeNumbers, WindowsCounted, SymbolsCounted
  <2>3. i # 1
    BY <1>2, <2>2, ModuleIs, Kinds
  <2>4. i \in 2..n
    BY <2>1, <2>3
  <2>5. CASE WindowsCounted(bs)
    BY <2>1, <2>4, <2>5 DEF WindowsCounted
  <2>6. CASE SymbolsCounted(bs, cnt)
    <3>1. CASE SymbolBlock(bs[i], cnt)
      BY <3>1 DEF SymbolBlock
    <3>2. CASE GapBlock(bs, bs[i])
      BY <3>2 DEF GapBlock, Container
    <3> QED
      BY <2>1, <2>4, <2>6, <3>1, <3>2 DEF SymbolsCounted
  <2> QED
    BY <2>5, <2>6 DEF CodeNumbers
<1> QED
  BY <1>1, <1>2 DEF Preamble

\* How blocks are numbered and what hangs below nothing, whatever the format.
NumbersInv ==
    /\ format \in Headings => OutlineNumbers(blocks, counters)
    /\ format = "pdf" => PdfNumbers(blocks, counters, pages)
    /\ format = "pptx" => PptxNumbers(blocks, counters, source, read)
    /\ format = "records" => RecordNumbers(blocks, read)
    /\ format = "code" => CodeNumbers(blocks, counters, todo, phase)
    /\ Preamble(blocks, stack, format)

LEMMA FormatsApart ==
    /\ {"pdf", "pptx", "records", "code"} \cap Headings = {} /\ "markdown" \in Headings
    /\ {"markdown", "docx", "html", "pptx", "records", "pdf", "code"}
           = Headings \cup {"pdf", "pptx", "records", "code"}
BY DEF Headings

LEMMA NumbersBegin == Init => NumbersInv
<1> SUFFICES ASSUME Init PROVE NumbersInv
  OBVIOUS
<1>1. blocks = <<>> /\ todo = <<>> /\ Len(blocks) = 0 /\ Len(todo) = 0 /\ 1..0 = {} /\ 2..0 = {}
  BY DEF Init, BlocksInit, CodeInit
<1>2. /\ \A tags : Numbers(blocks, counters, tags)
      /\ Preamble(blocks, stack, format)
  BY <1>1 DEF Numbers, Preamble
<1>3. /\ OutlineNumbers(blocks, counters) /\ PdfNumbers(blocks, counters, pages)
      /\ PptxNumbers(blocks, counters, source, read) /\ RecordNumbers(blocks, read)
  BY <1>1, <1>2 DEF OutlineNumbers, PdfNumbers, PptxNumbers, RecordNumbers
<1>4. CodeNumbers(blocks, counters, todo, phase)
  BY <1>1 DEF CodeNumbers, SymbolsCounted, GapsLeft
<1> QED
  BY <1>2, <1>3, <1>4 DEF NumbersInv

LEMMA NumbersKept == TypeInv /\ TypeInv' /\ NumbersInv /\ [Next]_vars => NumbersInv'
<1> SUFFICES ASSUME TypeInv, TypeInv', NumbersInv, [Next]_vars PROVE NumbersInv'
  OBVIOUS
<1>1. /\ Forest(blocks) /\ Open(stack, blocks, 1..6) /\ Counting /\ counters' \in [Counter -> Nat] /\ Forest(blocks')
      /\ FileInv
  BY DEF TypeInv, Counting
<1>2. ASSUME Headed, format' = format, format \in Headings PROVE NumbersInv'
  <2>1. OutlineNumbers(blocks', counters') /\ Preamble(blocks', stack', format)
    BY <1>1, <1>2, HeadedNumbers DEF NumbersInv
  <2> QED
    BY <1>2, <2>1, FormatsApart DEF NumbersInv
<1>3. CASE MarkdownStep /\ UNCHANGED <<pdf, todo>> /\ UNCHANGED chunks
  BY <1>2, <1>3, MarkdownHeaded, FormatsApart
<1>4. CASE OutlineStep /\ UNCHANGED <<markdown, pdf, todo>> /\ UNCHANGED chunks
  <2>1. format \in {"docx", "html", "pptx", "records"}
    <3>1. format # "markdown" /\ format # "pdf" /\ format # "code"
      BY <1>4 DEF OutlineStep, DocxBlank, DocxHeading, DocxParagraph, DocxRow, HtmlBlank, HtmlOther, HtmlHeading, HtmlPre, HtmlItem,
                  HtmlParagraph, ReadSlide, ReadShape, SkipShape, BeginTable, ReadRow, ReadNotes, AddRoot, ReadRecord, SkipScalar,
                  OutlineEnd, Docx, Html, Pptx, Reads
    <3>2. format \in {"markdown", "docx", "html", "pptx", "records", "pdf", "code"}
      BY <1>1, SourceIs
    <3> QED
      BY <3>1, <3>2
  <2>2. CASE format \in {"docx", "html"}
    <3>1. format \in Headings
      BY <2>2 DEF Headings
    <3> QED
      BY <1>2, <1>4, <2>2, <3>1, OutlineHeaded
  <2>3. CASE format = "pptx"
    <3>1. PptxNumbers(blocks', counters', source', read') /\ Preamble(blocks', stack', format') /\ format' = format
      BY <1>4, <2>3, PptxNumbered DEF NumbersInv
    <3> QED
      BY <2>3, <3>1, FormatsApart DEF NumbersInv
  <2>4. CASE format = "records"
    <3>1. RecordNumbers(blocks', read') /\ Preamble(blocks', stack', format') /\ format' = format
      BY <1>4, <2>4, RecordsNumbered DEF NumbersInv
    <3> QED
      BY <2>4, <3>1, FormatsApart DEF NumbersInv
  <2> QED
    BY <2>1, <2>2, <2>3, <2>4
<1>5. CASE PdfStep /\ UNCHANGED <<markdown, todo>> /\ UNCHANGED chunks
  <2>1. format = "pdf"
    BY <1>5 DEF PdfStep, SkipElement, AddTitle, AddTable, AddChild, PdfEnd, ReadsElement
  <2>2. PdfNumbers(blocks', counters', pages') /\ Preamble(blocks', stack', format') /\ format' = "pdf"
    BY <1>5, <2>1, PdfNumbered DEF NumbersInv
  <2> QED
    BY <2>2, FormatsApart DEF NumbersInv
<1>6. CASE CodeStep /\ UNCHANGED <<markdown, pdf>> /\ UNCHANGED chunks
  <2>1. format = "code"
    BY <1>6 DEF CodeStep, BeginModule, EmitSymbol, EmitContainer, EmitGaps, EmitWindows, CodeEnd, Performs, Parses
  <2>2. CodeNumbers(blocks', counters', todo', phase') /\ format' = "code"
    BY <1>6, <2>1, CodeNumbered DEF NumbersInv
  <2>3. Preamble(blocks', stack', "code")
    BY <1>1, <2>2, CodePreamble
  <2> QED
    BY <2>2, <2>3, FormatsApart, SMTT(30) DEF NumbersInv
<1>7. CASE Chunk
  <2>1. /\ format' = format /\ blocks' = blocks /\ stack' = stack /\ counters' = counters /\ source' = source /\ read' = read
        /\ pages' = pages /\ todo' = todo /\ phase = "chunk" /\ phase' = "done"
    BY <1>7 DEF Chunk, ChunkDocument, file, pdf
  <2>2. CodeNumbers(blocks, counters, todo, phase) => CodeNumbers(blocks', counters', todo', phase')
    BY <2>1 DEF CodeNumbers
  <2> QED
    BY <2>1, <2>2 DEF NumbersInv
<1>8. CASE UNCHANGED vars
  BY <1>8 DEF vars, file, pdf, NumbersInv
<1> QED
  BY <1>3, <1>4, <1>5, <1>6, <1>7, <1>8 DEF Next, Parse

LEMMA NumbersHold == Spec => [](TypeInv /\ NumbersInv)
<1>1. Init => TypeInv /\ NumbersInv
  BY TypeInvBegins, NumbersBegin
<1>2. TypeInv /\ NumbersInv /\ [Next]_vars => TypeInv' /\ NumbersInv'
  BY TypeInvKept, NumbersKept
<1> QED
  BY <1>1, <1>2, PTL DEF Spec

----------------------------------------------------------------------------
(* ParentsShowTheirLeaves.                                                 *)

LEMMA PreambleOnly == TypeInv /\ NumbersInv => OnlyPreambleIsOrphan
<1> SUFFICES ASSUME TypeInv, NumbersInv, NEW n \in DOMAIN children, children[n].parent = NoParent
             PROVE  /\ \A b \in 1..children[n].block : ~ IsParentType(b)
                    /\ \E i \in Leaves : NearestParent(i) # 0
  BY DEF OnlyPreambleIsOrphan
<1>1. /\ Forest(blocks) /\ phase = "done" /\ config \in Config
      /\ parents = ParentChunks(config.parent) /\ children = AllChildren
  BY DEF TypeInv, ChunksInv
<1>2. n \in 1..Len(children)
  BY <1>1, ChildrenAreThose
<1>3. PICK i \in Leaves : \E j \in 1..Len(CutOf(i, config)) : ChildAt(n, i, j, config)
  BY <1>1, <1>2, ChildrenAreThose
<1>4. children[n].block = i /\ ParentOf(i, Emitted) = NoParent
  BY <1>3 DEF ChildAt, KidOf
<1>5. i \in 1..Len(blocks) /\ blocks[i].type \in ChildTypes /\ blocks[i].parent \in Nat
      /\ NearestParent(i) = blocks[i].parent
  <2>1. i \in 1..Len(blocks) /\ blocks[i].type \in ChildTypes
    BY <1>1, LeavesAre DEF Leaves
  <2> QED
    BY <1>1, <2>1, ForestTyped, NearestIs
<1>6. ~ (blocks[i].parent # 0 /\ blocks[i].parent \in Emitted) /\ Synthetic \notin Emitted
  <2>1. blocks[i].parent # NoParent /\ Synthetic # NoParent
    BY <1>5 DEF NoParent, Synthetic
  <2> QED
    BY <1>4, <1>5, <2>1 DEF ParentOf
<1>7. PICK owners : Owned(owners)
  <2>1. ~ Synthesized
    <3> SUFFICES ASSUME Synthesized PROVE FALSE
      OBVIOUS
    <3>1. 1 \in DOMAIN parents /\ parents[1].block = Synthetic
      BY DEF Synthesized
    <3> QED
      BY <1>6, <3>1 DEF Emitted
  <2>2. Leaves # {}
    BY <1>3
  <2> QED
    BY <1>1, <2>1, <2>2, ParentsAre
<1>8. OwningParents \subseteq Emitted /\ OwningParents # {}
  <2>1. PICK c \in Nat : c = Len(owners) /\ c = Len(parents) /\ DOMAIN parents = 1..c
    BY <1>1, <1>7, ParentsAre DEF Owned, Increasing
  <2>2. \A x \in OwningParents : \E k \in 1..c : owners[k] = x /\ parents[k].block = x
    BY <1>7, <2>1 DEF Owned, Increasing
  <2>3. OwningParents # {}
    BY <1>7 DEF Owned
  <2> QED
    BY <2>1, <2>2, <2>3 DEF Emitted
<1>9. blocks[i].parent = 0
  <2> SUFFICES ASSUME blocks[i].parent # 0 PROVE FALSE
    OBVIOUS
  <2>1. blocks[i].parent \in OwningParents
    BY <1>1, OwnersAre
  <2> QED
    BY <1>6, <1>8, <2>1
<1>10. \A b \in 1..i : ~ IsParentType(b)
  BY <1>5, <1>9 DEF NumbersInv, Preamble, IsParentType
<1>11. PICK k \in Leaves : blocks[k].parent # 0
  BY <1>1, <1>8, OwnersAre
<1>12. NearestParent(k) # 0
  BY <1>1, <1>11, OwnersAre
<1> QED
  BY <1>4, <1>10, <1>12

\* Leaves that should stand in the order of the file, when they have one parent.
SameKind(b, c) ==
    b.type = c.type \/ (format = "html" /\ {b.type, c.type} = {"paragraph", "list_item"})

LEMMA KindsCounted ==
    ASSUME TypeInv, NumbersInv, NEW i \in Leaves, NEW j \in Leaves, i < j, blocks[i].parent = blocks[j].parent,
           SameKind(blocks[i], blocks[j])
    PROVE  blocks[i].order < blocks[j].order
<1>1. Forest(blocks) /\ FileInv
  BY DEF TypeInv
<1>2. PICK m \in Nat : /\ m = Len(blocks) /\ i \in 1..m /\ j \in 1..m
                       /\ blocks[i].type \in ChildTypes /\ blocks[j].type \in ChildTypes
  BY <1>1, ForestTyped, LeavesAre DEF Leaves
<1>3. blocks[i].type \notin ParentTypes /\ blocks[j].type \notin ParentTypes
  BY <1>2, Kinds
<1>4. \A bs, k : k \in 1..Len(bs) /\ k # 1 /\ Len(bs) \in Nat => k \in 2..Len(bs)
  OBVIOUS
<1>5. CASE format \in Headings
  <2>1. blocks[i].type \in DOMAIN OutlineTags /\ blocks[j].type \in DOMAIN OutlineTags /\ Numbers(blocks, counters, OutlineTags)
    BY <1>2, <1>5 DEF NumbersInv, OutlineNumbers
  <2>2. OutlineTags[blocks[i].type].counter = OutlineTags[blocks[j].type].counter
    <3>1. CASE blocks[i].type = blocks[j].type
      BY <3>1
    <3>2. CASE {blocks[i].type, blocks[j].type} = {"paragraph", "list_item"}
      <4>1. blocks[i].type \in {"paragraph", "list_item"} /\ blocks[j].type \in {"paragraph", "list_item"}
        BY <3>2
      <4>2. OutlineTags["paragraph"].counter = "paragraph" /\ OutlineTags["list_item"].counter = "paragraph"
        BY OutlineTagsAre
      <4> QED
        BY <4>1, <4>2
    <3> QED
      BY <3>1, <3>2 DEF SameKind
  <2> QED
    BY <1>2, <2>1, <2>2 DEF Numbers
<1>6. ASSUME format \notin Headings PROVE blocks[i].type = blocks[j].type
  BY <1>6 DEF SameKind, Headings
<1>7. CASE format = "pdf"
  <2>1. blocks[i].type = blocks[j].type
    BY <1>6, <1>7, FormatsApart
  <2>2. PdfNumbers(blocks, counters, pages)
    BY <1>7 DEF NumbersInv
  <2>3. CASE blocks[i].type \in DOMAIN PdfTags
    BY <1>2, <2>1, <2>2, <2>3 DEF PdfNumbers, Numbers
  <2>4. CASE blocks[i].type \notin DOMAIN PdfTags
    <3>1. ~ PdfPage(blocks[i], pages) /\ ~ PdfPage(blocks[j], pages)
      BY <1>3, Kinds DEF PdfPage
    <3>2. PdfRow(blocks, i) /\ PdfRow(blocks, j)
      BY <1>2, <2>1, <2>2, <2>4, <3>1 DEF PdfNumbers
    <3>3. i - 1 = j - 1
      BY <3>2 DEF PdfRow
    <3> QED
      BY <1>2, <3>3
  <2> QED
    BY <2>3, <2>4
<1>8. CASE format = "pptx"
  <2>1. PptxNumbers(blocks, counters, source, read)
    BY <1>8 DEF NumbersInv
  <2>2. blocks[i].type # "slide" /\ blocks[j].type # "slide"
    BY <1>3, Kinds
  <2>3. ShapeBlock(blocks, blocks[i], counters, source, read) /\ ShapeBlock(blocks, blocks[j], counters, source, read)
    BY <1>2, <2>1, <2>2 DEF PptxNumbers, SlideBlock
  <2>4. blocks[i].id.of = blocks[j].id.of
    BY <2>3 DEF ShapeBlock
  <2>5. SlidePair(blocks[i], blocks[j], source)
    BY <1>2, <2>1 DEF PptxNumbers
  <2> QED
    BY <2>2, <2>4, <2>5 DEF SlidePair
<1>9. CASE format = "records"
  <2>1. RecordNumbers(blocks, read) /\ blocks # <<>>
    BY <1>2, <1>9 DEF NumbersInv
  <2>2. i # 1 /\ j # 1
    BY <1>3, <2>1, Kinds DEF RecordNumbers
  <2>3. i \in 2..Len(blocks) /\ j \in 2..Len(blocks)
    BY <1>2, <1>4, <2>2
  <2> QED
    BY <2>1, <2>3 DEF RecordNumbers
<1>10. CASE format = "code"
  <2>1. CodeNumbers(blocks, counters, todo, phase) /\ blocks # <<>> /\ blocks[i].type = blocks[j].type
    BY <1>2, <1>6, <1>10, FormatsApart DEF NumbersInv
  <2>2. blocks[1] = ModuleBlock
    BY <2>1 DEF CodeNumbers, WindowsCounted, SymbolsCounted
  <2>3. i # 1 /\ j # 1
    BY <1>3, <2>2, ModuleIs, Kinds
  <2>4. i \in 2..Len(blocks) /\ j \in 2..Len(blocks)
    BY <1>2, <1>4, <2>3
  <2>5. CASE WindowsCounted(blocks)
    BY <2>4, <2>5 DEF WindowsCounted
  <2>6. CASE SymbolsCounted(blocks, counters)
    <3>1. CodePair(blocks[i], blocks[j])
      BY <2>4, <2>6 DEF SymbolsCounted
    <3>2. blocks[i].type \in Symbol \/ blocks[i].type = "code_block"
      BY <2>4, <2>6 DEF SymbolsCounted, SymbolBlock, GapBlock
    <3> QED
      BY <2>1, <3>1, <3>2 DEF CodePair
  <2> QED
    BY <2>1, <2>5, <2>6 DEF CodeNumbers
<1>11. format \in Headings \cup {"pdf", "pptx", "records", "code"}
  BY <1>1, SourceIs, FormatsApart
<1> QED
  BY <1>5, <1>7, <1>8, <1>9, <1>10, <1>11

\* The leaves of a parent, in the order in which they are shown.
LEMMA SortedKinds ==
    ASSUME TypeInv, NumbersInv, NEW p, NEW sorted, InOrderBy(sorted, LeafOrder(Below(p)), Below(p)),
           NEW x \in 1..Len(sorted), NEW y \in 1..Len(sorted), x < y, SameKind(blocks[sorted[x]], blocks[sorted[y]])
    PROVE  sorted[x] < sorted[y]
<1>1. PICK a \in Below(p), b \in Below(p) : a = sorted[x] /\ b = sorted[y] /\ a # b /\ <<a, b>> \in LeafOrder(Below(p))
  <2>1. PICK k \in Nat : k = Cardinality(Below(p)) /\ k = Len(sorted)
    BY DEF InOrderBy
  <2>2. x \in 1..k /\ y \in 1..k /\ x # y
    BY <2>1
  <2> QED
    BY <2>1, <2>2 DEF InOrderBy
<1>2. LeafBefore(a, b)
  BY <1>1 DEF LeafOrder
<1>3. Forest(blocks) /\ a \in Leaves /\ b \in Leaves /\ blocks[a].parent = blocks[b].parent
  BY DEF Below, TypeInv
<1>4. a \in Nat /\ b \in Nat /\ blocks[a].order \in Nat /\ blocks[b].order \in Nat
  <2>1. a \in 1..Len(blocks) /\ b \in 1..Len(blocks)
    BY <1>3, LeavesAre
  <2> QED
    BY <1>3, <2>1, ForestTyped
<1>5. ASSUME b < a PROVE FALSE
  <2>1. SameKind(blocks[b], blocks[a])
    BY <1>1 DEF SameKind
  <2>2. blocks[b].order < blocks[a].order
    BY <1>3, <1>5, <2>1, KindsCounted
  <2> QED
    BY <1>2, <1>4, <1>5, <2>2 DEF LeafBefore
<1> QED
  BY <1>1, <1>4, <1>5

LEMMA ShownKinds ==
    ASSUME TypeInv, NumbersInv, NEW p \in 1..Len(blocks), IsParentType(p), NEW text, NEW sorted, Shows(text, p, sorted),
           NEW x \in 1..Len(text), NEW y \in 1..Len(text), x < y, SameKind(blocks[text[x]], blocks[text[y]])
    PROVE  text[x] < text[y]
<1>1. PICK m \in Nat, k \in Nat, l \in Nat : m = Len(blocks) /\ k = Len(text) /\ l = Len(sorted)
  BY ForestTyped DEF Shows, InOrderBy, TypeInv
<1>2. InOrderBy(sorted, LeafOrder(Below(p)), Below(p)) /\ \A n \in 1..l : sorted[n] \in Below(p)
  BY <1>1 DEF Shows, InOrderBy
<1>3. CASE text = sorted
  BY <1>2, <1>3, SortedKinds
<1>4. CASE k = l + 1 /\ text[1] = p /\ \A n \in 1..l : text[n + 1] = sorted[n]
  <2>1. y - 1 \in 1..l /\ (y - 1) + 1 = y
    BY <1>1, <1>4
  <2>2. text[y] = sorted[y - 1]
    BY <1>4, <2>1
  <2>3. blocks[text[y]].type \in ChildTypes /\ blocks[text[y]].type \notin ParentTypes
    BY <1>2, <2>1, <2>2, Kinds DEF Below, Leaves
  <2>4. x # 1
    <3> SUFFICES ASSUME x = 1 PROVE FALSE
      OBVIOUS
    <3>1. blocks[text[x]].type \in ParentTypes
      BY <1>4 DEF IsParentType
    <3>2. "paragraph" \notin ParentTypes /\ "list_item" \notin ParentTypes
      BY Kinds
    <3> QED
      BY <2>3, <3>1, <3>2 DEF SameKind
  <2>5. x - 1 \in 1..l /\ (x - 1) + 1 = x /\ x - 1 < y - 1
    BY <1>1, <1>4, <2>4
  <2>6. text[x] = sorted[x - 1]
    BY <1>4, <2>5
  <2> QED
    BY <1>1, <1>2, <2>1, <2>2, <2>5, <2>6, SortedKinds
<1> QED
  BY <1>1, <1>3, <1>4 DEF Shows

LEMMA KindsOrdered == TypeInv /\ NumbersInv => KindsInOrder
<1> SUFFICES ASSUME TypeInv, NumbersInv, NEW n \in DOMAIN parents, NEW x \in DOMAIN parents[n].text,
                    NEW y \in DOMAIN parents[n].text, x < y,
                    SameKind(blocks[parents[n].text[x]], blocks[parents[n].text[y]])
             PROVE  parents[n].text[x] < parents[n].text[y]
  BY DEF KindsInOrder, SameKind
<1>1. phase = "done" /\ Forest(blocks) /\ config \in Config /\ parents = ParentChunks(config.parent)
  BY DEF TypeInv, ChunksInv
<1>2. PICK text : text = parents[n].text
  OBVIOUS
<1>3. ASSUME NEW owners, Owned(owners) PROVE text[x] < text[y]
  <2>1. PICK c \in Nat : c = Len(owners) /\ c = Len(parents) /\ DOMAIN parents = 1..c
    BY <1>1, <1>3, ParentsAre DEF Owned, Increasing
  <2>2. PICK p : p = owners[n] /\ p \in OwningParents
    BY <1>3, <2>1 DEF Owned
  <2>3. PICK sorted : Shows(text, p, sorted)
    BY <1>2, <1>3, <2>1, <2>2 DEF Owned
  <2>4. p \in 1..Len(blocks) /\ IsParentType(p)
    BY <1>1, <2>2, OwnersAre
  <2>5. DOMAIN text = 1..Len(text)
    BY <2>3 DEF Shows
  <2> QED
    BY <1>2, <2>3, <2>4, <2>5, ShownKinds
<1>4. ASSUME Synthesized PROVE text[x] < text[y]
  <2>1. n = 1
    BY <1>1, <1>4, ParentsAre DEF Synthesized
  <2>2. Increasing(text, 1..Len(blocks))
    BY <1>2, <1>4, <2>1 DEF Synthesized
  <2> QED
    BY <1>2, <2>2 DEF Increasing
<1>5. parents # <<>>
  OBVIOUS
<1> QED
  BY <1>1, <1>2, <1>3, <1>4, <1>5, ParentsAre

\* A part ends in its text.
LEMMA EndsInside ==
    ASSUME NEW text \in Text, NEW max \in Nat, NEW overlap \in Nat, NEW min \in Nat, NEW cuts,
           WellSplit(text, cuts, max, overlap, min), NEW j \in 1..Len(cuts)
    PROVE  cuts[j] \in Span /\ cuts[j][2] <= text.len /\ text.len \in Nat
<1>1. PICK m \in Nat : m = Len(cuts)
  BY DEF WellSplit
<1>2. cuts[j] \in Span
  BY Entry DEF WellSplit
<1>3. PICK c \in Nat : c = cuts[j][2]
  BY <1>2 DEF Span
<1>4. PICK len \in Nat : len = text.len /\ \A e \in AllEnds(text) : e \in 0..len
  BY EndsAreNumbers
<1>5. CASE j = m
  <2>1. LeftOver(text, cuts, max, min, c)
    BY <1>1, <1>3, <1>5 DEF WellSplit
  <2>2. len - c = 0 \/ len - c \in 1..min - 1
    BY <1>4, <2>1 DEF LeftOver
  <2>3. c <= len
    BY <2>2
  <2> QED
    BY <1>2, <1>3, <1>4, <2>3
<1>6. CASE j # m
  <2>1. j \in 1..m - 1
    BY <1>1, <1>6
  <2>2. GoodCut(text, max, c)
    BY <1>1, <1>3, <2>1 DEF WellSplit
  <2>3. c <= len
    <3>1. CASE c \in AllEnds(text)
      BY <1>4, <3>1
    <3>2. CASE c \notin AllEnds(text)
      <4>1. PICK a \in Nat, b \in Nat : Solid(text, a, b) /\ c < b
        BY <2>2, <3>2 DEF GoodCut
      <4>2. b \in 0..len
        BY <1>4, <4>1 DEF Solid
      <4> QED
        BY <4>1, <4>2
    <3> QED
      BY <3>1, <3>2
  <2> QED
    BY <1>2, <1>3, <1>4, <2>3
<1> QED
  BY <1>5, <1>6

\* A text that is joined with others ends before they all do.
LEMMA EndsBefore ==
    ASSUME Forest(blocks), NEW texts \in Seq(1..Len(blocks)), NEW block, NEW x \in 1..Len(texts)
    PROVE  \E s \in Nat, e \in Nat, size \in Int :
               /\ s = Starts(texts, Glue(block))[x] /\ e = blocks[texts[x]].text.len /\ size = Size(block, texts)
               /\ s + e <= size
<1>1. PICK N \in Nat : N = Len(texts)
  OBVIOUS
<1>2. PICK gap \in Nat : gap = Glue(block)
  BY ConfigAssumption DEF Glue
<1>3. PICK long : long = [n \in 1..N |-> blocks[texts[n]].text.len]
  OBVIOUS
<1>4. PICK st : st = Starts(texts, gap)
  OBVIOUS
<1>5. /\ st \in [1..N + 1 -> Nat] /\ \A n \in 1..N : long[n] \in Nat /\ long[n] = blocks[texts[n]].text.len
      /\ \A n \in 1..N : st[n + 1] = st[n] + long[n] + gap
  BY <1>1, <1>3, <1>4, StartsAre
<1>6. x \in 1..N
  BY <1>1
<1>7. PICK s \in Nat, e \in Nat : s = st[x] /\ e = long[x]
  <2>1. x \in 1..N + 1
    BY <1>6
  <2>2. st[x] \in Nat /\ long[x] \in Nat
    BY <1>5, <1>6, <2>1
  <2> QED
    BY <2>2
<1> DEFINE Good == {n \in 0..N : n >= x => st[n + 1] >= s + e + gap}
<1>8. 0..N \subseteq Good
  <2>1. 0 \in Good
    BY <1>6
  <2>2. ASSUME NEW n \in 1..N, n - 1 \in Good PROVE n \in Good
    <3>1. n \in 1..N + 1 /\ n + 1 \in 1..N + 1 /\ (n - 1) + 1 = n /\ n \in 0..N
      OBVIOUS
    <3>2. PICK u \in Nat, v \in Nat, w \in Nat : u = st[n] /\ v = st[n + 1] /\ w = long[n] /\ v = u + w + gap
      <4>1. st[n] \in Nat /\ st[n + 1] \in Nat /\ long[n] \in Nat /\ st[n + 1] = st[n] + long[n] + gap
        BY <1>5, <3>1
      <4> QED
        BY <4>1
    <3>3. CASE n = x
      <4>1. u = s /\ w = e
        BY <1>7, <3>2, <3>3
      <4>2. v >= s + e + gap
        BY <3>2, <4>1
      <4> QED
        BY <3>1, <3>2, <4>2
    <3>4. CASE n > x
      <4>1. st[(n - 1) + 1] >= s + e + gap
        BY <1>6, <2>2, <3>4
      <4>2. u >= s + e + gap
        BY <3>1, <3>2, <4>1
      <4>3. v >= s + e + gap
        BY <3>2, <4>2
      <4> QED
        BY <3>1, <3>2, <4>3
    <3>5. CASE n < x
      BY <1>6, <3>1, <3>5
    <3> QED
      BY <1>6, <3>3, <3>4, <3>5
  <2> HIDE DEF Good
  <2> QED
    BY <2>1, <2>2, UpToInduct
<1>9. st[N + 1] >= s + e + gap
  <2>1. N \in 0..N
    OBVIOUS
  <2>2. N \in Good
    BY <1>8, <2>1
  <2> QED
    BY <1>6, <2>2
<1>10. PICK all \in Nat : all = st[N + 1]
  BY <1>5
<1>11. Size(block, texts) = all - gap
  BY <1>1, <1>2, <1>4, <1>10 DEF Size
<1>12. s + e <= all - gap /\ all - gap \in Int
  BY <1>9, <1>10
<1>13. s = Starts(texts, Glue(block))[x] /\ e = blocks[texts[x]].text.len
  BY <1>2, <1>4, <1>5, <1>6, <1>7
<1> QED
  BY <1>11, <1>12, <1>13

LEMMA ShownOrCut == TypeInv => MatchesShown
<1> SUFFICES ASSUME TypeInv, NEW n \in DOMAIN children, children[n].parent # NoParent
             PROVE  \E m \in DOMAIN parents :
                        /\ parents[m].block = children[n].parent
                        /\ HasTextOf(parents[m], children[n]) \/ CutForLength(parents[m])
  BY DEF MatchesShown
<1>1. /\ Forest(blocks) /\ phase = "done" /\ config \in Config
      /\ parents = ParentChunks(config.parent) /\ children = AllChildren
  BY DEF TypeInv, ChunksInv
<1>2. n \in 1..Len(children)
  BY <1>1, ChildrenAreThose
<1>3. PICK i \in Leaves : \E j \in 1..Len(CutOf(i, config)) : ChildAt(n, i, j, config)
  BY <1>1, <1>2, ChildrenAreThose
<1>4. PICK j \in 1..Len(CutOf(i, config)) : ChildAt(n, i, j, config)
  BY <1>3
<1>5. PICK text \in Text : text = blocks[i].text
  BY <1>1, LeavesAre, ForestTyped
<1>6. PICK cut \in Span : cut = CutOf(i, config)[j] /\ cut[2] <= text.len /\ text.len \in Nat
  <2>1. WellSplit(text, CutOf(i, config), config.max, config.overlap, config.min)
    BY <1>1, <1>5, PartsAre
  <2>2. config.max \in Nat /\ config.overlap \in Nat /\ config.min \in Nat
    BY <1>1, ConfigAssumption
  <2> QED
    BY <1>4, <2>1, <2>2, EndsInside
<1>7. children[n].block = i /\ children[n].parent = ParentOf(i, Emitted) /\ children[n].text = Trimmed(text, cut)
  BY <1>4, <1>5, <1>6 DEF ChildAt, KidOf
<1>8. PICK m \in DOMAIN parents : i \in ToSet(parents[m].text) /\ ParentOf(i, Emitted) = parents[m].block
  <2>1. PICK m \in DOMAIN parents :
            /\ {k \in DOMAIN parents : i \in ToSet(parents[k].text)} = {m}
            /\ ParentOf(i, Emitted) = parents[m].block
    BY <1>1, <1>7, InOneParent
  <2> QED
    BY <2>1
<1>9. parents \in Seq(ParentType)
  BY <1>1, ParentsAre
<1>10. parents[m] \in ParentType /\ DOMAIN parents = 1..Len(parents)
  BY <1>9
<1>11. PICK texts \in Seq(1..Len(blocks)) : texts = parents[m].text
  BY <1>10 DEF ParentType
<1>12. PICK block : block = parents[m].block
  OBVIOUS
<1>13. parents[m].kept = Kept(block, Size(block, texts), config.parent)
  <2>1. ASSUME NEW owners, Owned(owners) PROVE CutTo(parents[m], block)
    <3>1. PICK c \in Nat : c = Len(owners) /\ c = Len(parents)
      BY <1>9, <2>1 DEF Owned, Increasing
    <3> QED
      BY <1>10, <1>12, <2>1, <3>1 DEF Owned
  <2>2. ASSUME Synthesized PROVE CutTo(parents[m], block)
    <3>1. m = 1
      BY <1>10, <2>2 DEF Synthesized
    <3> QED
      BY <1>12, <2>2, <3>1 DEF Synthesized
  <2>3. parents # <<>>
    BY <1>8
  <2>4. CutTo(parents[m], block)
    BY <1>1, <2>1, <2>2, <2>3, ParentsAre
  <2> QED
    BY <1>11, <2>4 DEF CutTo
<1>14. PICK x \in 1..Len(texts) : texts[x] = i
  <2>1. DOMAIN texts = 1..Len(texts)
    BY <1>11
  <2> QED
    BY <1>8, <1>11, <2>1 DEF ToSet
<1>15. PICK s \in Nat, e \in Nat, size \in Int :
           /\ s = Starts(texts, Glue(block))[x] /\ e = text.len /\ size = Size(block, texts) /\ s + e <= size
  BY <1>1, <1>5, <1>14, EndsBefore
<1>16. PICK max \in Nat : max = config.parent
  BY <1>1, ConfigAssumption
<1>17. CASE size <= max
  <2>1. parents[m].kept = size
    BY <1>13, <1>15, <1>16, <1>17 DEF Kept
  <2>2. ASSUME NEW p \in children[n].text PROVE Starts(texts, Glue(block))[x] + p <= size
    <3>1. p \in cut[1]..cut[2]
      BY <1>7, <2>2, TrimmedIs
    <3>2. PICK a \in Nat, b \in Nat : a = cut[1] /\ b = cut[2]
      BY <1>6 DEF Span
    <3>3. p \in Nat /\ p <= b /\ b <= e
      BY <1>6, <1>15, <3>1, <3>2
    <3>4. s + p <= size
      BY <1>15, <3>3
    <3> QED
      BY <1>15, <3>4
  <2>3. x \in DOMAIN texts
    BY <1>14
  <2>4. HasTextOf(parents[m], children[n])
    BY <1>7, <1>11, <1>12, <1>14, <2>1, <2>2, <2>3 DEF HasTextOf
  <2> QED
    BY <1>7, <1>8, <2>4
<1>18. CASE ~ (size <= max)
  <2>1. parents[m].kept = Budget(block, max)
    BY <1>13, <1>15, <1>16, <1>18 DEF Kept
  <2>2. Budget(block, max) >= max - Marker
    BY DEF Budget, Marker
  <2>3. CutForLength(parents[m])
    BY <1>11, <1>12, <1>15, <1>16, <1>18, <2>1, <2>2 DEF CutForLength
  <2> QED
    BY <1>7, <1>8, <2>3
<1> QED
  BY <1>17, <1>18

LEMMA NumbersShow == TypeInv /\ NumbersInv => ParentsShowTheirLeaves
BY OneParentEach, PreambleOnly, ShownOrCut, KindsOrdered DEF ParentsShowTheirLeaves

\* The text of a leaf is among those that the one parent its children name is put
\* together from, whatever the file and however deep its outline: going up
\* (nearest_parent_block) and down (owned_leaf_blocks) agree, only what stands
\* before the first heading has no parent, a parent within parent_max_chars has the
\* whole text of a match, a longer one that many characters but for the mark, and
\* sorting by order (assemble_parent_text) keeps leaves of one kind as they were
\* read.
THEOREM ParentsShowLeaves == Spec => []ParentsShowTheirLeaves
<1>1. Spec => [](TypeInv /\ NumbersInv)
  BY NumbersHold
<1>2. TypeInv /\ NumbersInv => ParentsShowTheirLeaves
  BY NumbersShow
<1> QED
  BY <1>1, <1>2, PTL

----------------------------------------------------------------------------
(* IdsDistinct.                                                            *)

LEMMA NamedParts ==
    ASSUME NEW name, NEW n
    PROVE  Named(name, n).name = name /\ Named(name, n).of = 0 /\ Named(name, n).n = n
BY DEF Named

LEMMA TagNames ==
    /\ \A s, t \in DOMAIN OutlineTags : OutlineTags[s].name = OutlineTags[t].name => s = t
    /\ \A s, t \in DOMAIN PdfTags : PdfTags[s].name = PdfTags[t].name => s = t
    /\ \A t \in DOMAIN PdfTags : PdfTags[t].name \notin {"page", "row"}
<1>1. ASSUME NEW s \in DOMAIN OutlineTags, NEW t \in DOMAIN OutlineTags, OutlineTags[s].name = OutlineTags[t].name
      PROVE  s = t
  <2>1. \A x \in DOMAIN OutlineTags :
            \/ x = "section" /\ OutlineTags[x].name = "sec"
            \/ x = "paragraph" /\ OutlineTags[x].name = "p"
            \/ x = "list_item" /\ OutlineTags[x].name = "li"
            \/ x = "code_block" /\ OutlineTags[x].name = "code"
            \/ x = "table_row" /\ OutlineTags[x].name = "row"
    BY DEF OutlineTags
  <2> QED
    BY <1>1, <2>1
<1>2. \A x \in DOMAIN PdfTags :
          \/ x = "section" /\ PdfTags[x].name = "sec"
          \/ x = "paragraph" /\ PdfTags[x].name = "p"
          \/ x = "list_item" /\ PdfTags[x].name = "li"
          \/ x = "figure" /\ PdfTags[x].name = "fig"
          \/ x = "table" /\ PdfTags[x].name = "tbl"
  BY DEF PdfTags
<1>3. ASSUME NEW s \in DOMAIN PdfTags, NEW t \in DOMAIN PdfTags, PdfTags[s].name = PdfTags[t].name
      PROVE  s = t
  BY <1>2, <1>3
<1>4. \A t \in DOMAIN PdfTags : PdfTags[t].name \notin {"page", "row"}
  BY <1>2
<1> QED
  BY <1>1, <1>3, <1>4

\* What is numbered by kind has ids of its own.
LEMMA NumbersApart ==
    ASSUME NEW bs, Forest(bs), NEW cnt, NEW tags, Numbers(bs, cnt, tags),
           \A s, t \in DOMAIN tags : tags[s].name = tags[t].name => s = t,
           NEW i \in 1..Len(bs), NEW j \in 1..Len(bs), i < j, bs[i].type \in DOMAIN tags, bs[j].type \in DOMAIN tags
    PROVE  bs[i].id # bs[j].id
<1> SUFFICES ASSUME bs[i].id = bs[j].id PROVE FALSE
  OBVIOUS
<1>1. bs[i].id = Named(tags[bs[i].type].name, bs[i].order) /\ bs[j].id = Named(tags[bs[j].type].name, bs[j].order)
  BY DEF Numbers
<1>2. tags[bs[i].type].name = tags[bs[j].type].name /\ bs[i].order = bs[j].order
  <2>1. PICK a, b, x, y : /\ a = tags[bs[i].type].name /\ b = tags[bs[j].type].name
                          /\ x = bs[i].order /\ y = bs[j].order /\ Named(a, x) = Named(b, y)
    BY <1>1
  <2>2. Named(a, x).name = a /\ Named(a, x).n = x /\ Named(b, y).name = b /\ Named(b, y).n = y
    BY NamedParts
  <2> QED
    BY <2>1, <2>2
<1>3. bs[i].order < bs[j].order
  BY <1>2 DEF Numbers
<1>4. bs[i].order \in Nat
  BY ForestTyped
<1> QED
  BY <1>2, <1>3, <1>4

LEMMA PdfApart ==
    ASSUME NEW bs, Forest(bs), NEW cnt, NEW ps, PdfNumbers(bs, cnt, ps),
           NEW i \in 1..Len(bs), NEW j \in 1..Len(bs), i < j
    PROVE  bs[i].id # bs[j].id
<1> SUFFICES ASSUME bs[i].id = bs[j].id PROVE FALSE
  OBVIOUS
<1>1. Numbers(bs, cnt, PdfTags)
  BY DEF PdfNumbers
<1>2. ASSUME NEW k \in 1..Len(bs)
      PROVE  \/ bs[k].type \in DOMAIN PdfTags /\ bs[k].id.name \notin {"page", "row"}
             \/ PdfPage(bs[k], ps) /\ bs[k].id.name = "page" /\ bs[k].id.n = bs[k].order
             \/ PdfRow(bs, k) /\ bs[k].id.name = "row" /\ bs[k].id.of = bs[k - 1].order
  <2>1. CASE bs[k].type \in DOMAIN PdfTags
    <3>1. bs[k].id = Named(PdfTags[bs[k].type].name, bs[k].order)
      BY <1>1, <2>1 DEF Numbers
    <3>2. bs[k].id.name = PdfTags[bs[k].type].name
      BY <3>1, NamedParts
    <3>3. PdfTags[bs[k].type].name \notin {"page", "row"}
      BY <2>1, TagNames
    <3> QED
      BY <2>1, <3>2, <3>3
  <2>2. CASE PdfPage(bs[k], ps)
    BY <2>2, NamedParts DEF PdfPage
  <2>3. CASE PdfRow(bs, k)
    <3>1. PICK id : id = [name |-> "row", of |-> bs[k - 1].order, n |-> 0]
      OBVIOUS
    <3>2. id.name = "row" /\ id.of = bs[k - 1].order
      BY <3>1
    <3>3. bs[k].id = id
      BY <2>3, <3>1 DEF PdfRow
    <3> QED
      BY <2>3, <3>2, <3>3
  <2> QED
    BY <2>1, <2>2, <2>3 DEF PdfNumbers
<1>3. CASE bs[i].type \in DOMAIN PdfTags /\ bs[j].type \in DOMAIN PdfTags
  BY <1>1, <1>3, TagNames, NumbersApart
<1>4. CASE PdfPage(bs[i], ps) /\ PdfPage(bs[j], ps) /\ bs[i].id.n = bs[i].order /\ bs[j].id.n = bs[j].order
  <2>1. bs[i].order # bs[j].order
    BY <1>4 DEF PdfNumbers, PdfPage
  <2> QED
    BY <1>4, <2>1
<1>5. CASE PdfRow(bs, i) /\ PdfRow(bs, j) /\ bs[i].id.of = bs[i - 1].order /\ bs[j].id.of = bs[j - 1].order
  <2>1. PICK m \in Nat : m = Len(bs)
    BY ForestTyped
  <2>2. i # 1 /\ j # 1 /\ bs[i - 1].type = "table" /\ bs[j - 1].type = "table"
    BY <1>5 DEF PdfRow
  <2>3. i - 1 \in 1..m /\ j - 1 \in 1..m /\ i - 1 < j - 1
    BY <2>1, <2>2
  <2>4. "table" \in DOMAIN PdfTags
    BY PdfTagsAre
  <2>5. bs[i - 1].order < bs[j - 1].order
    BY <1>1, <2>1, <2>2, <2>3, <2>4 DEF Numbers
  <2>6. bs[i - 1].order \in Nat
    BY <2>1, <2>3, ForestTyped
  <2> QED
    BY <1>5, <2>5, <2>6
<1> QED
  BY <1>2, <1>3, <1>4, <1>5

LEMMA RecordsApart ==
    ASSUME NEW bs, Forest(bs), NEW rd, RecordNumbers(bs, rd), NEW i \in 1..Len(bs), NEW j \in 1..Len(bs), i < j
    PROVE  bs[i].id # bs[j].id
<1> SUFFICES ASSUME bs[i].id = bs[j].id PROVE FALSE
  OBVIOUS
<1>1. PICK m \in Nat : m = Len(bs) /\ bs # <<>>
  <2>1. Len(bs) \in Nat
    BY ForestTyped
  <2> QED
    BY <2>1
<1>2. j \in 2..m /\ bs[j].id = Named("record", bs[j].order)
  BY <1>1 DEF RecordNumbers, RecordBlock
<1>3. CASE i = 1
  <2>1. bs[1].id = Named("doc_root", 0)
    BY <1>1 DEF RecordNumbers
  <2> QED
    BY <1>2, <1>3, <2>1, NamedParts
<1>4. CASE i # 1
  <2>1. i \in 2..m
    BY <1>1, <1>4
  <2>2. bs[i].id = Named("record", bs[i].order) /\ bs[i].order < bs[j].order
    BY <1>1, <1>2, <2>1 DEF RecordNumbers, RecordBlock
  <2>3. bs[i].order = bs[j].order
    BY <1>2, <2>2, NamedParts
  <2>4. bs[i].order \in Nat
    BY ForestTyped
  <2> QED
    BY <2>2, <2>3, <2>4
<1> QED
  BY <1>3, <1>4

\* Two symbols have two numbers; what is between symbols is named by the symbol
\* around it.
LEMMA SymbolsApart ==
    ASSUME NEW bs, Forest(bs), NEW cnt, SymbolsCounted(bs, cnt), NEW i \in 2..Len(bs), NEW j \in 2..Len(bs), i < j
    PROVE  bs[i].id # bs[j].id
<1> SUFFICES ASSUME bs[i].id = bs[j].id PROVE FALSE
  OBVIOUS
<1>1. PICK m \in Nat : m = Len(bs) /\ i \in 1..m /\ j \in 1..m
  BY ForestTyped
<1>2. ASSUME NEW k \in 2..m
      PROVE  \/ SymbolBlock(bs[k], cnt) /\ bs[k].id.name = "sym" /\ bs[k].id.n = bs[k].order
             \/ GapBlock(bs, bs[k]) /\ bs[k].id.name = "gap"
  <2>1. SymbolBlock(bs[k], cnt) \/ GapBlock(bs, bs[k])
    BY <1>1 DEF SymbolsCounted
  <2>2. SymbolBlock(bs[k], cnt) => bs[k].id.name = "sym" /\ bs[k].id.n = bs[k].order
    BY NamedParts DEF SymbolBlock
  <2> QED
    BY <2>1, <2>2 DEF GapBlock
<1>3. ASSUME NEW k \in 2..m, NEW l \in 2..m, SymbolBlock(bs[k], cnt), SymbolBlock(bs[l], cnt), bs[k].id.n = bs[l].id.n
      PROVE  k = l
  <2>1. bs[k].id.n = bs[k].order /\ bs[l].id.n = bs[l].order /\ bs[k].type \in Symbol /\ bs[l].type \in Symbol
    BY <1>3, NamedParts DEF SymbolBlock
  <2>2. bs[k].order = bs[l].order /\ bs[k].order \in Nat
    <3>1. k \in 1..m
      OBVIOUS
    <3> QED
      BY <1>1, <1>3, <2>1, <3>1, ForestTyped
  <2>3. \A x, y \in 2..m : x < y => CodePair(bs[x], bs[y])
    BY <1>1 DEF SymbolsCounted
  <2>4. ~ (k < l) /\ ~ (l < k)
    BY <2>1, <2>2, <2>3 DEF CodePair
  <2> QED
    BY <2>4
<1>4. CASE SymbolBlock(bs[i], cnt) /\ SymbolBlock(bs[j], cnt)
  BY <1>1, <1>3, <1>4
<1>5. CASE GapBlock(bs, bs[i]) /\ GapBlock(bs, bs[j])
  <2>1. PICK p, q : /\ p = bs[i].parent /\ q = bs[j].parent /\ Container(bs, p) /\ Container(bs, q)
                    /\ GapIn(bs, p) = GapIn(bs, q)
    BY <1>5 DEF GapBlock
  <2>2. ASSUME NEW r, Container(bs, r), r # 1
        PROVE  r \in 2..m /\ SymbolBlock(bs[r], cnt) /\ GapIn(bs, r) = bs[r].id.n + 1 /\ bs[r].id.n \in Nat
    <3>1. r \in 2..m /\ bs[r].type = "code_container" /\ r \in 1..m
      BY <1>1, <2>2 DEF Container
    <3>2. SymbolBlock(bs[r], cnt)
      BY <1>2, <3>1 DEF GapBlock
    <3>3. bs[r] \in Block
      BY <1>1, <3>1, ForestTyped
    <3>4. bs[r].id.n \in Nat
      BY <3>3 DEF Block, Id
    <3> QED
      BY <2>2, <3>1, <3>2, <3>4 DEF GapIn
  <2>3. p = q
    <3>1. CASE p = 1 /\ q # 1
      <4>1. PICK x \in Nat : x = bs[q].id.n /\ GapIn(bs, q) = x + 1
        BY <2>1, <2>2, <3>1
      <4>2. GapIn(bs, p) = 0
        BY <3>1 DEF GapIn
      <4>3. x + 1 = 0
        BY <2>1, <4>1, <4>2, Zenon
      <4> QED
        BY <4>3
    <3>2. CASE p # 1 /\ q = 1
      <4>1. PICK x \in Nat : x = bs[p].id.n /\ GapIn(bs, p) = x + 1
        BY <2>1, <2>2, <3>2
      <4>2. GapIn(bs, q) = 0
        BY <3>2 DEF GapIn
      <4>3. x + 1 = 0
        BY <2>1, <4>1, <4>2, Zenon
      <4> QED
        BY <4>3
    <3>3. CASE p # 1 /\ q # 1
      <4>1. bs[p].id.n \in Nat /\ bs[q].id.n \in Nat /\ bs[p].id.n + 1 = bs[q].id.n + 1
        BY <2>1, <2>2, <3>3
      <4>2. bs[p].id.n = bs[q].id.n
        BY <4>1, SMTT(30)
      <4>3. p \in 2..m /\ q \in 2..m /\ SymbolBlock(bs[p], cnt) /\ SymbolBlock(bs[q], cnt)
        BY <2>1, <2>2, <3>3
      <4> QED
        BY <1>3, <4>2, <4>3
    <3>4. CASE p = 1 /\ q = 1
      BY <3>4
    <3> QED
      BY <3>1, <3>2, <3>3, <3>4
  <2>4. bs[i].id.n < bs[j].id.n
    BY <1>5, <2>1, <2>3 DEF SymbolsCounted, CodePair, GapBlock
  <2>5. bs[i].id.n \in Nat
    <3>1. bs[i] \in Block
      BY <1>1, ForestTyped
    <3> QED
      BY <3>1 DEF Block, Id
  <2> QED
    BY <2>4, <2>5
<1> QED
  BY <1>1, <1>2, <1>4, <1>5

LEMMA CodeApart ==
    ASSUME NEW bs, Forest(bs), NEW cnt, NEW tasks, NEW ph, CodeNumbers(bs, cnt, tasks, ph),
           NEW i \in 1..Len(bs), NEW j \in 1..Len(bs), i < j
    PROVE  bs[i].id # bs[j].id
<1> SUFFICES ASSUME bs[i].id = bs[j].id PROVE FALSE
  OBVIOUS
<1>1. PICK m \in Nat : m = Len(bs) /\ bs # <<>> /\ j \in 2..m /\ (i = 1 \/ i \in 2..m)
  <2>1. PICK m \in Nat : m = Len(bs)
    BY ForestTyped
  <2>2. j \in 2..m /\ (i = 1 \/ i \in 2..m) /\ bs # <<>>
    BY <2>1
  <2> QED
    BY <2>1, <2>2
<1>2. bs[1].id.name = "module"
  <2>1. bs[1] = ModuleBlock
    BY <1>1 DEF CodeNumbers, WindowsCounted, SymbolsCounted
  <2> QED
    BY <2>1, ModuleIs, NamedParts
<1>3. ASSUME NEW k \in 2..m PROVE bs[k].id.name \in {"win", "sym", "gap"}
  BY <1>1, NamedParts DEF CodeNumbers, WindowsCounted, SymbolsCounted, SymbolBlock, GapBlock
<1>4. CASE i = 1
  BY <1>1, <1>2, <1>3, <1>4
<1>5. CASE i \in 2..m /\ WindowsCounted(bs)
  <2>1. bs[i].id = Named("win", bs[i].order) /\ bs[j].id = Named("win", bs[j].order) /\ bs[i].order < bs[j].order
    BY <1>1, <1>5 DEF WindowsCounted
  <2>2. bs[i].order = bs[j].order /\ bs[i].order \in Nat
    <3>1. PICK x, y : x = bs[i].order /\ y = bs[j].order /\ Named("win", x) = Named("win", y)
      BY <2>1
    <3>2. Named("win", x).n = x /\ Named("win", y).n = y
      BY NamedParts
    <3>3. bs[i].order = bs[j].order
      BY <3>1, <3>2
    <3>4. bs[i].order \in Nat
      BY ForestTyped
    <3> QED
      BY <3>3, <3>4
  <2> QED
    BY <2>1, <2>2
<1>6. CASE i \in 2..m /\ SymbolsCounted(bs, cnt)
  BY <1>1, <1>6, SymbolsApart
<1> QED
  BY <1>1, <1>4, <1>5, <1>6 DEF CodeNumbers

\* On a slide only the rows of different tables can have one id.
LEMMA SlidesApart ==
    ASSUME Forest(blocks), format = "pptx", PptxNumbers(blocks, counters, source, read),
           NEW i \in 1..Len(blocks), NEW j \in 1..Len(blocks), i < j, blocks[i].id = blocks[j].id
    PROVE  /\ SameTableRows(i, j)
           /\ \E t \in UnitIndex(i) + 1 .. UnitIndex(j) : source[t].kind = "table"
<1>1. PICK b, c : b = blocks[i] /\ c = blocks[j] /\ SlidePair(b, c, source) /\ b.id = c.id
  BY DEF PptxNumbers
<1>2. b.order \in Nat /\ b.id.n \in Nat
  <2>1. b \in Block
    BY <1>1, ForestTyped
  <2> QED
    BY <2>1 DEF Block, Id
<1>3. SlideBlock(b, counters) \/ ShapeBlock(blocks, b, counters, source, read)
  BY <1>1 DEF PptxNumbers
<1>4. SlideBlock(c, counters) \/ ShapeBlock(blocks, c, counters, source, read)
  BY <1>1 DEF PptxNumbers
<1>5. SlideBlock(b, counters) => b.id.name = "slide" /\ b.id.n = b.order /\ b.type = "slide"
  BY NamedParts DEF SlideBlock
<1>6. SlideBlock(c, counters) => c.id.name = "slide" /\ c.id.n = c.order /\ c.type = "slide"
  BY NamedParts DEF SlideBlock
<1>7. ~ (SlideBlock(b, counters) \/ SlideBlock(c, counters))
  <2> SUFFICES ASSUME SlideBlock(b, counters) \/ SlideBlock(c, counters) PROVE FALSE
    OBVIOUS
  <2>1. b.id.name = "slide" /\ c.id.name = "slide"
    BY <1>1, <1>5, <1>6
  <2>2. SlideBlock(b, counters) /\ SlideBlock(c, counters)
    BY <1>3, <1>4, <2>1 DEF ShapeBlock
  <2>3. b.order < c.order /\ b.order = c.order
    BY <1>1, <1>5, <1>6, <2>2 DEF SlidePair
  <2> QED
    BY <1>2, <2>3
<1>8. ShapeBlock(blocks, b, counters, source, read) /\ ShapeBlock(blocks, c, counters, source, read)
  BY <1>3, <1>4, <1>7
<1>9. /\ b.type # "slide" /\ c.type # "slide" /\ b.id.of = c.id.of
      /\ b.type = c.type /\ (b.type = "shape" => b.id.n = b.order /\ c.id.n = c.order)
  BY <1>1, <1>8 DEF ShapeBlock
<1>10. /\ b.order < c.order /\ ~ (b.type = "note" /\ c.type = "note")
       /\ b.type = "table_row" /\ c.type = "table_row" => b.id.n < c.id.n \/ TableBetween(source, b, c)
  BY <1>1, <1>9 DEF SlidePair
<1>11. b.type # "shape"
  BY <1>1, <1>2, <1>9, <1>10
<1>12. b.type = "table_row" /\ c.type = "table_row"
  BY <1>8, <1>9, <1>10, <1>11 DEF ShapeBlock
<1>13. TableBetween(source, b, c)
  BY <1>1, <1>2, <1>10, <1>12
<1>14. PICK u \in Nat : b.units = {u}
  BY <1>8 DEF ShapeBlock, OneUnit
<1>15. PICK v \in Nat : c.units = {v}
  BY <1>8 DEF ShapeBlock, OneUnit
<1>16. PICK t \in u + 1 .. v : source[t].kind = "table"
  BY <1>13, <1>14, <1>15 DEF TableBetween, TableAfter
<1>17. \A x \in Nat : Min({x}) = x
  <2> TAKE x \in Nat
  <2>1. {x} \subseteq x..x /\ {x} # {} /\ x \in Int
    OBVIOUS
  <2>2. Min({x}) \in {x}
    BY <2>1, Edges
  <2> QED
    BY <2>2
<1>18. UnitIndex(i) = u /\ UnitIndex(j) = v
  BY <1>1, <1>14, <1>15, <1>17 DEF UnitIndex
<1> QED
  BY <1>1, <1>12, <1>16, <1>18 DEF SameTableRows

LEMMA NumbersDistinct == TypeInv /\ NumbersInv => IdsDistinct
<1> SUFFICES ASSUME TypeInv, NumbersInv, NEW i \in DOMAIN blocks, NEW j \in DOMAIN blocks, i < j, blocks[i].id = blocks[j].id
             PROVE  /\ SameTableRows(i, j)
                    /\ \E t \in UnitIndex(i) + 1 .. UnitIndex(j) : source[t].kind = "table"
  BY DEF IdsDistinct
<1>1. Forest(blocks) /\ FileInv
  BY DEF TypeInv
<1>2. i \in 1..Len(blocks) /\ j \in 1..Len(blocks)
  BY <1>1, ForestTyped
<1>3. format \notin Headings
  <2> SUFFICES ASSUME format \in Headings PROVE FALSE
    OBVIOUS
  <2>1. Numbers(blocks, counters, OutlineTags) /\ blocks[i].type \in DOMAIN OutlineTags /\ blocks[j].type \in DOMAIN OutlineTags
    BY <1>2 DEF NumbersInv, OutlineNumbers
  <2> QED
    BY <1>1, <1>2, <2>1, TagNames, NumbersApart
<1>4. format # "pdf"
  BY <1>1, <1>2, PdfApart DEF NumbersInv
<1>5. format # "records"
  BY <1>1, <1>2, RecordsApart DEF NumbersInv
<1>6. format # "code"
  BY <1>1, <1>2, CodeApart DEF NumbersInv
<1>7. format = "pptx"
  <2>1. format \in Headings \cup {"pdf", "pptx", "records", "code"}
    BY <1>1, SourceIs, FormatsApart
  <2> QED
    BY <1>3, <1>4, <1>5, <1>6, <2>1
<1> QED
  BY <1>1, <1>2, <1>7, SlidesApart DEF NumbersInv

\* Every block of a file has an id of its own, whatever the file: the counters of
\* the parsers never give a number twice, and an id that carries another's number
\* (a table's, a slide's, a symbol's) carries one that is not shared.  The one
\* exception is in pptx.py: row_index starts again with each table of a slide.
THEOREM BlocksHaveIds == Spec => []IdsDistinct
<1>1. Spec => [](TypeInv /\ NumbersInv)
  BY NumbersHold
<1>2. TypeInv /\ NumbersInv => IdsDistinct
  BY NumbersDistinct
<1> QED
  BY <1>1, <1>2, PTL

----------------------------------------------------------------------------
(* Where the units of a file are.                                          *)

\* Of the units that are done each accepted one is in one block.
OnlyIn(bs, u, i) == i \in 1..Len(bs) /\ \A k \in 1..Len(bs) : u \in bs[k].units <=> k = i
Once(bs, done, acc) ==
    /\ \A k \in 1..Len(bs) : bs[k].units \subseteq done
    /\ \A u \in done \cap acc : \E i \in 1..Len(bs) : OnlyIn(bs, u, i)

\* Of the blocks added one has units.
FillsOne(bs, cs, j) ==
    j \in Len(bs) + 1 .. Len(cs) /\ \A k \in Len(bs) + 1 .. Len(cs) : k # j => cs[k].units = {}

LEMMA OnceGrows ==
    ASSUME NEW bs, Forest(bs), NEW cs, Forest(cs), Extends(bs, cs), NEW done, NEW more, NEW acc, Once(bs, done, acc),
           done \subseteq more, NEW j, FillsOne(bs, cs, j), cs[j].units \cap done = {}, cs[j].units \subseteq more,
           (more \ done) \cap acc \subseteq cs[j].units
    PROVE  Once(cs, more, acc)
<1>1. PICK n \in Nat, m \in Nat : n = Len(bs) /\ m = Len(cs) /\ n <= m /\ \A i \in 1..n : cs[i] = bs[i]
  BY ForestTyped DEF Extends
<1>2. \A k \in 1..m : k \in 1..n \/ k \in n + 1 .. m
  OBVIOUS
<1>3. j \in n + 1 .. m /\ j \in 1..m /\ j \notin 1..n
  BY <1>1 DEF FillsOne
<1>4. \A k \in 1..m : k \in 1..n \/ k = j \/ (k # j /\ cs[k].units = {})
  BY <1>1, <1>2 DEF FillsOne
<1>5. ASSUME NEW k \in 1..m PROVE cs[k].units \subseteq more
  <2>1. k \in 1..n => cs[k].units \subseteq done
    BY <1>1 DEF Once
  <2> QED
    BY <1>4, <2>1
<1>6. ASSUME NEW u \in more \cap acc PROVE \E i \in 1..m : OnlyIn(cs, u, i)
  <2>1. CASE u \in done
    <3>1. PICK i \in 1..n : OnlyIn(bs, u, i)
      BY <1>1, <1>6, <2>1 DEF Once
    <3>2. \A k \in 1..n : u \in cs[k].units <=> k = i
      BY <1>1, <3>1 DEF OnlyIn
    <3>3. u \notin cs[j].units /\ i # j
      BY <1>3, <2>1
    <3>4. i \in 1..m
      BY <1>1
    <3>5. \A k \in 1..m : u \in cs[k].units <=> k = i
      BY <1>4, <3>2, <3>3
    <3> QED
      BY <1>1, <3>4, <3>5 DEF OnlyIn
  <2>2. CASE u \notin done
    <3>1. u \in cs[j].units
      BY <1>6, <2>2
    <3>2. \A k \in 1..n : u \notin cs[k].units
      BY <1>1, <2>2 DEF Once
    <3>3. \A k \in 1..m : u \in cs[k].units <=> k = j
      BY <1>3, <1>4, <3>1, <3>2
    <3> QED
      BY <1>1, <1>3, <3>3 DEF OnlyIn
  <2> QED
    BY <2>1, <2>2
<1> QED
  BY <1>1, <1>5, <1>6 DEF Once

LEMMA OnceStays ==
    ASSUME NEW bs, NEW done, NEW more, NEW acc, Once(bs, done, acc), done \subseteq more, (more \ done) \cap acc = {}
    PROVE  Once(bs, more, acc)
BY DEF Once

LEMMA OnceHeld ==
    ASSUME NEW bs, NEW done, NEW acc, Once(bs, done, acc), NEW u \in done \cap acc, DOMAIN bs = 1..Len(bs)
    PROVE  Cardinality({i \in DOMAIN bs : u \in bs[i].units}) = 1
<1>1. PICK i : OnlyIn(bs, u, i)
  BY DEF Once
<1>2. {k \in DOMAIN bs : u \in bs[k].units} = {i}
  BY <1>1 DEF OnlyIn
<1> QED
  BY <1>2, FS_Singleton

LEMMA OneAppended ==
    ASSUME NEW bs, Forest(bs), NEW b, NEW cs, Appended(bs, b, cs)
    PROVE  /\ Extends(bs, cs) /\ FillsOne(bs, cs, Len(bs) + 1) /\ cs[Len(bs) + 1] = b
           /\ \A k \in 1..Len(cs) : k \in 1..Len(bs) \/ k = Len(bs) + 1
<1>1. PICK n \in Nat : n = Len(bs)
  BY ForestTyped
<1>2. Len(cs) = n + 1 /\ cs[n + 1] = b /\ \A i \in 1..n : cs[i] = bs[i]
  BY <1>1 DEF Appended
<1>3. n + 1 \in n + 1 .. n + 1 /\ (\A k \in n + 1 .. n + 1 : k = n + 1) /\ n <= n + 1
  OBVIOUS
<1> QED
  BY <1>1, <1>2, <1>3 DEF Extends, FillsOne


\* Of two blocks what the first is made of comes before what the other is made of.
Ordered(bs, R) ==
    \A i, j \in 1..Len(bs) : i < j => \A u \in bs[i].units, v \in bs[j].units : <<u, v>> \in R
Filed(bs, done, acc, R) == Once(bs, done, acc) /\ Ordered(bs, R)

\* What a step reads goes into one new block, or nowhere if it is nothing.
Lands(bs, cs, units) ==
    \/ units = {} /\ cs = bs
    \/ Extends(bs, cs) /\ \E j : FillsOne(bs, cs, j) /\ cs[j].units = units

LEMMA AppendedLands ==
    ASSUME NEW bs, Forest(bs), NEW b, NEW cs, Appended(bs, b, cs)
    PROVE  Lands(bs, cs, b.units)
<1>1. PICK j : j = Len(bs) + 1
  OBVIOUS
<1>2. Extends(bs, cs) /\ FillsOne(bs, cs, j) /\ cs[j] = b
  BY <1>1, OneAppended
<1> QED
  BY <1>2 DEF Lands

LEMMA LandsFiled ==
    ASSUME NEW bs, Forest(bs), NEW cs, Forest(cs), NEW units, Lands(bs, cs, units),
           NEW done, NEW more, NEW acc, NEW R, Filed(bs, done, acc, R),
           done \cup units \subseteq more, units \cap done = {}, (more \ done) \cap acc \subseteq units,
           done \X units \subseteq R
    PROVE  Filed(cs, more, acc, R)
<1>1. CASE units = {} /\ cs = bs
  BY <1>1, OnceStays DEF Filed
<1>2. ASSUME NEW j, Extends(bs, cs), FillsOne(bs, cs, j), cs[j].units = units
      PROVE  Filed(cs, more, acc, R)
  <2>1. Once(cs, more, acc)
    BY <1>2, OnceGrows DEF Filed
  <2>2. PICK n \in Nat, m \in Nat : n = Len(bs) /\ m = Len(cs) /\ n <= m /\ \A i \in 1..n : cs[i] = bs[i]
    BY <1>2, ForestTyped DEF Extends
  <2>3. j \in n + 1 .. m /\ \A k \in n + 1 .. m : k # j => cs[k].units = {}
    BY <1>2, <2>2 DEF FillsOne
  <2>4. ASSUME NEW a \in 1..m, NEW b \in 1..m, a < b, NEW u \in cs[a].units, NEW v \in cs[b].units
        PROVE  <<u, v>> \in R
    <3>1. CASE b \in 1..n
      <4>1. a \in 1..n /\ cs[a] = bs[a] /\ cs[b] = bs[b]
        BY <2>2, <2>4, <3>1
      <4> QED
        BY <2>2, <2>4, <3>1, <4>1 DEF Filed, Ordered
    <3>2. CASE b \notin 1..n
      <4>1. b \in n + 1 .. m
        BY <2>4, <3>2
      <4>2. b = j /\ v \in units
        BY <1>2, <2>3, <2>4, <4>1
      <4>3. a \in 1..n \/ (a \in n + 1 .. m /\ a # j)
        BY <2>4, <4>1, <4>2
      <4>4. a \in 1..n
        BY <2>3, <2>4, <4>3
      <4>5. u \in done
        BY <2>2, <2>4, <4>4 DEF Filed, Once
      <4> QED
        BY <4>2, <4>5
    <3> QED
      BY <3>1, <3>2
  <2>5. Ordered(cs, R)
    BY <2>2, <2>4 DEF Ordered
  <2> QED
    BY <2>1, <2>5 DEF Filed
<1> QED
  BY <1>1, <1>2 DEF Lands

\* Where units are read one after another: nothing, or the next one.
Less == {p \in Nat \X Nat : p[1] < p[2]}

LEMMA NextFiled ==
    ASSUME NEW bs, Forest(bs), NEW cs, Forest(cs), NEW units, Lands(bs, cs, units),
           NEW n \in Nat, NEW acc, Filed(bs, 1..n, acc, Less),
           units = {n + 1} \/ (units = {} /\ n + 1 \notin acc)
    PROVE  Filed(cs, 1..n + 1, acc, Less)
<1>1. /\ (1..n) \cup units \subseteq 1..n + 1 /\ units \cap (1..n) = {}
      /\ ((1..n + 1) \ (1..n)) \cap acc \subseteq units
  OBVIOUS
<1>2. (1..n) \X units \subseteq Less
  BY DEF Less
<1>3. PICK done, more : done = 1..n /\ more = 1..n + 1
  OBVIOUS
<1>4. Filed(cs, more, acc, Less)
  BY <1>1, <1>2, <1>3, LandsFiled
<1> QED
  BY <1>3, <1>4

\* In the end each accepted unit is in one block, and the blocks are in order.
LEMMA FiledOnce ==
    ASSUME NEW bs, Forest(bs), NEW done, NEW acc, NEW R, Filed(bs, done, acc, R), acc \subseteq done, NEW u \in acc
    PROVE  Cardinality({i \in DOMAIN bs : u \in bs[i].units}) = 1
BY ForestTyped, OnceHeld DEF Filed

LEMMA FiledInOrder ==
    ASSUME NEW bs, Forest(bs), NEW done, done \subseteq Nat, NEW acc, NEW R, Filed(bs, done, acc, R),
           NEW i \in 1..Len(bs), NEW j \in 1..Len(bs), i < j, bs[i].units # {}, bs[j].units # {}
    PROVE  /\ Min(bs[i].units) \in bs[i].units /\ Min(bs[j].units) \in bs[j].units
           /\ Min(bs[i].units) \in done /\ Min(bs[j].units) \in done
           /\ <<Min(bs[i].units), Min(bs[j].units)>> \in R
<1>1. bs[i].units \subseteq done /\ bs[j].units \subseteq done
  BY DEF Filed, Once
<1>2. PICK s, t : s = bs[i].units /\ t = bs[j].units
  OBVIOUS
<1>3. s \subseteq Nat /\ t \subseteq Nat /\ s # {} /\ t # {}
  BY <1>1, <1>2
<1>4. Min(s) \in s /\ Min(t) \in t
  BY <1>3, LeastOf
<1> QED
  BY <1>1, <1>2, <1>4 DEF Filed, Ordered

----------------------------------------------------------------------------
(* One element a step: slides, records, PDF.                               *)

\* A step takes the next unit to one block, or to none if it is not accepted.
Takes ==
    /\ read' = read + 1
    /\ \E units : /\ Lands(blocks, blocks', units)
                  /\ units = {read + 1} \/ (units = {} /\ read + 1 \notin Accepted)
TakesNone == read' = read /\ Lands(blocks, blocks', {})

LEMMA AcceptedAre ==
    ASSUME format # "code", NEW u
    PROVE  u \in Accepted <=> /\ u \in DOMAIN source /\ source[u].text.len > 0
                              /\ source[u].kind \notin LeftOut
BY DEF Accepted

LEMMA AppendTakes ==
    ASSUME Forest(blocks), read' = read + 1, NEW b, blocks' = Append(blocks, b),
           b.units = {read + 1} \/ (b.units = {} /\ read + 1 \notin Accepted)
    PROVE  Takes
<1>1. Appended(blocks, b, blocks')
  BY AppendIs
<1>2. PICK bs, units : bs = blocks' /\ units = b.units
  OBVIOUS
<1>3. Lands(blocks, bs, units)
  BY <1>1, <1>2, AppendedLands
<1> QED
  BY <1>2, <1>3 DEF Takes

LEMMA SkipTakes ==
    ASSUME read' = read + 1, blocks' = blocks, read + 1 \notin Accepted
    PROVE  Takes
BY DEF Takes, Lands

LEMMA TakesFiled ==
    ASSUME Forest(blocks), Forest(blocks'), read \in Nat, NEW acc, acc = Accepted,
           Filed(blocks, 1..read, acc, Less), Takes \/ TakesNone
    PROVE  Filed(blocks', 1..read', acc, Less)
<1>1. PICK bs, n : bs = blocks' /\ n = read /\ n \in Nat
  OBVIOUS
<1>2. CASE Takes
  <2>0. n \in Nat
    BY <1>1
  <2>1. PICK units : Lands(blocks, bs, units) /\ (units = {n + 1} \/ (units = {} /\ n + 1 \notin acc))
    BY <1>1, <1>2 DEF Takes
  <2>2. Forest(bs) /\ Filed(blocks, 1..n, acc, Less)
    BY <1>1
  <2>3. Filed(bs, 1..n + 1, acc, Less)
    BY <2>0, <2>1, <2>2, NextFiled
  <2> QED
    BY <1>1, <1>2, <2>3 DEF Takes
<1>3. CASE TakesNone
  <2>1. PICK done, none : done = 1..read /\ none = {}
    OBVIOUS
  <2>2. Lands(blocks, bs, none) /\ Forest(bs) /\ Filed(blocks, done, acc, Less)
    BY <1>1, <1>3, <2>1 DEF TakesNone
  <2>3. /\ done \cup none \subseteq done /\ none \cap done = {} /\ (done \ done) \cap acc \subseteq none
        /\ done \X none \subseteq Less
    BY <2>1
  <2>4. Filed(bs, done, acc, Less)
    BY <2>2, <2>3, LandsFiled
  <2> QED
    BY <1>1, <1>3, <2>1, <2>4 DEF TakesNone
<1> QED
  BY <1>2, <1>3

LEMMA PptxTakes ==
    ASSUME TypeInv, ReadSlide \/ ReadShape \/ SkipShape \/ BeginTable \/ ReadRow \/ ReadNotes
    PROVE  Takes
<1>1. Forest(blocks) /\ FileInv
  BY DEF TypeInv
<1>2. PICK kinds : Reads("pptx", kinds, PptxUnit)
  BY DEF ReadSlide, ReadShape, SkipShape, BeginTable, ReadRow, ReadNotes, Pptx
<1>3. /\ format = "pptx" /\ format # "code" /\ read' = read + 1 /\ read + 1 \in 1..Len(source) /\ PptxUnit = read + 1
      /\ Len(source) \in Nat
  BY <1>1, <1>2, ReadsIs DEF PptxUnit
<1>4. Blank(PptxUnit) => read + 1 \notin Accepted
  BY <1>3, AcceptedAre DEF Blank
<1>5. ASSUME NEW type, NEW id, AddToSlide(type, id) PROVE Takes
  <2>1. PICK b : b = NewBlock(type, id, Slide, Number("shape"), source[PptxUnit].text, {PptxUnit})
    OBVIOUS
  <2>2. blocks' = Append(blocks, b) /\ b.units = {read + 1}
    BY <1>3, <1>5, <2>1 DEF AddToSlide, NewBlock
  <2> QED
    BY <1>1, <1>3, <2>2, AppendTakes
<1>6. CASE ReadSlide
  <2>1. PICK b : b = NewBlock("slide", Named("slide", Number("slide")), 0, Number("slide"), source[PptxUnit].text,
                              IF Blank(PptxUnit) THEN {} ELSE {PptxUnit})
    OBVIOUS
  <2>2. blocks' = Append(blocks, b) /\ b.units = (IF Blank(PptxUnit) THEN {} ELSE {read + 1})
    BY <1>3, <1>6, <2>1 DEF ReadSlide, NewBlock
  <2> QED
    BY <1>1, <1>3, <1>4, <2>2, AppendTakes
<1>7. CASE ReadShape \/ ReadNotes
  BY <1>5, <1>7 DEF ReadShape, ReadNotes
<1>8. CASE SkipShape
  <2>1. blocks' = blocks /\ (Blank(PptxUnit) \/ source[PptxUnit].kind \in {"title", "group"})
    BY <1>8 DEF SkipShape, Pptx, Reads
  <2>2. read + 1 \notin Accepted
    BY <1>3, <1>4, <2>1, AcceptedAre DEF LeftOut
  <2> QED
    BY <1>3, <2>1, <2>2, SkipTakes
<1>9. CASE BeginTable
  <2>1. blocks' = blocks /\ source[PptxUnit].kind = "table"
    BY <1>9 DEF BeginTable, Pptx, Reads
  <2>2. Presentation(source) /\ source \in Seq(Element({"slide", "title", "shape", "group", "table", "row", "notes"}))
    BY <1>1, <1>3, SourceIs
  <2>3. PptxUnit \in DOMAIN source
    BY <1>3, <2>2
  <2>4. source[PptxUnit].text = NoText
    BY <2>1, <2>2, <2>3 DEF Presentation
  <2>5. Blank(PptxUnit)
    BY <2>4 DEF Blank, NoText
  <2> QED
    BY <1>3, <1>4, <2>1, <2>5, SkipTakes
<1>10. CASE ReadRow
  <2>1. CASE Blank(PptxUnit)
    <3>1. blocks' = blocks
      BY <1>10, <2>1 DEF ReadRow
    <3> QED
      BY <1>3, <1>4, <2>1, <3>1, SkipTakes
  <2>2. CASE ~ Blank(PptxUnit)
    BY <1>5, <1>10, <2>2 DEF ReadRow
  <2> QED
    BY <2>1, <2>2
<1> QED
  BY <1>6, <1>7, <1>8, <1>9, <1>10

LEMMA RecordsTakes ==
    ASSUME TypeInv, AddRoot \/ ReadRecord \/ SkipScalar
    PROVE  Takes \/ TakesNone
<1>1. Forest(blocks) /\ FileInv
  BY DEF TypeInv
<1>2. CASE AddRoot
  <2>1. PICK b : b = NewBlock("document", Named("doc_root", 0), 0, 0, NoText, {})
    OBVIOUS
  <2>2. blocks' = Append(blocks, b) /\ b.units = {} /\ read' = read
    BY <1>2, <2>1 DEF AddRoot, NewBlock
  <2>3. Appended(blocks, b, blocks')
    BY <1>1, <2>2, AppendIs
  <2>4. PICK bs, units : bs = blocks' /\ units = b.units
    OBVIOUS
  <2>5. Lands(blocks, bs, units)
    BY <1>1, <2>3, <2>4, AppendedLands
  <2> QED
    BY <2>2, <2>4, <2>5 DEF TakesNone
<1>3. CASE ReadRecord
  <2>1. PICK b : b = NewBlock(source[RecordUnit].kind, Named("record", read), 1, read, source[RecordUnit].text, {RecordUnit})
    OBVIOUS
  <2>2. blocks' = Append(blocks, b) /\ b.units = {read + 1} /\ read' = read + 1
    BY <1>3, <2>1 DEF ReadRecord, NewBlock, RecordUnit, Reads
  <2> QED
    BY <1>1, <2>2, AppendTakes
<1>4. CASE SkipScalar
  <2>1. Reads("records", {"scalar"}, read + 1) /\ blocks' = blocks
    BY <1>4 DEF SkipScalar, Skip, RecordUnit
  <2>2. format = "records" /\ read' = read + 1 /\ source[read + 1].kind = "scalar"
    BY <2>1 DEF Reads
  <2>3. read + 1 \notin Accepted
    BY <2>2, AcceptedAre DEF LeftOut
  <2> QED
    BY <2>1, <2>2, <2>3, SkipTakes
<1> QED
  BY <1>2, <1>3, <1>4

LEMMA LandsTwice ==
    ASSUME NEW bs, Forest(bs), NEW cs, Forest(cs), NEW ds, Forest(ds), NEW units, Lands(bs, cs, {}), Lands(cs, ds, units)
    PROVE  Lands(bs, ds, units)
<1>1. CASE cs = bs
  BY <1>1
<1>2. CASE units = {} /\ ds = cs
  BY <1>2
<1>3. ASSUME Extends(bs, cs), NEW i, FillsOne(bs, cs, i), cs[i].units = {},
             Extends(cs, ds), NEW j, FillsOne(cs, ds, j), ds[j].units = units
      PROVE  Lands(bs, ds, units)
  <2>1. PICK n \in Nat, m \in Nat, l \in Nat : n = Len(bs) /\ m = Len(cs) /\ l = Len(ds)
    BY ForestTyped
  <2>2. n <= m /\ m <= l /\ (\A k \in 1..m : ds[k] = cs[k]) /\ (\A k \in 1..n : cs[k] = bs[k])
    BY <1>3, <2>1 DEF Extends
  <2>3. /\ \A k \in n + 1 .. m : cs[k].units = {}
        /\ j \in m + 1 .. l /\ \A k \in m + 1 .. l : k # j => ds[k].units = {}
    BY <1>3, <2>1 DEF FillsOne
  <2>4. ASSUME NEW k \in n + 1 .. l, k # j PROVE ds[k].units = {}
    <3>1. k \in n + 1 .. m \/ k \in m + 1 .. l
      OBVIOUS
    <3>2. k \in n + 1 .. m => ds[k] = cs[k]
      BY <2>2
    <3> QED
      BY <2>3, <2>4, <3>1, <3>2
  <2>5. j \in n + 1 .. l
    BY <2>2, <2>3
  <2>6. Extends(bs, ds)
    BY <2>1, <2>2 DEF Extends
  <2> QED
    BY <1>3, <2>1, <2>4, <2>5, <2>6 DEF Lands, FillsOne
<1> QED
  BY <1>1, <1>2, <1>3 DEF Lands

----------------------------------------------------------------------------
(* The blocks that a step of PdfMapper adds.                               *)

\* A new page, if there is none, and the block of the element, behind a table's
\* own if it is one.
PageFirst == WithPage = blocks \/ \E b : Appended(blocks, b, WithPage) /\ b.type = "page" /\ b.units = {} /\ b.parent = 0
                                        /\ b.id = Named("page", El.page) /\ El.page \notin DOMAIN pages

TitleAdded(b) ==
    /\ Appended(WithPage, b, blocks')
    /\ b.type = "section" /\ b.units = {read + 1} /\ b.parent = Top(Popped(OpenSections, 1), PageBlock)
    /\ sections' = Set(sections, El.page, Append(Popped(OpenSections, 1), [block |-> Len(WithPage) + 1, level |-> 1]))
ChildAdded(b) ==
    /\ Appended(WithPage, b, blocks')
    /\ b.type \in {"paragraph", "list_item", "figure"} /\ b.units = {read + 1}
    /\ b.parent = Top(OpenSections, PageBlock)
    /\ sections' = sections
TableAdded(b, c, bs) ==
    /\ Forest(bs) /\ Appended(WithPage, b, bs) /\ Appended(bs, c, blocks')
    /\ b.type = "table" /\ b.units = {} /\ b.parent = Top(OpenSections, PageBlock)
    /\ c.type = "table_row" /\ c.units = {read + 1} /\ c.parent = Len(WithPage) + 1
    /\ sections' = sections

\* What a prefix of blocks has hangs within it.
LEMMA PrefixForest ==
    ASSUME NEW cs, Forest(cs), NEW k \in 0..Len(cs), NEW bs \in Seq(Block), Len(bs) = k,
           \A i \in 1..k : bs[i] = cs[i]
    PROVE  Forest(bs)
<1>1. ASSUME NEW i \in 1..k
      PROVE  bs[i].parent < i /\ (bs[i].parent = 0 \/ bs[bs[i].parent].type \in ParentTypes)
  <2>1. k \in Nat /\ i \in 1..Len(cs) /\ bs[i] = cs[i]
    BY ForestTyped
  <2>2. /\ cs[i].parent < i /\ cs[i].parent \in Nat
        /\ cs[i].parent = 0 \/ cs[cs[i].parent].type \in ParentTypes
    BY <2>1, ForestTyped DEF Forest
  <2>3. cs[i].parent # 0 => cs[i].parent \in 1..k
    BY <2>1, <2>2
  <2>4. cs[i].parent # 0 => bs[cs[i].parent] = cs[cs[i].parent]
    BY <2>3
  <2> QED
    BY <2>1, <2>2, <2>4
<1> QED
  BY <1>1 DEF Forest

LEMMA PdfAdds ==
    ASSUME TypeInv, TypeInv', AddTitle \/ AddTable \/ AddChild
    PROVE  /\ format = "pdf" /\ read + 1 \in 1..Len(source) /\ read \in Nat /\ read' = read + 1 /\ UNCHANGED file
           /\ El.page \in Nat /\ PageFirst /\ Forest(WithPage) /\ EnsuresPage
           /\ \/ \E b : TitleAdded(b)
              \/ \E b : ChildAdded(b)
              \/ \E b, c, bs : TableAdded(b, c, bs)
<1>1. Forest(blocks) /\ FileInv /\ Pages(pages, blocks) /\ Stacks(sections, blocks) /\ Forest(blocks')
  BY DEF TypeInv
<1>2. ReadsElement /\ EnsuresPage
  BY DEF AddTitle, AddTable, AddChild
<1>3. format = "pdf" /\ read' = read + 1 /\ UNCHANGED file /\ read < Len(source)
  BY <1>2 DEF ReadsElement
<1>4. read + 1 \in 1..Len(source) /\ read \in Nat
  BY <1>1, <1>3, ReadNext
<1>5. El.page \in Nat
  BY <1>1, <1>3, <1>4, UnitTyped DEF El
<1>6. Forest(WithPage)
  BY <1>1, <1>5, WithPageAdds
<1>7. PageFirst
  <2>1. CASE El.page \in DOMAIN pages
    BY <2>1 DEF WithPage, PageFirst
  <2>2. CASE El.page \notin DOMAIN pages
    <3>1. PICK b : b = NewBlock("page", Named("page", El.page), 0, El.page, NoText, {})
      OBVIOUS
    <3>2. WithPage = Append(blocks, b) /\ b.type = "page" /\ b.units = {} /\ b.parent = 0 /\ b.id = Named("page", El.page)
      BY <2>2, <3>1 DEF WithPage, NewBlock
    <3>3. Appended(blocks, b, WithPage)
      BY <1>1, <3>2, AppendIs
    <3> QED
      BY <2>2, <3>2, <3>3 DEF PageFirst
  <2> QED
    BY <2>1, <2>2
<1>8. CASE AddTitle
  <2>1. PICK b : b = NewBlock("section", Named("sec", Number("section")), Top(Popped(OpenSections, 1), PageBlock),
                              Number("section"), El.text, {read + 1})
    OBVIOUS
  <2>2. blocks' = Append(WithPage, b)
        /\ sections' = Set(sections, El.page, Append(Popped(OpenSections, 1), [block |-> Len(WithPage) + 1, level |-> 1]))
    BY <1>8, <2>1 DEF AddTitle
  <2>3. Appended(WithPage, b, blocks')
    BY <1>6, <2>2, AppendIs
  <2>4. b.type = "section" /\ b.units = {read + 1} /\ b.parent = Top(Popped(OpenSections, 1), PageBlock)
    BY <2>1 DEF NewBlock
  <2>5. TitleAdded(b)
    BY <2>2, <2>3, <2>4 DEF TitleAdded
  <2> QED
    BY <1>2, <1>3, <1>4, <1>5, <1>6, <1>7, <2>5
<1>9. CASE AddChild
  <2>1. PICK s : s = ChildBlockSpec(El.kind)
    OBVIOUS
  <2>2. s.type \in {"paragraph", "list_item", "figure"}
    BY <2>1 DEF ChildBlockSpec
  <2>3. PICK b : b = NewBlock(s.type, Named(s.name, Number(s.counter)), Top(OpenSections, PageBlock),
                              Number(s.counter), El.text, {read + 1})
    OBVIOUS
  <2>4. blocks' = Append(WithPage, b) /\ sections' = sections
    BY <1>9, <2>1, <2>3 DEF AddChild
  <2>5. Appended(WithPage, b, blocks')
    BY <1>6, <2>4, AppendIs
  <2>6. b.type = s.type /\ b.units = {read + 1} /\ b.parent = Top(OpenSections, PageBlock)
    BY <2>3 DEF NewBlock
  <2>7. ChildAdded(b)
    BY <2>2, <2>4, <2>5, <2>6 DEF ChildAdded
  <2> QED
    BY <1>2, <1>3, <1>4, <1>5, <1>6, <1>7, <2>7
<1>10. CASE AddTable
  <2>1. PICK n : n = Number("table")
    OBVIOUS
  <2>2. PICK b : b = NewBlock("table", Named("tbl", n), Top(OpenSections, PageBlock), n, NoText, {})
    OBVIOUS
  <2>3. PICK c : c = NewBlock("table_row", [name |-> "row", of |-> n, n |-> 0], Len(WithPage) + 1, 0,
                              El.text, {read + 1})
    OBVIOUS
  <2>4. blocks' = WithPage \o <<b, c>> /\ sections' = sections
    BY <1>10, <2>1, <2>2, <2>3 DEF AddTable
  <2>5. b.type = "table" /\ b.units = {} /\ b.parent = Top(OpenSections, PageBlock)
    BY <2>2 DEF NewBlock
  <2>6. c.type = "table_row" /\ c.units = {read + 1} /\ c.parent = Len(WithPage) + 1
    BY <2>3 DEF NewBlock
  <2>7. PICK k \in Nat : k = Len(WithPage)
    BY <1>6, ForestTyped
  <2>8. PICK bs : bs = SubSeq(blocks', 1, k + 1)
    OBVIOUS
  <2>9. blocks' \in Seq(Block) /\ WithPage \in Seq(Block)
    BY <1>1, <1>6 DEF Forest
  <2>10. Len(blocks') = k + 2 /\ blocks'[k + 1] = b /\ blocks'[k + 2] = c /\ \A i \in 1..k : blocks'[i] = WithPage[i]
    BY <2>4, <2>7, <2>9
  <2>11. bs \in Seq(Block) /\ Len(bs) = k + 1 /\ \A i \in 1..k + 1 : bs[i] = blocks'[i]
    BY <2>8, <2>9, <2>10, PrefixIs
  <2>12. Appended(WithPage, b, bs) /\ Appended(bs, c, blocks')
    BY <2>7, <2>10, <2>11 DEF Appended
  <2>13. Forest(bs)
    <3>1. PICK m, cs : m = k + 1 /\ cs = blocks'
      OBVIOUS
    <3>2. m \in 0..Len(cs) /\ Len(bs) = m /\ (\A i \in 1..m : bs[i] = cs[i]) /\ Forest(cs)
      BY <1>1, <2>10, <2>11, <3>1
    <3> QED
      BY <2>11, <3>2, PrefixForest
  <2>14. TableAdded(b, c, bs)
    BY <2>4, <2>5, <2>6, <2>12, <2>13 DEF TableAdded
  <2> QED
    BY <1>2, <1>3, <1>4, <1>5, <1>6, <1>7, <2>14
<1> QED
  BY <1>8, <1>9, <1>10

LEMMA PdfTakes ==
    ASSUME TypeInv, TypeInv', SkipElement \/ AddTitle \/ AddTable \/ AddChild
    PROVE  Takes
<1>1. Forest(blocks) /\ FileInv /\ Forest(blocks')
  BY DEF TypeInv
<1>2. CASE SkipElement
  <2>1. format # "code" /\ read' = read + 1 /\ blocks' = blocks /\ (El.text.len = 0 \/ El.kind = "Footer")
    BY <1>2 DEF SkipElement, ReadsElement, Skipped
  <2>2. read + 1 \notin Accepted
    BY <2>1, AcceptedAre DEF El, LeftOut
  <2> QED
    BY <2>1, <2>2, SkipTakes
<1>3. CASE AddTitle \/ AddTable \/ AddChild
  <2>1. /\ read' = read + 1 /\ PageFirst /\ Forest(WithPage)
        /\ \/ \E b : TitleAdded(b)
           \/ \E b : ChildAdded(b)
           \/ \E b, c, bs : TableAdded(b, c, bs)
    BY <1>3, PdfAdds
  <2>2. PICK W, cs : W = WithPage /\ cs = blocks' /\ Forest(W) /\ Forest(cs)
    BY <1>1, <2>1
  <2>3. Lands(blocks, W, {})
    <3>1. CASE W = blocks
      BY <3>1 DEF Lands
    <3>2. ASSUME NEW b, Appended(blocks, b, W), b.units = {} PROVE Lands(blocks, W, {})
      <4>1. PICK none : none = b.units /\ none = {}
        BY <3>2
      <4>2. Lands(blocks, W, none)
        BY <1>1, <3>2, <4>1, AppendedLands
      <4> QED
        BY <4>1, <4>2
    <3> QED
      BY <2>1, <2>2, <3>1, <3>2 DEF PageFirst
  <2>4. ASSUME NEW b, Appended(W, b, cs), b.units = {read + 1} PROVE Takes
    <3>1. PICK units : units = b.units
      OBVIOUS
    <3>2. Lands(W, cs, units)
      BY <2>2, <2>4, <3>1, AppendedLands
    <3>3. Lands(blocks, cs, units)
      BY <1>1, <2>2, <2>3, <3>2, LandsTwice
    <3> QED
      BY <2>1, <2>2, <2>4, <3>1, <3>3 DEF Takes
  <2>5. ASSUME NEW b, NEW c, NEW bs, TableAdded(b, c, bs) PROVE Takes
    <3>1. Forest(bs) /\ Appended(W, b, bs) /\ Appended(bs, c, cs) /\ b.units = {} /\ c.units = {read + 1}
      BY <2>2, <2>5 DEF TableAdded
    <3>2. PICK none, units : none = b.units /\ units = c.units
      OBVIOUS
    <3>3. Lands(W, bs, none) /\ Lands(bs, cs, units)
      BY <2>2, <3>1, <3>2, AppendedLands
    <3>4. Lands(W, bs, {})
      BY <3>1, <3>2, <3>3
    <3>5. Lands(W, cs, units)
      BY <2>2, <3>1, <3>3, <3>4, LandsTwice
    <3>6. Lands(blocks, cs, units)
      BY <1>1, <2>2, <2>3, <3>5, LandsTwice
    <3> QED
      BY <2>1, <2>2, <3>1, <3>2, <3>6 DEF Takes
  <2> QED
    BY <2>1, <2>2, <2>4, <2>5 DEF TitleAdded, ChildAdded
<1> QED
  BY <1>2, <1>3

----------------------------------------------------------------------------
(* The blocks that a parser with a section stack adds.                     *)

LeafTypes == {"paragraph", "code_block", "table_row", "list_item"}
SectionFrom(units) ==
    /\ units # {} /\ units \subseteq Nat /\ source[Min(units)].level \in 1..6
    /\ \E text : AddSection(units, source[Min(units)].level, text)
LeafFrom(type, units) ==
    type \in LeafTypes /\ units \subseteq Nat /\ \E name, counter, text : AddLeaf(type, name, counter, text, units)
NoneFrom(units) == units = {} /\ Skip
HeadedFrom(units) == NoneFrom(units) \/ SectionFrom(units) \/ \E type : LeafFrom(type, units)

\* The block itself, and the stack behind it.
SectionAdded(b, level) ==
    /\ Appended(blocks, b, blocks')
    /\ b.type = "section" /\ b.parent = Top(Popped(stack, level), 0)
    /\ stack' = Append(Popped(stack, level), [block |-> Len(blocks) + 1, level |-> level])
LeafAdded(b, type) ==
    /\ Appended(blocks, b, blocks')
    /\ b.type = type /\ b.parent = Top(stack, 0)
    /\ stack' = stack

LEMMA SectionIs ==
    ASSUME Forest(blocks), NEW units, SectionFrom(units)
    PROVE  \E b : b.units = units /\ SectionAdded(b, source[Min(units)].level)
<1>1. PICK level, text : level = source[Min(units)].level /\ AddSection(units, level, text)
  BY DEF SectionFrom
<1>2. PICK b : b = NewBlock("section", Named("sec", Number("section")), Top(Popped(stack, level), 0), Number("section"),
                            text, units)
  OBVIOUS
<1>3. b.type = "section" /\ b.parent = Top(Popped(stack, level), 0) /\ b.units = units
  BY <1>2 DEF NewBlock
<1>4. blocks' = Append(blocks, b) /\ stack' = Append(Popped(stack, level), [block |-> Len(blocks) + 1, level |-> level])
  BY <1>1, <1>2 DEF AddSection
<1>5. Appended(blocks, b, blocks')
  BY <1>4, AppendIs
<1> QED
  BY <1>1, <1>3, <1>4, <1>5 DEF SectionAdded

LEMMA LeafIs ==
    ASSUME Forest(blocks), NEW type, NEW units, LeafFrom(type, units)
    PROVE  \E b : b.units = units /\ LeafAdded(b, type)
<1>1. PICK name, counter, text : AddLeaf(type, name, counter, text, units)
  BY DEF LeafFrom
<1>2. PICK b : b = NewBlock(type, Named(name, Number(counter)), Top(stack, 0), Number(counter), text, units)
  OBVIOUS
<1>3. b.type = type /\ b.parent = Top(stack, 0) /\ b.units = units
  BY <1>2 DEF NewBlock
<1>4. blocks' = Append(blocks, b) /\ stack' = stack
  BY <1>1, <1>2 DEF AddLeaf
<1>5. Appended(blocks, b, blocks')
  BY <1>4, AppendIs
<1> QED
  BY <1>3, <1>4, <1>5 DEF LeafAdded

LEMMA HeadedLands ==
    ASSUME Forest(blocks), NEW units, HeadedFrom(units)
    PROVE  Lands(blocks, blocks', units)
<1>1. PICK bs : bs = blocks'
  OBVIOUS
<1>2. CASE NoneFrom(units)
  BY <1>2 DEF Lands, Skip, NoneFrom
<1>3. ASSUME NEW b, Appended(blocks, b, bs), b.units = units PROVE Lands(blocks, bs, units)
  BY <1>3, AppendedLands
<1>4. CASE SectionFrom(units)
  BY <1>1, <1>3, <1>4, SectionIs DEF SectionAdded
<1>5. ASSUME NEW type, LeafFrom(type, units) PROVE Lands(blocks, bs, units)
  BY <1>1, <1>3, <1>5, LeafIs DEF LeafAdded
<1> QED
  BY <1>1, <1>2, <1>4, <1>5 DEF HeadedFrom

----------------------------------------------------------------------------
(* Markdown: the lines of an open fence are the last that have been read.  *)

MarkdownUnits ==
    /\ phase = "parse" => \E m \in 0..read : ToSet(code) = m + 1 .. read /\ Filed(blocks, 1..m, Accepted, Less)
    /\ phase # "parse" => Filed(blocks, 1..read, Accepted, Less)

LEMMA LoneUnit ==
    ASSUME NEW n \in Nat
    PROVE  {n} # {} /\ {n} \subseteq Nat /\ Min({n}) = n
<1>1. PICK s : s = {n}
  OBVIOUS
<1>2. s \subseteq Nat /\ s # {} /\ \A x \in s : x = n
  BY <1>1
<1>3. Min(s) \in s
  BY <1>2, LeastOf
<1> QED
  BY <1>1, <1>2, <1>3

LEMMA StretchFiled ==
    ASSUME NEW bs, Forest(bs), NEW cs, Forest(cs), NEW m \in Nat, NEW n \in Nat, m <= n, NEW k \in {n, n + 1},
           NEW acc, k = n + 1 => n + 1 \notin acc, Filed(bs, 1..m, acc, Less), Lands(bs, cs, m + 1 .. n)
    PROVE  Filed(cs, 1..k, acc, Less)
<1>1. PICK done, units, more : done = 1..m /\ units = m + 1 .. n /\ more = 1..k
  OBVIOUS
<1>2. done \cup units \subseteq more /\ units \cap done = {}
  BY <1>1
<1>3. (more \ done) \cap acc \subseteq units
  <2>1. \A x \in more \ done : x \in units \/ (k = n + 1 /\ x = n + 1)
    BY <1>1
  <2> QED
    BY <2>1
<1>4. done \X units \subseteq Less
  BY <1>1 DEF Less
<1>5. Filed(cs, more, acc, Less)
  BY <1>1, <1>2, <1>3, <1>4, LandsFiled
<1> QED
  BY <1>1, <1>5

\* What EndCode takes.
LEMMA EndCodeLands ==
    ASSUME TypeInv, format = "markdown", EndCode
    PROVE  LeafFrom("code_block", ToSet(code))
<1>1. code \in Seq(1..read) /\ read \in Nat
  BY DEF TypeInv, MarkdownInv, FileInv
<1>2. ToSet(code) \subseteq Nat
  BY <1>1 DEF ToSet
<1> QED
  BY <1>2 DEF EndCode, LeafFrom, LeafTypes

LEMMA MarkdownFrom ==
    ASSUME TypeInv, MarkdownStep
    PROVE  /\ format = "markdown" /\ phase = "parse" /\ UNCHANGED file /\ read \in Nat /\ Len(source) \in Nat
           /\ \/ /\ read' = read + 1 /\ phase' = "parse" /\ code = <<>> /\ code' = code /\ HeadedFrom({read + 1})
              \/ /\ read' = read + 1 /\ phase' = "parse" /\ code = <<>> /\ code' = code /\ HeadedFrom({})
                 /\ read + 1 \notin Accepted
              \/ /\ read' = read + 1 /\ phase' = "parse" /\ code' = Append(code, read + 1) /\ HeadedFrom({})
              \/ /\ read' = read + 1 /\ phase' = "parse" /\ code' = <<>> /\ HeadedFrom(ToSet(code)) /\ read + 1 \notin Accepted
              \/ /\ read' = read /\ phase' = "chunk" /\ HeadedFrom(ToSet(code)) /\ read = Len(source)
<1>1. FileInv /\ MarkdownInv
  BY DEF TypeInv
<1>2. format = "markdown" /\ phase = "parse" /\ UNCHANGED file
  BY DEF MarkdownStep, ReadHeading, ReadParagraph, ReadBlank, OpenFence, ReadCode, CloseFence, EndOfFile,
         ReadsLine, AtEnd
<1>3. read \in Nat /\ Len(source) \in Nat /\ format # "code" /\ (inFence \/ code = <<>>)
  BY <1>1, <1>2, SourceIs DEF FileInv, MarkdownInv
<1>4. ASSUME NEW kinds, ReadsLine(kinds)
      PROVE  /\ read' = read + 1 /\ phase' = "parse" /\ read + 1 \in 1..Len(source) /\ source[read + 1].kind \in kinds
             /\ source[read + 1] \in Line /\ read + 1 \in Nat
  <2>1. read < Len(source) /\ read' = read + 1 /\ phase' = phase /\ source[read + 1].kind \in kinds
    BY <1>4 DEF ReadsLine, Next1
  <2>2. read + 1 \in 1..Len(source)
    BY <1>3, <2>1
  <2> QED
    BY <1>1, <1>2, <1>3, <2>1, <2>2, UnitTyped
<1>5. \A e \in Line : e.kind \in {"fence", "blank"} => e.text.len = 0
  BY DEF Line, NoText
<1>6. ASSUME source[read + 1].kind \in {"fence", "blank"}, source[read + 1] \in Line PROVE read + 1 \notin Accepted
  BY <1>3, <1>5, <1>6, AcceptedAre
<1>7. ToSet(<<>>) = {}
  BY DEF ToSet
<1>8. \A units : NoneFrom(units) => HeadedFrom(units)
  BY DEF HeadedFrom
<1>9. CASE ReadHeading
  <2>1. ReadsLine({"heading"}) /\ AddSection({read + 1}, source[read + 1].level, Next1.text) /\ ~ inFence /\ code' = code
    BY <1>9 DEF ReadHeading, Next1, markdown
  <2>2. read' = read + 1 /\ phase' = "parse" /\ source[read + 1].level \in 1..6 /\ read + 1 \in Nat
    <3>1. ReadsLine({"heading"})
      BY <2>1
    <3>2. source[read + 1].kind \in {"heading"} /\ read + 1 \in 1..Len(source) /\ read' = read + 1 /\ phase' = "parse"
          /\ read + 1 \in Nat
      BY <1>4, <3>1
    <3> QED
      BY <1>1, <1>3, <3>2, UnitTyped
  <2>3. PICK n \in Nat : n = read + 1
    BY <2>2
  <2>4. SectionFrom({n})
    <3>1. {n} # {} /\ {n} \subseteq Nat /\ Min({n}) = n
      BY LoneUnit
    <3>2. AddSection({n}, source[n].level, Next1.text) /\ source[n].level \in 1..6
      BY <2>1, <2>2, <2>3
    <3> QED
      BY <3>1, <3>2 DEF SectionFrom
  <2> QED
    BY <1>2, <1>3, <2>1, <2>2, <2>3, <2>4 DEF HeadedFrom
<1>10. CASE ReadParagraph
  <2>1. ReadsLine({"text"}) /\ AddLeaf("paragraph", "p", "paragraph", Next1.text, {read + 1}) /\ ~ inFence /\ code' = code
    BY <1>10 DEF ReadParagraph, markdown
  <2>2. read' = read + 1 /\ phase' = "parse"
    BY <1>4, <2>1
  <2>3. {read + 1} \subseteq Nat
    BY <1>3
  <2>4. LeafFrom("paragraph", {read + 1})
    BY <2>1, <2>3 DEF LeafFrom, LeafTypes
  <2> QED
    BY <1>2, <1>3, <2>1, <2>2, <2>4 DEF HeadedFrom
<1>11. CASE ReadBlank \/ OpenFence
  <2>1. PICK kinds : ReadsLine(kinds) /\ kinds \subseteq {"fence", "blank"} /\ Skip /\ ~ inFence /\ code' = code
    <3>1. ReadBlank => ReadsLine({"blank"}) /\ Skip /\ ~ inFence /\ code' = code
      BY DEF ReadBlank, markdown
    <3>2. OpenFence => ReadsLine({"fence"}) /\ Skip /\ ~ inFence /\ code' = code
      BY DEF OpenFence
    <3> QED
      BY <1>11, <3>1, <3>2
  <2>2. read' = read + 1 /\ phase' = "parse" /\ source[read + 1].kind \in kinds /\ source[read + 1] \in Line
    BY <1>4, <2>1
  <2>3. read + 1 \notin Accepted /\ NoneFrom({})
    BY <1>6, <2>1, <2>2 DEF NoneFrom
  <2> QED
    BY <1>2, <1>3, <1>8, <2>1, <2>2, <2>3
<1>12. CASE ReadCode
  <2>1. ReadsLine({"heading", "text", "blank"}) /\ Skip /\ code' = Append(code, read + 1)
    BY <1>12 DEF ReadCode
  <2>2. read' = read + 1 /\ phase' = "parse" /\ NoneFrom({})
    BY <1>4, <2>1 DEF NoneFrom
  <2> QED
    BY <1>2, <1>3, <1>8, <2>1, <2>2
<1>13. CASE CloseFence
  <2>1. ReadsLine({"fence"}) /\ EndCode /\ code' = <<>>
    BY <1>13 DEF CloseFence
  <2>2. read' = read + 1 /\ phase' = "parse" /\ source[read + 1].kind \in {"fence"} /\ source[read + 1] \in Line
    BY <1>4, <2>1
  <2>3. read + 1 \notin Accepted
    BY <1>6, <2>2
  <2>4. HeadedFrom(ToSet(code))
    BY <1>2, <2>1, EndCodeLands DEF HeadedFrom
  <2> QED
    BY <1>2, <1>3, <2>1, <2>2, <2>3, <2>4
<1>14. CASE EndOfFile
  <2>1. phase' = "chunk" /\ read' = read /\ read = Len(source)
    BY <1>14 DEF EndOfFile, AtEnd
  <2>2. CASE inFence /\ code # <<>>
    <3>1. HeadedFrom(ToSet(code))
      BY <1>2, <1>14, <2>2, EndCodeLands DEF HeadedFrom, EndOfFile
    <3> QED
      BY <1>2, <1>3, <2>1, <3>1
  <2>3. CASE ~ (inFence /\ code # <<>>)
    <3>1. code = <<>> /\ Skip
      BY <1>3, <1>14, <2>3 DEF EndOfFile
    <3>2. HeadedFrom(ToSet(code))
      BY <1>7, <1>8, <3>1 DEF NoneFrom
    <3> QED
      BY <1>2, <1>3, <2>1, <3>2
  <2> QED
    BY <2>2, <2>3
<1> QED
  BY <1>9, <1>10, <1>11, <1>12, <1>13, <1>14 DEF MarkdownStep

LEMMA EmptyUnits == ToSet(<<>>) = {}
BY DEF ToSet

LEMMA MarkdownUnitsKept ==
    ASSUME TypeInv, TypeInv', MarkdownStep, MarkdownUnits
    PROVE  MarkdownUnits' /\ (phase' # "parse" => read' = Len(source'))
<1>1. Forest(blocks) /\ Forest(blocks') /\ format = "markdown" /\ phase = "parse" /\ UNCHANGED file /\ read \in Nat
      /\ source' = source /\ format' = format /\ code \in Seq(1..read)
  BY MarkdownFrom DEF TypeInv, file, MarkdownInv
<1>0. PICK n \in Nat : n = read
  BY <1>1
<1>2. PICK acc, cs : acc = Accepted /\ cs = blocks' /\ n = read
  BY <1>0
<1>3. Accepted' = acc
  BY <1>1, <1>2 DEF Accepted
<1>4. PICK m \in 0..n : ToSet(code) = m + 1 .. n /\ Filed(blocks, 1..m, acc, Less)
  BY <1>1, <1>2 DEF MarkdownUnits
<1>5. m \in Nat /\ m <= n
  OBVIOUS
<1>6. code = <<>> => m = n
  <2>1. ASSUME m # n PROVE n \in m + 1 .. n
    BY <2>1
  <2> QED
    BY <1>4, <2>1, EmptyUnits
<1>7. ASSUME NEW k \in {n, n + 1}, k = n + 1 => n + 1 \notin acc, HeadedFrom(ToSet(code))
      PROVE  Filed(cs, 1..k, acc, Less)
  <2>1. PICK units : units = m + 1 .. n
    OBVIOUS
  <2>2. Lands(blocks, cs, units)
    BY <1>1, <1>2, <1>4, <1>7, <2>1, HeadedLands
  <2>3. Lands(blocks, cs, m + 1 .. n) /\ Forest(cs) /\ (k = n + 1 => n + 1 \notin acc)
    BY <1>1, <1>2, <1>7, <2>1, <2>2
  <2> QED
    BY <1>1, <1>4, <1>5, <2>3, StretchFiled
<1>8. ASSUME HeadedFrom({}) PROVE Filed(cs, 1..m, acc, Less)
  <2>1. PICK done, none : done = 1..m /\ none = {}
    OBVIOUS
  <2>2. Lands(blocks, cs, none)
    BY <1>1, <1>2, <1>8, <2>1, HeadedLands
  <2>3. /\ done \cup none \subseteq done /\ none \cap done = {} /\ (done \ done) \cap acc \subseteq none
        /\ done \X none \subseteq Less
    BY <2>1
  <2>4. Filed(cs, done, acc, Less)
    BY <1>1, <1>2, <1>4, <2>1, <2>2, <2>3, LandsFiled
  <2> QED
    BY <2>1, <2>4
<1>9. ASSUME read' = n + 1, phase' = "parse", NEW a \in 0..n + 1, ToSet(code') = a + 1 .. n + 1, Filed(cs, 1..a, acc, Less)
      PROVE  MarkdownUnits' /\ (phase' # "parse" => read' = Len(source'))
  BY <1>2, <1>3, <1>9 DEF MarkdownUnits
<1>10. n + 1 \in 0..n + 1 /\ n + 1 + 1 .. n + 1 = {} /\ m \in 0..n + 1
  OBVIOUS
<1>11. CASE /\ read' = read + 1 /\ phase' = "parse" /\ code = <<>> /\ code' = code /\ HeadedFrom({read + 1})
  <2>1. Lands(blocks, cs, {n + 1})
    BY <1>1, <1>2, <1>11, HeadedLands
  <2>2. PICK units : units = {n + 1}
    OBVIOUS
  <2>3. Forest(cs) /\ Filed(blocks, 1..n, acc, Less) /\ Lands(blocks, cs, units)
    BY <1>1, <1>2, <1>4, <1>6, <1>11, <2>1, <2>2
  <2>4. Filed(cs, 1..n + 1, acc, Less)
    BY <1>1, <2>2, <2>3, NextFiled
  <2>5. ToSet(code') = n + 1 + 1 .. n + 1
    BY <1>10, <1>11, EmptyUnits
  <2> QED
    BY <1>2, <1>9, <1>10, <1>11, <2>4, <2>5
<1>12. CASE /\ read' = read + 1 /\ phase' = "parse" /\ code = <<>> /\ code' = code /\ HeadedFrom({})
            /\ read + 1 \notin Accepted
  <2>1. HeadedFrom(ToSet(code)) /\ n + 1 \notin acc /\ n + 1 \in {n, n + 1}
    BY <1>2, <1>12, EmptyUnits
  <2>2. Filed(cs, 1..n + 1, acc, Less)
    BY <1>7, <2>1
  <2>3. ToSet(code') = n + 1 + 1 .. n + 1
    BY <1>10, <1>12, EmptyUnits
  <2> QED
    BY <1>2, <1>9, <1>10, <1>12, <2>2, <2>3
<1>13. CASE /\ read' = read + 1 /\ phase' = "parse" /\ code' = Append(code, read + 1) /\ HeadedFrom({})
  <2>1. ToSet(code') = ToSet(code) \cup {n + 1}
    <3>1. PICK l \in Nat : l = Len(code) /\ DOMAIN code = 1..l
      BY <1>1
    <3>2. /\ DOMAIN code' = 1..l + 1 /\ code'[l + 1] = n + 1 /\ \A i \in 1..l : code'[i] = code[i]
      BY <1>1, <1>2, <1>13, <3>1
    <3>3. 1..l + 1 = (1..l) \cup {l + 1}
      BY <3>1
    <3> QED
      BY <3>1, <3>2, <3>3 DEF ToSet
  <2>2. ToSet(code') = m + 1 .. n + 1
    BY <1>4, <1>5, <2>1
  <2> QED
    BY <1>2, <1>8, <1>9, <1>10, <1>13, <2>2
<1>14. CASE /\ read' = read + 1 /\ phase' = "parse" /\ code' = <<>> /\ HeadedFrom(ToSet(code)) /\ read + 1 \notin Accepted
  <2>1. n + 1 \notin acc /\ n + 1 \in {n, n + 1}
    BY <1>2, <1>14
  <2>2. Filed(cs, 1..n + 1, acc, Less)
    BY <1>7, <1>14, <2>1
  <2>3. ToSet(code') = n + 1 + 1 .. n + 1
    BY <1>10, <1>14, EmptyUnits
  <2> QED
    BY <1>2, <1>9, <1>10, <1>14, <2>2, <2>3
<1>15. CASE /\ read' = read /\ phase' = "chunk" /\ HeadedFrom(ToSet(code)) /\ read = Len(source)
  <2>1. n \in {n, n + 1} /\ n # n + 1
    OBVIOUS
  <2>2. Filed(cs, 1..n, acc, Less)
    BY <1>7, <1>15, <2>1
  <2> QED
    BY <1>1, <1>2, <1>3, <1>15, <2>2 DEF MarkdownUnits
<1> QED
  BY <1>11, <1>12, <1>13, <1>14, <1>15, MarkdownFrom

----------------------------------------------------------------------------
(* DOCX: the order in which the elements are read.                         *)

DocxLess == {p \in Nat \X Nat : \E a, b \in 1..Len(source) : a < b /\ p = <<DocxOrder[a], DocxOrder[b]>>}
DocxRead == {DocxOrder[k] : k \in 1..read}
IsRow(u) == source[u].kind = "row"

LEMMA DocxOrderHas ==
    ASSUME FileInv, format = "docx", NEW n, n = Len(source)
    PROVE  /\ n \in Nat /\ \A k \in 1..n : DocxOrder[k] \in 1..n
           /\ \A u \in 1..n : \E k \in 1..n : DocxOrder[k] = u
           /\ \A a, b \in 1..n : DocxOrder[a] = DocxOrder[b] => a = b
           /\ \A a, b \in 1..n : a < b /\ (IsRow(DocxOrder[a]) <=> IsRow(DocxOrder[b])) => DocxOrder[a] < DocxOrder[b]
<1>1. n \in Nat /\ DOMAIN source = 1..n
  BY SourceIs
<1> DEFINE rows == {i \in DOMAIN source : source[i].kind = "row"}
           rest == DOMAIN source \ rows
<1>2. /\ rows \subseteq 1..n /\ rest \subseteq 1..n
      /\ \A u \in 1..n : u \in rows \/ u \in rest
      /\ \A u \in rows : IsRow(u)
      /\ \A u \in rest : ~ IsRow(u)
  BY <1>1 DEF IsRow
<1>3. DocxOrder = InOrderOf(rest, <) \o InOrderOf(rows, <)
  BY DEF DocxOrder
<1> HIDE DEF rest, rows
<1>4. IsFiniteSet(rows) /\ IsFiniteSet(rest)
  <2>1. IsFiniteSet(1..n)
    BY <1>1, FS_Interval
  <2> QED
    BY <1>2, <2>1, FS_Subset
<1>5. Increasing(InOrderOf(rest, <), rest) /\ Increasing(InOrderOf(rows, <), rows)
  <2>1. rest \in SUBSET Int /\ rows \in SUBSET Int
    BY <1>2
  <2> QED
    BY <1>4, <2>1, NumbersInOrder
<1>6. PICK s, t : s = InOrderOf(rest, <) /\ t = InOrderOf(rows, <) /\ DocxOrder = s \o t
  BY <1>3
<1>7. PICK p \in Nat, q \in Nat : p = Cardinality(rest) /\ q = Cardinality(rows)
  BY <1>5 DEF Increasing
<1>8. /\ s \in Seq(rest) /\ Len(s) = p /\ (\A i \in 1..p : s[i] \in rest) /\ (\A x \in rest : \E i \in 1..p : s[i] = x)
      /\ \A i, j \in 1..p : i < j <=> s[i] < s[j]
      /\ t \in Seq(rows) /\ Len(t) = q /\ (\A i \in 1..q : t[i] \in rows) /\ (\A x \in rows : \E i \in 1..q : t[i] = x)
      /\ \A i, j \in 1..q : i < j <=> t[i] < t[j]
  BY <1>5, <1>6, <1>7 DEF Increasing
<1>9. s \in Seq(1..n) /\ t \in Seq(1..n)
  BY <1>2, <1>8, SeqWider
<1>10. Len(s \o t) = p + q /\ Len(DocxOrder) = n
  BY <1>1, <1>8, <1>9, ConcatProperties, DocxOrderIs
<1>11. p + q = n
  BY <1>6, <1>10
<1>12. /\ \A k \in 1..p : DocxOrder[k] = s[k]
       /\ \A k \in p + 1 .. n : DocxOrder[k] = t[k - p] /\ k - p \in 1..q
  <2>1. \A k \in 1..p + q : (s \o t)[k] = IF k <= p THEN s[k] ELSE t[k - p]
    BY <1>8, <1>9, ConcatProperties
  <2>2. \A k \in 1..p : k \in 1..p + q /\ k <= p
    OBVIOUS
  <2>3. \A k \in p + 1 .. n : k \in 1..p + q /\ ~ (k <= p) /\ k - p \in 1..q
    BY <1>11
  <2> QED
    BY <1>6, <2>1, <2>2, <2>3
<1>13. \A k \in 1..n : k \in 1..p \/ k \in p + 1 .. n
  OBVIOUS
<1>14. ASSUME NEW k \in 1..n
       PROVE  /\ DocxOrder[k] \in 1..n
              /\ k \in 1..p => ~ IsRow(DocxOrder[k]) /\ DocxOrder[k] = s[k]
              /\ k \notin 1..p => IsRow(DocxOrder[k]) /\ DocxOrder[k] = t[k - p] /\ k - p \in 1..q /\ k \in p + 1 .. n
  <2>1. CASE k \in 1..p
    <3>1. DocxOrder[k] = s[k] /\ s[k] \in rest
      BY <1>8, <1>12, <2>1
    <3> QED
      BY <1>2, <2>1, <3>1, Zenon
  <2>2. CASE k \notin 1..p
    <3>1. k \in p + 1 .. n
      BY <1>13, <2>2
    <3>2. DocxOrder[k] = t[k - p] /\ k - p \in 1..q
      BY <1>12, <3>1
    <3>3. t[k - p] \in rows
      BY <1>8, <3>2
    <3> QED
      BY <1>2, <2>2, <3>1, <3>2, <3>3, Zenon
  <2> QED
    BY <2>1, <2>2
<1>15. ASSUME NEW u \in 1..n PROVE \E k \in 1..n : DocxOrder[k] = u
  <2>1. CASE u \in rest
    <3>1. PICK i \in 1..p : s[i] = u
      BY <1>8, <2>1
    <3>2. i \in 1..n
      BY <1>11
    <3> QED
      BY <1>12, <3>1, <3>2
  <2>2. CASE u \in rows
    <3>1. PICK i \in 1..q : t[i] = u
      BY <1>8, <2>2
    <3>2. i + p \in 1..n /\ i + p \in p + 1 .. n /\ (i + p) - p = i
      BY <1>11
    <3> QED
      BY <1>12, <3>1, <3>2
  <2> QED
    BY <1>2, <2>1, <2>2
<1>16. ASSUME NEW a \in 1..n, NEW b \in 1..n, a < b, IsRow(DocxOrder[a]) <=> IsRow(DocxOrder[b])
       PROVE  DocxOrder[a] < DocxOrder[b]
  <2>1. CASE a \in 1..p
    <3>1. b \in 1..p
      BY <1>14, <1>16, <2>1
    <3> QED
      BY <1>8, <1>14, <1>16, <2>1, <3>1
  <2>2. CASE a \notin 1..p
    <3>1. b \notin 1..p
      BY <1>14, <1>16, <2>2
    <3>2. a - p \in 1..q /\ b - p \in 1..q /\ a - p < b - p
      BY <1>14, <1>16, <2>2, <3>1
    <3>3. t[a - p] < t[b - p]
      BY <1>8, <3>2
    <3> QED
      BY <1>14, <2>2, <3>1, <3>3
  <2> QED
    BY <2>1, <2>2
<1>17. ASSUME NEW a \in 1..n, NEW b \in 1..n, DocxOrder[a] = DocxOrder[b] PROVE a = b
  <2>1. IsRow(DocxOrder[a]) <=> IsRow(DocxOrder[b])
    BY <1>17
  <2>2. DocxOrder[a] \in 1..n
    BY <1>14
  <2>3. ~ (DocxOrder[a] < DocxOrder[b]) /\ ~ (DocxOrder[b] < DocxOrder[a])
    BY <1>17, <2>2
  <2>4. ~ (a < b) /\ ~ (b < a)
    BY <1>16, <2>1, <2>3
  <2> QED
    BY <2>4
<1> QED
  BY <1>1, <1>14, <1>15, <1>16, <1>17

\* Rows and nothing else become rows.
DocxUnits ==
    /\ Filed(blocks, DocxRead, Accepted, DocxLess)
    /\ \A i \in 1..Len(blocks) : \A u \in blocks[i].units : blocks[i].type = "table_row" <=> IsRow(u)

LEMMA DocxFrom ==
    ASSUME TypeInv, DocxBlank \/ DocxHeading \/ DocxParagraph \/ DocxRow
    PROVE  /\ format = "docx" /\ phase = "parse" /\ phase' = phase /\ UNCHANGED file /\ read' = read + 1
           /\ read \in Nat /\ read + 1 \in 1..Len(source) /\ DocxUnit \in 1..Len(source) /\ Len(source) \in Nat
           /\ \/ HeadedFrom({}) /\ blocks' = blocks /\ DocxUnit \notin Accepted
              \/ SectionFrom({DocxUnit}) /\ ~ IsRow(DocxUnit)
              \/ LeafFrom("paragraph", {DocxUnit}) /\ ~ IsRow(DocxUnit)
              \/ LeafFrom("table_row", {DocxUnit}) /\ IsRow(DocxUnit)
<1>1. FileInv
  BY DEF TypeInv
<1>2. PICK kinds : Reads("docx", kinds, DocxUnit)
  BY DEF DocxBlank, DocxHeading, DocxParagraph, DocxRow, Docx
<1>3. /\ format = "docx" /\ phase = "parse" /\ phase' = phase /\ UNCHANGED file /\ read < Len(source) /\ read \in Nat
      /\ read' = read + 1 /\ read + 1 \in 1..Len(source) /\ format # "code"
  BY <1>1, <1>2, ReadsIs
<1>4. DocxUnit \in 1..Len(source) /\ Len(source) \in Nat
  BY <1>1, <1>3, DocxUnitIs
<1>5. source[DocxUnit].kind = "heading" => source[DocxUnit].level \in 1..6
  BY <1>1, <1>3, <1>4, UnitTyped
<1>6. PICK n \in Nat : n = DocxUnit
  BY <1>4
<1>7. {n} # {} /\ {n} \subseteq Nat /\ Min({n}) = n
  BY LoneUnit
<1>8. CASE DocxBlank
  <2>1. DocxUnit \notin Accepted
    BY <1>3, <1>8, AcceptedAre DEF DocxBlank, Blank
  <2>2. HeadedFrom({}) /\ blocks' = blocks
    BY <1>8 DEF DocxBlank, HeadedFrom, NoneFrom, Skip
  <2> QED
    BY <1>3, <1>4, <2>1, <2>2
<1>9. CASE DocxHeading
  <2>1. AddSection({n}, source[n].level, source[n].text) /\ source[n].kind = "heading"
    BY <1>6, <1>9 DEF DocxHeading, Docx, Reads
  <2>2. SectionFrom({n}) /\ ~ IsRow(n)
    BY <1>5, <1>6, <1>7, <2>1 DEF SectionFrom, IsRow
  <2> QED
    BY <1>3, <1>4, <1>6, <2>2
<1>10. CASE DocxParagraph
  <2>1. AddLeaf("paragraph", "p", "paragraph", source[n].text, {n}) /\ source[n].kind = "paragraph"
    BY <1>6, <1>10 DEF DocxParagraph, Docx, Reads
  <2>2. LeafFrom("paragraph", {n}) /\ ~ IsRow(n)
    BY <1>7, <2>1 DEF LeafFrom, LeafTypes, IsRow
  <2> QED
    BY <1>3, <1>4, <1>6, <2>2
<1>11. CASE DocxRow
  <2>1. AddLeaf("table_row", "row", "row", source[n].text, {n}) /\ source[n].kind = "row"
    BY <1>6, <1>11 DEF DocxRow, Docx, Reads
  <2>2. LeafFrom("table_row", {n}) /\ IsRow(n)
    BY <1>7, <2>1 DEF LeafFrom, LeafTypes, IsRow
  <2> QED
    BY <1>3, <1>4, <1>6, <2>2
<1> QED
  BY <1>8, <1>9, <1>10, <1>11

LEMMA DocxUnitsKept ==
    ASSUME TypeInv, TypeInv', DocxBlank \/ DocxHeading \/ DocxParagraph \/ DocxRow, DocxUnits
    PROVE  DocxUnits'
<1>1. /\ Forest(blocks) /\ Forest(blocks') /\ FileInv /\ format = "docx" /\ source' = source /\ format' = format
      /\ read' = read + 1 /\ read + 1 \in 1..Len(source) /\ DocxUnit \in 1..Len(source)
  BY DocxFrom DEF TypeInv, file
<1>0. PICK n \in Nat : n = read
  BY DocxFrom
<1>2. PICK acc, cs, R, l : acc = Accepted /\ cs = blocks' /\ R = DocxLess /\ l = Len(source)
  OBVIOUS
<1>3. Accepted' = acc /\ DocxLess' = R /\ DocxOrder' = DocxOrder
  <2>1. DocxOrder' = DocxOrder
    BY <1>1 DEF DocxOrder, InOrderOf
  <2>2. Accepted' = acc
    BY <1>1, <1>2 DEF Accepted
  <2>3. DocxLess' = R
    BY <1>1, <1>2, <2>1 DEF DocxLess
  <2> QED
    BY <2>1, <2>2, <2>3
<1>4. PICK u : u = DocxUnit /\ u = DocxOrder[n + 1]
  BY <1>0 DEF DocxUnit
<1>5. /\ l \in Nat /\ n + 1 \in 1..l /\ u \in 1..l
      /\ \A k \in 1..l : DocxOrder[k] \in 1..l
      /\ \A a, b \in 1..l : DocxOrder[a] = DocxOrder[b] => a = b
  BY <1>0, <1>1, <1>2, <1>4, DocxOrderHas
<1>6. PICK done, more : done = DocxRead /\ more = done \cup {u}
  OBVIOUS
<1>7. DocxRead' = more
  <2>1. DocxRead' = {DocxOrder[k] : k \in 1..n + 1}
    BY <1>0, <1>1, <1>3 DEF DocxRead
  <2>2. 1..n + 1 = (1..n) \cup {n + 1}
    OBVIOUS
  <2>3. done = {DocxOrder[k] : k \in 1..n}
    BY <1>0, <1>6 DEF DocxRead
  <2> QED
    BY <1>4, <1>6, <2>1, <2>2, <2>3
<1>8. u \notin done
  <2>1. ASSUME NEW k \in 1..n PROVE DocxOrder[k] # u
    <3>1. k \in 1..l /\ k # n + 1
      BY <1>5
    <3> QED
      BY <1>4, <1>5, <3>1
  <2> QED
    BY <1>0, <1>6, <2>1 DEF DocxRead
<1>9. done \X {u} \subseteq R
  <2>1. ASSUME NEW k \in 1..n PROVE <<DocxOrder[k], u>> \in R
    <3>1. k \in 1..l /\ k < n + 1
      BY <1>5
    <3>2. DocxOrder[k] \in Nat /\ u \in Nat
      BY <1>5, <3>1
    <3>3. PICK p : p = <<DocxOrder[k], u>>
      OBVIOUS
    <3>4. p \in Nat \X Nat
      BY <3>2, <3>3
    <3>5. k < n + 1 /\ p = <<DocxOrder[k], DocxOrder[n + 1]>>
      BY <1>4, <3>1, <3>3
    <3>6. p \in DocxLess
      BY <1>2, <1>5, <3>1, <3>4, <3>5 DEF DocxLess
    <3> QED
      BY <1>2, <3>3, <3>6
  <2>2. \A d \in done : <<d, u>> \in R
    BY <1>0, <1>6, <2>1 DEF DocxRead
  <2> QED
    BY <2>2
<1>10. ASSUME NEW units, HeadedFrom(units), units = {u} \/ (units = {} /\ u \notin acc)
       PROVE  Filed(cs, more, acc, R)
  <2>1. Lands(blocks, cs, units)
    BY <1>1, <1>2, <1>10, HeadedLands
  <2>2. done \cup units \subseteq more /\ units \cap done = {} /\ (more \ done) \cap acc \subseteq units
    BY <1>6, <1>8, <1>10
  <2>3. done \X units \subseteq R
    BY <1>9, <1>10
  <2>4. Filed(blocks, done, acc, R) /\ Forest(cs)
    BY <1>1, <1>2, <1>6 DEF DocxUnits
  <2> QED
    BY <1>1, <2>1, <2>2, <2>3, <2>4, LandsFiled
<1>11. Filed(cs, more, acc, R)
  <2>1. \A units : SectionFrom(units) => HeadedFrom(units)
    BY DEF HeadedFrom
  <2>2. \A units, type : LeafFrom(type, units) => HeadedFrom(units)
    BY DEF HeadedFrom
  <2>3. HeadedFrom({u}) \/ (HeadedFrom({}) /\ u \notin acc)
    BY <1>2, <1>4, <2>1, <2>2, DocxFrom
  <2>4. CASE HeadedFrom({u})
    <3>1. PICK units : units = {u}
      OBVIOUS
    <3> QED
      BY <1>10, <2>4, <3>1
  <2>5. CASE HeadedFrom({}) /\ u \notin acc
    <3>1. PICK units : units = {}
      OBVIOUS
    <3> QED
      BY <1>10, <2>5, <3>1
  <2> QED
    BY <2>3, <2>4, <2>5
<1>12. ASSUME NEW b, Appended(blocks, b, cs), b.units = {u}, b.type = "table_row" <=> IsRow(u)
       PROVE  \A i \in 1..Len(cs) : \A v \in cs[i].units : cs[i].type = "table_row" <=> IsRow(v)
  <2>1. cs[Len(blocks) + 1] = b /\ \A i \in 1..Len(cs) : i \in 1..Len(blocks) \/ i = Len(blocks) + 1
    BY <1>1, <1>12, OneAppended
  <2>2. \A i \in 1..Len(blocks) : cs[i] = blocks[i]
    BY <1>12 DEF Appended
  <2> QED
    BY <1>12, <2>1, <2>2 DEF DocxUnits
<1>13. \A i \in 1..Len(cs) : \A v \in cs[i].units : cs[i].type = "table_row" <=> IsRow(v)
  <2>1. CASE blocks' = blocks
    BY <1>2, <2>1 DEF DocxUnits
  <2>2. CASE SectionFrom({u}) /\ ~ IsRow(u)
    <3>1. PICK b : b.units = {u} /\ SectionAdded(b, source[Min({u})].level)
      BY <1>1, <2>2, SectionIs
    <3>2. Appended(blocks, b, cs) /\ b.type = "section"
      BY <1>2, <3>1 DEF SectionAdded
    <3> QED
      BY <1>12, <2>2, <3>1, <3>2
  <2>3. ASSUME NEW type, LeafFrom(type, {u}), type = "table_row" <=> IsRow(u)
        PROVE  \A i \in 1..Len(cs) : \A v \in cs[i].units : cs[i].type = "table_row" <=> IsRow(v)
    <3>1. PICK b : b.units = {u} /\ LeafAdded(b, type)
      BY <1>1, <2>3, LeafIs
    <3>2. Appended(blocks, b, cs) /\ b.type = type
      BY <1>2, <3>1 DEF LeafAdded
    <3> QED
      BY <1>12, <2>3, <3>1, <3>2
  <2>4. \/ blocks' = blocks
        \/ SectionFrom({u}) /\ ~ IsRow(u)
        \/ LeafFrom("paragraph", {u}) /\ ~ IsRow(u)
        \/ LeafFrom("table_row", {u}) /\ IsRow(u)
    BY <1>4, DocxFrom
  <2> QED
    BY <2>1, <2>2, <2>3, <2>4
<1>14. Filed(blocks', DocxRead', Accepted', DocxLess')
  BY <1>2, <1>3, <1>7, <1>11
<1>15. \A i \in 1..Len(blocks') : \A v \in blocks'[i].units : blocks'[i].type = "table_row" <=> source'[v].kind = "row"
  BY <1>1, <1>2, <1>13 DEF IsRow
<1> QED
  BY <1>14, <1>15 DEF DocxUnits, IsRow

\* What is read in the end.
LEMMA DocxReadAll ==
    ASSUME FileInv, format = "docx", read = Len(source)
    PROVE  Accepted \subseteq DocxRead /\ DocxRead \subseteq Nat
<1>1. PICK n \in Nat : n = Len(source) /\ DOMAIN source = 1..n
  BY SourceIs
<1>2. (\A k \in 1..n : DocxOrder[k] \in 1..n) /\ \A u \in 1..n : \E k \in 1..n : DocxOrder[k] = u
  BY <1>1, DocxOrderHas
<1>3. DocxRead = {DocxOrder[k] : k \in 1..n}
  BY <1>1 DEF DocxRead
<1>4. DocxRead = 1..n
  BY <1>2, <1>3
<1>5. Accepted \subseteq 1..n
  BY <1>1, AcceptedAre
<1> QED
  BY <1>4, <1>5

----------------------------------------------------------------------------
(* HTML: an element find_all yields becomes a block with what is in it, if *)
(* that is not blank.                                                      *)

Spans == [e \in 1..Len(source) |-> e..source[e].last]
Full == {e \in 1..Len(source) : source[e].kind # "other" /\ \E i \in Spans[e] : ~ Blank(i)}

OneToOne(spans, n) == \A d, e \in 1..n : spans[d] = spans[e] => d = e
WebOrder(bs, n, spans) ==
    \A i, j \in 1..Len(bs) : \A d, e \in 1..n :
        i < j /\ bs[i].units = spans[d] /\ bs[j].units = spans[e] => d < e
WebFiled(bs, n, full, spans) ==
    /\ \A k \in 1..Len(bs) : \E e \in 1..n : e \in full /\ bs[k].units = spans[e]
    /\ \A e \in 1..n : e \in full => \E k \in 1..Len(bs) : bs[k].units = spans[e]
    /\ WebOrder(bs, n, spans)
HtmlFiled == WebFiled(blocks, read, Full, Spans)

LEMMA WebGrows ==
    ASSUME NEW bs, Forest(bs), NEW b, NEW cs, Appended(bs, b, cs), NEW n \in Nat, NEW full, NEW spans,
           WebFiled(bs, n, full, spans), OneToOne(spans, n + 1), n + 1 \in full, b.units = spans[n + 1]
    PROVE  WebFiled(cs, n + 1, full, spans)
<1>1. PICK m \in Nat : m = Len(bs) /\ m + 1 = Len(cs) /\ cs[m + 1] = b /\ \A i \in 1..m : cs[i] = bs[i]
  BY ForestTyped DEF Appended
<1>2. /\ \A i \in 1..m + 1 : i = m + 1 \/ i \in 1..m
      /\ \A e \in 1..n + 1 : e = n + 1 \/ e \in 1..n
      /\ m + 1 \in 1..m + 1 /\ n + 1 \in 1..n + 1 /\ (\A e \in 1..n : e \in 1..n + 1 /\ e < n + 1)
      /\ \A i \in 1..m : i \in 1..m + 1 /\ i < m + 1
  OBVIOUS
<1>3. ASSUME NEW k \in 1..m + 1 PROVE \E e \in 1..n + 1 : e \in full /\ cs[k].units = spans[e]
  <2>1. CASE k = m + 1
    BY <1>1, <1>2, <2>1
  <2>2. CASE k \in 1..m
    <3>1. PICK e \in 1..n : e \in full /\ bs[k].units = spans[e]
      BY <1>1, <2>2 DEF WebFiled
    <3> QED
      BY <1>1, <1>2, <2>2, <3>1
  <2> QED
    BY <1>2, <2>1, <2>2
<1>4. ASSUME NEW e \in 1..n + 1, e \in full PROVE \E k \in 1..m + 1 : cs[k].units = spans[e]
  <2>1. CASE e = n + 1
    BY <1>1, <1>2, <2>1
  <2>2. CASE e \in 1..n
    <3>1. PICK k \in 1..m : bs[k].units = spans[e]
      BY <1>1, <1>4, <2>2 DEF WebFiled
    <3> QED
      BY <1>1, <1>2, <3>1
  <2> QED
    BY <1>2, <2>1, <2>2
<1>5. ASSUME NEW i \in 1..m + 1, NEW j \in 1..m + 1, i < j, NEW d \in 1..n + 1, NEW e \in 1..n + 1,
             cs[i].units = spans[d], cs[j].units = spans[e]
      PROVE  d < e
  <2>1. i \in 1..m
    BY <1>5
  <2>2. PICK c \in 1..n : bs[i].units = spans[c]
    BY <1>1, <2>1 DEF WebFiled
  <2>3. d = c
    <3>1. spans[d] = spans[c] /\ c \in 1..n + 1
      BY <1>1, <1>2, <1>5, <2>1, <2>2
    <3> QED
      BY <3>1 DEF OneToOne
  <2>4. CASE j = m + 1
    <3>1. spans[e] = spans[n + 1]
      BY <1>1, <1>5, <2>4
    <3>2. e = n + 1
      BY <1>2, <3>1 DEF OneToOne
    <3> QED
      BY <1>2, <2>3, <3>2
  <2>5. CASE j \in 1..m
    <3>1. PICK a \in 1..n : bs[j].units = spans[a]
      BY <1>1, <2>5 DEF WebFiled
    <3>2. e = a
      <4>1. spans[e] = spans[a] /\ a \in 1..n + 1
        BY <1>1, <1>2, <1>5, <2>5, <3>1
      <4> QED
        BY <4>1 DEF OneToOne
    <3> QED
      BY <1>1, <1>5, <2>1, <2>2, <2>3, <2>5, <3>1, <3>2 DEF WebFiled, WebOrder
  <2> QED
    BY <1>2, <2>4, <2>5
<1>6. WebOrder(cs, n + 1, spans)
  BY <1>1, <1>5 DEF WebOrder
<1> QED
  BY <1>1, <1>3, <1>4, <1>6 DEF WebFiled

LEMMA WebStays ==
    ASSUME NEW bs, Forest(bs), NEW n \in Nat, NEW full, NEW spans, WebFiled(bs, n, full, spans),
           OneToOne(spans, n + 1), n + 1 \notin full
    PROVE  WebFiled(bs, n + 1, full, spans)
<1>1. /\ \A e \in 1..n + 1 : e = n + 1 \/ e \in 1..n
      /\ \A e \in 1..n : e \in 1..n + 1
  OBVIOUS
<1>2. PICK m \in Nat : m = Len(bs)
  BY ForestTyped
<1>3. \A k \in 1..m : \E e \in 1..n + 1 : e \in full /\ bs[k].units = spans[e]
  BY <1>1, <1>2 DEF WebFiled
<1>4. \A e \in 1..n + 1 : e \in full => \E k \in 1..m : bs[k].units = spans[e]
  BY <1>1, <1>2 DEF WebFiled
<1>5. ASSUME NEW i \in 1..m, NEW j \in 1..m, i < j, NEW d \in 1..n + 1, NEW e \in 1..n + 1,
             bs[i].units = spans[d], bs[j].units = spans[e]
      PROVE  d < e
  <2>0. \A k \in 1..m : \E c \in 1..n : bs[k].units = spans[c]
    BY <1>2 DEF WebFiled
  <2>1. PICK c \in 1..n, a \in 1..n : bs[i].units = spans[c] /\ bs[j].units = spans[a]
    BY <2>0
  <2>2. d = c /\ e = a
    BY <1>1, <1>5, <2>1 DEF OneToOne
  <2> QED
    BY <1>2, <1>5, <2>1, <2>2 DEF WebFiled, WebOrder
<1>6. WebOrder(bs, n + 1, spans)
  BY <1>2, <1>5 DEF WebOrder
<1> QED
  BY <1>2, <1>3, <1>4, <1>6 DEF WebFiled

LEMMA HtmlSpans ==
    ASSUME FileInv, format = "html", NEW n, n = Len(source)
    PROVE  /\ n \in Nat /\ DOMAIN source = 1..n
           /\ \A e \in 1..n : /\ source[e].last \in e..n /\ source[e].last \in Nat /\ Spans[e] = e..source[e].last /\ e \in Spans[e]
                              /\ Spans[e] \subseteq 1..n /\ Spans[e] \subseteq Nat /\ Min(Spans[e]) = e
           /\ \A k \in 0..n : OneToOne(Spans, k)
<1>1. n \in Nat /\ source \in HtmlSource /\ source \in Seq(HtmlElement) /\ DOMAIN source = 1..n
  BY SourceIs
<1>2. ASSUME NEW e \in 1..n
      PROVE  /\ source[e].last \in e..n /\ source[e].last \in Nat /\ Spans[e] = e..source[e].last /\ e \in Spans[e]
             /\ Spans[e] \subseteq 1..n /\ Spans[e] \subseteq Nat /\ Min(Spans[e]) = e
  <2>1. PICK l : l = source[e].last
    OBVIOUS
  <2>2. l \in e..n
    BY <1>1, <2>1, ElementAssumption
  <2>3. Spans[e] = e..l
    BY <1>1, <2>1 DEF Spans
  <2>4. e \in e..l /\ e..l \subseteq 1..n /\ l \in Nat /\ e..l \subseteq Nat
    BY <1>1, <2>2
  <2>5. PICK s : s = e..l
    OBVIOUS
  <2>6. Min(s) \in s /\ \A x \in s : Min(s) <= x
    BY <2>4, <2>5, LeastOf
  <2>7. Min(s) = e
    BY <2>4, <2>5, <2>6
  <2> QED
    BY <2>1, <2>2, <2>3, <2>4, <2>5, <2>7
<1>3. ASSUME NEW k \in 0..n PROVE OneToOne(Spans, k)
  <2>1. \A d \in 1..k : d \in 1..n
    BY <1>1
  <2>2. \A d \in 1..k : Min(Spans[d]) = d
    BY <1>2, <2>1
  <2> QED
    BY <2>2 DEF OneToOne
<1> QED
  BY <1>1, <1>2, <1>3

LEMMA HtmlFrom ==
    ASSUME TypeInv, HtmlBlank \/ HtmlOther \/ HtmlHeading \/ HtmlPre \/ HtmlItem \/ HtmlParagraph
    PROVE  /\ format = "html" /\ phase = "parse" /\ phase' = phase /\ UNCHANGED file /\ read' = read + 1
           /\ read \in Nat /\ read + 1 \in 1..Len(source) /\ Len(source) \in Nat
           /\ \/ HeadedFrom({}) /\ blocks' = blocks /\ read + 1 \notin Full
              \/ /\ read + 1 \in Full
                 /\ SectionFrom(Spans[read + 1]) \/ \E type : LeafFrom(type, Spans[read + 1])
<1>1. FileInv
  BY DEF TypeInv
<1>2. PICK kinds : Reads("html", kinds, HtmlUnit)
  BY DEF HtmlBlank, HtmlOther, HtmlHeading, HtmlPre, HtmlItem, HtmlParagraph, Html
<1>3. /\ format = "html" /\ phase = "parse" /\ phase' = phase /\ UNCHANGED file /\ read < Len(source) /\ read \in Nat
      /\ read' = read + 1 /\ read + 1 \in 1..Len(source) /\ format # "code" /\ Len(source) \in Nat
  BY <1>1, <1>2, ReadsIs
<1>4. PICK n, s, l : n = read + 1 /\ s = Spans[n] /\ l = Len(source)
  OBVIOUS
<1>5. n \in 1..l /\ s # {} /\ s \subseteq Nat /\ Min(s) = n /\ s = n..source[n].last
  BY <1>1, <1>3, <1>4, HtmlSpans
<1>6. HtmlUnit = n /\ HtmlElements = s
  BY <1>4, <1>5 DEF HtmlUnit, HtmlElements
<1>7. n \in Full <=> source[n].kind # "other" /\ HtmlUnits # {}
  BY <1>4, <1>5, <1>6 DEF Full, HtmlUnits
<1>8. source[n].kind = "heading" => source[n].level \in 1..6
  BY <1>1, <1>3, <1>4, UnitTyped
<1>9. CASE HtmlBlank
  <2>1. HeadedFrom({}) /\ blocks' = blocks /\ HtmlUnits = {}
    BY <1>9 DEF HtmlBlank, HeadedFrom, NoneFrom, Skip
  <2> QED
    BY <1>3, <1>4, <1>7, <2>1
<1>12. CASE HtmlOther
  <2>1. HeadedFrom({}) /\ blocks' = blocks /\ source[n].kind = "other"
    BY <1>6, <1>12 DEF HtmlOther, HeadedFrom, NoneFrom, Skip, Html, Reads
  <2> QED
    BY <1>3, <1>4, <1>7, <2>1
<1>10. CASE HtmlHeading
  <2>1. AddSection(s, source[n].level, HtmlText) /\ source[n].kind = "heading" /\ HtmlUnits # {}
    BY <1>6, <1>10 DEF HtmlHeading, Html, Reads
  <2>2. SectionFrom(s)
    BY <1>5, <1>8, <2>1 DEF SectionFrom
  <2> QED
    BY <1>3, <1>4, <1>7, <2>1, <2>2
<1>11. CASE HtmlPre \/ HtmlItem \/ HtmlParagraph
  <2>1. HtmlUnits # {} /\ source[n].kind # "other"
    BY <1>6, <1>11 DEF HtmlPre, HtmlItem, HtmlParagraph, Html, Reads
  <2>2. \E type \in LeafTypes : \E name, counter, text : AddLeaf(type, name, counter, text, s)
    BY <1>6, <1>11 DEF HtmlPre, HtmlItem, HtmlParagraph, LeafTypes
  <2>3. \E type : LeafFrom(type, s)
    BY <1>5, <2>2 DEF LeafFrom
  <2> QED
    BY <1>3, <1>4, <1>7, <2>1, <2>3
<1> QED
  BY <1>9, <1>10, <1>11, <1>12

LEMMA HtmlFiledKept ==
    ASSUME TypeInv, HtmlBlank \/ HtmlOther \/ HtmlHeading \/ HtmlPre \/ HtmlItem \/ HtmlParagraph, HtmlFiled
    PROVE  HtmlFiled'
<1>1. /\ Forest(blocks) /\ FileInv /\ format = "html" /\ source' = source /\ read' = read + 1
      /\ read + 1 \in 1..Len(source) /\ Len(source) \in Nat
  BY HtmlFrom DEF TypeInv, file
<1>2. PICK n \in Nat : n = read
  BY HtmlFrom
<1>3. PICK full, spans, cs, l : full = Full /\ spans = Spans /\ cs = blocks' /\ l = Len(source)
  OBVIOUS
<1>4. Full' = full /\ Spans' = spans
  BY <1>1, <1>3 DEF Full, Spans, Blank
<1>5. OneToOne(spans, n + 1)
  <2>1. n + 1 \in 0..l
    BY <1>1, <1>2, <1>3
  <2> QED
    BY <1>1, <1>3, <2>1, HtmlSpans
<1>6. WebFiled(blocks, n, full, spans)
  BY <1>2, <1>3 DEF HtmlFiled
<1>7. WebFiled(cs, n + 1, full, spans)
  <2>1. CASE blocks' = blocks /\ n + 1 \notin full
    BY <1>1, <1>3, <1>5, <1>6, <2>1, WebStays
  <2>2. ASSUME NEW b, Appended(blocks, b, cs), b.units = spans[n + 1], n + 1 \in full
        PROVE  WebFiled(cs, n + 1, full, spans)
    BY <1>1, <1>5, <1>6, <2>2, WebGrows
  <2>3. PICK units : units = spans[n + 1]
    OBVIOUS
  <2>4. CASE n + 1 \in full /\ SectionFrom(units)
    BY <1>1, <1>3, <2>2, <2>3, <2>4, SectionIs DEF SectionAdded
  <2>5. ASSUME n + 1 \in full, NEW type, LeafFrom(type, units) PROVE WebFiled(cs, n + 1, full, spans)
    BY <1>1, <1>3, <2>2, <2>3, <2>5, LeafIs DEF LeafAdded
  <2>6. \/ blocks' = blocks /\ n + 1 \notin full
        \/ n + 1 \in full /\ (SectionFrom(units) \/ \E type : LeafFrom(type, units))
    BY <1>2, <1>3, <2>3, HtmlFrom
  <2> QED
    BY <2>1, <2>4, <2>5, <2>6
<1> QED
  BY <1>1, <1>2, <1>3, <1>4, <1>7 DEF HtmlFiled

\* In the end a unit is in the block of each element around it.
LEMMA HtmlOnce ==
    ASSUME TypeInv, format = "html", read = Len(source), HtmlFiled, NEW u \in Accepted
    PROVE  Cardinality(Holders(u)) = Cardinality(Around(u))
<1>1. Forest(blocks) /\ FileInv /\ DOMAIN blocks = 1..Len(blocks) /\ format # "code"
  BY ForestTyped DEF TypeInv
<1>2. PICK n : n = Len(source)
  OBVIOUS
<1>3. /\ n \in Nat /\ DOMAIN source = 1..n
      /\ \A e \in 1..n : /\ source[e].last \in e..n /\ source[e].last \in Nat /\ Spans[e] = e..source[e].last /\ e \in Spans[e]
                         /\ Spans[e] \subseteq 1..n /\ Spans[e] \subseteq Nat /\ Min(Spans[e]) = e
  BY <1>1, <1>2, HtmlSpans
<1>4. u \in 1..n /\ ~ Blank(u)
  BY <1>1, <1>3, AcceptedAre DEF Blank
<1>5. ASSUME NEW e \in 1..n PROVE e \in Around(u) <=> u \in Spans[e] /\ source[e].kind # "other"
  BY <1>3, <1>4 DEF Around
<1>6. Around(u) \subseteq 1..n
  BY <1>3, <1>4 DEF Around
<1>7. \A e \in Around(u) : e \in Full
  BY <1>2, <1>4, <1>5, <1>6 DEF Full
<1> DEFINE f == [k \in Holders(u) |-> Min(blocks[k].units)]
<1>8. ASSUME NEW k \in Holders(u) PROVE f[k] \in Around(u) /\ blocks[k].units = Spans[f[k]] /\ k \in 1..Len(blocks)
  <2>1. k \in 1..Len(blocks) /\ u \in blocks[k].units
    BY <1>1 DEF Holders
  <2>2. PICK e \in 1..n : e \in Full /\ blocks[k].units = Spans[e]
    BY <1>2, <2>1 DEF HtmlFiled, WebFiled
  <2>3. f[k] = e
    BY <1>3, <2>2
  <2>4. e \in Around(u)
    BY <1>5, <2>1, <2>2 DEF Full
  <2> HIDE DEF f
  <2> QED
    BY <2>1, <2>2, <2>3, <2>4
<1>9. DOMAIN f = Holders(u)
  OBVIOUS
<1>10. f \in [Holders(u) -> Around(u)]
  <2>1. \A k \in Holders(u) : Min(blocks[k].units) \in Around(u)
    BY <1>8
  <2> QED
    BY <2>1
<1> HIDE DEF f
<1>11. ASSUME NEW i \in Holders(u), NEW j \in Holders(u), f[i] = f[j] PROVE i = j
  <2>1. /\ i \in 1..Len(blocks) /\ j \in 1..Len(blocks) /\ f[i] \in 1..n /\ f[j] \in 1..n
        /\ blocks[i].units = Spans[f[i]] /\ blocks[j].units = Spans[f[j]]
    BY <1>6, <1>8
  <2>0. PICK d, e : d = f[i] /\ e = f[j]
    OBVIOUS
  <2>2. \A a, b \in 1..Len(blocks) : a < b /\ blocks[a].units = Spans[d] /\ blocks[b].units = Spans[e] => d < e
    <3>1. d \in 1..read /\ e \in 1..read
      BY <1>2, <2>0, <2>1
    <3> QED
      BY <3>1, Zenon DEF HtmlFiled, WebFiled, WebOrder
  <2>3. ~ (i < j) /\ ~ (j < i)
    BY <1>11, <2>0, <2>1, <2>2
  <2>4. Len(blocks) \in Nat
    BY <1>1, ForestTyped
  <2> QED
    BY <2>1, <2>3, <2>4
<1>12. ASSUME NEW e \in Around(u) PROVE \E k \in Holders(u) : f[k] = e
  <2>1. e \in 1..n /\ e \in Full /\ u \in Spans[e]
    BY <1>5, <1>6, <1>7
  <2>2. PICK k \in 1..Len(blocks) : blocks[k].units = Spans[e]
    BY <1>2, <2>1 DEF HtmlFiled, WebFiled
  <2>3. k \in Holders(u)
    BY <1>1, <2>1, <2>2 DEF Holders
  <2>4. f[k] = e
    BY <1>3, <2>1, <2>2, <2>3 DEF f
  <2> QED
    BY <2>3, <2>4
<1>13. f \in Bijection(Holders(u), Around(u))
  <2>1. f \in Injection(Holders(u), Around(u))
    BY <1>10, <1>11 DEF Injection, IsInjective, Restrict
  <2>2. f \in Surjection(Holders(u), Around(u))
    BY <1>10, <1>12 DEF Surjection
  <2> QED
    BY <2>1, <2>2 DEF Bijection
<1>14. IsFiniteSet(Around(u))
  <2>1. IsFiniteSet(1..n)
    BY <1>3, FS_Interval
  <2> QED
    BY <1>6, <2>1, FS_Subset
<1>15. Holders(u) \subseteq 1..Len(blocks) /\ IsFiniteSet(1..Len(blocks))
  <2>1. Len(blocks) \in Nat
    BY <1>1, ForestTyped
  <2> QED
    BY <1>1, <2>1, FS_Interval DEF Holders
<1>16. IsFiniteSet(Holders(u))
  BY <1>15, FS_Subset
<1> QED
  BY <1>13, <1>14, <1>16, FS_Bijection DEF ExistsBijection

----------------------------------------------------------------------------
(* EveryUnitOnce, but for code.                                            *)

Plain == {"pptx", "records", "pdf"}
UnitsInv ==
    /\ format # "code" /\ phase # "parse" => read = Len(source)
    /\ format = "markdown" => MarkdownUnits
    /\ format = "docx" => DocxUnits
    /\ format = "html" => HtmlFiled
    /\ format \in Plain => Filed(blocks, 1..read, Accepted, Less)

LEMMA UnitsBegin == Init => UnitsInv
<1> SUFFICES ASSUME Init PROVE UnitsInv
  OBVIOUS
<1>1. read = 0 /\ blocks = <<>> /\ Len(blocks) = 0 /\ phase = "parse" /\ code = <<>> /\ 1..0 = {}
  BY DEF Init, BlocksInit, MarkdownInit
<1>2. \A acc, R : Filed(blocks, {}, acc, R)
  BY <1>1 DEF Filed, Once, Ordered
<1>3. MarkdownUnits
  <2>1. ToSet(code) = 0 + 1 .. read /\ 0 \in 0..read
    BY <1>1, EmptyUnits
  <2>2. Filed(blocks, 1..0, Accepted, Less)
    BY <1>1, <1>2
  <2> QED
    BY <1>1, <2>1, <2>2 DEF MarkdownUnits
<1>4. DocxUnits
  <2>1. DocxRead = {}
    BY <1>1 DEF DocxRead
  <2> QED
    BY <1>1, <1>2, <2>1 DEF DocxUnits
<1>5. HtmlFiled
  BY <1>1 DEF HtmlFiled, WebFiled, WebOrder
<1>6. Filed(blocks, 1..read, Accepted, Less)
  BY <1>1, <1>2
<1> QED
  BY <1>1, <1>3, <1>4, <1>5, <1>6 DEF UnitsInv

LEMMA PlainFormats ==
    /\ {"markdown", "docx", "html", "pptx", "records", "pdf", "code"} = {"markdown", "docx", "html", "code"} \cup Plain
    /\ {"markdown", "docx", "html", "code"} \cap Plain = {}
BY DEF Plain

\* A step that adds no block and reads nothing.
LEMMA UnitsStay ==
    ASSUME UnitsInv, UNCHANGED <<file, read, blocks, code>>,
           format # "code" => phase' = phase \/ (format # "markdown" /\ read = Len(source)) \/ (phase # "parse" /\ phase' # "parse")
    PROVE  UnitsInv'
<1>1. format' = format /\ source' = source /\ read' = read /\ blocks' = blocks /\ code' = code
  BY DEF file
<1>2. Accepted' = Accepted
  BY <1>1 DEF Accepted, InSpan, WholeFile
<1>3. DocxOrder' = DocxOrder
  BY <1>1 DEF DocxOrder, InOrderOf
<1>4. DocxRead' = DocxRead /\ DocxLess' = DocxLess
  BY <1>1, <1>3 DEF DocxRead, DocxLess
<1>5. DocxUnits => DocxUnits'
  BY <1>1, <1>2, <1>4 DEF DocxUnits, IsRow
<1>6. HtmlFiled => HtmlFiled'
  BY <1>1 DEF HtmlFiled, Full, Spans, Blank
<1>7. format = "markdown" => MarkdownUnits'
  <2> SUFFICES ASSUME format = "markdown" PROVE MarkdownUnits'
    OBVIOUS
  <2>1. MarkdownUnits /\ (phase' = phase \/ (phase # "parse" /\ phase' # "parse"))
    BY DEF UnitsInv
  <2> QED
    BY <1>1, <1>2, <2>1 DEF MarkdownUnits
<1>8. format \in Plain => Filed(blocks', 1..read', Accepted', Less)
  BY <1>1, <1>2 DEF UnitsInv
<1>9. format' # "code" /\ phase' # "parse" => read' = Len(source')
  BY <1>1 DEF UnitsInv
<1> QED
  BY <1>1, <1>5, <1>6, <1>7, <1>8, <1>9 DEF UnitsInv

LEMMA PlainStep ==
    ASSUME TypeInv, TypeInv', UnitsInv, format \in Plain, Takes \/ TakesNone, UNCHANGED file, phase' = phase, phase = "parse"
    PROVE  UnitsInv'
<1>1. Forest(blocks) /\ Forest(blocks') /\ read \in Nat
  BY DEF TypeInv, FileInv
<1>2. format' = format /\ source' = source
  BY DEF file
<1>3. PICK acc : acc = Accepted
  OBVIOUS
<1>4. Accepted' = acc
  BY <1>2, <1>3 DEF Accepted, InSpan, WholeFile
<1>5. Filed(blocks, 1..read, acc, Less)
  BY <1>3 DEF UnitsInv
<1>6. Filed(blocks', 1..read', acc, Less)
  BY <1>1, <1>3, <1>5, TakesFiled
<1> QED
  BY <1>2, <1>4, <1>6, PlainFormats DEF UnitsInv

LEMMA UnitsKept == TypeInv /\ TypeInv' /\ UnitsInv /\ [Next]_vars => UnitsInv'
<1> SUFFICES ASSUME TypeInv, TypeInv', UnitsInv, [Next]_vars PROVE UnitsInv'
  OBVIOUS
<1>1. FileInv
  BY DEF TypeInv
<1>2. CASE MarkdownStep
  <2>1. format = "markdown" /\ UNCHANGED file
    BY <1>2, MarkdownFrom
  <2>2. MarkdownUnits' /\ (phase' # "parse" => read' = Len(source'))
    BY <1>2, <2>1, MarkdownUnitsKept DEF UnitsInv
  <2> QED
    BY <2>1, <2>2, PlainFormats DEF UnitsInv, file
<1>3. CASE DocxBlank \/ DocxHeading \/ DocxParagraph \/ DocxRow
  <2>1. format = "docx" /\ UNCHANGED file /\ phase = "parse" /\ phase' = phase
    BY <1>3, DocxFrom
  <2>2. DocxUnits'
    BY <1>3, <2>1, DocxUnitsKept DEF UnitsInv
  <2> QED
    BY <2>1, <2>2, PlainFormats DEF UnitsInv, file
<1>4. CASE HtmlBlank \/ HtmlOther \/ HtmlHeading \/ HtmlPre \/ HtmlItem \/ HtmlParagraph
  <2>1. format = "html" /\ UNCHANGED file /\ phase = "parse" /\ phase' = phase
    BY <1>4, HtmlFrom
  <2>2. HtmlFiled'
    BY <1>4, <2>1, HtmlFiledKept DEF UnitsInv
  <2> QED
    BY <2>1, <2>2, PlainFormats DEF UnitsInv, file
<1>5. CASE ReadSlide \/ ReadShape \/ SkipShape \/ BeginTable \/ ReadRow \/ ReadNotes
  <2>1. PICK kinds : Reads("pptx", kinds, PptxUnit)
    BY <1>5 DEF ReadSlide, ReadShape, SkipShape, BeginTable, ReadRow, ReadNotes, Pptx
  <2>2. format = "pptx" /\ UNCHANGED file /\ phase = "parse" /\ phase' = phase
    BY <1>1, <2>1, ReadsIs
  <2> QED
    BY <1>5, <2>2, PptxTakes, PlainStep DEF Plain
<1>6. CASE AddRoot \/ ReadRecord \/ SkipScalar
  <2>1. format = "records" /\ UNCHANGED file /\ phase = "parse" /\ phase' = phase
    BY <1>6 DEF AddRoot, ReadRecord, SkipScalar, Reads
  <2> QED
    BY <1>6, <2>1, RecordsTakes, PlainStep DEF Plain
<1>7. CASE (SkipElement \/ AddTitle \/ AddTable \/ AddChild)
  <2>1. format = "pdf" /\ UNCHANGED file /\ phase = "parse" /\ phase' = phase
    BY <1>7 DEF SkipElement, AddTitle, AddTable, AddChild, ReadsElement
  <2> QED
    BY <1>7, <2>1, PdfTakes, PlainStep DEF Plain
<1>8. CASE OutlineEnd /\ UNCHANGED markdown
  <2>1. format # "markdown" /\ read = Len(source) /\ UNCHANGED <<file, read, blocks, code>>
    BY <1>8 DEF OutlineEnd, Skip, markdown
  <2> QED
    BY <2>1, UnitsStay
<1>9. CASE PdfEnd /\ UNCHANGED markdown
  <2>1. format # "markdown" /\ read = Len(source) /\ UNCHANGED <<file, read, blocks, code>>
    BY <1>9 DEF PdfEnd, Skip, markdown
  <2> QED
    BY <2>1, UnitsStay
<1>10. CASE CodeStep
  <2>1. format = "code" /\ format' = "code"
    BY <1>10 DEF CodeStep, BeginModule, EmitSymbol, EmitContainer, EmitGaps, EmitWindows, CodeEnd, Performs, Parses, file
  <2> QED
    BY <2>1, PlainFormats DEF UnitsInv
<1>11. CASE Chunk
  <2>1. /\ UNCHANGED <<file, read, blocks, code>> /\ phase = "chunk" /\ phase' = "done"
    BY <1>11 DEF Chunk, ChunkDocument, file, markdown
  <2> QED
    BY <2>1, UnitsStay
<1>12. CASE UNCHANGED vars
  <2>1. UNCHANGED <<file, read, blocks, code>> /\ phase' = phase
    BY <1>12 DEF vars, markdown
  <2> QED
    BY <2>1, UnitsStay
<1> QED
  BY <1>2, <1>3, <1>4, <1>5, <1>6, <1>7, <1>8, <1>9, <1>10, <1>11, <1>12 DEF Next, Parse, OutlineStep, PdfStep

\* What a parser other than CodeParser has read.
LEMMA ReadUpTo ==
    ASSUME FileInv, format # "code", read = Len(source)
    PROVE  1..read = DOMAIN source /\ Accepted \subseteq 1..read /\ read \in Nat
<1>1. DOMAIN source = 1..Len(source) /\ Len(source) \in Nat
  BY SourceIs
<1> QED
  BY <1>1, AcceptedAre

LEMMA UnitsFiled ==
    ASSUME TypeInv, UnitsInv, Parsed, format \notin {"code", "html"}
    PROVE  \/ format = "docx" /\ Filed(blocks, DocxRead, Accepted, DocxLess) /\ Accepted \subseteq DocxRead /\ DocxRead \subseteq Nat
           \/ format # "docx" /\ Filed(blocks, 1..read, Accepted, Less) /\ Accepted \subseteq 1..read /\ 1..read \subseteq Nat
<1>1. FileInv /\ read = Len(source) /\ phase # "parse"
  BY DEF TypeInv, UnitsInv, Parsed
<1>2. CASE format = "docx"
  BY <1>1, <1>2, DocxReadAll DEF UnitsInv, DocxUnits
<1>3. CASE format = "markdown"
  BY <1>1, <1>3, ReadUpTo DEF UnitsInv, MarkdownUnits
<1>4. CASE format \in Plain
  BY <1>1, <1>4, ReadUpTo, PlainFormats DEF UnitsInv
<1> QED
  BY <1>1, <1>2, <1>3, <1>4, SourceIs, PlainFormats

\* While the file is read, too.
LEMMA UnitsOrdered ==
    ASSUME TypeInv, UnitsInv, format \notin {"code", "html"}
    PROVE  \E done : /\ done \subseteq Nat
                     /\ Filed(blocks, done, Accepted, IF format = "docx" THEN DocxLess ELSE Less)
<1>1. FileInv /\ read \in Nat
  BY DEF TypeInv, FileInv
<1>2. CASE format = "docx"
  <2>1. PICK n \in Nat : n = Len(source) /\ \A k \in 1..n : DocxOrder[k] \in 1..n
    BY <1>1, <1>2, DocxOrderHas
  <2>2. read <= n
    BY <1>1, <1>2, <2>1 DEF FileInv
  <2>3. \A k \in 1..read : k \in 1..n
    BY <1>1, <2>2
  <2>4. DocxRead \subseteq Nat
    BY <2>1, <2>3 DEF DocxRead
  <2> QED
    BY <1>2, <2>4 DEF UnitsInv, DocxUnits
<1>3. CASE format = "markdown"
  <2>1. MarkdownUnits
    BY <1>3 DEF UnitsInv
  <2>2. \A m : 1..m \subseteq Nat
    OBVIOUS
  <2> QED
    BY <1>3, <2>1, <2>2 DEF MarkdownUnits
<1>4. CASE format \in Plain
  <2>1. 1..read \subseteq Nat /\ format # "docx"
    BY <1>4, PlainFormats
  <2> QED
    BY <1>4, <2>1 DEF UnitsInv
<1> QED
  BY <1>1, <1>2, <1>3, <1>4, SourceIs, PlainFormats

LEMMA EachUnitOnce ==
    ASSUME TypeInv, UnitsInv, Parsed, format # "code", NEW u \in Accepted
    PROVE  IF format = "html" THEN Cardinality(Holders(u)) = Cardinality(Around(u)) ELSE Cardinality(Holders(u)) = 1
<1>1. Forest(blocks) /\ FileInv /\ read = Len(source)
  BY DEF TypeInv, UnitsInv, Parsed
<1>2. CASE format = "html"
  BY <1>1, <1>2, HtmlOnce DEF UnitsInv
<1>3. CASE format # "html"
  <2>1. PICK done, R : Filed(blocks, done, Accepted, R) /\ Accepted \subseteq done
    BY <1>3, UnitsFiled
  <2>2. PICK acc : acc = Accepted
    OBVIOUS
  <2>3. Cardinality({i \in DOMAIN blocks : u \in blocks[i].units}) = 1
    BY <1>1, <2>1, <2>2, FiledOnce
  <2> QED
    BY <1>3, <2>3 DEF Holders
<1> QED
  BY <1>2, <1>3

\* The order of blocks of the formats but code.
LEMMA PlainOrder ==
    ASSUME TypeInv, UnitsInv, format \notin {"code", "html"},
           NEW i \in 1..Len(blocks), NEW j \in 1..Len(blocks), i < j, blocks[i].units # {}, blocks[j].units # {},
           format = "docx" => ((blocks[i].type = "table_row") <=> (blocks[j].type = "table_row"))
    PROVE  Min(blocks[i].units) < Min(blocks[j].units)
<1>1. Forest(blocks) /\ FileInv
  BY DEF TypeInv
<1>2. PICK acc, x, y : acc = Accepted /\ x = Min(blocks[i].units) /\ y = Min(blocks[j].units)
  OBVIOUS
<1>3. CASE format # "docx"
  <2>1. PICK done : Filed(blocks, done, acc, Less) /\ done \subseteq Nat
    BY <1>2, <1>3, UnitsOrdered
  <2>2. <<x, y>> \in Less
    BY <1>1, <1>2, <2>1, FiledInOrder
  <2> QED
    BY <1>2, <2>2 DEF Less
<1>4. CASE format = "docx"
  <2>1. PICK done : Filed(blocks, done, acc, DocxLess) /\ done \subseteq Nat
    BY <1>2, <1>4, UnitsOrdered
  <2>2. <<x, y>> \in DocxLess /\ x \in blocks[i].units /\ y \in blocks[j].units
    BY <1>1, <1>2, <2>1, FiledInOrder
  <2>3. PICK n : n = Len(source)
    OBVIOUS
  <2>4. PICK a \in 1..n, b \in 1..n : a < b /\ x = DocxOrder[a] /\ y = DocxOrder[b]
    BY <2>2, <2>3 DEF DocxLess
  <2>5. IsRow(x) <=> IsRow(y)
    BY <1>4, <2>2 DEF UnitsInv, DocxUnits
  <2>6. DocxOrder[a] < DocxOrder[b]
    BY <1>1, <1>4, <2>3, <2>4, <2>5, DocxOrderHas
  <2> QED
    BY <1>2, <2>4, <2>6
<1> QED
  BY <1>3, <1>4

LEMMA WebsOrder ==
    ASSUME TypeInv, UnitsInv, format = "html",
           NEW i \in 1..Len(blocks), NEW j \in 1..Len(blocks), i < j
    PROVE  Min(blocks[i].units) < Min(blocks[j].units)
<1>1. FileInv /\ HtmlFiled /\ read \in Nat
  BY DEF TypeInv, FileInv, UnitsInv
<1>2. PICK n \in Nat : n = Len(source) /\ read <= n
  BY <1>1, HtmlSpans DEF FileInv
<1>3. PICK d \in 1..read : blocks[i].units = Spans[d]
  BY <1>1 DEF HtmlFiled, WebFiled
<1>4. PICK e \in 1..read : blocks[j].units = Spans[e]
  BY <1>1 DEF HtmlFiled, WebFiled
<1>5. d < e
  BY <1>1, <1>3, <1>4 DEF HtmlFiled, WebFiled, WebOrder
<1>6. Min(Spans[d]) = d /\ Min(Spans[e]) = e
  <2>1. d \in 1..n /\ e \in 1..n
    BY <1>1, <1>2
  <2> QED
    BY <1>1, <1>2, <2>1, HtmlSpans
<1> QED
  BY <1>3, <1>4, <1>5, <1>6

----------------------------------------------------------------------------
(* Where blocks hang that know headings.                                   *)

Rank(bs, src, i) == IF bs[i].type # "section" THEN 7 ELSE src[Min(bs[i].units)].level
Over(bs, src, level, m) == {j \in 1..m : bs[j].type = "section" /\ Rank(bs, src, j) < level}
Last0(over) == IF over = {} THEN 0 ELSE Max(over)
HangsBelow(bs, src, i) == bs[i].parent = Last0(Over(bs, src, Rank(bs, src, i), i - 1))

\* Of the sections of a level or a higher one the last is on the stack, which goes
\* from section to section below it.
OpenSection(bs, src, e) == bs[e.block].type = "section" /\ e.level = Rank(bs, src, e.block)
Below2(d, e) == d.block < e.block /\ d.level < e.level
Covers(e, j, level) == e.block >= j /\ e.level <= level
Outlined(bs, src, open) ==
    /\ \A n \in 1..Len(open) : OpenSection(bs, src, open[n])
    /\ \A m, n \in 1..Len(open) : m < n => Below2(open[m], open[n])
    /\ \A j \in 1..Len(bs) :
           bs[j].type = "section" =>
               Rank(bs, src, j) \in 1..6 /\ \E n \in 1..Len(open) : Covers(open[n], j, Rank(bs, src, j))
    /\ \A i \in 1..Len(bs) : HangsBelow(bs, src, i)

LEMMA TopsOver ==
    ASSUME NEW bs, Forest(bs), NEW src, NEW open, Open(open, bs, 1..6), Outlined(bs, src, open), NEW k \in 1..7,
           NEW m \in 0..Len(open), m # 0 => open[m].level < k, \A n \in m + 1 .. Len(open) : ~ (open[n].level < k)
    PROVE  Last0(Over(bs, src, k, Len(bs))) = IF m = 0 THEN 0 ELSE open[m].block
<1>1. PICK l \in Nat, N \in Nat : l = Len(open) /\ N = Len(bs)
  BY ForestTyped DEF Open
<1>2. \A n \in 1..l : open[n].block \in 1..N /\ open[n].level \in 1..6
  <2> TAKE n \in 1..l
  <2>1. open \in Seq([block : 1..Len(bs), level : 1..6]) /\ n \in 1..Len(open)
    BY <1>1 DEF Open
  <2>2. open[n] \in [block : 1..Len(bs), level : 1..6]
    BY <2>1, Entry
  <2> QED
    BY <1>1, <2>2
<1>3. PICK over : over = Over(bs, src, k, N)
  OBVIOUS
<1>4. ASSUME NEW j \in over PROVE m # 0 /\ j <= open[m].block
  <2>1. j \in 1..N /\ bs[j].type = "section" /\ Rank(bs, src, j) < k
    BY <1>3, <1>4 DEF Over
  <2>2. PICK n \in 1..l : Rank(bs, src, j) \in 1..6 /\ Covers(open[n], j, Rank(bs, src, j))
    BY <1>1, <2>1 DEF Outlined
  <2>3. open[n].block >= j /\ open[n].level < k
    <3>1. PICK x \in 1..6 : x = Rank(bs, src, j)
      BY <2>2
    <3>2. x < k /\ open[n].level <= x /\ open[n].block >= j
      BY <2>1, <2>2, <3>1 DEF Covers
    <3> QED
      BY <1>2, <3>2
  <2>4. n \notin m + 1 .. l
    BY <1>1, <2>3
  <2>5. m # 0 /\ n \in 1..m /\ m \in 1..l
    BY <1>1, <2>4
  <2>6. n = m \/ Below2(open[n], open[m])
    BY <1>1, <2>5 DEF Outlined
  <2>7. open[n].block <= open[m].block
    BY <1>2, <2>5, <2>6 DEF Below2
  <2> QED
    BY <1>2, <2>1, <2>3, <2>5, <2>7
<1>5. CASE m = 0
  <2>1. over = {}
    BY <1>4, <1>5
  <2> QED
    BY <1>1, <1>3, <1>5, <2>1 DEF Last0
<1>6. CASE m # 0
  <2>1. m \in 1..l
    BY <1>1, <1>6
  <2>2. PICK b \in 1..N : b = open[m].block
    BY <1>2, <2>1
  <2>3. OpenSection(bs, src, open[m])
    BY <1>1, <2>1 DEF Outlined
  <2>4. b \in over
    BY <1>3, <1>6, <2>2, <2>3 DEF OpenSection, Over
  <2>5. over \subseteq 1..N /\ over # {} /\ 1 \in Int /\ N \in Int
    BY <1>3, <2>4 DEF Over
  <2>6. Max(over) \in over /\ \A y \in over : Max(over) >= y
    BY <2>5, GreatestIs
  <2>7. PICK g : g = Max(over)
    OBVIOUS
  <2>8. g \in 1..N /\ g <= b /\ g >= b
    BY <1>4, <2>2, <2>4, <2>5, <2>6, <2>7
  <2>9. Max(over) = b
    BY <2>7, <2>8
  <2> QED
    BY <1>1, <1>3, <1>6, <2>2, <2>5, <2>9 DEF Last0
<1> QED
  BY <1>5, <1>6

LEMMA RankStays ==
    ASSUME NEW bs, Forest(bs), NEW b, NEW cs, Appended(bs, b, cs), NEW src
    PROVE  /\ \A j \in 1..Len(bs) : Rank(cs, src, j) = Rank(bs, src, j)
           /\ \A k : \A m \in 0..Len(bs) : Over(cs, src, k, m) = Over(bs, src, k, m)
           /\ \A i \in 1..Len(bs) : HangsBelow(bs, src, i) => HangsBelow(cs, src, i)
<1>1. PICK N \in Nat : N = Len(bs) /\ \A i \in 1..N : cs[i] = bs[i]
  BY ForestTyped DEF Appended
<1>2. \A j \in 1..N : Rank(cs, src, j) = Rank(bs, src, j)
  BY <1>1 DEF Rank
<1>3. ASSUME NEW k, NEW m \in 0..N PROVE Over(cs, src, k, m) = Over(bs, src, k, m)
  <2>1. \A j \in 1..m : j \in 1..N
    OBVIOUS
  <2> QED
    BY <1>1, <1>2, <2>1 DEF Over
<1>4. ASSUME NEW i \in 1..N, HangsBelow(bs, src, i) PROVE HangsBelow(cs, src, i)
  <2>1. i - 1 \in 0..N
    OBVIOUS
  <2> QED
    BY <1>1, <1>2, <1>3, <1>4, <2>1 DEF HangsBelow
<1> QED
  BY <1>1, <1>2, <1>3, <1>4

LEMMA LeafOutlined ==
    ASSUME NEW bs, Forest(bs), NEW b, NEW cs, Appended(bs, b, cs), NEW src, NEW open, Open(open, bs, 1..6),
           Outlined(bs, src, open), b.type # "section", b.parent = Top(open, 0)
    PROVE  Outlined(cs, src, open)
<1>1. PICK l \in Nat, N \in Nat : l = Len(open) /\ N = Len(bs) /\ N + 1 = Len(cs) /\ cs[N + 1] = b /\ \A i \in 1..N : cs[i] = bs[i]
  BY ForestTyped DEF Open, Appended
<1>2. \A n \in 1..l : open[n].block \in 1..N /\ open[n].level \in 1..6
  <2> TAKE n \in 1..l
  <2>1. open \in Seq([block : 1..Len(bs), level : 1..6]) /\ n \in 1..Len(open)
    BY <1>1 DEF Open
  <2>2. open[n] \in [block : 1..Len(bs), level : 1..6]
    BY <2>1, Entry
  <2> QED
    BY <1>1, <2>2
<1>3. \A i \in 1..N + 1 : i = N + 1 \/ i \in 1..N
  OBVIOUS
<1>4. Top(open, 0) = IF l = 0 THEN 0 ELSE open[l].block
  BY <1>1, EmptySeq DEF Top, Last, Open
<1>5. Last0(Over(bs, src, 7, N)) = IF l = 0 THEN 0 ELSE open[l].block
  <2>1. l \in 0..Len(open) /\ 7 \in 1..7 /\ (l # 0 => open[l].level < 7) /\ \A n \in l + 1 .. Len(open) : ~ (open[n].level < 7)
    BY <1>1, <1>2
  <2> QED
    BY <1>1, <2>1, TopsOver
<1>6. HangsBelow(cs, src, N + 1)
  <2>1. Rank(cs, src, N + 1) = 7 /\ N + 1 - 1 = N /\ cs[N + 1].parent = Top(open, 0)
    BY <1>1 DEF Rank
  <2>2. Over(cs, src, 7, N) = Over(bs, src, 7, N)
    BY <1>1, RankStays
  <2> QED
    BY <1>4, <1>5, <2>1, <2>2 DEF HangsBelow
<1>7. \A i \in 1..N + 1 : HangsBelow(cs, src, i)
  BY <1>1, <1>3, <1>6, RankStays DEF Outlined
<1>8. ASSUME NEW n \in 1..l PROVE OpenSection(cs, src, open[n])
  <2>1. PICK e : e = open[n] /\ e.block \in 1..N
    BY <1>2
  <2>2. OpenSection(bs, src, e)
    BY <1>1, <2>1 DEF Outlined
  <2>3. \A j \in 1..N : Rank(cs, src, j) = Rank(bs, src, j) /\ cs[j] = bs[j]
    <3>1. \A j \in 1..Len(bs) : Rank(cs, src, j) = Rank(bs, src, j)
      BY RankStays
    <3> QED
      BY <1>1, <3>1
  <2> QED
    BY <2>1, <2>2, <2>3 DEF OpenSection
<1>9. ASSUME NEW j \in 1..N + 1, cs[j].type = "section"
      PROVE  Rank(cs, src, j) \in 1..6 /\ \E n \in 1..l : Covers(open[n], j, Rank(cs, src, j))
  <2>1. j \in 1..N /\ bs[j].type = "section" /\ Rank(cs, src, j) = Rank(bs, src, j)
    BY <1>1, <1>3, <1>9, RankStays
  <2> QED
    BY <1>1, <2>1 DEF Outlined
<1>10. \A m, n \in 1..l : m < n => Below2(open[m], open[n])
  BY <1>1 DEF Outlined
<1> QED
  BY <1>1, <1>7, <1>8, <1>9, <1>10 DEF Outlined

LEMMA SectionOutlined ==
    ASSUME NEW bs, Forest(bs), NEW b, NEW cs, Appended(bs, b, cs), NEW src, NEW open, Open(open, bs, 1..6),
           Outlined(bs, src, open), NEW level \in 1..6, b.type = "section", level = src[Min(b.units)].level,
           b.parent = Top(Popped(open, level), 0)
    PROVE  Outlined(cs, src, Append(Popped(open, level), [block |-> Len(bs) + 1, level |-> level]))
<1>1. PICK l \in Nat, N \in Nat : l = Len(open) /\ N = Len(bs) /\ N + 1 = Len(cs) /\ cs[N + 1] = b /\ \A i \in 1..N : cs[i] = bs[i]
  <2>1. PICK l \in Nat : l = Len(open)
    BY DEF Open
  <2>2. PICK N \in Nat : N = Len(bs) /\ N + 1 = Len(cs) /\ cs[N + 1] = b /\ \A i \in 1..N : cs[i] = bs[i]
    BY ForestTyped DEF Appended
  <2> QED
    BY <2>1, <2>2
<1>2. PICK S : S = [block : 1..Len(bs), level : 1..6] /\ open \in Seq(S)
  BY DEF Open
<1>3. \A n \in 1..l : open[n].block \in 1..N /\ open[n].level \in 1..6
  <2> TAKE n \in 1..l
  <2>1. open[n] \in S
    BY <1>1, <1>2, Entry
  <2> QED
    BY <1>1, <1>2, <2>1
<1>4. PICK m \in 0..l : Keeps(open, level, m)
  BY <1>1, <1>2, PoppedKeeps
<1>5. PICK s : s = Popped(open, level) /\ s = SubSeq(open, 1, m)
  BY <1>4 DEF Keeps
<1>6. s \in Seq(S) /\ Len(s) = m /\ \A n \in 1..m : s[n] = open[n] /\ n \in 1..l
  <2>1. open \in Seq(S) /\ m \in 0..Len(open)
    BY <1>1, <1>2
  <2>2. /\ SubSeq(open, 1, m) \in Seq(S) /\ Len(SubSeq(open, 1, m)) = m
        /\ \A n \in 1..m : SubSeq(open, 1, m)[n] = open[n] /\ n \in 1..Len(open)
    BY <2>1, PrefixIs
  <2> QED
    BY <1>1, <1>5, <2>2
<1>7. PICK e : e = [block |-> N + 1, level |-> level]
  OBVIOUS
<1>8. e.block = N + 1 /\ e.level = level
  BY <1>7
<1>9. PICK new : new = Append(s, e)
  OBVIOUS
<1>10. Len(new) = m + 1 /\ new[m + 1] = e /\ \A n \in 1..m : new[n] = open[n]
  BY <1>6, <1>9
<1>11. \A n \in 1..m + 1 : n = m + 1 \/ n \in 1..m
  OBVIOUS
<1>12. \A i \in 1..N + 1 : i = N + 1 \/ i \in 1..N
  OBVIOUS
<1>13. Rank(cs, src, N + 1) = level
  BY <1>1 DEF Rank
<1>14. (m # 0 => open[m].level < level) /\ \A n \in m + 1 .. l : ~ (open[n].level < level)
  BY <1>1, <1>4 DEF Keeps
<1>15. HangsBelow(cs, src, N + 1)
  <2>1. Last0(Over(bs, src, level, N)) = IF m = 0 THEN 0 ELSE open[m].block
    <3>1. PICK k : k = level /\ k \in 1..7 /\ m \in 0..Len(open)
      BY <1>1
    <3>2. (m # 0 => open[m].level < k) /\ \A n \in m + 1 .. Len(open) : ~ (open[n].level < k)
      BY <1>1, <1>14, <3>1
    <3>3. Last0(Over(bs, src, k, Len(bs))) = IF m = 0 THEN 0 ELSE open[m].block
      BY <3>1, <3>2, TopsOver, SMTT(60)
    <3> QED
      BY <1>1, <3>1, <3>3
  <2>2. Top(s, 0) = IF m = 0 THEN 0 ELSE open[m].block
    <3>1. m = 0 => s = <<>>
      BY <1>6, EmptySeq
    <3>2. m # 0 => s # <<>> /\ Last(s) = open[m]
      BY <1>6 DEF Last
    <3> QED
      BY <3>1, <3>2 DEF Top
  <2>3. Over(cs, src, level, N) = Over(bs, src, level, N) /\ N + 1 - 1 = N
    BY <1>1, RankStays
  <2> QED
    BY <1>1, <1>5, <1>13, <2>1, <2>2, <2>3 DEF HangsBelow
<1>16. \A i \in 1..N + 1 : HangsBelow(cs, src, i)
  BY <1>1, <1>12, <1>15, RankStays DEF Outlined
<1>17. ASSUME NEW n \in 1..m + 1 PROVE OpenSection(cs, src, new[n])
  <2>1. CASE n = m + 1
    BY <1>1, <1>8, <1>10, <1>13, <2>1 DEF OpenSection
  <2>2. CASE n \in 1..m
    <3>1. PICK d : d = open[n] /\ new[n] = d /\ n \in 1..l /\ d.block \in 1..N
      BY <1>3, <1>6, <1>10, <2>2
    <3>2. OpenSection(bs, src, d)
      BY <1>1, <3>1 DEF Outlined
    <3>3. \A j \in 1..N : Rank(cs, src, j) = Rank(bs, src, j) /\ cs[j] = bs[j]
      BY <1>1, RankStays
    <3> QED
      BY <3>1, <3>2, <3>3 DEF OpenSection
  <2> QED
    BY <1>11, <2>1, <2>2
<1>18. ASSUME NEW a \in 1..m + 1, NEW n \in 1..m + 1, a < n PROVE Below2(new[a], new[n])
  <2>1. a \in 1..m /\ new[a] = open[a] /\ a \in 1..l
    BY <1>6, <1>10, <1>11, <1>18
  <2>2. CASE n \in 1..m
    <3>1. new[n] = open[n] /\ n \in 1..l
      BY <1>6, <1>10, <2>2
    <3> QED
      BY <1>1, <1>18, <2>1, <3>1 DEF Outlined
  <2>3. CASE n = m + 1
    <3>1. m # 0 /\ m \in 1..l /\ (a = m \/ a < m)
      BY <2>1
    <3>2. open[m].level < level
      BY <1>14, <3>1
    <3>3. a = m \/ Below2(open[a], open[m])
      BY <1>1, <2>1, <3>1 DEF Outlined
    <3>4. open[a].level < level
      BY <1>3, <2>1, <3>1, <3>2, <3>3 DEF Below2
    <3>5. open[a].block < N + 1
      BY <1>3, <2>1
    <3> QED
      BY <1>8, <1>10, <2>1, <2>3, <3>4, <3>5 DEF Below2
  <2> QED
    BY <1>11, <2>2, <2>3
<1>19. ASSUME NEW j \in 1..N + 1, cs[j].type = "section"
       PROVE  Rank(cs, src, j) \in 1..6 /\ \E n \in 1..m + 1 : Covers(new[n], j, Rank(cs, src, j))
  <2>0. m + 1 \in 1..m + 1
    OBVIOUS
  <2>1. CASE j = N + 1
    <3>1. Covers(e, j, level)
      BY <1>8, <2>1 DEF Covers
    <3> QED
      BY <1>10, <1>13, <2>0, <2>1, <3>1
  <2>2. CASE j \in 1..N
    <3>0. Rank(cs, src, j) = Rank(bs, src, j)
      BY <1>1, <2>2, RankStays
    <3>1. bs[j].type = "section" /\ Rank(cs, src, j) = Rank(bs, src, j)
      BY <1>1, <1>19, <2>2, <3>0
    <3>2. PICK n \in 1..l : Rank(bs, src, j) \in 1..6 /\ Covers(open[n], j, Rank(bs, src, j))
      BY <1>1, <2>2, <3>1 DEF Outlined
    <3>3. CASE n \in 1..m
      <4>1. n \in 1..m + 1 /\ new[n] = open[n]
        BY <1>10, <3>3
      <4> QED
        BY <3>1, <3>2, <4>1
    <3>4. CASE n \notin 1..m
      <4>1. n \in m + 1 .. l
        BY <3>4
      <4>2. level <= open[n].level
        BY <1>3, <1>14, <4>1
      <4>3. Covers(e, j, Rank(bs, src, j))
        BY <1>3, <1>8, <2>2, <3>2, <4>2 DEF Covers
      <4> QED
        BY <1>10, <2>0, <3>1, <3>2, <4>3
    <3> QED
      BY <3>3, <3>4
  <2> QED
    BY <1>12, <2>1, <2>2
<1>20. Outlined(cs, src, new)
  BY <1>1, <1>10, <1>16, <1>17, <1>18, <1>19 DEF Outlined
<1> QED
  BY <1>1, <1>5, <1>7, <1>9, <1>20

LEMMA HeadedOutlined ==
    ASSUME TypeInv, NEW units, HeadedFrom(units), UNCHANGED file, Outlined(blocks, source, stack)
    PROVE  Outlined(blocks', source', stack')
<1>1. Forest(blocks) /\ Open(stack, blocks, 1..6) /\ source' = source
  BY DEF TypeInv, file
<1>2. CASE NoneFrom(units)
  BY <1>1, <1>2 DEF NoneFrom, Skip
<1>3. CASE SectionFrom(units)
  <2>1. PICK b : b.units = units /\ SectionAdded(b, source[Min(units)].level)
    BY <1>1, <1>3, SectionIs
  <2>2. PICK k \in 1..6 : k = source[Min(units)].level
    BY <1>3 DEF SectionFrom
  <2>3. PICK cs : cs = blocks'
    OBVIOUS
  <2>4. /\ Appended(blocks, b, cs) /\ b.type = "section" /\ b.parent = Top(Popped(stack, k), 0)
        /\ stack' = Append(Popped(stack, k), [block |-> Len(blocks) + 1, level |-> k])
    BY <2>1, <2>2, <2>3 DEF SectionAdded
  <2>5. k = source[Min(b.units)].level
    BY <2>1, <2>2
  <2>6. Outlined(cs, source, Append(Popped(stack, k), [block |-> Len(blocks) + 1, level |-> k]))
    BY <1>1, <2>4, <2>5, SectionOutlined
  <2> QED
    BY <1>1, <2>3, <2>4, <2>6
<1>4. ASSUME NEW type, LeafFrom(type, units) PROVE Outlined(blocks', source', stack')
  <2>1. PICK b : LeafAdded(b, type)
    BY <1>1, <1>4, LeafIs
  <2>2. PICK cs : cs = blocks'
    OBVIOUS
  <2>3. type # "section"
    BY <1>4 DEF LeafFrom, LeafTypes
  <2>4. Appended(blocks, b, cs) /\ b.type # "section" /\ b.parent = Top(stack, 0) /\ stack' = stack
    BY <2>1, <2>2, <2>3 DEF LeafAdded
  <2>5. Outlined(cs, source, stack)
    BY <1>1, <2>4, LeafOutlined
  <2> QED
    BY <1>1, <2>2, <2>4, <2>5
<1> QED
  BY <1>2, <1>3, <1>4 DEF HeadedFrom

LEMMA HeadingsNest ==
    ASSUME TypeInv, format \in Headings, Outlined(blocks, source, stack)
    PROVE  SectionsNest
<1>1. Forest(blocks) /\ format # "pdf"
  BY FormatsApart DEF TypeInv
<1>2. \A j \in 1..Len(blocks) : LevelOf(j) = Rank(blocks, source, j)
  BY <1>1 DEF LevelOf, Rank, UnitOf
<1>3. ASSUME NEW i \in 1..Len(blocks)
      PROVE  LET above == {j \in 1..i - 1 : blocks[j].type = "section" /\ LevelOf(j) < LevelOf(i)}
             IN  IF above # {} THEN blocks[i].parent = Max(above) ELSE blocks[i].parent = 0
  <2>1. PICK above : above = {j \in 1..i - 1 : blocks[j].type = "section" /\ LevelOf(j) < LevelOf(i)}
    OBVIOUS
  <2>2. \A j \in 1..i - 1 : j \in 1..Len(blocks)
    <3>1. PICK n \in Nat : n = Len(blocks)
      BY <1>1, ForestTyped
    <3> QED
      BY <3>1
  <2>3. above = Over(blocks, source, Rank(blocks, source, i), i - 1)
    BY <1>2, <2>1, <2>2 DEF Over
  <2>4. blocks[i].parent = Last0(above)
    BY <2>3 DEF Outlined, HangsBelow
  <2> QED
    BY <2>1, <2>4 DEF Last0
<1>4. DOMAIN blocks = 1..Len(blocks)
  BY <1>1, ForestTyped
<1> QED
  BY <1>1, <1>3, <1>4 DEF SectionsNest

----------------------------------------------------------------------------
(* Where the blocks of a PDF hang: below the last section of their page.   *)

PageAt(bs, src, i) == src[Min(bs[i].units)].page
SectionsOn(bs, src, p, m) == {j \in 1..m : bs[j].type = "section" /\ PageAt(bs, src, j) = p}
IsPage(bs, i, p) == i # 0 /\ bs[i].id = Named("page", p)

\* What is open on a page.
OnlyOpen(open, over) == IF over = {} THEN open = <<>> ELSE Len(open) = 1 /\ open[1].block = Max(over)
OpenOn(ss, p) == IF p \in DOMAIN ss THEN ss[p] ELSE <<>>
LastOn(bs, src, ss) == \A p : OnlyOpen(OpenOn(ss, p), SectionsOn(bs, src, p, Len(bs)))

HangsOn(bs, src, i, p) ==
    LET over == SectionsOn(bs, src, p, i - 1)
    IN  IF over = {} THEN IsPage(bs, bs[i].parent, p) ELSE bs[i].parent = Max(over)
Row(bs, i) == bs[i].parent = i - 1 /\ bs[i - 1].type = "table" /\ i > 1
PdfHangs(bs, src, i) ==
    /\ bs[i].units # {} => bs[i].units \subseteq Nat /\ bs[i].type # "page"
    /\ bs[i].type = "section" => bs[i].units # {} /\ IsPage(bs, bs[i].parent, PageAt(bs, src, i))
    /\ bs[i].type = "table_row" => Row(bs, i)
    /\ bs[i].type \in {"paragraph", "list_item", "figure"} => HangsOn(bs, src, i, PageAt(bs, src, i))
    /\ bs[i].type = "table" => bs[i].units = {} /\ i < Len(bs) /\ HangsOn(bs, src, i, PageAt(bs, src, i + 1))
    /\ bs[i].type \in {"page", "section", "table_row", "paragraph", "list_item", "figure", "table"}
AllHang(bs, src) == \A i \in 1..Len(bs) : PdfHangs(bs, src, i)
PagesNamed(ps, bs) == \A p \in DOMAIN ps : ps[p] \in 1..Len(bs) /\ IsPage(bs, ps[p], p)
PdfNest(bs, src, ps, ss) == LastOn(bs, src, ss) /\ AllHang(bs, src) /\ PagesNamed(ps, bs)

LEMMA PdfSections ==
    ASSUME TypeInv, format = "pdf", PdfNest(blocks, source, pages, sections)
    PROVE  SectionsNest
<1>1. Forest(blocks) /\ DOMAIN blocks = 1..Len(blocks)
  BY ForestTyped DEF TypeInv
<1>2. ASSUME NEW i \in 1..Len(blocks), blocks[i].units # {} \/ blocks[i].type = "table"
      PROVE  LET page == IF blocks[i].type = "table" THEN UnitOf(i + 1).page ELSE UnitOf(i).page
                 above == {j \in 1..i - 1 : blocks[j].type = "section" /\ LevelOf(j) < LevelOf(i) /\ UnitOf(j).page = page}
                 InTable == blocks[i].type = "table_row"
             IN  IF InTable THEN blocks[i].parent = i - 1 /\ blocks[i - 1].type = "table"
                 ELSE IF above # {} THEN blocks[i].parent = Max(above)
                 ELSE blocks[i].parent # 0 /\ blocks[blocks[i].parent].id = Named("page", page)
  <2>1. PICK page : page = IF blocks[i].type = "table" THEN UnitOf(i + 1).page ELSE UnitOf(i).page
    OBVIOUS
  <2>2. PICK above : above = {j \in 1..i - 1 : blocks[j].type = "section" /\ LevelOf(j) < LevelOf(i) /\ UnitOf(j).page = page}
    OBVIOUS
  <2>3. PdfHangs(blocks, source, i)
    BY DEF PdfNest, AllHang
  <2>4. page = IF blocks[i].type = "table" THEN PageAt(blocks, source, i + 1) ELSE PageAt(blocks, source, i)
    BY <2>1 DEF UnitOf, PageAt
  <2>5. \A j : LevelOf(j) = IF blocks[j].type # "section" THEN 7 ELSE 1
    BY DEF LevelOf
  <2>6. CASE blocks[i].type = "table_row"
    BY <2>3, <2>6 DEF PdfHangs, Row
  <2>7. CASE blocks[i].type = "section"
    <3>1. above = {}
      BY <2>2, <2>5, <2>7
    <3>2. IsPage(blocks, blocks[i].parent, page)
      BY <2>3, <2>4, <2>7 DEF PdfHangs
    <3> QED
      BY <2>1, <2>2, <2>7, <3>1, <3>2 DEF IsPage
  <2>8. CASE blocks[i].type \notin {"table_row", "section"}
    <3>1. above = SectionsOn(blocks, source, page, i - 1)
      BY <2>2, <2>5, <2>8 DEF SectionsOn, UnitOf, PageAt
    <3>2. HangsOn(blocks, source, i, page)
      BY <1>2, <2>3, <2>4, <2>8 DEF PdfHangs
    <3> QED
      BY <2>1, <2>2, <2>8, <3>1, <3>2 DEF HangsOn, IsPage
  <2> QED
    BY <2>6, <2>7, <2>8
<1> QED
  BY <1>1, <1>2 DEF SectionsNest

LEMMA SectionsStay ==
    ASSUME NEW bs, Forest(bs), NEW cs, Extends(bs, cs), NEW src
    PROVE  /\ \A i \in 1..Len(bs) : PageAt(cs, src, i) = PageAt(bs, src, i)
           /\ \A p : \A m \in 0..Len(bs) : SectionsOn(cs, src, p, m) = SectionsOn(bs, src, p, m)
<1>1. PICK N \in Nat : N = Len(bs) /\ \A i \in 1..N : cs[i] = bs[i]
  BY ForestTyped DEF Extends
<1>2. \A j \in 1..N : PageAt(cs, src, j) = PageAt(bs, src, j)
  BY <1>1 DEF PageAt
<1>3. ASSUME NEW p, NEW m \in 0..N PROVE SectionsOn(cs, src, p, m) = SectionsOn(bs, src, p, m)
  <2>1. \A j \in 1..m : j \in 1..N
    OBVIOUS
  <2> QED
    BY <1>1, <1>2, <2>1 DEF SectionsOn
<1> QED
  BY <1>1, <1>2, <1>3

LEMMA HangStays ==
    ASSUME NEW bs, Forest(bs), NEW cs, Forest(cs), Extends(bs, cs), NEW src, NEW i \in 1..Len(bs), PdfHangs(bs, src, i)
    PROVE  PdfHangs(cs, src, i)
<1>1. PICK N \in Nat, M \in Nat : N = Len(bs) /\ M = Len(cs) /\ N <= M /\ \A k \in 1..N : cs[k] = bs[k]
  BY ForestTyped DEF Extends
<1>2. PICK b : b = bs[i] /\ b = cs[i] /\ b.parent \in Nat /\ b.parent < i
  BY <1>1, ForestTyped DEF Forest
<1>3. \A p : IsPage(bs, b.parent, p) => IsPage(cs, b.parent, p)
  <2>1. b.parent # 0 => b.parent \in 1..N
    BY <1>1, <1>2
  <2> QED
    BY <1>1, <2>1 DEF IsPage
<1>4. \A p : HangsOn(bs, src, i, p) => HangsOn(cs, src, i, p)
  <2>1. i - 1 \in 0..N
    BY <1>1
  <2>2. \A p : SectionsOn(cs, src, p, i - 1) = SectionsOn(bs, src, p, i - 1)
    BY <1>1, <2>1, SectionsStay
  <2> QED
    BY <1>2, <1>3, <2>2 DEF HangsOn
<1>5. PageAt(cs, src, i) = PageAt(bs, src, i)
  BY SectionsStay
<1>6. Row(bs, i) => Row(cs, i)
  <2>1. i > 1 => i - 1 \in 1..N
    BY <1>1
  <2> QED
    BY <1>1, <1>2, <2>1 DEF Row
<1>7. i < Len(bs) => PageAt(cs, src, i + 1) = PageAt(bs, src, i + 1) /\ i < Len(cs)
  <2>1. i < N => i + 1 \in 1..N /\ i < M
    BY <1>1
  <2> QED
    BY <1>1, <2>1, SectionsStay
<1> QED
  BY <1>2, <1>3, <1>4, <1>5, <1>6, <1>7 DEF PdfHangs

LEMMA LastOnStays ==
    ASSUME NEW bs, Forest(bs), NEW cs, Forest(cs), Extends(bs, cs), NEW src, NEW ss, LastOn(bs, src, ss),
           \A k \in Len(bs) + 1 .. Len(cs) : cs[k].type # "section"
    PROVE  LastOn(cs, src, ss)
<1>1. PICK N \in Nat, M \in Nat : N = Len(bs) /\ M = Len(cs) /\ N <= M /\ \A k \in 1..N : cs[k] = bs[k]
  BY ForestTyped DEF Extends
<1>2. ASSUME NEW p PROVE SectionsOn(cs, src, p, M) = SectionsOn(bs, src, p, N)
  <2>1. \A k \in 1..M : k \in 1..N \/ k \in N + 1 .. M
    OBVIOUS
  <2>2. \A k \in 1..N : k \in 1..M
    BY <1>1
  <2>3. \A j \in 1..N : PageAt(cs, src, j) = PageAt(bs, src, j)
    BY <1>1, SectionsStay
  <2> QED
    BY <1>1, <2>1, <2>2, <2>3 DEF SectionsOn
<1> QED
  BY <1>1, <1>2 DEF LastOn

LEMMA PagesNamedStay ==
    ASSUME NEW bs, Forest(bs), NEW cs, Forest(cs), Extends(bs, cs), NEW ps, PagesNamed(ps, bs)
    PROVE  PagesNamed(ps, cs)
<1>1. PICK N \in Nat, M \in Nat : N = Len(bs) /\ M = Len(cs) /\ N <= M /\ \A k \in 1..N : cs[k] = bs[k]
  BY ForestTyped DEF Extends
<1>2. ASSUME NEW p \in DOMAIN ps PROVE ps[p] \in 1..M /\ IsPage(cs, ps[p], p)
  <2>1. PICK k \in 1..N : k = ps[p] /\ IsPage(bs, k, p)
    BY <1>1 DEF PagesNamed
  <2> QED
    BY <1>1, <2>1 DEF IsPage
<1> QED
  BY <1>1, <1>2 DEF PagesNamed

LEMMA AppendedExtends ==
    ASSUME NEW bs, Forest(bs), NEW b, NEW cs, Appended(bs, b, cs)
    PROVE  Extends(bs, cs) /\ \A k \in Len(bs) + 1 .. Len(cs) : k = Len(bs) + 1 /\ cs[k] = b
<1>1. PICK n \in Nat : n = Len(bs)
  BY ForestTyped
<1>2. Len(cs) = n + 1 /\ cs[n + 1] = b /\ (\A i \in 1..n : cs[i] = bs[i]) /\ \A k \in n + 1 .. n + 1 : k = n + 1
  BY <1>1 DEF Appended
<1> QED
  BY <1>1, <1>2 DEF Extends

\* The page of an element, before its block is added.
LEMMA PageReady ==
    ASSUME TypeInv, PdfNest(blocks, source, pages, sections), Forest(WithPage)
    PROVE  /\ LastOn(WithPage, source, sections) /\ AllHang(WithPage, source)
           /\ PagesNamed(Set(pages, El.page, PageBlock), WithPage) /\ IsPage(WithPage, PageBlock, El.page)
           /\ PageBlock \in 1..Len(WithPage)
<1>1. Forest(blocks)
  BY DEF TypeInv
<1>2. PICK ws, k, p : ws = WithPage /\ k = PageBlock /\ p = El.page
  OBVIOUS
<1>3. /\ LastOn(ws, source, sections) /\ AllHang(ws, source)
      /\ PagesNamed(pages, ws) /\ IsPage(ws, k, p) /\ k \in 1..Len(ws)
  <2>1. CASE p \in DOMAIN pages
    <3>1. ws = blocks /\ k = pages[p]
      BY <1>2, <2>1 DEF WithPage, PageBlock
    <3> QED
      BY <2>1, <3>1 DEF PdfNest, PagesNamed
  <2>2. CASE p \notin DOMAIN pages
    <3>1. PICK b : b = NewBlock("page", Named("page", p), 0, p, NoText, {})
      OBVIOUS
    <3>2. b.type = "page" /\ b.units = {} /\ b.id = Named("page", p)
      BY <3>1 DEF NewBlock
    <3>3. ws = Append(blocks, b) /\ k = Len(ws)
      BY <1>2, <2>2, <3>1 DEF WithPage, PageBlock
    <3>4. Appended(blocks, b, ws) /\ Forest(ws)
      BY <1>1, <1>2, <3>3, AppendIs
    <3>5. Extends(blocks, ws) /\ \A j \in Len(blocks) + 1 .. Len(ws) : j = Len(blocks) + 1 /\ ws[j] = b
      BY <1>1, <3>4, AppendedExtends
    <3>6. LastOn(ws, source, sections)
      BY <1>1, <3>2, <3>4, <3>5, LastOnStays DEF PdfNest
    <3>7. PagesNamed(pages, ws)
      BY <1>1, <3>4, <3>5, PagesNamedStay DEF PdfNest
    <3>8. PICK n \in Nat : n = Len(blocks) /\ Len(ws) = n + 1 /\ ws[n + 1] = b
      BY <1>1, <3>4, ForestTyped DEF Appended
    <3>9. PdfHangs(ws, source, n + 1)
      BY <3>2, <3>8 DEF PdfHangs
    <3>10. \A i \in 1..n : PdfHangs(ws, source, i)
      BY <1>1, <3>4, <3>5, <3>8, HangStays DEF PdfNest, AllHang
    <3>11. \A i \in 1..n + 1 : i = n + 1 \/ i \in 1..n
      OBVIOUS
    <3>12. AllHang(ws, source)
      BY <3>8, <3>9, <3>10, <3>11 DEF AllHang
    <3>13. k = n + 1 /\ k \in 1..n + 1 /\ IsPage(ws, k, p)
      BY <3>2, <3>3, <3>8 DEF IsPage
    <3> QED
      BY <3>6, <3>7, <3>8, <3>12, <3>13
  <2> QED
    BY <2>1, <2>2
<1>4. PagesNamed(Set(pages, p, k), ws)
  BY <1>3 DEF PagesNamed, Set
<1> QED
  BY <1>2, <1>3, <1>4

\* What hangs below the top of a page's stack, or the page.
LEMMA TopOnPage ==
    ASSUME NEW bs, Forest(bs), NEW src, NEW ss, LastOn(bs, src, ss), NEW p, NEW k, k \in 1..Len(bs), IsPage(bs, k, p),
           NEW b, NEW cs, Forest(cs), Extends(bs, cs), Len(bs) < Len(cs), cs[Len(bs) + 1] = b, b.parent = Top(OpenOn(ss, p), k)
    PROVE  HangsOn(cs, src, Len(bs) + 1, p)
<1>1. PICK N \in Nat : N = Len(bs) /\ \A i \in 1..N : cs[i] = bs[i]
  BY ForestTyped DEF Extends
<1>2. PICK open, over : open = OpenOn(ss, p) /\ over = SectionsOn(bs, src, p, N)
  OBVIOUS
<1>3. OnlyOpen(open, over)
  BY <1>1, <1>2 DEF LastOn
<1>4. SectionsOn(cs, src, p, N + 1 - 1) = over
  <2>1. N + 1 - 1 = N /\ N \in 0..Len(bs)
    BY <1>1
  <2> QED
    BY <1>2, <2>1, SectionsStay
<1>5. CASE over = {}
  <2>1. b.parent = k
    BY <1>2, <1>3, <1>5 DEF OnlyOpen, Top
  <2>2. IsPage(cs, k, p)
    BY <1>1 DEF IsPage
  <2> QED
    BY <1>1, <1>4, <1>5, <2>1, <2>2 DEF HangsOn
<1>6. CASE over # {}
  <2>1. Len(open) = 1 /\ open[1].block = Max(over)
    BY <1>3, <1>6 DEF OnlyOpen
  <2>2. open # <<>> /\ Last(open) = open[1]
    <3>1. Len(<<>>) = 0 /\ 0 # 1
      OBVIOUS
    <3>2. open # <<>>
      BY <2>1, <3>1, Zenon
    <3>3. Last(open) = open[1]
      BY <2>1, Zenon DEF Last
    <3> QED
      BY <3>2, <3>3
  <2>3. b.parent = Max(over)
    BY <1>2, <2>1, <2>2 DEF Top
  <2> QED
    BY <1>1, <1>4, <1>6, <2>3 DEF HangsOn
<1> QED
  BY <1>5, <1>6

LEMMA SetOpen ==
    ASSUME NEW ss, NEW p, NEW open
    PROVE  OpenOn(Set(ss, p, open), p) = open /\ \A q : q # p => OpenOn(Set(ss, p, open), q) = OpenOn(ss, q)
BY DEF OpenOn, Set

\* A section is the last of its page.
LEMMA TitleLast ==
    ASSUME NEW bs, Forest(bs), NEW src, NEW ss, LastOn(bs, src, ss), NEW b, NEW cs, Appended(bs, b, cs),
           b.type = "section", NEW p, PageAt(cs, src, Len(bs) + 1) = p,
           NEW open, Len(open) = 1, open[1].block = Len(bs) + 1
    PROVE  LastOn(cs, src, Set(ss, p, open))
<1>1. PICK N \in Nat : N = Len(bs) /\ Len(cs) = N + 1 /\ cs[N + 1] = b /\ \A i \in 1..N : cs[i] = bs[i]
  BY ForestTyped DEF Appended
<1>2. \A j \in 1..N : PageAt(cs, src, j) = PageAt(bs, src, j)
  BY <1>1 DEF PageAt
<1>3. \A j \in 1..N + 1 : j \in 1..N \/ j = N + 1
  OBVIOUS
<1>4. \A j \in 1..N : j \in 1..N + 1 /\ j # N + 1
  BY <1>1
<1>5. PICK new : new = Set(ss, p, open)
  OBVIOUS
<1>6. OnlyOpen(OpenOn(new, p), SectionsOn(cs, src, p, N + 1))
  <2>1. PICK over : over = SectionsOn(cs, src, p, N + 1)
    OBVIOUS
  <2>2. N + 1 \in over /\ over \subseteq 1..N + 1 /\ 1 \in Int /\ N + 1 \in Int
    BY <1>1, <2>1 DEF SectionsOn
  <2>3. Max(over) \in over /\ \A y \in over : Max(over) >= y
    BY <2>2, GreatestIs
  <2>4. Max(over) = N + 1
    <3>1. PICK g : g = Max(over)
      OBVIOUS
    <3>2. g \in 1..N + 1 /\ g >= N + 1
      BY <2>2, <2>3, <3>1
    <3>3. g = N + 1
      BY <3>2
    <3> QED
      BY <3>1, <3>3
  <2>5. OpenOn(new, p) = open
    BY <1>5, SetOpen
  <2> QED
    BY <1>1, <2>1, <2>2, <2>4, <2>5 DEF OnlyOpen
<1>7. ASSUME NEW q, q # p PROVE OnlyOpen(OpenOn(new, q), SectionsOn(cs, src, q, N + 1))
  <2>1. SectionsOn(cs, src, q, N + 1) = SectionsOn(bs, src, q, N)
    BY <1>1, <1>2, <1>3, <1>4, <1>7 DEF SectionsOn
  <2>2. OpenOn(new, q) = OpenOn(ss, q)
    BY <1>5, <1>7, SetOpen
  <2> QED
    BY <1>1, <2>1, <2>2 DEF LastOn
<1> QED
  BY <1>1, <1>5, <1>6, <1>7 DEF LastOn

\* The block of an element, or of a table and its row.
LEMMA OneHangs ==
    ASSUME NEW bs, Forest(bs), NEW src, AllHang(bs, src), NEW b, NEW cs, Forest(cs), Appended(bs, b, cs),
           PdfHangs(cs, src, Len(bs) + 1)
    PROVE  AllHang(cs, src)
<1>1. PICK N \in Nat : N = Len(bs) /\ Len(cs) = N + 1
  BY ForestTyped DEF Appended
<1>2. \A i \in 1..N : PdfHangs(cs, src, i)
  BY <1>1, AppendedExtends, HangStays DEF AllHang
<1>3. \A i \in 1..N + 1 : i \in 1..N \/ i = N + 1
  OBVIOUS
<1> QED
  BY <1>1, <1>2, <1>3 DEF AllHang

LEMMA UnitPage ==
    ASSUME NEW cs, NEW i, NEW u \in Nat, cs[i].units = {u}, NEW src
    PROVE  PageAt(cs, src, i) = src[u].page /\ cs[i].units # {} /\ cs[i].units \subseteq Nat
BY LoneUnit DEF PageAt

LEMMA PoppedAll ==
    ASSUME NEW bs, NEW open, Open(open, bs, {1, 2})
    PROVE  Popped(open, 1) = <<>>
<1>1. PICK m \in 0..Len(open) : Keeps(open, 1, m)
  BY PoppedKeeps DEF Open
<1>2. PICK l \in Nat : l = Len(open)
  BY DEF Open
<1>3. m = 0
  <2> SUFFICES ASSUME m # 0 PROVE FALSE
    OBVIOUS
  <2>1. m \in 1..l /\ open[m].level < 1
    BY <1>1, <1>2 DEF Keeps
  <2>2. open \in Seq([block : 1..Len(bs), level : {1, 2}])
    BY DEF Open
  <2>3. open[m] \in [block : 1..Len(bs), level : {1, 2}]
    BY <1>2, <2>1, <2>2, Entry
  <2>4. open[m].level \in {1, 2}
    BY <2>3
  <2> QED
    BY <2>1, <2>4
<1>4. PICK S : open \in Seq(S)
  BY DEF Open
<1>5. Popped(open, 1) \in Seq(S) /\ Len(Popped(open, 1)) = 0
  BY <1>1, <1>3, <1>4, PrefixIs DEF Keeps
<1> QED
  BY <1>5, EmptySeq

LEMMA OpenSectionsAre ==
    ASSUME NEW p, p = El.page
    PROVE  OpenSections = OpenOn(sections, p)
BY DEF OpenSections, OpenOn

LEMMA PdfNestKept ==
    ASSUME TypeInv, TypeInv', AddTitle \/ AddTable \/ AddChild, PdfNest(blocks, source, pages, sections)
    PROVE  PdfNest(blocks', source', pages', sections')
<1>1. /\ format = "pdf" /\ read \in Nat /\ UNCHANGED file /\ Forest(WithPage) /\ EnsuresPage
      /\ \/ \E b : TitleAdded(b)
         \/ \E b : ChildAdded(b)
         \/ \E b, c, bs : TableAdded(b, c, bs)
  BY PdfAdds
<1>0. PICK u \in Nat : u = read + 1
  BY <1>1
<1>2. PICK ws, cs, k, p : ws = WithPage /\ cs = blocks' /\ k = PageBlock /\ p = El.page /\ u = read + 1
  BY <1>0
<1>3. /\ LastOn(ws, source, sections) /\ AllHang(ws, source) /\ PagesNamed(Set(pages, p, k), ws) /\ IsPage(ws, k, p)
      /\ k \in 1..Len(ws)
  BY <1>1, <1>2, PageReady
<1>4. Forest(ws) /\ Forest(cs) /\ source' = source /\ pages' = Set(pages, p, k) /\ source[u].page = p
  BY <1>1, <1>2 DEF TypeInv, file, EnsuresPage, El
<1>5. OpenSections = OpenOn(sections, p)
  BY <1>2, OpenSectionsAre
<1>6. PICK n \in Nat : n = Len(ws)
  BY <1>4, ForestTyped
<1>7. ASSUME Extends(ws, cs), LastOn(cs, source, sections'), AllHang(cs, source)
      PROVE  PdfNest(blocks', source', pages', sections')
  <2>1. PagesNamed(pages', cs)
    BY <1>3, <1>4, <1>7, PagesNamedStay
  <2> QED
    BY <1>2, <1>4, <1>7, <2>1 DEF PdfNest
<1>8. ASSUME NEW b, TitleAdded(b) PROVE PdfNest(blocks', source', pages', sections')
  <2>1. Appended(ws, b, cs) /\ b.type = "section" /\ b.units = {u}
    BY <1>2, <1>8 DEF TitleAdded
  <2>2. cs[n + 1] = b /\ Extends(ws, cs) /\ Len(cs) = n + 1
    BY <1>4, <1>6, <2>1, AppendedExtends DEF Appended
  <2>3. PageAt(cs, source, n + 1) = p /\ cs[n + 1].units # {} /\ cs[n + 1].units \subseteq Nat
    BY <1>4, <2>1, <2>2, UnitPage
  <2>4. Popped(OpenSections, 1) = <<>>
    <3>1. CASE p \in DOMAIN sections
      <4>1. Open(OpenSections, blocks, {1, 2})
        BY <1>5, <3>1 DEF TypeInv, Stacks, OpenOn
      <4> QED
        BY <4>1, PoppedAll
    <3>2. CASE p \notin DOMAIN sections
      <4>1. OpenSections = <<>> /\ <<>> \in Seq([block : 1..Len(blocks), level : {1, 2}]) /\ Len(<<>>) = 0 /\ 1..0 = {}
        BY <1>5, <3>2 DEF OpenOn
      <4>2. Open(OpenSections, blocks, {1, 2})
        BY <4>1 DEF Open
      <4> QED
        BY <4>2, PoppedAll
    <3> QED
      BY <3>1, <3>2
  <2>5. b.parent = k
    BY <1>2, <1>8, <2>4 DEF TitleAdded, Top
  <2>6. PICK open : open = <<[block |-> n + 1, level |-> 1]>>
    OBVIOUS
  <2>7. sections' = Set(sections, p, open)
    <3>1. \A x : Append(<<>>, x) = <<x>>
      OBVIOUS
    <3>2. sections' = Set(sections, p, Append(<<>>, [block |-> n + 1, level |-> 1]))
      BY <1>2, <1>6, <1>8, <2>4 DEF TitleAdded
    <3> QED
      BY <2>6, <3>1, <3>2
  <2>8. Len(open) = 1 /\ open[1].block = n + 1
    BY <2>6
  <2>9. LastOn(cs, source, sections')
    <3>1. LastOn(cs, source, Set(sections, p, open))
      BY <1>3, <1>4, <1>6, <2>1, <2>3, <2>8, TitleLast
    <3> QED
      BY <2>7, <3>1
  <2>10. IsPage(cs, k, p)
    <3>1. cs[k] = ws[k]
      BY <1>3, <2>2 DEF Extends
    <3> QED
      BY <1>3, <3>1 DEF IsPage
  <2>11. PdfHangs(cs, source, n + 1)
    BY <2>1, <2>2, <2>3, <2>5, <2>10 DEF PdfHangs
  <2>12. AllHang(cs, source)
    BY <1>3, <1>4, <1>6, <2>1, <2>11, OneHangs
  <2> QED
    BY <1>7, <2>2, <2>9, <2>12
<1>9. ASSUME NEW b, ChildAdded(b) PROVE PdfNest(blocks', source', pages', sections')
  <2>1. /\ Appended(ws, b, cs) /\ b.type \in {"paragraph", "list_item", "figure"} /\ b.units = {u}
        /\ b.parent = Top(OpenOn(sections, p), k) /\ sections' = sections
    BY <1>2, <1>5, <1>9 DEF ChildAdded
  <2>2. /\ cs[n + 1] = b /\ Extends(ws, cs) /\ Len(cs) = n + 1 /\ n < n + 1
        /\ \A j \in n + 1 .. Len(cs) : cs[j].type # "section"
    BY <1>4, <1>6, <2>1, AppendedExtends DEF Appended
  <2>3. PageAt(cs, source, n + 1) = p /\ cs[n + 1].units # {} /\ cs[n + 1].units \subseteq Nat
    BY <1>4, <2>1, <2>2, UnitPage
  <2>4. HangsOn(cs, source, n + 1, p)
    BY <1>3, <1>4, <1>6, <2>1, <2>2, TopOnPage
  <2>5. PdfHangs(cs, source, n + 1)
    BY <2>1, <2>2, <2>3, <2>4 DEF PdfHangs
  <2>6. AllHang(cs, source)
    BY <1>3, <1>4, <1>6, <2>1, <2>5, OneHangs
  <2>7. LastOn(cs, source, sections')
    BY <1>3, <1>4, <1>6, <2>1, <2>2, LastOnStays
  <2> QED
    BY <1>7, <2>2, <2>6, <2>7
<1>10. ASSUME NEW b, NEW c, NEW bs, TableAdded(b, c, bs) PROVE PdfNest(blocks', source', pages', sections')
  <2>1. /\ Forest(bs) /\ Appended(ws, b, bs) /\ Appended(bs, c, cs) /\ b.type = "table" /\ b.units = {}
        /\ b.parent = Top(OpenOn(sections, p), k) /\ c.type = "table_row" /\ c.units = {u} /\ c.parent = n + 1
        /\ sections' = sections
    BY <1>2, <1>5, <1>6, <1>10 DEF TableAdded
  <2>2. /\ Len(bs) = n + 1 /\ Len(cs) = n + 2 /\ bs[n + 1] = b /\ cs[n + 2] = c /\ cs[n + 1] = b
        /\ (\A i \in 1..n + 1 : cs[i] = bs[i])
    <3>1. Len(bs) = n + 1 /\ bs[n + 1] = b
      BY <1>6, <2>1 DEF Appended
    <3>2. Len(cs) = n + 1 + 1 /\ cs[n + 1 + 1] = c /\ (\A i \in 1..n + 1 : cs[i] = bs[i])
      BY <2>1, <3>1 DEF Appended
    <3>3. n + 1 + 1 = n + 2 /\ n + 1 \in 1..n + 1
      OBVIOUS
    <3> QED
      BY <3>1, <3>2, <3>3
  <2>3. Extends(ws, cs)
    <3>1. \A i \in 1..n : bs[i] = ws[i] /\ i \in 1..n + 1
      BY <1>6, <2>1 DEF Appended
    <3>2. n <= n + 2
      OBVIOUS
    <3> QED
      BY <1>6, <2>2, <3>1, <3>2 DEF Extends
  <2>4. \A j \in n + 1 .. n + 2 : j = n + 1 \/ j = n + 2
    OBVIOUS
  <2>5. LastOn(cs, source, sections')
    <3>1. \A j \in n + 1 .. n + 2 : cs[j].type # "section"
      BY <2>1, <2>2, <2>4
    <3> QED
      BY <1>3, <1>4, <1>6, <2>1, <2>2, <2>3, <3>1, LastOnStays
  <2>6. PageAt(cs, source, n + 2) = p /\ cs[n + 2].units # {} /\ cs[n + 2].units \subseteq Nat
    BY <1>4, <2>1, <2>2, UnitPage
  <2>7. HangsOn(cs, source, n + 1, p)
    <3>1. Len(ws) < Len(cs)
      BY <1>6, <2>2
    <3> QED
      BY <1>3, <1>4, <1>6, <2>1, <2>2, <2>3, <3>1, TopOnPage
  <2>8. PdfHangs(cs, source, n + 1)
    <3>1. n + 1 + 1 = n + 2 /\ n + 1 < Len(cs)
      BY <2>2
    <3> QED
      BY <2>1, <2>2, <2>6, <2>7, <3>1 DEF PdfHangs
  <2>9. PdfHangs(cs, source, n + 2)
    <3>1. n + 2 - 1 = n + 1 /\ n + 2 > 1
      OBVIOUS
    <3>2. Row(cs, n + 2)
      BY <2>1, <2>2, <3>1 DEF Row
    <3> QED
      BY <2>1, <2>2, <2>6, <3>2 DEF PdfHangs
  <2>10. AllHang(cs, source)
    <3>1. \A i \in 1..n : PdfHangs(cs, source, i)
      BY <1>3, <1>4, <1>6, <2>3, HangStays DEF AllHang
    <3>2. \A i \in 1..n + 2 : i \in 1..n \/ i = n + 1 \/ i = n + 2
      OBVIOUS
    <3> QED
      BY <2>2, <2>8, <2>9, <3>1, <3>2 DEF AllHang
  <2> QED
    BY <1>7, <2>3, <2>5, <2>10
<1> QED
  BY <1>1, <1>8, <1>9, <1>10

NestInv ==
    /\ format \in Headings => Outlined(blocks, source, stack)
    /\ format = "pdf" => PdfNest(blocks, source, pages, sections)

LEMMA NestBegins == Init => NestInv
<1> SUFFICES ASSUME Init PROVE NestInv
  OBVIOUS
<1>1. blocks = <<>> /\ stack = <<>> /\ Len(blocks) = 0 /\ 1..0 = {} /\ DOMAIN pages = {} /\ DOMAIN sections = {}
  BY DEF Init, BlocksInit, PdfInit, Empty
<1>2. Outlined(blocks, source, stack)
  BY <1>1 DEF Outlined
<1>3. LastOn(blocks, source, sections)
  BY <1>1 DEF LastOn, OnlyOpen, OpenOn, SectionsOn
<1>4. PdfNest(blocks, source, pages, sections)
  BY <1>1, <1>3 DEF PdfNest, AllHang, PagesNamed
<1> QED
  BY <1>2, <1>4 DEF NestInv

LEMMA NestKept == TypeInv /\ TypeInv' /\ NestInv /\ [Next]_vars => NestInv'
<1> SUFFICES ASSUME TypeInv, TypeInv', NestInv, [Next]_vars PROVE NestInv'
  OBVIOUS
<1>1. FileInv /\ "pdf" \notin Headings /\ Headings = {"markdown", "docx", "html"}
  BY DEF TypeInv, Headings
<1>2. ASSUME NEW units, HeadedFrom(units), UNCHANGED file, format \in Headings PROVE NestInv'
  <2>1. Outlined(blocks', source', stack')
    BY <1>2, HeadedOutlined DEF NestInv
  <2> QED
    BY <1>1, <1>2, <2>1 DEF NestInv, file
<1>3. ASSUME UNCHANGED <<file, blocks, stack, pages, sections>> PROVE NestInv'
  BY <1>3 DEF NestInv, file
<1>4. CASE MarkdownStep
  <2>1. format = "markdown" /\ UNCHANGED file /\ \E units : HeadedFrom(units)
    BY <1>4, MarkdownFrom
  <2> QED
    BY <1>1, <1>2, <2>1
<1>5. CASE DocxBlank \/ DocxHeading \/ DocxParagraph \/ DocxRow
  <2>1. format = "docx" /\ UNCHANGED file /\ \E units : HeadedFrom(units)
    BY <1>5, DocxFrom DEF HeadedFrom
  <2> QED
    BY <1>1, <1>2, <2>1
<1>6. CASE HtmlBlank \/ HtmlOther \/ HtmlHeading \/ HtmlPre \/ HtmlItem \/ HtmlParagraph
  <2>1. format = "html" /\ UNCHANGED file /\ \E units : HeadedFrom(units)
    BY <1>6, HtmlFrom DEF HeadedFrom
  <2> QED
    BY <1>1, <1>2, <2>1
<1>7. CASE ReadSlide \/ ReadShape \/ SkipShape \/ BeginTable \/ ReadRow \/ ReadNotes \/ AddRoot \/ ReadRecord \/ SkipScalar
  <2>1. format \notin Headings /\ format # "pdf" /\ UNCHANGED file
    BY <1>1, <1>7 DEF ReadSlide, ReadShape, SkipShape, BeginTable, ReadRow, ReadNotes, AddRoot, ReadRecord, SkipScalar, Pptx, Reads
  <2> QED
    BY <2>1 DEF NestInv, file
<1>8. CASE AddTitle \/ AddTable \/ AddChild
  <2>1. format = "pdf" /\ UNCHANGED file
    BY <1>8 DEF AddTitle, AddTable, AddChild, ReadsElement
  <2>2. PdfNest(blocks', source', pages', sections')
    BY <1>8, <2>1, PdfNestKept DEF NestInv
  <2> QED
    BY <1>1, <2>1, <2>2 DEF NestInv, file
<1>9. CASE SkipElement \/ PdfEnd
  BY <1>3, <1>9 DEF SkipElement, PdfEnd, ReadsElement, Skip, pdf
<1>10. CASE OutlineEnd /\ UNCHANGED <<markdown, pdf, todo>>
  BY <1>3, <1>10 DEF OutlineEnd, Skip, pdf
<1>11. CASE CodeStep
  <2>1. format = "code" /\ format' = "code"
    BY <1>11 DEF CodeStep, BeginModule, EmitSymbol, EmitContainer, EmitGaps, EmitWindows, CodeEnd, Performs, Parses, file
  <2> QED
    BY <1>1, <2>1 DEF NestInv
<1>12. CASE Chunk
  BY <1>3, <1>12 DEF Chunk, ChunkDocument, file, pdf
<1>13. CASE UNCHANGED vars
  BY <1>3, <1>13 DEF vars, file, pdf
<1> QED
  BY <1>4, <1>5, <1>6, <1>7, <1>8, <1>9, <1>10, <1>11, <1>12, <1>13 DEF Next, Parse, OutlineStep, PdfStep

LEMMA NestHolds == Spec => [](TypeInv /\ NestInv)
<1>1. Init => TypeInv /\ NestInv
  BY TypeInvBegins, NestBegins
<1>2. TypeInv /\ NestInv /\ [Next]_vars => TypeInv' /\ NestInv'
  BY TypeInvKept, NestKept
<1> QED
  BY <1>1, <1>2, PTL DEF Spec

LEMMA NestSections == TypeInv /\ NestInv => SectionsNest
<1> SUFFICES ASSUME TypeInv, NestInv PROVE SectionsNest
  OBVIOUS
<1>1. CASE format \in Headings
  BY <1>1, HeadingsNest DEF NestInv
<1>2. CASE format = "pdf"
  BY <1>2, PdfSections DEF NestInv
<1>3. CASE format \notin Headings /\ format # "pdf"
  <2>1. HasSections = Headings \cup {"pdf"}
    BY DEF HasSections, Headings
  <2> QED
    BY <1>3, <2>1 DEF SectionsNest
<1> QED
  BY <1>1, <1>2, <1>3

LEMMA UnitsHold == Spec => [](TypeInv /\ UnitsInv)
<1>1. Init => TypeInv /\ UnitsInv
  BY TypeInvBegins, UnitsBegin
<1>2. TypeInv /\ UnitsInv /\ [Next]_vars => TypeInv' /\ UnitsInv'
  BY TypeInvKept, UnitsKept
<1> QED
  BY <1>1, <1>2, PTL DEF Spec

LEMMA PlainOutline ==
    ASSUME TypeInv, UnitsInv, NestInv, format # "code"
    PROVE  OutlineKept
<1>1. DOMAIN blocks = 1..Len(blocks)
  BY ForestTyped DEF TypeInv
<1>2. ASSUME NEW i \in 1..Len(blocks), NEW j \in 1..Len(blocks), i < j, blocks[i].units # {}, blocks[j].units # {},
             format = "docx" => ((blocks[i].type = "table_row") <=> (blocks[j].type = "table_row"))
      PROVE  Min(blocks[i].units) < Min(blocks[j].units)
  BY <1>2, PlainOrder, WebsOrder
<1>3. BlocksInFileOrder
  BY <1>1, <1>2 DEF BlocksInFileOrder
<1>4. SectionsNest
  BY NestSections
<1>5. SymbolsNest
  BY DEF SymbolsNest
<1> QED
  BY <1>3, <1>4, <1>5 DEF OutlineKept

LEMMA PlainOnce ==
    ASSUME TypeInv, UnitsInv, format # "code"
    PROVE  EveryUnitOnce
<1> SUFFICES ASSUME Parsed, NEW u \in Accepted
             PROVE  IF format = "html" THEN Cardinality(Holders(u)) = Cardinality(Around(u)) ELSE Cardinality(Holders(u)) = 1
  BY DEF EveryUnitOnce
<1> QED
  BY EachUnitOnce

----------------------------------------------------------------------------
(* How symbols nest.                                                       *)

\* Spans that nest, each with a beginning of its own.
Nested(syms) ==
    /\ Laminar(syms)
    /\ \A s \in syms : s = <<s[1], s[2]>> /\ s[1] \in Nat \ {0} /\ s[2] \in Nat /\ s[1] <= s[2]

In(s, t) == t[1] < s[1] /\ s[2] <= t[2]

\* o is the innermost symbol around c, or c is in none.
InnermostIn(syms, c, o) ==
    /\ o = Outside \/ (o \in syms /\ In(c, o))
    /\ \A t \in syms : In(c, t) => o # Outside /\ (t = o \/ In(o, t))
Kids(syms, o) == {c \in syms : InnermostIn(syms, c, o)}

LEMMA SpansAre ==
    ASSUME FileInv, format = "code"
    PROVE  Nested(source.symbols)
<1>1. \A s \in source.symbols : s[1] \in Nat \ {0}
  <2> TAKE s \in source.symbols
  <2>1. Len(source.units) \in Nat /\ s[1] \in 1..Len(source.units)
    BY SymbolsAre
  <2>2. PICK n \in Nat : n = Len(source.units)
    BY <2>1
  <2> QED
    BY <2>1, <2>2
<1> QED
  BY <1>1, SymbolsAre DEF Nested

LEMMA OutsideIs == ASSUME NEW syms, Nested(syms) PROVE Outside \notin syms
<1> SUFFICES ASSUME Outside \in syms PROVE FALSE
  OBVIOUS
<1>1. Outside[1] = 0
  BY DEF Outside
<1> QED
  BY <1>1 DEF Nested

\* Of two symbols, one is before the other or around it.
LEMMA TwoSpans ==
    ASSUME NEW syms, Nested(syms), NEW s \in syms, NEW t \in syms, s # t
    PROVE  s[2] < t[1] \/ t[2] < s[1] \/ In(s, t) \/ In(t, s)
BY DEF Nested, Laminar, In

LEMMA InTwice ==
    ASSUME NEW syms, Nested(syms), NEW r \in syms, NEW s \in syms, NEW t \in syms, In(r, s), In(s, t)
    PROVE  In(r, t)
BY DEF Nested, In

LEMMA NotInEachOther ==
    ASSUME NEW syms, Nested(syms), NEW s \in syms, NEW t \in syms, In(s, t)
    PROVE  ~ In(t, s) /\ s # t
BY DEF Nested, In

LEMMA OneOwner ==
    ASSUME NEW syms, Nested(syms), NEW c \in syms, NEW o, NEW p, InnermostIn(syms, c, o), InnermostIn(syms, c, p)
    PROVE  o = p
<1>1. CASE o = Outside
  <2>1. \A t \in syms : ~ In(c, t)
    BY <1>1 DEF InnermostIn
  <2> QED
    BY <1>1, <2>1 DEF InnermostIn
<1>2. CASE p = Outside
  <2>1. \A t \in syms : ~ In(c, t)
    BY <1>2 DEF InnermostIn
  <2> QED
    BY <1>2, <2>1 DEF InnermostIn
<1>3. CASE o # Outside /\ p # Outside
  <2>1. o \in syms /\ In(c, o) /\ p \in syms /\ In(c, p)
    BY <1>3 DEF InnermostIn
  <2>2. (o = p \/ In(p, o)) /\ (p = o \/ In(o, p))
    BY <2>1 DEF InnermostIn
  <2> QED
    BY <2>1, <2>2, NotInEachOther
<1> QED
  BY <1>1, <1>2, <1>3

LEMMA KidsAre ==
    ASSUME NEW syms, Nested(syms), NEW o, NEW c \in Kids(syms, o)
    PROVE  /\ c \in syms /\ InnermostIn(syms, c, o) /\ (o = Outside \/ (o \in syms /\ In(c, o)))
           /\ c[1] \in Nat \ {0} /\ c[2] \in Nat /\ c[1] <= c[2]
BY DEF Kids, InnermostIn, Nested

LEMMA KidsApart ==
    ASSUME NEW syms, Nested(syms), NEW o, NEW c \in Kids(syms, o), NEW d \in Kids(syms, o), c # d
    PROVE  c[2] < d[1] \/ d[2] < c[1]
<1>1. c \in syms /\ InnermostIn(syms, c, o) /\ d \in syms /\ InnermostIn(syms, d, o)
  BY DEF Kids
<1>2. ASSUME NEW x \in syms, NEW y \in syms, InnermostIn(syms, x, o), InnermostIn(syms, y, o), In(x, y) PROVE FALSE
  <2>1. o # Outside /\ (y = o \/ In(o, y))
    BY <1>2 DEF InnermostIn
  <2>2. o \in syms /\ In(y, o)
    BY <1>2, <2>1 DEF InnermostIn
  <2> QED
    BY <2>1, <2>2, NotInEachOther
<1> QED
  BY <1>1, <1>2, TwoSpans

\* What is in a symbol is one of those right below it, or in one.
LEMMA KidAround ==
    ASSUME NEW syms, Nested(syms), NEW t \in syms, NEW o, o = Outside \/ (o \in syms /\ In(t, o))
    PROVE  \E c \in Kids(syms, o) : t = c \/ In(t, c)
<1> DEFINE A == {r \in syms : (t = r \/ In(t, r)) /\ (o = Outside \/ In(r, o))}
           B == {r[1] : r \in A}
<1>1. t \in A
  OBVIOUS
<1>2. A \subseteq syms
  OBVIOUS
<1>3. \A r \in A : (t = r \/ In(t, r)) /\ (o = Outside \/ In(r, o))
  OBVIOUS
<1>4. \A r \in syms : (t = r \/ In(t, r)) /\ (o = Outside \/ In(r, o)) => r \in A
  OBVIOUS
<1> HIDE DEF A
<1>5. B \subseteq Nat /\ B # {} /\ \A r \in A : r[1] \in B
  BY <1>1, <1>2 DEF Nested
<1>6. \A x \in B : \E r \in A : x = r[1]
  OBVIOUS
<1> HIDE DEF B
<1>7. Min(B) \in B /\ \A y \in B : Min(B) <= y
  BY <1>5, LeastIs
<1>8. PICK r \in A : r[1] = Min(B)
  BY <1>6, <1>7
<1>9. r \in syms /\ \A q \in A : r[1] <= q[1]
  BY <1>2, <1>5, <1>7, <1>8
<1>10. ASSUME NEW q \in syms, In(r, q) PROVE o # Outside /\ (q = o \/ In(o, q))
  <2>1. In(t, q)
    BY <1>3, <1>8, <1>9, <1>10, InTwice
  <2>2. q \notin A
    <3>1. q[1] < r[1]
      BY <1>10 DEF In
    <3>2. q[1] \in Nat /\ r[1] \in Nat
      BY <1>9 DEF Nested
    <3> QED
      BY <1>9, <3>1, <3>2
  <2>3. o # Outside /\ ~ In(q, o)
    BY <1>4, <2>1, <2>2
  <2>4. o \in syms /\ In(t, o)
    BY <2>3
  <2>5. q = o \/ q[2] < o[1] \/ o[2] < q[1] \/ In(q, o) \/ In(o, q)
    BY <2>4, TwoSpans
  <2>6. ~ (q[2] < o[1]) /\ ~ (o[2] < q[1])
    BY <2>1, <2>4 DEF In, Nested
  <2> QED
    BY <2>3, <2>5, <2>6
<1>11. o = Outside \/ (o \in syms /\ In(r, o))
  BY <1>3, <1>8
<1>12. r \in Kids(syms, o)
  BY <1>9, <1>10, <1>11 DEF Kids, InnermostIn
<1> QED
  BY <1>3, <1>8, <1>12

----------------------------------------------------------------------------
(* What the stack of _nest_symbols finds.                                  *)

\* Of the first n symbols, those that are still open where the n-th begins, each
\* in the one below it, and those that were placed.
Opened(ordered, open, n) ==
    /\ \A k \in 1..Len(open) : \E i \in 1..n : open[k] = ordered[i]
    /\ \A j, k \in 1..Len(open) : j < k => In(open[k], open[j])
    /\ \A i \in 1..n : (\E k \in 1..Len(open) : open[k] = ordered[i]) \/ ordered[i][2] < ordered[n][1]
PlacedIn(syms, ordered, placed, n) ==
    /\ Len(placed) = n
    /\ \A i \in 1..n : placed[i].symbol = ordered[i] /\ InnermostIn(syms, ordered[i], placed[i].in)

\* Symbols in the order of their beginnings.
ByStart(syms, ordered, N) ==
    /\ N \in Nat /\ \A i \in 1..N : ordered[i] \in syms
    /\ \A s \in syms : \E i \in 1..N : s = ordered[i]
    /\ \A i, j \in 1..N : i < j <=> ordered[i][1] < ordered[j][1]

LEMMA OrderedIs ==
    ASSUME FileInv, format = "code", NEW T, T \subseteq source.symbols
    PROVE  ByStart(T, InOrder(T), Cardinality(T)) /\ Len(InOrder(T)) = Cardinality(T)
<1>1. InOrderBy(InOrder(T), SpanOrder(T), T) /\ Nested(source.symbols)
  BY InOrderIs, SpansAre
<1>0. PICK f : f = InOrder(T)
  OBVIOUS
<1>2. PICK N \in Nat : N = Cardinality(T)
  BY <1>1 DEF InOrderBy
<1>3. /\ Len(f) = N /\ \A i \in 1..N : f[i] \in T
      /\ \A x \in T : \E i \in 1..N : f[i] = x
      /\ \A i, j \in 1..N : i < j <=> <<f[i], f[j]>> \in SpanOrder(T)
      /\ \A i, j \in 1..N : f[i] = f[j] => i = j
  BY <1>0, <1>1, <1>2 DEF InOrderBy
<1>4. \A x, y \in T : <<x, y>> \in SpanOrder(T) <=> SpanBefore(x, y)
  BY DEF SpanOrder
<1>5. \A x \in T : x[1] \in Nat /\ x[2] \in Nat /\ x[1] <= x[2]
  BY <1>1 DEF Nested
<1>6. \A x, y \in T : x # y => x[1] # y[1]
  <2> SUFFICES ASSUME NEW x \in T, NEW y \in T, x # y PROVE x[1] # y[1]
    OBVIOUS
  <2>1. x[2] < y[1] \/ y[2] < x[1] \/ In(x, y) \/ In(y, x)
    BY <1>1, TwoSpans
  <2> QED
    BY <1>5, <2>1 DEF In
<1>7. ASSUME NEW i \in 1..N, NEW j \in 1..N PROVE i < j <=> f[i][1] < f[j][1]
  <2>1. CASE i = j
    BY <1>3, <1>5, <2>1
  <2>2. CASE i # j
    <3>1. f[i] # f[j] /\ f[i] \in T /\ f[j] \in T
      BY <1>3, <2>2
    <3>2. f[i][1] # f[j][1] /\ f[i][1] \in Nat /\ f[j][1] \in Nat
      BY <1>5, <1>6, <3>1
    <3>3. i < j <=> SpanBefore(f[i], f[j])
      BY <1>3, <1>4, <3>1
    <3> QED
      BY <3>2, <3>3 DEF SpanBefore
  <2> QED
    BY <2>1, <2>2
<1> QED
  BY <1>0, <1>2, <1>3, <1>7 DEF ByStart

LEMMA NextPlaced ==
    ASSUME NEW syms, Nested(syms), NEW ordered, NEW N, ByStart(syms, ordered, N), NEW n \in 1..N,
           NEW acc \in Nests(syms), Opened(ordered, acc.open, n - 1), PlacedIn(syms, ordered, acc.placed, n - 1),
           NEW k \in 0..Len(acc.open), NEW open \in Seq(syms), NEW p, p \in Nests(syms),
           PlacesBelow(acc, ordered[n], k, open, p)
    PROVE  Opened(ordered, p.open, n) /\ PlacedIn(syms, ordered, p.placed, n)
<1>1. PICK s \in syms : s = ordered[n]
  BY DEF ByStart
<1>2. PICK old \in Seq(syms) : old = acc.open
  BY DEF Nests
<1>3. PICK m \in Nat : m = Len(old)
  OBVIOUS
<1>4. \A i \in 1..n - 1 : i \in 1..N /\ ordered[i] \in syms /\ ordered[i][1] < s[1] /\ ordered[i] # s
  <2> TAKE i \in 1..n - 1
  <2>1. i \in 1..N /\ i < n /\ N \in Nat
    BY DEF ByStart
  <2>2. ordered[i] \in syms /\ ordered[i][1] < s[1]
    BY <1>1, <2>1 DEF ByStart
  <2>3. s[1] \in Nat
    BY DEF Nested
  <2> QED
    BY <2>1, <2>2, <2>3
<1>5. /\ k \in 0..m /\ (k # 0 => Around2(old[k], s)) /\ \A j \in k + 1..m : ~ Around2(old[j], s)
      /\ Len(open) = k /\ \A j \in 1..k : open[j] = old[j]
      /\ p.open = Append(open, s)
  BY <1>1, <1>2, <1>3 DEF PlacesBelow, KeepsOpen
<1>6. p.placed = Append(acc.placed, [symbol |-> s, in |-> IF k = 0 THEN Outside ELSE old[k]])
  BY <1>1, <1>2 DEF PlacesBelow
<1>7. /\ \A j \in 1..m : \E i \in 1..n - 1 : old[j] = ordered[i]
      /\ \A i, j \in 1..m : i < j => In(old[j], old[i])
      /\ \A i \in 1..n - 1 : (\E j \in 1..m : old[j] = ordered[i]) \/ ordered[i][2] < ordered[n - 1][1]
  BY <1>2, <1>3 DEF Opened
<1>8. \A j \in 1..m : old[j] \in syms /\ old[j][1] < s[1] /\ old[j] # s
  BY <1>4, <1>7
<1>9. \A i \in 1..n - 1 : (\E j \in 1..m : old[j] = ordered[i]) \/ ordered[i][2] < s[1]
  <2> TAKE i \in 1..n - 1
  <2>1. CASE ordered[i][2] < ordered[n - 1][1]
    <3>1. ordered[n - 1][1] < s[1] /\ ordered[i] \in syms /\ ordered[n - 1] \in syms
      BY <1>4
    <3>2. ordered[i][2] \in Nat /\ ordered[n - 1][1] \in Nat /\ s[1] \in Nat
      BY <3>1 DEF Nested
    <3> QED
      BY <2>1, <3>1, <3>2
  <2> QED
    BY <1>7, <2>1
<1>10. k # 0 => k \in 1..m /\ In(s, old[k])
  <2> SUFFICES ASSUME k # 0 PROVE k \in 1..m /\ In(s, old[k])
    OBVIOUS
  <2>1. k \in 1..m
    BY <1>5
  <2> QED
    BY <1>5, <1>8, <2>1 DEF In, Around2
<1>11. PICK o : o = IF k = 0 THEN Outside ELSE old[k]
  OBVIOUS
<1>12. InnermostIn(syms, s, o)
  <2>1. o = Outside \/ (o \in syms /\ In(s, o))
    BY <1>8, <1>10, <1>11
  <2>2. ASSUME NEW t \in syms, In(s, t) PROVE o # Outside /\ (t = o \/ In(o, t))
    <3>1. t[1] < s[1] /\ s[2] <= t[2] /\ s[1] <= s[2] /\ s[1] \in Nat /\ s[2] \in Nat /\ t[1] \in Nat /\ t[2] \in Nat
      BY <2>2 DEF In, Nested
    <3>2. PICK i \in 1..N : t = ordered[i]
      BY DEF ByStart
    <3>3. i \in 1..n - 1
      <4>1. i < n
        BY <1>1, <3>1, <3>2 DEF ByStart
      <4> QED
        BY <4>1
    <3>4. PICK j \in 1..m : old[j] = t
      BY <1>9, <3>1, <3>2, <3>3
    <3>5. j <= k
      <4>1. Around2(old[j], s)
        BY <3>1, <3>4 DEF Around2
      <4> QED
        BY <1>3, <1>5, <4>1
    <3>6. k # 0 /\ o = old[k] /\ k \in 1..m
      BY <1>5, <1>11, <3>5
    <3>7. o # Outside
      BY <1>8, <3>6, OutsideIs
    <3>8. j = k \/ In(old[k], old[j])
      BY <1>3, <1>7, <3>5, <3>6
    <3> QED
      BY <3>4, <3>6, <3>7, <3>8
  <2> QED
    BY <2>1, <2>2 DEF InnermostIn
<1>13. PlacedIn(syms, ordered, p.placed, n)
  <2>1. PICK placed \in Seq(Nodes(syms)) : placed = acc.placed
    BY DEF Nests
  <2>2. /\ Len(placed) = n - 1
        /\ \A i \in 1..n - 1 : placed[i].symbol = ordered[i] /\ InnermostIn(syms, ordered[i], placed[i].in)
    BY <2>1 DEF PlacedIn
  <2>3. PICK node : node = [symbol |-> s, in |-> o]
    OBVIOUS
  <2>4. node.symbol = s /\ node.in = o
    BY <2>3
  <2>5. PICK new : new = Append(placed, node)
    OBVIOUS
  <2>6. p.placed = new
    BY <1>6, <1>11, <2>1, <2>3, <2>5
  <2>7. n - 1 \in Nat /\ n \in Nat
    BY DEF ByStart
  <2>8. Len(new) = n /\ new[n] = node /\ \A i \in 1..n - 1 : new[i] = placed[i]
    BY <2>1, <2>2, <2>5, <2>7
  <2>9. \A i \in 1..n : i = n \/ i \in 1..n - 1
    BY <2>7
  <2>10. ASSUME NEW i \in 1..n PROVE new[i].symbol = ordered[i] /\ InnermostIn(syms, ordered[i], new[i].in)
    <3>1. CASE i = n
      BY <1>1, <1>12, <2>4, <2>8, <3>1
    <3>2. CASE i \in 1..n - 1
      BY <2>2, <2>8, <3>2
    <3> QED
      BY <2>9, <3>1, <3>2
  <2> QED
    BY <2>6, <2>8, <2>10 DEF PlacedIn
<1>14. Opened(ordered, p.open, n)
  <2>1. PICK new : new = Append(open, s)
    OBVIOUS
  <2>2. k \in Nat /\ n \in Nat /\ n - 1 \in Nat
    BY <1>5 DEF ByStart
  <2>3. Len(new) = k + 1 /\ new[k + 1] = s /\ \A j \in 1..k : new[j] = old[j] /\ j \in 1..m
    BY <1>5, <2>1, <2>2
  <2>4. \A j \in 1..k + 1 : j = k + 1 \/ j \in 1..k
    BY <2>2
  <2>5. \A j \in 1..k + 1 : \E i \in 1..n : new[j] = ordered[i]
    <3> TAKE j \in 1..k + 1
    <3>1. CASE j = k + 1
      <4>1. n \in 1..n
        BY <2>2
      <4> QED
        BY <1>1, <2>3, <3>1, <4>1
    <3>2. CASE j \in 1..k
      <4>1. PICK i \in 1..n - 1 : old[j] = ordered[i]
        BY <1>7, <2>3, <3>2
      <4>2. i \in 1..n
        BY <2>2
      <4> QED
        BY <2>3, <3>2, <4>1, <4>2
    <3> QED
      BY <2>4, <3>1, <3>2
  <2>6. ASSUME NEW i \in 1..k + 1, NEW j \in 1..k + 1, i < j PROVE In(new[j], new[i])
    <3>1. i \in 1..k
      BY <2>2, <2>6
    <3>2. CASE j = k + 1
      <4>1. k # 0 /\ In(s, old[k]) /\ k \in 1..m
        BY <1>10, <3>1
      <4>2. i = k \/ In(old[k], old[i])
        BY <1>7, <2>2, <2>3, <3>1, <4>1
      <4>3. old[i] \in syms /\ old[k] \in syms
        BY <1>8, <2>3, <3>1, <4>1
      <4> QED
        BY <2>3, <3>1, <3>2, <4>1, <4>2, <4>3, InTwice
    <3>3. CASE j \in 1..k
      BY <1>7, <2>3, <2>6, <3>1, <3>3
    <3> QED
      BY <2>4, <3>2, <3>3
  <2>7. ASSUME NEW i \in 1..n PROVE (\E j \in 1..k + 1 : new[j] = ordered[i]) \/ ordered[i][2] < s[1]
    <3>1. CASE i = n
      <4>1. k + 1 \in 1..k + 1
        BY <2>2
      <4> QED
        BY <1>1, <2>3, <3>1, <4>1
    <3>2. CASE i # n
      <4>1. i \in 1..n - 1
        BY <2>2, <3>2
      <4>2. CASE \E j \in 1..m : old[j] = ordered[i]
        <5>1. PICK j \in 1..m : old[j] = ordered[i]
          BY <4>2
        <5>2. CASE j <= k
          <6>1. j \in 1..k /\ j \in 1..k + 1
            BY <2>2, <5>2
          <6> QED
            BY <2>3, <5>1, <6>1
        <5>3. CASE ~ (j <= k)
          <6>1. j \in k + 1..m
            BY <1>3, <2>2, <5>3
          <6>2. ~ Around2(old[j], s) /\ old[j] \in syms /\ old[j][1] < s[1] /\ old[j] # s
            BY <1>5, <1>8, <6>1
          <6>3. ~ In(s, old[j])
            BY <6>2 DEF In, Around2, Nested
          <6>4. old[j][2] < s[1] \/ s[2] < old[j][1] \/ In(old[j], s)
            BY <6>2, <6>3, TwoSpans
          <6>5. old[j][2] < s[1]
            BY <6>2, <6>4 DEF In, Nested
          <6> QED
            BY <5>1, <6>5
        <5> QED
          BY <5>2, <5>3
      <4> QED
        BY <1>9, <4>1, <4>2
    <3> QED
      BY <3>1, <3>2
  <2>8. p.open = new
    BY <1>5, <2>1
  <2> QED
    BY <1>1, <2>3, <2>5, <2>6, <2>7, <2>8 DEF Opened
<1> QED
  BY <1>13, <1>14

\* The symbols that _nest_symbols puts right below one are those whose innermost
\* symbol it is.
LEMMA ChildSymbolsAre ==
    ASSUME FileInv, format = "code", NEW s
    PROVE  ChildSymbols(s) = Kids(source.symbols, s)
<1>1. PICK syms, ordered : syms = source.symbols /\ ordered = InOrder(syms)
  OBVIOUS
<1>2. PICK N \in Nat : N = Cardinality(syms)
  BY <1>1, SymbolsAre
<1>3. Nested(syms) /\ ByStart(syms, ordered, N)
  <2>1. syms \subseteq source.symbols
    BY <1>1
  <2> QED
    BY <1>1, <1>2, <2>1, SpansAre, OrderedIs
<1>4. PICK after : after = NestingAfter
  OBVIOUS
<1>5. /\ after \in [0..N -> Nests(syms)] /\ after[0] = [open |-> <<>>, placed |-> <<>>]
      /\ \A n \in 1..N : after[n] = Placed(after[n - 1], ordered[n])
  BY <1>1, <1>2, <1>4, NestingStep
<1> DEFINE Good == {n \in 0..N : Opened(ordered, after[n].open, n) /\ PlacedIn(syms, ordered, after[n].placed, n)}
<1>6. 0 \in Good
  <2>1. after[0].open = <<>> /\ after[0].placed = <<>>
    BY <1>5
  <2>2. Opened(ordered, <<>>, 0) /\ PlacedIn(syms, ordered, <<>>, 0)
    BY DEF Opened, PlacedIn
  <2> QED
    BY <2>1, <2>2
<1>7. \A n \in 1..N : n - 1 \in Good => n \in Good
  <2> TAKE n \in 1..N
  <2> HAVE n - 1 \in Good
  <2>1. PICK acc \in Nests(syms) : acc = after[n - 1]
    BY <1>5
  <2>2. Opened(ordered, acc.open, n - 1) /\ PlacedIn(syms, ordered, acc.placed, n - 1)
    BY <2>1
  <2>3. PICK p : p = Placed(acc, ordered[n]) /\ p = after[n]
    BY <1>5, <2>1
  <2>4. ordered[n] \in syms
    BY <1>3 DEF ByStart
  <2>5. PICK k \in 0..Len(acc.open) : \E open \in Seq(syms) : PlacesBelow(acc, ordered[n], k, open, p)
    BY <2>3, <2>4, PlacedIs
  <2>6. PICK open \in Seq(syms) : PlacesBelow(acc, ordered[n], k, open, p)
    BY <2>5
  <2>7. p \in Nests(syms)
    BY <2>3, <2>4, PlacedIs
  <2>8. Opened(ordered, p.open, n) /\ PlacedIn(syms, ordered, p.placed, n)
    BY <1>3, <2>2, <2>6, <2>7, NextPlaced
  <2> QED
    BY <2>3, <2>8
<1>8. 0..N \subseteq Good
  <2> HIDE DEF Good
  <2> QED
    BY <1>6, <1>7, UpToInduct
<1>9. PICK placed : placed = Nesting
  OBVIOUS
<1>10. placed = after[N].placed /\ N \in Good
  BY <1>1, <1>2, <1>4, <1>8, <1>9 DEF Nesting
<1>11. PlacedIn(syms, ordered, placed, N)
  BY <1>10
<1>12. placed \in Seq(Nodes(syms))
  BY <1>5, <1>10 DEF Nests
<1>13. ChildSymbols(s) = {n.symbol : n \in {n \in ToSet(placed) : n.in = s}}
  BY <1>9 DEF ChildSymbols
<1>14. ToSet(placed) = {placed[i] : i \in 1..N}
  <2>1. DOMAIN placed = 1..N
    BY <1>11, <1>12 DEF PlacedIn
  <2> QED
    BY <2>1 DEF ToSet
<1> HIDE DEF Good
<1>15. ASSUME NEW c \in ChildSymbols(s) PROVE c \in Kids(syms, s)
  <2>1. PICK i \in 1..N : c = placed[i].symbol /\ placed[i].in = s
    BY <1>13, <1>14
  <2> QED
    BY <1>3, <1>11, <2>1 DEF PlacedIn, Kids, ByStart
<1>16. ASSUME NEW c \in Kids(syms, s) PROVE c \in ChildSymbols(s)
  <2>1. c \in syms /\ InnermostIn(syms, c, s)
    BY DEF Kids
  <2>2. PICK i \in 1..N : c = ordered[i]
    BY <1>3, <2>1 DEF ByStart
  <2>3. placed[i].symbol = c /\ InnermostIn(syms, c, placed[i].in)
    BY <1>11, <2>2 DEF PlacedIn
  <2>4. placed[i].in = s
    BY <1>3, <2>1, <2>3, OneOwner
  <2> QED
    BY <1>13, <1>14, <2>3, <2>4
<1> QED
  BY <1>1, <1>15, <1>16

----------------------------------------------------------------------------
(* Where the blocks of a file of code stand.                               *)

Words(src, a, b) == {p \in a..b : src.units[p] = "word"}
BreaksIn(src, s) == {p \in s[1]..s[2] : src.units[p] = "line end"}
HeadEnd(src, s) == IF BreaksIn(src, s) = {} THEN s[2] ELSE Min(BreaksIn(src, s)) - 1

\* A symbol's own text, and where what is between the symbols in it stands.
UnitsFor(src, s) ==
    IF Kids(src.symbols, s) = {} THEN Words(src, s[1], s[2]) ELSE Words(src, s[1], HeadEnd(src, s))
Area(src, o) == IF o = Outside THEN <<1, Len(src.units)>> ELSE <<HeadEnd(src, o) + 1, o[2]>>
Free(src, o) == BareIn(Area(src, o), Kids(src.symbols, o))

\* Block b is that of symbol s, block p is that which what is right below o hangs below.
SymAt(src, b, s) ==
    /\ s \in src.symbols /\ b.units = UnitsFor(src, s)
    /\ b.type = IF Kids(src.symbols, s) = {} THEN "code_symbol" ELSE "code_container"
OwnerAt(src, bs, p, o) ==
    IF o = Outside THEN p = 1
    ELSE p \in 2..Len(bs) /\ SymAt(src, bs[p], o) /\ Kids(src.symbols, o) # {}

Standing(src, b, o) ==
    \/ b.type # "code_block" /\ \E s \in Kids(src.symbols, o) : SymAt(src, b, s)
    \/ b.type = "code_block" /\ b.units \subseteq Free(src, o)
Stands(src, bs, b) == \E o : OwnerAt(src, bs, b.parent, o) /\ Standing(src, b, o)
Sites(src, bs) ==
    /\ bs # <<>> /\ bs[1].units = {} /\ bs[1].parent = 0 /\ bs[1].type = "module"
    /\ \A i \in 2..Len(bs) : Stands(src, bs, bs[i])

Precedes(U, V) == \A x \in U, y \in V : x < y

\* What hangs below the same block follows each other as in the file.
Siblings(b, c) == b.parent = c.parent /\ ((b.type = "code_block") <=> (c.type = "code_block"))
InRow(bs) == \A i, j \in 2..Len(bs) : i < j /\ Siblings(bs[i], bs[j]) => Precedes(bs[i].units, bs[j].units)

\* A task is about what is right below some symbol, or below none.
Asks(src, t, o) ==
    \/ t.task = "symbol" /\ t.span \in Kids(src.symbols, o)
    \/ t.task = "gaps" /\ t.span = Area(src, o) /\ t.covered = Kids(src.symbols, o)
Asked(src, bs, t) == \E o : OwnerAt(src, bs, t.parent, o) /\ Asks(src, t, o)
BothSymbols(s, t) == s.task = "symbol" /\ t.task = "symbol" /\ s.parent = t.parent
After(b, t) == b.type # "code_block" /\ t.task = "symbol" /\ b.parent = t.parent => Precedes(b.units, {t.span[1]})
Work(src, bs, tasks) ==
    /\ \A n \in 1..Len(tasks) : Asked(src, bs, tasks[n])
    /\ \A m, n \in 1..Len(tasks) : m < n /\ BothSymbols(tasks[m], tasks[n]) => tasks[m].span[2] < tasks[n].span[1]
    /\ \A i \in 2..Len(bs), n \in 1..Len(tasks) : After(bs[i], tasks[n])

\* Each word is in a block or in what is left to emit.
Reach(t) == IF t.task = "symbol" THEN t.span[1]..t.span[2] ELSE BareIn(t.span, t.covered)
Held(bs, u) == \E i \in 1..Len(bs) : u \in bs[i].units
Reached(tasks, u) == \E n \in 1..Len(tasks) : u \in Reach(tasks[n])
AllWords(src) == Words(src, 1, Len(src.units))
Covered(src, bs, tasks) == \A u \in AllWords(src) : Held(bs, u) \/ Reached(tasks, u)

LEMMA OwnerStays ==
    ASSUME NEW src, NEW bs, Forest(bs), NEW cs, Forest(cs), Extends(bs, cs), NEW p, NEW o, OwnerAt(src, bs, p, o)
    PROVE  OwnerAt(src, cs, p, o)
<1>1. PICK m \in Nat, n \in Nat : m = Len(bs) /\ n = Len(cs) /\ m <= n /\ \A i \in 1..m : cs[i] = bs[i]
  BY ForestTyped DEF Extends
<1>2. CASE o = Outside
  BY <1>2 DEF OwnerAt
<1>3. CASE o # Outside
  <2>1. p \in 2..m /\ SymAt(src, bs[p], o) /\ Kids(src.symbols, o) # {}
    BY <1>1, <1>3 DEF OwnerAt
  <2>2. p \in 2..n /\ p \in 1..m
    BY <1>1, <2>1
  <2>3. cs[p] = bs[p]
    BY <1>1, <2>2
  <2> QED
    BY <1>1, <1>3, <2>1, <2>2, <2>3 DEF OwnerAt
<1> QED
  BY <1>2, <1>3

LEMMA StandsStill ==
    ASSUME NEW src, NEW bs, Forest(bs), NEW cs, Forest(cs), Extends(bs, cs), NEW b, Stands(src, bs, b)
    PROVE  Stands(src, cs, b)
<1>1. PICK o : OwnerAt(src, bs, b.parent, o) /\ Standing(src, b, o)
  BY DEF Stands
<1>2. OwnerAt(src, cs, b.parent, o)
  BY <1>1, OwnerStays
<1> QED
  BY <1>1, <1>2 DEF Stands

LEMMA AskedStill ==
    ASSUME NEW src, NEW bs, Forest(bs), NEW cs, Forest(cs), Extends(bs, cs), NEW t, Asked(src, bs, t)
    PROVE  Asked(src, cs, t)
<1>1. PICK o : OwnerAt(src, bs, t.parent, o) /\ Asks(src, t, o)
  BY DEF Asked
<1>2. OwnerAt(src, cs, t.parent, o)
  BY <1>1, OwnerStays
<1> QED
  BY <1>1, <1>2 DEF Asked

LEMMA OwnerIs ==
    ASSUME NEW src, NEW bs, Forest(bs), NEW p, NEW o, OwnerAt(src, bs, p, o)
    PROVE  p \in Nat /\ (o = Outside <=> p = 1) /\ (o # Outside => o \in src.symbols)
<1>1. CASE o = Outside
  BY <1>1 DEF OwnerAt
<1>2. CASE o # Outside
  <2>1. p \in 2..Len(bs) /\ o \in src.symbols /\ Len(bs) \in Nat
    BY <1>2, ForestTyped DEF OwnerAt, SymAt
  <2> QED
    BY <1>2, <2>1
<1> QED
  BY <1>1, <1>2

\* What has been emitted and what is left when nothing is emitted that comes later.
LEMMA WorkJoins ==
    ASSUME NEW src, NEW bs, NEW T, NEW s \in Seq(T), NEW t \in Seq(T), Work(src, bs, s), Work(src, bs, t),
           \A m \in 1..Len(s) : \A n \in 1..Len(t) : ~ BothSymbols(s[m], t[n])
    PROVE  Work(src, bs, s \o t)
<1>1. PICK k \in Nat, l \in Nat : k = Len(s) /\ l = Len(t)
  OBVIOUS
<1>2. PICK u : u = s \o t
  OBVIOUS
<1>3. Len(u) = k + l /\ (\A n \in 1..k : u[n] = s[n]) /\ (\A n \in k + 1..k + l : u[n] = t[n - k] /\ n - k \in 1..l)
  BY <1>1, <1>2
<1>4. \A n \in 1..k + l : n \in 1..k \/ n \in k + 1..k + l
  BY <1>1
<1>5. ASSUME NEW n \in 1..k + l PROVE Asked(src, bs, u[n]) /\ \A i \in 2..Len(bs) : After(bs[i], u[n])
  <2>1. CASE n \in 1..k
    BY <1>1, <1>3, <2>1 DEF Work
  <2>2. CASE n \in k + 1..k + l
    BY <1>1, <1>3, <2>2 DEF Work
  <2> QED
    BY <1>4, <2>1, <2>2
<1>6. ASSUME NEW m \in 1..k + l, NEW n \in 1..k + l, m < n, BothSymbols(u[m], u[n]) PROVE u[m].span[2] < u[n].span[1]
  <2>1. CASE n \in 1..k
    <3>1. m \in 1..k
      BY <1>1, <1>6, <2>1
    <3>2. u[m] = s[m] /\ u[n] = s[n]
      BY <1>3, <2>1, <3>1
    <3> QED
      BY <1>1, <1>6, <2>1, <3>1, <3>2 DEF Work
  <2>2. CASE n \in k + 1..k + l /\ m \in 1..k
    <3>1. u[m] = s[m] /\ u[n] = t[n - k] /\ n - k \in 1..l
      BY <1>3, <2>2
    <3>2. ~ BothSymbols(s[m], t[n - k])
      BY <1>1, <2>2, <3>1
    <3> QED
      BY <1>6, <3>1, <3>2
  <2>3. CASE n \in k + 1..k + l /\ m \in k + 1..k + l
    <3>1. u[m] = t[m - k] /\ u[n] = t[n - k] /\ n - k \in 1..l /\ m - k \in 1..l
      BY <1>3, <2>3
    <3>2. m - k < n - k
      BY <1>1, <1>6, <2>3
    <3> QED
      BY <1>1, <1>6, <3>1, <3>2 DEF Work
  <2> QED
    BY <1>4, <2>1, <2>2, <2>3
<1> QED
  BY <1>2, <1>3, <1>5, <1>6 DEF Work

LEMMA HeadIs ==
    ASSUME FileInv, format = "code", NEW s \in source.symbols
    PROVE  /\ Header(s) = <<s[1], HeadEnd(source, s)>>
           /\ HeadEnd(source, s) \in Nat /\ s[1] <= HeadEnd(source, s) /\ HeadEnd(source, s) <= s[2]
<1>1. s = <<s[1], s[2]>> /\ s[1] \in Nat /\ s[2] \in Nat
  BY SymbolsAre
<1>2. Header(s) = <<s[1], HeadEnd(source, s)>>
  BY <1>1 DEF Header, LineEnds, HeadEnd, BreaksIn
<1>3. Header(s)[2] = HeadEnd(source, s)
  BY <1>2
<1>4. Header(s)[2] \in Int /\ Header(s)[2] <= s[2] /\ s[1] <= Header(s)[2]
  BY HeaderIs
<1>5. PICK h \in Int : h = HeadEnd(source, s) /\ h <= s[2] /\ s[1] <= h
  BY <1>3, <1>4
<1> QED
  BY <1>1, <1>2, <1>5

LEMMA UnitsIn ==
    ASSUME FileInv, format = "code", NEW s \in source.symbols
    PROVE  UnitsFor(source, s) \subseteq s[1]..s[2] /\ s[1] \in UnitsFor(source, s)
<1>1. s[1] \in Nat /\ s[2] \in Nat /\ s[1] <= s[2] /\ source.units[s[1]] = "word"
  BY SymbolsAre
<1>2. PICK h \in Nat : h = HeadEnd(source, s) /\ s[1] <= h /\ h <= s[2]
  BY HeadIs
<1>3. UnitsFor(source, s) = Words(source, s[1], s[2]) \/ UnitsFor(source, s) = Words(source, s[1], h)
  BY <1>2 DEF UnitsFor
<1> QED
  BY <1>1, <1>2, <1>3 DEF Words

\* What is below no block yet is still to come.
BelowNone(bs, p) == \A i \in 1..Len(bs) : bs[i].parent # p

LEMMA TasksAre ==
    ASSUME FileInv, format = "code", NEW spans, spans \subseteq source.symbols, NEW p, NEW span, NEW covered
    PROVE  \E k \in Nat : \E ordered :
               /\ ByStart(spans, ordered, k) /\ Len(SymbolTasks(spans, p)) = k /\ Len(GapTask(span, covered, p)) = 1
               /\ \A n \in 1..k : SymbolTasks(spans, p)[n] = [task |-> "symbol", span |-> ordered[n], parent |-> p, covered |-> {}]
               /\ GapTask(span, covered, p)[1] = [task |-> "gaps", span |-> span, parent |-> p, covered |-> covered]
<1>1. PICK f : f = InOrder(spans)
  OBVIOUS
<1>2. ByStart(spans, f, Cardinality(spans))
  BY <1>1, OrderedIs
<1>3. PICK k \in Nat : k = Cardinality(spans)
  BY <1>2 DEF ByStart
<1>4. SymbolTasks(spans, p) = [i \in 1..k |-> [task |-> "symbol", span |-> f[i], parent |-> p, covered |-> {}]]
  BY <1>1, <1>3 DEF SymbolTasks
<1>5. Len(SymbolTasks(spans, p)) = k
  <2> DEFINE task(i) == [task |-> "symbol", span |-> f[i], parent |-> p, covered |-> {}]
             S == {task(i) : i \in 1..k}
  <2>1. [i \in 1..k |-> task(i)] \in [1..k -> S]
    OBVIOUS
  <2>2. SymbolTasks(spans, p) \in [1..k -> S]
    BY <1>4, <2>1
  <2> HIDE DEF S
  <2> QED
    BY <2>2, FunctionSeq
<1>6. \A n \in 1..k : SymbolTasks(spans, p)[n] = [task |-> "symbol", span |-> f[n], parent |-> p, covered |-> {}]
  BY <1>4
<1>7. /\ Len(GapTask(span, covered, p)) = 1
      /\ GapTask(span, covered, p)[1] = [task |-> "gaps", span |-> span, parent |-> p, covered |-> covered]
  BY DEF GapTask
<1> QED
  BY <1>2, <1>3, <1>5, <1>6, <1>7

LEMMA NewWork ==
    ASSUME FileInv, format = "code", NEW bs, Forest(bs), NEW p, NEW o, OwnerAt(source, bs, p, o), BelowNone(bs, p),
           NEW kids, kids = Kids(source.symbols, o), NEW area, area = Area(source, o)
    PROVE  /\ Work(source, bs, SymbolTasks(kids, p)) /\ Work(source, bs, GapTask(area, kids, p))
           /\ AllBelow(SymbolTasks(kids, p), p) /\ AllBelow(GapTask(area, kids, p), p)
           /\ \A u \in area[1]..area[2] : Reached(SymbolTasks(kids, p), u) \/ Reached(GapTask(area, kids, p), u)
<1>1. kids \subseteq source.symbols /\ Nested(source.symbols)
  BY SpansAre DEF Kids
<1>2. PICK k \in Nat : \E ordered :
               /\ ByStart(kids, ordered, k) /\ Len(SymbolTasks(kids, p)) = k /\ Len(GapTask(area, kids, p)) = 1
               /\ \A n \in 1..k : SymbolTasks(kids, p)[n] = [task |-> "symbol", span |-> ordered[n], parent |-> p, covered |-> {}]
               /\ GapTask(area, kids, p)[1] = [task |-> "gaps", span |-> area, parent |-> p, covered |-> kids]
  BY <1>1, TasksAre
<1>3. PICK f :
               /\ ByStart(kids, f, k) /\ Len(SymbolTasks(kids, p)) = k /\ Len(GapTask(area, kids, p)) = 1
               /\ \A n \in 1..k : SymbolTasks(kids, p)[n] = [task |-> "symbol", span |-> f[n], parent |-> p, covered |-> {}]
               /\ GapTask(area, kids, p)[1] = [task |-> "gaps", span |-> area, parent |-> p, covered |-> kids]
  BY <1>2
<1>4. PICK s : s = SymbolTasks(kids, p)
  OBVIOUS
<1>5. PICK g : g = GapTask(area, kids, p)
  OBVIOUS
<1>6. Len(s) = k /\ \A n \in 1..k : s[n].task = "symbol" /\ s[n].span = f[n] /\ s[n].parent = p
  <2>1. Len(s) = k
    BY <1>3, <1>4, Zenon
  <2>2. ASSUME NEW n \in 1..k PROVE s[n].task = "symbol" /\ s[n].span = f[n] /\ s[n].parent = p
    <3>1. PICK e : e = [task |-> "symbol", span |-> f[n], parent |-> p, covered |-> {}]
      OBVIOUS
    <3>2. s[n] = e
      BY <1>3, <1>4, <3>1, Zenon
    <3> QED
      BY <3>1, <3>2
  <2> QED
    BY <2>1, <2>2
<1>7. Len(g) = 1 /\ g[1].task = "gaps" /\ g[1].span = area /\ g[1].parent = p /\ g[1].covered = kids
  BY <1>3, <1>5
<1>8. \A n \in 1..k : f[n] \in kids
  BY <1>3 DEF ByStart
<1>9. \A i \in 2..Len(bs) : bs[i].parent # p
  BY ForestTyped DEF BelowNone
<1>10. \A m, n \in 1..k : m < n => f[m][2] < f[n][1]
  <2> SUFFICES ASSUME NEW m \in 1..k, NEW n \in 1..k, m < n PROVE f[m][2] < f[n][1]
    OBVIOUS
  <2>1. f[m][1] < f[n][1]
    BY <1>3 DEF ByStart
  <2>2. PICK c \in kids, d \in kids : c = f[m] /\ d = f[n]
    BY <1>8
  <2>3. c[1] \in Nat /\ c[2] \in Nat /\ c[1] <= c[2] /\ d[1] \in Nat /\ d[2] \in Nat /\ d[1] <= d[2]
    BY <1>1 DEF Nested
  <2>4. c # d
    BY <2>1, <2>2, <2>3
  <2>5. c[2] < d[1] \/ d[2] < c[1]
    BY <1>1, <2>4, KidsApart
  <2> QED
    BY <2>1, <2>2, <2>3, <2>5
<1>11. Work(source, bs, s)
  <2>1. \A n \in 1..k : Asked(source, bs, s[n])
    BY <1>6, <1>8 DEF Asked, Asks
  <2>2. \A i \in 2..Len(bs), n \in 1..k : After(bs[i], s[n])
    BY <1>6, <1>9 DEF After
  <2>3. \A m, n \in 1..k : m < n => s[m].span[2] < s[n].span[1]
    BY <1>6, <1>10
  <2> QED
    BY <1>6, <2>1, <2>2, <2>3 DEF Work
<1>12. Work(source, bs, g)
  <2>1. Asked(source, bs, g[1])
    BY <1>7 DEF Asked, Asks
  <2>2. \A i \in 2..Len(bs) : After(bs[i], g[1])
    BY <1>7 DEF After
  <2>3. ~ BothSymbols(g[1], g[1])
    BY <1>7 DEF BothSymbols
  <2>4. \A n \in 1..Len(g) : n = 1
    BY <1>7
  <2> QED
    BY <2>1, <2>2, <2>3, <2>4 DEF Work
<1>13. AllBelow(s, p) /\ AllBelow(g, p)
  <2>1. \A n \in 1..Len(g) : n = 1
    BY <1>7
  <2> QED
    BY <1>6, <1>7, <2>1 DEF AllBelow
<1>14. ASSUME NEW u \in area[1]..area[2] PROVE Reached(s, u) \/ Reached(g, u)
  <2>1. CASE \E c \in kids : u \in c[1]..c[2]
    <3>1. PICK c \in kids : u \in c[1]..c[2]
      BY <2>1
    <3>2. PICK n \in 1..k : c = f[n]
      BY <1>3 DEF ByStart
    <3>3. u \in Reach(s[n])
      BY <1>6, <3>1, <3>2 DEF Reach
    <3> QED
      BY <1>6, <3>3 DEF Reached
  <2>2. CASE ~ \E c \in kids : u \in c[1]..c[2]
    <3>1. u \in Reach(g[1])
      BY <1>7, <2>2 DEF Reach, BareIn
    <3>2. 1 \in 1..Len(g)
      BY <1>7
    <3> QED
      BY <3>1, <3>2 DEF Reached
  <2> QED
    BY <2>1, <2>2
<1> QED
  BY <1>4, <1>5, <1>11, <1>12, <1>13, <1>14

\* What is left of the tasks behind the first.
Behind(tasks, rest) ==
    /\ Len(tasks) \in Nat \ {0} /\ Len(rest) = Len(tasks) - 1
    /\ \A i \in 1..Len(tasks) - 1 : rest[i] = tasks[i + 1]

LEMMA WordsAre == ASSUME NEW src, NEW u \in AllWords(src) PROVE u \in Int
BY DEF AllWords, Words

LEMMA BehindIs ==
    ASSUME NEW tasks, NEW rest, Behind(tasks, rest)
    PROVE  /\ \A n \in 1..Len(rest) : n + 1 \in 1..Len(tasks) /\ rest[n] = tasks[n + 1]
           /\ \A n \in 1..Len(tasks) : n = 1 \/ (n - 1 \in 1..Len(rest) /\ rest[n - 1] = tasks[n])
<1>1. PICK m \in Nat \ {0} : m = Len(tasks) /\ Len(rest) = m - 1 /\ \A i \in 1..m - 1 : rest[i] = tasks[i + 1]
  BY DEF Behind
<1>2. \A n \in 1..m - 1 : n + 1 \in 1..m
  BY <1>1
<1>3. \A n \in 1..m : n # 1 => n - 1 \in 1..m - 1 /\ (n - 1) + 1 = n
  BY <1>1
<1> QED
  BY <1>1, <1>2, <1>3

\* When the first task is done and its blocks are there.
LEMMA WorkBehind ==
    ASSUME NEW src, NEW bs, Forest(bs), NEW cs, Forest(cs), Extends(bs, cs), NEW tasks, Work(src, bs, tasks),
           NEW rest, Behind(tasks, rest),
           \A i \in Len(bs) + 1 .. Len(cs) : \A n \in 1..Len(rest) : After(cs[i], rest[n])
    PROVE  Work(src, cs, rest)
<1>1. PICK m \in Nat, n \in Nat : m = Len(bs) /\ n = Len(cs) /\ m <= n /\ \A i \in 1..m : cs[i] = bs[i]
  BY ForestTyped DEF Extends
<1>2. PICK k \in Nat : k = Len(tasks) /\ Len(rest) = k - 1
  BY DEF Behind
<1>3. \A i \in 1..k - 1 : i + 1 \in 1..k /\ rest[i] = tasks[i + 1]
  BY <1>2, BehindIs
<1>4. \A i \in 1..k - 1 : Asked(src, cs, rest[i])
  <2> TAKE i \in 1..k - 1
  <2>1. Asked(src, bs, tasks[i + 1])
    BY <1>2, <1>3 DEF Work
  <2> QED
    BY <1>3, <2>1, AskedStill
<1>5. ASSUME NEW i \in 1..k - 1, NEW j \in 1..k - 1, i < j, BothSymbols(rest[i], rest[j])
      PROVE  rest[i].span[2] < rest[j].span[1]
  <2>1. i + 1 < j + 1
    BY <1>5
  <2> QED
    BY <1>2, <1>3, <1>5, <2>1 DEF Work
<1>6. ASSUME NEW i \in 2..n, NEW j \in 1..k - 1 PROVE After(cs[i], rest[j])
  <2>1. CASE i <= m
    <3>1. i \in 2..m /\ i \in 1..m
      BY <1>1, <2>1
    <3>2. After(bs[i], tasks[j + 1])
      BY <1>1, <1>2, <1>3, <3>1 DEF Work
    <3> QED
      BY <1>1, <1>3, <3>1, <3>2
  <2>2. CASE ~ (i <= m)
    <3>1. i \in m + 1..n
      BY <1>1, <2>2
    <3> QED
      BY <1>1, <1>2, <3>1
  <2> QED
    BY <2>1, <2>2
<1> QED
  BY <1>1, <1>2, <1>4, <1>5, <1>6 DEF Work

LEMMA CoveredBehind ==
    ASSUME NEW src, NEW bs, Forest(bs), NEW cs, Forest(cs), Extends(bs, cs), NEW tasks, Covered(src, bs, tasks),
           NEW rest, Behind(tasks, rest), NEW u \in AllWords(src)
    PROVE  Held(cs, u) \/ Reached(rest, u) \/ u \in Reach(tasks[1])
<1>1. PICK m \in Nat, n \in Nat : m = Len(bs) /\ n = Len(cs) /\ m <= n /\ \A i \in 1..m : cs[i] = bs[i]
  BY ForestTyped DEF Extends
<1>2. CASE Held(bs, u)
  <2>1. PICK i \in 1..m : u \in bs[i].units
    BY <1>1, <1>2 DEF Held
  <2>2. i \in 1..n /\ cs[i] = bs[i]
    BY <1>1
  <2> QED
    BY <1>1, <2>1, <2>2 DEF Held
<1>3. CASE Reached(tasks, u)
  <2>1. PICK i \in 1..Len(tasks) : u \in Reach(tasks[i])
    BY <1>3 DEF Reached
  <2>2. i = 1 \/ (i - 1 \in 1..Len(rest) /\ rest[i - 1] = tasks[i])
    BY BehindIs
  <2> QED
    BY <2>1, <2>2 DEF Reached
<1> QED
  BY <1>2, <1>3 DEF Covered

\* The block of a symbol.
LEMMA SymbolPlaced ==
    ASSUME FileInv, format = "code", NEW bs, Forest(bs), NEW cs, Forest(cs), Extends(bs, cs), Len(cs) = Len(bs) + 1,
           Sites(source, bs), InRow(bs), NEW tasks, Work(source, bs, tasks), Covered(source, bs, tasks),
           NEW rest, Behind(tasks, rest), NEW t, t = tasks[1], t.task = "symbol",
           NEW b, b = cs[Len(bs) + 1], b.parent = t.parent, SymAt(source, b, t.span)
    PROVE  /\ Sites(source, cs) /\ InRow(cs) /\ Work(source, cs, rest)
           /\ \A u \in AllWords(source) : Held(cs, u) \/ Reached(rest, u) \/ u \in t.span[1]..t.span[2]
<1>0. Nested(source.symbols)
  BY SpansAre
<1>1. PICK n \in Nat \ {0} : n = Len(bs) /\ Len(cs) = n + 1 /\ \A i \in 1..n : cs[i] = bs[i]
  <2>1. Len(bs) \in Nat
    BY ForestTyped
  <2>2. Len(bs) # 0
    BY EmptySeq DEF Forest, Sites
  <2> QED
    BY <2>1, <2>2 DEF Extends
<1>2. PICK k \in Nat \ {0} : k = Len(tasks) /\ 1 \in 1..k
  BY DEF Behind
<1>3. PICK o : OwnerAt(source, bs, t.parent, o) /\ t.span \in Kids(source.symbols, o)
  <2>1. Asked(source, bs, t)
    BY <1>2 DEF Work
  <2> QED
    BY <2>1 DEF Asked, Asks
<1>4. PICK s \in source.symbols : s = t.span /\ s \in Kids(source.symbols, o)
  BY <1>3 DEF Kids
<1>5. s[1] \in Nat /\ s[2] \in Nat /\ b.units \subseteq s[1]..s[2]
  <2>1. b.units = UnitsFor(source, s)
    BY <1>4 DEF SymAt
  <2> QED
    BY <1>0, <2>1, UnitsIn DEF Nested
<1>6. b.type # "code_block"
  BY DEF SymAt
<1>7. Sites(source, cs)
  <2>1. Stands(source, cs, b)
    <3>1. OwnerAt(source, cs, b.parent, o)
      BY <1>3, OwnerStays
    <3>2. Standing(source, b, o)
      BY <1>4, <1>6 DEF Standing
    <3> QED
      BY <3>1, <3>2 DEF Stands
  <2>2. \A i \in 2..n : Stands(source, cs, cs[i])
    <3> TAKE i \in 2..n
    <3>1. Stands(source, bs, bs[i]) /\ i \in 1..n
      BY <1>1 DEF Sites
    <3> QED
      BY <1>1, <3>1, StandsStill
  <2>3. \A i \in 2..n + 1 : i \in 2..n \/ i = n + 1
    BY <1>1
  <2>4. cs # <<>> /\ cs[1].units = {} /\ cs[1].parent = 0 /\ cs[1].type = "module"
    <3>1. 1 \in 1..n /\ n + 1 # 0
      BY <1>1
    <3>2. cs[1] = bs[1]
      BY <1>1, <3>1
    <3>3. cs # <<>>
      BY <1>1, <3>1, EmptySeq DEF Forest
    <3> QED
      BY <3>2, <3>3 DEF Sites
  <2> QED
    BY <1>1, <2>1, <2>2, <2>3, <2>4 DEF Sites
<1>8. InRow(cs)
  <2> SUFFICES ASSUME NEW i \in 2..n + 1, NEW j \in 2..n + 1, i < j, Siblings(cs[i], cs[j])
               PROVE  Precedes(cs[i].units, cs[j].units)
    BY <1>1 DEF InRow
  <2>1. i \in 2..n /\ i \in 1..n
    BY <1>1
  <2>2. CASE j # n + 1
    <3>1. j \in 2..n /\ j \in 1..n
      BY <1>1, <2>2
    <3> QED
      BY <1>1, <2>1, <3>1 DEF InRow
  <2>3. CASE j = n + 1
    <3>1. Siblings(bs[i], b)
      BY <1>1, <2>1, <2>3
    <3>2. After(bs[i], t)
      BY <1>1, <1>2, <2>1 DEF Work
    <3>3. Precedes(bs[i].units, {s[1]})
      BY <1>4, <1>6, <3>1, <3>2 DEF Siblings, After
    <3>4. bs[i].units \subseteq Nat
      <4>1. bs[i] \in Block
        BY <1>1, <2>1, ForestTyped
      <4> QED
        BY <4>1 DEF Block
    <3>5. Precedes(bs[i].units, b.units)
      <4> SUFFICES ASSUME NEW x \in bs[i].units, NEW y \in b.units PROVE x < y
        BY DEF Precedes
      <4>1. x \in Nat /\ x < s[1] /\ y \in s[1]..s[2]
        BY <1>5, <3>3, <3>4 DEF Precedes
      <4> QED
        BY <1>5, <4>1
    <3> QED
      BY <1>1, <2>1, <2>3, <3>5
  <2> QED
    BY <2>2, <2>3
<1>9. Work(source, cs, rest)
  <2>1. ASSUME NEW i \in Len(bs) + 1 .. Len(cs), NEW m \in 1..Len(rest) PROVE After(cs[i], rest[m])
    <3>1. i = n + 1 /\ cs[i] = b
      BY <1>1
    <3>2. m + 1 \in 1..k /\ rest[m] = tasks[m + 1] /\ 1 < m + 1
      <4>1. m + 1 \in 1..k /\ rest[m] = tasks[m + 1]
        BY <1>2, BehindIs
      <4>2. PICK l \in Nat : l = Len(rest)
        BY <1>2 DEF Behind
      <4>3. m \in 1..l
        BY <4>2
      <4> QED
        BY <4>1, <4>3
    <3>3. PICK r : r = tasks[m + 1]
      OBVIOUS
    <3> SUFFICES ASSUME r.task = "symbol", b.parent = r.parent PROVE Precedes(b.units, {r.span[1]})
      BY <3>1, <3>2, <3>3 DEF After
    <3>4. BothSymbols(t, r)
      BY DEF BothSymbols
    <3>5. s[2] < r.span[1]
      BY <1>2, <1>4, <3>2, <3>3, <3>4 DEF Work
    <3>6. r.span[1] \in Nat
      <4>1. Asked(source, bs, r)
        BY <1>2, <3>2, <3>3 DEF Work
      <4>2. r.span \in source.symbols
        BY <4>1 DEF Asked, Asks, Kids
      <4> QED
        BY <1>0, <4>2 DEF Nested
    <3> QED
      BY <1>5, <3>5, <3>6 DEF Precedes
  <2> QED
    BY <2>1, WorkBehind
<1>10. \A u \in AllWords(source) : Held(cs, u) \/ Reached(rest, u) \/ u \in t.span[1]..t.span[2]
  <2>1. Reach(tasks[1]) = t.span[1]..t.span[2]
    BY DEF Reach
  <2> QED
    BY <2>1, CoveredBehind
<1> QED
  BY <1>7, <1>8, <1>9, <1>10

LEMMA ReachedJoined ==
    ASSUME NEW T, NEW s \in Seq(T), NEW t \in Seq(T), NEW u, Reached(s, u) \/ Reached(t, u)
    PROVE  Reached(s \o t, u)
<1>1. PICK k \in Nat, l \in Nat : k = Len(s) /\ l = Len(t)
  OBVIOUS
<1>2. PICK r : r = s \o t
  OBVIOUS
<1>3. Len(r) = k + l /\ (\A n \in 1..k : r[n] = s[n]) /\ (\A n \in 1..l : r[n + k] = t[n])
  BY <1>1, <1>2
<1>4. (\A n \in 1..k : n \in 1..k + l) /\ (\A n \in 1..l : n + k \in 1..k + l)
  BY <1>1
<1>5. CASE Reached(s, u)
  <2>1. PICK n \in 1..k : u \in Reach(s[n])
    BY <1>1, <1>5 DEF Reached
  <2> QED
    BY <1>2, <1>3, <1>4, <2>1 DEF Reached
<1>6. CASE Reached(t, u)
  <2>1. PICK n \in 1..l : u \in Reach(t[n])
    BY <1>1, <1>6 DEF Reached
  <2> QED
    BY <1>2, <1>3, <1>4, <2>1 DEF Reached
<1> QED
  BY <1>5, <1>6

LEMMA AllBelowJoined ==
    ASSUME NEW T, NEW s \in Seq(T), NEW t \in Seq(T), NEW p, AllBelow(s, p), AllBelow(t, p)
    PROVE  AllBelow(s \o t, p)
<1>1. PICK k \in Nat, l \in Nat : k = Len(s) /\ l = Len(t)
  OBVIOUS
<1>2. PICK r : r = s \o t
  OBVIOUS
<1>3. Len(r) = k + l /\ (\A n \in 1..k : r[n] = s[n]) /\ (\A n \in k + 1..k + l : r[n] = t[n - k] /\ n - k \in 1..l)
  BY <1>1, <1>2
<1>4. \A n \in 1..k + l : n \in 1..k \/ n \in k + 1..k + l
  BY <1>1
<1>5. (\A n \in 1..k : s[n].parent = p) /\ (\A n \in 1..l : t[n].parent = p)
  BY <1>1 DEF AllBelow
<1>6. ASSUME NEW n \in 1..k + l PROVE r[n].parent = p
  <2>1. CASE n \in 1..k
    BY <1>3, <1>5, <2>1
  <2>2. CASE n \in k + 1..k + l
    BY <1>3, <1>5, <2>2
  <2> QED
    BY <1>4, <2>1, <2>2
<1> QED
  BY <1>2, <1>3, <1>6 DEF AllBelow

\* What is to be emitted below a block that has nothing below it yet.
LEMMA NewTasks ==
    ASSUME FileInv, format = "code", NEW bs, Forest(bs), NEW p, p \in 1..Len(bs), bs[p].type \in ParentTypes,
           NEW o, OwnerAt(source, bs, p, o), BelowNone(bs, p),
           NEW kids, kids = Kids(source.symbols, o), NEW area, area = Area(source, o), area \in Nat \X Nat
    PROVE  \E tasks :
               /\ tasks = SymbolTasks(kids, p) \o GapTask(area, kids, p) /\ Todo(tasks, bs, source.symbols)
               /\ Work(source, bs, tasks) /\ AllBelow(tasks, p)
               /\ \A u \in area[1]..area[2] : Reached(tasks, u)
<1>1. PICK s, g : s = SymbolTasks(kids, p) /\ g = GapTask(area, kids, p)
  OBVIOUS
<1>2. kids \subseteq source.symbols
  BY DEF Kids
<1>3. Todo(s, bs, source.symbols) /\ Todo(g, bs, source.symbols)
  BY <1>1, <1>2, SymbolTasksTyped, GapTaskTyped
<1>4. PICK T : T = Tasks(source.symbols, Len(bs)) /\ s \in Seq(T) /\ g \in Seq(T)
  BY <1>3 DEF Todo
<1>5. /\ Work(source, bs, s) /\ Work(source, bs, g) /\ AllBelow(s, p) /\ AllBelow(g, p)
      /\ \A u \in area[1]..area[2] : Reached(s, u) \/ Reached(g, u)
  BY <1>1, NewWork
<1>6. \A m \in 1..Len(s) : \A n \in 1..Len(g) : ~ BothSymbols(s[m], g[n])
  <2>1. Len(g) = 1 /\ g[1] = [task |-> "gaps", span |-> area, parent |-> p, covered |-> kids]
    BY <1>1 DEF GapTask
  <2>2. g[1].task = "gaps" /\ \A n \in 1..Len(g) : n = 1
    BY <2>1
  <2> QED
    BY <2>2 DEF BothSymbols
<1>7. PICK tasks : tasks = s \o g
  OBVIOUS
<1>8. Work(source, bs, tasks)
  BY <1>4, <1>5, <1>6, <1>7, WorkJoins
<1>9. AllBelow(tasks, p)
  BY <1>4, <1>5, <1>7, AllBelowJoined
<1>10. \A u \in area[1]..area[2] : Reached(tasks, u)
  BY <1>4, <1>5, <1>7, ReachedJoined
<1>11. Todo(tasks, bs, source.symbols)
  BY <1>3, <1>7, TodoJoins
<1> QED
  BY <1>1, <1>7, <1>8, <1>9, <1>10, <1>11

\* How far a file of code with symbols has been emitted.
CodeWork(src, bs, tasks) == Sites(src, bs) /\ InRow(bs) /\ Work(src, bs, tasks) /\ Covered(src, bs, tasks)

LEMMA BeginPlaced ==
    ASSUME TypeInv, BeginModule, TypeInv'
    PROVE  CodeWork(source, blocks', todo')
<1>1. /\ format = "code" /\ FileInv /\ blocks' = <<ModuleBlock>> /\ Forest(blocks')
  BY DEF BeginModule, Parses, TypeInv
<1>2. PICK bs : bs = blocks'
  OBVIOUS
<1>3. Len(bs) = 1 /\ bs[1] = ModuleBlock /\ bs[1].type \in ParentTypes /\ 1 \in 1..Len(bs) /\ Forest(bs) /\ bs = <<ModuleBlock>>
  BY <1>1, <1>2, ModuleIs, Kinds
<1>4. bs[1].units = {} /\ bs[1].parent = 0 /\ bs[1].type = "module"
  BY <1>3 DEF ModuleBlock, NewBlock
<1>5. 2..1 = {} /\ \A i \in 1..1 : i = 1
  OBVIOUS
<1>6. bs # <<>>
  BY <1>3
<1>7. Sites(source, bs) /\ InRow(bs)
  BY <1>3, <1>4, <1>5, <1>6 DEF Sites, InRow
<1>8. PICK kids, area : kids = Kids(source.symbols, Outside) /\ area = Area(source, Outside)
  OBVIOUS
<1>9. area = WholeFile /\ area = <<1, Len(source.units)>> /\ area \in Nat \X Nat
  BY <1>1, <1>8, SymbolsAre DEF Area, WholeFile
<1>10. kids = ChildSymbols(Outside)
  BY <1>1, <1>8, ChildSymbolsAre
<1>11. todo' = SymbolTasks(kids, 1) \o GapTask(area, kids, 1)
  BY <1>9, <1>10 DEF BeginModule
<1>12. PICK p, o : p = 1 /\ o = Outside
  OBVIOUS
<1>13. OwnerAt(source, bs, p, o) /\ BelowNone(bs, p)
  BY <1>3, <1>4, <1>5, <1>12 DEF OwnerAt, BelowNone
<1>14. PICK tasks :
               /\ tasks = SymbolTasks(kids, p) \o GapTask(area, kids, p)
               /\ Work(source, bs, tasks)
               /\ \A u \in area[1]..area[2] : Reached(tasks, u)
  <2>1. /\ p \in 1..Len(bs) /\ bs[p].type \in ParentTypes /\ Forest(bs)
        /\ kids = Kids(source.symbols, o) /\ area = Area(source, o) /\ area \in Nat \X Nat
    BY <1>3, <1>8, <1>9, <1>12
  <2> QED
    BY <1>1, <1>13, <2>1, NewTasks
<1>15. tasks = todo'
  BY <1>11, <1>12, <1>14
<1>16. Covered(source, bs, tasks)
  <2> SUFFICES ASSUME NEW u \in AllWords(source) PROVE Reached(tasks, u)
    BY DEF Covered
  <2>1. u \in area[1]..area[2]
    BY <1>9 DEF AllWords, Words
  <2> QED
    BY <1>14, <2>1
<1> QED
  BY <1>2, <1>7, <1>14, <1>15, <1>16 DEF CodeWork

LEMMA EmitPlaced ==
    ASSUME TypeInv, EmitSymbol \/ EmitContainer, TypeInv', CodeWork(source, blocks, todo)
    PROVE  CodeWork(source, blocks', todo')
<1>1. /\ format = "code" /\ phase = "parse" /\ todo # <<>> /\ Task.task = "symbol"
      /\ FileInv /\ Forest(blocks) /\ Forest(blocks') /\ Todo(todo, blocks, source.symbols)
  BY DEF EmitSymbol, EmitContainer, Performs, Parses, TypeInv
<1>2. Sites(source, blocks) /\ InRow(blocks) /\ Work(source, blocks, todo) /\ Covered(source, blocks, todo)
  BY DEF CodeWork
<1>3. PICK s \in source.symbols : s = Task.span
  BY <1>1, TaskIs
<1>4. s = <<s[1], s[2]>> /\ s[1] \in Nat /\ s[2] \in Nat /\ s[2] \in Int /\ s[1] <= s[2]
  <2>1. s = <<s[1], s[2]>> /\ s[1] \in Nat /\ s[2] \in Nat /\ s[1] <= s[2]
    BY <1>1, SymbolsAre
  <2> QED
    BY <2>1
<1>5. PICK h \in Nat : h = HeadEnd(source, s) /\ s[1] <= h /\ h <= s[2] /\ Header(s) = <<s[1], h>>
  BY <1>1, HeadIs
<1>6. PICK kids : kids = ChildSymbols(s) /\ kids = Kids(source.symbols, s)
  BY <1>1, ChildSymbolsAre
<1>7. PICK n \in Nat \ {0} : n = Len(blocks)
  <2>1. Len(blocks) \in Nat
    BY <1>1, ForestTyped
  <2>2. Len(blocks) # 0
    BY <1>1, <1>2, EmptySeq DEF Forest, Sites
  <2> QED
    BY <2>1, <2>2
<1>8. PICK rest : rest = Tail(todo)
  OBVIOUS
<1>9. /\ Task = todo[1] /\ Len(todo) \in Nat \ {0} /\ Todo(rest, blocks, source.symbols) /\ Len(rest) = Len(todo) - 1
      /\ \A i \in 1..Len(todo) - 1 : rest[i] = todo[i + 1]
  BY <1>1, <1>8, TaskIs
<1>10. Behind(todo, rest)
  BY <1>9 DEF Behind
<1>11. \A u \in AllWords(source) : u \in Int /\ source.units[u] = "word"
  BY DEF AllWords, Words
<1>12. CASE EmitSymbol
  <2>1. /\ blocks' = Append(blocks, NewBlock("code_symbol", Named("sym", Order), Task.parent, Order, TextOf(s), InSpan(s)))
        /\ kids = {} /\ todo' = rest
    BY <1>3, <1>6, <1>8, <1>12 DEF EmitSymbol
  <2>2. /\ Extends(blocks, blocks') /\ Len(blocks') = n + 1
        /\ blocks'[n + 1].type = "code_symbol" /\ blocks'[n + 1].parent = Task.parent /\ blocks'[n + 1].units = InSpan(s)
    BY <1>1, <1>4, <1>7, <2>1, SymbolAdds
  <2>3. InSpan(s) = Words(source, s[1], s[2])
    BY DEF InSpan, Words
  <2>4. PICK b : b = blocks'[n + 1]
    OBVIOUS
  <2>5. SymAt(source, b, Task.span)
    BY <1>3, <1>6, <2>1, <2>2, <2>3, <2>4 DEF SymAt, UnitsFor
  <2>6. PICK cs : cs = blocks'
    OBVIOUS
  <2>7. /\ Sites(source, cs) /\ InRow(cs) /\ Work(source, cs, rest)
        /\ \A u \in AllWords(source) : Held(cs, u) \/ Reached(rest, u) \/ u \in Task.span[1]..Task.span[2]
    <3>1. /\ Forest(cs) /\ Extends(blocks, cs) /\ Len(cs) = Len(blocks) + 1 /\ b = cs[Len(blocks) + 1]
          /\ b.parent = Task.parent
      BY <1>1, <1>7, <2>2, <2>4, <2>6
    <3> QED
      BY <1>1, <1>2, <1>9, <1>10, <2>5, <3>1, SymbolPlaced
  <2>8. Covered(source, cs, rest)
    <3> SUFFICES ASSUME NEW u \in AllWords(source) PROVE Held(cs, u) \/ Reached(rest, u)
      BY DEF Covered
    <3>1. CASE u \in s[1]..s[2]
      <4>1. u \in cs[n + 1].units
        BY <1>11, <2>2, <2>3, <2>6, <3>1 DEF Words
      <4>2. n + 1 \in 1..Len(cs)
        BY <2>2, <2>6
      <4> QED
        BY <4>1, <4>2 DEF Held
    <3> QED
      BY <1>3, <2>7, <3>1
  <2> QED
    BY <2>1, <2>6, <2>7, <2>8 DEF CodeWork
<1>13. CASE EmitContainer
  <2>1. PICK header : header = Header(s) /\ header = <<s[1], h>> /\ header[1] = s[1] /\ header[2] = h
    BY <1>5
  <2>2. header[1] \in Nat /\ header[2] \in Int
    BY <1>4, <2>1
  <2>3. blocks' = Append(blocks, NewBlock("code_container", Named("sym", Order), Task.parent, Order, TextOf(header), InSpan(header)))
    BY <1>3, <1>13, <2>1 DEF EmitContainer
  <2>4. PICK own : own = n + 1
    OBVIOUS
  <2>5. PICK area : area = <<header[2] + 1, s[2]>>
    OBVIOUS
  <2>6. kids # {} /\ todo' = SymbolTasks(kids, own) \o GapTask(area, kids, own) \o rest
    BY <1>3, <1>6, <1>7, <1>8, <1>13, <2>1, <2>4, <2>5 DEF EmitContainer
  <2>7. /\ Extends(blocks, blocks') /\ Len(blocks') = n + 1 /\ blocks'[own].units = InSpan(header)
        /\ blocks'[own].type = "code_container" /\ blocks'[own].parent = Task.parent
    BY <1>1, <1>7, <2>2, <2>3, <2>4, SymbolAdds
  <2>8. InSpan(header) = Words(source, s[1], h)
    BY <2>1 DEF InSpan, Words
  <2>9. PICK cs : cs = blocks'
    OBVIOUS
  <2>10. PICK b : b = cs[own]
    OBVIOUS
  <2>11. SymAt(source, b, s)
    BY <1>5, <1>6, <2>6, <2>7, <2>8, <2>9, <2>10 DEF SymAt, UnitsFor
  <2>12. /\ Sites(source, cs) /\ InRow(cs) /\ Work(source, cs, rest)
         /\ \A u \in AllWords(source) : Held(cs, u) \/ Reached(rest, u) \/ u \in Task.span[1]..Task.span[2]
    <3>1. /\ Forest(cs) /\ Extends(blocks, cs) /\ Len(cs) = Len(blocks) + 1 /\ b = cs[Len(blocks) + 1]
          /\ b.parent = Task.parent /\ SymAt(source, b, Task.span)
      BY <1>1, <1>3, <1>7, <2>4, <2>7, <2>9, <2>10, <2>11
    <3> QED
      BY <1>1, <1>2, <1>9, <1>10, <3>1, SymbolPlaced
  <2>13. OwnerAt(source, cs, own, s)
    <3>1. own \in 2..Len(cs)
      BY <1>7, <2>4, <2>7, <2>9
    <3>2. s # Outside
      BY <1>1, SpansAre, OutsideIs
    <3> QED
      BY <1>6, <2>6, <2>10, <2>11, <3>1, <3>2 DEF OwnerAt
  <2>14. BelowNone(cs, own)
    <3> SUFFICES ASSUME NEW i \in 1..Len(cs) PROVE cs[i].parent # own
      BY DEF BelowNone
    <3>1. cs[i].parent \in Nat /\ cs[i].parent < i
      BY <1>1, <2>9, ForestTyped DEF Forest
    <3>2. PICK q \in Nat : q = cs[i].parent
      BY <3>1
    <3>3. i \in 1..n + 1
      BY <2>7, <2>9
    <3> QED
      BY <1>7, <2>4, <3>1, <3>2, <3>3
  <2>15. area = Area(source, s) /\ area \in Nat \X Nat /\ area = <<h + 1, s[2]>>
    <3>1. s # Outside
      BY <1>1, SpansAre, OutsideIs
    <3> QED
      BY <1>4, <1>5, <2>1, <2>5, <3>1 DEF Area
  <2>16. own \in 1..Len(cs) /\ cs[own].type \in ParentTypes /\ Forest(cs)
    BY <1>1, <1>7, <2>4, <2>7, <2>9, Kinds
  <2>17. PICK tasks :
               /\ tasks = SymbolTasks(kids, own) \o GapTask(area, kids, own) /\ Todo(tasks, cs, source.symbols)
               /\ Work(source, cs, tasks) /\ AllBelow(tasks, own)
               /\ \A u \in area[1]..area[2] : Reached(tasks, u)
    BY <1>1, <1>6, <2>13, <2>14, <2>15, <2>16, NewTasks
  <2>18. todo' = tasks \o rest
    BY <2>6, <2>17
  <2>19. Todo(rest, cs, source.symbols)
    BY <1>1, <1>9, <2>7, <2>9, TodoStays
  <2>20. PICK T : tasks \in Seq(T) /\ rest \in Seq(T)
    BY <2>17, <2>19 DEF Todo
  <2>21. \A m \in 1..Len(tasks) : \A l \in 1..Len(rest) : ~ BothSymbols(tasks[m], rest[l])
    <3> SUFFICES ASSUME NEW m \in 1..Len(tasks), NEW l \in 1..Len(rest) PROVE tasks[m].parent # rest[l].parent
      BY DEF BothSymbols
    <3>1. rest \in Seq(Tasks(source.symbols, n))
      BY <1>7, <1>9 DEF Todo
    <3>2. rest[l] \in Tasks(source.symbols, n)
      BY <3>1, Entry
    <3>3. rest[l].parent \in 1..n
      BY <3>2 DEF Tasks
    <3>4. tasks[m].parent = n + 1
      BY <2>4, <2>17 DEF AllBelow
    <3> QED
      BY <3>3, <3>4
  <2>22. Work(source, cs, tasks \o rest)
    BY <2>12, <2>17, <2>20, <2>21, WorkJoins
  <2>23. Covered(source, cs, tasks \o rest)
    <3> SUFFICES ASSUME NEW u \in AllWords(source) PROVE Held(cs, u) \/ Reached(tasks \o rest, u)
      BY DEF Covered
    <3>1. CASE u \in s[1]..h
      <4>1. u \in cs[own].units
        BY <1>11, <2>7, <2>8, <2>9, <3>1 DEF Words
      <4> QED
        BY <2>16, <4>1 DEF Held
    <3>2. CASE u \in s[1]..s[2] /\ u \notin s[1]..h
      <4>1. u \in area[1]..area[2]
        BY <1>4, <2>15, <3>2
      <4> QED
        BY <2>17, <2>20, <4>1, ReachedJoined
    <3>3. CASE Held(cs, u) \/ Reached(rest, u)
      BY <2>20, <3>3, ReachedJoined
    <3> QED
      BY <1>3, <2>12, <3>1, <3>2, <3>3
  <2> QED
    BY <2>9, <2>12, <2>18, <2>22, <2>23 DEF CodeWork
<1> QED
  BY <1>12, <1>13

\* The gaps of a span follow each other and are all that is bare in it.
GapList(gaps, bare) ==
    /\ \A k \in DOMAIN gaps : /\ k \in Nat /\ gaps[k][1] \in Nat /\ gaps[k][2] \in Nat
                              /\ gaps[k][1]..gaps[k][2] \subseteq bare
    /\ \A k, l \in DOMAIN gaps : k < l => gaps[k][2] < gaps[l][1]
    /\ \A u \in bare : \E k \in DOMAIN gaps : u \in gaps[k][1]..gaps[k][2]

LEMMA GapsListed ==
    ASSUME NEW gaps, NEW span \in Nat \X Nat, NEW covered, GapsOf(gaps, span, covered)
    PROVE  GapList(gaps, BareIn(span, covered))
<1>1. PICK bare : bare = BareIn(span, covered)
  OBVIOUS
<1>2. bare \subseteq Nat
  BY <1>1 DEF BareIn
<1>3. PICK S : S = BareStarts(span, covered) /\ S = {p \in bare : p - 1 \notin bare}
  BY <1>1 DEF BareStarts
<1>4. PICK starts : /\ Increasing(starts, S) /\ DOMAIN gaps = DOMAIN starts
                    /\ \A i \in DOMAIN starts : GapFrom(gaps[i], starts[i], bare)
  BY <1>1, <1>3 DEF GapsOf
<1>5. PICK n \in Nat : n = Cardinality(S) /\ DOMAIN gaps = 1..n /\ DOMAIN starts = 1..n
  BY <1>4 DEF Increasing
<1>6. /\ \A i \in 1..n : starts[i] \in S
      /\ \A x \in S : \E i \in 1..n : starts[i] = x
      /\ \A i, j \in 1..n : i < j => starts[i] < starts[j]
  BY <1>4, <1>5 DEF Increasing
<1>7. \A i \in 1..n : starts[i] \in Nat /\ starts[i] \in bare /\ starts[i] - 1 \notin bare
  BY <1>2, <1>3, <1>6
<1>8. \A k \in 1..n : /\ gaps[k][1] = starts[k] /\ gaps[k][2] \in Nat /\ starts[k] <= gaps[k][2]
                      /\ starts[k]..gaps[k][2] \subseteq bare
                      /\ \A q \in bare : starts[k]..q \subseteq bare => q <= gaps[k][2]
  BY <1>4, <1>5 DEF GapFrom
<1>9. ASSUME NEW k \in 1..n, NEW l \in 1..n, k < l PROVE gaps[k][2] < gaps[l][1]
  <2>1. PICK a \in Nat, e \in Nat, z \in Nat : a = starts[k] /\ e = gaps[k][2] /\ z = starts[l] /\ a < z
    BY <1>6, <1>7, <1>8, <1>9
  <2>2. a..e \subseteq bare /\ z - 1 \notin bare
    BY <1>7, <1>8, <2>1
  <2>3. z - 1 \notin a..e
    BY <2>2
  <2>4. e < z
    BY <2>1, <2>3
  <2> QED
    BY <1>8, <2>1, <2>4
<1>10. ASSUME NEW u \in bare PROVE \E k \in 1..n : u \in gaps[k][1]..gaps[k][2]
  <2> DEFINE A == {a \in Nat : a <= u /\ a..u \subseteq bare}
  <2>1. u \in Nat
    BY <1>2
  <2>2. u \in A
    <3>1. \A x \in u..u : x = u
      BY <2>1
    <3> QED
      BY <2>1, <3>1
  <2>3. A \subseteq Nat /\ A # {}
    BY <2>2
  <2>4. PICK a : a = Min(A) /\ a \in A /\ \A y \in A : a <= y
    <3> HIDE DEF A
    <3> QED
      BY <2>3, LeastIs
  <2>5. a \in Nat /\ a <= u /\ a..u \subseteq bare
    BY <2>4
  <2>6. a \in bare
    BY <2>1, <2>5
  <2>7. a - 1 \notin bare
    <3> SUFFICES ASSUME a - 1 \in bare PROVE FALSE
      OBVIOUS
    <3>1. a - 1 \in Nat
      BY <1>2
    <3>2. \A x \in a - 1..u : x = a - 1 \/ x \in a..u
      BY <2>1, <2>5
    <3>3. a - 1 \in A
      BY <2>1, <2>5, <3>1, <3>2
    <3> QED
      BY <2>4, <2>5, <3>1, <3>3
  <2>8. PICK k \in 1..n : starts[k] = a
    BY <1>3, <1>6, <2>6, <2>7
  <2>9. u <= gaps[k][2]
    BY <1>8, <2>5, <2>8
  <2>10. u \in gaps[k][1]..gaps[k][2]
    <3>1. gaps[k][1] = a /\ gaps[k][2] \in Nat
      BY <1>8, <2>8
    <3> QED
      BY <2>1, <2>5, <2>9, <3>1
  <2> QED
    BY <2>10
<1>11. ASSUME NEW k \in 1..n PROVE /\ k \in Nat /\ gaps[k][1] \in Nat /\ gaps[k][2] \in Nat
                              /\ gaps[k][1]..gaps[k][2] \subseteq bare
  BY <1>7, <1>8
<1> QED
  BY <1>1, <1>5, <1>9, <1>10, <1>11 DEF GapList

\* What a task adds of its gaps, as sets of words.
GapWords(new, parent, bare, src) ==
    /\ \A j \in 1..Len(new) : new[j].type = "code_block" /\ new[j].parent = parent /\ new[j].units \subseteq bare
    /\ \A i, j \in 1..Len(new) : i < j => Precedes(new[i].units, new[j].units)
    /\ \A u \in bare : src.units[u] = "word" => \E j \in 1..Len(new) : u \in new[j].units

LEMMA GapsWritten ==
    ASSUME FileInv, format = "code", Task.span \in Nat \X Nat, NEW new, NEW full, Emits(new, full, Gaps(Task.span, Task.covered))
    PROVE  GapWords(new, Task.parent, BareIn(Task.span, Task.covered), source)
<1>1. PICK gaps, bare : gaps = Gaps(Task.span, Task.covered) /\ bare = BareIn(Task.span, Task.covered)
  OBVIOUS
<1>2. GapList(gaps, bare)
  <2>1. GapsOf(gaps, Task.span, Task.covered)
    BY <1>1, GapsAre
  <2> QED
    BY <1>1, <2>1, GapsListed
<1>3. PICK T : T = {k \in DOMAIN gaps : InSpan(gaps[k]) # {}}
  OBVIOUS
<1>4. Emits(new, full, gaps)
  BY <1>1
<1>5. PICK l \in Nat : /\ l = Len(new) /\ l = Cardinality(T)
                       /\ \A j \in 1..l : full[j] \in DOMAIN gaps /\ GapEntry(new[j], gaps, full[j])
                       /\ \A i, j \in 1..l : i < j => full[i] < full[j]
                       /\ \A x \in T : \E i \in 1..l : full[i] = x
  BY <1>3, <1>4 DEF Emits, Increasing
<1>6. \A j \in 1..l : /\ new[j].type = "code_block" /\ new[j].parent = Task.parent
                      /\ new[j].units = InSpan(gaps[full[j]])
  BY <1>5 DEF GapEntry
<1>7. \A k \in DOMAIN gaps : InSpan(gaps[k]) \subseteq gaps[k][1]..gaps[k][2]
  BY DEF InSpan
<1>8. \A k \in DOMAIN gaps : gaps[k][1]..gaps[k][2] \subseteq bare
  BY <1>2 DEF GapList
<1>9. ASSUME NEW i \in 1..l, NEW j \in 1..l, i < j PROVE Precedes(new[i].units, new[j].units)
  <2>1. PICK a \in Nat, e \in Nat : a = gaps[full[i]][1] /\ e = gaps[full[i]][2]
    BY <1>2, <1>5 DEF GapList
  <2>2. PICK c \in Nat, f \in Nat : c = gaps[full[j]][1] /\ f = gaps[full[j]][2]
    BY <1>2, <1>5 DEF GapList
  <2>3. e < c
    BY <1>2, <1>5, <1>9, <2>1, <2>2 DEF GapList
  <2>4. new[i].units \subseteq a..e /\ new[j].units \subseteq c..f
    BY <1>5, <1>6, <1>7, <2>1, <2>2
  <2> QED
    BY <2>3, <2>4 DEF Precedes
<1>10. ASSUME NEW u \in bare, source.units[u] = "word" PROVE \E j \in 1..l : u \in new[j].units
  <2>1. PICK k \in DOMAIN gaps : u \in gaps[k][1]..gaps[k][2]
    BY <1>2 DEF GapList
  <2>2. u \in InSpan(gaps[k])
    BY <1>10, <2>1 DEF InSpan
  <2>3. k \in T
    BY <1>3, <2>2
  <2>4. PICK j \in 1..l : full[j] = k
    BY <1>5, <2>3
  <2> QED
    BY <1>6, <2>2, <2>4
<1> QED
  BY <1>1, <1>5, <1>6, <1>7, <1>8, <1>9, <1>10 DEF GapWords

LEMMA GapsPlaced ==
    ASSUME TypeInv, EmitGaps, TypeInv', CodeWork(source, blocks, todo), GapsLeft(blocks, todo)
    PROVE  CodeWork(source, blocks', todo')
<1>1. /\ format = "code" /\ phase = "parse" /\ todo # <<>> /\ Task.task = "gaps" /\ todo' = Tail(todo)
      /\ FileInv /\ Counting /\ Forest(blocks) /\ Forest(blocks') /\ Todo(todo, blocks, source.symbols)
  BY DEF EmitGaps, Performs, Parses, TypeInv
<1>2. Sites(source, blocks) /\ InRow(blocks) /\ Work(source, blocks, todo) /\ Covered(source, blocks, todo)
  BY DEF CodeWork
<1>3. Task.parent \in 1..Len(blocks) /\ Task.span \in Nat \X Nat
  BY <1>1, TaskIs
<1>4. PICK new, full : Emits(new, full, Gaps(Task.span, Task.covered))
  BY <1>1, <1>3, EmitsGaps
<1>5. PICK bare : bare = BareIn(Task.span, Task.covered)
  OBVIOUS
<1>6. PICK p : p = Task.parent
  OBVIOUS
<1>7. GapWords(new, p, bare, source)
  BY <1>1, <1>3, <1>4, <1>5, <1>6, GapsWritten
<1>8. PICK n \in Nat : n = Len(blocks) /\ n # 0
  <2>1. PICK n \in Nat : n = Len(blocks)
    BY <1>1, ForestTyped
  <2> QED
    BY <1>3, <2>1
<1>9. PICK l \in Nat : l = Len(new) /\ new \in Seq(Block) /\ blocks' = blocks \o new
  BY <1>4 DEF Emits
<1>10. PICK cs : cs = blocks'
  OBVIOUS
<1>11. Len(cs) = n + l /\ \A i \in 1..n + l : cs[i] = IF i <= n THEN blocks[i] ELSE new[i - n]
  <2>1. blocks \in Seq(Block)
    BY <1>1 DEF Forest
  <2> QED
    BY <1>8, <1>9, <1>10, <2>1, ConcatProperties, ZenonT(30)
<1>12. /\ Extends(blocks, cs) /\ (\A i \in n + 1 .. n + l : i - n \in 1..l /\ cs[i] = new[i - n])
       /\ \A i \in 1..n : cs[i] = blocks[i]
  BY <1>8, <1>11 DEF Extends
<1>13. \A i \in 1..n + l : i \in 1..n \/ i \in n + 1..n + l
  BY <1>8
<1>14. PICK rest : rest = Tail(todo)
  OBVIOUS
<1>15. Behind(todo, rest) /\ Task = todo[1] /\ 1 \in 1..Len(todo)
  <2>1. /\ Task = todo[1] /\ Len(todo) \in Nat \ {0} /\ Len(rest) = Len(todo) - 1
        /\ \A i \in 1..Len(todo) - 1 : rest[i] = todo[i + 1]
    BY <1>1, <1>14, TaskIs
  <2> QED
    BY <2>1 DEF Behind
<1>16. NoGapBelow(blocks, p)
  BY <1>1, <1>6, GapsLeftTail
<1>17. PICK o : OwnerAt(source, blocks, p, o) /\ Task.span = Area(source, o) /\ Task.covered = Kids(source.symbols, o)
  <2>1. Asked(source, blocks, Task)
    BY <1>2, <1>15 DEF Work
  <2> QED
    BY <1>1, <1>6, <2>1 DEF Asked, Asks
<1>18. bare = Free(source, o)
  BY <1>5, <1>17 DEF Free
<1>19. \A i \in n + 1..n + l : cs[i].type = "code_block" /\ cs[i].parent = p /\ cs[i].units \subseteq bare
  BY <1>7, <1>9, <1>12 DEF GapWords
<1>20. OwnerAt(source, cs, p, o) /\ Forest(cs)
  <2>1. Forest(cs)
    BY <1>1, <1>10
  <2> QED
    BY <1>1, <1>12, <1>17, <2>1, OwnerStays
<1>21. Sites(source, cs)
  <2>1. \A i \in n + 1..n + l : Stands(source, cs, cs[i])
    BY <1>18, <1>19, <1>20 DEF Stands, Standing
  <2>2. \A i \in 2..n : Stands(source, cs, cs[i])
    <3> TAKE i \in 2..n
    <3>1. Stands(source, blocks, blocks[i]) /\ i \in 1..n
      BY <1>2, <1>8 DEF Sites
    <3> QED
      BY <1>1, <1>12, <1>20, <3>1, StandsStill
  <2>3. \A i \in 2..n + l : i \in 2..n \/ i \in n + 1..n + l
    BY <1>8
  <2>4. cs # <<>> /\ cs[1].units = {} /\ cs[1].parent = 0 /\ cs[1].type = "module"
    <3>1. 1 \in 1..n /\ n + l # 0
      BY <1>8
    <3>2. cs[1] = blocks[1]
      BY <1>12, <3>1
    <3>3. cs # <<>>
      BY <1>11, <1>20, <3>1, EmptySeq DEF Forest
    <3> QED
      BY <1>2, <3>2, <3>3 DEF Sites
  <2> QED
    BY <1>11, <2>1, <2>2, <2>3, <2>4 DEF Sites
<1>22. InRow(cs)
  <2> SUFFICES ASSUME NEW i \in 2..n + l, NEW j \in 2..n + l, i < j, Siblings(cs[i], cs[j])
               PROVE  Precedes(cs[i].units, cs[j].units)
    BY <1>11 DEF InRow
  <2>1. CASE j <= n
    <3>1. i \in 2..n /\ j \in 2..n /\ i \in 1..n /\ j \in 1..n
      BY <1>8, <2>1
    <3> QED
      BY <1>2, <1>8, <1>12, <3>1 DEF InRow
  <2>2. CASE ~ (j <= n)
    <3>1. j \in n + 1..n + l
      BY <1>8, <2>2
    <3>2. cs[i].type = "code_block" /\ cs[i].parent = p
      BY <1>19, <3>1 DEF Siblings
    <3>3. i \in n + 1..n + l
      <4>1. ~ (i \in 2..n)
        <5> SUFFICES ASSUME i \in 2..n PROVE FALSE
          OBVIOUS
        <5>1. i \in 1..n
          OBVIOUS
        <5>2. blocks[i].parent # p
          BY <1>8, <1>12, <1>16, <3>2, <5>1 DEF NoGapBelow
        <5> QED
          BY <1>12, <3>2, <5>1, <5>2
      <4> QED
        BY <1>8, <4>1
    <3>4. i - n \in 1..l /\ j - n \in 1..l /\ i - n < j - n
      BY <1>8, <1>12, <3>1, <3>3
    <3> QED
      BY <1>7, <1>9, <1>12, <3>1, <3>3, <3>4 DEF GapWords
  <2> QED
    BY <2>1, <2>2
<1>23. Work(source, cs, rest)
  <2>1. \A i \in Len(blocks) + 1 .. Len(cs) : \A m \in 1..Len(rest) : After(cs[i], rest[m])
    BY <1>8, <1>11, <1>19 DEF After
  <2> QED
    BY <1>1, <1>2, <1>12, <1>15, <1>20, <2>1, WorkBehind
<1>24. Covered(source, cs, rest)
  <2> SUFFICES ASSUME NEW u \in AllWords(source) PROVE Held(cs, u) \/ Reached(rest, u)
    BY DEF Covered
  <2>1. Held(cs, u) \/ Reached(rest, u) \/ u \in Reach(todo[1])
    BY <1>1, <1>2, <1>12, <1>15, <1>20, CoveredBehind
  <2>2. CASE u \in Reach(todo[1])
    <3>1. u \in bare /\ source.units[u] = "word"
      BY <1>1, <1>5, <1>15, <2>2 DEF Reach, AllWords, Words
    <3>2. PICK j \in 1..l : u \in new[j].units
      BY <1>7, <1>9, <3>1 DEF GapWords
    <3>3. n + j \in n + 1..n + l /\ (n + j) - n = j /\ n + j \in 1..n + l
      BY <1>8, <3>2
    <3>4. cs[n + j] = new[j]
      BY <1>12, <3>3
    <3> QED
      BY <1>11, <3>2, <3>3, <3>4 DEF Held
  <2> QED
    BY <2>1, <2>2
<1> QED
  BY <1>1, <1>10, <1>14, <1>21, <1>22, <1>23, <1>24 DEF CodeWork

----------------------------------------------------------------------------
(* Windows.                                                                *)

LineAt(p) == Cardinality(LineEnds(<<1, p - 1>>))

LEMMA LineEndsUpTo ==
    ASSUME NEW d \in Int, NEW e \in Int, d <= e
    PROVE  LineEnds(<<1, d>>) \subseteq LineEnds(<<1, e>>) /\ LineEnds(<<1, e>>) \subseteq 1..e
<1>1. ASSUME NEW q, NEW c \in Int, q \in LineEnds(<<1, c>>) PROVE q \in 1..c /\ source.units[q] = "line end"
  <2>0. PICK s : s = <<1, c>>
    OBVIOUS
  <2>1. s = <<1, c>> /\ s[1] = 1 /\ s[2] = c
    BY <2>0
  <2>2. q \in LineEnds(s)
    BY <1>1, <2>1
  <2>3. q \in s[1]..s[2] /\ source.units[q] = "line end"
    BY <2>2 DEF LineEnds
  <2> QED
    BY <2>1, <2>3
<1>2. ASSUME NEW q \in 1..e, source.units[q] = "line end" PROVE q \in LineEnds(<<1, e>>)
  <2>0. PICK s : s = <<1, e>>
    OBVIOUS
  <2>1. s = <<1, e>> /\ s[1] = 1 /\ s[2] = e
    BY <2>0
  <2>2. q \in LineEnds(s)
    BY <1>2, <2>1 DEF LineEnds
  <2> QED
    BY <2>1, <2>2
<1>3. \A q \in 1..d : q \in 1..e
  OBVIOUS
<1> QED
  BY <1>1, <1>2, <1>3

LEMMA LinesAre ==
    ASSUME FileInv, format = "code", NEW x \in 1..Len(source.units)
    PROVE  /\ LineAt(x) \in 0..Len(source.units)
           /\ \A y \in 1..Len(source.units) : x <= y => LineAt(x) <= LineAt(y)
<1>1. PICK n \in Nat : n = Len(source.units)
  BY SymbolsAre
<1>2. \A y \in 1..n : IsFiniteSet(LineEnds(<<1, y - 1>>)) /\ Cardinality(LineEnds(<<1, y - 1>>)) \in Nat
                      /\ Cardinality(LineEnds(<<1, y - 1>>)) <= n
  <2> TAKE y \in 1..n
  <2>1. LineEnds(<<1, y - 1>>) \subseteq 1..n
    <3>1. PICK e \in Int : e = y - 1 /\ e <= n
      BY <1>1
    <3>2. LineEnds(<<1, e>>) \subseteq 1..e
      <4>1. e <= e
        OBVIOUS
      <4> QED
        BY <4>1, LineEndsUpTo
    <3>3. \A q \in 1..e : q \in 1..n
      BY <1>1, <3>1
    <3> QED
      BY <3>1, <3>2, <3>3
  <2>2. IsFiniteSet(1..n) /\ Cardinality(1..n) = n
    BY FS_Interval
  <2>3. IsFiniteSet(LineEnds(<<1, y - 1>>)) /\ Cardinality(LineEnds(<<1, y - 1>>)) <= Cardinality(1..n)
    BY <2>1, <2>2, FS_Subset
  <2> QED
    BY <2>2, <2>3, FS_CardinalityType
<1>3. ASSUME NEW y \in 1..n, x <= y PROVE LineAt(x) <= LineAt(y)
  <2>1. LineEnds(<<1, x - 1>>) \subseteq LineEnds(<<1, y - 1>>)
    <3>1. PICK d \in Int, e \in Int : d = x - 1 /\ e = y - 1 /\ d <= e
      BY <1>1, <1>3
    <3> QED
      BY <3>1, LineEndsUpTo
  <2> QED
    BY <1>2, <2>1, FS_Subset DEF LineAt
<1>4. LineAt(x) \in 0..n
  BY <1>1, <1>2 DEF LineAt
<1> QED
  BY <1>1, <1>3, <1>4

LEMMA QuotientGrows ==
    ASSUME NEW x \in Nat, NEW y \in Nat, x <= y, NEW m \in Nat \ {0}
    PROVE  x \div m <= y \div m /\ x \div m <= x /\ x \div m \in Nat
<1>1. PICK a \in Nat : a = x \div m /\ a * m <= x /\ x < a * m + m
  BY Quotient
<1>2. PICK b \in Nat : b = y \div m /\ b * m <= y /\ y < b * m + m
  BY Quotient
<1>3. a <= b
  <2> SUFFICES ASSUME b < a PROVE FALSE
    OBVIOUS
  <2>1. b + 1 <= a /\ b + 1 \in Nat
    OBVIOUS
  <2>2. (b + 1) * m <= a * m
    BY <2>1, Multiples
  <2>3. (b + 1) * m = b * m + m /\ b * m \in Nat /\ a * m \in Nat
    BY Multiples
  <2> QED
    BY <1>1, <1>2, <2>2, <2>3
<1>4. a <= x
  <2>1. 1 \in Nat /\ 1 <= m
    OBVIOUS
  <2>2. 1 * a <= m * a
    BY <2>1, Multiples
  <2>3. 1 * a = a /\ m * a = a * m /\ a * m \in Nat
    BY Multiples
  <2> QED
    BY <1>1, <2>2, <2>3
<1> QED
  BY <1>1, <1>2, <1>3, <1>4

WindowsLaid(src, bs) ==
    /\ bs # <<>> /\ bs[1].units = {} /\ bs[1].parent = 0 /\ bs[1].type = "module"
    /\ \A i \in 2..Len(bs) : bs[i].type = "code_symbol" /\ bs[i].parent = 1
    /\ InRow(bs)
    /\ \A u \in AllWords(src) : Held(bs, u)

LEMMA WindowsApart ==
    ASSUME FileInv, format = "code", WindowSize \in Nat \ {0}
    PROVE  /\ \A k, l \in Nat : k < l => Precedes(WindowAt(k), WindowAt(l))
           /\ \A u \in AllWords(source) : \E k \in 0..Len(source.units) : u \in WindowAt(k)
<1>1. PICK n \in Nat : n = Len(source.units)
  BY SymbolsAre
<1>2. \A k : WindowAt(k) = {p \in InSpan(WholeFile) : LineAt(p) \div WindowSize = k}
  BY DEF WindowAt, LineAt
<1>3. \A p \in InSpan(WholeFile) : p \in 1..n
  BY <1>1 DEF InSpan, WholeFile
<1>4. \A u \in AllWords(source) : u \in InSpan(WholeFile)
  BY <1>1 DEF InSpan, WholeFile, AllWords, Words
<1>5. \A x \in 1..n : LineAt(x) \in 0..n /\ \A y \in 1..n : x <= y => LineAt(x) <= LineAt(y)
  BY <1>1, LinesAre
<1>6. ASSUME NEW k \in Nat, NEW l \in Nat, k < l, NEW x \in WindowAt(k), NEW y \in WindowAt(l) PROVE x < y
  <2>1. x \in 1..n /\ y \in 1..n /\ LineAt(x) \div WindowSize = k /\ LineAt(y) \div WindowSize = l
    BY <1>2, <1>3
  <2> SUFFICES ASSUME y <= x PROVE FALSE
    BY <2>1
  <2>2. PICK a \in Nat, b \in Nat : a = LineAt(x) /\ b = LineAt(y) /\ b <= a
    BY <1>5, <2>1
  <2>3. b \div WindowSize <= a \div WindowSize
    BY <2>2, QuotientGrows
  <2> QED
    BY <1>6, <2>1, <2>2, <2>3
<1>7. ASSUME NEW u \in AllWords(source) PROVE \E k \in 0..n : u \in WindowAt(k)
  <2>1. u \in 1..n /\ u \in InSpan(WholeFile)
    BY <1>3, <1>4
  <2>2. PICK a \in Nat : a = LineAt(u) /\ a <= n
    BY <1>5, <2>1
  <2>3. a <= a
    OBVIOUS
  <2>4. a \div WindowSize <= a /\ a \div WindowSize \in Nat
    BY <2>3, QuotientGrows
  <2>5. a \div WindowSize \in 0..n
    BY <1>1, <2>2, <2>4
  <2> QED
    BY <1>2, <2>1, <2>2, <2>5
<1> QED
  BY <1>1, <1>6, <1>7 DEF Precedes

LEMMA WindowsPlaced ==
    ASSUME TypeInv, EmitWindows, TypeInv'
    PROVE  WindowsLaid(source, blocks') /\ phase' # "parse" /\ source.symbols = {}
<1>1. /\ format = "code" /\ phase' = "chunk" /\ FileInv /\ source.symbols = {} /\ Forest(blocks')
  BY DEF EmitWindows, Parses, TypeInv
<1>2. PICK new, full : EmitsWindows(new, full)
  BY <1>1, WindowsEmitted
<1>3. PICK T : T = {k \in 0..Len(source.units) : WindowAt(k) # {}}
  OBVIOUS
<1>4. PICK l \in Nat : /\ l = Len(new) /\ new \in Seq(Block)
                       /\ \A j \in 1..l : full[j] \in Nat /\ WindowEntry(new[j], full[j])
                       /\ \A i, j \in 1..l : i < j => full[i] < full[j]
                       /\ \A x \in T : \E j \in 1..l : full[j] = x
  BY <1>2, <1>3 DEF EmitsWindows, Increasing
<1>5. PICK first : first = <<ModuleBlock>> /\ first \in Seq(Block) /\ Len(first) = 1 /\ first[1] = ModuleBlock
  <2>1. PICK b \in Block : b = ModuleBlock
    BY ModuleIs
  <2>2. <<b>> \in Seq(Block) /\ Len(<<b>>) = 1 /\ <<b>>[1] = b
    OBVIOUS
  <2> QED
    BY <2>1, <2>2
<1>6. PICK cs : cs = blocks' /\ cs = first \o new
  BY <1>2, <1>5 DEF EmitsWindows
<1>7. Len(cs) = 1 + l /\ \A i \in 1..1 + l : cs[i] = IF i <= 1 THEN first[i] ELSE new[i - 1]
  <2>1. PICK u : u = first \o new
    OBVIOUS
  <2>2. Len(u) = Len(first) + Len(new)
        /\ \A i \in 1..Len(first) + Len(new) : u[i] = IF i <= Len(first) THEN first[i] ELSE new[i - Len(first)]
    <3>1. first \in Seq(Block) /\ new \in Seq(Block)
      BY <1>4, <1>5
    <3> QED
      BY <2>1, <3>1, ConcatProperties, ZenonT(30)
  <2> QED
    BY <1>4, <1>5, <1>6, <2>1, <2>2
<1>8. (\A i \in 2..1 + l : i - 1 \in 1..l /\ cs[i] = new[i - 1]) /\ (\A j \in 1..l : j + 1 \in 1..1 + l /\ cs[j + 1] = new[j])
  BY <1>7
<1>9. cs[1] = ModuleBlock /\ cs # <<>>
  <2>1. 1 \in 1..1 + l /\ 1 <= 1 /\ 1 + l # 0
    OBVIOUS
  <2>2. cs # <<>>
    BY <1>7, <2>1
  <2> QED
    BY <1>5, <1>7, <2>1, <2>2
<1>10. \A j \in 1..l : new[j].type = "code_symbol" /\ new[j].parent = 1 /\ new[j].units = WindowAt(full[j])
  BY <1>4 DEF WindowEntry
<1>11. cs[1].units = {} /\ cs[1].parent = 0 /\ cs[1].type = "module"
  BY <1>9 DEF ModuleBlock, NewBlock
<1>12. WindowSize \in Nat \ {0}
  BY CodeAssumption
<1>13. /\ \A k, m \in Nat : k < m => Precedes(WindowAt(k), WindowAt(m))
       /\ \A u \in AllWords(source) : \E k \in 0..Len(source.units) : u \in WindowAt(k)
  BY <1>1, <1>12, WindowsApart
<1>14. InRow(cs)
  <2> SUFFICES ASSUME NEW i \in 2..1 + l, NEW j \in 2..1 + l, i < j PROVE Precedes(cs[i].units, cs[j].units)
    BY <1>7 DEF InRow
  <2>1. i - 1 \in 1..l /\ j - 1 \in 1..l /\ i - 1 < j - 1
    BY <1>8
  <2>2. full[i - 1] \in Nat /\ full[j - 1] \in Nat /\ full[i - 1] < full[j - 1]
    BY <1>4, <2>1
  <2> QED
    BY <1>8, <1>10, <1>13, <2>1, <2>2
<1>15. ASSUME NEW u \in AllWords(source) PROVE Held(cs, u)
  <2>1. PICK k \in 0..Len(source.units) : u \in WindowAt(k)
    BY <1>13
  <2>2. k \in T
    BY <1>3, <2>1
  <2>3. PICK j \in 1..l : full[j] = k
    BY <1>4, <2>2
  <2>4. u \in cs[j + 1].units /\ j + 1 \in 1..1 + l
    BY <1>8, <1>10, <2>1, <2>3
  <2> QED
    BY <1>7, <2>4 DEF Held
<1>16. \A i \in 2..1 + l : cs[i].type = "code_symbol" /\ cs[i].parent = 1
  BY <1>8, <1>10
<1> QED
  BY <1>1, <1>6, <1>7, <1>9, <1>11, <1>14, <1>15, <1>16 DEF WindowsLaid

\* How far a file of code has been emitted.
CodeLaid(src, bs, tasks, ph) ==
    \/ bs = <<>> /\ tasks = <<>> /\ ph = "parse"
    \/ src.symbols = {} /\ WindowsLaid(src, bs) /\ ph # "parse"
    \/ CodeWork(src, bs, tasks) /\ (ph # "parse" => tasks = <<>>)
LaidInv == format = "code" => CodeLaid(source, blocks, todo, phase)

LEMMA CodePlaced ==
    ASSUME TypeInv, CodeStep, TypeInv', CodeNumbers(blocks, counters, todo, phase), CodeLaid(source, blocks, todo, phase)
    PROVE  CodeLaid(source, blocks', todo', phase') /\ source' = source
<1>1. format = "code" /\ source' = source /\ phase = "parse"
  BY DEF CodeStep, BeginModule, EmitSymbol, EmitContainer, EmitGaps, EmitWindows, CodeEnd, Performs, Parses, file
<1>2. GapsLeft(blocks, todo)
  BY <1>1 DEF CodeNumbers
<1>3. blocks = <<>> \/ CodeWork(source, blocks, todo)
  BY <1>1 DEF CodeLaid
<1>4. CodeWork(source, blocks, todo) => blocks # <<>>
  BY DEF CodeWork, Sites
<1>5. todo # <<>> => CodeWork(source, blocks, todo)
  BY <1>1 DEF CodeLaid
<1>6. CASE BeginModule
  <2>1. CodeWork(source, blocks', todo') /\ phase' = "parse"
    BY <1>1, <1>6, BeginPlaced DEF BeginModule
  <2> QED
    BY <1>1, <2>1 DEF CodeLaid
<1>7. CASE EmitSymbol \/ EmitContainer
  <2>1. todo # <<>> /\ phase' = "parse"
    BY <1>1, <1>7 DEF EmitSymbol, EmitContainer, Performs
  <2>2. CodeWork(source, blocks', todo')
    BY <1>5, <1>7, <2>1, EmitPlaced
  <2> QED
    BY <1>1, <2>1, <2>2 DEF CodeLaid
<1>8. CASE EmitGaps
  <2>1. todo # <<>> /\ phase' = "parse"
    BY <1>1, <1>8 DEF EmitGaps, Performs
  <2>2. CodeWork(source, blocks', todo')
    BY <1>2, <1>5, <1>8, <2>1, GapsPlaced
  <2> QED
    BY <1>1, <2>1, <2>2 DEF CodeLaid
<1>9. CASE EmitWindows
  BY <1>1, <1>9, WindowsPlaced DEF CodeLaid
<1>10. CASE CodeEnd
  <2>1. blocks' = blocks /\ todo' = todo /\ todo = <<>> /\ blocks # <<>>
    BY <1>10 DEF CodeEnd
  <2>2. CodeWork(source, blocks', todo')
    BY <1>3, <2>1
  <2> QED
    BY <1>1, <2>1, <2>2 DEF CodeLaid
<1> QED
  BY <1>6, <1>7, <1>8, <1>9, <1>10 DEF CodeStep

LEMMA LaidKept == TypeInv /\ TypeInv' /\ NumbersInv /\ LaidInv /\ [Next]_vars => LaidInv'
<1> SUFFICES ASSUME TypeInv, TypeInv', NumbersInv, LaidInv, [Next]_vars, format' = "code" PROVE CodeLaid(source', blocks', todo', phase')
  BY DEF LaidInv
<1>1. CASE CodeStep
  <2>1. format = "code"
    BY <1>1 DEF CodeStep, BeginModule, EmitSymbol, EmitContainer, EmitGaps, EmitWindows, CodeEnd, Performs, Parses
  <2>2. CodeNumbers(blocks, counters, todo, phase) /\ CodeLaid(source, blocks, todo, phase)
    BY <2>1 DEF NumbersInv, LaidInv
  <2>3. CodeLaid(source, blocks', todo', phase') /\ source' = source
    BY <1>1, <2>2, CodePlaced
  <2> QED
    BY <2>3
<1>2. CASE Chunk
  <2>1. /\ format = "code" /\ source' = source /\ blocks' = blocks /\ todo' = todo /\ phase = "chunk" /\ phase' = "done"
    BY <1>2 DEF Chunk, ChunkDocument, file
  <2>2. CodeLaid(source, blocks, todo, phase)
    BY <2>1 DEF LaidInv
  <2> QED
    BY <2>1, <2>2 DEF CodeLaid
<1>3. CASE UNCHANGED vars
  <2>1. /\ format = "code" /\ source' = source /\ blocks' = blocks /\ todo' = todo /\ phase' = phase
    BY <1>3 DEF vars, file
  <2> QED
    BY <2>1 DEF LaidInv
<1>4. CASE MarkdownStep
  <2>1. format' = "markdown"
    BY <1>4, MarkdownHeaded
  <2> QED
    BY <2>1
<1>5. CASE OutlineStep
  <2>1. format' = format /\ format # "code"
    BY <1>5 DEF OutlineStep, DocxBlank, DocxHeading, DocxParagraph, DocxRow, HtmlBlank, HtmlOther, HtmlHeading, HtmlPre, HtmlItem,
                HtmlParagraph, ReadSlide, ReadShape, SkipShape, BeginTable, ReadRow, ReadNotes, AddRoot, ReadRecord, SkipScalar,
                OutlineEnd, Docx, Html, Pptx, Reads, file
  <2> QED
    BY <2>1
<1>6. CASE PdfStep
  <2>1. format' = format /\ format = "pdf"
    BY <1>6 DEF PdfStep, SkipElement, AddTitle, AddTable, AddChild, PdfEnd, ReadsElement, file
  <2> QED
    BY <2>1
<1> QED
  BY <1>1, <1>2, <1>3, <1>4, <1>5, <1>6 DEF Next, Parse

LEMMA LaidHolds == Spec => [](TypeInv /\ LaidInv)
<1>1. Init => LaidInv
  BY DEF Init, BlocksInit, CodeInit, LaidInv, CodeLaid
<1>2. TypeInv /\ NumbersInv /\ TypeInv' /\ LaidInv /\ [Next]_vars => LaidInv'
  BY LaidKept
<1>3. Spec => [](TypeInv /\ NumbersInv)
  BY NumbersHold
<1>4. Spec => []LaidInv
  BY <1>1, <1>2, <1>3, PTL DEF Spec
<1> QED
  BY <1>3, <1>4, PTL

----------------------------------------------------------------------------
(* What blocks of code have in common, and what they hang below.           *)

LEMMA SameSymbol ==
    ASSUME FileInv, format = "code", NEW b, NEW s, NEW t, SymAt(source, b, s), SymAt(source, b, t)
    PROVE  s = t
<1>1. s \in source.symbols /\ t \in source.symbols /\ UnitsFor(source, s) = UnitsFor(source, t)
  BY DEF SymAt
<1>2. Nested(source.symbols)
  BY SpansAre
<1>3. s[1] \in t[1]..t[2] /\ t[1] \in s[1]..s[2]
  BY <1>1, UnitsIn
<1>4. s[1] \in Nat /\ s[2] \in Nat /\ t[1] \in Nat /\ t[2] \in Nat
  BY <1>1, <1>2 DEF Nested
<1>5. s[1] = t[1] /\ s[1] <= t[2] /\ t[1] <= s[2]
  BY <1>3, <1>4
<1> QED
  BY <1>1, <1>2, <1>4, <1>5, TwoSpans DEF In

\* Where the block of a symbol stands, and that of what is between symbols.
LEMMA SymbolStands ==
    ASSUME FileInv, format = "code", NEW bs, Forest(bs), Sites(source, bs), NEW i \in 2..Len(bs), NEW s,
           SymAt(source, bs[i], s)
    PROVE  /\ bs[i].type # "code_block"
           /\ \E o : OwnerAt(source, bs, bs[i].parent, o) /\ s \in Kids(source.symbols, o)
<1>1. bs[i].type # "code_block"
  BY DEF SymAt
<1>2. PICK o : OwnerAt(source, bs, bs[i].parent, o) /\ Standing(source, bs[i], o)
  BY DEF Sites, Stands
<1>3. PICK t \in Kids(source.symbols, o) : SymAt(source, bs[i], t)
  BY <1>1, <1>2 DEF Standing
<1>4. s = t
  BY <1>3, SameSymbol
<1> QED
  BY <1>1, <1>2, <1>3, <1>4

LEMMA BlockStands ==
    ASSUME NEW bs, Sites(source, bs), NEW i \in 2..Len(bs)
    PROVE  \/ bs[i].type # "code_block" /\ \E s : SymAt(source, bs[i], s)
           \/ bs[i].type = "code_block" /\ \E o : OwnerAt(source, bs, bs[i].parent, o) /\ bs[i].units \subseteq Free(source, o)
<1>1. PICK o : OwnerAt(source, bs, bs[i].parent, o) /\ Standing(source, bs[i], o)
  BY DEF Sites, Stands
<1> QED
  BY <1>1 DEF Standing

\* One block for a symbol: two would hang below the same block and share its
\* first word.
LEMMA OneBlock ==
    ASSUME FileInv, format = "code", NEW bs, Forest(bs), Sites(source, bs), InRow(bs), NEW s,
           NEW i \in 2..Len(bs), NEW j \in 2..Len(bs), SymAt(source, bs[i], s), SymAt(source, bs[j], s)
    PROVE  i = j
<1> DEFINE Alone(n) == \A k, l \in 2..n : \A t : SymAt(source, bs[k], t) /\ SymAt(source, bs[l], t) => k = l
           Good == {n \in Nat : n <= Len(bs) => Alone(n)}
<1>1. PICK m \in Nat : m = Len(bs)
  BY ForestTyped
<1>2. Nested(source.symbols)
  BY SpansAre
<1>3. ASSUME NEW n \in 1..m, Alone(n - 1), NEW k \in 2..n, NEW l \in 2..n, k < l, NEW t,
             SymAt(source, bs[k], t), SymAt(source, bs[l], t)
      PROVE  FALSE
  <2>1. k \in 2..m /\ l \in 2..m /\ k \in 1..m /\ l \in 1..m
    OBVIOUS
  <2>2. PICK o : OwnerAt(source, bs, bs[k].parent, o) /\ t \in Kids(source.symbols, o)
    BY <1>1, <1>3, <2>1, SymbolStands
  <2>3. PICK p : OwnerAt(source, bs, bs[l].parent, p) /\ t \in Kids(source.symbols, p)
    BY <1>1, <1>3, <2>1, SymbolStands
  <2>4. o = p
    BY <1>2, <2>2, <2>3, OneOwner DEF Kids
  <2>5. PICK x \in Nat, y \in Nat : x = bs[k].parent /\ y = bs[l].parent /\ x < k /\ y < l
    BY <1>1, <2>1, ForestTyped DEF Forest
  <2>6. x = y
    <3>1. CASE o = Outside
      BY <2>2, <2>3, <2>4, <2>5, <3>1 DEF OwnerAt
    <3>2. CASE o # Outside
      <4>1. x \in 2..m /\ y \in 2..m /\ SymAt(source, bs[x], o) /\ SymAt(source, bs[y], o)
        BY <1>1, <2>2, <2>3, <2>4, <2>5, <3>2 DEF OwnerAt
      <4>2. x \in 2..n - 1 /\ y \in 2..n - 1
        BY <2>5, <4>1
      <4> QED
        BY <1>3, <4>1, <4>2
    <3> QED
      BY <3>1, <3>2
  <2>7. bs[k].type # "code_block" /\ bs[l].type # "code_block"
    BY <1>1, <1>3, <2>1, SymbolStands
  <2>8. Precedes(bs[k].units, bs[l].units)
    BY <1>1, <1>3, <2>1, <2>5, <2>6, <2>7 DEF InRow, Siblings
  <2>9. t \in source.symbols /\ t[1] \in bs[k].units /\ t[1] \in bs[l].units
    BY <1>3, UnitsIn DEF SymAt
  <2>10. t[1] \in Nat
    BY <1>2, <2>9 DEF Nested
  <2> QED
    BY <2>8, <2>9, <2>10 DEF Precedes
<1>4. 0 \in Good
  OBVIOUS
<1>5. ASSUME NEW n \in 1..m, n - 1 \in Good PROVE n \in Good
  <2>1. Alone(n - 1)
    BY <1>1, <1>5
  <2>2. ASSUME NEW k \in 2..n, NEW l \in 2..n, NEW t, SymAt(source, bs[k], t), SymAt(source, bs[l], t) PROVE k = l
    <3>1. ~ (k < l)
      BY <1>3, <2>1, <2>2
    <3>2. ~ (l < k)
      BY <1>3, <2>1, <2>2
    <3> QED
      BY <3>1, <3>2
  <2> QED
    BY <2>2
<1> HIDE DEF Good
<1>6. 0..m \subseteq Good
  BY <1>4, <1>5, UpToInduct
<1>7. m \in Good
  BY <1>6
<1>8. Alone(m)
  BY <1>1, <1>7 DEF Good
<1> QED
  BY <1>1, <1>8

LEMMA OneOwnerBlock ==
    ASSUME FileInv, format = "code", NEW bs, Forest(bs), Sites(source, bs), InRow(bs), NEW o, NEW p, NEW q,
           OwnerAt(source, bs, p, o), OwnerAt(source, bs, q, o)
    PROVE  p = q
<1>1. CASE o = Outside
  BY <1>1 DEF OwnerAt
<1>2. CASE o # Outside
  BY <1>2, OneBlock DEF OwnerAt
<1> QED
  BY <1>1, <1>2

\* What a block hangs below is all that the one right above it hangs below, and that.
LEMMA AboveIs ==
    ASSUME Forest(blocks), NEW i \in 1..Len(blocks)
    PROVE  Above(i) = {blocks[i].parent} \cup Above(blocks[i].parent)
<1>1. PICK m \in Nat : m = Len(blocks)
  BY ForestTyped
<1>2. PICK par : par = [b \in 1..m |-> blocks[b].parent]
  OBVIOUS
<1>3. \A b \in 1..m : par[b] = blocks[b].parent /\ par[b] \in 0..m
  BY <1>1, <1>2, ForestTyped DEF Root
<1> DEFINE Up(f) == f = [b \in 0..m |-> IF b = 0 THEN {} ELSE {blocks[b].parent} \cup f[blocks[b].parent]]
           Closed(S) == \A x \in S : x \in 1..m => par[x] \in S
           OnWay(p) == {q \in 0..m : \A S \in SUBSET (0..m) : Closed(S) /\ p \in S => q \in S}
           g == [b \in 0..m |-> IF b = 0 THEN {} ELSE OnWay(par[b])]
<1>4. ASSUME NEW b \in 1..m PROVE g[b] = {par[b]} \cup g[par[b]]
  <2>1. PICK p : p = par[b] /\ p \in 0..m
    BY <1>3
  <2>2. g[b] = OnWay(p)
    BY <2>1
  <2>3. CASE p = 0
    <3>1. Closed({0}) /\ {0} \in SUBSET (0..m) /\ 0 \in {0}
      OBVIOUS
    <3>2. OnWay(0) \subseteq {0}
      BY <3>1
    <3>3. 0 \in OnWay(0)
      OBVIOUS
    <3>4. g[0] = {}
      OBVIOUS
    <3> HIDE DEF OnWay, g
    <3> QED
      BY <2>1, <2>2, <2>3, <3>2, <3>3, <3>4
  <2>4. CASE p # 0
    <3>1. p \in 1..m
      BY <2>1, <2>4
    <3>2. PICK r : r = par[p] /\ r \in 0..m
      BY <1>3, <3>1
    <3>3. g[p] = OnWay(r)
      BY <2>1, <3>1, <3>2
    <3>4. p \in OnWay(p)
      BY <2>1
    <3>5. ASSUME NEW q \in OnWay(r) PROVE q \in OnWay(p)
      <4>1. q \in 0..m
        OBVIOUS
      <4>2. ASSUME NEW S \in SUBSET (0..m), Closed(S), p \in S PROVE q \in S
        <5>1. r \in S
          BY <3>1, <3>2, <4>2
        <5> QED
          BY <4>2, <5>1
      <4> QED
        BY <4>1, <4>2
    <3>6. ASSUME NEW q \in OnWay(p) PROVE q \in {p} \cup OnWay(r)
      <4>1. PICK S : S = {p} \cup OnWay(r)
        OBVIOUS
      <4>2. S \in SUBSET (0..m) /\ p \in S
        BY <2>1, <4>1
      <4>3. r \in OnWay(r)
        BY <3>2
      <4>4. ASSUME NEW x \in S, x \in 1..m PROVE par[x] \in S
        <5>1. CASE x = p
          BY <3>2, <4>1, <4>3, <5>1
        <5>2. CASE x \in OnWay(r)
          <6>1. PICK y : y = par[x] /\ y \in 0..m
            BY <1>3, <4>4
          <6>2. ASSUME NEW V \in SUBSET (0..m), Closed(V), r \in V PROVE y \in V
            <7>1. x \in V
              BY <5>2, <6>2
            <7> QED
              BY <4>4, <6>1, <6>2, <7>1
          <6>3. y \in OnWay(r)
            BY <6>1, <6>2
          <6> QED
            BY <4>1, <6>1, <6>3
        <5> QED
          BY <4>1, <4>4, <5>1, <5>2
      <4>5. Closed(S)
        BY <4>4
      <4> QED
        BY <4>1, <4>2, <4>5
    <3> HIDE DEF OnWay, g
    <3>7. OnWay(p) = {p} \cup OnWay(r)
      BY <3>4, <3>5, <3>6
    <3> QED
      BY <2>1, <2>2, <3>3, <3>7
  <2> QED
    BY <2>3, <2>4
<1>5. \E f : Up(f)
  <2>1. PICK h : h = g
    OBVIOUS
  <2>2. h = [b \in 0..m |-> h[b]] /\ h[0] = {}
    BY <2>1
  <2> HIDE DEF g
  <2>3. \A b \in 1..m : h[b] = {blocks[b].parent} \cup h[blocks[b].parent]
    BY <1>3, <1>4, <2>1
  <2>4. \A b \in 0..m : b = 0 \/ b \in 1..m
    OBVIOUS
  <2>5. \A b \in 0..m : h[b] = IF b = 0 THEN {} ELSE {blocks[b].parent} \cup h[blocks[b].parent]
    BY <2>2, <2>3, <2>4
  <2>6. Up(h)
    BY <2>2, <2>5
  <2> QED
    BY <2>6
<1>6. PICK f : f = CHOOSE u : Up(u)
  OBVIOUS
<1>7. Up(f)
  BY <1>5, <1>6
<1>8. \A b : Above(b) = f[b]
  BY <1>1, <1>6 DEF Above
<1>9. i \in 0..m /\ i # 0
  BY <1>1
<1>10. f[i] = {blocks[i].parent} \cup f[blocks[i].parent]
  BY <1>7, <1>9
<1> QED
  BY <1>8, <1>10

\* The blocks of the symbols around one are above what hangs below it.
LEMMA SymbolsAbove ==
    ASSUME FileInv, format = "code", Forest(blocks), Sites(source, blocks), NEW j \in 2..Len(blocks), NEW o,
           OwnerAt(source, blocks, blocks[j].parent, o), o # Outside, NEW t \in source.symbols, t = o \/ In(o, t)
    PROVE  \E i \in 2..Len(blocks) : i < j /\ i \in Above(j) /\ SymAt(source, blocks[i], t)
<1> DEFINE Up(k) == \A p : OwnerAt(source, blocks, blocks[k].parent, p) /\ p # Outside /\ (t = p \/ In(p, t))
                         => \E i \in 2..Len(blocks) : i < k /\ i \in Above(k) /\ SymAt(source, blocks[i], t)
           Good == {n \in Nat : \A k \in 2..Len(blocks) : k <= n => Up(k)}
<1>1. PICK m \in Nat : m = Len(blocks)
  BY ForestTyped
<1>2. 0 \in Good
  BY <1>1
<1>3. ASSUME NEW n \in 1..m, n - 1 \in Good, n \in 2..m, NEW p, OwnerAt(source, blocks, blocks[n].parent, p), p # Outside,
             t = p \/ In(p, t)
      PROVE  \E i \in 2..m : i < n /\ i \in Above(n) /\ SymAt(source, blocks[i], t)
  <2>1. PICK b \in Nat : b = blocks[n].parent /\ b < n /\ b \in 2..m /\ SymAt(source, blocks[b], p)
    <3>1. PICK b \in Nat : b = blocks[n].parent /\ b < n
      BY <1>1, ForestTyped DEF Forest
    <3> QED
      BY <1>1, <1>3, <3>1 DEF OwnerAt
  <2>2. Above(n) = {b} \cup Above(b)
    BY <1>1, <2>1, AboveIs
  <2>3. CASE t = p
    BY <2>1, <2>2, <2>3
  <2>4. CASE t # p
    <3>1. PICK q : OwnerAt(source, blocks, blocks[b].parent, q) /\ p \in Kids(source.symbols, q)
      BY <1>1, <2>1, SymbolStands
    <3>2. q # Outside /\ (t = q \/ In(q, t))
      BY <1>3, <2>4, <3>1 DEF Kids, InnermostIn
    <3>3. b <= n - 1 /\ b \in 2..Len(blocks)
      BY <1>1, <2>1
    <3>4. Up(b)
      BY <1>3, <3>3
    <3>5. PICK i \in 2..m : i < b /\ i \in Above(b) /\ SymAt(source, blocks[i], t)
      BY <1>1, <3>1, <3>2, <3>4
    <3>6. i < n
      BY <2>1, <3>5
    <3> QED
      BY <2>2, <3>5, <3>6
  <2> QED
    BY <2>3, <2>4
<1>4. ASSUME NEW n \in 1..m, n - 1 \in Good PROVE n \in Good
  <2>1. ASSUME NEW k \in 2..m, k <= n PROVE Up(k)
    <3>1. CASE k <= n - 1
      BY <1>1, <1>4, <3>1
    <3>2. CASE k = n
      BY <1>1, <1>3, <1>4, <3>2
    <3> QED
      BY <2>1, <3>1, <3>2
  <2> HIDE DEF Up
  <2> QED
    BY <1>1, <2>1
<1> HIDE DEF Good
<1>5. 0..m \subseteq Good
  BY <1>2, <1>4, UpToInduct
<1>6. m \in Good
  BY <1>5
<1>7. Up(j)
  BY <1>1, <1>6 DEF Good
<1> QED
  BY <1>7

\* What a symbol has is not between symbols.
LEMMA KidHolds ==
    ASSUME FileInv, format = "code", NEW t \in source.symbols, NEW o, o = Outside \/ (o \in source.symbols /\ In(t, o)),
           NEW u \in t[1]..t[2]
    PROVE  u \notin Free(source, o) /\ Kids(source.symbols, o) # {}
<1>1. Nested(source.symbols)
  BY SpansAre
<1>2. PICK c \in Kids(source.symbols, o) : t = c \/ In(t, c)
  BY <1>1, KidAround
<1>3. c \in source.symbols /\ c[1] \in Nat /\ c[2] \in Nat /\ t[1] \in Nat /\ t[2] \in Nat
  BY <1>1, <1>2 DEF Kids, Nested
<1>4. u \in c[1]..c[2]
  BY <1>2, <1>3 DEF In
<1> QED
  BY <1>2, <1>4 DEF Free, BareIn

LEMMA FreeIs ==
    ASSUME FileInv, format = "code", NEW o, o = Outside \/ o \in source.symbols, NEW u \in Free(source, o)
    PROVE  u \in Nat /\ (o # Outside => u \in o[1]..o[2] /\ HeadEnd(source, o) < u)
<1>1. u \in Area(source, o)[1]..Area(source, o)[2]
  BY DEF Free, BareIn
<1>2. CASE o = Outside
  <2>1. PICK n \in Nat : n = Len(source.units)
    BY SymbolsAre
  <2>2. Area(source, o) = <<1, n>>
    BY <1>2, <2>1 DEF Area
  <2> QED
    BY <1>1, <1>2, <2>1, <2>2
<1>3. CASE o # Outside
  <2>1. PICK h \in Nat : h = HeadEnd(source, o) /\ o[1] <= h /\ h <= o[2]
    BY <1>3, HeadIs
  <2>2. o[1] \in Nat /\ o[2] \in Nat
    BY <1>3, SymbolsAre
  <2>3. Area(source, o) = <<h + 1, o[2]>>
    BY <1>3, <2>1 DEF Area
  <2> QED
    BY <1>1, <1>3, <2>1, <2>2, <2>3
<1> QED
  BY <1>2, <1>3

LEMMA UnitsBefore ==
    ASSUME FileInv, format = "code", NEW s \in source.symbols, Kids(source.symbols, s) # {}, NEW u \in UnitsFor(source, s)
    PROVE  u <= HeadEnd(source, s)
<1>1. s[1] \in Nat
  BY SymbolsAre
<1>2. PICK h \in Nat : h = HeadEnd(source, s)
  BY HeadIs
<1> QED
  BY <1>1, <1>2 DEF UnitsFor, Words

LEMMA SymbolInside ==
    ASSUME FileInv, format = "code", Forest(blocks), Sites(source, blocks), InRow(blocks),
           NEW i \in 2..Len(blocks), NEW j \in 2..Len(blocks), NEW s, SymAt(source, blocks[i], s),
           NEW o, OwnerAt(source, blocks, blocks[j].parent, o), o # Outside, s = o \/ In(o, s)
    PROVE  i < j /\ i \in Above(j)
<1>1. s \in source.symbols
  BY DEF SymAt
<1>2. PICK k \in 2..Len(blocks) : k < j /\ k \in Above(j) /\ SymAt(source, blocks[k], s)
  BY <1>1, SymbolsAbove
<1>3. k = i
  BY <1>2, OneBlock
<1> QED
  BY <1>2, <1>3

\* Two blocks that share a word are those of two symbols, or the second is of what is between them.
LEMMA TwoSymbols ==
    ASSUME FileInv, format = "code", Forest(blocks), Sites(source, blocks), InRow(blocks),
           NEW i \in 2..Len(blocks), NEW j \in 2..Len(blocks), i < j, NEW s, SymAt(source, blocks[i], s),
           NEW t, SymAt(source, blocks[j], t), NEW u, u \in blocks[i].units, u \in blocks[j].units
    PROVE  blocks[i].type = "code_container" /\ i \in Above(j)
<1>1. Nested(source.symbols) /\ s \in source.symbols /\ t \in source.symbols
  BY SpansAre DEF SymAt
<1>2. u \in s[1]..s[2] /\ u \in t[1]..t[2]
  BY <1>1, UnitsIn DEF SymAt
<1>3. PICK m \in Nat : m = Len(blocks)
  BY ForestTyped
<1>4. s # t
  <2>1. i # j
    BY <1>3
  <2> QED
    BY <2>1, OneBlock
<1>5. s[1] \in Nat /\ s[2] \in Nat /\ t[1] \in Nat /\ t[2] \in Nat
  BY <1>1 DEF Nested
<1>6. In(s, t) \/ In(t, s)
  <2>1. ~ (s[2] < t[1]) /\ ~ (t[2] < s[1])
    BY <1>2, <1>5
  <2> QED
    BY <1>1, <1>4, <2>1, TwoSpans
<1>7. ~ In(s, t)
  <2> SUFFICES ASSUME In(s, t) PROVE FALSE
    OBVIOUS
  <2>1. PICK o : OwnerAt(source, blocks, blocks[i].parent, o) /\ s \in Kids(source.symbols, o)
    BY SymbolStands
  <2>2. o # Outside /\ (t = o \/ In(o, t))
    BY <1>1, <2>1 DEF Kids, InnermostIn
  <2>3. j < i
    BY <2>1, <2>2, SymbolInside
  <2> QED
    BY <1>3, <2>3
<1>8. PICK o : OwnerAt(source, blocks, blocks[j].parent, o) /\ t \in Kids(source.symbols, o)
  BY SymbolStands
<1>9. o # Outside /\ (s = o \/ In(o, s))
  BY <1>1, <1>6, <1>7, <1>8 DEF Kids, InnermostIn
<1>10. i \in Above(j)
  BY <1>8, <1>9, SymbolInside
<1>11. Kids(source.symbols, s) # {}
  BY <1>1, <1>6, <1>7, KidAround
<1> QED
  BY <1>10, <1>11 DEF SymAt

LEMMA SymbolAndGap ==
    ASSUME FileInv, format = "code", Forest(blocks), Sites(source, blocks), InRow(blocks),
           NEW i \in 2..Len(blocks), NEW j \in 2..Len(blocks), NEW s, SymAt(source, blocks[i], s),
           NEW o, OwnerAt(source, blocks, blocks[j].parent, o), blocks[j].units \subseteq Free(source, o),
           NEW u, u \in blocks[i].units, u \in blocks[j].units
    PROVE  i < j /\ blocks[i].type = "code_container" /\ i \in Above(j)
<1>1. Nested(source.symbols) /\ s \in source.symbols /\ u \in UnitsFor(source, s)
  BY SpansAre DEF SymAt
<1>2. u \in s[1]..s[2] /\ u \in Free(source, o)
  BY <1>1, UnitsIn
<1>3. o # Outside => o \in source.symbols /\ Kids(source.symbols, o) # {}
  BY DEF OwnerAt, SymAt
<1>4. ~ (o = Outside \/ In(s, o))
  BY <1>1, <1>2, <1>3, KidHolds
<1>5. u \in Nat /\ u \in o[1]..o[2] /\ HeadEnd(source, o) < u
  BY <1>2, <1>3, <1>4, FreeIs
<1>6. s # o
  <2> SUFFICES ASSUME s = o PROVE FALSE
    OBVIOUS
  <2>1. u <= HeadEnd(source, o)
    BY <1>1, <1>3, <1>4, UnitsBefore
  <2>2. HeadEnd(source, o) \in Nat
    BY <1>3, <1>4, HeadIs
  <2> QED
    BY <1>5, <2>1, <2>2
<1>7. s[1] \in Nat /\ s[2] \in Nat /\ o[1] \in Nat /\ o[2] \in Nat
  BY <1>1, <1>3, <1>4 DEF Nested
<1>8. In(o, s)
  <2>1. ~ (s[2] < o[1]) /\ ~ (o[2] < s[1])
    BY <1>2, <1>5, <1>7
  <2> QED
    BY <1>1, <1>3, <1>4, <1>6, <2>1, TwoSpans
<1>9. i < j /\ i \in Above(j)
  BY <1>4, <1>8, SymbolInside
<1>10. Kids(source.symbols, s) # {}
  BY <1>1, <1>3, <1>4, <1>8, KidAround
<1> QED
  BY <1>9, <1>10 DEF SymAt

LEMMA TwoGaps ==
    ASSUME FileInv, format = "code", Forest(blocks), Sites(source, blocks), InRow(blocks),
           NEW i \in 2..Len(blocks), NEW j \in 2..Len(blocks), i < j,
           blocks[i].type = "code_block", blocks[j].type = "code_block",
           NEW o, OwnerAt(source, blocks, blocks[i].parent, o), blocks[i].units \subseteq Free(source, o),
           NEW p, OwnerAt(source, blocks, blocks[j].parent, p), blocks[j].units \subseteq Free(source, p),
           NEW u, u \in blocks[i].units, u \in blocks[j].units
    PROVE  FALSE
<1>1. Nested(source.symbols) /\ u \in Free(source, o) /\ u \in Free(source, p)
  BY SpansAre
<1>2. (o # Outside => o \in source.symbols) /\ (p # Outside => p \in source.symbols)
  BY DEF OwnerAt, SymAt
<1>3. u \in Nat /\ (o # Outside => u \in o[1]..o[2]) /\ (p # Outside => u \in p[1]..p[2])
  BY <1>1, <1>2, FreeIs
<1>4. CASE o = p
  <2>1. blocks[i].parent = blocks[j].parent
    BY <1>4, OneOwnerBlock
  <2>2. Precedes(blocks[i].units, blocks[j].units)
    BY <2>1 DEF InRow, Siblings
  <2> QED
    BY <1>3, <2>2 DEF Precedes
<1>5. ~ (p # Outside /\ (o = Outside \/ (o # Outside /\ In(p, o))))
  BY <1>1, <1>2, <1>3, KidHolds
<1>6. ~ (o # Outside /\ (p = Outside \/ (p # Outside /\ In(o, p))))
  BY <1>1, <1>2, <1>3, KidHolds
<1>7. CASE o # p
  <2>1. o # Outside /\ p # Outside /\ ~ In(o, p) /\ ~ In(p, o)
    BY <1>5, <1>6, <1>7
  <2>2. o[1] \in Nat /\ o[2] \in Nat /\ p[1] \in Nat /\ p[2] \in Nat
    BY <1>1, <1>2, <2>1 DEF Nested
  <2>3. o[2] < p[1] \/ p[2] < o[1]
    BY <1>1, <1>2, <1>7, <2>1, TwoSpans
  <2> QED
    BY <1>3, <2>1, <2>2, <2>3
<1> QED
  BY <1>4, <1>7

\* A word that two blocks have is in the header of a symbol and in what hangs below it.
LEMMA WordTwice ==
    ASSUME FileInv, format = "code", Forest(blocks), Sites(source, blocks), InRow(blocks),
           NEW i \in 1..Len(blocks), NEW j \in 1..Len(blocks), i < j, NEW u, u \in blocks[i].units, u \in blocks[j].units
    PROVE  blocks[i].type = "code_container" /\ i \in Above(j)
<1>1. blocks[1].units = {}
  BY DEF Sites
<1>2. i \in 2..Len(blocks) /\ j \in 2..Len(blocks)
  <2>1. PICK m \in Nat : m = Len(blocks)
    BY ForestTyped
  <2>2. i # 1 /\ j # 1
    BY <1>1
  <2> QED
    BY <2>1, <2>2
<1>3. \/ \E s : SymAt(source, blocks[i], s)
      \/ /\ blocks[i].type = "code_block"
         /\ \E o : OwnerAt(source, blocks, blocks[i].parent, o) /\ blocks[i].units \subseteq Free(source, o)
  BY <1>2, BlockStands
<1>4. \/ \E s : SymAt(source, blocks[j], s)
      \/ /\ blocks[j].type = "code_block"
         /\ \E o : OwnerAt(source, blocks, blocks[j].parent, o) /\ blocks[j].units \subseteq Free(source, o)
  BY <1>2, BlockStands
<1>5. CASE \E s : SymAt(source, blocks[i], s)
  <2>1. PICK s : SymAt(source, blocks[i], s)
    BY <1>5
  <2>2. CASE \E t : SymAt(source, blocks[j], t)
    BY <1>2, <2>1, <2>2, TwoSymbols
  <2>3. CASE \E o : OwnerAt(source, blocks, blocks[j].parent, o) /\ blocks[j].units \subseteq Free(source, o)
    BY <1>2, <2>1, <2>3, SymbolAndGap
  <2> QED
    BY <1>4, <2>2, <2>3
<1>6. CASE /\ blocks[i].type = "code_block"
           /\ \E o : OwnerAt(source, blocks, blocks[i].parent, o) /\ blocks[i].units \subseteq Free(source, o)
  <2>1. PICK o : OwnerAt(source, blocks, blocks[i].parent, o) /\ blocks[i].units \subseteq Free(source, o)
    BY <1>6
  <2>2. CASE \E t : SymAt(source, blocks[j], t)
    <3>1. j < i
      BY <1>2, <2>1, <2>2, SymbolAndGap
    <3> QED
      BY <3>1
  <2>3. CASE /\ blocks[j].type = "code_block"
             /\ \E p : OwnerAt(source, blocks, blocks[j].parent, p) /\ blocks[j].units \subseteq Free(source, p)
    BY <1>2, <1>6, <2>1, <2>3, TwoGaps
  <2> QED
    BY <1>4, <2>2, <2>3
<1> QED
  BY <1>3, <1>5, <1>6

LEMMA CodeOnce ==
    ASSUME TypeInv, LaidInv, format = "code"
    PROVE  EveryUnitOnce
<1>1. FileInv /\ Forest(blocks) /\ CodeLaid(source, blocks, todo, phase)
  BY DEF TypeInv, LaidInv
<1>2. DOMAIN blocks = 1..Len(blocks) /\ Len(blocks) \in Nat
  BY <1>1, ForestTyped
<1> SUFFICES ASSUME Parsed, NEW u \in Accepted
             PROVE  /\ Holders(u) # {}
                    /\ \A i, j \in Holders(u) : i < j => blocks[i].type = "code_container" /\ i \in Above(j)
  BY DEF EveryUnitOnce
<1>3. u \in AllWords(source) /\ u \in Nat
  <2>1. PICK n \in Nat : n = Len(source.units)
    BY <1>1, SymbolsAre
  <2> QED
    BY <2>1 DEF Accepted, InSpan, WholeFile, AllWords, Words
<1>4. phase # "parse"
  BY DEF Parsed
<1>5. \A i : i \in Holders(u) <=> i \in 1..Len(blocks) /\ u \in blocks[i].units
  BY <1>2 DEF Holders
<1>6. CASE WindowsLaid(source, blocks)
  <2>1. Held(blocks, u)
    BY <1>3, <1>6 DEF WindowsLaid
  <2>2. ASSUME NEW i \in Holders(u), NEW j \in Holders(u), i < j PROVE FALSE
    <3>1. i # 1 /\ j # 1
      BY <1>5, <1>6 DEF WindowsLaid
    <3>2. i \in 2..Len(blocks) /\ j \in 2..Len(blocks)
      BY <1>2, <1>5, <3>1
    <3>3. Precedes(blocks[i].units, blocks[j].units)
      BY <1>6, <2>2, <3>2 DEF WindowsLaid, InRow, Siblings
    <3> QED
      BY <1>3, <1>5, <3>3 DEF Precedes
  <2> QED
    BY <1>5, <2>1, <2>2 DEF Held
<1>7. CASE CodeWork(source, blocks, todo) /\ todo = <<>>
  <2>1. ~ Reached(todo, u)
    BY <1>7 DEF Reached
  <2>2. Held(blocks, u)
    BY <1>3, <1>7, <2>1 DEF CodeWork, Covered
  <2>3. Sites(source, blocks) /\ InRow(blocks)
    BY <1>7 DEF CodeWork
  <2>4. ASSUME NEW i \in Holders(u), NEW j \in Holders(u), i < j
        PROVE  blocks[i].type = "code_container" /\ i \in Above(j)
    <3>1. i \in 1..Len(blocks) /\ j \in 1..Len(blocks) /\ u \in blocks[i].units /\ u \in blocks[j].units
      BY <1>5
    <3> QED
      BY <1>1, <2>3, <2>4, <3>1, WordTwice
  <2> QED
    BY <1>5, <2>2, <2>4 DEF Held
<1> QED
  BY <1>1, <1>4, <1>6, <1>7 DEF CodeLaid

\* The rows of the blocks of a file of code.
LEMMA CodeRows ==
    ASSUME TypeInv, LaidInv, format = "code"
    PROVE  blocks # <<>> => blocks[1].units = {} /\ InRow(blocks)
BY DEF TypeInv, LaidInv, CodeLaid, CodeWork, WindowsLaid, Sites

LEMMA CodeOrder ==
    ASSUME TypeInv, LaidInv, format = "code"
    PROVE  BlocksInFileOrder
<1>1. Forest(blocks)
  BY DEF TypeInv
<1>2. DOMAIN blocks = 1..Len(blocks) /\ Len(blocks) \in Nat
  BY <1>1, ForestTyped
<1>3. ASSUME NEW i \in 1..Len(blocks), NEW j \in 1..Len(blocks), i < j, blocks[i].units # {}, blocks[j].units # {},
             Siblings(blocks[i], blocks[j])
      PROVE  Min(blocks[i].units) < Min(blocks[j].units)
  <2>1. blocks # <<>>
    BY <1>2
  <2>2. blocks[1].units = {} /\ InRow(blocks)
    BY <2>1, CodeRows
  <2>3. i \in 2..Len(blocks) /\ j \in 2..Len(blocks)
    <3>1. i # 1 /\ j # 1
      BY <1>3, <2>2
    <3> QED
      BY <1>2, <3>1
  <2>4. Precedes(blocks[i].units, blocks[j].units)
    BY <1>3, <2>2, <2>3 DEF InRow
  <2>5. blocks[i].units \subseteq Nat /\ blocks[j].units \subseteq Nat
    BY <1>1, ForestTyped DEF Block
  <2>6. Min(blocks[i].units) \in blocks[i].units /\ Min(blocks[j].units) \in blocks[j].units
    BY <1>3, <2>5, LeastIs
  <2> QED
    BY <2>4, <2>6 DEF Precedes
<1>4. ASSUME NEW i \in 1..Len(blocks), NEW j \in 1..Len(blocks),
             (blocks[i].type = "code_block") = (blocks[j].type = "code_block") /\ blocks[i].parent = blocks[j].parent
      PROVE  Siblings(blocks[i], blocks[j])
  BY <1>4 DEF Siblings
<1> QED
  BY <1>2, <1>3, <1>4 DEF BlocksInFileOrder

LEMMA FirstUnit ==
    ASSUME FileInv, format = "code", NEW s \in source.symbols
    PROVE  Min(UnitsFor(source, s)) = s[1]
<1>1. s[1] \in Nat /\ s[2] \in Nat
  BY SymbolsAre
<1>2. PICK U : U = UnitsFor(source, s) /\ U \subseteq s[1]..s[2] /\ s[1] \in U
  BY UnitsIn
<1>3. U \subseteq Nat /\ U # {}
  BY <1>1, <1>2
<1>4. Min(U) \in U /\ Min(U) <= s[1]
  BY <1>2, <1>3, LeastIs
<1>5. s[1] <= Min(U) /\ Min(U) \in Nat
  BY <1>1, <1>2, <1>4
<1> QED
  BY <1>1, <1>2, <1>4, <1>5

\* The symbols that have a word are the innermost one and those around it.
LEMMA InnerIs ==
    ASSUME NEW syms, Nested(syms), NEW around, around \subseteq syms, NEW o \in around, \A t \in around : t = o \/ In(o, t)
    PROVE  (CHOOSE s \in around : \A t \in around : t[1] <= s[1]) = o
<1> DEFINE Inner(s) == s \in around /\ \A t \in around : t[1] <= s[1]
<1>1. \A t \in around : t[1] \in Nat /\ (t = o \/ t[1] < o[1])
  BY DEF Nested, In
<1>2. Inner(o)
  BY <1>1
<1>3. ASSUME NEW s, Inner(s) PROVE s = o
  BY <1>1, <1>3
<1>4. PICK c : c = CHOOSE s : Inner(s)
  OBVIOUS
<1>5. Inner(c)
  BY <1>2, <1>4
<1>6. c = o
  BY <1>3, <1>5
<1> QED
  BY <1>4, <1>6

\* The owner of a block of code is the innermost symbol around its first word.
LEMMA OwnerAround ==
    ASSUME FileInv, format = "code", NEW bs, Forest(bs), Sites(source, bs), NEW i \in 2..Len(bs), bs[i].units # {}
    PROVE  \E o : /\ OwnerAt(source, bs, bs[i].parent, o)
                  /\ o # Outside => o[1] < Min(bs[i].units) /\ Min(bs[i].units) <= o[2]
                  /\ \A t \in source.symbols : t[1] < Min(bs[i].units) /\ Min(bs[i].units) <= t[2]
                                                   => o # Outside /\ (t = o \/ In(o, t))
<1>1. Nested(source.symbols)
  BY SpansAre
<1>2. CASE \E s : SymAt(source, bs[i], s)
  <2>1. PICK s : SymAt(source, bs[i], s)
    BY <1>2
  <2>2. PICK o : OwnerAt(source, bs, bs[i].parent, o) /\ s \in Kids(source.symbols, o)
    BY <2>1, SymbolStands
  <2>3. s \in source.symbols /\ Min(bs[i].units) = s[1]
    BY <2>1, FirstUnit DEF SymAt
  <2>4. s[1] \in Nat /\ s[2] \in Nat /\ s[1] <= s[2]
    BY <1>1, <2>3 DEF Nested
  <2>5. o # Outside => In(s, o) /\ o \in source.symbols
    BY <2>2 DEF Kids, InnermostIn
  <2>6. o # Outside => o[1] < s[1] /\ s[1] <= o[2]
    BY <1>1, <2>4, <2>5 DEF In, Nested
  <2>7. ASSUME NEW t \in source.symbols, t[1] < s[1], s[1] <= t[2] PROVE o # Outside /\ (t = o \/ In(o, t))
    <3>1. t[1] \in Nat /\ t[2] \in Nat
      BY <1>1 DEF Nested
    <3>2. s # t /\ ~ (s[2] < t[1]) /\ ~ (t[2] < s[1]) /\ ~ In(t, s)
      BY <2>4, <2>7, <3>1 DEF In
    <3>3. In(s, t)
      BY <1>1, <2>3, <3>2, TwoSpans
    <3> QED
      BY <2>2, <3>3 DEF Kids, InnermostIn
  <2> QED
    BY <2>2, <2>3, <2>6, <2>7
<1>3. CASE \E o : OwnerAt(source, bs, bs[i].parent, o) /\ bs[i].units \subseteq Free(source, o)
  <2>1. PICK o : OwnerAt(source, bs, bs[i].parent, o) /\ bs[i].units \subseteq Free(source, o)
    BY <1>3
  <2>2. PICK p : p = Min(bs[i].units)
    OBVIOUS
  <2>3. p \in bs[i].units
    <3>1. i \in 1..Len(bs)
      BY ForestTyped
    <3>2. bs[i].units \subseteq Nat
      BY <3>1, ForestTyped DEF Block
    <3> QED
      BY <2>2, <3>2, LeastIs
  <2>4. p \in Free(source, o)
    BY <2>1, <2>3
  <2>5. o # Outside => o \in source.symbols
    BY <2>1 DEF OwnerAt, SymAt
  <2>6. p \in Nat /\ (o # Outside => p \in o[1]..o[2] /\ HeadEnd(source, o) < p)
    BY <2>4, <2>5, FreeIs
  <2>7. o # Outside => o[1] < p /\ p <= o[2]
    <3> SUFFICES ASSUME o # Outside PROVE o[1] < p /\ p <= o[2]
      OBVIOUS
    <3>1. PICK h \in Nat : h = HeadEnd(source, o) /\ o[1] <= h
      BY <2>5, HeadIs
    <3>2. o[1] \in Nat /\ o[2] \in Nat
      BY <1>1, <2>5 DEF Nested
    <3> QED
      BY <2>6, <3>1, <3>2
  <2>8. ASSUME NEW t \in source.symbols, t[1] < p, p <= t[2] PROVE o # Outside /\ (t = o \/ In(o, t))
    <3>1. t[1] \in Nat /\ t[2] \in Nat
      BY <1>1 DEF Nested
    <3>2. p \in t[1]..t[2]
      BY <2>6, <2>8, <3>1
    <3>3. ~ (o = Outside \/ (o \in source.symbols /\ In(t, o)))
      BY <2>4, <3>2, KidHolds
    <3>4. o[1] \in Nat /\ o[2] \in Nat /\ o[1] < p /\ p <= o[2]
      BY <1>1, <2>5, <2>7, <3>3 DEF Nested
    <3>5. ~ (t[2] < o[1]) /\ ~ (o[2] < t[1])
      BY <2>6, <2>8, <3>1, <3>4
    <3> QED
      BY <1>1, <2>5, <3>3, <3>5, TwoSpans
  <2> QED
    BY <2>1, <2>2, <2>7, <2>8
<1> QED
  BY <1>2, <1>3, BlockStands

LEMMA CodeNests ==
    ASSUME TypeInv, LaidInv, format = "code"
    PROVE  SymbolsNest
<1>1. FileInv /\ Forest(blocks) /\ CodeLaid(source, blocks, todo, phase) /\ Nested(source.symbols)
  BY SpansAre DEF TypeInv, LaidInv
<1>2. DOMAIN blocks = 1..Len(blocks) /\ Len(blocks) \in Nat
  BY <1>1, ForestTyped
<1>3. ASSUME NEW i \in 1..Len(blocks), blocks[i].units # {}, NEW p, p = Min(blocks[i].units),
             NEW around, around = {s \in source.symbols : s[1] < p /\ p <= s[2]}
      PROVE  IF around = {} THEN blocks[i].parent = 1
             ELSE Min(blocks[blocks[i].parent].units) = (CHOOSE s \in around : \A t \in around : t[1] <= s[1])[1]
  <2>1. blocks[1].units = {}
    BY <1>2, CodeRows
  <2>2. i \in 2..Len(blocks)
    BY <1>2, <1>3, <2>1
  <2>3. CASE source.symbols = {} /\ WindowsLaid(source, blocks)
    BY <1>3, <2>2, <2>3 DEF WindowsLaid
  <2>4. CASE CodeWork(source, blocks, todo)
    <3>1. Sites(source, blocks)
      BY <2>4 DEF CodeWork
    <3>2. PICK o : /\ OwnerAt(source, blocks, blocks[i].parent, o)
                   /\ o # Outside => o[1] < p /\ p <= o[2]
                   /\ \A t \in source.symbols : t[1] < p /\ p <= t[2] => o # Outside /\ (t = o \/ In(o, t))
      BY <1>1, <1>3, <2>2, <3>1, OwnerAround
    <3>3. CASE o = Outside
      BY <1>3, <3>2, <3>3 DEF OwnerAt
    <3>4. CASE o # Outside
      <4>1. o \in source.symbols /\ blocks[blocks[i].parent].units = UnitsFor(source, o)
        BY <3>2, <3>4 DEF OwnerAt, SymAt
      <4>2. o \in around /\ around \subseteq source.symbols /\ \A t \in around : t = o \/ In(o, t)
        BY <1>3, <3>2, <3>4, <4>1
      <4>3. (CHOOSE s \in around : \A t \in around : t[1] <= s[1]) = o
        BY <1>1, <4>2, InnerIs
      <4>4. Min(blocks[blocks[i].parent].units) = o[1]
        BY <1>1, <4>1, FirstUnit
      <4>5. around # {}
        BY <4>2
      <4> QED
        BY <4>3, <4>4, <4>5
    <3> QED
      BY <3>3, <3>4
  <2> QED
    BY <1>1, <1>2, <2>3, <2>4 DEF CodeLaid
<1> DEFINE around(i) == {s \in source.symbols : s[1] < Min(blocks[i].units) /\ Min(blocks[i].units) <= s[2]}
<1>4. ASSUME NEW i \in 1..Len(blocks), blocks[i].units # {}
      PROVE  IF around(i) = {} THEN blocks[i].parent = 1
             ELSE Min(blocks[blocks[i].parent].units) = (CHOOSE s \in around(i) : \A t \in around(i) : t[1] <= s[1])[1]
  <2>1. PICK p, A : p = Min(blocks[i].units) /\ A = around(i)
    OBVIOUS
  <2>2. A = {s \in source.symbols : s[1] < p /\ p <= s[2]}
    BY <2>1
  <2> HIDE DEF around
  <2>3. IF A = {} THEN blocks[i].parent = 1
        ELSE Min(blocks[blocks[i].parent].units) = (CHOOSE s \in A : \A t \in A : t[1] <= s[1])[1]
    BY <1>3, <1>4, <2>1, <2>2
  <2> QED
    BY <2>1, <2>3
<1> SUFFICES ASSUME NEW i \in {i \in DOMAIN blocks : blocks[i].units # {}}
             PROVE  IF around(i) = {} THEN blocks[i].parent = 1
                    ELSE Min(blocks[blocks[i].parent].units) = (CHOOSE s \in around(i) : \A t \in around(i) : t[1] <= s[1])[1]
  BY Zenon DEF SymbolsNest
<1>5. i \in 1..Len(blocks) /\ blocks[i].units # {}
  BY <1>2
<1> HIDE DEF around
<1> QED
  BY <1>4, <1>5

LEMMA CodeOutline ==
    ASSUME TypeInv, LaidInv, format = "code"
    PROVE  OutlineKept
<1>1. SectionsNest
  BY DEF SectionsNest, HasSections
<1> QED
  BY <1>1, CodeOrder, CodeNests DEF OutlineKept

\* No text is lost on the way from a file to the blocks of its parser and none is doubled,
\* but for elements of a web page that stand in others and for the headers of symbols:
\* parse_file, whatever the parser, the file and its size.
THEOREM UnitsKeptOnce == Spec => []EveryUnitOnce
<1>1. TypeInv /\ UnitsInv /\ LaidInv => EveryUnitOnce
  BY PlainOnce, CodeOnce
<1>2. Spec => [](TypeInv /\ UnitsInv)
  BY UnitsHold
<1>3. Spec => [](TypeInv /\ LaidInv)
  BY LaidHolds
<1> QED
  BY <1>1, <1>2, <1>3, PTL

\* The blocks of a file have its outline: they follow each other as in the file, sections
\* hang below the last heading that outranks them and code below the innermost symbol
\* around it, whatever the section stack or _emit_symbol_forest has been through.
THEOREM OutlineIsKept == Spec => []OutlineKept
<1>1. TypeInv /\ UnitsInv /\ NestInv /\ LaidInv => OutlineKept
  BY PlainOutline, CodeOutline
<1>2. Spec => [](TypeInv /\ UnitsInv)
  BY UnitsHold
<1>3. Spec => [](TypeInv /\ NestInv)
  BY NestHolds
<1>4. Spec => [](TypeInv /\ LaidInv)
  BY LaidHolds
<1> QED
  BY <1>1, <1>2, <1>3, <1>4, PTL
=============================================================================
