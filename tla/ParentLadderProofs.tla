------------------------- MODULE ParentLadderProofs -------------------------
(***************************************************************************)
(* Proofs about ParentLadder.                                              *)
(***************************************************************************)
EXTENDS ParentLadder, SequenceLemmas, FiniteSetTheorems

----------------------------------------------------------------------------
\* What lines, elements, blocks and sections are.

Line    == [at : Nat \X Nat, shape : Shapes]
Element ==
  {e \in [id : Nat, kind : {"heading", "table", "text"}, page : 0..MaxPages, endPage : {NoPage},
          level : Int, first : BOOLEAN, lines : SeqOver(Line)] :
     (IsTable(e) => e.lines = <<>>) /\ \A l \in ToSet(e.lines) : l.at[1] = e.id}
Heading == [level : Int, text : SeqOver(Line)]
Block   == [order : Nat, page : 0..MaxPages, lines : SeqOver(Line)]
Sections ==
  [path : SeqOver(Heading), blocks : SeqOver(Block), tables : SeqOver(Element),
   start : 0..MaxPages, end : 0..MaxPages]

\* Sections whose blocks are in their order.
Numbered == {s \in Sections : \A k \in DOMAIN s.blocks : s.blocks[k].order = k - 1}

NotBlank == {l \in Line : l.shape # "blank"}
Tables   == {e \in Element : IsTable(e)}
Texts    == {e \in Element : ~IsTable(e) /\ HasText(e)}

\* What each gives to the document.
LineF    == [e \in Element |-> Visible(e.lines)]
BlockF   == [b \in Block |-> b.lines]
TableF   == [s \in Sections |-> s.tables]
SectionF == [s \in Numbered |-> Join(Title(s), Gather(BlockF, s.blocks))]

LEMMA VisibleIs ==
  ASSUME NEW lines \in SeqOver(Line)
  PROVE  Visible(lines) = Only(lines, NotBlank) /\ Visible(lines) \in SeqOver(Line)
<1>1. ToSet(lines) \subseteq Line
  BY ToSetType
<1>2. ToSet(lines) \cap {l \in ToSet(lines) : l.shape # "blank"} = ToSet(lines) \cap NotBlank
  BY <1>1 DEF NotBlank
<1>3. Only(lines, {l \in ToSet(lines) : l.shape # "blank"}) = Only(lines, NotBlank)
  BY <1>2, OnlySame
<1> QED
  BY <1>3, OnlyType DEF Visible

LEMMA ElementFacts ==
  ASSUME NEW e \in Element
  PROVE  /\ e.id \in Nat /\ e.kind \in {"heading", "table", "text"} /\ e.page \in 0..MaxPages
         /\ e.endPage = NoPage /\ e.level \in Int /\ e.lines \in SeqOver(Line)
         /\ IsTable(e) => e.lines = <<>>
         /\ \A l \in ToSet(e.lines) : l.at[1] = e.id
BY DEF Element

LEMMA LineFType == LineF \in [Element -> SeqOver(Line)]
<1>1. \A e \in Element : Visible(e.lines) \in SeqOver(Line)
  BY ElementFacts, VisibleIs
<1> QED
  BY <1>1 DEF LineF

LEMMA LinesAre ==
  ASSUME NEW es \in SeqOver(Element)
  PROVE  LinesOf(es) = Gather(LineF, es) /\ LinesOf(es) \in SeqOver(Line)
<1>1. \A i \in DOMAIN es : es[i] \in Element
  BY DEF SeqOver
<1>2. [i \in DOMAIN es |-> Visible(es[i].lines)] = [i \in DOMAIN es |-> LineF[es[i]]]
  BY <1>1 DEF LineF
<1>3. LinesOf(es) = Gather(LineF, es)
  BY <1>2, Zenon DEF LinesOf, Gather
<1> QED
  BY <1>3, LineFType, GatherType

LEMMA TablesAre ==
  ASSUME NEW es \in SeqOver(Element)
  PROVE  TablesOf(es) = Only(es, Tables) /\ TablesOf(es) \in SeqOver(Element)
<1>1. ToSet(es) \subseteq Element
  BY ToSetType
<1>2. ToSet(es) \cap {e \in ToSet(es) : IsTable(e)} = ToSet(es) \cap Tables
  BY <1>1 DEF Tables
<1>3. Only(es, {e \in ToSet(es) : IsTable(e)}) = Only(es, Tables)
  BY <1>2, OnlySame
<1> QED
  BY <1>3, OnlyType DEF TablesOf

LEMMA SectionFacts ==
  ASSUME NEW s \in Sections
  PROVE  /\ s.path \in SeqOver(Heading) /\ s.blocks \in SeqOver(Block) /\ s.tables \in SeqOver(Element)
         /\ s.start \in 0..MaxPages /\ s.end \in 0..MaxPages
         /\ Title(s) \in SeqOver(Line)
<1>1. /\ s.path \in SeqOver(Heading) /\ s.blocks \in SeqOver(Block) /\ s.tables \in SeqOver(Element)
      /\ s.start \in 0..MaxPages /\ s.end \in 0..MaxPages
  BY DEF Sections
<1>2. CASE s.path = <<>>
  BY <1>1, <1>2, EmptyType DEF Title
<1>3. CASE s.path # <<>>
  <2>1. Last(s.path) \in Heading
    BY <1>1, <1>3 DEF SeqOver, Last
  <2>2. Last(s.path).text \in SeqOver(Line)
    BY <2>1 DEF Heading
  <2> QED
    BY <1>1, <1>3, <2>2 DEF Title
<1> QED
  BY <1>2, <1>3

LEMMA BlockFType == BlockF \in [Block -> SeqOver(Line)]
BY DEF BlockF, Block

LEMMA TableFType == TableF \in [Sections -> SeqOver(Element)]
BY DEF TableF, Sections

LEMMA SectionFType == SectionF \in [Numbered -> SeqOver(Line)]
<1>1. ASSUME NEW s \in Numbered PROVE Join(Title(s), Gather(BlockF, s.blocks)) \in SeqOver(Line)
  <2>1. s \in Sections
    BY DEF Numbered
  <2>2. s.blocks \in SeqOver(Block) /\ Title(s) \in SeqOver(Line)
    BY <2>1, SectionFacts
  <2>3. Gather(BlockF, s.blocks) \in SeqOver(Line)
    BY <2>2, BlockFType, GatherType
  <2> QED
    BY <2>2, <2>3, JoinType
<1> QED
  BY <1>1 DEF SectionF

LEMMA UpTo == ASSUME NEW m \in Nat PROVE Cardinality(1..m) = m
<1>1. 1 \in Int /\ m \in Int
  OBVIOUS
<1>2. Cardinality(1..m) = IF 1 > m THEN 0 ELSE m - 1 + 1
  BY <1>1, FS_Interval, Zenon
<1> QED
  BY <1>2

\* Blocks in their order need no sorting.
LEMMA InOrderNumbered ==
  ASSUME NEW n \in Nat, NEW blocks, DOMAIN blocks = 1..n, blocks = [k \in 1..n |-> blocks[k]],
         \A k \in 1..n : blocks[k].order = k - 1
  PROVE  InOrder(blocks) = blocks
<1> DEFINE before(i) == {j \in DOMAIN blocks : \/ blocks[j].order < blocks[i].order
                                               \/ (blocks[j].order = blocks[i].order /\ j < i)}
<1>1. ASSUME NEW i \in 1..n PROVE Cardinality(before(i)) = i - 1
  <2>1. i \in Int /\ i - 1 \in Int /\ i - 1 \in Nat
    OBVIOUS
  <2>2. \A j \in 1..n : (\/ blocks[j].order < blocks[i].order
                         \/ (blocks[j].order = blocks[i].order /\ j < i)) <=> j \in 1..(i - 1)
    OBVIOUS
  <2>3. 1..(i - 1) \subseteq 1..n
    OBVIOUS
  <2>4. before(i) = 1..(i - 1)
    BY <2>2, <2>3
  <2>5. Cardinality(1..(i - 1)) = i - 1
    BY <2>1, UpTo
  <2> QED
    BY <2>4, <2>5
<1>2. ASSUME NEW k \in 1..n PROVE (CHOOSE i \in DOMAIN blocks : Cardinality(before(i)) = k - 1) = k
  <2> HIDE DEF before
  <2>1. \A i \in 1..n : Cardinality(before(i)) = k - 1 <=> i = k
    BY <1>1
  <2> QED
    BY <2>1
<1>3. [k \in 1..n |-> blocks[CHOOSE i \in DOMAIN blocks : Cardinality(before(i)) = k - 1]] = [k \in 1..n |-> blocks[k]]
  BY <1>2
<1> QED
  BY <1>3 DEF InOrder

LEMMA BlockLinesNumbered ==
  ASSUME NEW s \in Numbered
  PROVE  BlockLines(s) = Gather(BlockF, s.blocks)
<1>1. s.blocks \in SeqOver(Block)
  BY SectionFacts DEF Numbered
<1>2. /\ DOMAIN s.blocks = 1..Len(s.blocks) /\ Len(s.blocks) \in Nat
      /\ s.blocks = [k \in 1..Len(s.blocks) |-> s.blocks[k]]
      /\ \A k \in 1..Len(s.blocks) : s.blocks[k] \in Block
  BY <1>1 DEF SeqOver
<1>3. \A k \in 1..Len(s.blocks) : s.blocks[k].order = k - 1
  BY <1>2 DEF Numbered
<1>4. InOrder(s.blocks) = s.blocks
  BY <1>2, <1>3, InOrderNumbered
<1>5. [k \in DOMAIN s.blocks |-> s.blocks[k].lines] = [k \in DOMAIN s.blocks |-> BlockF[s.blocks[k]]]
  BY <1>2 DEF BlockF
<1> QED
  BY <1>4, <1>5, Zenon DEF BlockLines, Gather

----------------------------------------------------------------------------
\* Sections under construction, and whole.

Keeping == Keep(Element, Tables)

\* secs and what is left of the stream make up the document es.
Assembling(es, left, secs) ==
  /\ left \in SeqOver(Element) /\ secs \in SeqOver(Numbered)
  /\ secs # <<>> /\ secs[1].path = <<>>
  /\ Join(Gather(SectionF, secs), Gather(LineF, left)) = Gather(LineF, es)
  /\ Join(Gather(TableF, secs), Gather(Keeping, left)) = Gather(Keeping, es)

Whole(es, secs) ==
  /\ secs \in SeqOver(Numbered)
  /\ Gather(SectionF, secs) = Gather(LineF, es)
  /\ Gather(TableF, secs) = Gather(Keeping, es)

LEMMA Wider == ASSUME NEW S, NEW T, S \subseteq T, NEW s \in SeqOver(S) PROVE s \in SeqOver(T)
BY DEF SeqOver

LEMMA KeepingFacts ==
  /\ Keeping \in [Element -> SeqOver(Element)]
  /\ \A e \in Element : Keeping[e] = IF IsTable(e) THEN <<e>> ELSE <<>>
  /\ \A es \in SeqOver(Element) : TablesOf(es) = Gather(Keeping, es)
<1>1. Keeping \in [Element -> SeqOver(Element)]
  BY KeepType DEF Keeping
<1>2. \A e \in Element : Keeping[e] = IF IsTable(e) THEN <<e>> ELSE <<>>
  BY DEF Keeping, Keep, Tables
<1>3. ASSUME NEW es \in SeqOver(Element) PROVE TablesOf(es) = Gather(Keeping, es)
  BY TablesAre, OnlyIsGather DEF Keeping
<1> QED
  BY <1>1, <1>2, <1>3

LEMMA LineFValue == ASSUME NEW e \in Element PROVE LineF[e] = Visible(e.lines) /\ LineF[e] \in SeqOver(Line)
BY LineFType DEF LineF

LEMMA NothingVisible == Visible(<<>>) = <<>>
BY OnlyEmpty DEF Visible

LEMMA SectionFValue ==
  ASSUME NEW s \in Numbered
  PROVE  /\ s \in Sections /\ SectionF[s] = Join(Title(s), Gather(BlockF, s.blocks)) /\ SectionF[s] \in SeqOver(Line)
         /\ TableF[s] = s.tables /\ TableF[s] \in SeqOver(Element)
BY SectionFType, TableFType DEF SectionF, TableF, Numbered

LEMMA WholeType ==
  ASSUME NEW secs \in SeqOver(Numbered)
  PROVE  secs \in SeqOver(Sections) /\ Gather(SectionF, secs) \in SeqOver(Line) /\ Gather(TableF, secs) \in SeqOver(Element)
<1>1. secs \in SeqOver(Sections)
  BY Wider DEF Numbered
<1>2. Gather(SectionF, secs) \in SeqOver(Line)
  BY SectionFType, GatherType
<1>3. Gather(TableF, secs) \in SeqOver(Element)
  BY <1>1, TableFType, GatherType
<1> QED
  BY <1>1, <1>2, <1>3

LEMMA NumberedIs ==
  ASSUME NEW path \in SeqOver(Heading), NEW blocks \in SeqOver(Block), NEW tables \in SeqOver(Element),
         NEW start \in 0..MaxPages, NEW end \in 0..MaxPages,
         \A k \in DOMAIN blocks : blocks[k].order = k - 1
  PROVE  Section(path, blocks, tables, start, end) \in Numbered
BY DEF Section, Sections, Numbered

LEMMA NoPageType == NoPage \in 0..MaxPages
BY LadderAssumption DEF NoPage

\* A section that has just a heading.
LEMMA BareSection ==
  ASSUME NEW path \in SeqOver(Heading)
  PROVE  /\ Section(path, <<>>, <<>>, NoPage, NoPage) \in Numbered
         /\ SectionF[Section(path, <<>>, <<>>, NoPage, NoPage)] = (IF path = <<>> THEN <<>> ELSE Last(path).text)
         /\ TableF[Section(path, <<>>, <<>>, NoPage, NoPage)] = <<>>
<1> DEFINE s == Section(path, <<>>, <<>>, NoPage, NoPage)
<1>1. s \in Numbered
  <2>1. <<>> \in SeqOver(Block) /\ <<>> \in SeqOver(Element) /\ \A k \in DOMAIN <<>> : <<>>[k].order = k - 1
    BY EmptyType
  <2> QED
    BY <2>1, NoPageType, NumberedIs
<1>2. s.path = path /\ s.blocks = <<>> /\ s.tables = <<>>
  BY DEF Section
<1> HIDE DEF s
<1>3. SectionF[s] = Join(Title(s), Gather(BlockF, <<>>)) /\ TableF[s] = <<>> /\ s \in Sections
  BY <1>1, <1>2, SectionFValue
<1>4. Gather(BlockF, <<>>) = <<>>
  BY GatherNothing
<1>5. Title(s) \in SeqOver(Line) /\ Title(s) = IF path = <<>> THEN <<>> ELSE Last(path).text
  BY <1>2, <1>3, SectionFacts DEF Title
<1>6. SectionF[s] = Title(s)
  BY <1>3, <1>4, <1>5, JoinNothing
<1> QED
  BY <1>1, <1>3, <1>5, <1>6 DEF s

LEMMA AssemblyStarts ==
  ASSUME NEW es \in SeqOver(Element), NEW left \in SeqOver(Element),
         Gather(LineF, left) = Gather(LineF, es), Gather(Keeping, left) = Gather(Keeping, es)
  PROVE  Assembling(es, left, <<Section(<<>>, <<>>, <<>>, NoPage, NoPage)>>)
<1> DEFINE s == Section(<<>>, <<>>, <<>>, NoPage, NoPage)
           secs == <<s>>
<1>1. s \in Numbered /\ SectionF[s] = <<>> /\ TableF[s] = <<>> /\ s.path = <<>>
  <2>1. <<>> \in SeqOver(Heading)
    BY EmptyType
  <2> QED
    BY <2>1, BareSection DEF Section
<1> HIDE DEF s
<1>2. secs # <<>> /\ secs[1].path = <<>>
  BY <1>1
<1>3. secs \in SeqOver(Numbered)
  BY <1>1, OneType
<1>4. Gather(SectionF, secs) = <<>>
  BY <1>1, SectionFType, GatherOne
<1>5. Gather(TableF, secs) = <<>>
  BY <1>1, TableFType, GatherOne, SectionFValue
<1>6. Gather(LineF, left) \in SeqOver(Line) /\ Gather(Keeping, left) \in SeqOver(Element)
  BY LineFType, KeepingFacts, GatherType
<1>7. Join(<<>>, Gather(LineF, left)) = Gather(LineF, left) /\ Join(<<>>, Gather(Keeping, left)) = Gather(Keeping, left)
  BY <1>6, JoinNothing
<1> HIDE DEF secs
<1>8. Assembling(es, left, secs)
  BY <1>2, <1>3, <1>4, <1>5, <1>7 DEF Assembling
<1> QED
  BY <1>8 DEF secs, s

\* The next element opens a section.
LEMMA AssemblyGrows ==
  ASSUME NEW es, NEW left, NEW secs, Assembling(es, left, secs), left # <<>>,
         NEW y \in Numbered, SectionF[y] = LineF[Head(left)], TableF[y] = Keeping[Head(left)]
  PROVE  Assembling(es, Tail(left), Append(secs, y))
<1> DEFINE e == Head(left)
           rest == Tail(left)
           more == Append(secs, y)
<1>1. /\ left \in SeqOver(Element) /\ secs \in SeqOver(Numbered) /\ secs # <<>> /\ secs[1].path = <<>>
      /\ Join(Gather(SectionF, secs), Gather(LineF, left)) = Gather(LineF, es)
      /\ Join(Gather(TableF, secs), Gather(Keeping, left)) = Gather(Keeping, es)
  BY DEF Assembling
<1>2. e \in Element /\ rest \in SeqOver(Element)
  BY <1>1, HeadTail
<1>3. more \in SeqOver(Numbered) /\ more # <<>> /\ more[1] = secs[1]
  <2>1. more \in SeqOver(Numbered)
    BY <1>1, AppendType
  <2>2. more # <<>> /\ more[1] = secs[1]
    BY <1>1 DEF SeqOver
  <2> QED
    BY <2>1, <2>2
<1>4. Gather(LineF, left) = Join(LineF[e], Gather(LineF, rest)) /\ Gather(LineF, rest) \in SeqOver(Line) /\ LineF[e] \in SeqOver(Line)
  BY <1>1, <1>2, LineFType, GatherCons, GatherType, LineFValue
<1>5. Gather(Keeping, left) = Join(Keeping[e], Gather(Keeping, rest)) /\ Gather(Keeping, rest) \in SeqOver(Element) /\ Keeping[e] \in SeqOver(Element)
  BY <1>1, <1>2, KeepingFacts, GatherCons, GatherType
<1>6. Gather(SectionF, more) = Join(Gather(SectionF, secs), LineF[e]) /\ Gather(SectionF, secs) \in SeqOver(Line)
  BY <1>1, SectionFType, GatherAppend, WholeType
<1>7. Gather(TableF, more) = Join(Gather(TableF, secs), Keeping[e]) /\ Gather(TableF, secs) \in SeqOver(Element)
  <2>1. secs \in SeqOver(Sections) /\ y \in Sections /\ Gather(TableF, secs) \in SeqOver(Element)
    BY <1>1, WholeType, SectionFValue
  <2> QED
    BY <2>1, TableFType, GatherAppend
<1> HIDE DEF e, rest, more
<1>8. Join(Gather(SectionF, more), Gather(LineF, rest)) = Gather(LineF, es)
  BY <1>1, <1>4, <1>6, JoinAssociative
<1>9. Join(Gather(TableF, more), Gather(Keeping, rest)) = Gather(Keeping, es)
  BY <1>1, <1>5, <1>7, JoinAssociative
<1>10. Assembling(es, rest, more)
  BY <1>1, <1>2, <1>3, <1>8, <1>9 DEF Assembling
<1> QED
  BY <1>10 DEF rest, more

\* The next element goes into the last section.
LEMMA AssemblyFills ==
  ASSUME NEW es, NEW left, NEW secs, Assembling(es, left, secs), left # <<>>,
         NEW y \in Numbered, y.path = secs[Len(secs)].path,
         SectionF[y] = Join(SectionF[secs[Len(secs)]], LineF[Head(left)]),
         TableF[y] = Join(TableF[secs[Len(secs)]], Keeping[Head(left)])
  PROVE  Assembling(es, Tail(left), WithLast(secs, y))
<1> DEFINE e == Head(left)
           rest == Tail(left)
           more == WithLast(secs, y)
<1>1. /\ left \in SeqOver(Element) /\ secs \in SeqOver(Numbered) /\ secs # <<>> /\ secs[1].path = <<>>
      /\ Join(Gather(SectionF, secs), Gather(LineF, left)) = Gather(LineF, es)
      /\ Join(Gather(TableF, secs), Gather(Keeping, left)) = Gather(Keeping, es)
  BY DEF Assembling
<1>2. e \in Element /\ rest \in SeqOver(Element)
  BY <1>1, HeadTail
<1>3. more \in SeqOver(Numbered) /\ more # <<>> /\ more[1].path = <<>>
  <2>1. PICK r \in SeqOver(Numbered) : more = Append(r, y)
    BY <1>1, LastReplaced
  <2>2. more \in SeqOver(Numbered)
    BY <2>1, AppendType
  <2>3. more # <<>> /\ more[1].path = <<>>
    BY <1>1 DEF SeqOver, WithLast
  <2> QED
    BY <2>2, <2>3
<1>4. Gather(LineF, left) = Join(LineF[e], Gather(LineF, rest)) /\ Gather(LineF, rest) \in SeqOver(Line) /\ LineF[e] \in SeqOver(Line)
  BY <1>1, <1>2, LineFType, GatherCons, GatherType, LineFValue
<1>5. Gather(Keeping, left) = Join(Keeping[e], Gather(Keeping, rest)) /\ Gather(Keeping, rest) \in SeqOver(Element) /\ Keeping[e] \in SeqOver(Element)
  BY <1>1, <1>2, KeepingFacts, GatherCons, GatherType
<1>6. Gather(SectionF, more) = Join(Gather(SectionF, secs), LineF[e]) /\ Gather(SectionF, secs) \in SeqOver(Line)
  BY <1>1, <1>4, SectionFType, GatherLast, WholeType
<1>7. Gather(TableF, more) = Join(Gather(TableF, secs), Keeping[e]) /\ Gather(TableF, secs) \in SeqOver(Element)
  <2>1. secs \in SeqOver(Sections) /\ y \in Sections /\ Gather(TableF, secs) \in SeqOver(Element)
    BY <1>1, WholeType, SectionFValue
  <2> QED
    BY <1>1, <1>5, <2>1, TableFType, GatherLast
<1> HIDE DEF e, rest, more
<1>8. Join(Gather(SectionF, more), Gather(LineF, rest)) = Gather(LineF, es)
  BY <1>1, <1>4, <1>6, JoinAssociative
<1>9. Join(Gather(TableF, more), Gather(Keeping, rest)) = Gather(Keeping, es)
  BY <1>1, <1>5, <1>7, JoinAssociative
<1>10. Assembling(es, rest, more)
  BY <1>1, <1>2, <1>3, <1>8, <1>9 DEF Assembling
<1> QED
  BY <1>10 DEF rest, more

\* An element without lines that is no table changes nothing.
LEMMA AssemblySkips ==
  ASSUME NEW es, NEW left, NEW secs, Assembling(es, left, secs), left # <<>>,
         LineF[Head(left)] = <<>>, Keeping[Head(left)] = <<>>
  PROVE  Assembling(es, Tail(left), secs)
<1>1. /\ left \in SeqOver(Element) /\ secs \in SeqOver(Numbered) /\ secs # <<>> /\ secs[1].path = <<>>
      /\ Join(Gather(SectionF, secs), Gather(LineF, left)) = Gather(LineF, es)
      /\ Join(Gather(TableF, secs), Gather(Keeping, left)) = Gather(Keeping, es)
  BY DEF Assembling
<1>2. Head(left) \in Element /\ Tail(left) \in SeqOver(Element)
  BY <1>1, HeadTail
<1>3. Gather(LineF, left) = Join(<<>>, Gather(LineF, Tail(left))) /\ Gather(LineF, Tail(left)) \in SeqOver(Line)
  BY <1>1, <1>2, LineFType, GatherCons, GatherType
<1>4. Gather(Keeping, left) = Join(<<>>, Gather(Keeping, Tail(left))) /\ Gather(Keeping, Tail(left)) \in SeqOver(Element)
  BY <1>1, <1>2, KeepingFacts, GatherCons, GatherType
<1>5. Gather(LineF, left) = Gather(LineF, Tail(left)) /\ Gather(Keeping, left) = Gather(Keeping, Tail(left))
  BY <1>3, <1>4, JoinNothing
<1> QED
  BY <1>1, <1>2, <1>5 DEF Assembling

\* The root section, if there is nothing in it and it is not the only one, is dropped.
Trimmed(secs) ==
  IF Len(secs) > 1 /\ secs[1].blocks = <<>> /\ secs[1].tables = <<>> THEN Tail(secs) ELSE secs

LEMMA AssemblyEnds ==
  ASSUME NEW es \in SeqOver(Element), NEW secs, Assembling(es, <<>>, secs)
  PROVE  Whole(es, Trimmed(secs))
<1>1. /\ secs \in SeqOver(Numbered) /\ secs # <<>> /\ secs[1].path = <<>>
      /\ Join(Gather(SectionF, secs), Gather(LineF, <<>>)) = Gather(LineF, es)
      /\ Join(Gather(TableF, secs), Gather(Keeping, <<>>)) = Gather(Keeping, es)
  BY DEF Assembling
<1>2. Gather(LineF, <<>>) = <<>> /\ Gather(Keeping, <<>>) = <<>>
  BY GatherNothing
<1>3. Gather(SectionF, secs) \in SeqOver(Line) /\ Gather(TableF, secs) \in SeqOver(Element) /\ secs \in SeqOver(Sections)
  BY <1>1, WholeType
<1>4. Gather(SectionF, secs) = Gather(LineF, es) /\ Gather(TableF, secs) = Gather(Keeping, es)
  BY <1>1, <1>2, <1>3, JoinNothing
<1>5. CASE ~(Len(secs) > 1 /\ secs[1].blocks = <<>> /\ secs[1].tables = <<>>)
  BY <1>1, <1>4, <1>5 DEF Whole, Trimmed
<1>6. CASE Len(secs) > 1 /\ secs[1].blocks = <<>> /\ secs[1].tables = <<>>
  <2> DEFINE s == Head(secs)
             rest == Tail(secs)
  <2>1. s \in Numbered /\ rest \in SeqOver(Numbered)
    BY <1>1, HeadTail
  <2>2. s.path = <<>> /\ s.blocks = <<>> /\ s.tables = <<>>
    <3>1. s = secs[1]
      BY <1>1 DEF SeqOver
    <3> QED
      BY <1>1, <1>6, <3>1
  <2> HIDE DEF s
  <2>3. SectionF[s] = <<>> /\ TableF[s] = <<>> /\ s \in Sections
    <3>1. SectionF[s] = Join(Title(s), Gather(BlockF, s.blocks)) /\ TableF[s] = s.tables /\ s \in Sections
      BY <2>1, SectionFValue
    <3>2. Title(s) = <<>> /\ Gather(BlockF, s.blocks) = <<>>
      BY <2>2, GatherNothing DEF Title
    <3>3. Join(<<>>, <<>>) = <<>>
      BY EmptyType, JoinNothing
    <3> QED
      BY <2>2, <3>1, <3>2, <3>3
  <2>4. Gather(SectionF, rest) \in SeqOver(Line) /\ Gather(TableF, rest) \in SeqOver(Element)
    BY <2>1, WholeType
  <2>5. Gather(SectionF, secs) = Join(SectionF[s], Gather(SectionF, rest))
    BY <1>1, SectionFType, GatherCons DEF s
  <2>6. Gather(TableF, secs) = Join(TableF[s], Gather(TableF, rest))
    BY <1>1, <1>3, TableFType, GatherCons DEF s
  <2>7. Gather(SectionF, secs) = Gather(SectionF, rest) /\ Gather(TableF, secs) = Gather(TableF, rest)
    BY <2>3, <2>4, <2>5, <2>6, JoinNothing
  <2> QED
    BY <1>4, <1>6, <2>1, <2>7 DEF Whole, Trimmed
<1> QED
  BY <1>5, <1>6

\* What the two properties say of the sections of a document.
InOrderOf(es, secs) ==
  LinesOf(es) = FlattenSeq([k \in DOMAIN secs |-> Title(secs[k]) \o BlockLines(secs[k])])
CoveredBy(es, secs) ==
  Lines(LinesOf(es)) \subseteq
    UNION {Lines(Title(secs[k])) \cup Lines(BlockLines(secs[k])) : k \in DOMAIN secs}
TablesOnce(es, secs) == FlattenSeq([k \in DOMAIN secs |-> secs[k].tables]) = TablesOf(es)

LEMMA LinesIsToSet == ASSUME NEW s PROVE Lines(s) = ToSet(s)
BY DEF Lines, ToSet

LEMMA TablesGathered ==
  ASSUME NEW es \in SeqOver(Element), NEW secs \in SeqOver(Sections), Gather(TableF, secs) = Gather(Keeping, es)
  PROVE  TablesOnce(es, secs)
<1>1. \A k \in DOMAIN secs : secs[k] \in Sections
  BY DEF SeqOver
<1>2. [k \in DOMAIN secs |-> secs[k].tables] = [k \in DOMAIN secs |-> TableF[secs[k]]]
  BY <1>1 DEF TableF
<1>3. FlattenSeq([k \in DOMAIN secs |-> secs[k].tables]) = Gather(TableF, secs)
  BY <1>2, Zenon DEF Gather
<1> QED
  BY <1>3, KeepingFacts DEF TablesOnce

LEMMA WholeReads ==
  ASSUME NEW es \in SeqOver(Element), NEW secs, Whole(es, secs)
  PROVE  InOrderOf(es, secs) /\ CoveredBy(es, secs) /\ TablesOnce(es, secs)
<1>1. secs \in SeqOver(Numbered) /\ Gather(SectionF, secs) = Gather(LineF, es) /\ Gather(TableF, secs) = Gather(Keeping, es)
  BY DEF Whole
<1>2. \A k \in DOMAIN secs : secs[k] \in Numbered
  BY <1>1 DEF SeqOver
<1>3. ASSUME NEW k \in DOMAIN secs PROVE Title(secs[k]) \o BlockLines(secs[k]) = SectionF[secs[k]]
  BY <1>2, SectionFValue, BlockLinesNumbered DEF Join
<1>4. [k \in DOMAIN secs |-> Title(secs[k]) \o BlockLines(secs[k])] = [k \in DOMAIN secs |-> SectionF[secs[k]]]
  BY <1>3, Zenon
<1>5. FlattenSeq([k \in DOMAIN secs |-> Title(secs[k]) \o BlockLines(secs[k])]) = Gather(SectionF, secs)
  BY <1>4, Zenon DEF Gather
<1>6. LinesOf(es) = Gather(SectionF, secs)
  BY <1>1, LinesAre
<1>7. CoveredBy(es, secs)
  <2>1. ToSet(Gather(SectionF, secs)) = UNION {ToSet(SectionF[x]) : x \in ToSet(secs)}
    BY <1>1, SectionFType, GatherRange
  <2>2. ASSUME NEW l \in Lines(LinesOf(es))
        PROVE  \E k \in DOMAIN secs : l \in Lines(Title(secs[k])) \cup Lines(BlockLines(secs[k]))
    <3>1. PICK x \in ToSet(secs) : l \in ToSet(SectionF[x])
      BY <1>6, <2>1, LinesIsToSet
    <3>2. PICK k \in DOMAIN secs : x = secs[k]
      BY <3>1 DEF ToSet
    <3>3. x \in Numbered
      BY <1>2, <3>2
    <3>4. /\ SectionF[x] = Join(Title(x), BlockLines(x)) /\ Title(x) \in SeqOver(Line)
          /\ BlockLines(x) \in SeqOver(Line)
      <4>1. x \in Sections /\ x.blocks \in SeqOver(Block) /\ Title(x) \in SeqOver(Line)
        BY <3>3, SectionFValue, SectionFacts
      <4>2. BlockLines(x) = Gather(BlockF, x.blocks) /\ Gather(BlockF, x.blocks) \in SeqOver(Line)
        BY <3>3, <4>1, BlockLinesNumbered, BlockFType, GatherType
      <4> QED
        BY <3>3, <4>1, <4>2, SectionFValue
    <3>5. l \in ToSet(Title(x)) \cup ToSet(BlockLines(x))
      BY <3>1, <3>4, ToSetJoin
    <3> QED
      BY <3>2, <3>5, LinesIsToSet
  <2> QED
    BY <2>2 DEF CoveredBy
<1>8. TablesOnce(es, secs)
  BY <1>1, WholeType, TablesGathered
<1> QED
  BY <1>5, <1>6, <1>7, <1>8 DEF InOrderOf

----------------------------------------------------------------------------
\* The blocks of some elements.

LEMMA TextsAre ==
  ASSUME NEW es \in SeqOver(Element)
  PROVE  Only(es, {e \in ToSet(es) : ~IsTable(e) /\ HasText(e)}) = Only(es, Texts)
<1>1. ToSet(es) \subseteq Element
  BY ToSetType
<1>2. ToSet(es) \cap {e \in ToSet(es) : ~IsTable(e) /\ HasText(e)} = ToSet(es) \cap Texts
  BY <1>1 DEF Texts
<1> QED
  BY <1>2, OnlySame

LEMMA Wordless ==
  ASSUME NEW e \in Element, e \notin Texts
  PROVE  LineF[e] = <<>>
<1>1. CASE IsTable(e)
  <2>1. e.lines = <<>>
    BY <1>1, ElementFacts
  <2> QED
    BY <2>1, LineFValue, NothingVisible
<1>2. CASE ~HasText(e)
  BY <1>2, LineFValue DEF HasText
<1> QED
  BY <1>1, <1>2 DEF Texts

LEMMA BlocksAre ==
  ASSUME NEW es \in SeqOver(Element)
  PROVE  /\ BlocksOf(es) \in SeqOver(Block)
         /\ \A k \in DOMAIN BlocksOf(es) : BlocksOf(es)[k].order = k - 1
         /\ Gather(BlockF, BlocksOf(es)) = Gather(LineF, es)
<1> DEFINE texts == Only(es, Texts)
           blocks == [k \in DOMAIN texts |->
                       [order |-> k - 1, page |-> texts[k].page, lines |-> Visible(texts[k].lines)]]
<1>1. texts \in SeqOver(Element)
  BY OnlyType
<1>2. BlocksOf(es) = blocks
  BY TextsAre DEF BlocksOf
<1> HIDE DEF texts
<1>3. DOMAIN texts = 1..Len(texts) /\ Len(texts) \in Nat /\ \A k \in DOMAIN texts : texts[k] \in Element
  BY <1>1 DEF SeqOver
<1>4. ASSUME NEW k \in DOMAIN texts
      PROVE  [order |-> k - 1, page |-> texts[k].page, lines |-> Visible(texts[k].lines)] \in Block
  <2>1. texts[k].page \in 0..MaxPages /\ Visible(texts[k].lines) \in SeqOver(Line)
    BY <1>3, ElementFacts, VisibleIs
  <2>2. k - 1 \in Nat
    BY <1>3
  <2> QED
    BY <2>1, <2>2 DEF Block
<1>5. blocks \in SeqOver(Block)
  BY <1>3, <1>4 DEF SeqOver
<1>6. \A k \in DOMAIN blocks : blocks[k].order = k - 1
  OBVIOUS
<1>7. ASSUME NEW k \in DOMAIN texts PROVE BlockF[blocks[k]] = LineF[texts[k]]
  BY <1>3, <1>4, LineFValue DEF BlockF
<1>8. [k \in DOMAIN blocks |-> BlockF[blocks[k]]] = [k \in DOMAIN texts |-> LineF[texts[k]]]
  BY <1>7
<1>9. Gather(BlockF, blocks) = Gather(LineF, texts)
  BY <1>8, Zenon DEF Gather
<1>10. Gather(LineF, texts) = Gather(LineF, es)
  BY LineFType, Wordless, GatherOnly DEF texts
<1> QED
  BY <1>2, <1>5, <1>6, <1>9, <1>10

\* build_sections_flat.
LEMMA FlatIsWhole ==
  ASSUME NEW es \in SeqOver(Element)
  PROVE  Whole(es, <<Section(<<>>, BlocksOf(es), TablesOf(es), NoPage, NoPage)>>)
<1> DEFINE s == Section(<<>>, BlocksOf(es), TablesOf(es), NoPage, NoPage)
<1>1. s \in Numbered
  BY BlocksAre, TablesAre, EmptyType, NoPageType, NumberedIs
<1>2. s.path = <<>> /\ s.blocks = BlocksOf(es) /\ s.tables = TablesOf(es)
  BY DEF Section
<1> HIDE DEF s
<1>3. SectionF[s] = Join(<<>>, Gather(LineF, es)) /\ TableF[s] = Gather(Keeping, es)
  <2>1. Title(s) = <<>>
    BY <1>2 DEF Title
  <2> QED
    BY <1>1, <1>2, <2>1, SectionFValue, BlocksAre, KeepingFacts
<1>4. SectionF[s] = Gather(LineF, es)
  BY <1>3, LineFType, GatherType, JoinNothing
<1>5. Gather(SectionF, <<s>>) = SectionF[s] /\ Gather(TableF, <<s>>) = TableF[s] /\ <<s>> \in SeqOver(Numbered)
  BY <1>1, SectionFType, TableFType, SectionFValue, GatherOne, OneType
<1>6. Whole(es, <<s>>)
  BY <1>3, <1>4, <1>5 DEF Whole
<1> QED
  BY <1>6 DEF s

----------------------------------------------------------------------------
\* Promoting lines neither loses nor adds one.

Worthy == {e \in Element : e.kind = "heading" \/ HasText(e)}

LEMMA PromoteFacts ==
  ASSUME NEW levels, \A c \in DOMAIN levels : levels[c] \in Int,
         NEW e \in Element, e.kind = "text", NEW j \in DOMAIN e.lines
  PROVE  /\ Promote(e, j, levels) \in Element /\ ~IsTable(Promote(e, j, levels))
         /\ LineF[Promote(e, j, levels)] = Keep(Line, NotBlank)[e.lines[j]]
<1> DEFINE p == Promote(e, j, levels)
           l == e.lines[j]
<1>1. e.lines \in SeqOver(Line) /\ l \in Line
  BY ElementFacts DEF SeqOver
<1>2. <<l>> \in SeqOver(Line)
  BY <1>1, OneType
<1>3. p.kind \in {"heading", "text"} /\ p.lines = <<l>>
  BY DEF Promote, Element
<1>4. p \in Element
  <2>1. p.level \in Int
    BY ElementFacts DEF Promote, Element
  <2>2. p = [e EXCEPT !.lines = <<l>>, !.endPage = NoPage, !.kind = p.kind, !.level = p.level]
    BY DEF Promote, Element
  <2>3. ~IsTable(p)
    BY <1>3 DEF IsTable
  <2>4. l.at[1] = p.id /\ ToSet(p.lines) = {l}
    <3>1. l \in ToSet(e.lines)
      BY DEF ToSet
    <3>2. p.id = e.id
      BY DEF Promote, Element
    <3>3. ToSet(<<l>>) = {l}
      BY DEF ToSet
    <3> QED
      BY <1>3, <3>1, <3>2, <3>3, ElementFacts
  <2> HIDE DEF p, l
  <2> QED
    BY <1>2, <1>3, <2>1, <2>2, <2>3, <2>4 DEF Element
<1>5. ~IsTable(p)
  BY <1>3 DEF IsTable
<1> HIDE DEF p, l
<1>6. LineF[p] = Visible(<<l>>)
  BY <1>3, <1>4, LineFValue
<1>7. Visible(<<l>>) = Gather(Keep(Line, NotBlank), <<l>>)
  BY <1>2, VisibleIs, OnlyIsGather
<1>8. Gather(Keep(Line, NotBlank), <<l>>) = Keep(Line, NotBlank)[l]
  BY <1>1, KeepType, GatherOne
<1> QED
  BY <1>4, <1>5, <1>6, <1>7, <1>8 DEF p, l

LEMMA ExpandFacts ==
  ASSUME NEW levels, \A c \in DOMAIN levels : levels[c] \in Int, NEW e \in Element
  PROVE  /\ Expand(e, levels) \in SeqOver(Element)
         /\ Gather(LineF, Expand(e, levels)) = LineF[e]
         /\ Gather(Keeping, Expand(e, levels)) = Keeping[e]
<1>1. CASE e.kind # "text"
  <2>1. Expand(e, levels) = <<e>>
    BY <1>1 DEF Expand
  <2>2. <<e>> \in SeqOver(Element)
    BY OneType
  <2>3. Gather(LineF, <<e>>) = LineF[e] /\ Gather(Keeping, <<e>>) = Keeping[e]
    BY LineFType, KeepingFacts, GatherOne
  <2> QED
    BY <2>1, <2>2, <2>3
<1>2. CASE e.kind = "text"
  <2> DEFINE pieces == [j \in DOMAIN e.lines |-> Promote(e, j, levels)]
  <2>1. e.lines \in SeqOver(Line) /\ DOMAIN e.lines = 1..Len(e.lines) /\ Len(e.lines) \in Nat
    BY ElementFacts DEF SeqOver
  <2>2. \A j \in DOMAIN e.lines : pieces[j] \in Element /\ ~IsTable(pieces[j])
                                   /\ LineF[pieces[j]] = Keep(Line, NotBlank)[e.lines[j]]
    BY <1>2, PromoteFacts
  <2>3. pieces \in SeqOver(Element) /\ DOMAIN pieces = DOMAIN e.lines
    <3>1. pieces \in [1..Len(e.lines) -> Element]
      BY <2>1, <2>2
    <3>2. pieces \in SeqOver(Element)
      BY <2>1, <3>1, Listed
    <3> QED
      BY <3>2
  <2>4. Expand(e, levels) = Only(pieces, {l \in ToSet(pieces) : l.kind = "heading" \/ HasText(l)})
    BY <1>2 DEF Expand
  <2> HIDE DEF pieces
  <2>5. Expand(e, levels) = Only(pieces, Worthy)
    <3>1. ToSet(pieces) \subseteq Element
      BY <2>3, ToSetType
    <3>2. ToSet(pieces) \cap {l \in ToSet(pieces) : l.kind = "heading" \/ HasText(l)} = ToSet(pieces) \cap Worthy
      BY <3>1 DEF Worthy
    <3> QED
      BY <2>3, <2>4, <3>2, OnlySame
  <2>6. Expand(e, levels) \in SeqOver(Element) /\ ToSet(Expand(e, levels)) = ToSet(pieces) \cap Worthy
    <3>1. Only(pieces, Worthy) \in SeqOver(Element)
      BY <2>3, OnlyType
    <3>2. ToSet(Only(pieces, Worthy)) = ToSet(pieces) \cap Worthy
      BY <2>3, OnlyRange
    <3> QED
      BY <2>5, <3>1, <3>2
  <2>7. Gather(LineF, Expand(e, levels)) = LineF[e]
    <3>1. ASSUME NEW x \in Element, x \notin Worthy PROVE LineF[x] = <<>>
      BY <3>1, LineFValue DEF Worthy, HasText
    <3>2. Gather(LineF, Only(pieces, Worthy)) = Gather(LineF, pieces)
      BY <2>3, <3>1, LineFType, GatherOnly
    <3>3. [j \in DOMAIN pieces |-> LineF[pieces[j]]] = [j \in DOMAIN e.lines |-> Keep(Line, NotBlank)[e.lines[j]]]
      BY <2>2, <2>3
    <3>4. Gather(LineF, pieces) = Gather(Keep(Line, NotBlank), e.lines)
      BY <3>3, Zenon DEF Gather
    <3>5. Gather(Keep(Line, NotBlank), e.lines) = Only(e.lines, NotBlank)
      BY <2>1, OnlyIsGather
    <3> QED
      BY <2>1, <2>5, <3>2, <3>4, <3>5, VisibleIs, LineFValue
  <2>8. Gather(Keeping, Expand(e, levels)) = Keeping[e]
    <3>1. ASSUME NEW x \in ToSet(pieces) PROVE x \notin Tables
      BY <2>2, <2>3 DEF ToSet, Tables
    <3>2. ToSet(Expand(e, levels)) \cap Tables = {}
      BY <2>6, <3>1
    <3>3. Only(Expand(e, levels), Tables) = <<>>
      BY <2>6, <3>2, OnlyNone
    <3>4. Gather(Keeping, Expand(e, levels)) = <<>>
      BY <2>6, <3>3, OnlyIsGather DEF Keeping
    <3>5. Keeping[e] = <<>>
      BY <1>2, KeepingFacts DEF IsTable
    <3> QED
      BY <3>4, <3>5
  <2> QED
    BY <2>6, <2>7, <2>8
<1> QED
  BY <1>1, <1>2

\* Promoted, of any document.
Promotion(es, levels) == FlattenSeq([i \in DOMAIN es |-> Expand(es[i], levels)])

LEMMA PromotionKeeps ==
  ASSUME NEW levels, \A c \in DOMAIN levels : levels[c] \in Int, NEW es \in SeqOver(Element)
  PROVE  /\ Promotion(es, levels) \in SeqOver(Element)
         /\ Gather(LineF, Promotion(es, levels)) = Gather(LineF, es)
         /\ Gather(Keeping, Promotion(es, levels)) = Gather(Keeping, es)
<1> DEFINE f == [e \in Element |-> Expand(e, levels)]
<1>1. f \in [Element -> SeqOver(Element)]
  BY ExpandFacts
<1>2. \A e \in Element : f[e] = Expand(e, levels)
  OBVIOUS
<1> HIDE DEF f
<1>3. \A i \in DOMAIN es : es[i] \in Element
  BY DEF SeqOver
<1>4. [i \in DOMAIN es |-> Expand(es[i], levels)] = [i \in DOMAIN es |-> f[es[i]]]
  BY <1>2, <1>3, Zenon
<1>5. Promotion(es, levels) = Gather(f, es)
  BY <1>4, Zenon DEF Promotion, Gather
<1>6. Gather(f, es) \in SeqOver(Element)
  BY <1>1, GatherType
<1>7. \A e \in Element : LineF[e] = Gather(LineF, f[e]) /\ Keeping[e] = Gather(Keeping, f[e])
  BY <1>2, ExpandFacts
<1>8. Gather(LineF, Gather(f, es)) = Gather(LineF, es)
  BY <1>1, <1>7, LineFType, GatherCompose
<1>9. Gather(Keeping, Gather(f, es)) = Gather(Keeping, es)
  BY <1>1, <1>7, KeepingFacts, GatherCompose
<1> QED
  BY <1>5, <1>6, <1>8, <1>9

----------------------------------------------------------------------------
\* A document in page order, page by page.

Sorted(es) == \A i, j \in DOMAIN es : i <= j => es[i].page <= es[j].page

At(p)      == {e \in Element : PageOf(e) = p}
UpToPage(p) == {e \in Element : PageOf(e) <= p}
Numbers(m) == [p \in 1..m |-> p]

\* The tables of each page.
TablesAt(es, m) == [p \in 1..m |-> Only(es, At(p) \cap Tables)]

LEMMA PageOfIs ==
  ASSUME NEW e \in Element
  PROVE  PageOf(e) \in Nat /\ PageOf(e) >= 1 /\ PageOf(e) >= e.page /\ e.page \in Nat
         /\ (e.page # NoPage => PageOf(e) = e.page)
BY ElementFacts, LadderAssumption DEF PageOf, NoPage

LEMMA PageOfSorted ==
  ASSUME NEW es \in SeqOver(Element), Sorted(es)
  PROVE  \A i, j \in DOMAIN es : i <= j => PageOf(es[i]) <= PageOf(es[j])
<1>1. \A i \in DOMAIN es : es[i] \in Element /\ es[i].page \in Nat
  BY PageOfIs DEF SeqOver
<1> QED
  BY <1>1 DEF Sorted, PageOf, NoPage

LEMMA TablesAtType ==
  ASSUME NEW es \in SeqOver(Element), NEW m
  PROVE  TablesAt(es, m) \in [1..m -> SeqOver(Element)]
<1>1. \A p : Only(es, At(p) \cap Tables) \in SeqOver(Element)
  BY OnlyType
<1> QED
  BY <1>1 DEF TablesAt

LEMMA NumbersGrow ==
  ASSUME NEW m \in Nat
  PROVE  /\ Numbers(0) = <<>> /\ Numbers(m + 1) = Append(Numbers(m), m + 1)
         /\ \A n \in Nat : m <= n => Numbers(m) \in SeqOver(1..n)
BY DEF Numbers, SeqOver

LEMMA PageByPage ==
  ASSUME NEW es \in SeqOver(Element), Sorted(es), NEW m \in Nat
  PROVE  Gather(TablesAt(es, m), Numbers(m)) = Only(es, UpToPage(m) \cap Tables)
<1> DEFINE f == TablesAt(es, m)
           G == {n \in 0..m : Gather(f, Numbers(n)) = Only(es, UpToPage(n) \cap Tables)}
<1>1. f \in [1..m -> SeqOver(Element)]
  BY TablesAtType
<1>2. 0 \in G
  <2>1. UpToPage(0) \cap Tables = {}
    BY PageOfIs DEF UpToPage
  <2>2. Only(es, UpToPage(0) \cap Tables) = <<>>
    BY <2>1, OnlyNone
  <2>3. Gather(f, Numbers(0)) = <<>>
    BY NumbersGrow, GatherNothing
  <2> QED
    BY <2>2, <2>3
<1>3. ASSUME NEW n \in 0..(m - 1), n \in G PROVE n + 1 \in G
  <2>1. n \in Nat /\ n <= m /\ n + 1 \in 1..m /\ n + 1 \in 0..m
    OBVIOUS
  <2>2. Numbers(n) \in SeqOver(1..m) /\ Numbers(n + 1) = Append(Numbers(n), n + 1)
    BY <2>1, NumbersGrow
  <2>3. Gather(f, Numbers(n + 1)) = Join(Gather(f, Numbers(n)), f[n + 1])
    BY <1>1, <2>1, <2>2, GatherAppend
  <2>4. f[n + 1] = Only(es, At(n + 1) \cap Tables)
    BY <2>1 DEF TablesAt
  <2>5. (UpToPage(n) \cap Tables) \cup (At(n + 1) \cap Tables) = UpToPage(n + 1) \cap Tables
    <3>1. \A e \in Element : PageOf(e) <= n + 1 <=> PageOf(e) <= n \/ PageOf(e) = n + 1
      BY <2>1, PageOfIs
    <3> QED
      BY <3>1 DEF UpToPage, At
  <2>6. ASSUME NEW i \in DOMAIN es, NEW j \in DOMAIN es, es[i] \in UpToPage(n) \cap Tables, es[j] \in At(n + 1) \cap Tables
        PROVE  i < j
    <3>1. PageOf(es[i]) <= n /\ PageOf(es[j]) = n + 1 /\ PageOf(es[i]) \in Nat
      BY <2>6, PageOfIs DEF UpToPage, At
    <3>2. j <= i => PageOf(es[j]) <= PageOf(es[i])
      BY PageOfSorted
    <3>3. i \in Nat /\ j \in Nat
      BY DEF SeqOver
    <3> QED
      BY <2>1, <3>1, <3>2, <3>3
  <2>7. Only(es, (UpToPage(n) \cap Tables) \cup (At(n + 1) \cap Tables))
          = Join(Only(es, UpToPage(n) \cap Tables), Only(es, At(n + 1) \cap Tables))
    BY <2>6, OnlySplit
  <2> QED
    BY <1>3, <2>1, <2>3, <2>4, <2>5, <2>7
<1>4. m \in G
  <2> HIDE DEF G
  <2> QED
    BY <1>2, <1>3, Climb
<1> QED
  BY <1>4

\* All pages together.
LEMMA AllPages ==
  ASSUME NEW es \in SeqOver(Element), Sorted(es), NEW m \in Nat, \A i \in DOMAIN es : PageOf(es[i]) <= m
  PROVE  Gather(TablesAt(es, m), Numbers(m)) = Gather(Keeping, es)
<1>1. ToSet(es) \cap (UpToPage(m) \cap Tables) = ToSet(es) \cap Tables
  <2>1. \A i \in DOMAIN es : es[i] \in Element
    BY DEF SeqOver
  <2> QED
    BY <2>1 DEF ToSet, UpToPage
<1>2. Only(es, UpToPage(m) \cap Tables) = Only(es, Tables)
  BY <1>1, OnlySame
<1> QED
  BY <1>2, PageByPage, OnlyIsGather DEF Keeping

----------------------------------------------------------------------------
\* build_sections_slides.

LEMMA OnSlide ==
  ASSUME elements \in SeqOver(Element), NEW slide
  PROVE  /\ Only(elements, {e \in ToSet(elements) : PageOf(e) = slide}) \in SeqOver(Element)
         /\ ToSet(Only(elements, {e \in ToSet(elements) : PageOf(e) = slide})) = {e \in ToSet(elements) : PageOf(e) = slide}
         /\ TablesOf(Only(elements, {e \in ToSet(elements) : PageOf(e) = slide})) = Only(elements, At(slide) \cap Tables)
<1> DEFINE here == {e \in ToSet(elements) : PageOf(e) = slide}
<1>1. Only(elements, here) \in SeqOver(Element) /\ ToSet(Only(elements, here)) = ToSet(elements) \cap here
  BY OnlyType, OnlyRange
<1>2. ToSet(elements) \cap here = ToSet(elements) \cap At(slide)
  BY ToSetType DEF At
<1>3. Only(elements, here) = Only(elements, At(slide))
  BY <1>2, OnlySame
<1>4. Only(Only(elements, At(slide)), Tables) = Only(elements, At(slide) \cap Tables)
  BY OnlyTwice
<1>5. TablesOf(Only(elements, here)) = Only(elements, At(slide) \cap Tables)
  BY <1>1, <1>3, <1>4, TablesAre
<1> QED
  BY <1>1, <1>5

LEMMA SlideIs ==
  ASSUME elements \in SeqOver(Element), NEW slide \in 0..MaxPages
  PROVE  /\ SlideSection(slide) \in Numbered
         /\ SlideSection(slide).tables = Only(elements, At(slide) \cap Tables)
         /\ \A e \in ToSet(elements) : PageOf(e) = slide =>
              ToSet(LineF[e]) \subseteq ToSet(Title(SlideSection(slide))) \cup ToSet(BlockLines(SlideSection(slide)))
<1> DEFINE els == Only(elements, {e \in ToSet(elements) : PageOf(e) = slide})
           headings == HeadingsOf(els)
           titled == IF headings # <<>> THEN headings ELSE els
           title == IF titled = <<>> THEN <<>> ELSE Visible(titled[1].lines)
           body == Only(els, {e \in ToSet(els) : ~(e.kind = "heading" /\ Visible(e.lines) = title)})
           path == IF title = <<>> THEN <<>> ELSE <<[level |-> 1, text |-> title]>>
           s == SlideSection(slide)
<1>1. /\ s = Section(path, BlocksOf(body), TablesOf(els), slide, slide)
      /\ s.path = path /\ s.blocks = BlocksOf(body) /\ s.tables = TablesOf(els)
  BY DEF SlideSection, Section
<1>2. /\ els \in SeqOver(Element) /\ ToSet(els) = {e \in ToSet(elements) : PageOf(e) = slide}
      /\ TablesOf(els) = Only(elements, At(slide) \cap Tables) /\ TablesOf(els) \in SeqOver(Element)
  BY OnSlide, TablesAre
<1> HIDE DEF els, s
<1>3. titled \in SeqOver(Element)
  BY <1>2, OnlyType DEF HeadingsOf
<1> HIDE DEF titled
<1>4. title \in SeqOver(Line)
  <2>1. titled # <<>> => titled[1] \in Element
    BY <1>3 DEF SeqOver
  <2> QED
    BY <2>1, ElementFacts, VisibleIs, EmptyType
<1> HIDE DEF title
<1>5. path \in SeqOver(Heading)
  <2>1. [level |-> 1, text |-> title] \in Heading
    BY <1>4 DEF Heading
  <2> QED
    BY <2>1, EmptyType, OneType
<1>6. body \in SeqOver(Element)
      /\ ToSet(body) = ToSet(els) \cap {e \in ToSet(els) : ~(e.kind = "heading" /\ Visible(e.lines) = title)}
  BY <1>2, OnlyType, OnlyRange
<1>7. Title(s) = title
  BY <1>1 DEF Title, Last
<1> HIDE DEF path, body
<1>8. s \in Numbered
  <2>1. BlocksOf(body) \in SeqOver(Block) /\ \A k \in DOMAIN BlocksOf(body) : BlocksOf(body)[k].order = k - 1
    BY <1>6, BlocksAre
  <2> QED
    BY <1>1, <1>2, <1>5, <2>1, NumberedIs
<1>9. BlockLines(s) = Gather(LineF, body)
  BY <1>1, <1>6, <1>8, BlockLinesNumbered, BlocksAre
<1>10. ASSUME NEW e \in ToSet(elements), PageOf(e) = slide
       PROVE  ToSet(LineF[e]) \subseteq ToSet(Title(s)) \cup ToSet(BlockLines(s))
  <2>1. e \in ToSet(els) /\ e \in Element
    BY <1>2, <1>10, ToSetType
  <2>2. CASE e.kind = "heading" /\ Visible(e.lines) = title
    BY <1>7, <2>1, <2>2, LineFValue
  <2>3. CASE ~(e.kind = "heading" /\ Visible(e.lines) = title)
    <3>1. e \in ToSet(body)
      BY <1>6, <2>1, <2>3
    <3>2. ToSet(Gather(LineF, body)) = UNION {ToSet(LineF[x]) : x \in ToSet(body)}
      BY <1>6, LineFType, GatherRange
    <3> QED
      BY <1>9, <3>1, <3>2
  <2> QED
    BY <2>2, <2>3
<1> QED
  BY <1>1, <1>2, <1>8, <1>10 DEF s

LEMMA SlidesLoseNothing ==
  ASSUME elements \in SeqOver(Element), Sorted(elements), NEW total \in Nat, total <= MaxPages,
         \A i \in DOMAIN elements : PageOf(elements[i]) <= total
  PROVE  /\ [slide \in 1..total |-> SlideSection(slide)] \in SeqOver(Sections)
         /\ CoveredBy(elements, [slide \in 1..total |-> SlideSection(slide)])
         /\ TablesOnce(elements, [slide \in 1..total |-> SlideSection(slide)])
<1> DEFINE secs == [slide \in 1..total |-> SlideSection(slide)]
<1>1. \A slide \in 1..total : slide \in 0..MaxPages
  BY LadderAssumption
<1>2. \A slide \in 1..total : SlideSection(slide) \in Numbered /\ SlideSection(slide) \in Sections
  BY <1>1, SlideIs DEF Numbered
<1>3. DOMAIN secs = 1..total /\ \A slide \in 1..total : secs[slide] = SlideSection(slide)
  OBVIOUS
<1>4. secs \in SeqOver(Sections)
  <2>1. secs \in [1..total -> Sections]
    BY <1>2
  <2> QED
    BY <2>1, Listed
<1> HIDE DEF secs
<1>5. CoveredBy(elements, secs)
  <2>1. LinesOf(elements) = Gather(LineF, elements)
    BY LinesAre
  <2>2. ToSet(Gather(LineF, elements)) = UNION {ToSet(LineF[e]) : e \in ToSet(elements)}
    BY LineFType, GatherRange
  <2>3. ASSUME NEW l \in Lines(LinesOf(elements))
        PROVE  \E k \in DOMAIN secs : l \in Lines(Title(secs[k])) \cup Lines(BlockLines(secs[k]))
    <3>1. PICK e \in ToSet(elements) : l \in ToSet(LineF[e])
      BY <2>1, <2>2, LinesIsToSet
    <3>2. e \in Element /\ PageOf(e) <= total
      BY <3>1, ToSetType DEF ToSet
    <3>3. PageOf(e) \in 1..total
      BY <3>2, PageOfIs
    <3>4. ToSet(LineF[e]) \subseteq ToSet(Title(secs[PageOf(e)])) \cup ToSet(BlockLines(secs[PageOf(e)]))
      BY <1>1, <1>3, <3>1, <3>3, SlideIs
    <3> QED
      BY <1>3, <3>1, <3>3, <3>4, LinesIsToSet
  <2> QED
    BY <2>3 DEF CoveredBy
<1>6. TablesOnce(elements, secs)
  <2>1. ASSUME NEW k \in DOMAIN secs PROVE secs[k].tables = TablesAt(elements, total)[Numbers(total)[k]]
    BY <1>1, <1>3, SlideIs DEF TablesAt, Numbers
  <2>2. DOMAIN secs = DOMAIN Numbers(total)
    BY <1>3 DEF Numbers
  <2>3. [k \in DOMAIN secs |-> secs[k].tables] = [k \in DOMAIN Numbers(total) |-> TablesAt(elements, total)[Numbers(total)[k]]]
    BY <2>1, <2>2
  <2>4. FlattenSeq([k \in DOMAIN secs |-> secs[k].tables]) = Gather(TablesAt(elements, total), Numbers(total))
    BY <2>3, Zenon DEF Gather
  <2> QED
    BY <2>4, AllPages, KeepingFacts DEF TablesOnce
<1> QED
  BY <1>4, <1>5, <1>6 DEF secs

----------------------------------------------------------------------------
\* Sorting blocks by their order loses none: the blocks before one another give each of
\* them a place of its own.

Precedes(blocks, j, i) ==
  \/ blocks[j].order < blocks[i].order
  \/ (blocks[j].order = blocks[i].order /\ j < i)
Before(blocks, i) == {j \in DOMAIN blocks : Precedes(blocks, j, i)}

LEMMA RankIs ==
  ASSUME NEW blocks \in SeqOver(Block)
  PROVE  /\ \A i \in DOMAIN blocks : Cardinality(Before(blocks, i)) \in 0..(Len(blocks) - 1)
         /\ \A i, j \in DOMAIN blocks : Cardinality(Before(blocks, i)) = Cardinality(Before(blocks, j)) => i = j
<1> DEFINE n == Len(blocks)
<1>1. n \in Nat /\ DOMAIN blocks = 1..n /\ \A i \in 1..n : blocks[i].order \in Nat
  <2>1. n \in Nat /\ DOMAIN blocks = 1..n /\ \A i \in 1..n : blocks[i] \in Block
    BY DEF SeqOver
  <2> QED
    BY <2>1 DEF Block
<1> HIDE DEF n
<1>2. IsFiniteSet(1..n) /\ Cardinality(1..n) = n
  BY <1>1, FS_Interval, UpTo
<1>3. ASSUME NEW i \in 1..n
      PROVE  IsFiniteSet(Before(blocks, i)) /\ Cardinality(Before(blocks, i)) \in 0..(n - 1)
  <2>1. Before(blocks, i) \subseteq (1..n) \ {i}
    BY <1>1 DEF Before, Precedes
  <2>2. IsFiniteSet((1..n) \ {i}) /\ Cardinality((1..n) \ {i}) = n - 1
    BY <1>2, FS_RemoveElement
  <2>3. IsFiniteSet(Before(blocks, i)) /\ Cardinality(Before(blocks, i)) <= n - 1
    BY <2>1, <2>2, FS_Subset
  <2>4. Cardinality(Before(blocks, i)) \in Nat
    BY <2>3, FS_CardinalityType
  <2> QED
    BY <1>1, <2>3, <2>4
<1>4. ASSUME NEW i \in 1..n, NEW j \in 1..n, Precedes(blocks, i, j)
      PROVE  Cardinality(Before(blocks, i)) # Cardinality(Before(blocks, j))
  <2>1. Before(blocks, i) \subseteq Before(blocks, j)
    BY <1>1, <1>4 DEF Before, Precedes
  <2>2. i \in Before(blocks, j) /\ i \notin Before(blocks, i)
    BY <1>1, <1>4 DEF Before, Precedes
  <2>3. IsFiniteSet(Before(blocks, j))
    BY <1>3
  <2>4. Cardinality(Before(blocks, j)) = Cardinality(Before(blocks, i)) => Before(blocks, j) = Before(blocks, i)
    BY <2>1, <2>3, FS_Subset
  <2> QED
    BY <2>2, <2>4
<1>5. ASSUME NEW i \in 1..n, NEW j \in 1..n, i # j
      PROVE  Precedes(blocks, i, j) \/ Precedes(blocks, j, i)
  BY <1>1, <1>5 DEF Precedes
<1> QED
  BY <1>1, <1>3, <1>4, <1>5 DEF n

LEMMA SortedBlocks ==
  ASSUME NEW blocks \in SeqOver(Block)
  PROVE  InOrder(blocks) \in SeqOver(Block) /\ ToSet(InOrder(blocks)) = ToSet(blocks)
<1> DEFINE n == Len(blocks)
           rank == [i \in 1..n |-> Cardinality(Before(blocks, i))]
           at(k) == CHOOSE i \in DOMAIN blocks : Cardinality(Before(blocks, i)) = k - 1
<1>1. n \in Nat /\ DOMAIN blocks = 1..n /\ \A i \in 1..n : blocks[i] \in Block
  BY DEF SeqOver
<1> HIDE DEF n
<1>2. rank \in [1..n -> 0..(n - 1)] /\ \A i, j \in 1..n : rank[i] = rank[j] => i = j
  BY <1>1, RankIs DEF n
<1>3. rank \in Injection(1..n, 0..(n - 1))
  BY <1>2 DEF Injection, IsInjective
<1>4. IsFiniteSet(0..(n - 1)) /\ Cardinality(0..(n - 1)) = n /\ Cardinality(1..n) = n
  <2>1. 0 \in Int /\ n - 1 \in Int
    BY <1>1
  <2>2. IsFiniteSet(0..(n - 1)) /\ Cardinality(0..(n - 1)) = IF 0 > n - 1 THEN 0 ELSE n - 1 - 0 + 1
    BY <2>1, FS_Interval, Zenon
  <2> QED
    BY <1>1, <2>2, UpTo
<1>5. rank \in Surjection(1..n, 0..(n - 1))
  BY <1>3, <1>4, FS_Injection
<1>6. \A r \in 0..(n - 1) : \E i \in 1..n : rank[i] = r
  BY <1>5 DEF Surjection
<1>7. ASSUME NEW i \in 1..n, NEW k, rank[i] = k - 1 PROVE at(k) = i
  <2>1. \A j \in DOMAIN blocks : Cardinality(Before(blocks, j)) = k - 1 <=> j = i
    BY <1>1, <1>2, <1>7
  <2> QED
    BY <1>1, <2>1
<1>8. InOrder(blocks) = [k \in DOMAIN blocks |-> blocks[at(k)]]
  BY Zenon DEF InOrder, Before, Precedes
<1>9. ASSUME NEW k \in 1..n PROVE at(k) \in 1..n
  <2>1. k - 1 \in 0..(n - 1)
    BY <1>1
  <2>2. PICK i \in 1..n : rank[i] = k - 1
    BY <1>6, <2>1
  <2> QED
    BY <1>7, <2>2
<1>10. ASSUME NEW i \in 1..n PROVE \E k \in 1..n : at(k) = i
  <2> DEFINE k == rank[i] + 1
  <2>1. k \in 1..n /\ rank[i] = k - 1
    BY <1>1, <1>2
  <2> HIDE DEF k
  <2> QED
    BY <1>7, <2>1
<1> HIDE DEF at, rank
<1>11. InOrder(blocks) \in SeqOver(Block)
  <2>1. InOrder(blocks) \in [1..n -> Block]
    BY <1>1, <1>8, <1>9
  <2> QED
    BY <1>1, <2>1, Listed
<1>12. ToSet(InOrder(blocks)) = ToSet(blocks)
  <2>1. ToSet(InOrder(blocks)) = {blocks[at(k)] : k \in 1..n} /\ ToSet(blocks) = {blocks[i] : i \in 1..n}
    BY <1>1, <1>8 DEF ToSet
  <2> QED
    BY <1>9, <1>10, <2>1
<1> QED
  BY <1>11, <1>12

LEMMA BlockLinesRange ==
  ASSUME NEW s \in Sections
  PROVE  ToSet(BlockLines(s)) = ToSet(Gather(BlockF, s.blocks))
<1>1. s.blocks \in SeqOver(Block)
  BY SectionFacts
<1>2. InOrder(s.blocks) \in SeqOver(Block) /\ ToSet(InOrder(s.blocks)) = ToSet(s.blocks)
  BY <1>1, SortedBlocks
<1>3. \A k \in DOMAIN InOrder(s.blocks) : InOrder(s.blocks)[k] \in Block
  BY <1>2 DEF SeqOver
<1>4. [k \in DOMAIN InOrder(s.blocks) |-> InOrder(s.blocks)[k].lines]
        = [k \in DOMAIN InOrder(s.blocks) |-> BlockF[InOrder(s.blocks)[k]]]
  BY <1>3 DEF BlockF
<1>5. BlockLines(s) = Gather(BlockF, InOrder(s.blocks))
  BY <1>4, Zenon DEF BlockLines, Gather
<1>6. ToSet(Gather(BlockF, InOrder(s.blocks))) = UNION {ToSet(BlockF[x]) : x \in ToSet(InOrder(s.blocks))}
  BY <1>2, BlockFType, GatherRange
<1>7. ToSet(Gather(BlockF, s.blocks)) = UNION {ToSet(BlockF[x]) : x \in ToSet(s.blocks)}
  BY <1>1, BlockFType, GatherRange
<1> QED
  BY <1>2, <1>5, <1>6, <1>7

----------------------------------------------------------------------------
\* build_sections_page: the pages.

Present(p) == {e \in Element : PageOf(e) = p /\ (IsTable(e) \/ HasText(e))}
OnThePage(p) == Only(elements, Present(p))
PageSection(p) == Section(<<>>, BlocksOf(OnThePage(p)), TablesOf(OnThePage(p)), p, p)
PagesUsed == Only(Numbers(MaxPages), {p \in 1..MaxPages : OnThePage(p) # <<>>})

BlocksF == [s \in Sections |-> Gather(BlockF, s.blocks)]

LEMMA BlocksFType == BlocksF \in [Sections -> SeqOver(Line)]
<1>1. \A s \in Sections : Gather(BlockF, s.blocks) \in SeqOver(Line)
  BY SectionFacts, BlockFType, GatherType
<1> QED
  BY <1>1 DEF BlocksF

LEMMA PageSectionsAre ==
  ASSUME elements \in SeqOver(Element)
  PROVE  PageSections = [k \in DOMAIN PagesUsed |-> PageSection(PagesUsed[k])]
<1> DEFINE on(p) == Only(elements, {e \in ToSet(elements) : OnPage(e, p) /\ (IsTable(e) \/ HasText(e))})
<1>1. ASSUME NEW p PROVE on(p) = OnThePage(p)
  <2>1. \A e \in Element : OnPage(e, p) <=> PageOf(e) = p
    BY ElementFacts DEF OnPage
  <2>2. ToSet(elements) \subseteq Element
    BY ToSetType
  <2>3. ToSet(elements) \cap {e \in ToSet(elements) : OnPage(e, p) /\ (IsTable(e) \/ HasText(e))} = ToSet(elements) \cap Present(p)
    BY <2>1, <2>2 DEF Present
  <2> QED
    BY <2>3, OnlySame DEF OnThePage
<1>2. [p \in 1..MaxPages |-> p] = Numbers(MaxPages)
  BY DEF Numbers
<1>3. {p \in 1..MaxPages : on(p) # <<>>} = {p \in 1..MaxPages : OnThePage(p) # <<>>}
  BY <1>1
<1>4. Only([p \in 1..MaxPages |-> p], {p \in 1..MaxPages : on(p) # <<>>}) = PagesUsed
  BY <1>2, <1>3 DEF PagesUsed
<1>5. PageSections = [k \in DOMAIN PagesUsed |->
        Section(<<>>, BlocksOf(on(PagesUsed[k])), TablesOf(on(PagesUsed[k])), PagesUsed[k], PagesUsed[k])]
  BY <1>4, Zenon DEF PageSections
<1> HIDE DEF on
<1> QED
  BY <1>1, <1>5, Zenon DEF PageSection

LEMMA PageSectionIs ==
  ASSUME elements \in SeqOver(Element), NEW p \in 1..MaxPages
  PROVE  /\ PageSection(p) \in Sections
         /\ TableF[PageSection(p)] = TablesAt(elements, MaxPages)[p]
         /\ BlocksF[PageSection(p)] = Gather(LineF, OnThePage(p))
<1> DEFINE s == PageSection(p)
<1>1. OnThePage(p) \in SeqOver(Element)
  BY OnlyType DEF OnThePage
<1>2. s \in Numbered
  <2>1. p \in 0..MaxPages
    BY LadderAssumption
  <2>2. BlocksOf(OnThePage(p)) \in SeqOver(Block) /\ TablesOf(OnThePage(p)) \in SeqOver(Element)
        /\ \A k \in DOMAIN BlocksOf(OnThePage(p)) : BlocksOf(OnThePage(p))[k].order = k - 1
    BY <1>1, BlocksAre, TablesAre
  <2> QED
    BY <2>1, <2>2, EmptyType, NumberedIs DEF PageSection
<1>3. s.blocks = BlocksOf(OnThePage(p)) /\ s.tables = TablesOf(OnThePage(p))
  BY DEF PageSection, Section
<1> HIDE DEF s
<1>4. s \in Sections /\ TableF[s] = TablesOf(OnThePage(p)) /\ BlocksF[s] = Gather(LineF, OnThePage(p))
  BY <1>1, <1>2, <1>3, SectionFValue, BlocksAre DEF BlocksF
<1>5. TablesOf(OnThePage(p)) = TablesAt(elements, MaxPages)[p]
  <2>1. TablesOf(OnThePage(p)) = Only(Only(elements, Present(p)), Tables)
    BY <1>1, TablesAre DEF OnThePage
  <2>2. Only(Only(elements, Present(p)), Tables) = Only(elements, Present(p) \cap Tables)
    BY OnlyTwice
  <2>3. Present(p) \cap Tables = At(p) \cap Tables
    BY DEF Present, At, Tables
  <2> QED
    BY <2>1, <2>2, <2>3 DEF TablesAt
<1> QED
  BY <1>4, <1>5 DEF s

LEMMA PagesHoldAll ==
  ASSUME elements \in SeqOver(Element), Sorted(elements), \A i \in DOMAIN elements : PageOf(elements[i]) <= MaxPages
  PROVE  /\ PageSections \in SeqOver(Sections)
         /\ ToSet(Gather(LineF, elements)) \subseteq ToSet(Gather(BlocksF, PageSections))
         /\ Gather(TableF, PageSections) = Gather(Keeping, elements)
<1> DEFINE pages == PagesUsed
           f == TablesAt(elements, MaxPages)
<1>1. MaxPages \in Nat /\ Numbers(MaxPages) \in SeqOver(1..MaxPages)
  BY LadderAssumption, NumbersGrow
<1>2. pages \in SeqOver(1..MaxPages) /\ ToSet(pages) = ToSet(Numbers(MaxPages)) \cap {p \in 1..MaxPages : OnThePage(p) # <<>>}
  BY <1>1, OnlyType, OnlyRange DEF PagesUsed
<1>3. PageSections = [k \in DOMAIN pages |-> PageSection(pages[k])]
  BY PageSectionsAre
<1>4. Gather(f, pages) = Gather(Keeping, elements)
  <2>1. f \in [1..MaxPages -> SeqOver(Element)]
    BY TablesAtType
  <2>2. ASSUME NEW p \in 1..MaxPages, p \notin {q \in 1..MaxPages : OnThePage(q) # <<>>} PROVE f[p] = <<>>
    <3>1. OnThePage(p) = <<>>
      BY <2>2
    <3>2. TableF[PageSection(p)] = TablesOf(<<>>)
      <4>1. PageSection(p) \in Sections /\ PageSection(p).tables = TablesOf(<<>>)
        BY <3>1, PageSectionIs DEF PageSection, Section
      <4> QED
        BY <4>1 DEF TableF
    <3>3. TablesOf(<<>>) = <<>>
      BY OnlyEmpty DEF TablesOf
    <3> QED
      BY <3>2, <3>3, PageSectionIs
  <2>3. Gather(f, pages) = Gather(f, Numbers(MaxPages))
    BY <1>1, <2>1, <2>2, GatherOnly DEF PagesUsed
  <2> QED
    BY <1>1, <2>3, AllPages
<1> HIDE DEF pages, f
<1>5. DOMAIN pages = 1..Len(pages) /\ Len(pages) \in Nat /\ \A k \in DOMAIN pages : pages[k] \in 1..MaxPages
  BY <1>2, Items
<1>6. PageSections \in SeqOver(Sections)
  <2>1. PageSections \in [1..Len(pages) -> Sections]
    BY <1>3, <1>5, PageSectionIs
  <2> QED
    BY <1>5, <2>1, Listed
<1>7. Gather(TableF, PageSections) = Gather(f, pages)
  <2>1. \A k \in DOMAIN pages : TableF[PageSections[k]] = f[pages[k]]
    BY <1>3, <1>5, PageSectionIs DEF f
  <2>2. DOMAIN PageSections = DOMAIN pages
    BY <1>3
  <2>3. [k \in DOMAIN PageSections |-> TableF[PageSections[k]]] = [k \in DOMAIN pages |-> f[pages[k]]]
    BY <2>1, <2>2
  <2> QED
    BY <2>3, Zenon DEF Gather
<1>8. ASSUME NEW l \in ToSet(Gather(LineF, elements)) PROVE l \in ToSet(Gather(BlocksF, PageSections))
  <2>1. ToSet(Gather(LineF, elements)) = UNION {ToSet(LineF[x]) : x \in ToSet(elements)}
    BY LineFType, GatherRange
  <2>2. PICK e \in ToSet(elements) : l \in ToSet(LineF[e])
    BY <2>1
  <2>3. e \in Element /\ PageOf(e) <= MaxPages
    BY <2>2, ToSetType DEF ToSet
  <2>4. HasText(e)
    BY <2>2, <2>3, LineFValue, ToSetNothing DEF HasText
  <2> DEFINE p == PageOf(e)
  <2>5. p \in 1..MaxPages
    BY <1>1, <2>3, PageOfIs
  <2>6. e \in ToSet(OnThePage(p)) /\ OnThePage(p) \in SeqOver(Element)
    <3>1. ToSet(OnThePage(p)) = ToSet(elements) \cap Present(p)
      BY OnlyRange DEF OnThePage
    <3> QED
      BY <2>2, <2>3, <2>4, <3>1, OnlyType DEF Present, OnThePage
  <2> HIDE DEF p
  <2>7. l \in ToSet(BlocksF[PageSection(p)])
    <3>1. ToSet(Gather(LineF, OnThePage(p))) = UNION {ToSet(LineF[x]) : x \in ToSet(OnThePage(p))}
      BY <2>6, LineFType, GatherRange
    <3> QED
      BY <2>2, <2>5, <2>6, <3>1, PageSectionIs
  <2>8. PICK k \in DOMAIN pages : pages[k] = p
    <3>1. p \in ToSet(Numbers(MaxPages))
      BY <2>5 DEF Numbers, ToSet
    <3>2. OnThePage(p) # <<>>
      BY <2>6, ToSetNothing
    <3>3. p \in ToSet(pages)
      BY <1>2, <2>5, <3>1, <3>2
    <3> QED
      BY <3>3 DEF ToSet
  <2>9. PageSection(p) \in ToSet(PageSections)
    BY <1>3, <2>8 DEF ToSet
  <2>10. ToSet(Gather(BlocksF, PageSections)) = UNION {ToSet(BlocksF[x]) : x \in ToSet(PageSections)}
    BY <1>6, BlocksFType, GatherRange
  <2> QED
    BY <2>7, <2>9, <2>10
<1> QED
  BY <1>4, <1>6, <1>7, <1>8

----------------------------------------------------------------------------
\* build_sections_page: the merge of short pages.

Merging ==
  {m \in [done : SeqOver(Sections), carry : SeqOver(Sections)] : m.carry # <<>> => \E c \in Sections : m.carry = <<c>>}
Unmerged == [done |-> <<>>, carry |-> <<>>]

MergedAt(F, ss, n) == IF n = 0 THEN Unmerged ELSE MergeForward(F[n - 1], ss[n])
IsMerge(F, ss, m) == F = [n \in 0..m |-> MergedAt(F, ss, n)]

\* A section and what was carried into it.
Carried(carry, s) ==
  IF carry = <<>> THEN s
  ELSE [s EXCEPT !.blocks = carry[1].blocks \o @,
                 !.tables = carry[1].tables \o @,
                 !.start = carry[1].start]

LEMMA CarriedIs ==
  ASSUME NEW carry \in SeqOver(Sections), carry # <<>> => \E c \in Sections : carry = <<c>>, NEW s \in Sections
  PROVE  /\ Carried(carry, s) \in Sections
         /\ BlocksF[Carried(carry, s)] = Join(Gather(BlocksF, carry), BlocksF[s])
         /\ TableF[Carried(carry, s)] = Join(Gather(TableF, carry), TableF[s])
<1>1. BlocksF[s] = Gather(BlockF, s.blocks) /\ TableF[s] = s.tables
      /\ BlocksF[s] \in SeqOver(Line) /\ TableF[s] \in SeqOver(Element)
  BY BlocksFType, TableFType DEF BlocksF, TableF
<1>2. CASE carry = <<>>
  BY <1>1, <1>2, GatherNothing, JoinNothing DEF Carried
<1>3. CASE carry # <<>>
  <2>1. PICK c \in Sections : carry = <<c>>
    BY <1>3
  <2> DEFINE t == Carried(carry, s)
  <2>2. /\ c.blocks \in SeqOver(Block) /\ c.tables \in SeqOver(Element) /\ c.start \in 0..MaxPages
        /\ s.blocks \in SeqOver(Block) /\ s.tables \in SeqOver(Element)
    BY SectionFacts
  <2>3. Join(c.blocks, s.blocks) \in SeqOver(Block) /\ Join(c.tables, s.tables) \in SeqOver(Element)
    BY <2>2, JoinType
  <2>4. t = [s EXCEPT !.blocks = Join(c.blocks, s.blocks), !.tables = Join(c.tables, s.tables), !.start = c.start]
    BY <2>1 DEF Carried, Join, Sections
  <2> HIDE DEF t
  <2>5. t \in Sections /\ t.blocks = Join(c.blocks, s.blocks) /\ t.tables = Join(c.tables, s.tables)
    BY <2>2, <2>3, <2>4 DEF Sections
  <2>6. BlocksF[t] = Join(Gather(BlockF, c.blocks), Gather(BlockF, s.blocks))
    BY <2>2, <2>5, BlockFType, GatherJoin DEF BlocksF
  <2>7. Gather(BlocksF, carry) = Gather(BlockF, c.blocks) /\ Gather(TableF, carry) = c.tables
    <3>1. Gather(BlocksF, <<c>>) = BlocksF[c] /\ Gather(TableF, <<c>>) = TableF[c]
      BY BlocksFType, TableFType, GatherOne
    <3> QED
      BY <2>1, <3>1 DEF BlocksF, TableF
  <2>8. TableF[t] = t.tables
    BY <2>5 DEF TableF
  <2> QED
    BY <1>1, <2>5, <2>6, <2>7, <2>8 DEF t
<1> QED
  BY <1>2, <1>3

LEMMA MergeForwardIs ==
  ASSUME NEW m \in Merging, NEW s \in Sections
  PROVE  /\ MergeForward(m, s) \in Merging
         /\ Gather(BlocksF, Join(MergeForward(m, s).done, MergeForward(m, s).carry))
              = Join(Gather(BlocksF, Join(m.done, m.carry)), BlocksF[s])
         /\ Gather(TableF, Join(MergeForward(m, s).done, MergeForward(m, s).carry))
              = Join(Gather(TableF, Join(m.done, m.carry)), TableF[s])
<1> DEFINE sec == Carried(m.carry, s)
           next == MergeForward(m, s)
<1>1. /\ m.done \in SeqOver(Sections) /\ m.carry \in SeqOver(Sections)
      /\ m.carry # <<>> => \E c \in Sections : m.carry = <<c>>
  BY DEF Merging
<1>2. sec \in Sections /\ BlocksF[sec] = Join(Gather(BlocksF, m.carry), BlocksF[s])
      /\ TableF[sec] = Join(Gather(TableF, m.carry), TableF[s])
  BY <1>1, CarriedIs
<1>3. next = IF IsShort(sec) THEN [m EXCEPT !.carry = <<sec>>] ELSE [done |-> Append(m.done, sec), carry |-> <<>>]
  BY Zenon DEF MergeForward, Carried
<1> HIDE DEF sec, next
<1>4. <<sec>> \in SeqOver(Sections) /\ Append(m.done, sec) \in SeqOver(Sections) /\ <<>> \in SeqOver(Sections)
  BY <1>1, <1>2, OneType, AppendType, EmptyType
<1>5. next \in Merging /\ Join(next.done, next.carry) = Append(m.done, sec)
  <2>1. CASE IsShort(sec)
    <3>1. next = [done |-> m.done, carry |-> <<sec>>]
      BY <1>3, <2>1 DEF Merging
    <3>2. Join(m.done, <<sec>>) = Append(m.done, sec)
      BY <1>1, <1>2, AppendIsJoin
    <3> QED
      BY <1>1, <1>2, <1>4, <3>1, <3>2 DEF Merging
  <2>2. CASE ~IsShort(sec)
    <3>1. next = [done |-> Append(m.done, sec), carry |-> <<>>]
      BY <1>3, <2>2
    <3>2. Join(Append(m.done, sec), <<>>) = Append(m.done, sec)
      BY <1>4, JoinNothing
    <3> QED
      BY <1>4, <3>1, <3>2 DEF Merging
  <2> QED
    BY <2>1, <2>2
<1>6. Gather(BlocksF, Append(m.done, sec)) = Join(Gather(BlocksF, m.done), BlocksF[sec])
  BY <1>1, <1>2, BlocksFType, GatherAppend
<1>7. Gather(TableF, Append(m.done, sec)) = Join(Gather(TableF, m.done), TableF[sec])
  BY <1>1, <1>2, TableFType, GatherAppend
<1>8. Gather(BlocksF, Join(m.done, m.carry)) = Join(Gather(BlocksF, m.done), Gather(BlocksF, m.carry))
  BY <1>1, BlocksFType, GatherJoin
<1>9. Gather(TableF, Join(m.done, m.carry)) = Join(Gather(TableF, m.done), Gather(TableF, m.carry))
  BY <1>1, TableFType, GatherJoin
<1>10. /\ Gather(BlocksF, m.done) \in SeqOver(Line) /\ Gather(BlocksF, m.carry) \in SeqOver(Line) /\ BlocksF[s] \in SeqOver(Line)
       /\ Gather(TableF, m.done) \in SeqOver(Element) /\ Gather(TableF, m.carry) \in SeqOver(Element) /\ TableF[s] \in SeqOver(Element)
  BY <1>1, BlocksFType, TableFType, GatherType
<1>11. Gather(BlocksF, Append(m.done, sec)) = Join(Gather(BlocksF, Join(m.done, m.carry)), BlocksF[s])
  BY <1>2, <1>6, <1>8, <1>10, JoinAssociative
<1>12. Gather(TableF, Append(m.done, sec)) = Join(Gather(TableF, Join(m.done, m.carry)), TableF[s])
  BY <1>2, <1>7, <1>9, <1>10, JoinAssociative
<1> QED
  BY <1>5, <1>11, <1>12 DEF next

LEMMA UnmergedType == Unmerged \in Merging
BY EmptyType DEF Unmerged, Merging

LEMMA MergedPrefixes ==
  ASSUME NEW ss \in SeqOver(Sections)
  PROVE  \E F : /\ F[0] = Unmerged
                /\ \A n \in 1..Len(ss) : F[n] = MergeForward(F[n - 1], ss[n])
                /\ Merged(ss) = F[Len(ss)]
<1> DEFINE N == Len(ss)
           next == [n \in 1..N |-> [m \in Merging |-> MergeForward(m, ss[n])]]
           F == CHOOSE F : IsMerge(F, ss, Len(ss))
<1>1. N \in Nat /\ \A n \in 1..N : ss[n] \in Sections
  BY Items
<1>2. \E H : IsMerge(H, ss, N)
  <2>1. next \in [1..N -> [Merging -> Merging]]
    BY <1>1, MergeForwardIs
  <2>2. PICK H : Solves(H, Merging, Unmerged, N, next)
    <3> HIDE DEF N, next
    <3> QED
      BY <1>1, <2>1, UnmergedType, Recursion, Zenon
  <2>3. ASSUME NEW n \in 0..N PROVE H[n] = MergedAt(H, ss, n)
    <3>1. CASE n = 0
      BY <2>2, <3>1 DEF MergedAt, Solves
    <3>2. CASE n # 0
      <4>1. n \in 1..N /\ n - 1 \in 0..N
        BY <1>1, <3>2
      <4>2. H[n - 1] \in Merging /\ H[n] = next[n][H[n - 1]]
        BY <2>2, <4>1 DEF Solves
      <4>3. next[n][H[n - 1]] = MergeForward(H[n - 1], ss[n])
        BY <4>1, <4>2
      <4> QED
        BY <3>2, <4>2, <4>3 DEF MergedAt
    <3> QED
      BY <3>1, <3>2
  <2>4. H = [n \in 0..N |-> MergedAt(H, ss, n)]
    BY <2>2, <2>3 DEF Solves
  <2> HIDE DEF N
  <2> QED
    BY <2>4 DEF IsMerge
<1>3. IsMerge(F, ss, N)
  BY <1>2, Zenon
<1>4. Merged(ss) = F[N]
  BY Zenon DEF Merged, IsMerge, MergedAt, Unmerged
<1> HIDE DEF F
<1>5. \A n \in 0..N : F[n] = MergedAt(F, ss, n)
  BY <1>3 DEF IsMerge
<1>6. F[0] = Unmerged
  BY <1>1, <1>5 DEF MergedAt
<1>7. \A n \in 1..N : F[n] = MergeForward(F[n - 1], ss[n])
  BY <1>1, <1>5 DEF MergedAt
<1> QED
  BY <1>4, <1>6, <1>7

LEMMA MergedIs ==
  ASSUME NEW ss \in SeqOver(Sections)
  PROVE  /\ Merged(ss) \in Merging
         /\ Gather(BlocksF, Join(Merged(ss).done, Merged(ss).carry)) = Gather(BlocksF, ss)
         /\ Gather(TableF, Join(Merged(ss).done, Merged(ss).carry)) = Gather(TableF, ss)
<1> DEFINE N == Len(ss)
           first(n) == SubSeq(ss, 1, n)
           Same(m, n) == /\ m \in Merging
                         /\ Gather(BlocksF, Join(m.done, m.carry)) = Gather(BlocksF, first(n))
                         /\ Gather(TableF, Join(m.done, m.carry)) = Gather(TableF, first(n))
<1>1. N \in Nat
  BY Items
<1>2. PICK F : /\ F[0] = Unmerged
               /\ \A n \in 1..N : F[n] = MergeForward(F[n - 1], ss[n])
               /\ Merged(ss) = F[N]
  BY MergedPrefixes
<1>3. /\ first(0) = <<>> /\ first(N) = ss
      /\ \A n \in 0..N : first(n) \in SeqOver(Sections)
      /\ \A n \in 0..(N - 1) : ss[n + 1] \in Sections /\ first(n + 1) = Append(first(n), ss[n + 1])
  BY Beginnings
<1> HIDE DEF N, first
<1> DEFINE G == {n \in 0..N : Same(F[n], n)}
<1>4. 0 \in G
  <2>1. Unmerged.done = <<>> /\ Unmerged.carry = <<>>
    BY DEF Unmerged
  <2>2. Join(<<>>, <<>>) = <<>>
    BY EmptyType, JoinNothing
  <2>3. Same(Unmerged, 0)
    BY <1>3, <2>1, <2>2, UnmergedType
  <2> HIDE DEF Same
  <2> QED
    BY <1>1, <1>2, <2>3
<1>5. ASSUME NEW n \in 0..(N - 1), n \in G PROVE n + 1 \in G
  <2>1. n \in 0..N /\ n + 1 \in 0..N /\ n + 1 \in 1..N /\ (n + 1) - 1 = n
    BY <1>1
  <2>2. Same(F[n], n)
    BY <1>5
  <2>3. F[n + 1] = MergeForward(F[n], ss[n + 1])
    BY <1>2, <2>1
  <2>4. first(n) \in SeqOver(Sections) /\ ss[n + 1] \in Sections /\ first(n + 1) = Append(first(n), ss[n + 1])
    BY <1>3, <2>1
  <2>5. Gather(BlocksF, first(n + 1)) = Join(Gather(BlocksF, first(n)), BlocksF[ss[n + 1]])
    BY <2>4, BlocksFType, GatherAppend
  <2>6. Gather(TableF, first(n + 1)) = Join(Gather(TableF, first(n)), TableF[ss[n + 1]])
    BY <2>4, TableFType, GatherAppend
  <2>7. Same(F[n + 1], n + 1)
    BY <2>2, <2>3, <2>4, <2>5, <2>6, MergeForwardIs
  <2> HIDE DEF Same
  <2> QED
    BY <2>1, <2>7
<1>6. N \in G
  <2> HIDE DEF G
  <2> QED
    BY <1>1, <1>4, <1>5, Climb
<1> QED
  BY <1>2, <1>3, <1>6

LEMMA PagesLoseNothing ==
  ASSUME elements \in SeqOver(Element), Sorted(elements), \A i \in DOMAIN elements : PageOf(elements[i]) <= MaxPages,
         NEW secs, secs = Merged(PageSections).done \o Merged(PageSections).carry
  PROVE  secs \in SeqOver(Sections) /\ CoveredBy(elements, secs) /\ TablesOnce(elements, secs)
<1>1. /\ PageSections \in SeqOver(Sections)
      /\ ToSet(Gather(LineF, elements)) \subseteq ToSet(Gather(BlocksF, PageSections))
      /\ Gather(TableF, PageSections) = Gather(Keeping, elements)
  BY PagesHoldAll
<1>2. secs = Join(Merged(PageSections).done, Merged(PageSections).carry)
  BY DEF Join
<1>3. secs \in SeqOver(Sections)
  <2>1. Merged(PageSections).done \in SeqOver(Sections) /\ Merged(PageSections).carry \in SeqOver(Sections)
    BY <1>1, MergedIs DEF Merging
  <2> QED
    BY <1>2, <2>1, JoinType
<1>4. Gather(BlocksF, secs) = Gather(BlocksF, PageSections) /\ Gather(TableF, secs) = Gather(TableF, PageSections)
  BY <1>1, <1>2, MergedIs
<1>5. CoveredBy(elements, secs)
  <2>1. ToSet(Gather(BlocksF, secs)) = UNION {ToSet(BlocksF[x]) : x \in ToSet(secs)}
    BY <1>3, BlocksFType, GatherRange
  <2>2. ASSUME NEW l \in Lines(LinesOf(elements))
        PROVE  \E k \in DOMAIN secs : l \in Lines(Title(secs[k])) \cup Lines(BlockLines(secs[k]))
    <3>1. l \in ToSet(Gather(BlocksF, secs))
      BY <1>1, <1>4, LinesAre, LinesIsToSet
    <3>2. PICK x \in ToSet(secs) : l \in ToSet(BlocksF[x])
      BY <2>1, <3>1
    <3>3. PICK k \in DOMAIN secs : x = secs[k]
      BY <3>2 DEF ToSet
    <3>4. x \in Sections
      BY <1>3, <3>3, Items
    <3>5. l \in ToSet(BlockLines(x))
      BY <3>2, <3>4, BlockLinesRange DEF BlocksF
    <3> QED
      BY <3>3, <3>5, LinesIsToSet
  <2> QED
    BY <2>2 DEF CoveredBy
<1> QED
  BY <1>1, <1>3, <1>4, <1>5, TablesGathered

----------------------------------------------------------------------------
\* build_sections_page: what a page's section holds.

LEMMA KeptNumbersRise ==
  ASSUME NEW m \in Nat, NEW T
  PROVE  Rising(Only(Numbers(m), T))
<1> DEFINE Fit(s, n) == s \in SeqOver(1..n) /\ Rising(s)
           G == {n \in 0..m : Fit(Only(Numbers(n), T), n)}
<1>1. 0 \in G
  <2>1. Only(Numbers(0), T) = <<>>
    BY NumbersGrow, OnlyEmpty
  <2>2. Fit(<<>>, 0)
    BY EmptyType DEF Rising
  <2> HIDE DEF Fit
  <2> QED
    BY <2>1, <2>2
<1>2. ASSUME NEW n \in 0..(m - 1), n \in G PROVE n + 1 \in G
  <2>1. n \in Nat /\ n + 1 \in 0..m /\ n + 1 \in Nat /\ n <= n + 1 /\ n + 1 \in 1..(n + 1)
    OBVIOUS
  <2>2. Numbers(n) \in SeqOver(1..(n + 1)) /\ Numbers(n + 1) = Append(Numbers(n), n + 1)
    <3> HIDE DEF G
    <3> QED
      BY <2>1, NumbersGrow
  <2> DEFINE s == Only(Numbers(n), T)
  <2>3. Only(Numbers(n + 1), T) = IF n + 1 \in T THEN Append(s, n + 1) ELSE s
    <3>1. Only(Append(Numbers(n), n + 1), T) = IF n + 1 \in T THEN Append(s, n + 1) ELSE s
      <4> HIDE DEF G, Fit
      <4>1. \A x \in 1..(n + 1) : Only(Append(Numbers(n), x), T) = IF x \in T THEN Append(Only(Numbers(n), T), x) ELSE Only(Numbers(n), T)
        BY <2>2, OnlyGrows
      <4> QED
        BY <2>1, <4>1
    <3> QED
      BY <2>2, <3>1
  <2>4. Fit(s, n)
    BY <1>2
  <2> HIDE DEF s
  <2>5. Fit(s, n + 1)
    BY <2>4 DEF SeqOver
  <2>6. Fit(Append(s, n + 1), n + 1)
    <3>1. Append(s, n + 1) \in SeqOver(1..(n + 1))
      BY <2>2, <2>5, AppendType
    <3>2. Rising(Append(s, n + 1))
      BY <2>1, <2>4 DEF SeqOver, Rising
    <3> QED
      BY <3>1, <3>2
  <2> HIDE DEF Fit
  <2> QED
    BY <2>1, <2>3, <2>5, <2>6
<1>3. m \in G
  <2> HIDE DEF G
  <2> QED
    BY <1>1, <1>2, Climb
<1> QED
  BY <1>3

\* The lines of the pages from a to b, and the sections that hold just those of
\* the pages they stand for.
LinesOn(a, b) == UNION {ToSet(LineF[e]) : e \in {x \in ToSet(elements) : PageOf(x) \in a..b}}
Holding == {s \in Sections : s.start <= s.end /\ ToSet(BlocksF[s]) = LinesOn(s.start, s.end)}

LEMMA PageSectionHolds ==
  ASSUME elements \in SeqOver(Element), NEW p \in 1..MaxPages
  PROVE  PageSection(p) \in Holding /\ PageSection(p).start = p /\ PageSection(p).end = p
<1> DEFINE s == PageSection(p)
<1>1. s.start = p /\ s.end = p
  BY DEF PageSection, Section
<1>2. s \in Sections /\ BlocksF[s] = Gather(LineF, OnThePage(p))
  BY PageSectionIs
<1> HIDE DEF s
<1>3. OnThePage(p) \in SeqOver(Element) /\ ToSet(OnThePage(p)) = ToSet(elements) \cap Present(p)
  BY OnlyType, OnlyRange DEF OnThePage
<1>4. ToSet(BlocksF[s]) = UNION {ToSet(LineF[x]) : x \in ToSet(elements) \cap Present(p)}
  BY <1>2, <1>3, LineFType, GatherRange
<1>5. \A e \in ToSet(elements) : e \in Element /\ PageOf(e) \in Nat
  BY ToSetType, PageOfIs
<1>6. \A e \in ToSet(elements) : PageOf(e) \in p..p /\ e \notin Present(p) => ToSet(LineF[e]) = {}
  BY <1>5, LineFValue, ToSetNothing DEF Present, HasText
<1>7. \A e \in ToSet(elements) \cap Present(p) : PageOf(e) \in p..p
  BY <1>5 DEF Present
<1>8. ToSet(BlocksF[s]) = LinesOn(p, p)
  BY <1>4, <1>6, <1>7 DEF LinesOn
<1>9. p <= p
  OBVIOUS
<1> QED
  BY <1>1, <1>2, <1>8, <1>9 DEF Holding, s

\* The pages in use rise, and no text is on another page.
LEMMA PagesUsedAre ==
  ASSUME elements \in SeqOver(Element), \A i \in DOMAIN elements : PageOf(elements[i]) <= MaxPages
  PROVE  /\ PagesUsed \in SeqOver(1..MaxPages) /\ Rising(PagesUsed)
         /\ \A e \in ToSet(elements) : LineF[e] # <<>> => \E k \in DOMAIN PagesUsed : PagesUsed[k] = PageOf(e)
<1>1. MaxPages \in Nat /\ Numbers(MaxPages) \in SeqOver(1..MaxPages)
  BY LadderAssumption, NumbersGrow
<1>2. PagesUsed \in SeqOver(1..MaxPages) /\ ToSet(PagesUsed) = ToSet(Numbers(MaxPages)) \cap {p \in 1..MaxPages : OnThePage(p) # <<>>}
  BY <1>1, OnlyType, OnlyRange DEF PagesUsed
<1>3. Rising(PagesUsed)
  BY <1>1, KeptNumbersRise DEF PagesUsed
<1>4. ASSUME NEW e \in ToSet(elements), LineF[e] # <<>>
      PROVE  \E k \in DOMAIN PagesUsed : PagesUsed[k] = PageOf(e)
  <2>1. e \in Element /\ PageOf(e) <= MaxPages
    BY ToSetType DEF ToSet
  <2> DEFINE p == PageOf(e)
  <2>2. p \in 1..MaxPages
    BY <1>1, <2>1, PageOfIs
  <2>3. e \in ToSet(OnThePage(p))
    <3>1. ToSet(OnThePage(p)) = ToSet(elements) \cap Present(p)
      BY OnlyRange DEF OnThePage
    <3> QED
      BY <1>4, <2>1, <3>1, LineFValue DEF Present, HasText
  <2> HIDE DEF p
  <2>4. p \in ToSet(Numbers(MaxPages)) /\ OnThePage(p) # <<>>
    BY <2>2, <2>3, ToSetNothing DEF Numbers, ToSet
  <2>5. p \in ToSet(PagesUsed)
    BY <1>2, <2>2, <2>4
  <2> QED
    BY <2>5 DEF ToSet, p
<1> QED
  BY <1>2, <1>3, <1>4

\* What is carried ends at the page before.
Handed(m, n) ==
  /\ m \in Merging
  /\ \A k \in DOMAIN m.done : m.done[k] \in Holding /\ ~IsShort(m.done[k])
  /\ m.carry # <<>> => n >= 1 /\ m.carry[1] \in Holding /\ m.carry[1].end = PagesUsed[n]

LEMMA CarriedHolds ==
  ASSUME elements \in SeqOver(Element), \A i \in DOMAIN elements : PageOf(elements[i]) <= MaxPages,
         NEW n \in Nat, n + 1 \in DOMAIN PagesUsed, NEW m, Handed(m, n)
  PROVE  LET sec == Carried(m.carry, PageSection(PagesUsed[n + 1]))
         IN  sec \in Holding /\ sec.end = PagesUsed[n + 1]
<1> DEFINE p == PagesUsed[n + 1]
           s == PageSection(p)
           sec == Carried(m.carry, s)
<1>1. DOMAIN PagesUsed = 1..Len(PagesUsed) /\ Len(PagesUsed) \in Nat /\ \A k \in DOMAIN PagesUsed : PagesUsed[k] \in 1..MaxPages
  BY PagesUsedAre, Items
<1>2. p \in 1..MaxPages /\ s \in Holding /\ s.start = p /\ s.end = p
  BY <1>1, PageSectionHolds
<1>3. m \in Merging
  BY DEF Handed
<1> HIDE DEF s
<1>4. CASE m.carry = <<>>
  BY <1>2, <1>4 DEF Carried, s
<1>5. CASE m.carry # <<>>
  <2>1. PICK c \in Sections : m.carry = <<c>>
    BY <1>3, <1>5 DEF Merging
  <2>2. c \in Holding /\ n \in 1..Len(PagesUsed) /\ c.end = PagesUsed[n]
    BY <1>1, <1>5, <2>1 DEF Handed
  <2> DEFINE q == PagesUsed[n]
  <2>3. q \in 1..MaxPages /\ q < p
    BY <1>1, <2>2, PagesUsedAre DEF Rising
  <2>4. c.start \in 0..MaxPages /\ c.start <= q /\ ToSet(BlocksF[c]) = LinesOn(c.start, q)
    BY <2>2, SectionFacts DEF Holding
  <2>5. s \in Sections /\ ToSet(BlocksF[s]) = LinesOn(p, p)
    BY <1>2 DEF Holding
  <2>6. sec.start = c.start /\ sec.end = p
    BY <1>2, <2>1, <2>5 DEF Carried, Sections
  <2>7. m.carry \in SeqOver(Sections)
    BY <1>3 DEF Merging
  <2>8. sec \in Sections /\ BlocksF[sec] = Join(Gather(BlocksF, m.carry), BlocksF[s])
    BY <2>1, <2>5, <2>7, CarriedIs
  <2>9. Gather(BlocksF, m.carry) = BlocksF[c] /\ BlocksF[c] \in SeqOver(Line) /\ BlocksF[s] \in SeqOver(Line)
    BY <2>1, <2>5, BlocksFType, GatherOne
  <2> HIDE DEF sec, p, q
  <2>10. ToSet(BlocksF[sec]) = LinesOn(c.start, q) \cup LinesOn(p, p)
    BY <2>4, <2>5, <2>8, <2>9, ToSetJoin
  <2>11. ASSUME NEW e \in ToSet(elements), PageOf(e) \in c.start..p, ToSet(LineF[e]) # {}
         PROVE  PageOf(e) \in c.start..q \/ PageOf(e) \in p..p
    <3>1. LineF[e] # <<>>
      BY <2>11, ToSetNothing
    <3>2. PICK k \in DOMAIN PagesUsed : PagesUsed[k] = PageOf(e)
      BY <3>1, PagesUsedAre
    <3>3. k \in 1..Len(PagesUsed) /\ PagesUsed[k] \in 1..MaxPages
      BY <1>1, <3>2
    <3>4. k <= n \/ k = n + 1 \/ k > n + 1
      BY <3>3
    <3>5. k < n => PagesUsed[k] < q
      BY <1>1, <2>2, <3>3, PagesUsedAre DEF Rising, q
    <3>6. k > n + 1 => p < PagesUsed[k]
      BY <1>1, <3>3, PagesUsedAre DEF Rising, p
    <3>7. k = n => PagesUsed[k] = q
      BY DEF q
    <3>8. k = n + 1 => PagesUsed[k] = p
      BY DEF p
    <3>9. PagesUsed[k] <= q \/ PagesUsed[k] = p
      BY <1>2, <2>3, <2>11, <3>2, <3>3, <3>4, <3>5, <3>6, <3>7, <3>8, LadderAssumption
    <3> QED
      BY <1>2, <2>3, <2>4, <2>11, <3>2, <3>3, <3>9
  <2>12. \A x : (x \in c.start..q \/ x \in p..p) => x \in c.start..p
    BY <1>2, <2>3, <2>4, LadderAssumption
  <2>13. LinesOn(c.start, q) \cup LinesOn(p, p) = LinesOn(c.start, p)
    BY <2>11, <2>12 DEF LinesOn
  <2>14. c.start <= p
    BY <1>2, <2>3, <2>4, LadderAssumption
  <2> QED
    BY <2>6, <2>8, <2>10, <2>13, <2>14 DEF Holding, sec, p, s
<1> QED
  BY <1>4, <1>5

LEMMA MergeHands ==
  ASSUME elements \in SeqOver(Element), \A i \in DOMAIN elements : PageOf(elements[i]) <= MaxPages,
         NEW n \in Nat, n + 1 \in DOMAIN PagesUsed, NEW m, Handed(m, n)
  PROVE  Handed(MergeForward(m, PageSection(PagesUsed[n + 1])), n + 1)
<1> DEFINE s == PageSection(PagesUsed[n + 1])
           sec == Carried(m.carry, s)
           next == MergeForward(m, s)
<1>1. sec \in Holding /\ sec.end = PagesUsed[n + 1]
  BY CarriedHolds
<1>2. m \in Merging
  BY DEF Handed
<1>3. next = IF IsShort(sec) THEN [m EXCEPT !.carry = <<sec>>] ELSE [done |-> Append(m.done, sec), carry |-> <<>>]
  BY Zenon DEF MergeForward, Carried
<1>4. s \in Sections
  BY PagesUsedAre, Items, PageSectionHolds DEF Holding
<1>5. next \in Merging
  BY <1>2, <1>4, MergeForwardIs
<1> HIDE DEF s, sec, next
<1>6. n + 1 >= 1
  OBVIOUS
<1>7. CASE IsShort(sec)
  <2>1. next.done = m.done /\ next.carry = <<sec>>
    BY <1>2, <1>3, <1>7 DEF Merging
  <2>2. <<sec>>[1] = sec
    OBVIOUS
  <2> QED
    BY <1>1, <1>5, <1>6, <2>1, <2>2 DEF Handed, next, s
<1>8. CASE ~IsShort(sec)
  <2>1. next.done = Append(m.done, sec) /\ next.carry = <<>>
    BY <1>3, <1>8
  <2>2. m.done \in SeqOver(Sections) /\ sec \in Sections
    BY <1>1, <1>2 DEF Merging, Holding
  <2>3. \A k \in DOMAIN next.done : (k \in DOMAIN m.done /\ next.done[k] = m.done[k]) \/ next.done[k] = sec
    BY <2>1, <2>2 DEF SeqOver
  <2>4. \A k \in DOMAIN next.done : next.done[k] \in Holding /\ ~IsShort(next.done[k])
    BY <1>1, <1>8, <2>3 DEF Handed
  <2> QED
    BY <1>5, <2>1, <2>4 DEF Handed, next, s
<1> QED
  BY <1>7, <1>8

LEMMA MergedHolds ==
  ASSUME elements \in SeqOver(Element), \A i \in DOMAIN elements : PageOf(elements[i]) <= MaxPages
  PROVE  Handed(Merged(PageSections), Len(PagesUsed))
<1> DEFINE N == Len(PagesUsed)
<1>1. N \in Nat /\ DOMAIN PagesUsed = 1..N /\ \A k \in 1..N : PagesUsed[k] \in 1..MaxPages
  BY PagesUsedAre, Items
<1>2. PageSections = [k \in DOMAIN PagesUsed |-> PageSection(PagesUsed[k])]
  BY PageSectionsAre
<1> HIDE DEF N
<1>3. PageSections \in SeqOver(Sections) /\ Len(PageSections) = N
  <2>1. PageSections \in [1..N -> Sections]
    BY <1>1, <1>2, PageSectionIs
  <2> QED
    BY <1>1, <2>1 DEF SeqOver
<1>4. PICK F : /\ F[0] = Unmerged
               /\ \A n \in 1..Len(PageSections) : F[n] = MergeForward(F[n - 1], PageSections[n])
               /\ Merged(PageSections) = F[Len(PageSections)]
  BY <1>3, MergedPrefixes
<1> DEFINE G == {n \in 0..N : Handed(F[n], n)}
<1>5. 0 \in G
  <2>1. Unmerged.done = <<>> /\ Unmerged.carry = <<>>
    BY DEF Unmerged
  <2>2. Handed(Unmerged, 0)
    BY <2>1, UnmergedType DEF Handed
  <2> QED
    BY <1>1, <1>4, <2>2
<1>6. ASSUME NEW n \in 0..(N - 1), n \in G PROVE n + 1 \in G
  <2>1. n \in Nat /\ n + 1 \in 0..N /\ n + 1 \in 1..N /\ (n + 1) - 1 = n
    BY <1>1
  <2>2. F[n + 1] = MergeForward(F[n], PageSection(PagesUsed[n + 1]))
    BY <1>1, <1>2, <1>3, <1>4, <2>1
  <2>3. Handed(F[n], n)
    BY <1>6
  <2> QED
    BY <1>1, <2>1, <2>2, <2>3, MergeHands
<1>7. N \in G
  <2> HIDE DEF G
  <2>1. N \in Nat /\ \A n \in 0..(N - 1) : n \in G => n + 1 \in G
    BY <1>1, <1>6
  <2>2. N \in 0..N
    BY <2>1
  <2> QED
    BY <1>5, <2>1, <2>2, Climb
<1> QED
  BY <1>3, <1>4, <1>7 DEF N

LEMMA PagesDelivered ==
  ASSUME elements \in SeqOver(Element), \A i \in DOMAIN elements : PageOf(elements[i]) <= MaxPages,
         NEW secs, secs = Merged(PageSections).done \o Merged(PageSections).carry
  PROVE  /\ \A k \in DOMAIN secs : secs[k] \in Holding
         /\ \A k \in 1..(Len(secs) - 1) : ~IsShort(secs[k])
<1> DEFINE m == Merged(PageSections)
<1>1. Handed(m, Len(PagesUsed))
  BY MergedHolds
<1>2. secs = m.done \o m.carry
  OBVIOUS
<1> HIDE DEF m
<1>3. /\ m.done \in SeqOver(Sections)
      /\ m.carry # <<>> => \E c \in Sections : m.carry = <<c>> /\ c \in Holding
  BY <1>1 DEF Handed, Merging
<1>4. \A k \in DOMAIN m.done : m.done[k] \in Holding /\ ~IsShort(m.done[k])
  BY <1>1 DEF Handed
<1>5. CASE m.carry = <<>>
  <2>1. secs = m.done
    BY <1>2, <1>3, <1>5 DEF SeqOver
  <2>2. DOMAIN m.done = 1..Len(m.done) /\ Len(m.done) \in Nat
    BY <1>3, Items
  <2>3. \A k \in 1..(Len(m.done) - 1) : k \in DOMAIN m.done
    BY <2>2
  <2> QED
    BY <1>4, <2>1, <2>3, Zenon
<1>6. CASE m.carry # <<>>
  <2>1. PICK c \in Sections : m.carry = <<c>> /\ c \in Holding
    BY <1>3, <1>6
  <2>2. \A t \in SeqOver(Sections) :
          /\ \A k \in DOMAIN (t \o <<c>>) : (k \in DOMAIN t /\ (t \o <<c>>)[k] = t[k]) \/ (t \o <<c>>)[k] = c
          /\ \A k \in 1..(Len(t \o <<c>>) - 1) : k \in DOMAIN t /\ (t \o <<c>>)[k] = t[k]
    BY DEF SeqOver
  <2>3. \A k \in DOMAIN secs : (k \in DOMAIN m.done /\ secs[k] = m.done[k]) \/ secs[k] = c
    <3>1. secs = m.done \o <<c>> /\ m.done \in SeqOver(Sections)
      BY <1>2, <1>3, <2>1
    <3> QED
      BY <2>2, <3>1
  <2>4. \A k \in 1..(Len(secs) - 1) : k \in DOMAIN m.done /\ secs[k] = m.done[k]
    BY <1>2, <1>3, <2>1, <2>2, Zenon
  <2>5. \A k \in DOMAIN secs : secs[k] \in Holding
    BY <1>4, <2>1, <2>3, Zenon
  <2>6. \A k \in 1..(Len(secs) - 1) : ~IsShort(secs[k])
    BY <1>4, <2>4, Zenon
  <2> QED
    BY <2>5, <2>6
<1> QED
  BY <1>5, <1>6

\* A line is of one element only, so it is on one page only.
LEMMA HoldingReads ==
  ASSUME elements \in SeqOver(Element), \A i \in DOMAIN elements : elements[i].id = i /\ elements[i].page # NoPage,
         NEW s \in Holding, NEW i \in DOMAIN elements, HasText(elements[i])
  PROVE  elements[i].page \in s.start..s.end <=> Lines(Visible(elements[i].lines)) \subseteq Lines(BlockLines(s))
<1> DEFINE e == elements[i]
<1>1. e \in Element /\ e \in ToSet(elements)
  BY Items DEF ToSet
<1>2. PageOf(e) = e.page
  BY <1>1, PageOfIs
<1>3. LineF[e] = Visible(e.lines) /\ LineF[e] \in SeqOver(Line) /\ Lines(Visible(e.lines)) = ToSet(LineF[e])
  BY <1>1, LineFValue, LinesIsToSet
<1>4. Lines(BlockLines(s)) = LinesOn(s.start, s.end)
  BY BlockLinesRange, LinesIsToSet DEF Holding, BlocksF
<1>5. PICK l : l \in ToSet(LineF[e])
  <2>1. ToSet(LineF[e]) # {}
    BY <1>3, ToSetEmpty DEF HasText
  <2> QED
    BY <2>1
<1>6. \A x \in Element : \A y \in ToSet(LineF[x]) : y.at[1] = x.id
  <2>1. ASSUME NEW x \in Element PROVE ToSet(LineF[x]) \subseteq ToSet(x.lines)
    <3>1. LineF[x] = Only(x.lines, NotBlank) /\ x.lines \in SeqOver(Line)
      BY LineFValue, ElementFacts, VisibleIs
    <3> QED
      BY <3>1, OnlyRange
  <2> QED
    BY <2>1, ElementFacts
<1>7. ASSUME e.page \in s.start..s.end PROVE ToSet(LineF[e]) \subseteq LinesOn(s.start, s.end)
  BY <1>1, <1>2, <1>7 DEF LinesOn
<1>8. ASSUME ToSet(LineF[e]) \subseteq LinesOn(s.start, s.end) PROVE e.page \in s.start..s.end
  <2>1. PICK x \in ToSet(elements) : PageOf(x) \in s.start..s.end /\ l \in ToSet(LineF[x])
    BY <1>5, <1>8 DEF LinesOn
  <2>2. PICK j \in DOMAIN elements : x = elements[j]
    BY <2>1 DEF ToSet
  <2>3. x \in Element /\ x.id = j /\ e.id = i
    BY <2>2, Items
  <2>4. l.at[1] = i /\ l.at[1] = j
    BY <1>1, <1>5, <1>6, <2>1, <2>3
  <2> QED
    BY <1>2, <2>1, <2>2, <2>4
<1> QED
  BY <1>3, <1>4, <1>7, <1>8

----------------------------------------------------------------------------
\* The headings that enclose an element.

Opening(es, i) ==
  {h \in 1..i : es[h].kind = "heading" /\ \A g \in (h + 1)..i : es[g].kind = "heading" => es[g].level > es[h].level}
Chain(es, i)   == Only(Numbers(i), Opening(es, i))
HeadingOf(e)   == [level |-> e.level, text |-> Visible(e.lines)]
Path(es, c)    == [k \in DOMAIN c |-> HeadingOf(es[c[k]])]

LEMMA EnclosingIs == ASSUME NEW es, NEW i PROVE Enclosing(es, i) = Path(es, Chain(es, i))
<1> DEFINE opens(h) == es[h].kind = "heading" /\ \A g \in (h + 1)..i : es[g].kind = "heading" => es[g].level > es[h].level
           chain == Only([h \in 1..i |-> h], {h \in 1..i : opens(h)})
<1>1. Enclosing(es, i) = [k \in DOMAIN chain |-> [level |-> es[chain[k]].level, text |-> Visible(es[chain[k]].lines)]]
  BY Zenon DEF Enclosing
<1>2. chain = Chain(es, i)
  BY DEF Chain, Opening, Numbers
<1> HIDE DEF chain
<1> QED
  BY <1>1, <1>2, Zenon DEF Path, HeadingOf

LEMMA HeadingOfType == ASSUME NEW e \in Element PROVE HeadingOf(e) \in Heading
BY ElementFacts, VisibleIs DEF HeadingOf, Heading

\* The levels along the chain rise.
LEMMA ChainIs ==
  ASSUME NEW es \in SeqOver(Element), NEW i \in 0..Len(es)
  PROVE  /\ Chain(es, i) \in SeqOver(1..i)
         /\ \A j, k \in DOMAIN Chain(es, i) : j < k => es[Chain(es, i)[j]].level < es[Chain(es, i)[k]].level
         /\ Path(es, Chain(es, i)) \in SeqOver(Heading)
<1> DEFINE c == Chain(es, i)
<1>1. Len(es) \in Nat /\ DOMAIN es = 1..Len(es) /\ \A h \in DOMAIN es : es[h] \in Element
  BY Items
<1>2. i \in Nat /\ Numbers(i) \in SeqOver(1..i)
  <2>1. i \in Nat /\ i <= i
    BY <1>1
  <2> QED
    BY <2>1, NumbersGrow
<1>3. c \in SeqOver(1..i) /\ Rising(c) /\ ToSet(c) \subseteq Opening(es, i)
  <2>1. \A T : Only(Numbers(i), T) \in SeqOver(1..i) /\ ToSet(Only(Numbers(i), T)) = ToSet(Numbers(i)) \cap T
    BY <1>2, OnlyType, OnlyRange
  <2>2. \A T : Rising(Only(Numbers(i), T))
    BY <1>2, KeptNumbersRise
  <2> QED
    BY <2>1, <2>2 DEF Chain
<1>4. DOMAIN c = 1..Len(c) /\ Len(c) \in Nat /\ \A k \in DOMAIN c : c[k] \in Opening(es, i) /\ c[k] \in 1..i
  <2>1. \A k \in DOMAIN c : c[k] \in ToSet(c)
    BY DEF ToSet
  <2> QED
    BY <1>3, <2>1, Items
<1> HIDE DEF c
<1>5. ASSUME NEW j \in DOMAIN c, NEW k \in DOMAIN c, j < k PROVE es[c[j]].level < es[c[k]].level
  <2>1. c[j] < c[k] /\ c[j] \in 1..i /\ c[k] \in 1..i
    BY <1>3, <1>4, <1>5 DEF Rising
  <2>2. c[k] \in (c[j] + 1)..i
    BY <1>2, <2>1
  <2>3. es[c[k]].kind = "heading"
    BY <1>4 DEF Opening
  <2>4. es[c[k]].level > es[c[j]].level
    BY <1>4, <2>2, <2>3 DEF Opening
  <2>5. es[c[j]].level \in Int /\ es[c[k]].level \in Int
    BY <1>1, <1>2, <2>1, ElementFacts
  <2> QED
    BY <2>4, <2>5
<1>6. \A k \in 1..Len(c) : HeadingOf(es[c[k]]) \in Heading
  BY <1>1, <1>2, <1>4, HeadingOfType
<1>7. Path(es, c) \in [1..Len(c) -> Heading]
  BY <1>4, <1>6 DEF Path
<1> QED
  BY <1>3, <1>4, <1>5, <1>7, Listed DEF c

LEMMA EnclosingNothing == ASSUME NEW es PROVE Enclosing(es, 0) = <<>>
<1>1. Chain(es, 0) = <<>>
  BY NumbersGrow, OnlyEmpty DEF Chain
<1>2. Path(es, <<>>) = <<>>
  BY DEF Path
<1> QED
  BY <1>1, <1>2, EnclosingIs

LEMMA NextNumber ==
  ASSUME NEW i \in Nat, NEW T
  PROVE  Only(Numbers(i + 1), T) = IF i + 1 \in T THEN Append(Only(Numbers(i), T), i + 1) ELSE Only(Numbers(i), T)
<1>1. Numbers(i) \in SeqOver(1..(i + 1)) /\ Numbers(i + 1) = Append(Numbers(i), i + 1) /\ i + 1 \in 1..(i + 1)
  <2>1. i + 1 \in Nat /\ i <= i + 1 /\ i + 1 \in 1..(i + 1)
    OBVIOUS
  <2>2. \A m \in Nat : i <= m => Numbers(i) \in SeqOver(1..m)
    BY NumbersGrow
  <2>3. Numbers(i + 1) = Append(Numbers(i), i + 1)
    BY NumbersGrow
  <2>4. Numbers(i) \in SeqOver(1..(i + 1))
    BY <2>1, <2>2, Zenon
  <2> QED
    BY <2>1, <2>3, <2>4
<1>2. \A x \in 1..(i + 1) : Only(Append(Numbers(i), x), T) = IF x \in T THEN Append(Only(Numbers(i), T), x) ELSE Only(Numbers(i), T)
  BY <1>1, OnlyGrows
<1> QED
  BY <1>1, <1>2

LEMMA NumbersRange == ASSUME NEW i \in Nat PROVE Numbers(i) \in SeqOver(1..i) /\ ToSet(Numbers(i)) = 1..i
<1>1. i <= i
  OBVIOUS
<1>2. ToSet(Numbers(i)) = 1..i
  BY DEF Numbers, ToSet
<1> QED
  BY <1>1, <1>2, NumbersGrow

LEMMA EnclosingStays ==
  ASSUME NEW es, NEW i \in Nat, es[i + 1].kind # "heading"
  PROVE  Enclosing(es, i + 1) = Enclosing(es, i)
<1>1. i + 1 \notin Opening(es, i + 1)
  BY DEF Opening
<1>2. 1..i \cap Opening(es, i + 1) = 1..i \cap Opening(es, i)
  <2>1. ASSUME NEW h \in 1..i
        PROVE  (\A g \in (h + 1)..(i + 1) : es[g].kind = "heading" => es[g].level > es[h].level)
                 <=> (\A g \in (h + 1)..i : es[g].kind = "heading" => es[g].level > es[h].level)
    <3>1. \A g \in (h + 1)..(i + 1) : g \in (h + 1)..i \/ g = i + 1
      OBVIOUS
    <3>2. \A g \in (h + 1)..i : g \in (h + 1)..(i + 1)
      OBVIOUS
    <3> QED
      BY <3>1, <3>2
  <2>2. \A h \in 1..i : h \in 1..(i + 1)
    OBVIOUS
  <2> QED
    BY <2>1, <2>2 DEF Opening
<1>3. Only(Numbers(i), Opening(es, i + 1)) = Only(Numbers(i), Opening(es, i))
  BY <1>2, NumbersRange, OnlySame
<1>4. Chain(es, i + 1) = Chain(es, i)
  BY <1>1, <1>3, NextNumber DEF Chain
<1> QED
  BY <1>4, EnclosingIs

LEMMA PathGrows ==
  ASSUME NEW es, NEW D, NEW c \in SeqOver(D), NEW n \in 0..Len(c), NEW x
  PROVE  Path(es, Append(SubSeq(c, 1, n), x)) = Append(SubSeq(Path(es, c), 1, n), HeadingOf(es[x]))
<1> DEFINE a == Append(SubSeq(c, 1, n), x)
           b == Append(SubSeq(Path(es, c), 1, n), HeadingOf(es[x]))
<1>1. Len(c) \in Nat /\ DOMAIN c = 1..Len(c) /\ n \in Nat /\ n <= Len(c)
  BY DEF SeqOver
<1>2. DOMAIN a = 1..(n + 1) /\ a[n + 1] = x /\ \A k \in 1..n : a[k] = c[k]
  BY <1>1 DEF SeqOver
<1> DEFINE p == Path(es, c)
           V == {HeadingOf(es[c[k]]) : k \in DOMAIN c}
<1>3. p \in Seq(V) /\ Len(p) = Len(c) /\ \A k \in 1..Len(c) : p[k] = HeadingOf(es[c[k]])
  <2>1. DOMAIN p = 1..Len(c) /\ \A k \in 1..Len(c) : p[k] = HeadingOf(es[c[k]])
    BY <1>1 DEF Path
  <2>2. p \in [1..Len(c) -> V]
    BY <1>1 DEF Path
  <2> HIDE DEF p, V
  <2>3. p \in Seq(V)
    BY <1>1, <2>2
  <2> QED
    BY <1>1, <2>1, <2>3
<1> HIDE DEF p
<1>4. /\ DOMAIN b = 1..(n + 1) /\ b[n + 1] = HeadingOf(es[x]) /\ \A k \in 1..n : b[k] = HeadingOf(es[c[k]])
      /\ b = [k \in 1..(n + 1) |-> b[k]]
  <2> DEFINE h == HeadingOf(es[x])
  <2>1. b = Append(SubSeq(p, 1, n), h)
    BY DEF p
  <2> HIDE DEF h, b, V
  <2>2. SubSeq(p, 1, n) \in Seq(V) /\ Len(SubSeq(p, 1, n)) = n /\ \A k \in 1..n : SubSeq(p, 1, n)[k] = p[k]
    BY <1>1, <1>3
  <2>3. DOMAIN b = 1..(n + 1) /\ b = [k \in 1..(n + 1) |-> b[k]] /\ b[n + 1] = h /\ \A k \in 1..n : b[k] = p[k]
    BY <1>1, <2>1, <2>2
  <2>4. \A k \in 1..n : k \in 1..Len(c)
    BY <1>1
  <2>5. \A k \in 1..n : b[k] = HeadingOf(es[c[k]])
    BY <1>3, <2>3, <2>4, Zenon
  <2> QED
    BY <2>3, <2>5, Zenon DEF h
<1> HIDE DEF a, b
<1>5. b = [k \in 1..(n + 1) |-> b[k]]
  BY <1>4
<1>6. \A k \in 1..(n + 1) : b[k] = HeadingOf(es[a[k]])
  <2>1. \A k \in 1..(n + 1) : k \in 1..n \/ k = n + 1
    BY <1>1
  <2> QED
    BY <1>2, <1>4, <2>1, Zenon
<1>7. Path(es, a) = [k \in 1..(n + 1) |-> HeadingOf(es[a[k]])]
  BY <1>2 DEF Path
<1>8. Path(es, a) = b
  BY <1>5, <1>6, <1>7
<1> QED
  BY <1>8 DEF a, b

\* Popping the stack of the headings that enclose the element before leaves those
\* that the next heading does not close.
LEMMA EnclosingGrows ==
  ASSUME NEW es \in SeqOver(Element), NEW i \in Nat, i + 1 \in DOMAIN es, es[i + 1].kind = "heading",
         stack = Enclosing(es, i)
  PROVE  Enclosing(es, i + 1) = Append(PopTo(es[i + 1].level), HeadingOf(es[i + 1]))
<1> DEFINE c == Chain(es, i)
           level == es[i + 1].level
           Low == {h \in 1..i : es[h].level < level}
           n == Max({0} \cup {k \in DOMAIN c : c[k] \in Low})
<1>1. Len(es) \in Nat /\ DOMAIN es = 1..Len(es) /\ i \in 0..Len(es) /\ \A h \in DOMAIN es : es[h] \in Element
  <2>1. Len(es) \in Nat /\ DOMAIN es = 1..Len(es) /\ \A h \in DOMAIN es : es[h] \in Element
    BY Items
  <2> QED
    BY <2>1
<1>2. /\ c \in SeqOver(1..i) /\ DOMAIN c = 1..Len(c) /\ Len(c) \in Nat /\ \A k \in DOMAIN c : c[k] \in 1..i
      /\ \A j, k \in DOMAIN c : j < k => es[c[j]].level < es[c[k]].level
  <2>1. c \in SeqOver(1..i) /\ \A j, k \in DOMAIN c : j < k => es[c[j]].level < es[c[k]].level
    BY <1>1, ChainIs
  <2> QED
    BY <2>1, Items
<1>3. level \in Int /\ \A h \in 1..i : es[h].level \in Int
  <2>1. \A h \in DOMAIN es : es[h].level \in Int
    BY <1>1, ElementFacts
  <2> QED
    BY <1>1, <2>1
<1>4. i + 1 \in Opening(es, i + 1)
  BY DEF Opening
<1>5. 1..i \cap Opening(es, i + 1) = 1..i \cap (Opening(es, i) \cap Low)
  <2>1. ASSUME NEW h \in 1..i
        PROVE  (\A g \in (h + 1)..(i + 1) : es[g].kind = "heading" => es[g].level > es[h].level)
                 <=> level > es[h].level /\ (\A g \in (h + 1)..i : es[g].kind = "heading" => es[g].level > es[h].level)
    <3>1. \A g \in (h + 1)..(i + 1) : g \in (h + 1)..i \/ g = i + 1
      OBVIOUS
    <3>2. i + 1 \in (h + 1)..(i + 1) /\ \A g \in (h + 1)..i : g \in (h + 1)..(i + 1)
      OBVIOUS
    <3> QED
      BY <3>1, <3>2
  <2>2. \A h \in 1..i : h \in 1..(i + 1) /\ (level > es[h].level <=> es[h].level < level)
    BY <1>3
  <2> QED
    BY <2>1, <2>2 DEF Opening
<1>6. Only(Numbers(i), Opening(es, i + 1)) = Only(c, Low)
  <2>1. Only(Numbers(i), Opening(es, i + 1)) = Only(Numbers(i), Opening(es, i) \cap Low)
    BY <1>5, NumbersRange, OnlySame
  <2>2. Only(Only(Numbers(i), Opening(es, i)), Low) = Only(Numbers(i), Opening(es, i) \cap Low)
    BY NumbersRange, OnlyTwice
  <2> QED
    BY <2>1, <2>2 DEF Chain
<1> HIDE DEF c, level
<1>7. n \in 0..Len(c) /\ Only(c, Low) = SubSeq(c, 1, n)
  <2>1. \A j, k \in DOMAIN c : j <= k /\ c[k] \in Low => c[j] \in Low
    BY <1>2, <1>3
  <2> HIDE DEF Low
  <2> QED
    BY <1>2, <2>1, OnlyUpTo
<1>8. Chain(es, i + 1) = Append(SubSeq(c, 1, n), i + 1)
  BY <1>4, <1>6, <1>7, NextNumber DEF Chain
<1>9. stack = Path(es, c)
  BY EnclosingIs DEF c
<1>10. {k \in DOMAIN stack : stack[k].level < level} = {k \in DOMAIN c : c[k] \in Low}
  <2>1. DOMAIN stack = DOMAIN c /\ \A k \in DOMAIN c : stack[k].level = es[c[k]].level
    BY <1>9 DEF Path, HeadingOf
  <2> QED
    BY <1>2, <2>1
<1>11. PopTo(level) = SubSeq(Path(es, c), 1, n)
  BY <1>9, <1>10 DEF PopTo
<1> HIDE DEF n
<1>12. Path(es, Append(SubSeq(c, 1, n), i + 1)) = Append(SubSeq(Path(es, c), 1, n), HeadingOf(es[i + 1]))
  BY <1>2, <1>7, PathGrows
<1> QED
  BY <1>8, <1>11, <1>12, EnclosingIs DEF level

----------------------------------------------------------------------------
\* What build_sections_heading files where.

WellFiled(s, es, r) ==
  /\ \A b \in ToSet(s.blocks) : \E i \in 1..r : es[i] \in Texts /\ b.lines = LineF[es[i]] /\ s.path = Enclosing(es, i)
  /\ \A t \in ToSet(s.tables) : \E i \in 1..r : es[i] = t /\ IsTable(t) /\ s.path = Enclosing(es, i)

HeadingLines(es, r) == UNION {ToSet(LineF[es[i]]) : i \in {h \in 1..r : es[h].kind = "heading"}}
Titles(secs)        == UNION {ToSet(Title(s)) : s \in ToSet(secs)}

LEMMA TitlesAre ==
  ASSUME NEW secs
  PROVE  UNION {Lines(Title(secs[k])) : k \in DOMAIN secs} = Titles(secs)
<1>1. \A k \in DOMAIN secs : Lines(Title(secs[k])) = ToSet(Title(secs[k]))
  BY LinesIsToSet
<1>2. \A s : s \in ToSet(secs) <=> \E k \in DOMAIN secs : s = secs[k]
  BY DEF ToSet
<1>3. \A l : l \in Titles(secs) <=> \E s \in ToSet(secs) : l \in ToSet(Title(s))
  BY DEF Titles
<1>4. \A l : l \in Titles(secs) <=> \E k \in DOMAIN secs : l \in ToSet(Title(secs[k]))
  BY <1>2, <1>3, Zenon
<1>5. \A l : l \in UNION {Lines(Title(secs[k])) : k \in DOMAIN secs} <=> \E k \in DOMAIN secs : l \in Lines(Title(secs[k]))
  OBVIOUS
<1>6. \A l : l \in UNION {Lines(Title(secs[k])) : k \in DOMAIN secs} <=> l \in Titles(secs)
  BY <1>1, <1>4, <1>5
<1> QED
  BY <1>6

\* The first r elements of the stream es have been read.
Filing(es, r, left, stk, secs) ==
  /\ r \in 0..Len(es) /\ Len(left) = Len(es) - r /\ \A k \in DOMAIN left : left[k] = es[r + k]
  /\ stk = Enclosing(es, r) /\ secs[Len(secs)].path = stk
  /\ \A s \in ToSet(secs) : WellFiled(s, es, r)
  /\ Titles(secs) = HeadingLines(es, r)

LEMMA TitlesAppend ==
  ASSUME NEW secs \in SeqOver(Sections), NEW s \in Sections
  PROVE  /\ Titles(Append(secs, s)) = Titles(secs) \cup ToSet(Title(s))
         /\ ToSet(Append(secs, s)) = ToSet(secs) \cup {s}
         /\ Append(secs, s)[Len(Append(secs, s))] = s
<1>1. ToSet(Append(secs, s)) = ToSet(secs) \cup {s}
  BY ToSetAppend
<1>2. Append(secs, s)[Len(Append(secs, s))] = s
  BY DEF SeqOver
<1> QED
  BY <1>1, <1>2 DEF Titles

LEMMA HeadingLinesGrow ==
  ASSUME NEW es, NEW r \in Nat
  PROVE  /\ es[r + 1].kind = "heading" => HeadingLines(es, r + 1) = HeadingLines(es, r) \cup ToSet(LineF[es[r + 1]])
         /\ es[r + 1].kind # "heading" => HeadingLines(es, r + 1) = HeadingLines(es, r)
<1>1. \A i : i \in 1..(r + 1) <=> i \in 1..r \/ i = r + 1
  OBVIOUS
<1>2. ASSUME es[r + 1].kind # "heading"
      PROVE  {h \in 1..(r + 1) : es[h].kind = "heading"} = {h \in 1..r : es[h].kind = "heading"}
  BY <1>1, <1>2, Zenon
<1>3. ASSUME es[r + 1].kind = "heading"
      PROVE  {h \in 1..(r + 1) : es[h].kind = "heading"} = {h \in 1..r : es[h].kind = "heading"} \cup {r + 1}
  BY <1>1, <1>3
<1> QED
  BY <1>2, <1>3 DEF HeadingLines

LEMMA WellFiledStays ==
  ASSUME NEW s, NEW es, NEW r \in Nat, WellFiled(s, es, r)
  PROVE  WellFiled(s, es, r + 1)
<1>1. \A i \in 1..r : i \in 1..(r + 1)
  OBVIOUS
<1> QED
  BY <1>1 DEF WellFiled

LEMMA FilingStarts ==
  ASSUME NEW es \in SeqOver(Element)
  PROVE  Filing(es, 0, es, <<>>, <<Section(<<>>, <<>>, <<>>, NoPage, NoPage)>>)
<1> DEFINE s == Section(<<>>, <<>>, <<>>, NoPage, NoPage)
<1>1. Len(es) \in Nat /\ DOMAIN es = 1..Len(es)
  BY Items
<1>2. s.path = <<>> /\ s.blocks = <<>> /\ s.tables = <<>>
  BY DEF Section
<1> HIDE DEF s
<1>3. ToSet(<<s>>) = {s} /\ <<s>>[Len(<<s>>)] = s
  BY DEF ToSet
<1>4. WellFiled(s, es, 0)
  BY <1>2, ToSetNothing DEF WellFiled
<1>5. Titles(<<s>>) = {}
  BY <1>2, <1>3, ToSetNothing DEF Titles, Title
<1>6. HeadingLines(es, 0) = {}
  BY DEF HeadingLines
<1>7. 0 \in 0..Len(es) /\ Len(es) = Len(es) - 0 /\ \A k \in DOMAIN es : es[k] = es[0 + k]
  BY <1>1
<1> QED
  BY <1>2, <1>3, <1>4, <1>5, <1>6, <1>7, EnclosingNothing DEF Filing, s

\* The element that is read next.
LEMMA FilingNext ==
  ASSUME NEW es \in SeqOver(Element), NEW left \in SeqOver(Element), left # <<>>,
         NEW r, NEW stk, NEW secs, Filing(es, r, left, stk, secs)
  PROVE  /\ r \in Nat /\ r + 1 \in DOMAIN es /\ Head(left) = es[r + 1] /\ Head(left) \in Element
         /\ r + 1 \in 0..Len(es) /\ Len(Tail(left)) = Len(es) - (r + 1)
         /\ \A k \in DOMAIN Tail(left) : Tail(left)[k] = es[r + 1 + k]
<1>1. Len(es) \in Nat /\ DOMAIN es = 1..Len(es) /\ r \in 0..Len(es) /\ Len(left) = Len(es) - r
      /\ \A k \in DOMAIN left : left[k] = es[r + k]
  BY Items DEF Filing
<1>2. /\ Len(left) \in Nat /\ Len(left) > 0 /\ DOMAIN left = 1..Len(left) /\ Head(left) = left[1]
      /\ Len(Tail(left)) = Len(left) - 1 /\ DOMAIN Tail(left) = 1..(Len(left) - 1)
      /\ \A k \in 1..(Len(left) - 1) : Tail(left)[k] = left[k + 1]
  BY DEF SeqOver
<1> DEFINE n == Len(es)
           m == Len(left)
           rest == Tail(left)
<1>3. r \in Nat /\ r + 1 \in 1..n /\ r + 1 \in 0..n /\ m - 1 = n - (r + 1) /\ 1 \in 1..m
      /\ \A k \in 1..(m - 1) : k + 1 \in 1..m /\ r + (k + 1) = r + 1 + k
  <2>1. n \in Nat /\ m \in Nat /\ r \in 0..n /\ m = n - r /\ m > 0
    BY <1>1, <1>2
  <2> HIDE DEF n, m
  <2> QED
    BY <2>1
<1>4. Head(left) = es[r + 1]
  BY <1>1, <1>2, <1>3, Zenon
<1>5. \A k \in DOMAIN rest : rest[k] = es[r + 1 + k]
  <2>1. DOMAIN rest = 1..(m - 1) /\ \A k \in 1..(m - 1) : rest[k] = left[k + 1]
    BY <1>2
  <2>2. \A k \in 1..m : left[k] = es[r + k]
    BY <1>1, <1>2
  <2> HIDE DEF n, m, rest
  <2>3. \A k \in 1..(m - 1) : left[k + 1] = es[r + 1 + k]
    BY <1>3, <2>2
  <2> QED
    BY <2>1, <2>3
<1>6. r + 1 \in DOMAIN es /\ Len(rest) = n - (r + 1)
  BY <1>1, <1>2, <1>3
<1> QED
  BY <1>3, <1>4, <1>5, <1>6, HeadTail

\* A heading opens a section.
LEMMA FilingOpens ==
  ASSUME NEW es \in SeqOver(Element), NEW left \in SeqOver(Element), left # <<>>, NEW r,
         NEW secs \in SeqOver(Sections), Filing(es, r, left, stack, secs),
         NEW e, e = Head(left), e.kind = "heading",
         NEW stk, stk = Append(PopTo(e.level), HeadingOf(e)),
         NEW s \in Sections, s.path = stk, s.blocks = <<>>, s.tables = <<>>, Title(s) = LineF[e]
  PROVE  Filing(es, r + 1, Tail(left), stk, Append(secs, s))
<1>1. /\ r \in Nat /\ r + 1 \in DOMAIN es /\ e = es[r + 1]
      /\ r + 1 \in 0..Len(es) /\ Len(Tail(left)) = Len(es) - (r + 1)
      /\ \A k \in DOMAIN Tail(left) : Tail(left)[k] = es[r + 1 + k]
  BY FilingNext
<1>2. stack = Enclosing(es, r)
  BY DEF Filing
<1>3. Enclosing(es, r + 1) = stk
  BY <1>1, <1>2, EnclosingGrows
<1>4. /\ Titles(Append(secs, s)) = Titles(secs) \cup ToSet(LineF[e])
      /\ ToSet(Append(secs, s)) = ToSet(secs) \cup {s}
      /\ Append(secs, s)[Len(Append(secs, s))] = s
  BY TitlesAppend
<1>5. HeadingLines(es, r + 1) = HeadingLines(es, r) \cup ToSet(LineF[e])
  BY <1>1, HeadingLinesGrow
<1>6. WellFiled(s, es, r + 1)
  BY ToSetNothing DEF WellFiled
<1>7. \A x \in ToSet(secs) : WellFiled(x, es, r + 1)
  BY <1>1, WellFiledStays DEF Filing
<1>8. Titles(Append(secs, s)) = HeadingLines(es, r + 1)
  BY <1>4, <1>5 DEF Filing
<1>9. \A x \in ToSet(Append(secs, s)) : WellFiled(x, es, r + 1)
  BY <1>4, <1>6, <1>7
<1> QED
  BY <1>1, <1>3, <1>4, <1>8, <1>9 DEF Filing

\* Anything else goes to the last section.
LEMMA FilingFills ==
  ASSUME NEW es \in SeqOver(Element), NEW left \in SeqOver(Element), left # <<>>, NEW r, NEW stk,
         NEW secs \in SeqOver(Sections), secs # <<>>, Filing(es, r, left, stk, secs), Head(left).kind # "heading",
         NEW s \in Sections, s.path = secs[Len(secs)].path, WellFiled(s, es, r + 1)
  PROVE  Filing(es, r + 1, Tail(left), stk, WithLast(secs, s))
<1> DEFINE last == secs[Len(secs)]
<1>1. /\ r \in Nat /\ r + 1 \in DOMAIN es /\ es[r + 1].kind # "heading"
      /\ r + 1 \in 0..Len(es) /\ Len(Tail(left)) = Len(es) - (r + 1)
      /\ \A k \in DOMAIN Tail(left) : Tail(left)[k] = es[r + 1 + k]
  BY FilingNext
<1>2. stk = Enclosing(es, r + 1)
  BY <1>1, EnclosingStays DEF Filing
<1>3. PICK t \in SeqOver(Sections) : last \in Sections /\ secs = Append(t, last) /\ WithLast(secs, s) = Append(t, s)
  BY LastReplaced
<1>4. last.path = stk
  BY DEF Filing
<1> HIDE DEF last
<1>5. Title(s) = Title(last)
  BY <1>4 DEF Title, last
<1>6. /\ Titles(secs) = Titles(t) \cup ToSet(Title(last)) /\ ToSet(secs) = ToSet(t) \cup {last}
      /\ Titles(WithLast(secs, s)) = Titles(t) \cup ToSet(Title(s)) /\ ToSet(WithLast(secs, s)) = ToSet(t) \cup {s}
      /\ WithLast(secs, s)[Len(WithLast(secs, s))] = s
  BY <1>3, TitlesAppend
<1>7. \A x \in ToSet(t) : WellFiled(x, es, r + 1)
  BY <1>1, <1>6, WellFiledStays DEF Filing
<1>8. Titles(WithLast(secs, s)) = HeadingLines(es, r + 1)
  <2>1. HeadingLines(es, r + 1) = HeadingLines(es, r)
    BY <1>1, HeadingLinesGrow
  <2> QED
    BY <1>5, <1>6, <2>1 DEF Filing
<1>9. \A x \in ToSet(WithLast(secs, s)) : WellFiled(x, es, r + 1)
  BY <1>6, <1>7
<1>10. s.path = stk
  BY <1>4 DEF last
<1> QED
  BY <1>1, <1>2, <1>6, <1>8, <1>9, <1>10 DEF Filing

LEMMA FilingSkips ==
  ASSUME NEW es \in SeqOver(Element), NEW left \in SeqOver(Element), left # <<>>, NEW r, NEW stk, NEW secs,
         Filing(es, r, left, stk, secs), Head(left).kind # "heading"
  PROVE  Filing(es, r + 1, Tail(left), stk, secs)
<1>1. /\ r \in Nat /\ r + 1 \in DOMAIN es /\ es[r + 1].kind # "heading"
      /\ r + 1 \in 0..Len(es) /\ Len(Tail(left)) = Len(es) - (r + 1)
      /\ \A k \in DOMAIN Tail(left) : Tail(left)[k] = es[r + 1 + k]
  BY FilingNext
<1>2. stk = Enclosing(es, r + 1)
  BY <1>1, EnclosingStays DEF Filing
<1>3. \A x \in ToSet(secs) : WellFiled(x, es, r + 1)
  BY <1>1, WellFiledStays DEF Filing
<1>4. HeadingLines(es, r + 1) = HeadingLines(es, r)
  BY <1>1, HeadingLinesGrow
<1> QED
  BY <1>1, <1>2, <1>3, <1>4 DEF Filing

----------------------------------------------------------------------------
\* What is filed is found under its headings.

\* No line and no table is in a stream twice.
LEMMA StreamDistinct ==
  ASSUME elements \in SeqOver(Element),
         \A i \in DOMAIN elements :
           elements[i].id = i /\ \A j \in DOMAIN elements[i].lines : elements[i].lines[j].at = <<i, j>>,
         NEW es \in SeqOver(Element),
         Gather(LineF, es) = Gather(LineF, elements), Gather(Keeping, es) = Gather(Keeping, elements)
  PROVE  Apart(LineF, es) /\ Apart(Keeping, es)
<1>1. \A i \in DOMAIN elements : elements[i] \in Element
  BY Items
<1>2. ASSUME NEW i \in DOMAIN elements
      PROVE  Distinct(LineF[elements[i]]) /\ \A l \in ToSet(LineF[elements[i]]) : l.at[1] = i
  <2> DEFINE lines == elements[i].lines
  <2>1. lines \in SeqOver(Line) /\ LineF[elements[i]] = Only(lines, NotBlank)
    BY <1>1, ElementFacts, LineFValue, VisibleIs
  <2>2. Distinct(lines)
    <3>1. \A j, k \in DOMAIN lines : lines[j] = lines[k] => <<i, j>> = <<i, k>>
      OBVIOUS
    <3> QED
      BY <3>1 DEF Distinct
  <2>3. \A l \in ToSet(lines) : l.at[1] = i
    BY <1>1, ElementFacts
  <2> HIDE DEF lines
  <2> QED
    BY <2>1, <2>2, <2>3, DistinctOnly, OnlyRange
<1>3. Apart(LineF, elements)
  <2>1. ASSUME NEW i \in DOMAIN elements, NEW j \in DOMAIN elements, i # j
        PROVE  ToSet(LineF[elements[i]]) \cap ToSet(LineF[elements[j]]) = {}
    BY <1>2, <2>1
  <2> QED
    BY <1>2, <2>1 DEF Apart
<1>4. Apart(Keeping, elements)
  <2>1. ASSUME NEW i \in DOMAIN elements
        PROVE  Distinct(Keeping[elements[i]]) /\ \A t \in ToSet(Keeping[elements[i]]) : t.id = i
    <3>1. Keeping[elements[i]] = <<elements[i]>> \/ Keeping[elements[i]] = <<>>
      BY <1>1, KeepingFacts
    <3>2. \A t : Distinct(<<t>>) /\ ToSet(<<t>>) = {t}
      BY DEF Distinct, ToSet
    <3> QED
      BY <3>1, <3>2, DistinctNothing, ToSetNothing
  <2>2. ASSUME NEW i \in DOMAIN elements, NEW j \in DOMAIN elements, i # j
        PROVE  ToSet(Keeping[elements[i]]) \cap ToSet(Keeping[elements[j]]) = {}
    BY <2>1, <2>2
  <2> QED
    BY <2>1, <2>2 DEF Apart
<1>5. Distinct(Gather(LineF, elements)) /\ Distinct(Gather(Keeping, elements))
  BY <1>3, <1>4, LineFType, KeepingFacts, DistinctGather
<1> QED
  BY <1>5, LineFType, KeepingFacts, DistinctGather

LEMMA FiledReads ==
  ASSUME NEW es \in SeqOver(Element), Apart(LineF, es), Apart(Keeping, es),
         NEW s, WellFiled(s, es, Len(es)), NEW i \in DOMAIN es,
         es[i] \in Lines(s.tables) \/ \E b \in DOMAIN s.blocks : Visible(es[i].lines) = s.blocks[b].lines
  PROVE  s.path = Enclosing(es, i)
<1>1. DOMAIN es = 1..Len(es) /\ \A k \in DOMAIN es : es[k] \in Element
  BY Items
<1>2. CASE es[i] \in Lines(s.tables)
  <2>1. es[i] \in ToSet(s.tables)
    BY <1>2, LinesIsToSet
  <2>2. PICK j \in DOMAIN es : es[j] = es[i] /\ IsTable(es[i]) /\ s.path = Enclosing(es, j)
    BY <1>1, <2>1 DEF WellFiled
  <2>3. Keeping[es[i]] = <<es[i]>> /\ Keeping[es[j]] = <<es[i]>>
    BY <1>1, <2>2, KeepingFacts
  <2>4. ToSet(Keeping[es[i]]) \cap ToSet(Keeping[es[j]]) # {}
    BY <2>3 DEF ToSet
  <2>5. i = j
    BY <2>4 DEF Apart
  <2> QED
    BY <2>2, <2>5
<1>3. CASE \E b \in DOMAIN s.blocks : Visible(es[i].lines) = s.blocks[b].lines
  <2>1. PICK b \in ToSet(s.blocks) : Visible(es[i].lines) = b.lines
    BY <1>3 DEF ToSet
  <2>2. PICK j \in DOMAIN es : es[j] \in Texts /\ b.lines = LineF[es[j]] /\ s.path = Enclosing(es, j)
    BY <1>1, <2>1 DEF WellFiled
  <2>3. LineF[es[i]] = LineF[es[j]]
    BY <1>1, <2>1, <2>2, LineFValue
  <2>4. ToSet(LineF[es[j]]) # {}
    BY <1>1, <2>2, LineFValue, ToSetEmpty DEF Texts, HasText
  <2>5. i = j
    BY <2>3, <2>4 DEF Apart
  <2> QED
    BY <2>2, <2>5
<1> QED
  BY <1>2, <1>3

LEMMA TrimmedKeeps ==
  ASSUME NEW secs \in SeqOver(Sections), secs # <<>>, secs[1].path = <<>>
  PROVE  ToSet(Trimmed(secs)) \subseteq ToSet(secs) /\ Titles(Trimmed(secs)) = Titles(secs)
<1>1. CASE Trimmed(secs) = secs
  BY <1>1
<1>2. CASE Trimmed(secs) = Tail(secs)
  <2>1. Head(secs) \in Sections /\ Tail(secs) \in SeqOver(Sections) /\ secs = Join(<<Head(secs)>>, Tail(secs))
    BY HeadTail
  <2>2. ToSet(secs) = ToSet(<<Head(secs)>>) \cup ToSet(Tail(secs))
    BY <2>1, OneType, ToSetJoin
  <2>3. ToSet(<<Head(secs)>>) = {Head(secs)}
    BY DEF ToSet
  <2>4. Title(Head(secs)) = <<>>
    <3>1. Head(secs) = secs[1]
      BY DEF SeqOver
    <3> QED
      BY <3>1 DEF Title
  <2> QED
    BY <1>2, <2>2, <2>3, <2>4, ToSetNothing DEF Titles
<1> QED
  BY <1>1, <1>2 DEF Trimmed

----------------------------------------------------------------------------
\* What is promoted.

LEMMA HeadingLinesAll ==
  ASSUME NEW es \in SeqOver(Element)
  PROVE  HeadingLines(es, Len(es)) = UNION {ToSet(LineF[x]) : x \in {y \in ToSet(es) : y.kind = "heading"}}
<1>1. DOMAIN es = 1..Len(es)
  BY Items
<1>2. {y \in ToSet(es) : y.kind = "heading"} = {es[i] : i \in {h \in 1..Len(es) : es[h].kind = "heading"}}
  BY <1>1 DEF ToSet
<1>3. {ToSet(LineF[x]) : x \in {y \in ToSet(es) : y.kind = "heading"}}
        = {ToSet(LineF[es[i]]) : i \in {h \in 1..Len(es) : es[h].kind = "heading"}}
  BY <1>2
<1> QED
  BY <1>3 DEF HeadingLines

LEMMA PromotionRange ==
  ASSUME NEW levels, \A c \in DOMAIN levels : levels[c] \in Int, NEW es \in SeqOver(Element)
  PROVE  /\ Promotion(es, levels) \in SeqOver(Element)
         /\ ToSet(Promotion(es, levels)) = UNION {ToSet(Expand(es[i], levels)) : i \in DOMAIN es}
<1> DEFINE f == [e \in Element |-> Expand(e, levels)]
<1>1. f \in [Element -> SeqOver(Element)]
  BY ExpandFacts
<1>2. \A i \in DOMAIN es : es[i] \in Element /\ f[es[i]] = Expand(es[i], levels)
  BY Items
<1> HIDE DEF f
<1>3. [i \in DOMAIN es |-> Expand(es[i], levels)] = [i \in DOMAIN es |-> f[es[i]]]
  BY <1>2, Zenon
<1>4. Promotion(es, levels) = Gather(f, es)
  BY <1>3, Zenon DEF Promotion, Gather
<1>5. ToSet(Gather(f, es)) = UNION {ToSet(f[x]) : x \in ToSet(es)}
  BY <1>1, GatherRange
<1>6. UNION {ToSet(f[x]) : x \in ToSet(es)} = UNION {ToSet(Expand(es[i], levels)) : i \in DOMAIN es}
  BY <1>2 DEF ToSet
<1> QED
  BY <1>4, <1>5, <1>6, PromotionKeeps

LEMMA ExpandRange ==
  ASSUME NEW levels, \A c \in DOMAIN levels : levels[c] \in Int, NEW e \in Element, e.kind = "text"
  PROVE  ToSet(Expand(e, levels)) = {Promote(e, j, levels) : j \in DOMAIN e.lines} \cap Worthy
<1> DEFINE pieces == [j \in DOMAIN e.lines |-> Promote(e, j, levels)]
<1>1. DOMAIN e.lines = 1..Len(e.lines) /\ Len(e.lines) \in Nat
  BY ElementFacts, Items
<1>2. \A j \in DOMAIN e.lines : Promote(e, j, levels) \in Element
  BY PromoteFacts
<1>3. pieces \in SeqOver(Element)
  <2>1. pieces \in [1..Len(e.lines) -> Element]
    BY <1>1, <1>2
  <2> HIDE DEF pieces
  <2> QED
    BY <1>1, <2>1, Listed
<1>4. ToSet(pieces) = {Promote(e, j, levels) : j \in DOMAIN e.lines}
  BY DEF ToSet
<1>5. Expand(e, levels) = Only(pieces, {l \in ToSet(pieces) : l.kind = "heading" \/ HasText(l)})
  BY DEF Expand
<1> HIDE DEF pieces
<1>6. ToSet(Expand(e, levels)) = ToSet(pieces) \cap {l \in ToSet(pieces) : l.kind = "heading" \/ HasText(l)}
  BY <1>3, <1>5, OnlyRange
<1>7. ToSet(pieces) \subseteq Element
  BY <1>3, ToSetType
<1> QED
  BY <1>4, <1>6, <1>7 DEF Worthy

LEMMA PromotedLine ==
  ASSUME NEW levels, \A c \in DOMAIN levels : levels[c] \in Int,
         NEW e \in Element, e.kind = "text", NEW j \in DOMAIN e.lines
  PROVE  /\ Promote(e, j, levels) \in Element /\ Promote(e, j, levels).id = e.id
         /\ Promote(e, j, levels).kind = "heading" <=> <<e.id, j>> \in DOMAIN levels
         /\ ToSet(LineF[Promote(e, j, levels)]) = {e.lines[j]} \cap NotBlank
<1>1. Promote(e, j, levels) \in Element /\ LineF[Promote(e, j, levels)] = Keep(Line, NotBlank)[e.lines[j]]
  BY PromoteFacts
<1>2. e.lines[j] \in Line
  BY ElementFacts, Items
<1>3. Keep(Line, NotBlank)[e.lines[j]] = IF e.lines[j] \in NotBlank THEN <<e.lines[j]>> ELSE <<>>
  BY <1>2 DEF Keep
<1>4. ToSet(<<e.lines[j]>>) = {e.lines[j]}
  BY DEF ToSet
<1>5. Promote(e, j, levels).id = e.id /\ (Promote(e, j, levels).kind = "heading" <=> <<e.id, j>> \in DOMAIN levels)
  BY DEF Promote, Element
<1> QED
  BY <1>1, <1>3, <1>4, <1>5, ToSetNothing

\* Without a line after a blank one, the lines that are not blank keep their numbers.
LEMMA VisibleBeginning ==
  ASSUME NEW lines \in SeqOver(Line),
         \A j \in DOMAIN lines : \A k \in 1..(j - 1) : ~(lines[k].shape = "blank" /\ lines[j].shape # "blank")
  PROVE  /\ \A j : j \in DOMAIN Visible(lines) <=> j \in DOMAIN lines /\ lines[j] \in NotBlank
         /\ \A j \in DOMAIN Visible(lines) : Visible(lines)[j] = lines[j]
<1> DEFINE n == Max({0} \cup {k \in DOMAIN lines : lines[k] \in NotBlank})
<1>1. DOMAIN lines = 1..Len(lines) /\ Len(lines) \in Nat /\ \A k \in DOMAIN lines : lines[k] \in Line
  BY Items
<1>2. \A j, k \in DOMAIN lines : j <= k /\ lines[k] \in NotBlank => lines[j] \in NotBlank
  <2> SUFFICES ASSUME NEW j \in DOMAIN lines, NEW k \in DOMAIN lines, j <= k, lines[k] \in NotBlank
               PROVE  lines[j] \in NotBlank
    OBVIOUS
  <2>1. j = k \/ j \in 1..(k - 1)
    BY <1>1
  <2> QED
    BY <1>1, <2>1 DEF NotBlank
<1>3. n \in 0..Len(lines) /\ Only(lines, NotBlank) = SubSeq(lines, 1, n)
      /\ \A k \in DOMAIN lines : lines[k] \in NotBlank <=> k <= n
  BY <1>2, OnlyUpTo
<1> HIDE DEF n
<1>4. Visible(lines) = SubSeq(lines, 1, n)
  BY <1>3, VisibleIs
<1>5. DOMAIN SubSeq(lines, 1, n) = 1..n /\ \A k \in 1..n : SubSeq(lines, 1, n)[k] = lines[k]
  BY <1>1, <1>3 DEF SeqOver
<1>6. \A j : j \in 1..n <=> j \in 1..Len(lines) /\ j <= n
  BY <1>1, <1>3
<1> QED
  BY <1>1, <1>3, <1>4, <1>5, <1>6

LEMMA PromotedReads ==
  ASSUME elements \in SeqOver(Element), \A i \in DOMAIN elements : elements[i].id = i, ~BlankInside,
         NEW levels, \A c \in DOMAIN levels : levels[c] \in Int, DOMAIN levels \subseteq Candidates
  PROVE  {l \in HeadingLines(Promotion(elements, levels), Len(Promotion(elements, levels))) :
            elements[l.at[1]].kind = "text"}
         = {Visible(elements[c[1]].lines)[c[2]] : c \in DOMAIN levels}
<1> DEFINE es == Promotion(elements, levels)
           Found == {l \in HeadingLines(es, Len(es)) : elements[l.at[1]].kind = "text"}
<1>1. es \in SeqOver(Element) /\ ToSet(es) = UNION {ToSet(Expand(elements[i], levels)) : i \in DOMAIN elements}
  BY PromotionRange
<1> HIDE DEF es
<1>2. HeadingLines(es, Len(es)) = UNION {ToSet(LineF[x]) : x \in {y \in ToSet(es) : y.kind = "heading"}}
  BY <1>1, HeadingLinesAll
<1>3. \A i \in DOMAIN elements : elements[i] \in Element
  BY Items
<1>4. ASSUME NEW i \in DOMAIN elements
      PROVE  \A j : /\ j \in DOMAIN Visible(elements[i].lines)
                         <=> j \in DOMAIN elements[i].lines /\ elements[i].lines[j] \in NotBlank
                    /\ j \in DOMAIN Visible(elements[i].lines) => Visible(elements[i].lines)[j] = elements[i].lines[j]
  <2>1. elements[i].lines \in SeqOver(Line)
    BY <1>3, ElementFacts
  <2>2. \A j \in DOMAIN elements[i].lines : \A k \in 1..(j - 1) :
          ~(elements[i].lines[k].shape = "blank" /\ elements[i].lines[j].shape # "blank")
    BY DEF BlankInside
  <2> QED
    BY <2>1, <2>2, VisibleBeginning
<1>5. ASSUME NEW l \in Found PROVE \E c \in DOMAIN levels : l = Visible(elements[c[1]].lines)[c[2]]
  <2>1. PICK x \in ToSet(es) : x.kind = "heading" /\ l \in ToSet(LineF[x])
    BY <1>2
  <2>8. PICK i \in DOMAIN elements : x \in ToSet(Expand(elements[i], levels))
    BY <1>1, <2>1
  <2> DEFINE e == elements[i]
  <2>2. e \in Element /\ e.id = i /\ elements[l.at[1]].kind = "text"
    BY <1>3
  <2>3. e.kind = "text"
    <3>1. CASE e.kind # "text"
      <4>1. x = e
        <5>1. Expand(e, levels) = <<e>>
          BY <3>1 DEF Expand
        <5> QED
          BY <2>8, <5>1 DEF ToSet
      <4>2. l \in ToSet(e.lines)
        <5>1. LineF[e] = Only(e.lines, NotBlank) /\ e.lines \in SeqOver(Line)
          BY <2>2, LineFValue, ElementFacts, VisibleIs
        <5> QED
          BY <2>1, <4>1, <5>1, OnlyRange
      <4>3. l.at[1] = i
        BY <2>2, <4>2, ElementFacts
      <4> QED
        BY <2>2, <3>1, <4>3
    <3> QED
      BY <3>1
  <2>4. PICK j \in DOMAIN e.lines : x = Promote(e, j, levels)
    BY <2>2, <2>3, <2>8, ExpandRange
  <2>5. <<i, j>> \in DOMAIN levels /\ l = e.lines[j] /\ l \in NotBlank
    <3>1. (x.kind = "heading" <=> <<e.id, j>> \in DOMAIN levels) /\ ToSet(LineF[x]) = {e.lines[j]} \cap NotBlank
      <4> HIDE DEF e, Found
      <4>1. \A k \in DOMAIN e.lines :
              /\ Promote(e, k, levels).kind = "heading" <=> <<e.id, k>> \in DOMAIN levels
              /\ ToSet(LineF[Promote(e, k, levels)]) = {e.lines[k]} \cap NotBlank
        BY <2>2, <2>3, PromotedLine
      <4> QED
        BY <2>4, <4>1, Zenon
    <3> QED
      BY <2>1, <2>2, <3>1
  <2>6. l = Visible(elements[i].lines)[j]
    BY <1>4, <2>4, <2>5
  <2>7. <<i, j>>[1] = i /\ <<i, j>>[2] = j
    OBVIOUS
  <2> QED
    BY <2>5, <2>6, <2>7
<1>6. ASSUME NEW c \in DOMAIN levels PROVE Visible(elements[c[1]].lines)[c[2]] \in Found
  <2>1. c \in Candidates
    OBVIOUS
  <2>2. PICK i \in DOMAIN elements, j \in Int : c = <<i, j>> /\ elements[i].kind = "text" /\ j \in DOMAIN Visible(elements[i].lines)
    <3>1. /\ c \in (DOMAIN elements) \X (1..Max({1} \cup {Len(elements[i].lines) : i \in DOMAIN elements}))
          /\ elements[c[1]].kind = "text" /\ c[2] \in DOMAIN Visible(elements[c[1]].lines)
      BY <2>1, Zenon DEF Candidates
    <3> QED
      BY <3>1
  <2> DEFINE e == elements[i]
             l == e.lines[j]
             x == Promote(e, j, levels)
  <2>3. e \in Element /\ e.id = i /\ j \in DOMAIN e.lines /\ l \in NotBlank /\ Visible(e.lines)[j] = l
    BY <1>3, <1>4, <2>2
  <2>4. x \in Element /\ x.kind = "heading" /\ ToSet(LineF[x]) = {l}
    BY <2>2, <2>3, PromotedLine
  <2>5. x \in ToSet(Expand(e, levels))
    BY <2>2, <2>3, <2>4, ExpandRange DEF Worthy
  <2>6. l \in HeadingLines(es, Len(es))
    BY <1>1, <1>2, <2>4, <2>5
  <2>7. l.at[1] = i
    <3>1. l \in ToSet(e.lines)
      BY <2>3 DEF ToSet
    <3> QED
      BY <2>3, <3>1, ElementFacts
  <2>8. c[1] = i /\ c[2] = j
    BY <2>2
  <2> QED
    BY <2>2, <2>3, <2>6, <2>7, <2>8
<1> HIDE DEF Found
<1>7. Found = {Visible(elements[c[1]].lines)[c[2]] : c \in DOMAIN levels}
  BY <1>5, <1>6
<1> QED
  BY <1>7 DEF Found, es

----------------------------------------------------------------------------
\* The inductive invariant.

\* The document is in page order, and only a docx has no pages.
DocInv ==
  /\ fileType \in FileTypes /\ elements \in SeqOver(Element)
  /\ Sorted(elements)
  /\ \A i \in DOMAIN elements :
       /\ (fileType = "docx" <=> elements[i].page = NoPage) /\ elements[i].id = i
       /\ \A j \in DOMAIN elements[i].lines : elements[i].lines[j].at = <<i, j>>

\* What has been read of the stream is in the sections, in its order, and the stream,
\* the promoted one too, is the document.
AssembleInv ==
  phase = "assemble" =>
    /\ strategy \in {"HEADING", "LLM_INFERRED"}
    /\ strategy = "LLM_INFERRED" => fileType = "pdf"
    /\ stack \in SeqOver(Heading)
    /\ Assembling(elements, todo, sections)

PdfOnly == phase \in {"ask", "page"} => fileType = "pdf"

LadderInv == TypeOK /\ DocInv /\ AssembleInv /\ PdfOnly /\ ReadingOrderKept /\ NothingLost

SectionsTyped(secs) ==
  \A k \in DOMAIN secs : secs[k].start \in 0..MaxPages /\ secs[k].end \in 0..MaxPages

LEMMA SectionsHaveTypes ==
  ASSUME NEW secs \in SeqOver(Sections)
  PROVE  SectionsTyped(secs)
BY Items, SectionFacts DEF SectionsTyped

LEMMA PagesBounded ==
  ASSUME DocInv, fileType # "docx"
  PROVE  \A i \in DOMAIN elements : PageOf(elements[i]) <= MaxPages
<1>1. \A i \in DOMAIN elements : elements[i] \in Element /\ elements[i].page # NoPage
  BY Items DEF DocInv
<1>2. \A i \in DOMAIN elements : elements[i].page <= MaxPages /\ PageOf(elements[i]) = elements[i].page
  BY <1>1, ElementFacts, PageOfIs, LadderAssumption
<1> QED
  BY <1>2

\* A step that neither assembles nor delivers.
LEMMA QuietStep ==
  ASSUME LadderInv, TypeOK', UNCHANGED <<fileType, elements>>,
         phase' \notin {"assemble", "built"}, phase' \in {"ask", "page"} => fileType = "pdf"
  PROVE  LadderInv'
BY DEF LadderInv, DocInv, AssembleInv, PdfOnly, ReadingOrderKept, NothingLost, Won

\* A step that delivers.
LEMMA FinalStep ==
  ASSUME LadderInv, TypeOK', UNCHANGED <<fileType, elements>>, phase' = "built",
         CoveredBy(elements, sections'), TablesOnce(elements, sections'),
         strategy' \in {"HEADING", "LLM_INFERRED", "FLAT"} => InOrderOf(elements, sections')
  PROVE  LadderInv'
<1>1. DocInv' /\ AssembleInv' /\ PdfOnly'
  BY DEF LadderInv, DocInv, AssembleInv, PdfOnly
<1>2. NothingLost'
  BY DEF NothingLost, CoveredBy, TablesOnce
<1>3. ReadingOrderKept'
  BY DEF ReadingOrderKept, Won, ReadingOrder, InOrderOf
<1> QED
  BY <1>1, <1>2, <1>3 DEF LadderInv

\* A step that assembles.
LEMMA AssembleStep ==
  ASSUME LadderInv, TypeOK', UNCHANGED <<fileType, elements>>, phase' = "assemble",
         strategy' \in {"HEADING", "LLM_INFERRED"}, strategy' = "LLM_INFERRED" => fileType = "pdf",
         stack' \in SeqOver(Heading), Assembling(elements, todo', sections')
  PROVE  LadderInv'
<1>1. DocInv' /\ PdfOnly'
  BY DEF LadderInv, DocInv, PdfOnly
<1>2. AssembleInv'
  BY DEF AssembleInv
<1> QED
  BY <1>1, <1>2 DEF LadderInv, ReadingOrderKept, NothingLost, Won

LEMMA InitLadder == Init => LadderInv
<1> SUFFICES ASSUME Init PROVE LadderInv
  OBVIOUS
<1>1. TypeOK
  BY LadderAssumption DEF Init, TypeOK, Tiers
<1>2. elements \in SeqOver(Element) /\ DOMAIN elements = {}
  BY EmptyType DEF Init
<1>3. DocInv
  BY <1>2 DEF Init, DocInv, Sorted
<1> QED
  BY <1>1, <1>3 DEF Init, LadderInv, AssembleInv, PdfOnly, ReadingOrderKept, NothingLost, Won

----------------------------------------------------------------------------
\* _extract.

LEMMA ExtractKeeps ==
  ASSUME LadderInv,
         NEW kind \in {"heading", "table", "text"}, NEW page \in Pages, NEW level \in Int, NEW first \in BOOLEAN,
         NEW shapes \in Seq(Shapes), kind = "table" => shapes = <<>>,
         Extract(kind, page, level, first, shapes), seenFirst' \subseteq 1..MaxPages
  PROVE  LadderInv'
<1> DEFINE id == Len(elements) + 1
           lines == [j \in DOMAIN shapes |-> [at |-> <<id, j>>, shape |-> shapes[j]]]
           e == [id |-> id, kind |-> kind, page |-> page, endPage |-> NoPage,
                 level |-> level, first |-> first, lines |-> lines]
<1>1. /\ phase = "extract" /\ elements' = Append(elements, e)
      /\ UNCHANGED <<fileType, classifier, pageCount, phase, strategy, attempt, confirmed, todo, stack, sections>>
  BY DEF Extract
<1>2. elements \in SeqOver(Element) /\ Len(elements) \in Nat /\ id \in Nat
  BY Items DEF LadderInv, DocInv
<1>3. DOMAIN shapes = 1..Len(shapes) /\ Len(shapes) \in Nat /\ \A j \in DOMAIN shapes : shapes[j] \in Shapes
  OBVIOUS
<1> HIDE DEF id
<1>4. lines \in SeqOver(Line)
  <2>1. \A j \in DOMAIN shapes : [at |-> <<id, j>>, shape |-> shapes[j]] \in Line
    BY <1>2, <1>3 DEF Line
  <2>2. lines \in [1..Len(shapes) -> Line]
    BY <1>3, <2>1
  <2> QED
    BY <1>3, <2>2, Listed
<1>5. kind = "table" => lines = <<>>
  <2>1. shapes = <<>> => DOMAIN lines = {}
    OBVIOUS
  <2> HIDE DEF lines
  <2>2. DOMAIN lines = {} => lines = <<>>
    BY <1>4, Items, ToSetEmpty DEF ToSet
  <2> QED
    BY <2>1, <2>2
<1>15. \A j \in DOMAIN lines : lines[j].at = <<id, j>>
  OBVIOUS
<1>16. \A l \in ToSet(lines) : l.at[1] = id
  BY DEF ToSet
<1> HIDE DEF lines
<1>6. page \in 0..MaxPages /\ (fileType = "docx" <=> page = NoPage) /\ \A i \in DOMAIN elements : elements[i].page <= page
  <2>1. CASE fileType = "docx"
    <3>1. page = NoPage /\ \A i \in DOMAIN elements : elements[i].page = NoPage
      BY <2>1 DEF Pages, LadderInv, DocInv
    <3> QED
      BY <2>1, <3>1, NoPageType DEF NoPage
  <2>2. CASE fileType # "docx"
    <3>1. page \in 1..MaxPages /\ \A i \in DOMAIN elements : elements[i].page <= page
      BY <2>2 DEF Pages
    <3> QED
      BY <2>2, <3>1, LadderAssumption DEF NoPage
  <2> QED
    BY <2>1, <2>2
<1>7. e \in Element
  BY <1>2, <1>4, <1>5, <1>6, <1>16 DEF Element, IsTable
<1>8. e.page = page /\ e.id = Len(elements) + 1 /\ \A j \in DOMAIN e.lines : e.lines[j].at = <<Len(elements) + 1, j>>
  BY <1>15 DEF id
<1> HIDE DEF e
<1>9. elements' \in SeqOver(Element) /\ DOMAIN elements' = 1..(Len(elements) + 1) /\ DOMAIN elements = 1..Len(elements)
      /\ elements'[Len(elements) + 1] = e /\ \A i \in DOMAIN elements : elements'[i] = elements[i]
  <2>1. elements' \in SeqOver(Element)
    BY <1>1, <1>2, <1>7, AppendType
  <2> QED
    BY <1>1, <1>2, <2>1 DEF SeqOver
<1>10. \A i \in DOMAIN elements : elements[i].page \in Nat
  BY <1>2, Items, PageOfIs
<1>11. Sorted(elements')
  <2>1. page \in Nat
    BY <1>6, LadderAssumption
  <2>2. Sorted(elements)
    BY DEF LadderInv, DocInv
  <2>3. ASSUME NEW i \in 1..(Len(elements) + 1), NEW j \in 1..(Len(elements) + 1), i <= j
        PROVE  elements'[i].page <= elements'[j].page
    <3>1. CASE j \in DOMAIN elements
      <4>1. i \in DOMAIN elements
        BY <1>2, <1>9, <2>3, <3>1
      <4> QED
        BY <1>9, <2>2, <2>3, <3>1, <4>1 DEF Sorted
    <3>2. CASE j = Len(elements) + 1
      <4>1. CASE i \in DOMAIN elements
        BY <1>6, <1>8, <1>9, <3>2, <4>1
      <4>2. CASE i = Len(elements) + 1
        BY <1>8, <1>9, <2>1, <3>2, <4>2
      <4> QED
        BY <1>2, <1>9, <4>1, <4>2
    <3> QED
      BY <1>2, <1>9, <3>1, <3>2
  <2> QED
    BY <1>9, <2>3 DEF Sorted
<1>12. \A i \in DOMAIN elements' :
         /\ (fileType' = "docx" <=> elements'[i].page = NoPage) /\ elements'[i].id = i
         /\ \A j \in DOMAIN elements'[i].lines : elements'[i].lines[j].at = <<i, j>>
  <2>1. \A i \in DOMAIN elements :
          /\ (fileType = "docx" <=> elements[i].page = NoPage) /\ elements[i].id = i
          /\ \A j \in DOMAIN elements[i].lines : elements[i].lines[j].at = <<i, j>>
    BY DEF LadderInv, DocInv
  <2>2. \A i \in DOMAIN elements' : i \in DOMAIN elements \/ i = Len(elements) + 1
    BY <1>2, <1>9
  <2> QED
    BY <1>1, <1>6, <1>8, <1>9, <2>1, <2>2
<1>13. DocInv'
  BY <1>1, <1>9, <1>11, <1>12 DEF LadderInv, DocInv
<1>14. TypeOK'
  BY <1>1 DEF LadderInv, TypeOK
<1> QED
  BY <1>1, <1>13, <1>14 DEF LadderInv, AssembleInv, PdfOnly, ReadingOrderKept, NothingLost, Won

LEMMA ExtractNextKeeps == ASSUME LadderInv, ExtractNext PROVE LadderInv'
<1>1. PICK p \in Pages : \/ ExtractTable(p) \/ ExtractTitle(p)
                         \/ \E l \in Levels : ExtractHeader(p, l)
                         \/ \E shapes \in Patterns : ExtractText(p, shapes)
  BY DEF ExtractNext
<1>2. seenFirst \subseteq 1..MaxPages
  BY DEF LadderInv, TypeOK
<1>3. Seen(p) => seenFirst' \subseteq 1..MaxPages
  BY <1>1, <1>2 DEF Seen, Pages
<1>4. <<"title">> \in Seq(Shapes) /\ <<>> \in Seq(Shapes) /\ 1 \in Int
  BY DEF Shapes
<1>5. CASE ExtractTable(p)
  <2>1. Extract("table", p, 1, FALSE, <<>>) /\ seenFirst' \subseteq 1..MaxPages
    BY <1>2, <1>5 DEF ExtractTable
  <2> QED
    BY <1>4, <2>1, ExtractKeeps
<1>6. CASE ExtractTitle(p)
  <2>1. Extract("heading", p, 1, FALSE, <<"title">>) /\ seenFirst' \subseteq 1..MaxPages
    BY <1>3, <1>6 DEF ExtractTitle
  <2> QED
    BY <1>4, <2>1, ExtractKeeps
<1>7. CASE \E l \in Levels : ExtractHeader(p, l)
  <2>1. PICK l \in Levels : ExtractHeader(p, l)
    BY <1>7
  <2>2. Extract("heading", p, l, FALSE, <<"title">>) /\ seenFirst' = seenFirst
    BY <2>1 DEF ExtractHeader
  <2>3. l \in Int
    BY LadderAssumption
  <2> QED
    BY <1>2, <1>4, <2>2, <2>3, ExtractKeeps
<1>8. CASE \E shapes \in Patterns : ExtractText(p, shapes)
  <2>1. PICK shapes \in Patterns : ExtractText(p, shapes)
    BY <1>8
  <2>2. Extract("text", p, 1, p # NoPage /\ p \notin seenFirst, shapes) /\ seenFirst' \subseteq 1..MaxPages
    BY <1>3, <2>1 DEF ExtractText
  <2>3. shapes \in Seq(Shapes) /\ (p # NoPage /\ p \notin seenFirst) \in BOOLEAN
    BY LadderAssumption
  <2> QED
    BY <1>4, <2>2, <2>3, ExtractKeeps
<1> QED
  BY <1>1, <1>5, <1>6, <1>7, <1>8

LEMMA LargestPage ==
  ASSUME DocInv
  PROVE  Max({1} \cup {elements[i].page : i \in DOMAIN elements}) \in Nat
<1> DEFINE S == {1} \cup {elements[i].page : i \in DOMAIN elements}
<1>1. \A i \in DOMAIN elements : elements[i].page \in 0..MaxPages
  BY Items, ElementFacts DEF DocInv
<1>2. S \subseteq Nat /\ \A x \in S : x <= MaxPages + 1
  BY <1>1, LadderAssumption
<1>3. S \subseteq Int /\ S # {} /\ MaxPages + 1 \in Int
  BY <1>2, LadderAssumption
<1> HIDE DEF S
<1>4. Max(S) \in S
  BY <1>2, <1>3, MaxIs
<1> QED
  BY <1>2, <1>4 DEF S

LEMMA ConvertedKeeps ==
  ASSUME LadderInv, NEW count \in PageCounts, NEW next \in {"refused", "resolve"}, Converted(count, next)
  PROVE  LadderInv'
<1>1. /\ phase = "extract" /\ pageCount' = count /\ phase' = next
      /\ UNCHANGED <<fileType, classifier, elements, seenFirst, strategy, attempt, confirmed, todo, stack, sections>>
  BY DEF Converted
<1>2. count \in 0..MaxPages
  BY LargestPage, LadderAssumption DEF PageCounts, LadderInv
<1>3. TypeOK'
  BY <1>1, <1>2 DEF LadderInv, TypeOK
<1> QED
  BY <1>1, <1>3, QuietStep

----------------------------------------------------------------------------
\* The tiers that build at once.

LEMMA SlidesKeep == ASSUME LadderInv, BuildSlides PROVE LadderInv'
<1> DEFINE S == {pageCount} \cup {PageOf(elements[i]) : i \in DOMAIN elements}
           total == Max(S)
           secs == [slide \in 1..total |-> SlideSection(slide)]
<1>1. /\ fileType = "pptx" /\ phase' = "built" /\ strategy' = "SLIDE" /\ sections' = secs
      /\ UNCHANGED <<input, attempt, confirmed, todo, stack>>
  BY DEF BuildSlides, Built
<1>2. elements \in SeqOver(Element) /\ Sorted(elements) /\ \A i \in DOMAIN elements : PageOf(elements[i]) <= MaxPages
  BY <1>1, PagesBounded DEF LadderInv, DocInv
<1>3. pageCount \in 0..MaxPages
  BY DEF LadderInv, TypeOK
<1>4. \A i \in DOMAIN elements : PageOf(elements[i]) \in Nat
  BY <1>2, Items, PageOfIs
<1>5. S \subseteq Nat /\ S \subseteq Int /\ S # {} /\ MaxPages \in Int /\ \A x \in S : x <= MaxPages
  BY <1>2, <1>3, <1>4, LadderAssumption
<1>6. \A i \in DOMAIN elements : PageOf(elements[i]) \in S
  OBVIOUS
<1> HIDE DEF S
<1>7. total \in S /\ \A x \in S : x <= total
  BY <1>5, MaxIs
<1>8. total \in Nat /\ total <= MaxPages /\ \A i \in DOMAIN elements : PageOf(elements[i]) <= total
  BY <1>5, <1>6, <1>7
<1> HIDE DEF total
<1>9. secs \in SeqOver(Sections) /\ CoveredBy(elements, secs) /\ TablesOnce(elements, secs)
  BY <1>2, <1>8, SlidesLoseNothing
<1> HIDE DEF secs
<1>10. TypeOK'
  <2>1. SectionsTyped(secs)
    BY <1>9, SectionsHaveTypes
  <2> QED
    BY <1>1, <2>1 DEF LadderInv, TypeOK, Tiers, SectionsTyped, input
<1> QED
  BY <1>1, <1>9, <1>10, FinalStep DEF input

LEMMA FlatKeeps == ASSUME LadderInv, BuildFlat PROVE LadderInv'
<1> DEFINE secs == <<Section(<<>>, BlocksOf(elements), TablesOf(elements), NoPage, NoPage)>>
<1>1. /\ phase' = "built" /\ strategy' = "FLAT" /\ sections' = secs
      /\ UNCHANGED <<input, attempt, confirmed, todo, stack>>
  BY DEF BuildFlat, Built
<1>2. elements \in SeqOver(Element)
  BY DEF LadderInv, DocInv
<1>3. Whole(elements, secs)
  BY <1>2, FlatIsWhole
<1> HIDE DEF secs
<1>4. InOrderOf(elements, secs) /\ CoveredBy(elements, secs) /\ TablesOnce(elements, secs)
  BY <1>2, <1>3, WholeReads
<1>5. TypeOK'
  <2>1. SectionsTyped(secs)
    BY <1>3, WholeType, SectionsHaveTypes DEF Whole
  <2> QED
    BY <1>1, <2>1 DEF LadderInv, TypeOK, Tiers, SectionsTyped, input
<1> QED
  BY <1>1, <1>4, <1>5, FinalStep DEF input

LEMMA PagesKeep == ASSUME LadderInv, BuildPages PROVE LadderInv'
<1>1. /\ phase = "page" /\ phase' = "built" /\ strategy' = "PAGE"
      /\ sections' = Merged(PageSections).done \o Merged(PageSections).carry
      /\ UNCHANGED <<input, attempt, confirmed, todo, stack>>
  BY DEF BuildPages, Built
<1>2. elements \in SeqOver(Element) /\ Sorted(elements) /\ \A i \in DOMAIN elements : PageOf(elements[i]) <= MaxPages
  BY <1>1, PagesBounded DEF LadderInv, DocInv, PdfOnly
<1>3. sections' \in SeqOver(Sections) /\ CoveredBy(elements, sections') /\ TablesOnce(elements, sections')
  BY <1>1, <1>2, PagesLoseNothing
<1>4. TypeOK'
  <2>1. SectionsTyped(sections')
    BY <1>3, SectionsHaveTypes
  <2> QED
    BY <1>1, <2>1 DEF LadderInv, TypeOK, Tiers, SectionsTyped, input
<1> QED
  BY <1>1, <1>3, <1>4, FinalStep DEF input

----------------------------------------------------------------------------
\* build_sections_heading, over the document or over the promoted stream.

LEMMA StartHeadingsKeeps == ASSUME LadderInv, StartHeadings PROVE LadderInv'
<1>1. /\ phase' = "assemble" /\ strategy' = "HEADING" /\ todo' = elements /\ stack' = <<>>
      /\ sections' = <<Section(<<>>, <<>>, <<>>, NoPage, NoPage)>>
      /\ UNCHANGED <<input, attempt, confirmed>>
  BY DEF StartHeadings, Assemble
<1>2. elements \in SeqOver(Element)
  BY DEF LadderInv, DocInv
<1>3. Assembling(elements, todo', sections')
  BY <1>1, <1>2, AssemblyStarts
<1>4. TypeOK'
  <2>1. SectionsTyped(sections')
    BY <1>3, WholeType, SectionsHaveTypes DEF Assembling
  <2> QED
    BY <1>1, <2>1 DEF LadderInv, TypeOK, Tiers, SectionsTyped, input
<1> QED
  BY <1>1, <1>3, <1>4, EmptyType, AssembleStep DEF input

LEMMA ClampIs == ASSUME NEW level \in Int PROVE Clamp(level) \in 1..4
<1> DEFINE m == Min({4, level})
<1>1. m \in Int /\ m <= 4
  BY MinOfTwo
<1> HIDE DEF m
<1>2. {1, m} \subseteq Int /\ {1, m} # {} /\ 4 \in Int /\ \A x \in {1, m} : x <= 4
  BY <1>1
<1>3. Max({1, m}) \in {1, m} /\ \A x \in {1, m} : x <= Max({1, m})
  BY <1>2, MaxIs
<1>4. Max({1, m}) \in 1..4
  BY <1>1, <1>3
<1> QED
  BY <1>4 DEF Clamp, m

LEMMA AnswerKeeps ==
  ASSUME LadderInv, NEW answer \in Answers, ModelAnswers(answer)
  PROVE  LadderInv'
<1> DEFINE levels == [c \in (DOMAIN answer) \cap Candidates |-> Clamp(answer[c])]
<1>1. /\ phase = "ask" /\ confirmed' = levels /\ UNCHANGED <<input, attempt>>
      /\ \/ Assemble("LLM_INFERRED", Promoted(levels))
         \/ phase' = "page" /\ UNCHANGED <<strategy, todo, stack, sections>>
  BY DEF ModelAnswers
<1>2. \A c \in DOMAIN answer : answer[c] \in Int
  BY LadderAssumption DEF Answers
<1>3. \A c \in DOMAIN levels : levels[c] \in 1..4
  BY <1>2, ClampIs
<1> HIDE DEF levels
<1>4. elements \in SeqOver(Element) /\ fileType = "pdf"
  BY <1>1 DEF LadderInv, DocInv, PdfOnly
<1>5. CASE Assemble("LLM_INFERRED", Promoted(levels))
  <2>1. /\ phase' = "assemble" /\ strategy' = "LLM_INFERRED" /\ todo' = Promoted(levels) /\ stack' = <<>>
        /\ sections' = <<Section(<<>>, <<>>, <<>>, NoPage, NoPage)>>
    BY <1>5 DEF Assemble
  <2>2. \A c \in DOMAIN levels : levels[c] \in Int
    BY <1>3
  <2>3. Promoted(levels) = Promotion(elements, levels)
    BY Zenon DEF Promoted, Promotion
  <2>4. Assembling(elements, todo', sections')
    BY <1>4, <2>1, <2>2, <2>3, PromotionKeeps, AssemblyStarts
  <2>5. TypeOK'
    <3>1. SectionsTyped(sections')
      BY <2>4, WholeType, SectionsHaveTypes DEF Assembling
    <3> QED
      BY <1>1, <1>3, <2>1, <3>1 DEF LadderInv, TypeOK, Tiers, SectionsTyped, input
  <2> QED
    BY <1>1, <1>4, <2>1, <2>4, <2>5, EmptyType, AssembleStep DEF input
<1>6. CASE phase' = "page" /\ UNCHANGED <<strategy, todo, stack, sections>>
  <2>1. TypeOK'
    BY <1>1, <1>3, <1>6 DEF LadderInv, TypeOK, input
  <2> QED
    BY <1>1, <1>4, <1>6, <2>1, QuietStep DEF input
<1> QED
  BY <1>1, <1>5, <1>6

\* What popping leaves of the stack is a stack.
LEMMA PopToType ==
  ASSUME stack \in SeqOver(Heading), NEW level
  PROVE  PopTo(level) \in SeqOver(Heading)
<1> DEFINE S == {0} \cup {k \in DOMAIN stack : stack[k].level < level}
<1>1. Len(stack) \in Nat /\ DOMAIN stack = 1..Len(stack)
  BY Items
<1>2. S \subseteq Int /\ S # {} /\ Len(stack) \in Int /\ \A x \in S : x \in 0..Len(stack) /\ x <= Len(stack)
  BY <1>1
<1> HIDE DEF S
<1>3. Max(S) \in S
  BY <1>1, <1>2, MaxIs
<1>4. Max(S) \in 0..Len(stack)
  BY <1>2, <1>3
<1>5. SubSeq(stack, 1, Max(S)) \in SeqOver(Heading)
  BY <1>4, Beginnings
<1> QED
  BY <1>5 DEF PopTo, S

LEMMA LastIs == ASSUME NEW S, NEW s \in SeqOver(S), NEW x \in S PROVE Last(Append(s, x)) = x /\ Append(s, x) # <<>>
BY DEF SeqOver, Last

\* What the three readers of the loop have in common.
LEMMA ReadingIs ==
  ASSUME LadderInv, NEW kind, Reading(kind)
  PROVE  /\ phase = "assemble" /\ phase' = "assemble" /\ todo # <<>> /\ Head(todo).kind = kind /\ todo' = Tail(todo)
         /\ UNCHANGED <<input, phase, strategy, attempt, confirmed>>
         /\ Assembling(elements, todo, sections) /\ stack \in SeqOver(Heading)
         /\ Head(todo) \in Element /\ sections \in SeqOver(Numbered) /\ sections # <<>>
<1>1. /\ phase = "assemble" /\ todo # <<>> /\ Head(todo).kind = kind /\ todo' = Tail(todo)
      /\ UNCHANGED <<input, phase, strategy, attempt, confirmed>>
  BY DEF Reading
<1>2. Assembling(elements, todo, sections) /\ stack \in SeqOver(Heading)
  BY <1>1 DEF LadderInv, AssembleInv
<1>3. todo \in SeqOver(Element) /\ sections \in SeqOver(Numbered) /\ sections # <<>>
  BY <1>2 DEF Assembling
<1>4. Head(todo) \in Element
  BY <1>1, <1>3, HeadTail
<1> QED
  BY <1>1, <1>2, <1>3, <1>4

LEMMA ReadKeeps ==
  ASSUME LadderInv, NEW kind, Reading(kind), stack' \in SeqOver(Heading), Assembling(elements, Tail(todo), sections')
  PROVE  LadderInv'
<1>1. /\ phase = "assemble" /\ phase' = "assemble" /\ todo' = Tail(todo)
      /\ UNCHANGED <<input, phase, strategy, attempt, confirmed>>
  BY ReadingIs
<1>2. TypeOK'
  <2>1. SectionsTyped(sections')
    BY WholeType, SectionsHaveTypes DEF Assembling
  <2> QED
    BY <1>1, <2>1 DEF LadderInv, TypeOK, Tiers, SectionsTyped, input
<1>3. strategy \in {"HEADING", "LLM_INFERRED"} /\ (strategy = "LLM_INFERRED" => fileType = "pdf")
  BY <1>1 DEF LadderInv, AssembleInv
<1> QED
  BY <1>1, <1>2, <1>3, AssembleStep DEF input

LEMMA ReadHeadingKeeps == ASSUME LadderInv, ReadHeading PROVE LadderInv'
<1> DEFINE e == Head(todo)
           h == [level |-> e.level, text |-> Visible(e.lines)]
           more == Append(PopTo(e.level), h)
           s == Section(more, <<>>, <<>>, NoPage, NoPage)
<1>1. Reading("heading") /\ stack' = more /\ sections' = Append(sections, Section(stack', <<>>, <<>>, NoPage, NoPage))
  BY DEF ReadHeading
<1>2. /\ todo # <<>> /\ e.kind = "heading" /\ e \in Element
      /\ Assembling(elements, todo, sections) /\ stack \in SeqOver(Heading)
  BY <1>1, ReadingIs
<1>3. sections' = Append(sections, s)
  BY <1>1
<1> HIDE DEF e
<1>4. h \in Heading
  BY <1>2, ElementFacts, VisibleIs DEF Heading
<1>5. more \in SeqOver(Heading) /\ Last(more) = h /\ more # <<>>
  BY <1>2, <1>4, PopToType, AppendType, LastIs
<1>6. h.text = Visible(e.lines)
  OBVIOUS
<1> HIDE DEF more, h
<1>7. s \in Numbered /\ SectionF[s] = LineF[e] /\ TableF[s] = <<>>
  BY <1>2, <1>5, <1>6, BareSection, LineFValue
<1>8. Keeping[e] = <<>>
  BY <1>2, KeepingFacts DEF IsTable
<1> HIDE DEF s
<1>9. Assembling(elements, Tail(todo), sections')
  BY <1>2, <1>3, <1>7, <1>8, AssemblyGrows DEF e
<1> QED
  BY <1>1, <1>5, <1>9, ReadKeeps

LEMMA ReadTableKeeps == ASSUME LadderInv, ReadTable PROVE LadderInv'
<1> DEFINE e == Head(todo)
           last == sections[Len(sections)]
           s == [last EXCEPT !.tables = Append(@, e)]
<1>1. Reading("table") /\ stack' = stack
      /\ sections' = [sections EXCEPT ![Len(sections)].tables = Append(@, Head(todo))]
  BY DEF ReadTable
<1>2. /\ todo # <<>> /\ e.kind = "table" /\ e \in Element
      /\ Assembling(elements, todo, sections) /\ stack \in SeqOver(Heading)
      /\ sections \in SeqOver(Numbered) /\ sections # <<>>
  BY <1>1, ReadingIs
<1>3. last \in Numbered
  BY <1>2, LastType
<1>4. sections' = WithLast(sections, s)
  BY <1>1, Zenon DEF WithLast
<1> HIDE DEF last, e
<1>5. last \in Sections /\ last.tables \in SeqOver(Element)
  BY <1>3, SectionFValue, SectionFacts
<1>6. Append(last.tables, e) \in SeqOver(Element) /\ Append(last.tables, e) = Join(last.tables, <<e>>)
  BY <1>2, <1>5, AppendType, AppendIsJoin
<1>7. s \in Numbered /\ s.path = last.path /\ s.blocks = last.blocks /\ s.tables = Append(last.tables, e)
  BY <1>3, <1>6 DEF Numbered, Sections
<1> HIDE DEF s
<1>8. Title(s) = Title(last)
  BY <1>7 DEF Title
<1>9. SectionF[s] = SectionF[last] /\ SectionF[last] \in SeqOver(Line)
  BY <1>3, <1>7, <1>8, SectionFValue
<1>10. TableF[s] = Join(TableF[last], <<e>>)
  BY <1>3, <1>6, <1>7, SectionFValue
<1>11. LineF[e] = <<>> /\ Keeping[e] = <<e>>
  BY <1>2, Wordless, KeepingFacts DEF Texts, IsTable
<1>12. SectionF[s] = Join(SectionF[last], LineF[e])
  BY <1>9, <1>11, JoinNothing
<1>13. Assembling(elements, Tail(todo), sections')
  BY <1>2, <1>4, <1>7, <1>10, <1>11, <1>12, AssemblyFills DEF e, last
<1> QED
  BY <1>1, <1>2, <1>13, ReadKeeps

LEMMA ReadTextKeeps == ASSUME LadderInv, ReadText PROVE LadderInv'
<1> DEFINE e == Head(todo)
           last == sections[Len(sections)]
           block == [order |-> Len(last.blocks), page |-> e.page, lines |-> Visible(e.lines)]
           s == [last EXCEPT !.blocks = Append(@, block),
                             !.start = IF @ = NoPage THEN e.page ELSE @,
                             !.end = IF e.page = NoPage THEN @ ELSE e.page]
<1>1. /\ Reading("text") /\ stack' = stack
      /\ sections' = IF HasText(e) THEN WithLast(sections, s) ELSE sections
  BY Zenon DEF ReadText, WithLast, Last
<1>2. /\ todo # <<>> /\ e.kind = "text" /\ e \in Element
      /\ Assembling(elements, todo, sections) /\ stack \in SeqOver(Heading)
      /\ sections \in SeqOver(Numbered) /\ sections # <<>>
  BY <1>1, ReadingIs
<1>3. last \in Numbered
  BY <1>2, LastType
<1> HIDE DEF last, e
<1>4. Keeping[e] = <<>> /\ LineF[e] = Visible(e.lines) /\ LineF[e] \in SeqOver(Line)
  BY <1>2, KeepingFacts, LineFValue DEF IsTable
<1>5. CASE ~HasText(e)
  <2>1. LineF[e] = <<>>
    BY <1>4, <1>5 DEF HasText
  <2>2. Assembling(elements, Tail(todo), sections)
    BY <1>2, <1>4, <2>1, AssemblySkips DEF e
  <2> QED
    BY <1>1, <1>2, <1>5, <2>2, ReadKeeps
<1>6. CASE HasText(e)
  <2>1. last \in Sections /\ last.blocks \in SeqOver(Block) /\ last.tables \in SeqOver(Element)
        /\ last.start \in 0..MaxPages /\ last.end \in 0..MaxPages /\ Title(last) \in SeqOver(Line)
    BY <1>3, SectionFValue, SectionFacts
  <2>2. e.page \in 0..MaxPages
    BY <1>2, ElementFacts
  <2>3. Len(last.blocks) \in Nat
    BY <2>1, Items
  <2>4. block \in Block
    BY <1>4, <2>2, <2>3 DEF Block
  <2>5. block.order = Len(last.blocks) /\ BlockF[block] = LineF[e]
    BY <1>4, <2>4 DEF BlockF
  <2> HIDE DEF block
  <2>6. Append(last.blocks, block) \in SeqOver(Block)
    BY <2>1, <2>4, AppendType
  <2>7. \A k \in DOMAIN Append(last.blocks, block) : Append(last.blocks, block)[k].order = k - 1
    <3>1. \A k \in DOMAIN last.blocks : last.blocks[k].order = k - 1
      BY <1>3 DEF Numbered
    <3>2. /\ DOMAIN last.blocks = 1..Len(last.blocks) /\ DOMAIN Append(last.blocks, block) = 1..(Len(last.blocks) + 1)
          /\ Append(last.blocks, block)[Len(last.blocks) + 1] = block
          /\ \A k \in 1..Len(last.blocks) : Append(last.blocks, block)[k] = last.blocks[k]
      BY <2>1 DEF SeqOver
    <3>3. \A k \in 1..(Len(last.blocks) + 1) : k \in 1..Len(last.blocks) \/ k = Len(last.blocks) + 1
      BY <2>3
    <3> QED
      BY <2>3, <2>5, <3>1, <3>2, <3>3
  <2>8. s \in Numbered /\ s.path = last.path /\ s.blocks = Append(last.blocks, block) /\ s.tables = last.tables
    <3> DEFINE start == IF last.start = NoPage THEN e.page ELSE last.start
               end == IF e.page = NoPage THEN last.end ELSE e.page
    <3>1. start \in 0..MaxPages /\ end \in 0..MaxPages
      BY <2>1, <2>2
    <3>2. s = [last EXCEPT !.blocks = Append(last.blocks, block), !.start = start, !.end = end]
      BY <2>1 DEF Sections
    <3> HIDE DEF start, end, s
    <3>3. s \in Sections /\ s.path = last.path /\ s.blocks = Append(last.blocks, block) /\ s.tables = last.tables
      BY <2>1, <2>6, <3>1, <3>2 DEF Sections
    <3> QED
      BY <2>7, <3>3 DEF Numbered
  <2> HIDE DEF s
  <2>9. Title(s) = Title(last)
    BY <2>8 DEF Title
  <2>10. Gather(BlockF, Append(last.blocks, block)) = Join(Gather(BlockF, last.blocks), LineF[e])
         /\ Gather(BlockF, last.blocks) \in SeqOver(Line)
    BY <2>1, <2>4, <2>5, BlockFType, GatherAppend, GatherType
  <2>11. SectionF[s] = Join(SectionF[last], LineF[e])
    <3>1. SectionF[s] = Join(Title(last), Join(Gather(BlockF, last.blocks), LineF[e]))
      BY <2>8, <2>9, <2>10, SectionFValue
    <3>2. SectionF[last] = Join(Title(last), Gather(BlockF, last.blocks))
      BY <1>3, SectionFValue
    <3> QED
      BY <1>4, <2>1, <2>10, <3>1, <3>2, JoinAssociative
  <2>12. TableF[s] = Join(TableF[last], Keeping[e])
    BY <1>3, <1>4, <2>1, <2>8, SectionFValue, JoinNothing
  <2>13. Assembling(elements, Tail(todo), sections')
    BY <1>1, <1>2, <1>6, <2>8, <2>11, <2>12, AssemblyFills DEF e, last
  <2> QED
    BY <1>1, <1>2, <2>13, ReadKeeps
<1> QED
  BY <1>5, <1>6

LEMMA FinishKeeps ==
  ASSUME LadderInv, phase = "assemble", todo = <<>>, phase' = "built", strategy' \in {"HEADING", "LLM_INFERRED"},
         sections' = Assembled, UNCHANGED <<input, attempt, confirmed, todo, stack>>
  PROVE  LadderInv'
<1>1. elements \in SeqOver(Element) /\ Assembling(elements, <<>>, sections)
  BY DEF LadderInv, DocInv, AssembleInv
<1>2. sections' = Trimmed(sections)
  BY DEF Assembled, Trimmed
<1>3. Whole(elements, sections')
  BY <1>1, <1>2, AssemblyEnds
<1>4. InOrderOf(elements, sections') /\ CoveredBy(elements, sections') /\ TablesOnce(elements, sections')
  BY <1>1, <1>3, WholeReads
<1>5. TypeOK'
  <2>1. SectionsTyped(sections')
    BY <1>3, WholeType, SectionsHaveTypes DEF Whole
  <2> QED
    BY <2>1 DEF LadderInv, TypeOK, Tiers, SectionsTyped, input
<1> QED
  BY <1>4, <1>5, FinalStep DEF input

----------------------------------------------------------------------------
\* Every step keeps the invariant.

LEMMA PhaseStep ==
  ASSUME LadderInv, phase' \in {"ask", "page", "raised"}, phase' # "raised" => fileType = "pdf",
         attempt' \in 0..2, UNCHANGED <<input, strategy, confirmed, todo, stack, sections>>
  PROVE  LadderInv'
<1>1. TypeOK'
  BY DEF LadderInv, TypeOK, input
<1> QED
  BY <1>1, QuietStep DEF input

LEMMA ParserKeeps == ASSUME LadderInv, ParserNext PROVE LadderInv'
<1>1. CASE ExtractNext
  BY <1>1, ExtractNextKeeps
<1>2. CASE Refuse
  BY <1>2, ConvertedKeeps DEF Refuse
<1>3. CASE Accept
  BY <1>3, ConvertedKeeps DEF Accept
<1>4. CASE BuildSlides
  BY <1>4, SlidesKeep
<1>5. CASE BuildFlat
  BY <1>5, FlatKeeps
<1>6. CASE StartHeadings
  BY <1>6, StartHeadingsKeeps
<1>7. attempt \in 0..2
  BY DEF LadderInv, TypeOK
<1>8. CASE SkipLlm
  BY <1>7, <1>8, PhaseStep DEF SkipLlm, LadderLeft, ToPages
<1>9. CASE StartLlm
  BY <1>9, PhaseStep DEF StartLlm, LadderLeft
<1>10. CASE ReadHeading
  BY <1>10, ReadHeadingKeeps
<1>11. CASE ReadTable
  BY <1>11, ReadTableKeeps
<1>12. CASE ReadText
  BY <1>12, ReadTextKeeps
<1>13. CASE FinishHeadings
  BY <1>13, FinishKeeps DEF FinishHeadings, Built
<1>14. CASE FinishLlm
  <2>1. phase = "assemble" /\ todo = <<>> /\ strategy = "LLM_INFERRED"
    BY <1>14 DEF FinishLlm
  <2>2. fileType = "pdf"
    BY <2>1 DEF LadderInv, AssembleInv
  <2>3. \/ Built("LLM_INFERRED", Assembled) /\ UNCHANGED <<input, attempt, confirmed, todo, stack>>
        \/ ToPages("assemble") /\ UNCHANGED attempt
    BY <1>14 DEF FinishLlm
  <2>4. CASE Built("LLM_INFERRED", Assembled) /\ UNCHANGED <<input, attempt, confirmed, todo, stack>>
    BY <2>1, <2>4, FinishKeeps DEF Built
  <2>5. CASE ToPages("assemble") /\ UNCHANGED attempt
    BY <1>7, <2>2, <2>5, PhaseStep DEF ToPages
  <2> QED
    BY <2>3, <2>4, <2>5
<1>15. CASE BuildPages
  BY <1>15, PagesKeep
<1> QED
  BY <1>1, <1>2, <1>3, <1>4, <1>5, <1>6, <1>8, <1>9, <1>10, <1>11, <1>12, <1>13, <1>14, <1>15 DEF ParserNext

LEMMA ModelKeeps == ASSUME LadderInv, ModelNext PROVE LadderInv'
<1>1. phase = "ask" /\ fileType = "pdf" /\ attempt \in 0..2
  BY DEF ModelNext, LadderInv, PdfOnly, TypeOK
<1>2. CASE \E answer \in Answers : ModelAnswers(answer)
  BY <1>2, AnswerKeeps
<1>3. CASE ModelBabbles
  <2>1. CASE attempt < 2 /\ attempt' = attempt + 1 /\ UNCHANGED <<input, phase, strategy, confirmed, todo, stack, sections>>
    BY <1>1, <2>1, PhaseStep
  <2>2. CASE ToPages("ask") /\ UNCHANGED attempt
    BY <1>1, <2>2, PhaseStep DEF ToPages
  <2> QED
    BY <1>3, <2>1, <2>2 DEF ModelBabbles
<1>4. CASE ModelFails
  <2>1. attempt' \in 0..2
    BY <1>1, <1>4 DEF ModelFails
  <2> QED
    BY <1>4, <2>1, PhaseStep DEF ModelFails
<1> QED
  BY <1>2, <1>3, <1>4 DEF ModelNext

LEMMA StepLadder == LadderInv /\ [Next]_vars => LadderInv'
<1> SUFFICES ASSUME LadderInv, [Next]_vars PROVE LadderInv'
  OBVIOUS
<1>1. CASE ParserNext
  BY <1>1, ParserKeeps
<1>2. CASE ModelNext
  BY <1>2, ModelKeeps
<1>3. CASE ClassifierUnavailable
  <2>1. attempt' \in 0..2
    BY <1>3 DEF ClassifierUnavailable, LadderInv, TypeOK
  <2> QED
    BY <1>3, <2>1, PhaseStep DEF ClassifierUnavailable
<1>4. CASE UNCHANGED vars
  <2>1. UNCHANGED <<fileType, classifier, pageCount, elements, seenFirst, phase, strategy, attempt, confirmed, todo, stack, sections>>
    BY <1>4 DEF vars, input
  <2>2. TypeOK' /\ DocInv' /\ AssembleInv' /\ PdfOnly'
    BY <2>1 DEF LadderInv, TypeOK, DocInv, AssembleInv, PdfOnly
  <2>3. NothingLost' /\ ReadingOrderKept'
    BY <2>1 DEF LadderInv, NothingLost, ReadingOrderKept, ReadingOrder, Won
  <2> QED
    BY <2>2, <2>3 DEF LadderInv
<1> QED
  BY <1>1, <1>2, <1>3, <1>4 DEF Next

\* The page tier is the only one that the property is about.
LEMMA StepPages == LadderInv /\ PagesHoldTheirText /\ [Next]_vars => PagesHoldTheirText'
<1> SUFFICES ASSUME LadderInv, PagesHoldTheirText, [Next]_vars PROVE PagesHoldTheirText'
  OBVIOUS
<1>1. CASE BuildPages
  <2>1. /\ phase = "page" /\ UNCHANGED elements
        /\ sections' = Merged(PageSections).done \o Merged(PageSections).carry
    BY <1>1 DEF BuildPages, Built, input
  <2>2. fileType = "pdf" /\ DocInv
    BY <2>1 DEF LadderInv, PdfOnly
  <2>3. elements \in SeqOver(Element) /\ \A i \in DOMAIN elements : PageOf(elements[i]) <= MaxPages
    BY <2>2, PagesBounded DEF DocInv
  <2>4. \A i \in DOMAIN elements : elements[i].id = i /\ elements[i].page # NoPage
    BY <2>2 DEF DocInv
  <2>5. /\ \A k \in DOMAIN sections' : sections'[k] \in Holding
        /\ \A k \in 1..(Len(sections') - 1) : ~IsShort(sections'[k])
    BY <2>1, <2>3, PagesDelivered
  <2>6. \A s \in Holding : \A i \in DOMAIN elements : HasText(elements[i]) =>
          (elements[i].page \in s.start..s.end <=> Lines(Visible(elements[i].lines)) \subseteq Lines(BlockLines(s)))
    BY <2>3, <2>4, HoldingReads
  <2> QED
    BY <2>1, <2>5, <2>6 DEF PagesHoldTheirText
<1>2. CASE UNCHANGED vars
  BY <1>2 DEF vars, input, PagesHoldTheirText, Won
<1>3. CASE ~BuildPages /\ ~UNCHANGED vars
  <2>1. phase' # "built" \/ strategy' # "PAGE"
    <3>1. CASE ParserNext
      <4>1. CASE ExtractNext
        BY <4>1 DEF ExtractNext, ExtractTable, ExtractTitle, ExtractHeader, ExtractText, Extract
      <4>2. CASE Refuse \/ Accept
        BY <4>2 DEF Refuse, Accept, Converted
      <4>3. CASE BuildSlides \/ BuildFlat
        BY <4>3 DEF BuildSlides, BuildFlat, Built
      <4>4. CASE StartHeadings \/ SkipLlm \/ StartLlm
        BY <4>4 DEF StartHeadings, SkipLlm, StartLlm, Assemble, ToPages
      <4>5. CASE ReadHeading \/ ReadTable \/ ReadText
        BY <4>5 DEF ReadHeading, ReadTable, ReadText, Reading
      <4>6. CASE FinishHeadings \/ FinishLlm
        BY <4>6 DEF FinishHeadings, FinishLlm, Built, ToPages
      <4> QED
        BY <1>3, <3>1, <4>1, <4>2, <4>3, <4>4, <4>5, <4>6 DEF ParserNext
    <3>2. CASE ModelNext
      BY <3>2 DEF ModelNext, ModelAnswers, ModelBabbles, ModelFails, Assemble, ToPages
    <3>3. CASE ClassifierUnavailable
      BY <3>3 DEF ClassifierUnavailable
    <3> QED
      BY <1>3, <3>1, <3>2, <3>3 DEF Next
  <2> QED
    BY <2>1 DEF PagesHoldTheirText, Won
<1> QED
  BY <1>1, <1>2, <1>3

----------------------------------------------------------------------------
\* What build_sections_heading files stays filed.

\* The part of the stream read so far is filed under its headings, and only lines the
\* classifier was asked about have been promoted.
FiledInv ==
  phase = "assemble" =>
    /\ \E r \in Nat : Filing(Source, r, todo, stack, sections)
    /\ strategy = "LLM_INFERRED" => DOMAIN confirmed \subseteq Candidates
HeadedInv == FiledInv /\ FiledUnderItsHeadings /\ PromotedUnlessBlank

LEMMA SourceIs ==
  ASSUME LadderInv
  PROVE  /\ Source = IF strategy = "LLM_INFERRED" THEN Promotion(elements, confirmed) ELSE elements
         /\ elements \in SeqOver(Element) /\ Source \in SeqOver(Element)
         /\ \A c \in DOMAIN confirmed : confirmed[c] \in Int
         /\ Gather(LineF, Source) = Gather(LineF, elements) /\ Gather(Keeping, Source) = Gather(Keeping, elements)
<1>1. elements \in SeqOver(Element) /\ \A c \in DOMAIN confirmed : confirmed[c] \in Int
  BY DEF LadderInv, DocInv, TypeOK
<1>2. Promoted(confirmed) = Promotion(elements, confirmed)
  BY Zenon DEF Promoted, Promotion
<1> QED
  BY <1>1, <1>2, PromotionKeeps DEF Source

\* A step that neither assembles nor delivers what has been assembled.
LEMMA UnheadedStep ==
  ASSUME phase' # "assemble", ~(phase' = "built" /\ strategy' \in {"HEADING", "LLM_INFERRED"})
  PROVE  HeadedInv'
BY DEF HeadedInv, FiledInv, FiledUnderItsHeadings, PromotedUnlessBlank, PromotedAreConfirmed, Won

\* A step that reads one element.
LEMMA HeadedRead ==
  ASSUME HeadedInv, NEW kind, Reading(kind), NEW r \in Nat, Filing(Source, r + 1, Tail(todo), stack', sections')
  PROVE  HeadedInv'
<1>1. /\ phase = "assemble" /\ phase' = "assemble" /\ todo' = Tail(todo)
      /\ UNCHANGED <<input, strategy, confirmed>>
  BY DEF Reading
<1>2. Source' = Source /\ Candidates' = Candidates
  BY <1>1 DEF Source, Promoted, input, Candidates
<1>3. Filing(Source, r + 1, todo', stack', sections') /\ r + 1 \in Nat
  BY <1>1
<1>4. FiledInv'
  BY <1>1, <1>2, <1>3 DEF HeadedInv, FiledInv
<1> QED
  BY <1>1, <1>4 DEF HeadedInv, FiledUnderItsHeadings, PromotedUnlessBlank, PromotedAreConfirmed, Won

\* What the readers have in common.
LEMMA HeadedReading ==
  ASSUME LadderInv, HeadedInv, NEW kind, Reading(kind)
  PROVE  /\ Source \in SeqOver(Element) /\ todo \in SeqOver(Element) /\ todo # <<>>
         /\ Head(todo) \in Element /\ Head(todo).kind = kind
         /\ sections \in SeqOver(Sections) /\ sections # <<>> /\ stack \in SeqOver(Heading)
         /\ \E r \in Nat : Filing(Source, r, todo, stack, sections)
<1>1. /\ phase = "assemble" /\ todo # <<>> /\ Head(todo).kind = kind
      /\ Assembling(elements, todo, sections) /\ stack \in SeqOver(Heading) /\ Head(todo) \in Element
  BY ReadingIs
<1>2. todo \in SeqOver(Element) /\ sections \in SeqOver(Numbered) /\ sections # <<>>
  BY <1>1 DEF Assembling
<1>3. \E r \in Nat : Filing(Source, r, todo, stack, sections)
  BY <1>1 DEF HeadedInv, FiledInv
<1> QED
  BY <1>1, <1>2, <1>3, SourceIs, WholeType

LEMMA ReadHeadingFiles == ASSUME LadderInv, HeadedInv, ReadHeading PROVE HeadedInv'
<1> DEFINE e == Head(todo)
           more == Append(PopTo(e.level), HeadingOf(e))
           s == Section(more, <<>>, <<>>, NoPage, NoPage)
<1>1. Reading("heading") /\ stack' = more /\ sections' = Append(sections, s)
  BY DEF ReadHeading, HeadingOf
<1>2. /\ Source \in SeqOver(Element) /\ todo \in SeqOver(Element) /\ todo # <<>>
      /\ e \in Element /\ e.kind = "heading" /\ sections \in SeqOver(Sections) /\ stack \in SeqOver(Heading)
  BY <1>1, HeadedReading
<1>3. PICK r \in Nat : Filing(Source, r, todo, stack, sections)
  BY <1>1, HeadedReading
<1> HIDE DEF e
<1>4. HeadingOf(e) \in Heading
  BY <1>2, HeadingOfType
<1>5. more \in SeqOver(Heading) /\ Last(more) = HeadingOf(e) /\ more # <<>>
  BY <1>2, <1>4, PopToType, AppendType, LastIs
<1>6. HeadingOf(e).text = Visible(e.lines)
  BY DEF HeadingOf
<1> DEFINE top == more
<1>7. s.path = top /\ s.blocks = <<>> /\ s.tables = <<>>
  BY DEF Section
<1> HIDE DEF more
<1>8. s \in Sections /\ Title(s) = LineF[e]
  <2>1. s \in Numbered
    BY <1>2, <1>5, <1>6, BareSection, LineFValue
  <2>2. Title(s) = Last(more).text
    BY <1>5, <1>7 DEF Title
  <2> QED
    BY <1>2, <1>5, <1>6, <2>1, <2>2, SectionFValue, LineFValue
<1> HIDE DEF s
<1>9. Filing(Source, r + 1, Tail(todo), more, Append(sections, s))
  BY <1>2, <1>3, <1>7, <1>8, FilingOpens DEF e, more
<1> QED
  BY <1>1, <1>9, HeadedRead

LEMMA ReadTableFiles == ASSUME LadderInv, HeadedInv, ReadTable PROVE HeadedInv'
<1> DEFINE e == Head(todo)
           last == sections[Len(sections)]
           s == [last EXCEPT !.tables = Append(@, e)]
<1>1. Reading("table") /\ stack' = stack
      /\ sections' = [sections EXCEPT ![Len(sections)].tables = Append(@, Head(todo))]
  BY DEF ReadTable
<1>2. /\ Source \in SeqOver(Element) /\ todo \in SeqOver(Element) /\ todo # <<>>
      /\ e \in Element /\ e.kind = "table" /\ sections \in SeqOver(Sections) /\ sections # <<>>
  BY <1>1, HeadedReading
<1>3. PICK r \in Nat : Filing(Source, r, todo, stack, sections)
  BY <1>1, HeadedReading
<1>4. sections' = WithLast(sections, s)
  BY <1>1, Zenon DEF WithLast
<1>5. last \in Sections /\ last.tables \in SeqOver(Element)
  BY <1>2, LastType, SectionFacts
<1>6. e = Source[r + 1] /\ r \in Nat
  BY <1>2, <1>3, FilingNext
<1>7. last.path = Enclosing(Source, r) /\ WellFiled(last, Source, r)
  <2>1. last \in ToSet(sections)
    BY <1>2, Items DEF ToSet, SeqOver
  <2> QED
    BY <1>3, <2>1 DEF Filing
<1> HIDE DEF last, e
<1>8. Append(last.tables, e) \in SeqOver(Element) /\ ToSet(Append(last.tables, e)) = ToSet(last.tables) \cup {e}
  BY <1>2, <1>5, AppendType, ToSetAppend
<1>9. s \in Sections /\ s.path = last.path /\ s.blocks = last.blocks /\ s.tables = Append(last.tables, e)
  BY <1>5, <1>8 DEF Sections
<1> HIDE DEF s
<1>10. last.path = Enclosing(Source, r + 1)
  BY <1>2, <1>6, <1>7, EnclosingStays
<1>11. WellFiled(s, Source, r + 1)
  <2>1. WellFiled(last, Source, r + 1) /\ r + 1 \in 1..(r + 1)
    BY <1>6, <1>7, WellFiledStays
  <2>2. IsTable(e)
    BY <1>2 DEF IsTable
  <2> QED
    BY <1>6, <1>8, <1>9, <1>10, <2>1, <2>2 DEF WellFiled
<1>12. Filing(Source, r + 1, Tail(todo), stack, WithLast(sections, s))
  BY <1>2, <1>3, <1>9, <1>11, FilingFills DEF last, e
<1> QED
  BY <1>1, <1>4, <1>12, HeadedRead

LEMMA ReadTextFiles == ASSUME LadderInv, HeadedInv, ReadText PROVE HeadedInv'
<1> DEFINE e == Head(todo)
           last == sections[Len(sections)]
           block == [order |-> Len(last.blocks), page |-> e.page, lines |-> Visible(e.lines)]
           s == [last EXCEPT !.blocks = Append(@, block),
                             !.start = IF @ = NoPage THEN e.page ELSE @,
                             !.end = IF e.page = NoPage THEN @ ELSE e.page]
<1>1. /\ Reading("text") /\ stack' = stack
      /\ sections' = IF HasText(e) THEN WithLast(sections, s) ELSE sections
  BY Zenon DEF ReadText, WithLast, Last
<1>2. /\ Source \in SeqOver(Element) /\ todo \in SeqOver(Element) /\ todo # <<>>
      /\ e \in Element /\ e.kind = "text" /\ sections \in SeqOver(Sections) /\ sections # <<>>
  BY <1>1, HeadedReading
<1>3. PICK r \in Nat : Filing(Source, r, todo, stack, sections)
  BY <1>1, HeadedReading
<1>4. e = Source[r + 1] /\ r \in Nat
  BY <1>2, <1>3, FilingNext
<1>5. CASE ~HasText(e)
  <2>1. Filing(Source, r + 1, Tail(todo), stack, sections)
    BY <1>2, <1>3, FilingSkips
  <2> QED
    BY <1>1, <1>5, <2>1, HeadedRead
<1>6. CASE HasText(e)
  <2>1. last \in Sections /\ last.blocks \in SeqOver(Block) /\ Len(last.blocks) \in Nat
        /\ last.start \in 0..MaxPages /\ last.end \in 0..MaxPages
    BY <1>2, LastType, SectionFacts, Items
  <2>2. last.path = Enclosing(Source, r) /\ WellFiled(last, Source, r)
    <3>1. last \in ToSet(sections)
      BY <1>2, Items DEF ToSet, SeqOver
    <3> QED
      BY <1>3, <3>1 DEF Filing
  <2> HIDE DEF last, e
  <2>3. e.page \in 0..MaxPages /\ LineF[e] = Visible(e.lines) /\ LineF[e] \in SeqOver(Line)
    BY <1>2, ElementFacts, LineFValue
  <2>4. block \in Block /\ block.lines = LineF[e]
    BY <2>1, <2>3 DEF Block
  <2> HIDE DEF block
  <2>5. Append(last.blocks, block) \in SeqOver(Block) /\ ToSet(Append(last.blocks, block)) = ToSet(last.blocks) \cup {block}
    BY <2>1, <2>4, AppendType, ToSetAppend
  <2>6. s \in Sections /\ s.path = last.path /\ s.blocks = Append(last.blocks, block) /\ s.tables = last.tables
    <3> DEFINE start == IF last.start = NoPage THEN e.page ELSE last.start
               end == IF e.page = NoPage THEN last.end ELSE e.page
    <3>1. start \in 0..MaxPages /\ end \in 0..MaxPages
      BY <2>1, <2>3
    <3>2. s = [last EXCEPT !.blocks = Append(last.blocks, block), !.start = start, !.end = end]
      BY <2>1 DEF Sections
    <3> HIDE DEF start, end, s
    <3> QED
      BY <2>1, <2>5, <3>1, <3>2 DEF Sections
  <2> HIDE DEF s
  <2>7. last.path = Enclosing(Source, r + 1)
    BY <1>2, <1>4, <2>2, EnclosingStays
  <2>8. e \in Texts
    BY <1>2, <1>6 DEF Texts, IsTable
  <2>9. WellFiled(s, Source, r + 1)
    <3>1. WellFiled(last, Source, r + 1) /\ r + 1 \in 1..(r + 1)
      BY <1>4, <2>2, WellFiledStays
    <3> QED
      BY <1>4, <2>4, <2>5, <2>6, <2>7, <2>8, <3>1 DEF WellFiled
  <2>10. Filing(Source, r + 1, Tail(todo), stack, WithLast(sections, s))
    BY <1>2, <1>3, <2>6, <2>9, FilingFills DEF last, e
  <2> QED
    BY <1>1, <1>6, <2>10, HeadedRead
<1> QED
  BY <1>5, <1>6

LEMMA FinishFiles ==
  ASSUME LadderInv, HeadedInv, phase = "assemble", todo = <<>>, phase' = "built", sections' = Assembled,
         UNCHANGED <<input, strategy, confirmed>>
  PROVE  HeadedInv'
<1>1. elements \in SeqOver(Element) /\ Assembling(elements, <<>>, sections)
  BY DEF LadderInv, DocInv, AssembleInv
<1>2. sections \in SeqOver(Sections) /\ sections # <<>> /\ sections[1].path = <<>>
  BY <1>1, WholeType DEF Assembling
<1>3. sections' = Trimmed(sections)
  BY DEF Assembled, Trimmed
<1>4. ToSet(sections') \subseteq ToSet(sections) /\ Titles(sections') = Titles(sections)
  BY <1>2, <1>3, TrimmedKeeps
<1>5. /\ Source = IF strategy = "LLM_INFERRED" THEN Promotion(elements, confirmed) ELSE elements
      /\ Source \in SeqOver(Element) /\ \A c \in DOMAIN confirmed : confirmed[c] \in Int
      /\ Gather(LineF, Source) = Gather(LineF, elements) /\ Gather(Keeping, Source) = Gather(Keeping, elements)
  BY SourceIs
<1>6. PICK r \in Nat : Filing(Source, r, <<>>, stack, sections)
  BY DEF HeadedInv, FiledInv
<1>7. r = Len(Source)
  <2>1. r \in 0..Len(Source) /\ Len(<<>>) = Len(Source) - r /\ Len(Source) \in Nat
    BY <1>5, <1>6, Items DEF Filing
  <2> QED
    BY <2>1
<1>8. (\A s \in ToSet(sections) : WellFiled(s, Source, Len(Source))) /\ Titles(sections) = HeadingLines(Source, Len(Source))
  BY <1>6, <1>7 DEF Filing
<1>9. \A i \in DOMAIN elements :
        elements[i].id = i /\ \A j \in DOMAIN elements[i].lines : elements[i].lines[j].at = <<i, j>>
  BY DEF LadderInv, DocInv
<1>10. Apart(LineF, Source) /\ Apart(Keeping, Source)
  BY <1>1, <1>5, <1>9, StreamDistinct
<1>11. Source' = Source /\ elements' = elements
  BY DEF Source, Promoted, input
<1>12. FiledUnderItsHeadings'
  <2>1. \A s \in ToSet(sections') : WellFiled(s, Source, Len(Source))
    BY <1>4, <1>8
  <2>2. ASSUME NEW k \in DOMAIN sections', NEW i \in DOMAIN Source,
               \/ Source[i] \in Lines(sections'[k].tables)
               \/ \E b \in DOMAIN sections'[k].blocks : Visible(Source[i].lines) = sections'[k].blocks[b].lines
        PROVE  sections'[k].path = Enclosing(Source, i)
    <3>1. sections'[k] \in ToSet(sections')
      BY DEF ToSet
    <3>2. WellFiled(sections'[k], Source, Len(Source))
      BY <2>1, <3>1
    <3> QED
      BY <1>5, <1>10, <2>2, <3>2, FiledReads
  <2> QED
    BY <1>11, <2>2 DEF FiledUnderItsHeadings
<1>13. PromotedUnlessBlank'
  <2> SUFFICES ASSUME ~BlankInside, strategy = "LLM_INFERRED"
               PROVE  {l \in UNION {Lines(Title(sections'[k])) : k \in DOMAIN sections'} : elements[l.at[1]].kind = "text"}
                        = {Visible(elements[c[1]].lines)[c[2]] : c \in DOMAIN confirmed}
    BY <1>11 DEF PromotedUnlessBlank, PromotedAreConfirmed, Won, BlankInside
  <2>1. DOMAIN confirmed \subseteq Candidates
    BY DEF HeadedInv, FiledInv
  <2>2. UNION {Lines(Title(sections'[k])) : k \in DOMAIN sections'} = Titles(sections')
    BY TitlesAre, Zenon
  <2>3. Titles(sections') = HeadingLines(Promotion(elements, confirmed), Len(Promotion(elements, confirmed)))
    BY <1>4, <1>5, <1>8
  <2> QED
    BY <1>1, <1>5, <1>9, <2>1, <2>2, <2>3, PromotedReads
<1> QED
  BY <1>12, <1>13 DEF HeadedInv, FiledInv

LEMMA AssembleFiles ==
  ASSUME LadderInv, NEW tier \in {"HEADING", "LLM_INFERRED"}, Assemble(tier, Source'), UNCHANGED input,
         \A c \in DOMAIN confirmed' : confirmed'[c] \in Int, tier = "LLM_INFERRED" => DOMAIN confirmed' \subseteq Candidates
  PROVE  HeadedInv'
<1>1. /\ phase' = "assemble" /\ strategy' = tier /\ todo' = Source' /\ stack' = <<>>
      /\ sections' = <<Section(<<>>, <<>>, <<>>, NoPage, NoPage)>>
  BY DEF Assemble
<1>2. elements \in SeqOver(Element) /\ elements' = elements
  BY DEF LadderInv, DocInv, input
<1>3. Source' \in SeqOver(Element)
  <2>1. Promoted(confirmed)' = Promotion(elements, confirmed')
    BY <1>2, Zenon DEF Promoted, Promotion
  <2> QED
    BY <1>2, <2>1, PromotionKeeps DEF Source
<1>4. Filing(Source', 0, todo', stack', sections')
  BY <1>1, <1>3, FilingStarts
<1>5. Candidates' = Candidates
  BY <1>2 DEF Candidates
<1>6. FiledInv'
  BY <1>1, <1>4, <1>5 DEF FiledInv
<1> QED
  BY <1>1, <1>6 DEF HeadedInv, FiledUnderItsHeadings, PromotedUnlessBlank, PromotedAreConfirmed, Won

LEMMA AnswerFiles ==
  ASSUME LadderInv, NEW answer \in Answers, ModelAnswers(answer)
  PROVE  HeadedInv'
<1> DEFINE levels == [c \in (DOMAIN answer) \cap Candidates |-> Clamp(answer[c])]
<1>1. /\ confirmed' = levels /\ UNCHANGED <<input, attempt>>
      /\ Assemble("LLM_INFERRED", Promoted(levels)) \/ phase' = "page"
  BY DEF ModelAnswers
<1>2. \A c \in DOMAIN answer : answer[c] \in Int
  BY LadderAssumption DEF Answers
<1>3. DOMAIN levels \subseteq Candidates /\ \A c \in DOMAIN levels : levels[c] \in Int
  <2>1. \A c \in DOMAIN levels : levels[c] \in 1..4
    BY <1>2, ClampIs
  <2> QED
    BY <2>1
<1> HIDE DEF levels
<1>4. CASE phase' = "page"
  BY <1>4, UnheadedStep
<1>5. CASE Assemble("LLM_INFERRED", Promoted(levels))
  <2>1. strategy' = "LLM_INFERRED" /\ elements' = elements
    BY <1>1, <1>5 DEF Assemble, input
  <2>2. Source' = Promoted(levels)
    BY <1>1, <2>1 DEF Source, Promoted
  <2> QED
    BY <1>1, <1>3, <1>5, <2>2, AssembleFiles
<1> QED
  BY <1>1, <1>4, <1>5

LEMMA StepHeaded == LadderInv /\ HeadedInv /\ [Next]_vars => HeadedInv'
<1> SUFFICES ASSUME LadderInv, HeadedInv, [Next]_vars PROVE HeadedInv'
  OBVIOUS
<1>1. CASE ParserNext
  <2>1. CASE ExtractNext
    BY <2>1, UnheadedStep DEF ExtractNext, ExtractTable, ExtractTitle, ExtractHeader, ExtractText, Extract
  <2>2. CASE Refuse \/ Accept
    BY <2>2, UnheadedStep DEF Refuse, Accept, Converted
  <2>3. CASE BuildSlides \/ BuildFlat \/ BuildPages
    BY <2>3, UnheadedStep DEF BuildSlides, BuildFlat, BuildPages, Built
  <2>4. CASE SkipLlm \/ StartLlm
    BY <2>4, UnheadedStep DEF SkipLlm, StartLlm, ToPages
  <2>5. CASE StartHeadings
    <3>1. Assemble("HEADING", elements) /\ UNCHANGED <<input, confirmed>>
      BY <2>5 DEF StartHeadings
    <3>2. Source' = elements
      BY <3>1 DEF Assemble, Source, input
    <3>3. \A c \in DOMAIN confirmed' : confirmed'[c] \in Int
      BY <3>1, SourceIs
    <3> QED
      BY <3>1, <3>2, <3>3, AssembleFiles
  <2>6. CASE ReadHeading
    BY <2>6, ReadHeadingFiles
  <2>7. CASE ReadTable
    BY <2>7, ReadTableFiles
  <2>8. CASE ReadText
    BY <2>8, ReadTextFiles
  <2>9. CASE FinishHeadings
    BY <2>9, FinishFiles DEF FinishHeadings, Built
  <2>10. CASE FinishLlm
    <3>1. phase = "assemble" /\ todo = <<>> /\ strategy = "LLM_INFERRED"
      BY <2>10 DEF FinishLlm
    <3>2. CASE Built("LLM_INFERRED", Assembled) /\ UNCHANGED <<input, attempt, confirmed, todo, stack>>
      BY <3>1, <3>2, FinishFiles DEF Built
    <3>3. CASE ToPages("assemble")
      BY <3>3, UnheadedStep DEF ToPages
    <3> QED
      BY <2>10, <3>2, <3>3 DEF FinishLlm
  <2> QED
    BY <1>1, <2>1, <2>2, <2>3, <2>4, <2>5, <2>6, <2>7, <2>8, <2>9, <2>10 DEF ParserNext
<1>2. CASE ModelNext
  <2>1. CASE \E answer \in Answers : ModelAnswers(answer)
    BY <2>1, AnswerFiles
  <2>2. CASE ModelBabbles \/ ModelFails
    BY <1>2, <2>2, UnheadedStep DEF ModelNext, ModelBabbles, ModelFails, ToPages
  <2> QED
    BY <1>2, <2>1, <2>2 DEF ModelNext
<1>3. CASE ClassifierUnavailable
  BY <1>3, UnheadedStep DEF ClassifierUnavailable
<1>4. CASE UNCHANGED vars
  <2>1. UNCHANGED <<fileType, classifier, pageCount, elements, seenFirst, phase, strategy, attempt, confirmed, todo, stack, sections>>
    BY <1>4 DEF vars, input
  <2>2. Source' = Source /\ Candidates' = Candidates
    BY <2>1 DEF Source, Promoted, Candidates
  <2>3. FiledInv'
    BY <2>1, <2>2 DEF HeadedInv, FiledInv
  <2>4. FiledUnderItsHeadings'
    BY <2>1, <2>2 DEF HeadedInv, FiledUnderItsHeadings, Won
  <2>5. PromotedUnlessBlank'
    BY <2>1 DEF HeadedInv, PromotedUnlessBlank, PromotedAreConfirmed, BlankInside, Won
  <2> QED
    BY <2>3, <2>4, <2>5 DEF HeadedInv
<1> QED
  BY <1>1, <1>2, <1>3, <1>4 DEF Next

----------------------------------------------------------------------------
\* The inductive invariant holds: the document stays in page order, and while sections
\* are assembled what has been read is in them and what is left follows it.
THEOREM LadderInvariant == Spec => []LadderInv
<1> QED
  BY InitLadder, StepLadder, PTL DEF Spec

\* The phases, counts and levels of parse() stay within what their types promise.
THEOREM LadderTypes == Spec => []TypeOK
<1>1. LadderInv => TypeOK
  BY DEF LadderInv
<1> QED
  BY <1>1, LadderInvariant, PTL

\* Whatever tier wins, and whatever the classifier says, every line of the document
\* ends up under some heading or in some block, and every table in exactly one
\* section, in the order of the document (all build_sections_*).
THEOREM LadderLosesNothing == Spec => []NothingLost
<1>1. LadderInv => NothingLost
  BY DEF LadderInv
<1> QED
  BY <1>1, LadderInvariant, PTL

\* In the tiers that build on headings, declared or inferred, and in the flat one, the
\* headings and blocks of the sections read as the document does, word by word.
THEOREM LadderKeepsOrder == Spec => []ReadingOrderKept
<1>1. LadderInv => ReadingOrderKept
  BY DEF LadderInv
<1> QED
  BY <1>1, LadderInvariant, PTL

\* Where the page tier wins, a section holds the text of the pages it stands for,
\* those merged into it included, and no other; none but the last is too short.
THEOREM LadderPagesHold == Spec => []PagesHoldTheirText
<1>1. Init => PagesHoldTheirText
  BY DEF Init, PagesHoldTheirText, Won
<1> QED
  BY <1>1, StepPages, LadderInvariant, PTL DEF Spec

\* While build_sections_heading reads its stream, the stack is the chain of the headings
\* that enclose the next element, and every section is filed under such a chain.
THEOREM HeadedInvariant == Spec => []HeadedInv
<1>1. Init => HeadedInv
  BY DEF Init, HeadedInv, FiledInv, FiledUnderItsHeadings, PromotedUnlessBlank, PromotedAreConfirmed, Won
<1> QED
  BY <1>1, StepHeaded, LadderInvariant, PTL DEF Spec

\* The stack of build_sections_heading files every text and every table under exactly
\* the headings that enclose it, in the document or in the promoted stream.
THEOREM LadderFiles == Spec => []FiledUnderItsHeadings
<1>1. HeadedInv => FiledUnderItsHeadings
  BY DEF HeadedInv
<1> QED
  BY <1>1, HeadedInvariant, PTL

\* Where no line of a paragraph follows a blank one, exactly the lines the classifier
\* confirmed become headings (build_sections_llm).
THEOREM LadderPromotes == Spec => []PromotedUnlessBlank
<1>1. HeadedInv => PromotedUnlessBlank
  BY DEF HeadedInv
<1> QED
  BY <1>1, HeadedInvariant, PTL
=============================================================================
