---------------------------- MODULE SlideChunks ----------------------------
(***************************************************************************)
(* SlideChunker.chunk of chunkers/slide.py: one child per slide of a deck, *)
(* under a parent that holds the slides around it, or those of its group   *)
(* when the deck has divider slides.                                       *)
(*                                                                         *)
(* A parent's text is the sequence of the slide texts that it joins.       *)
(***************************************************************************)
EXTENDS Chunking, Integers

CONSTANTS
  Slides,       \* the slides a deck may have: heading, body, number of tables
  MaxSlides,    \* bound of the deck
  SlideWindow   \* the setting of this name

ASSUME SlideSettingsAssumption == SlideWindow \in Nat
ASSUME SlidesAssumption == Slides \subseteq [heading : Seq(STRING), body : Seq(STRING), tables : Nat]

SlideTypes == {"pptx"}  \* file_types of the chunker

\* Empty slides have sections too (build_sections_slides).
Deck(type, slides) == [type |-> type, sections |-> slides, orphans |-> <<>>]

SlideText(slide) == slide.heading \o slide.body

IsEmptySlide(slide) == slide.heading = <<>> /\ slide.body = <<>>
IsDivider(slide)    == slide.heading # <<>> /\ slide.body = <<>>

\* The slides of the deck that are not empty, by number; the others are counted
\* into raw_metadata.
Places(seq) == [k \in DOMAIN seq |-> k]
Kept        == Only(Places(doc.sections), {k \in DOMAIN doc.sections : ~IsEmptySlide(doc.sections[k])})
EmptySlides == Len(doc.sections) - Len(Kept)
KeptTexts   == [i \in DOMAIN Kept |-> SlideText(doc.sections[Kept[i]])]

\* _parent_windows: the text around the i-th slide.
ParentWindow(i) ==
  SubSeq(KeptTexts, Max({1, i - SlideWindow}), Min({Len(Kept), i + SlideWindow}))

MutGroupOf(i) == Max({1} \cup {j \in 2..i - 1 : IsDivider(doc.sections[Kept[j]])})  \* a bug: a divider ends its group

\* _section_windows: where the group of the i-th slide starts, and its text.
GroupOf(i) == Max({1} \cup {j \in 2..i : IsDivider(doc.sections[Kept[j]])})
SectionWindow(i) ==
  LET members == Only(Places(Kept), {j \in DOMAIN Kept : GroupOf(j) = GroupOf(i)})
  IN  [m \in DOMAIN members |-> KeptTexts[members[m]]]

UseSections == \E i \in DOMAIN Kept : IsDivider(doc.sections[Kept[i]])
WindowOf(i) == IF UseSections THEN SectionWindow(i) ELSE ParentWindow(i)

\* _child_pieces: an oversized slide is cut wherever the semantic splitter likes, and
\* nothing looks at the sizes of its pieces.
ChildPieces(text) ==
  IF Len(text) <= MaxChildTokens THEN {<<text>>} ELSE {Pieces(text, cuts) : cuts \in Cuts(text)}

\* get_parent: the place of the parent with this text, a new one unless it exists.
ParentFor(text) ==
  LET same == {i \in ParentsOf("slide") : chunks[i].text = text}
  IN  IF same = {} THEN Len(chunks) + 1 ELSE Min(same)

NextSlide == doc.type \in SlideTypes /\ section < Len(doc.sections)

SkipSlide ==
  /\ NextSlide /\ IsEmptySlide(doc.sections[section + 1])
  /\ section' = section + 1
  /\ UNCHANGED <<doc, childOrd, parentOrd, chunks>>

EmitSlide ==
  /\ NextSlide /\ ~IsEmptySlide(doc.sections[section + 1])
  /\ section' = section + 1
  /\ \E pieces \in ChildPieces(SlideText(doc.sections[section'])) :
       LET window == WindowOf(CHOOSE i \in DOMAIN Kept : Kept[i] = section')
           parent == ParentFor(window)
           isNew  == parent > Len(chunks)
       IN  /\ chunks' = (IF isNew THEN Append(chunks, Chunk("parent", "slide", NoParent, parentOrd, section', window))
                         ELSE chunks) \o ChildChunks("slide", parent, section', pieces)
           /\ parentOrd' = parentOrd + (IF isNew THEN 1 ELSE 0)
           /\ childOrd' = childOrd + Len(pieces)
  /\ UNCHANGED doc

SlideNext == SkipSlide \/ EmitSlide

----------------------------------------------------------------------------
\* Properties.

SlideDone == doc.type \in SlideTypes /\ section = Len(doc.sections)

\* "Parent = a +-slide_window context window (or a section-divider group when the
\* deck has detectable section-header slides), deduplicated by content hash"
\* (slide.py): two slides share a window if fewer than slide_window slides with text
\* lie between them, and a group if no divider comes after the one up to and with
\* the other; empty slides count nowhere.  No two parents are equal or without child.
Together(a, b) ==
  LET texts   == {s \in DOMAIN doc.sections : SlideText(doc.sections[s]) # <<>>}
      divided == {s \in texts : doc.sections[s].body = <<>>}
  IN  /\ a \in texts
      /\ IF divided # {} THEN {s \in divided : Min({a, b}) < s /\ s <= Max({a, b})} = {}
         ELSE a = b \/ Cardinality({s \in texts : Min({a, b}) < s /\ s < Max({a, b})}) < SlideWindow
ParentsAreWindows ==
  /\ \A i \in DOMAIN chunks : (chunks[i].block = "slide" /\ chunks[i].role = "child") =>
       LET window == Only(Places(doc.sections), {s \in DOMAIN doc.sections : Together(s, chunks[i].section)})
       IN  chunks[chunks[i].parent].text = [w \in DOMAIN window |-> SlideText(doc.sections[window[w]])]
  /\ \A i \in ParentsOf("slide") :
       /\ \A j \in ParentsOf("slide") : chunks[i].text = chunks[j].text => i = j
       /\ \E c \in DOMAIN chunks : chunks[c].parent = i

\* "Tables (any) ... TableChunker (shared)" (README.md), "tables handled by table
\* chunker via section.tables" (docling_parser.py, of slides): a slide's table has a chunk.
SlideTablesChunked ==
  SlideDone => \A s \in DOMAIN doc.sections :
    doc.sections[s].tables > 0 => \E i \in DOMAIN chunks : chunks[i].block = "table" /\ chunks[i].section = s
=============================================================================
